------------------------- MODULE PublishedDocument -------------------------
(***************************************************************************)
(* What the artifact cache of app/xml_cache.py promises the clients of one *)
(* artifact: they read either nothing ("warming up") or one whole document *)
(* whose parts were read, in order, from committed database versions.      *)
(***************************************************************************)
EXTENDS Integers, Sequences

CONSTANT Chunks  \* how many database reads one document takes

VARIABLES db, published

Nothing == <<>>

\* Documents a sequence of reads of the database up to now can produce.
Readable ==
    {d \in [1..Chunks -> 0..db] :
        \A i, j \in 1..Chunks : i <= j => d[i] <= d[j]}

Init == db = 0 /\ published = Nothing

Commit == db' = db + 1 /\ UNCHANGED published

Publish == published' \in Readable /\ UNCHANGED db

Remove == published' = Nothing /\ UNCHANGED db

Next == Commit \/ Publish \/ Remove

Spec == Init /\ [][Next]_<<db, published>>
=============================================================================
