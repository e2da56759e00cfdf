----------------------------- MODULE TsStitcher -----------------------------
(***************************************************************************)
(* Joining the time stamps of MPEG-TS segments, app/routes/ts_stitcher.py: *)
(* the state of each channel, the registry that holds at most              *)
(* _MAX_CHANNELS of them, and the requests of players that fetch one       *)
(* segment of their channel after the other through pluto_segment_proxy(). *)
(*                                                                         *)
(* The registry belongs to a process.  entrypoint.sh starts two processes  *)
(* that serve requests and replaces each after some 250 of them; which one *)
(* a request reaches is left open.                                         *)
(*                                                                         *)
(* A segment is the pair of its first and last raw time stamps.  Time      *)
(* stamps wrap at Wrap (2^33 in the code).                                 *)
(***************************************************************************)
EXTENDS Integers, Sequences, FiniteSets, SequencesExt

CONSTANTS
    StitchWorkers,   \* processes that serve requests: GUNICORN_WORKERS
    StitchPlayers,   \* players
    ChannelOf,       \* the channel each of them plays
    Wrap,            \* TS_MASK + 1
    Threshold,       \* DISCONTINUITY_THRESHOLD
    Durations,       \* from the first stamp of a segment to its last
    Gaps,            \* from there to the first stamp of the next segment
    MaxStates,       \* _MAX_CHANNELS
    MaxSegments      \* bound: segments fetched

Stamps == 0 .. Wrap - 1
NoStamp == -1

ASSUME StitchAssumption ==
    /\ Wrap \in Nat /\ Threshold \in Nat /\ 2 * Threshold + 1 < Wrap
    /\ Durations \subseteq Stamps /\ Gaps \subseteq 0 .. Threshold
    /\ MaxStates \in Nat \ {0}
    /\ MaxSegments \in Nat

VARIABLES
    kept,        \* the channels in _registry of each process, the least recently used first
    stitch,      \* offset and last_dts of the states, by process and channel
    feed,        \* raw stamp at which the next segment of a player begins
    servedBy,    \* the process that shifted a player's last segment
    out,         \* last stamp each player was sent
    jump,        \* signed distance from there to the first stamp of its next segment
    anew,        \* players whose last segment met no state, or another process
    segments     \* segments fetched

stitchVars == <<kept, stitch, feed, servedBy, out, jump, anew, segments>>

StitchChannels == {ChannelOf[p] : p \in StitchPlayers}
StitchFresh == [offset |-> 0, last |-> NoStamp]
StitchForgotten == [c \in StitchChannels |-> StitchFresh]

StitchInit ==
    /\ kept = [w \in StitchWorkers |-> <<>>]
    /\ stitch = [w \in StitchWorkers |-> StitchForgotten]
    /\ feed = [p \in StitchPlayers |-> 0]
    /\ servedBy = [p \in StitchPlayers |-> {}]
    /\ out = [p \in StitchPlayers |-> NoStamp]
    /\ jump = [p \in StitchPlayers |-> 0]
    /\ anew = {}
    /\ segments = 0

-----------------------------------------------------------------------------
\* x & TS_MASK
StitchMasked(n) == n % Wrap

\* The signed difference of two stamps, across the wrap
StitchHalf == (Wrap - 1) \div 2
StitchDiff(a, b) ==
    LET d == a - b IN
    IF d > StitchHalf THEN d - Wrap ELSE IF d < -StitchHalf THEN d + Wrap ELSE d

StitchAbs(n) == IF n < 0 THEN -n ELSE n

\* Faulty variant: the offset is never changed.
StitchOffsetKept(st, first) == st.offset

\* The offset that a segment beginning at first is to be shifted by
StitchOffset(st, first) ==
    IF st.last # NoStamp
         /\ StitchAbs(StitchDiff(StitchMasked(first + st.offset), st.last)) > Threshold
    THEN StitchMasked(st.last - first)
    ELSE st.offset

\* _get_state(): the channel becomes the most recently used; a new one may
\* push out the least recently used.
StitchTouched(w, c) ==
    LET place == IF c \in Range(kept[w]) THEN CHOOSE i \in DOMAIN kept[w] : kept[w][i] = c ELSE 1
    IN  IF c \in Range(kept[w]) \/ Len(kept[w]) >= MaxStates
        THEN Append(RemoveAt(kept[w], place), c)
        ELSE Append(kept[w], c)

\* stitch_segment(): the state is looked up, then the segment is shifted
\* under the lock of the state.  One that is pushed out in between is
\* lost, as if it had been pushed out right after.
StitchSegment(w, p, first, length) ==
    LET c  == ChannelOf[p]
        st == IF c \in Range(kept[w]) THEN stitch[w][c] ELSE StitchFresh
        o  == StitchOffset(st, first)
        last == StitchMasked(first + length + o)
        touched == StitchTouched(w, c)
    IN  /\ segments < MaxSegments
        /\ segments' = segments + 1
        /\ kept' = [kept EXCEPT ![w] = touched]
        /\ stitch' = [stitch EXCEPT ![w] =
                         [d \in StitchChannels |->
                             IF d = c THEN [offset |-> o, last |-> last]
                             ELSE IF d \in Range(touched) THEN stitch[w][d] ELSE StitchFresh]]
        /\ jump' = [jump EXCEPT ![p] =
                       IF out[p] = NoStamp THEN 0 ELSE StitchDiff(StitchMasked(first + o), out[p])]
        /\ anew' = IF st.last # NoStamp /\ servedBy[p] = {w} THEN anew \ {p} ELSE anew \cup {p}
        /\ servedBy' = [servedBy EXCEPT ![p] = {w}]
        /\ out' = [out EXCEPT ![p] = last]
        /\ \E gap \in Gaps : feed' = [feed EXCEPT ![p] = StitchMasked(first + length + gap)]

\* The stream goes on,
StitchContinues(w, p) == \E length \in Durations : StitchSegment(w, p, feed[p], length)

\* ... or an ad begins or ends, and the stamps go on from anywhere.
StitchBoundary(w, p) == \E length \in Durations, first \in Stamps : StitchSegment(w, p, first, length)

\* A segment without a time stamp is passed on as it is.
StitchNoStamps(w, p) ==
    /\ segments < MaxSegments
    /\ segments' = segments + 1
    /\ kept' = [kept EXCEPT ![w] = StitchTouched(w, ChannelOf[p])]
    /\ stitch' = [stitch EXCEPT ![w] =
                     [d \in StitchChannels |->
                         IF d \in Range(kept'[w]) THEN stitch[w][d] ELSE StitchFresh]]
    /\ UNCHANGED <<feed, servedBy, out, jump, anew>>

\* A process has served its --max-requests, and another takes its place.
StitchRecycle(w) ==
    /\ kept' = [kept EXCEPT ![w] = <<>>]
    /\ stitch' = [stitch EXCEPT ![w] = StitchForgotten]
    /\ UNCHANGED <<feed, servedBy, out, jump, anew, segments>>

StitchNext ==
    \E w \in StitchWorkers :
        \/ \E p \in StitchPlayers : StitchContinues(w, p) \/ StitchBoundary(w, p) \/ StitchNoStamps(w, p)
        \/ StitchRecycle(w)

StitchSpec == StitchInit /\ [][StitchNext]_stitchVars

-----------------------------------------------------------------------------
StitchTypeOK ==
    /\ \A w \in StitchWorkers :
          /\ kept[w] \in Seq(StitchChannels)
          /\ Len(kept[w]) <= MaxStates
          /\ IsInjective(kept[w])
    /\ DOMAIN kept = StitchWorkers
    /\ stitch \in [StitchWorkers -> [StitchChannels -> [offset : Stamps, last : Stamps \cup {NoStamp}]]]
    /\ feed \in [StitchPlayers -> Stamps]
    /\ servedBy \in [StitchPlayers -> SUBSET StitchWorkers]
    /\ out \in [StitchPlayers -> Stamps \cup {NoStamp}]
    /\ jump \in [StitchPlayers -> -(StitchHalf + 1) .. StitchHalf + 1]
    /\ anew \subseteq StitchPlayers
    /\ segments \in 0 .. MaxSegments

StitchAlone(p) == \A q \in StitchPlayers \ {p} : ChannelOf[q] # ChannelOf[p]

\* A player that is alone on its channel is not sent a jump of more than the
\* threshold while one process serves it, whatever ads come in, wherever the
\* stamps wrap and whatever that process does for other channels, until the
\* state of its channel is pushed out of the registry or goes with the process.
StitchSeamless ==
    \A p \in StitchPlayers :
        StitchAlone(p) /\ p \notin anew => StitchAbs(jump[p]) <= Threshold

\* Types, and what a player sees
StitchInv == StitchTypeOK /\ StitchSeamless
=============================================================================
