--------------------------- MODULE StreamingProofs ---------------------------
(* Proofs about the modules of streaming, for every value of their constants:    *)
(* the failover of play.py and its auto-disable, the TS stitcher, the Roku         *)
(* session, and what the players' redirects and the stream audit resolve.          *)
EXTENDS PlayFailover, TsStitcher, RokuSession, ScraperResolvers, SequenceTheorems, TLAPS

------------------------------------------------------------------------------
(* Play failover (PlayFailover) *)

\* An auto-disable job is only rolled back when a commit found the database locked.
PlayRolledBack == \A s \in Streams : jobs[s] = "rolledback" => locked > 0

\* The inductive invariant
PlayIInv == PlayInv /\ PlayRolledBack

\* Where a client may be
PlayStates ==
    [at : {"idle", "play", "proxy", "playing", "refused"}, stream : Streams \cup {NoStream}]

\* Clients in states, with a stream unless they are idle
PlayersOK ==
    /\ player \in [Players -> PlayStates]
    /\ \A p \in Players : player[p].stream = NoStream <=> player[p].at = "idle"

\* What a job may be: its states, and why it exists
JobsOK ==
    /\ jobs \in [Streams -> {"none", "queued", "edited", "rolledback"}]
    /\ PlayHiccupsForgiven
    /\ PlayRolledBack

\* Everything but clients and jobs
RestOK ==
    /\ on \subseteq Streams
    /\ dead \subseteq excused /\ excused \subseteq Streams
    /\ probes \subseteq Streams
    /\ changes \in 0 .. MaxChanges
    /\ hiccups \in 0 .. MaxHiccups
    /\ locked \in 0 .. MaxLocked

\* The parts are the whole.
LEMMA PlayParts == PlayIInv <=> PlayersOK /\ JobsOK /\ RestOK
  BY DEF PlayIInv, PlayInv, PlayTypeOK, PlayersOK, PlayStates, JobsOK, RestOK

\* The first states
LEMMA PlayInitParts == PlayInit => PlayersOK /\ JobsOK /\ RestOK
  <1> SUFFICES ASSUME PlayInit  PROVE PlayersOK /\ JobsOK /\ RestOK
    OBVIOUS
  <1>1. PlayIdle \in PlayStates /\ PlayIdle.stream = NoStream /\ PlayIdle.at = "idle"
    BY DEF PlayIdle, PlayStates
  <1>2. PlayersOK
    BY <1>1 DEF PlayInit, PlayersOK
  <1>3. JobsOK
    BY DEF PlayInit, JobsOK, PlayHiccupsForgiven, PlayRolledBack
  <1>4. RestOK
    BY PlayAssumption DEF PlayInit, RestOK
  <1> QED  BY <1>2, <1>3, <1>4

\* Sending a client anywhere with a stream keeps the clients in order.
LEMMA PlayerMoves ==
  ASSUME PlayersOK, NEW p \in Players, NEW s \in Streams,
         NEW at \in {"play", "proxy", "playing", "refused"},
         player' = [player EXCEPT ![p] = [at |-> at, stream |-> s]]
  PROVE  PlayersOK'
  <1> DEFINE new == [at |-> at, stream |-> s]
  <1>1. new \in PlayStates /\ new.at = at /\ new.stream = s
    BY DEF PlayStates
  <1> HIDE DEF new
  <1>2. player' \in [Players -> PlayStates]
    BY <1>1 DEF PlayersOK, new
  <1>3. player'[p] = new /\ \A q \in Players \ {p} : player'[q] = player[q]
    BY DEF PlayersOK, new
  <1>4. s # NoStream
    BY PlayAssumption
  <1> QED  BY <1>1, <1>2, <1>3, <1>4 DEF PlayersOK

\* The same for a client that keeps its stream
LEMMA PlayerStays ==
  ASSUME PlayersOK, NEW p \in Players, player[p].at # "idle",
         NEW at \in {"play", "proxy", "playing", "refused"},
         player' = [player EXCEPT ![p].at = at]
  PROVE  PlayersOK'
  <1>1. player[p] \in PlayStates /\ player[p].stream \in Streams
    BY DEF PlayersOK, PlayStates
  <1>2. [player[p] EXCEPT !.at = at] = [at |-> at, stream |-> player[p].stream]
    BY <1>1 DEF PlayStates
  <1>3. player' = [player EXCEPT ![p] = [at |-> at, stream |-> player[p].stream]]
    BY <1>2
  <1> QED  BY <1>1, <1>3, PlayerMoves

\* A failover goes to a stream of the name, or nowhere.
LEMMA PlayerFailsOver ==
  ASSUME PlayersOK, RestOK, NEW p \in Players, NEW s \in Streams, PlayFailOver(p, s)
  PROVE  PlayersOK'
  <1>1. CASE PlayCandidates(s) = {}
    BY <1>1, PlayerMoves DEF PlayFailOver
  <1>2. CASE PlayCandidates(s) # {}
    <2>1. PICK d \in PlayCandidates(s) :
              player' = [player EXCEPT ![p] = [at |-> "play", stream |-> d]]
      BY <1>2 DEF PlayFailOver
    <2>2. d \in Streams
      BY DEF PlayCandidates, RestOK
    <2> QED  BY <2>1, <2>2, PlayerMoves
  <1> QED  BY <1>1, <1>2

\* A channel is only given a job with a reason to be off.
LEMMA JobTriggered ==
  ASSUME JobsOK, NEW s \in Streams, s \in excused', excused \subseteq excused', PlayTrigger(s),
         UNCHANGED <<on, locked>>
  PROVE  JobsOK'
  <1>1. /\ jobs' \in [Streams -> {"none", "queued", "edited", "rolledback"}]
        /\ \A t \in Streams \ {s} : jobs'[t] = jobs[t]
        /\ jobs'[s] # "rolledback" \/ jobs'[s] = jobs[s]
    BY DEF PlayTrigger, JobsOK
  <1> QED  BY <1>1 DEF JobsOK, PlayHiccupsForgiven, PlayRolledBack

\* A counter below its bound may count on.
LEMMA PlayCounts ==
  ASSUME RestOK
  PROVE  /\ hiccups < MaxHiccups => hiccups + 1 \in 0 .. MaxHiccups
         /\ locked < MaxLocked => locked + 1 \in 0 .. MaxLocked /\ locked + 1 > 0
         /\ changes < MaxChanges => changes + 1 \in 0 .. MaxChanges
  BY PlayAssumption DEF RestOK

\* A request that fails, and what it may do to a channel
LEMMA PlayFailure ==
  ASSUME RestOK, NEW s \in Streams, PlayMisjudge(s) \/ PlaySoftly(s) \/ PlayHiccup
  PROVE  /\ hiccups' \in 0 .. MaxHiccups
         /\ PlayMisjudge(s) => excused \subseteq excused' /\ s \in excused' /\ excused' \subseteq Streams
  BY PlayCounts DEF PlayMisjudge, PlaySoftly, PlayHiccup, RestOK

\* What clients do
LEMMA PlayClientStep ==
  ASSUME PlayersOK, JobsOK, RestOK, NEW p \in Players,
         \/ \E s \in Streams : PlayAsk(p, s)
         \/ PlayAnswer(p) \/ PlayRefresh(p) \/ PlayLeave(p)
  PROVE  PlayersOK' /\ JobsOK' /\ RestOK'
  <1> DEFINE s == player[p].stream
  <1>1. player[p].at # "idle" => s \in Streams
    BY DEF PlayersOK, PlayStates
  <1>2. ASSUME NEW t \in Streams, PlayAsk(p, t)  PROVE PlayersOK' /\ JobsOK' /\ RestOK'
    <2>1. PlayersOK'
      BY <1>2, PlayerMoves DEF PlayAsk
    <2> QED  BY <2>1, <1>2 DEF PlayAsk, JobsOK, RestOK, PlayHiccupsForgiven, PlayRolledBack
  <1>3. CASE PlayElsewhere(p)
    <2>1. PlayersOK'
      BY <1>1, <1>3, PlayerFailsOver DEF PlayElsewhere
    <2> QED  BY <2>1, <1>3 DEF PlayElsewhere, JobsOK, RestOK, PlayHiccupsForgiven, PlayRolledBack
  <1>4. CASE PlayRedirect(p)
    <2>1. PlayersOK'
      BY <1>4, PlayerStays DEF PlayRedirect
    <2> QED  BY <2>1, <1>4 DEF PlayRedirect, JobsOK, RestOK, PlayHiccupsForgiven, PlayRolledBack
  <1>5. CASE PlayResolve(p)
    <2>1. PlayersOK'
      BY <1>5, PlayerStays DEF PlayResolve
    <2> QED  BY <2>1, <1>1, <1>5 DEF PlayResolve, JobsOK, RestOK, PlayHiccupsForgiven, PlayRolledBack
  <1>6. CASE PlayConfirmedDead(p)
    <2>1. /\ s \in Streams /\ PlayTrigger(s) /\ PlayFailOver(p, s)
          /\ UNCHANGED <<on, dead, probes, changes, locked>>
          /\ (s \in dead /\ UNCHANGED <<excused, hiccups>>) \/ PlayMisjudge(s)
      BY <1>1, <1>6 DEF PlayConfirmedDead
    <2>2. /\ s \in excused' /\ excused \subseteq excused' /\ excused' \subseteq Streams
          /\ hiccups' \in 0 .. MaxHiccups
      BY <2>1, PlayFailure DEF RestOK
    <2>3. PlayersOK' /\ JobsOK'
      BY <2>1, <2>2, PlayerFailsOver, JobTriggered
    <2> QED  BY <2>1, <2>2, <2>3 DEF RestOK
  <1>7. CASE PlayResolveFails(p)
    <2>1. s \in Streams /\ PlayFailOver(p, s) /\ PlaySoftly(s)
      BY <1>1, <1>7 DEF PlayResolveFails
    <2>2. PlayersOK' /\ hiccups' \in 0 .. MaxHiccups
      BY <2>1, PlayerFailsOver, PlayFailure
    <2> QED  BY <2>2, <1>7 DEF PlayResolveFails, JobsOK, RestOK, PlayHiccupsForgiven, PlayRolledBack
  <1>8. CASE PlayManifest(p)
    <2>1. PlayersOK'
      BY <1>8, PlayerStays DEF PlayManifest
    <2> QED  BY <2>1, <1>8 DEF PlayManifest, JobsOK, RestOK, PlayHiccupsForgiven, PlayRolledBack
  <1>9. CASE PlayManifestFails(p)
    <2>1. /\ s \in Streams /\ PlayTrigger(s) /\ PlayFailOver(p, s)
          /\ UNCHANGED <<on, dead, probes, changes, locked>>
          /\ (s \in dead /\ UNCHANGED <<excused, hiccups>>) \/ PlayMisjudge(s)
      BY <1>1, <1>9 DEF PlayManifestFails
    <2>2. /\ s \in excused' /\ excused \subseteq excused' /\ excused' \subseteq Streams
          /\ hiccups' \in 0 .. MaxHiccups
      BY <2>1, PlayFailure DEF RestOK
    <2>3. PlayersOK' /\ JobsOK'
      BY <2>1, <2>2, PlayerFailsOver, JobTriggered
    <2> QED  BY <2>1, <2>2, <2>3 DEF RestOK
  <1>10. CASE PlayNoUrl(p)
    <2>1. s \in Streams /\ PlayFailOver(p, s) /\ PlaySoftly(s)
      BY <1>1, <1>10 DEF PlayNoUrl
    <2>2. PlayersOK' /\ hiccups' \in 0 .. MaxHiccups
      BY <2>1, PlayerFailsOver, PlayFailure
    <2> QED  BY <2>2, <1>10 DEF PlayNoUrl, JobsOK, RestOK, PlayHiccupsForgiven, PlayRolledBack
  <1>11. CASE PlayLeave(p)
    <2>1. PlayIdle \in PlayStates /\ PlayIdle.stream = NoStream /\ PlayIdle.at = "idle"
      BY DEF PlayIdle, PlayStates
    <2>2. PlayersOK'
      BY <2>1, <1>11 DEF PlayersOK, PlayLeave
    <2> QED  BY <2>2, <1>11 DEF PlayLeave, JobsOK, RestOK, PlayHiccupsForgiven, PlayRolledBack
  <1> QED  BY <1>2, <1>3, <1>4, <1>5, <1>6, <1>7, <1>8, <1>9, <1>10, <1>11
           DEF PlayAnswer, PlayRefresh

\* What probes, jobs, providers and the user do
LEMMA PlayOtherStep ==
  ASSUME PlayersOK, JobsOK, RestOK,
         (\E s \in Streams : PlayProbe(s) \/ PlayJob(s) \/ PlayCommitLocked(s)) \/ PlayChange
  PROVE  PlayersOK' /\ JobsOK' /\ RestOK'
  <1> DEFINE States == {"none", "queued", "edited", "rolledback"}
  <1>0. PlayersOK'
    BY DEF PlayProbe, PlayJob, PlayDisable, PlayCommit, PlayCommitAgain, PlayCommitLocked,
       PlayChange, PlayersOK
  <1>1. ASSUME NEW s \in Streams, PlayProbe(s)  PROVE JobsOK' /\ RestOK'
    <2>1. /\ UNCHANGED <<on, dead, changes, locked>> /\ probes' \subseteq Streams
          /\ \/ UNCHANGED <<excused, jobs>> /\ (UNCHANGED hiccups \/ PlayHiccup)
             \/ /\ PlayTrigger(s)
                /\ (s \in dead /\ UNCHANGED <<excused, hiccups>>) \/ PlayMisjudge(s)
      BY <1>1 DEF PlayProbe, RestOK
    <2>2. CASE UNCHANGED <<excused, jobs>> /\ (UNCHANGED hiccups \/ PlayHiccup)
      <3>1. hiccups' \in 0 .. MaxHiccups
        BY <2>2, PlayFailure DEF RestOK
      <3> QED  BY <2>1, <2>2, <3>1 DEF JobsOK, RestOK, PlayHiccupsForgiven, PlayRolledBack
    <2>3. CASE PlayTrigger(s) /\ ((s \in dead /\ UNCHANGED <<excused, hiccups>>) \/ PlayMisjudge(s))
      <3>1. /\ s \in excused' /\ excused \subseteq excused' /\ excused' \subseteq Streams
            /\ hiccups' \in 0 .. MaxHiccups
        BY <2>3, PlayFailure DEF RestOK
      <3>2. JobsOK'
        BY <2>1, <2>3, <3>1, JobTriggered
      <3> QED  BY <2>1, <3>1, <3>2 DEF RestOK
    <2> QED  BY <2>1, <2>2, <2>3
  <1>2. ASSUME NEW s \in Streams, PlayJob(s) \/ PlayCommitLocked(s)  PROVE JobsOK' /\ RestOK'
    <2>1. RestOK'
      BY <1>2, PlayCounts DEF PlayJob, PlayDisable, PlayCommit, PlayCommitAgain,
         PlayCommitLocked, RestOK
    <2>2. /\ jobs[s] # "none" /\ UNCHANGED excused /\ on' \in {on, on \ {s}}
          /\ \/ \E j \in {"none", "edited"} : jobs' = [jobs EXCEPT ![s] = j] /\ UNCHANGED locked
             \/ jobs' = [jobs EXCEPT ![s] = "rolledback"] /\ locked' > 0
      BY <1>2, PlayCounts DEF PlayJob, PlayDisable, PlayCommit, PlayCommitAgain, PlayCommitLocked
    <2>3. s \in excused
      BY <2>2 DEF JobsOK, PlayHiccupsForgiven
    <2>4. JobsOK'
      BY <2>2, <2>3 DEF JobsOK, PlayHiccupsForgiven, PlayRolledBack
    <2> QED  BY <2>1, <2>4
  <1>3. CASE PlayChange
    <2>1. RestOK'
      BY <1>3, PlayCounts DEF PlayChange, RestOK
    <2>2. PICK s \in Streams : /\ excused' = excused \cup {s} /\ UNCHANGED <<jobs, locked>>
                              /\ on \ {s} \subseteq on'
      BY <1>3 DEF PlayChange
    <2>3. JobsOK'
      BY <2>2 DEF JobsOK, PlayHiccupsForgiven, PlayRolledBack
    <2> QED  BY <2>1, <2>3, <1>0
  <1>4. CASE \E s \in Streams : PlayProbe(s) \/ PlayJob(s) \/ PlayCommitLocked(s)
    <2>1. PICK s \in Streams : PlayProbe(s) \/ PlayJob(s) \/ PlayCommitLocked(s)
      BY <1>4
    <2>2. JobsOK' /\ RestOK'
      BY <2>1, <1>1, <1>2
    <2> QED  BY <2>2, <1>0
  <1>5. CASE PlayChange
    BY <1>5, <1>3
  <1> QED  BY <1>4, <1>5

\* The invariant is inductive.
LEMMA PlayIInvStep == PlayIInv /\ [PlayNext]_playVars => PlayIInv'
  <1>1. PlayersOK /\ JobsOK /\ RestOK /\ UNCHANGED playVars => PlayersOK' /\ JobsOK' /\ RestOK'
    BY DEF playVars, PlayersOK, JobsOK, RestOK, PlayHiccupsForgiven, PlayRolledBack
  <1>2. PlayersOK /\ JobsOK /\ RestOK /\ PlayNext => PlayersOK' /\ JobsOK' /\ RestOK'
    BY PlayClientStep, PlayOtherStep DEF PlayNext
  <1>3. PlayersOK' /\ JobsOK' /\ RestOK' => PlayIInv'
    BY DEF PlayIInv, PlayInv, PlayTypeOK, PlayersOK, PlayStates, JobsOK, RestOK
  <1> QED  BY <1>1, <1>2, <1>3, PlayParts

\* For any number of duplicates, clients and failures: a channel whose stream was
\* never down, which the user has not touched and none of whose failures the code
\* takes for a dead stream, stays on and has no job, wherever clients are sent.
THEOREM PlayInvariant == PlaySpec => []PlayInv
  <1>1. PlayInit => PlayIInv
    BY PlayInitParts, PlayParts
  <1>2. PlayIInv => PlayInv
    BY DEF PlayIInv
  <1> QED  BY <1>1, <1>2, PlayIInvStep, PTL DEF PlaySpec

\* An auto-disable job that ends leaves its channel off, unless a commit has found
\* the database locked before.
THEOREM DisableSticks == PlaySpec => PlayDisableSticks
  <1>1. PlaySpec => []PlayIInv
    <2>1. PlayInit => PlayIInv
      BY PlayInitParts, PlayParts
    <2> QED  BY <2>1, PlayIInvStep, PTL DEF PlaySpec
  <1>2. PlayIInv /\ [PlayNext]_playVars =>
          [\A s \in Streams :
              locked = 0 /\ jobs[s] # "none" /\ jobs'[s] = "none" => s \notin on']_playVars
    <2> SUFFICES ASSUME PlayIInv, PlayNext, NEW s \in Streams,
                        locked = 0, jobs[s] # "none", jobs'[s] = "none"
                 PROVE  s \notin on'
      OBVIOUS
    <2>1. /\ jobs \in [Streams -> {"none", "queued", "edited", "rolledback"}]
          /\ jobs[s] # "rolledback"
      BY DEF PlayIInv, PlayInv, PlayTypeOK, PlayRolledBack
    <2>2. ASSUME NEW t \in Streams, PlayTrigger(t)  PROVE jobs'[s] # "none"
      BY <2>1, <2>2 DEF PlayTrigger
    <2>3. \A t \in Streams : PlayJob(t) \/ PlayCommitLocked(t) => s \notin on'
      BY <2>1 DEF PlayJob, PlayDisable, PlayCommit, PlayCommitAgain, PlayCommitLocked
    <2>4. \A t \in Streams : ~PlayProbe(t)
      BY <2>2 DEF PlayProbe
    <2>5. \A p \in Players : ~PlayManifestFails(p) /\ ~PlayConfirmedDead(p)
      BY <2>2, PlayAssumption DEF PlayManifestFails, PlayConfirmedDead, PlayIInv, PlayInv, PlayTypeOK
    <2>6. \E t \in Streams : PlayJob(t) \/ PlayCommitLocked(t)
      BY <2>4, <2>5 DEF PlayNext, PlayAnswer, PlayRefresh, PlayAsk, PlayElsewhere, PlayRedirect,
         PlayResolve, PlayResolveFails, PlayManifest, PlayNoUrl, PlayLeave, PlayChange
    <2> QED  BY <2>3, <2>6
  <1> QED  BY <1>1, <1>2, PTL DEF PlaySpec, PlayDisableSticks

------------------------------------------------------------------------------
(* The TS stitcher (TsStitcher) *)

\* A state of a channel
StitchStates == [offset : Stamps, last : Stamps \cup {NoStamp}]

\* A player that is alone got what its channel's state remembers, in the process
\* that served it last.
StitchRemembered ==
    \A p \in StitchPlayers, w \in StitchWorkers :
        LET last == stitch[w][ChannelOf[p]].last
        IN  StitchAlone(p) /\ servedBy[p] = {w} /\ last # NoStamp => out[p] = last

\* The inductive invariant
StitchIInv == StitchTypeOK /\ StitchSeamless /\ StitchRemembered

-----------------------------------------------------------------------------
\* A remainder is a stamp.
LEMMA ModStamp == \A n \in Int : StitchMasked(n) \in Stamps
  BY StitchAssumption DEF Stamps, StitchMasked

\* Remainders close to zero
LEMMA ModNear ==
  /\ \A n \in 0 .. Wrap - 1 : StitchMasked(n) = n
  /\ \A n \in Wrap .. 2 * Wrap - 1 : StitchMasked(n) = n - Wrap
  /\ \A n \in -Wrap .. -1 : StitchMasked(n) = n + Wrap
  BY StitchAssumption DEF StitchMasked

\* Half the wrap
LEMMA HalfWrap == StitchHalf \in Nat /\ 2 * StitchHalf <= Wrap - 1 /\ Wrap <= 2 * StitchHalf + 2
  BY StitchAssumption DEF StitchHalf

\* The signed difference of stamps is at most half the wrap, and 0 of equal ones.
LEMMA DiffRange ==
  ASSUME NEW a \in Stamps, NEW b \in Stamps
  PROVE  /\ StitchDiff(a, b) \in -(StitchHalf + 1) .. StitchHalf + 1
         /\ StitchDiff(a, a) = 0
  BY HalfWrap, StitchAssumption DEF StitchDiff, Stamps

\* Shifted by the difference, a stamp is where the last one was.
LEMMA OffsetJoins ==
  ASSUME NEW last \in Stamps, NEW first \in Stamps
  PROVE  StitchMasked(first + StitchMasked(last - first)) = last
  <1> DEFINE shift == StitchMasked(last - first)
  <1>1. last \in 0 .. Wrap - 1 /\ first \in 0 .. Wrap - 1 /\ Wrap \in Nat
    BY StitchAssumption DEF Stamps
  <1>2. shift = last - first \/ shift = last - first + Wrap
    <2>1. CASE last - first \in 0 .. Wrap - 1
      BY <2>1, ModNear
    <2>2. CASE last - first \in -Wrap .. -1
      BY <2>2, ModNear
    <2> QED  BY <1>1, <2>1, <2>2
  <1> HIDE DEF shift
  <1>3. first + shift \in {last, last + Wrap}
    BY <1>1, <1>2
  <1>4. StitchMasked(last) = last /\ StitchMasked(last + Wrap) = last
    <2>1. last + Wrap \in Wrap .. 2 * Wrap - 1 /\ last + Wrap - Wrap = last
      BY <1>1
    <2> QED  BY <1>1, <2>1, ModNear
  <1>5. StitchMasked(first + shift) = last
    BY <1>3, <1>4
  <1> QED  BY <1>5 DEF shift

-----------------------------------------------------------------------------
\* A sequence without its element at place
LEMMA RemovedAt ==
  ASSUME NEW S, NEW seq \in Seq(S), NEW place \in 1 .. Len(seq)
  PROVE  /\ RemoveAt(seq, place) \in Seq(S)
         /\ Len(RemoveAt(seq, place)) = Len(seq) - 1
         /\ \A i \in 1 .. Len(RemoveAt(seq, place)) :
               RemoveAt(seq, place)[i] = IF i < place THEN seq[i] ELSE seq[i + 1]
  <1> DEFINE before == SubSeq(seq, 1, place - 1)
             after == SubSeq(seq, place + 1, Len(seq))
  <1>1. Len(seq) \in Nat /\ \A i \in 1 .. Len(seq) : seq[i] \in S
    OBVIOUS
  <1>2. /\ before \in Seq(S) /\ Len(before) = place - 1
        /\ \A i \in 1 .. place - 1 : before[i] = seq[i]
    <2>1. /\ before \in Seq(S)
          /\ Len(before) = IF 1 <= place - 1 THEN place - 1 - 1 + 1 ELSE 0
          /\ \A i \in 1 .. place - 1 - 1 + 1 : before[i] = seq[1 + i - 1]
      BY <1>1, SubSeqProperties
    <2> HIDE DEF before
    <2>2. \A i \in 1 .. place - 1 : i \in 1 .. place - 1 - 1 + 1 /\ 1 + i - 1 = i
      BY <1>1
    <2> QED  BY <1>1, <2>1, <2>2
  <1>3. /\ after \in Seq(S) /\ Len(after) = Len(seq) - place
        /\ \A i \in 1 .. Len(seq) - place : after[i] = seq[place + 1 + i - 1]
    <2>1. /\ after \in Seq(S)
          /\ Len(after) = IF place + 1 <= Len(seq) THEN Len(seq) - (place + 1) + 1 ELSE 0
          /\ \A i \in 1 .. Len(seq) - (place + 1) + 1 : after[i] = seq[place + 1 + i - 1]
      BY <1>1, SubSeqProperties
    <2> HIDE DEF after
    <2>2. \A i \in 1 .. Len(seq) - place : i \in 1 .. Len(seq) - (place + 1) + 1
      BY <1>1
    <2> QED  BY <1>1, <2>1, <2>2
  <1>4. RemoveAt(seq, place) = before \o after
    BY DEF RemoveAt
  <1> HIDE DEF before, after
  <1>5. /\ before \o after \in Seq(S)
        /\ Len(before \o after) = Len(before) + Len(after)
        /\ \A i \in 1 .. Len(before) + Len(after) :
              (before \o after)[i] = IF i <= Len(before) THEN before[i] ELSE after[i - Len(before)]
    BY <1>2, <1>3, ConcatProperties
  <1>6. Len(before) + Len(after) = Len(seq) - 1
    BY <1>1, <1>2, <1>3
  <1>7. ASSUME NEW i \in 1 .. Len(seq) - 1
        PROVE  (before \o after)[i] = IF i < place THEN seq[i] ELSE seq[i + 1]
    <2>1. CASE i < place
      <3>1. i <= Len(before) /\ i \in 1 .. place - 1
        BY <1>1, <1>2, <2>1
      <3> QED  BY <1>2, <1>5, <1>6, <2>1, <3>1
    <2>2. CASE ~(i < place)
      <3>1. /\ ~(i <= Len(before)) /\ i - Len(before) \in 1 .. Len(seq) - place
            /\ place + 1 + (i - Len(before)) - 1 = i + 1
        BY <1>1, <1>2, <2>2
      <3>2. (before \o after)[i] = after[i - Len(before)]
        BY <1>5, <1>6, <3>1
      <3> QED  BY <1>3, <2>2, <3>1, <3>2
    <2> QED  BY <2>1, <2>2
  <1> QED  BY <1>4, <1>5, <1>6, <1>7

\* A new element at the end of a sequence of different ones
LEMMA AppendedOnce ==
  ASSUME NEW S, NEW seq \in Seq(S), NEW e \in S,
         \A i, j \in 1 .. Len(seq) : seq[i] = seq[j] => i = j,
         \A i \in 1 .. Len(seq) : seq[i] # e
  PROVE  IsInjective(Append(seq, e))
  <1> DEFINE more == Append(seq, e)
  <1>1. /\ more \in Seq(S) /\ Len(more) = Len(seq) + 1 /\ Len(seq) \in Nat
        /\ \A i \in 1 .. Len(seq) : more[i] = seq[i]
        /\ more[Len(seq) + 1] = e
    BY AppendProperties
  <1>2. DOMAIN more = 1 .. Len(seq) + 1
    BY <1>1
  <1> HIDE DEF more
  <1>3. \A i \in 1 .. Len(seq) + 1 : i \in 1 .. Len(seq) \/ i = Len(seq) + 1
    BY <1>1
  <1>4. ASSUME NEW i \in 1 .. Len(seq) + 1, NEW j \in 1 .. Len(seq) + 1, more[i] = more[j]
        PROVE  i = j
    <2>1. CASE i \in 1 .. Len(seq) /\ j \in 1 .. Len(seq)
      BY <1>1, <1>4, <2>1
    <2>2. CASE i = Len(seq) + 1 /\ j \in 1 .. Len(seq)
      BY <1>1, <1>4, <2>2
    <2>3. CASE i \in 1 .. Len(seq) /\ j = Len(seq) + 1
      BY <1>1, <1>4, <2>3
    <2> QED  BY <1>3, <1>4, <2>1, <2>2, <2>3
  <1>5. IsInjective(more)
    BY <1>2, <1>4 DEF IsInjective
  <1> QED  BY <1>5 DEF more

\* The registry of a process with one channel used: as many at most, each once, no others.
LEMMA TouchedOK ==
  ASSUME StitchTypeOK, NEW w \in StitchWorkers, NEW c \in StitchChannels
  PROVE  /\ StitchTouched(w, c) \in Seq(StitchChannels)
         /\ Len(StitchTouched(w, c)) <= MaxStates
         /\ IsInjective(StitchTouched(w, c))
  <1> DEFINE place == IF c \in Range(kept[w]) THEN CHOOSE i \in DOMAIN kept[w] : kept[w][i] = c ELSE 1
             left == RemoveAt(kept[w], place)
  <1>1. /\ kept[w] \in Seq(StitchChannels) /\ Len(kept[w]) \in Nat /\ DOMAIN kept[w] = 1 .. Len(kept[w])
        /\ Len(kept[w]) <= MaxStates /\ MaxStates \in Nat \ {0}
        /\ \A i, j \in 1 .. Len(kept[w]) : kept[w][i] = kept[w][j] => i = j
    BY StitchAssumption DEF StitchTypeOK, IsInjective
  <1>2. CASE c \in Range(kept[w]) \/ Len(kept[w]) >= MaxStates
    <2>1. place \in 1 .. Len(kept[w]) /\ (c \in Range(kept[w]) => kept[w][place] = c)
      BY <1>1, <1>2 DEF Range
    <2> HIDE DEF place
    <2>2. /\ left \in Seq(StitchChannels) /\ Len(left) = Len(kept[w]) - 1
          /\ \A i \in 1 .. Len(left) : left[i] = IF i < place THEN kept[w][i] ELSE kept[w][i + 1]
      BY <1>1, <2>1, RemovedAt, Zenon
    <2> HIDE DEF left
    <2>3. \A i \in 1 .. Len(left) : left[i] # c
      <3>1. \A i \in 1 .. Len(kept[w]) : kept[w][i] = c => c \in Range(kept[w])
        BY <1>1 DEF Range
      <3>2. SUFFICES ASSUME NEW i \in 1 .. Len(left), left[i] = c  PROVE FALSE
        OBVIOUS
      <3>3. CASE i < place
        <4>1. kept[w][i] = c /\ i \in 1 .. Len(kept[w])
          BY <1>1, <2>1, <2>2, <3>2, <3>3
        <4>2. kept[w][place] = c /\ i # place
          BY <2>1, <3>1, <3>3, <4>1
        <4> QED  BY <1>1, <2>1, <4>1, <4>2
      <3>4. CASE ~(i < place)
        <4>1. kept[w][i + 1] = c /\ i + 1 \in 1 .. Len(kept[w])
          BY <1>1, <2>1, <2>2, <3>2, <3>4
        <4>2. kept[w][place] = c /\ i + 1 # place
          BY <1>1, <2>1, <3>1, <3>4, <4>1
        <4> QED  BY <1>1, <2>1, <4>1, <4>2
      <3> QED  BY <3>3, <3>4
    <2>4. \A i, j \in 1 .. Len(left) : left[i] = left[j] => i = j
      BY <1>1, <2>1, <2>2
    <2>5. Append(left, c) \in Seq(StitchChannels) /\ Len(Append(left, c)) = Len(left) + 1
      BY <2>2, AppendProperties
    <2>6. IsInjective(Append(left, c))
      BY <2>2, <2>3, <2>4, AppendedOnce
    <2>7. StitchTouched(w, c) = Append(left, c)
      BY <1>2 DEF StitchTouched, left, place
    <2> QED  BY <1>1, <2>2, <2>5, <2>6, <2>7
  <1>3. CASE ~(c \in Range(kept[w]) \/ Len(kept[w]) >= MaxStates)
    <2>1. StitchTouched(w, c) = Append(kept[w], c)
      BY <1>3 DEF StitchTouched
    <2>2. Append(kept[w], c) \in Seq(StitchChannels) /\ Len(Append(kept[w], c)) = Len(kept[w]) + 1
      BY <1>1, AppendProperties
    <2>3. \A i \in 1 .. Len(kept[w]) : kept[w][i] # c
      BY <1>1, <1>3 DEF Range
    <2>4. IsInjective(Append(kept[w], c))
      BY <1>1, <2>3, AppendedOnce
    <2> QED  BY <1>1, <1>3, <2>1, <2>2, <2>4
  <1> QED  BY <1>2, <1>3

\* How a segment is joined: the offset is a stamp, and unless nothing is known
\* of the channel the segment begins near the last stamp that was sent.
LEMMA JoinOK ==
  ASSUME NEW st \in StitchStates, NEW first \in Stamps
  PROVE  /\ StitchOffset(st, first) \in Stamps
         /\ st.last # NoStamp =>
               StitchAbs(StitchDiff(StitchMasked(first + StitchOffset(st, first)), st.last)) <= Threshold
  <1> DEFINE distance == StitchAbs(StitchDiff(StitchMasked(first + st.offset), st.last))
  <1>1. st.offset \in Stamps /\ st.last \in Stamps \cup {NoStamp} /\ Stamps \subseteq Int
        /\ NoStamp \notin Stamps
    BY StitchAssumption DEF StitchStates, Stamps, NoStamp
  <1>2. CASE st.last # NoStamp /\ distance > Threshold
    <2>1. StitchOffset(st, first) = StitchMasked(st.last - first)
      BY <1>2 DEF StitchOffset
    <2>2. st.last \in Stamps /\ st.last - first \in Int
      BY <1>1, <1>2 DEF Stamps
    <2>3. StitchMasked(st.last - first) \in Stamps
      BY <2>2, ModStamp
    <2>4. StitchMasked(first + StitchOffset(st, first)) = st.last
      BY <2>1, <2>2, OffsetJoins, Zenon
    <2>5. StitchAbs(0) = 0
      BY DEF StitchAbs
    <2>6. StitchAbs(StitchDiff(StitchMasked(first + StitchOffset(st, first)), st.last)) = 0
      BY <2>2, <2>4, <2>5, DiffRange, Zenon
    <2> QED  BY <2>1, <2>3, <2>6, StitchAssumption
  <1>3. CASE ~(st.last # NoStamp /\ distance > Threshold)
    <2>1. StitchOffset(st, first) = st.offset
      BY <1>3 DEF StitchOffset
    <2>2. st.last # NoStamp => distance \in Int
      <3>1. ASSUME st.last # NoStamp  PROVE StitchDiff(StitchMasked(first + st.offset), st.last) \in Int
        <4>1. StitchMasked(first + st.offset) \in Stamps
          <5>1. first + st.offset \in Int
            BY <1>1 DEF Stamps
          <5> QED  BY <5>1, ModStamp
        <4>2. StitchDiff(StitchMasked(first + st.offset), st.last) \in -(StitchHalf + 1) .. StitchHalf + 1
          BY <1>1, <3>1, <4>1, DiffRange
        <4> QED  BY <4>2, HalfWrap
      <3> QED  BY <3>1 DEF StitchAbs
    <2> HIDE DEF distance
    <2>3. st.last # NoStamp => distance <= Threshold
      BY <1>3, <2>2, StitchAssumption
    <2> QED  BY <1>1, <2>1, <2>3, Zenon DEF distance
  <1> QED  BY <1>2, <1>3

\* The registries after that of one process has changed
LEMMA KeptChanges ==
  ASSUME StitchTypeOK, NEW w \in StitchWorkers,
         NEW seq \in Seq(StitchChannels), Len(seq) <= MaxStates, IsInjective(seq),
         kept' = [kept EXCEPT ![w] = seq]
  PROVE  /\ DOMAIN kept' = StitchWorkers
         /\ \A v \in StitchWorkers : /\ kept'[v] \in Seq(StitchChannels) /\ Len(kept'[v]) <= MaxStates
                                     /\ IsInjective(kept'[v])
  <1>1. /\ DOMAIN kept' = StitchWorkers
        /\ \A v \in StitchWorkers : kept'[v] = IF v = w THEN seq ELSE kept[v]
    BY DEF StitchTypeOK
  <1> QED  BY <1>1 DEF StitchTypeOK

\* What a segment leaves behind
LEMMA StitchStep ==
  ASSUME StitchIInv, NEW w \in StitchWorkers, NEW p \in StitchPlayers, NEW first \in Stamps,
         NEW length \in Durations, StitchSegment(w, p, first, length)
  PROVE  StitchIInv'
  <1> DEFINE c == ChannelOf[p]
             st == IF c \in Range(kept[w]) THEN stitch[w][c] ELSE StitchFresh
             o == StitchOffset(st, first)
             last == StitchMasked(first + length + o)
  <1>0. st \in StitchStates
    <2>1. c \in StitchChannels
      BY DEF StitchChannels
    <2>2. StitchFresh \in StitchStates
      BY StitchAssumption DEF StitchFresh, StitchStates, Stamps
    <2> QED  BY <2>1, <2>2 DEF StitchIInv, StitchTypeOK, StitchStates
  <1>1. /\ segments < MaxSegments /\ segments' = segments + 1
        /\ kept' = [kept EXCEPT ![w] = StitchTouched(w, c)]
        /\ stitch' = [stitch EXCEPT ![w] =
                         [d \in StitchChannels |->
                             IF d = c THEN [offset |-> o, last |-> last]
                             ELSE IF d \in Range(StitchTouched(w, c)) THEN stitch[w][d] ELSE StitchFresh]]
        /\ servedBy' = [servedBy EXCEPT ![p] = {w}]
        /\ jump' = [jump EXCEPT ![p] =
                       IF out[p] = NoStamp THEN 0 ELSE StitchDiff(StitchMasked(first + o), out[p])]
        /\ anew' = IF st.last # NoStamp /\ servedBy[p] = {w} THEN anew \ {p} ELSE anew \cup {p}
        /\ out' = [out EXCEPT ![p] = last]
        /\ \E gap \in Gaps : feed' = [feed EXCEPT ![p] = StitchMasked(first + length + gap)]
    BY Zenon DEF StitchSegment
  <1>2. /\ c \in StitchChannels /\ Durations \subseteq Int /\ Gaps \subseteq Int
        /\ first \in Int /\ NoStamp \notin Stamps /\ Stamps \subseteq Int
    BY StitchAssumption DEF StitchChannels, Stamps, NoStamp
  <1>3. /\ o \in Stamps
        /\ st.last # NoStamp => StitchAbs(StitchDiff(StitchMasked(first + o), st.last)) <= Threshold
    BY <1>0, JoinOK, Zenon
  <1> HIDE DEF o
  <1>4. last \in Stamps
    <2>1. first + length + o \in Int
      BY <1>2, <1>3 DEF Stamps
    <2> QED  BY <2>1, ModStamp
  <1> HIDE DEF c, st, last
  <1>5. /\ stitch' \in [StitchWorkers -> [StitchChannels -> StitchStates]]
        /\ stitch'[w][c] = [offset |-> o, last |-> last]
        /\ \A d \in StitchChannels \ {c} : stitch'[w][d] \in {stitch[w][d], StitchFresh}
        /\ \A v \in StitchWorkers \ {w} : stitch'[v] = stitch[v]
    <2>1. StitchFresh \in StitchStates /\ [offset |-> o, last |-> last] \in StitchStates
      BY <1>3, <1>4, StitchAssumption DEF StitchFresh, StitchStates, Stamps
    <2>2. stitch \in [StitchWorkers -> [StitchChannels -> StitchStates]]
      BY DEF StitchIInv, StitchTypeOK, StitchStates
    <2> DEFINE new == [d \in StitchChannels |->
                          IF d = c THEN [offset |-> o, last |-> last]
                          ELSE IF d \in Range(StitchTouched(w, c)) THEN stitch[w][d] ELSE StitchFresh]
    <2>3. /\ new \in [StitchChannels -> StitchStates] /\ new[c] = [offset |-> o, last |-> last]
          /\ \A d \in StitchChannels \ {c} : new[d] \in {stitch[w][d], StitchFresh}
      BY <1>2, <2>1, <2>2
    <2>4. stitch' = [stitch EXCEPT ![w] = new]
      BY <1>1
    <2> HIDE DEF new
    <2> QED  BY <2>2, <2>3, <2>4
  <1>6. /\ out \in [StitchPlayers -> Stamps \cup {NoStamp}]
        /\ out' \in [StitchPlayers -> Stamps \cup {NoStamp}]
        /\ out'[p] = last /\ \A q \in StitchPlayers \ {p} : out'[q] = out[q]
    BY <1>1, <1>4 DEF StitchIInv, StitchTypeOK
  <1>7. feed' \in [StitchPlayers -> Stamps]
    <2>1. PICK gap \in Gaps : feed' = [feed EXCEPT ![p] = StitchMasked(first + length + gap)]
      BY <1>1
    <2>2. first + length + gap \in Int
      BY <1>2
    <2>3. StitchMasked(first + length + gap) \in Stamps
      BY <2>2, ModStamp
    <2> QED  BY <2>1, <2>3 DEF StitchIInv, StitchTypeOK
  <1>8. /\ jump' \in [StitchPlayers -> -(StitchHalf + 1) .. StitchHalf + 1]
        /\ jump'[p] = IF out[p] = NoStamp THEN 0 ELSE StitchDiff(StitchMasked(first + o), out[p])
        /\ \A q \in StitchPlayers \ {p} : jump'[q] = jump[q]
    <2>1. StitchMasked(first + o) \in Stamps
      <3>1. first + o \in Int
        BY <1>2, <1>3 DEF Stamps
      <3> QED  BY <3>1, ModStamp
    <2>2. (IF out[p] = NoStamp THEN 0 ELSE StitchDiff(StitchMasked(first + o), out[p]))
             \in -(StitchHalf + 1) .. StitchHalf + 1
      <3>1. CASE out[p] = NoStamp
        BY <3>1, HalfWrap
      <3>2. CASE out[p] # NoStamp
        BY <1>6, <2>1, <3>2, DiffRange
      <3> QED  BY <3>1, <3>2
    <2>3. jump \in [StitchPlayers -> -(StitchHalf + 1) .. StitchHalf + 1]
      BY DEF StitchIInv, StitchTypeOK
    <2> QED  BY <1>1, <2>2, <2>3, Zenon
  <1>9. StitchTypeOK'
    <2>1. /\ DOMAIN kept' = StitchWorkers
          /\ \A v \in StitchWorkers : /\ kept'[v] \in Seq(StitchChannels) /\ Len(kept'[v]) <= MaxStates
                                      /\ IsInjective(kept'[v])
      <3>1. /\ StitchTouched(w, c) \in Seq(StitchChannels) /\ Len(StitchTouched(w, c)) <= MaxStates
            /\ IsInjective(StitchTouched(w, c))
        BY <1>2, TouchedOK DEF StitchIInv
      <3> QED  BY <1>1, <3>1, KeptChanges DEF StitchIInv
    <2>2. /\ anew' \subseteq StitchPlayers /\ segments' \in 0 .. MaxSegments
          /\ servedBy' \in [StitchPlayers -> SUBSET StitchWorkers]
      BY <1>1, StitchAssumption DEF StitchIInv, StitchTypeOK
    <2> QED  BY <1>5, <1>6, <1>7, <1>8, <2>1, <2>2 DEF StitchTypeOK, StitchStates
  <1>10. /\ servedBy'[p] = {w}
         /\ \A q \in StitchPlayers \ {p} : servedBy'[q] = servedBy[q]
    BY <1>1 DEF StitchIInv, StitchTypeOK
  <1>11. ASSUME NEW q \in StitchPlayers, StitchAlone(q)
         PROVE  /\ q \notin anew' => StitchAbs(jump'[q]) <= Threshold
                /\ \A v \in StitchWorkers :
                      servedBy'[q] = {v} /\ stitch'[v][ChannelOf[q]].last # NoStamp
                         => out'[q] = stitch'[v][ChannelOf[q]].last
    <2>1. CASE q = p
      <3>1. q \notin anew' => st.last # NoStamp /\ servedBy[p] = {w}
        BY <1>1, <2>1
      <3>2. st.last # NoStamp /\ servedBy[p] = {w} => out[p] = st.last /\ st.last \in Stamps
        <4>1. StitchFresh.last = NoStamp
          BY DEF StitchFresh
        <4>2. st.last # NoStamp => st = stitch[w][c]
          BY <4>1 DEF st
        <4> QED  BY <1>0, <1>11, <2>1, <4>2 DEF StitchIInv, StitchRemembered, StitchStates, c
      <3>3. q \notin anew' => StitchAbs(jump'[q]) <= Threshold
        BY <1>2, <1>3, <1>8, <2>1, <3>1, <3>2
      <3>4. stitch'[w][ChannelOf[q]].last = out'[q]
        BY <1>5, <1>6, <2>1 DEF c
      <3>5. \A v \in StitchWorkers : servedBy'[q] = {v} => v = w
        BY <1>10, <2>1
      <3> QED  BY <3>3, <3>4, <3>5
    <2>2. CASE q # p
      <3>1. ChannelOf[q] \in StitchChannels \ {c}
        BY <1>11, <2>2 DEF StitchAlone, StitchChannels, c
      <3>2. \A v \in StitchWorkers :
               stitch'[v][ChannelOf[q]].last # NoStamp => stitch'[v][ChannelOf[q]] = stitch[v][ChannelOf[q]]
        BY <1>5, <3>1 DEF StitchFresh
      <3>3. q \notin anew' => q \notin anew
        BY <1>1, <2>2
      <3>4. q \notin anew' => StitchAbs(jump'[q]) <= Threshold
        BY <1>8, <1>11, <2>2, <3>3 DEF StitchIInv, StitchSeamless
      <3> QED  BY <1>6, <1>10, <1>11, <2>2, <3>2, <3>4 DEF StitchIInv, StitchRemembered
    <2> QED  BY <2>1, <2>2
  <1>12. StitchSeamless' /\ StitchRemembered'
    BY <1>11 DEF StitchSeamless, StitchRemembered, StitchAlone
  <1> QED  BY <1>9, <1>12 DEF StitchIInv

\* States that are lost make nobody remember anything else.
LEMMA ForgettingStep ==
  ASSUME StitchIInv, NEW w \in StitchWorkers,
         NEW seq \in Seq(StitchChannels), Len(seq) <= MaxStates, IsInjective(seq),
         NEW new \in [StitchChannels -> StitchStates],
         \A d \in StitchChannels : new[d] \in {stitch[w][d], StitchFresh},
         kept' = [kept EXCEPT ![w] = seq], stitch' = [stitch EXCEPT ![w] = new],
         UNCHANGED <<feed, servedBy, out, jump, anew>>, segments' \in 0 .. MaxSegments
  PROVE  StitchIInv'
  <1>1. /\ stitch' \in [StitchWorkers -> [StitchChannels -> StitchStates]] /\ stitch'[w] = new
        /\ \A v \in StitchWorkers \ {w} : stitch'[v] = stitch[v]
    BY DEF StitchIInv, StitchTypeOK, StitchStates
  <1>2. /\ DOMAIN kept' = StitchWorkers
        /\ \A v \in StitchWorkers : /\ kept'[v] \in Seq(StitchChannels) /\ Len(kept'[v]) <= MaxStates
                                    /\ IsInjective(kept'[v])
    BY KeptChanges DEF StitchIInv
  <1>3. StitchTypeOK'
    BY <1>1, <1>2 DEF StitchIInv, StitchTypeOK, StitchStates
  <1>4. StitchSeamless'
    BY DEF StitchIInv, StitchSeamless, StitchAlone
  <1>5. ASSUME NEW q \in StitchPlayers, NEW v \in StitchWorkers, StitchAlone(q), servedBy[q] = {v},
               stitch'[v][ChannelOf[q]].last # NoStamp
        PROVE  out'[q] = stitch'[v][ChannelOf[q]].last
    <2>1. stitch'[v][ChannelOf[q]] = stitch[v][ChannelOf[q]]
      BY <1>1, <1>5 DEF StitchChannels, StitchFresh
    <2> QED  BY <1>5, <2>1 DEF StitchIInv, StitchRemembered
  <1>6. StitchRemembered'
    BY <1>5 DEF StitchRemembered, StitchAlone
  <1> QED  BY <1>3, <1>4, <1>6 DEF StitchIInv

\* A segment without stamps only uses the registry.
LEMMA UnstampedStep ==
  ASSUME StitchIInv, NEW w \in StitchWorkers, NEW p \in StitchPlayers, StitchNoStamps(w, p)
  PROVE  StitchIInv'
  <1> DEFINE seq == StitchTouched(w, ChannelOf[p])
             new == [d \in StitchChannels |-> IF d \in Range(seq) THEN stitch[w][d] ELSE StitchFresh]
  <1>1. ChannelOf[p] \in StitchChannels
    BY DEF StitchChannels
  <1>2. seq \in Seq(StitchChannels) /\ Len(seq) <= MaxStates /\ IsInjective(seq)
    BY <1>1, TouchedOK DEF StitchIInv
  <1>3. kept' = [kept EXCEPT ![w] = seq] /\ kept'[w] = seq
    BY DEF StitchNoStamps, StitchIInv, StitchTypeOK
  <1>4. stitch' = [stitch EXCEPT ![w] = new]
    BY <1>3 DEF StitchNoStamps
  <1> HIDE DEF seq
  <1>5. /\ new \in [StitchChannels -> StitchStates]
        /\ \A d \in StitchChannels : new[d] \in {stitch[w][d], StitchFresh}
    <2>1. StitchFresh \in StitchStates
      BY StitchAssumption DEF StitchFresh, StitchStates, Stamps
    <2>2. stitch[w] \in [StitchChannels -> StitchStates]
      BY DEF StitchIInv, StitchTypeOK, StitchStates
    <2> QED  BY <2>1, <2>2
  <1> HIDE DEF new
  <1>6. UNCHANGED <<feed, servedBy, out, jump, anew>> /\ segments' \in 0 .. MaxSegments
    BY StitchAssumption DEF StitchNoStamps, StitchIInv, StitchTypeOK
  <1> QED  BY <1>2, <1>3, <1>4, <1>5, <1>6, ForgettingStep

\* A process that takes another's place knows nothing.
LEMMA RecycleStep ==
  ASSUME StitchIInv, NEW w \in StitchWorkers, StitchRecycle(w)
  PROVE  StitchIInv'
  <1>1. <<>> \in Seq(StitchChannels) /\ Len(<<>>) <= MaxStates /\ IsInjective(<<>>)
    BY StitchAssumption DEF IsInjective
  <1>2. StitchForgotten \in [StitchChannels -> StitchStates]
        /\ \A d \in StitchChannels : StitchForgotten[d] \in {stitch[w][d], StitchFresh}
    BY StitchAssumption DEF StitchForgotten, StitchFresh, StitchStates, Stamps
  <1>3. segments' \in 0 .. MaxSegments
    BY DEF StitchRecycle, StitchIInv, StitchTypeOK
  <1> QED  BY <1>1, <1>2, <1>3, ForgettingStep DEF StitchRecycle

\* A player that is alone on its channel is not sent a jump of more than
\* DISCONTINUITY_THRESHOLD while one process serves it and keeps the state of its
\* channel, and each _registry holds _MAX_CHANNELS states at most:
\* stitch_segment(), for any processes, threshold, wrap, players and segments.
THEOREM StitchInvariant == StitchSpec => []StitchInv
  <1>1. StitchInit => StitchIInv
    <2> SUFFICES ASSUME StitchInit  PROVE StitchIInv
      OBVIOUS
    <2>1. StitchFresh \in StitchStates /\ StitchFresh.last = NoStamp
      BY StitchAssumption DEF StitchFresh, StitchStates, Stamps
    <2>2. StitchTypeOK
      <3>1. /\ DOMAIN kept = StitchWorkers
            /\ \A w \in StitchWorkers : /\ kept[w] \in Seq(StitchChannels) /\ Len(kept[w]) <= MaxStates
                                        /\ IsInjective(kept[w])
        BY StitchAssumption DEF StitchInit, IsInjective
      <3>2. /\ feed \in [StitchPlayers -> Stamps]
            /\ out \in [StitchPlayers -> Stamps \cup {NoStamp}]
            /\ servedBy \in [StitchPlayers -> SUBSET StitchWorkers]
            /\ jump \in [StitchPlayers -> -(StitchHalf + 1) .. StitchHalf + 1]
        BY StitchAssumption, HalfWrap DEF StitchInit, Stamps
      <3>3. stitch \in [StitchWorkers -> [StitchChannels -> StitchStates]]
        BY <2>1 DEF StitchInit, StitchForgotten
      <3> QED  BY <3>1, <3>2, <3>3, StitchAssumption DEF StitchInit, StitchTypeOK, StitchStates
    <2>3. StitchSeamless
      BY StitchAssumption DEF StitchInit, StitchSeamless, StitchAbs
    <2>4. StitchRemembered
      BY DEF StitchInit, StitchRemembered
    <2> QED  BY <2>2, <2>3, <2>4 DEF StitchIInv
  <1>2. StitchIInv /\ [StitchNext]_stitchVars => StitchIInv'
    <2>1. ASSUME StitchIInv, UNCHANGED stitchVars  PROVE StitchIInv'
      BY <2>1 DEF stitchVars, StitchIInv, StitchTypeOK, StitchSeamless, StitchRemembered, StitchAlone
    <2>2. ASSUME StitchIInv, NEW w \in StitchWorkers, NEW p \in StitchPlayers, StitchContinues(w, p)
           PROVE StitchIInv'
      <3>1. feed[p] \in Stamps
        BY <2>2 DEF StitchIInv, StitchTypeOK
      <3> QED  BY <2>2, <3>1, StitchStep DEF StitchContinues
    <2>3. ASSUME StitchIInv, NEW w \in StitchWorkers, NEW p \in StitchPlayers, StitchBoundary(w, p)
           PROVE StitchIInv'
      BY <2>3, StitchStep DEF StitchBoundary
    <2> QED  BY <2>1, <2>2, <2>3, UnstampedStep, RecycleStep DEF StitchNext
  <1>3. StitchIInv => StitchInv
    BY DEF StitchIInv, StitchInv
  <1> QED  BY <1>1, <1>2, <1>3, PTL DEF StitchSpec

------------------------------------------------------------------------------
(* The Roku session (RokuSession) *)

\* What a request keeps
RokuUrls == [Stations -> 0 .. MaxTokens + 1]
RokuIds == [Stations -> 0 .. MaxPlayIds + 1]
RokuTuners ==
    [at : {"away", "resolve", "scrape", "persist", "probe"}, station : SUBSET Stations,
     urls : RokuUrls, ids : RokuIds, until : Nat, saw : Nat, wrote : SUBSET {"urls", "ids", "cool"},
     got : 0 .. MaxTokens + 1]

\* A request has one station, from the first to the last; a scrape has none.
RokuPlaced(r) ==
    /\ r.at \in {"away", "scrape"} => r.station = {}
    /\ r.at \in {"resolve", "probe"} \/ r.got # Absent => \E s \in Stations : r.station = {s}

\* What an instance has loaded is what the configuration said, unless it had
\* ended; what it writes of the cooldown it writes after what it saw had ended.
RokuTimely(r, time) ==
    /\ r.at \in {"resolve", "scrape"} =>
          /\ r.wrote = {} /\ r.got = Absent
          /\ IF r.until = Absent THEN r.saw <= time ELSE r.saw = r.until
    /\ "cool" \in r.wrote => r.saw <= time

\* The requests
RokuTunersOK ==
    /\ tuner \in [Tuners -> RokuTuners]
    /\ \A t \in Tuners : RokuPlaced(tuner[t]) /\ RokuTimely(tuner[t], rokuTime)

\* The configuration, the history, and what Roku accepts
RokuConfigOK ==
    /\ streamUrls \in RokuUrls /\ playIds \in RokuIds
    /\ cooldownUntil \in Nat /\ quietUntil \in Nat /\ overwritten \in BOOLEAN
    /\ token \in 1 .. MaxTokens + 1
    /\ playId \in [Stations -> 1 .. MaxPlayIds + 1]
    /\ forbidden \in 0 .. MaxForbidden
    /\ rokuTime \in 0 .. RokuLastTime

\* The inductive invariant
RokuIInv == RokuTunersOK /\ RokuConfigOK /\ RokuCooldownKept

-----------------------------------------------------------------------------
\* The station of a request that has one
LEMMA StationOfTuner ==
  ASSUME RokuTunersOK, NEW t \in Tuners,
         tuner[t].at \in {"resolve", "probe"} \/ tuner[t].got # Absent
  PROVE  RokuStation(t) \in Stations /\ tuner[t].station = {RokuStation(t)}
  BY DEF RokuTunersOK, RokuPlaced, RokuStation

\* Requests that are away, or have their URL, are well-formed.
LEMMA ServedTuners ==
  /\ RokuAway \in RokuTuners /\ RokuPlaced(RokuAway) /\ RokuTimely(RokuAway, rokuTime)
  /\ \A s \in Stations, url \in 0 .. MaxTokens + 1 :
        /\ RokuServed(s, url) \in RokuTuners /\ RokuPlaced(RokuServed(s, url))
        /\ RokuTimely(RokuServed(s, url), rokuTime)
  <1>1. /\ RokuNothing \in RokuUrls /\ RokuNothing \in RokuIds
        /\ Absent \in Nat /\ Absent \in 0 .. MaxTokens + 1
    BY RokuAssumption DEF RokuNothing, Absent, RokuUrls, RokuIds
  <1>2. RokuAway \in RokuTuners /\ RokuPlaced(RokuAway) /\ RokuTimely(RokuAway, rokuTime)
    BY <1>1 DEF RokuAway, RokuTuners, RokuPlaced, RokuTimely
  <1>3. ASSUME NEW s \in Stations, NEW url \in 0 .. MaxTokens + 1
        PROVE  /\ RokuServed(s, url) \in RokuTuners /\ RokuPlaced(RokuServed(s, url))
               /\ RokuTimely(RokuServed(s, url), rokuTime)
    <2>1. RokuAway.wrote = {}
      BY DEF RokuAway
    <2>2. /\ RokuServed(s, url) \in RokuTuners /\ RokuServed(s, url).station = {s}
          /\ RokuServed(s, url).at = "probe" /\ RokuServed(s, url).wrote = RokuAway.wrote
      BY <1>2 DEF RokuServed, RokuTuners
    <2> QED  BY <2>1, <2>2 DEF RokuPlaced, RokuTimely
  <1> QED  BY <1>2, <1>3

\* So are the instances that are made.
LEMMA InstancesAreTuners ==
  ASSUME RokuConfigOK, NEW label \in {"resolve", "scrape"}, NEW S \in SUBSET Stations,
         IF label = "scrape" THEN S = {} ELSE \E s \in Stations : S = {s}
  PROVE  /\ RokuInstance(label, S) \in RokuTuners /\ RokuPlaced(RokuInstance(label, S))
         /\ RokuTimely(RokuInstance(label, S), rokuTime)
  BY RokuAssumption
     DEF RokuConfigOK, RokuInstance, RokuTuners, RokuPlaced, RokuTimely, Absent

\* Whoever may ask Roku knows of no cooldown that lasts, and has written nothing.
LEMMA AskersAreTimely ==
  ASSUME RokuIInv, NEW t \in Tuners, RokuMayAsk(t)
  PROVE  /\ tuner[t] \in RokuTuners /\ tuner[t].at \in {"resolve", "scrape"}
         /\ RokuPlaced(tuner[t]) /\ tuner[t].got = Absent
         /\ tuner[t].saw <= rokuTime /\ rokuTime \in Nat
  BY RokuAssumption
     DEF RokuIInv, RokuTunersOK, RokuConfigOK, RokuTimely, RokuMayAsk, RokuAsking, RokuTuners

\* A step of one request that leaves the configuration of the cooldown and the
\* time as they are.
LEMMA RokuTunerChanges ==
  ASSUME RokuIInv, NEW t \in Tuners, tuner[t].at # "persist",
         NEW r \in RokuTuners, RokuPlaced(r), RokuTimely(r, rokuTime),
         tuner' = [tuner EXCEPT ![t] = r],
         UNCHANGED <<cooldownUntil, rokuTime, quietUntil, overwritten>>
  PROVE  RokuTunersOK' /\ RokuCooldownKept'
  <1>1. /\ tuner' \in [Tuners -> RokuTuners] /\ tuner'[t] = r
        /\ \A u \in Tuners \ {t} : tuner'[u] = tuner[u]
    BY DEF RokuIInv, RokuTunersOK
  <1>2. RokuTunersOK'
    BY <1>1 DEF RokuIInv, RokuTunersOK
  <1>3. RokuCooldownKept'
    BY <1>1 DEF RokuIInv, RokuCooldownKept
  <1> QED  BY <1>2, <1>3

\* A request opens, uses what is cached, or is answered.
LEMMA RokuAsks ==
  ASSUME RokuIInv, NEW t \in Tuners,
         \/ \E s \in Stations : RokuOpen(t, s)
         \/ RokuScrape(t) \/ RokuCached(t) \/ RokuBlocked(t) \/ RokuPlayback(t) \/ RokuRefused(t)
         \/ RokuScraped(t) \/ RokuProbe(t)
  PROVE  RokuIInv'
  <1> USE DEF RokuIInv
  <1> DEFINE s0 == RokuStation(t)
  <1> DEFINE Fine(r) ==
        /\ RokuPlaced(r) /\ RokuTimely(r, rokuTime)
        /\ tuner' = [tuner EXCEPT ![t] = r] /\ tuner[t].at # "persist"
  <1>1. \E r \in RokuTuners : Fine(r)
    <2>1. ASSUME NEW s \in Stations, RokuOpen(t, s)  PROVE \E r \in RokuTuners : Fine(r)
      BY <2>1, InstancesAreTuners DEF RokuOpen
    <2>2. CASE RokuScrape(t)
      BY <2>2, InstancesAreTuners DEF RokuScrape
    <2>3. CASE RokuCached(t)
      <3>1. s0 \in Stations /\ tuner[t].urls[s0] \in 0 .. MaxTokens + 1 /\ tuner[t].at = "resolve"
        BY <2>3, StationOfTuner DEF RokuCached, RokuTunersOK, RokuTuners, RokuUrls
      <3>2. tuner' = [tuner EXCEPT ![t] = RokuServed(s0, tuner[t].urls[s0])]
        BY <2>3 DEF RokuCached
      <3> QED  BY <3>1, <3>2, ServedTuners
    <2>4. CASE RokuBlocked(t) \/ RokuProbe(t)
      BY <2>4, ServedTuners DEF RokuBlocked, RokuAsking, RokuProbe
    <2>5. CASE RokuPlayback(t)
      <3> DEFINE r == [tuner[t] EXCEPT !.at = "persist", !.until = Absent, !.got = token,
                                       !.urls[s0] = token, !.ids[s0] = playId[s0],
                                       !.wrote = RokuWrote(t, {"urls", "ids"})]
      <3>1. s0 \in Stations /\ tuner[t].at = "resolve" /\ tuner[t].station = {s0}
        BY <2>5, StationOfTuner DEF RokuPlayback
      <3>2. playId[s0] \in 0 .. MaxPlayIds + 1 /\ token \in 0 .. MaxTokens + 1
        BY <3>1, RokuAssumption DEF RokuConfigOK
      <3>3. /\ tuner[t] \in RokuTuners /\ tuner[t].saw <= rokuTime
        BY <2>5, AskersAreTimely DEF RokuPlayback
      <3>4. RokuWrote(t, {"urls", "ids"}) \in SUBSET {"urls", "ids", "cool"}
        BY DEF RokuWrote
      <3>5. r \in RokuTuners /\ r.station = {s0} /\ r.at = "persist" /\ r.saw = tuner[t].saw
        BY <3>1, <3>2, <3>3, <3>4 DEF RokuTuners, RokuUrls, RokuIds, Absent
      <3>6. tuner' = [tuner EXCEPT ![t] = r]
        BY <2>5 DEF RokuPlayback
      <3> QED  BY <3>1, <3>3, <3>5, <3>6 DEF RokuPlaced, RokuTimely
    <2>6. CASE RokuRefused(t)
      <3> DEFINE r == [tuner[t] EXCEPT !.at = "persist", !.until = Absent, !.ids = RokuForgotten(t),
                                       !.wrote = RokuWrote(t, {"ids"})]
      <3>1. /\ tuner[t] \in RokuTuners /\ tuner[t].saw <= rokuTime /\ tuner[t].at = "resolve"
            /\ RokuPlaced(tuner[t]) /\ tuner[t].got = Absent
        BY <2>6, AskersAreTimely DEF RokuRefused
      <3>2. RokuWrote(t, {"ids"}) \in SUBSET {"urls", "ids", "cool"}
        BY DEF RokuWrote
      <3>3. RokuForgotten(t) \in RokuIds
        BY <3>1, RokuAssumption DEF RokuForgotten, RokuTuners, RokuIds, Absent
      <3>4. /\ r \in RokuTuners /\ r.station = tuner[t].station /\ r.at = "persist"
            /\ r.saw = tuner[t].saw /\ r.got = Absent
        BY <3>1, <3>2, <3>3 DEF RokuTuners, Absent
      <3>5. tuner' = [tuner EXCEPT ![t] = r]
        BY <2>6 DEF RokuRefused
      <3> QED  BY <3>1, <3>4, <3>5 DEF RokuPlaced, RokuTimely
    <2>7. CASE RokuScraped(t)
      <3>1. PICK keys \in {{"ids"}, {"ids", "urls"}},
                 urls \in {tuner[t].urls} \cup {[tuner[t].urls EXCEPT ![s] = token] : s \in Stations} :
                 tuner' = [tuner EXCEPT ![t] = [@ EXCEPT !.at = "persist", !.until = Absent, !.ids = playId,
                                                         !.urls = urls, !.wrote = RokuWrote(t, keys)]]
        BY <2>7 DEF RokuScraped
      <3> DEFINE r == [tuner[t] EXCEPT !.at = "persist", !.until = Absent, !.ids = playId,
                                       !.urls = urls, !.wrote = RokuWrote(t, keys)]
      <3>2. /\ tuner[t] \in RokuTuners /\ tuner[t].saw <= rokuTime /\ tuner[t].at = "scrape"
            /\ RokuPlaced(tuner[t]) /\ tuner[t].got = Absent
        BY <2>7, AskersAreTimely DEF RokuScraped
      <3>3. RokuWrote(t, keys) \in SUBSET {"urls", "ids", "cool"}
        BY DEF RokuWrote
      <3>4. urls \in RokuUrls
        <4>1. tuner[t].urls \in RokuUrls /\ token \in 0 .. MaxTokens + 1
          BY <3>2, RokuAssumption DEF RokuTuners, RokuConfigOK
        <4> QED  BY <4>1 DEF RokuUrls
      <3>5. playId \in RokuIds
        BY RokuAssumption DEF RokuConfigOK, RokuIds
      <3>6. /\ r \in RokuTuners /\ r.at = "persist" /\ r.saw = tuner[t].saw /\ r.got = Absent
        BY <3>2, <3>3, <3>4, <3>5 DEF RokuTuners, Absent
      <3>7. tuner' = [tuner EXCEPT ![t] = r]
        BY <3>1
      <3> QED  BY <3>2, <3>6, <3>7 DEF RokuPlaced, RokuTimely
    <2> QED  BY <2>1, <2>2, <2>3, <2>4, <2>5, <2>6, <2>7
  <1>2. UNCHANGED <<playIds, cooldownUntil, token, playId, forbidden, rokuTime, quietUntil, overwritten>>
    BY DEF RokuOpen, RokuScrape, RokuCached, RokuBlocked, RokuPlayback, RokuRefused, RokuScraped, RokuProbe,
           RokuKeep, rokuConfig, rokuService, rokuHistory
  <1>3. streamUrls' \in RokuUrls
    <2>1. RokuNothing \in RokuUrls
      BY RokuAssumption DEF RokuNothing, RokuUrls, Absent
    <2>2. streamUrls' \in {streamUrls, RokuNothing}
      BY DEF RokuOpen, RokuScrape, RokuCached, RokuBlocked, RokuPlayback, RokuRefused, RokuScraped, RokuProbe,
             RokuKeep, rokuConfig, rokuService
    <2> QED  BY <2>1, <2>2 DEF RokuConfigOK
  <1>4. RokuConfigOK'
    BY <1>2, <1>3 DEF RokuConfigOK
  <1>5. RokuTunersOK' /\ RokuCooldownKept'
    <2>1. PICK r \in RokuTuners : Fine(r)
      BY <1>1
    <2> QED  BY <2>1, <1>2, RokuTunerChanges
  <1> QED  BY <1>4, <1>5

\* An answer 403 begins a cooldown, which the request has to write back.
LEMMA RokuForbidden ==
  ASSUME RokuIInv, NEW t \in Tuners, RokuForbids(t)
  PROVE  RokuIInv'
  <1> USE DEF RokuIInv
  <1> DEFINE end == rokuTime + RokuCooldown
             keys == IF tuner[t].at = "scrape" THEN {"cool"} ELSE {"ids", "cool"}
             r == [tuner[t] EXCEPT !.at = "persist", !.until = end, !.ids = RokuForgotten(t),
                                   !.wrote = keys]
  <1>1. /\ tuner[t] \in RokuTuners /\ tuner[t].saw <= rokuTime /\ tuner[t].got = Absent
        /\ RokuPlaced(tuner[t]) /\ rokuTime \in Nat
    BY AskersAreTimely DEF RokuForbids
  <1>2. end \in Nat
    BY <1>1, RokuAssumption
  <1>3. RokuForgotten(t) \in RokuIds
    BY <1>1, RokuAssumption DEF RokuForgotten, RokuTuners, RokuIds, Absent
  <1>4. keys \in SUBSET {"urls", "ids", "cool"} /\ "cool" \in keys
    OBVIOUS
  <1>5. tuner' = [tuner EXCEPT ![t] = r] /\ quietUntil' = end /\ overwritten' = FALSE
    BY DEF RokuForbids
  <1>6. UNCHANGED <<streamUrls, playIds, cooldownUntil, token, playId, rokuTime>>
    BY DEF RokuForbids, RokuKeep, rokuConfig, rokuService
  <1> HIDE DEF end, keys
  <1>7. /\ r \in RokuTuners /\ r.at = "persist" /\ r.until = end /\ r.wrote = keys
        /\ r.saw = tuner[t].saw /\ r.got = Absent
    BY <1>1, <1>2, <1>3, <1>4 DEF RokuTuners
  <1>8. RokuPlaced(r) /\ RokuTimely(r, rokuTime)
    BY <1>1, <1>7 DEF RokuPlaced, RokuTimely
  <1> HIDE DEF r
  <1>9. /\ tuner' \in [Tuners -> RokuTuners] /\ tuner'[t] = r
        /\ \A u \in Tuners \ {t} : tuner'[u] = tuner[u]
    BY <1>5, <1>7 DEF RokuTunersOK
  <1>10. RokuTunersOK'
    BY <1>6, <1>8, <1>9 DEF RokuTunersOK
  <1>11. forbidden' \in 0 .. MaxForbidden
    BY RokuAssumption DEF RokuForbids, RokuConfigOK
  <1>12. RokuConfigOK'
    BY <1>2, <1>5, <1>6, <1>11 DEF RokuConfigOK
  <1>13. RokuCooldownKept'
    BY <1>4, <1>5, <1>7, <1>9 DEF RokuCooldownKept
  <1> QED  BY <1>10, <1>12, <1>13

\* A request's changes are merged into the configuration.
LEMMA RokuPersists ==
  ASSUME RokuIInv, NEW t \in Tuners, RokuPersist(t)
  PROVE  RokuIInv'
  <1> USE DEF RokuIInv
  <1>1. tuner[t].at = "persist" /\ tuner[t] \in RokuTuners /\ RokuTimely(tuner[t], rokuTime)
    BY DEF RokuPersist, RokuTunersOK
  <1>2. PICK r \in RokuTuners :
           RokuPlaced(r) /\ RokuTimely(r, rokuTime) /\ tuner' = [tuner EXCEPT ![t] = r]
    <2>1. tuner[t].got \in 0 .. MaxTokens + 1
      BY <1>1 DEF RokuTuners
    <2>2. CASE tuner[t].got # Absent
      BY <1>1, <2>1, <2>2, StationOfTuner, ServedTuners DEF RokuPersist
    <2>3. CASE tuner[t].got = Absent
      BY <2>3, ServedTuners DEF RokuPersist
    <2> QED  BY <2>2, <2>3
  <1>3. /\ tuner' \in [Tuners -> RokuTuners] /\ tuner'[t] = r
        /\ \A u \in Tuners \ {t} : tuner'[u] = tuner[u]
    BY <1>2 DEF RokuTunersOK
  <1>4. UNCHANGED <<token, playId, forbidden, rokuTime, quietUntil>>
    BY DEF RokuPersist, rokuService
  <1>5. RokuTunersOK'
    BY <1>2, <1>3, <1>4 DEF RokuTunersOK
  <1>6. /\ cooldownUntil' = IF "cool" \in tuner[t].wrote THEN tuner[t].until ELSE cooldownUntil
        /\ overwritten' = (overwritten \/ RokuOverwrites(t))
    BY DEF RokuPersist
  <1>7. cooldownUntil' \in Nat /\ overwritten' \in BOOLEAN
    <2>1. cooldownUntil' \in Nat
      BY <1>1, <1>6 DEF RokuTuners, RokuConfigOK
    <2>2. overwritten' \in BOOLEAN
      BY <1>6, Zenon
    <2> QED  BY <2>1, <2>2
  <1>8. streamUrls' \in RokuUrls /\ playIds' \in RokuIds
    <2>1. RokuMerge(streamUrls, tuner[t].urls) \in RokuUrls /\ RokuMerge(playIds, tuner[t].ids) \in RokuIds
      BY <1>1 DEF RokuMerge, RokuTuners, RokuUrls, RokuIds, RokuConfigOK
    <2> QED  BY <2>1 DEF RokuPersist, RokuConfigOK
  <1>9. RokuConfigOK'
    BY <1>4, <1>7, <1>8 DEF RokuConfigOK
  <1>10. RokuCooldownKept'
    <2> SUFFICES ASSUME rokuTime < quietUntil, ~overwritten'
                 PROVE  \/ cooldownUntil' = quietUntil
                        \/ \E u \in Tuners : /\ tuner'[u].at = "persist" /\ "cool" \in tuner'[u].wrote
                                             /\ tuner'[u].until = quietUntil
      BY <1>4 DEF RokuCooldownKept
    <2>1. ~overwritten /\ ~RokuOverwrites(t)
      BY <1>6, Zenon
    <2>2. CASE "cool" \in tuner[t].wrote
      <3>1. tuner[t].saw <= rokuTime
        BY <1>1, <2>2 DEF RokuTimely
      <3>2. tuner[t].saw # quietUntil
        BY <1>1, <3>1 DEF RokuTuners, RokuConfigOK
      <3> QED  BY <1>6, <2>1, <2>2, <3>2 DEF RokuOverwrites
    <2>3. CASE "cool" \notin tuner[t].wrote
      <3>1. \/ cooldownUntil = quietUntil
            \/ \E u \in Tuners : /\ tuner[u].at = "persist" /\ "cool" \in tuner[u].wrote
                                 /\ tuner[u].until = quietUntil
        BY <2>1 DEF RokuCooldownKept
      <3>2. cooldownUntil' = cooldownUntil
        BY <1>6, <2>3
      <3> QED  BY <1>3, <2>3, <3>1, <3>2
    <2> QED  BY <2>2, <2>3
  <1> QED  BY <1>5, <1>9, <1>10

\* A request's changes are lost.
LEMMA RokuLoses ==
  ASSUME RokuIInv, NEW t \in Tuners, RokuPersistLocked(t)
  PROVE  RokuIInv'
  <1> USE DEF RokuIInv
  <1>1. tuner[t].at = "persist" /\ tuner[t] \in RokuTuners
    BY DEF RokuPersistLocked, RokuTunersOK
  <1>2. PICK r \in RokuTuners :
           RokuPlaced(r) /\ RokuTimely(r, rokuTime) /\ tuner' = [tuner EXCEPT ![t] = r]
    <2>1. tuner[t].got \in 0 .. MaxTokens + 1
      BY <1>1 DEF RokuTuners
    <2>2. CASE tuner[t].got # Absent
      BY <1>1, <2>1, <2>2, StationOfTuner, ServedTuners DEF RokuPersistLocked
    <2>3. CASE tuner[t].got = Absent
      BY <2>3, ServedTuners DEF RokuPersistLocked
    <2> QED  BY <2>2, <2>3
  <1>3. /\ tuner' \in [Tuners -> RokuTuners] /\ tuner'[t] = r
        /\ \A u \in Tuners \ {t} : tuner'[u] = tuner[u]
    BY <1>2 DEF RokuTunersOK
  <1>4. /\ UNCHANGED <<streamUrls, playIds, cooldownUntil, token, playId, forbidden, rokuTime>>
        /\ UNCHANGED quietUntil
    BY DEF RokuPersistLocked, rokuService, rokuConfig
  <1>5. RokuTunersOK'
    BY <1>2, <1>3, <1>4 DEF RokuTunersOK
  <1>6. overwritten' = (overwritten \/ ("cool" \in tuner[t].wrote /\ tuner[t].until = quietUntil))
    BY DEF RokuPersistLocked
  <1>7. overwritten' \in BOOLEAN
    BY <1>6, Zenon
  <1>8. RokuConfigOK'
    BY <1>4, <1>7 DEF RokuConfigOK
  <1>9. RokuCooldownKept'
    <2> SUFFICES ASSUME rokuTime < quietUntil, ~overwritten'
                 PROVE  \/ cooldownUntil = quietUntil
                        \/ \E u \in Tuners : /\ tuner'[u].at = "persist" /\ "cool" \in tuner'[u].wrote
                                             /\ tuner'[u].until = quietUntil
      BY <1>4 DEF RokuCooldownKept
    <2>1. ~overwritten /\ ~("cool" \in tuner[t].wrote /\ tuner[t].until = quietUntil)
      BY <1>6, Zenon
    <2>2. \/ cooldownUntil = quietUntil
          \/ \E u \in Tuners : /\ tuner[u].at = "persist" /\ "cool" \in tuner[u].wrote
                               /\ tuner[u].until = quietUntil
      BY <2>1 DEF RokuCooldownKept
    <2> QED  BY <1>3, <2>1, <2>2
  <1> QED  BY <1>5, <1>8, <1>9

\* Roku and the clock
LEMMA RokuOthers ==
  ASSUME RokuIInv, RokuTokenExpires \/ RokuTick \/ \E s \in Stations : RokuPlayIdChanges(s)
  PROVE  RokuIInv'
  <1> USE DEF RokuIInv
  <1>1. UNCHANGED <<tuner, streamUrls, playIds, cooldownUntil, forbidden, quietUntil, overwritten>>
    BY DEF RokuTokenExpires, RokuTick, RokuPlayIdChanges, rokuConfig, rokuHistory
  <1>2. rokuTime' \in 0 .. RokuLastTime /\ rokuTime <= rokuTime' /\ rokuTime \in Nat /\ rokuTime' \in Nat
    BY RokuAssumption DEF RokuTokenExpires, RokuTick, RokuPlayIdChanges, RokuConfigOK
  <1>3. RokuTunersOK'
    BY <1>1, <1>2 DEF RokuTunersOK, RokuTimely, RokuTuners
  <1>4. token' \in 1 .. MaxTokens + 1
    BY RokuAssumption DEF RokuTokenExpires, RokuTick, RokuPlayIdChanges, rokuService, RokuConfigOK
  <1>5. playId' \in [Stations -> 1 .. MaxPlayIds + 1]
    BY RokuAssumption DEF RokuTokenExpires, RokuTick, RokuPlayIdChanges, rokuService, RokuConfigOK
  <1>6. RokuConfigOK'
    BY <1>1, <1>2, <1>4, <1>5 DEF RokuConfigOK
  <1>7. rokuTime' < quietUntil => rokuTime < quietUntil
    BY <1>2 DEF RokuConfigOK
  <1>8. RokuCooldownKept'
    BY <1>1, <1>7 DEF RokuCooldownKept
  <1> QED  BY <1>3, <1>6, <1>8

\* The cooldown that the last 403 has begun is in the configuration, or on its
\* way there, until it ends, unless an instance made before it was there has
\* written its own, or the database was locked when it was to be stored: an
\* instance that loaded it cannot clear it before it ends, for any stations,
\* requests, length of the cooldown and answers of Roku.
THEOREM RokuInvariant == RokuSpec => []RokuInv
  <1>1. RokuInit => RokuIInv
    <2> SUFFICES ASSUME RokuInit  PROVE RokuIInv
      OBVIOUS
    <2>1. RokuTunersOK
      BY ServedTuners DEF RokuInit, RokuTunersOK
    <2>2. RokuNothing \in RokuUrls /\ RokuNothing \in RokuIds
      BY RokuAssumption DEF RokuNothing, RokuUrls, RokuIds, Absent
    <2>3. [s \in Stations |-> 1] \in [Stations -> 1 .. MaxPlayIds + 1]
      BY RokuAssumption
    <2>4. RokuConfigOK
      <3>1. /\ token \in 1 .. MaxTokens + 1 /\ forbidden \in 0 .. MaxForbidden
            /\ rokuTime \in 0 .. RokuLastTime
        BY RokuAssumption DEF RokuInit
      <3>2. cooldownUntil \in Nat /\ quietUntil \in Nat /\ overwritten \in BOOLEAN
        BY DEF RokuInit, Absent
      <3>3. streamUrls \in RokuUrls /\ playIds \in RokuIds /\ playId \in [Stations -> 1 .. MaxPlayIds + 1]
        BY <2>2, <2>3 DEF RokuInit
      <3> QED  BY <3>1, <3>2, <3>3 DEF RokuConfigOK
    <2>5. RokuCooldownKept
      BY DEF RokuInit, RokuCooldownKept, Absent
    <2> QED  BY <2>1, <2>4, <2>5 DEF RokuIInv
  <1>2. RokuIInv /\ [RokuNext]_rokuVars => RokuIInv'
    <2>1. ASSUME RokuIInv, UNCHANGED rokuVars  PROVE RokuIInv'
      BY <2>1 DEF rokuVars, rokuConfig, rokuService, rokuHistory, RokuIInv, RokuTunersOK, RokuConfigOK,
                  RokuCooldownKept
    <2> QED  BY <2>1, RokuAsks, RokuForbidden, RokuPersists, RokuLoses, RokuOthers DEF RokuNext, RokuRequest
  <1>3. RokuIInv => RokuInv
    BY DEF RokuIInv, RokuTunersOK, RokuConfigOK, RokuPlaced, RokuTuners, RokuUrls, RokuIds, RokuInv, RokuTypeOK
  <1> QED  BY <1>1, <1>2, <1>3, PTL DEF RokuSpec

------------------------------------------------------------------------------
(* The resolvers of the scrapers (ScraperResolvers) *)

\* Times at which something was fetched, and feeds
ResTimes == Never .. resTime
ResFeedStates == [at : ResTimes, lists : BOOLEAN]

\* What is kept, where
ResKeptOK ==
    /\ resSite \in ResSites
    /\ resTime \in 0 .. ResLastTime
    /\ resListed \in BOOLEAN
    /\ bearersSince \in 0 .. resTime /\ keysSince \in 0 .. resTime
    /\ resStored \in ResTimes
    /\ resKeys \in [{"web", "audit"} -> ResTimes]
    /\ resFeeds \in [{"web", "audit"} -> ResFeedStates]
    /\ resAudit \in [1 .. ResSlots -> ResTimes]
    /\ resSlot \in 1 .. ResSlots

\* What the last call returned
ResOutcomeOK ==
    /\ resOutcome.what \in {"url", "raw", "dead", "error"} /\ resOutcome.failed \subseteq ResRequests
    /\ ResolvesWhenListed /\ ResolvesFreshly /\ DeadMeansGone /\ BearerStored

\* The inductive invariant
ResolveIInv == ResKeptOK /\ ResOutcomeOK

\* What a call may return: r, for one by whom keys are known, of whose requests
\* those in failed fail
ResultOK(r, failed) ==
    /\ r.what \in {"url", "raw", "dead", "error"}
    /\ r.held \in ResTimes /\ r.keys \in ResTimes /\ r.feed \in ResFeedStates
    /\ failed = {} /\ resListed /\ r.what # "url" =>
          \/ resSite = "stirr" /\ r.what = "raw"
          \/ resSite = "distro" /\ ~r.feed.lists
          \/ resSite = "sling" /\ r.keys \in 0 .. keysSince - 1
    /\ r.what = "url" =>
          /\ resSite = "amazon" => r.held # Never /\ resTime - r.held < AmazonLife
          /\ resSite = "pluto" => r.held # Never /\ resTime - r.held < PlutoLife
          /\ resSite = "localnow" => r.held # Never /\ resTime - r.held < LocalNowLife
          /\ resSite = "distro" => resTime < r.feed.at + DistroLife
          /\ resSite = "sling" => r.held >= bearersSince
    /\ r.what = "dead" /\ resSite \in {"sling", "stirr"} => ~resListed

-----------------------------------------------------------------------------
\* What is returned without keys and feed
LEMMA GivesFields ==
  ASSUME NEW what, NEW held
  PROVE  /\ ResGives(what, held).what = what /\ ResGives(what, held).held = held
         /\ ResGives(what, held).keys = Never /\ ResGives(what, held).feed = NoFeed
  BY DEF ResGives

\* Never, and no feed, are values of their types.
LEMMA NothingKept ==
  ASSUME ResKeptOK
  PROVE  Never \in ResTimes /\ NoFeed \in ResFeedStates /\ resTime \in ResTimes /\ resTime # Never
  BY ResAssumption DEF ResKeptOK, ResTimes, ResFeedStates, NoFeed, Never

\* Sling
LEMMA SlingOK ==
  ASSUME ResKeptOK, resSite = "sling", NEW held \in ResTimes, NEW keys \in ResTimes, NEW failed
  PROVE  ResultOK(SlingResolve(held, keys, failed), failed)
  <1> DEFINE bearer == SlingBearer(held, keys, failed)
             r == SlingResolve(held, keys, failed)
  <1>1. /\ bearer \in ResTimes
        /\ failed = {} /\ bearer < bearersSince => keys # Never /\ keys < keysSince /\ bearer # resTime
    BY NothingKept DEF SlingBearer, SlingLogin, ResKeptOK, ResTimes, Never
  <1> HIDE DEF bearer
  <1>2. /\ r.what = IF bearer < bearersSince \/ "first" \in failed THEN "error"
                    ELSE IF resListed THEN "url" ELSE "dead"
        /\ r.held = bearer /\ r.feed = NoFeed
        /\ r.keys = IF bearer = resTime /\ bearer # held /\ keys = Never THEN resTime ELSE keys
    BY DEF SlingResolve, ResGives, bearer
  <1> HIDE DEF r
  <1>3. r.keys \in ResTimes /\ (bearer # resTime => r.keys = keys)
    BY <1>2, NothingKept
  <1>4. failed = {} /\ resListed /\ r.what # "url" => r.keys \in 0 .. keysSince - 1
    BY <1>1, <1>2, <1>3 DEF ResKeptOK, ResTimes, Never
  <1>5. r.what = "url" => r.held >= bearersSince
    BY <1>1, <1>2 DEF ResKeptOK, ResTimes, Never
  <1>6. ResultOK(r, failed)
    BY <1>1, <1>2, <1>3, <1>4, <1>5, NothingKept DEF ResultOK
  <1> QED  BY <1>6 DEF r

\* Local Now, Amazon and Pluto: what is kept has a life.
LEMMA LivesOK ==
  ASSUME ResKeptOK, NEW held \in ResTimes, NEW failed
  PROVE  /\ resSite = "localnow" => ResultOK(LocalNowResolve(held, failed), failed)
         /\ resSite = "amazon" => ResultOK(AmazonResolve(held, failed), failed)
         /\ resSite = "pluto" => ResultOK(PlutoResolve(held, failed), failed)
  <1>1. /\ resTime \in Nat /\ held \in Int /\ held <= resTime
        /\ {LocalNowLife, AmazonLife, PlutoLife} \subseteq Nat \ {0} /\ Never = -1
    BY ResAssumption DEF ResKeptOK, ResTimes, Never
  <1>2. CASE resSite = "localnow"
    <2> DEFINE fetched == LocalNowToken(held, failed)
    <2>1. /\ fetched \in ResTimes
          /\ fetched # Never => resTime < fetched + LocalNowLife
          /\ failed = {} => fetched # Never
      BY <1>1, NothingKept DEF LocalNowToken
    <2> HIDE DEF fetched
    <2>2. LocalNowResolve(held, failed) =
             IF fetched = Never THEN ResGives("error", held)
             ELSE ResGives(IF "first" \in failed \/ ~resListed \/ resTime >= fetched + LocalNowLife
                           THEN "error" ELSE "url", fetched)
      BY DEF LocalNowResolve, fetched
    <2>3. CASE fetched = Never
      BY <1>2, <2>1, <2>2, <2>3, NothingKept, GivesFields DEF ResultOK
    <2>4. CASE fetched # Never
      <3>1. ~(resTime >= fetched + LocalNowLife) /\ resTime - fetched < LocalNowLife
        BY <1>1, <2>1, <2>4 DEF ResTimes
      <3> QED  BY <1>2, <2>1, <2>2, <2>4, <3>1, NothingKept, GivesFields DEF ResultOK
    <2> QED  BY <1>2, <2>3, <2>4
  <1>3. CASE resSite = "amazon"
    <2>1. CASE held # Never /\ resTime < held + AmazonLife
      <3>1. AmazonResolve(held, failed) = ResGives("url", held) /\ resTime - held < AmazonLife
        BY <1>1, <2>1 DEF AmazonResolve
      <3> QED  BY <1>3, <2>1, <3>1, NothingKept, GivesFields DEF ResultOK
    <2>2. CASE ~(held # Never /\ resTime < held + AmazonLife)
      <3>1. AmazonResolve(held, failed) =
               IF "first" \in failed \/ ~resListed THEN ResGives("raw", held) ELSE ResGives("url", resTime)
        BY <2>2 DEF AmazonResolve
      <3>2. resTime - resTime < AmazonLife
        BY <1>1
      <3> QED  BY <1>3, <3>1, <3>2, NothingKept, GivesFields DEF ResultOK
    <2> QED  BY <1>3, <2>1, <2>2
  <1>4. CASE resSite = "pluto"
    <2> DEFINE fetched == PlutoBoot(held, failed)
    <2>1. /\ fetched \in ResTimes
          /\ fetched # Never => resTime < fetched + PlutoLife
          /\ failed = {} => fetched # Never
      BY <1>1, NothingKept DEF PlutoBoot
    <2> HIDE DEF fetched
    <2>2. PlutoResolve(held, failed) = IF fetched = Never THEN ResGives("raw", held) ELSE ResGives("url", fetched)
      BY DEF PlutoResolve, fetched
    <2>3. fetched # Never => resTime - fetched < PlutoLife
      BY <1>1, <2>1 DEF ResTimes
    <2> QED  BY <1>4, <2>1, <2>2, <2>3, NothingKept, GivesFields DEF ResultOK
  <1> QED  BY <1>2, <1>3, <1>4

\* Distro: the feed has a life.
LEMMA DistroOK ==
  ASSUME ResKeptOK, resSite = "distro", NEW held \in ResTimes, NEW listing \in ResFeedStates, NEW failed
  PROVE  ResultOK(DistroResolve(held, listing, failed), failed)
  <1> DEFINE now == DistroFeed(listing, failed)
             r == DistroResolve(held, listing, failed)
  <1>1. /\ resTime \in Nat /\ listing.at \in Int /\ DistroLife \in Nat \ {0} /\ resListed \in BOOLEAN
    BY ResAssumption DEF ResKeptOK, ResTimes, ResFeedStates, Never
  <1>2. [at |-> resTime, lists |-> resListed] \in ResFeedStates
    BY NothingKept DEF ResKeptOK, ResFeedStates
  <1>3. now \in ResFeedStates
    BY <1>2 DEF DistroFeed
  <1>4. failed = {} => /\ now.at # Never /\ resTime < now.at + DistroLife
                       /\ now = listing \/ now.lists = resListed
    BY <1>1, <1>2, NothingKept DEF DistroFeed
  <1> HIDE DEF now
  <1>5. /\ r.what = IF now.at # Never /\ resTime < now.at + DistroLife /\ now.lists THEN "url" ELSE "dead"
        /\ r.held = held /\ r.keys = Never /\ r.feed = now
    BY DEF DistroResolve, ResGives, now
  <1> HIDE DEF r
  <1>6. ResultOK(r, failed)
    BY <1>3, <1>4, <1>5, NothingKept DEF ResultOK
  <1> QED  BY <1>6 DEF r

\* The others keep a URL, or nothing.
LEMMA OthersOK ==
  ASSUME ResKeptOK, NEW held \in ResTimes, NEW failed
  PROVE  /\ resSite = "stirr" => /\ ResultOK(StirrAudit(failed), failed)
                                 /\ ResultOK(StirrResolve(failed), failed)
         /\ resSite = "xumo" => ResultOK(XumoResolve(held, failed), failed)
         /\ resSite = "tubi" => ResultOK(TubiResolve(held, failed), failed)
         /\ resSite = "tvpass" => ResultOK(TvpassResolve(failed), failed)
         /\ resSite = "stored" => ResultOK(StoredUrl, failed)
  <1>1. CASE resSite = "stirr"
    BY <1>1, NothingKept, GivesFields DEF StirrAudit, StirrResolve, ResultOK
  <1>2. CASE resSite = "xumo"
    BY <1>2, NothingKept, GivesFields DEF XumoResolve, ResultOK
  <1>3. CASE resSite = "tubi"
    BY <1>3, NothingKept, GivesFields DEF TubiResolve, ResultOK
  <1>4. CASE resSite = "tvpass"
    <2>1. failed = {} => {"first", "second"} \ failed # {}
      OBVIOUS
    <2> QED  BY <1>4, <2>1, NothingKept, GivesFields DEF TvpassResolve, ResultOK
  <1>5. CASE resSite = "stored"
    BY <1>5, NothingKept, GivesFields DEF StoredUrl, ResultOK
  <1> QED  BY <1>1, <1>2, <1>3, <1>4, <1>5

\* Every scraper
LEMMA AllOK ==
  ASSUME ResKeptOK, NEW by \in {"web", "audit"}, NEW held \in ResTimes, NEW failed
  PROVE  /\ ResultOK(ResolveWith(by, held, failed), failed)
         /\ resSite = "stirr" /\ by = "web" /\ failed = {} /\ resListed =>
               ResolveWith(by, held, failed).what = "url"
  <1>1. resKeys[by] \in ResTimes /\ resFeeds[by] \in ResFeedStates
    BY DEF ResKeptOK
  <1>2. CASE resSite = "sling"
    BY <1>1, <1>2, SlingOK DEF ResolveWith
  <1>3. CASE resSite \in {"localnow", "amazon", "pluto"}
    BY <1>3, LivesOK DEF ResolveWith
  <1>4. CASE resSite = "distro"
    BY <1>1, <1>4, DistroOK DEF ResolveWith
  <1>5. CASE resSite = "stirr"
    <2>1. /\ ResolveWith(by, held, failed) = IF by = "audit" THEN StirrAudit(failed) ELSE StirrResolve(failed)
      BY <1>5 DEF ResolveWith
    <2>2. failed = {} /\ resListed => StirrResolve(failed).what = "url"
      BY GivesFields DEF StirrResolve
    <2> QED  BY <1>5, <2>1, <2>2, OthersOK
  <1>6. CASE resSite \in {"xumo", "tubi", "tvpass", "stored"}
    BY <1>6, OthersOK DEF ResolveWith
  <1> QED  BY <1>2, <1>3, <1>4, <1>5, <1>6, ResAssumption DEF ResKeptOK

\* A call: what it returns is kept, and told as it is.
LEMMA CallKeeps ==
  ASSUME ResolveIInv, NEW failed \in SUBSET ResRequests, ResPlay(failed) \/ ResAuditStep(failed)
  PROVE  ResolveIInv'
  <1>1. PICK by \in {"web", "audit"}, held \in ResTimes :
           \/ by = "web" /\ held = resStored /\ ResPlay(failed)
           \/ by = "audit" /\ held = resAudit[resSlot] /\ ResAuditStep(failed)
    BY DEF ResolveIInv, ResKeptOK
  <1> DEFINE r == ResolveWith(by, held, failed)
  <1>2. /\ ResultOK(r, failed)
        /\ resSite = "stirr" /\ by = "web" /\ failed = {} /\ resListed => r.what = "url"
    BY AllOK DEF ResolveIInv
  <1>3. /\ resOutcome' = [by |-> by, what |-> r.what, failed |-> failed,
                          age |-> IF r.held = Never THEN 0 ELSE resTime - r.held]
        /\ resFeeds' = IF resSite = "distro" THEN [resFeeds EXCEPT ![by] = r.feed] ELSE resFeeds
        /\ resKeys' = [resKeys EXCEPT ![by] = r.keys]
        /\ UNCHANGED <<resSite, resTime, resListed, bearersSince, keysSince>>
    BY <1>1 DEF ResPlay, ResAuditStep, ResTell
  <1>4. /\ by = "web" => /\ UNCHANGED <<resAudit, resSlot>>
                         /\ resStored' = IF resSite \in {"sling", "amazon"} /\ r.held # Never
                                         THEN r.held ELSE resStored
        /\ by = "audit" => /\ UNCHANGED resStored
                           /\ resAudit' = [resAudit EXCEPT ![resSlot] = r.held]
                           /\ resSlot' \in {resSlot, (resSlot % ResSlots) + 1}
    BY <1>1 DEF ResPlay, ResAuditStep
  <1> HIDE DEF r
  <1>5. ResTimes' = ResTimes /\ ResFeedStates' = ResFeedStates
    BY <1>3 DEF ResTimes, ResFeedStates
  <1>6. resKeys' \in [{"web", "audit"} -> ResTimes] /\ resKeys'[by] = r.keys
    BY <1>2, <1>3 DEF ResolveIInv, ResKeptOK, ResultOK
  <1>7. /\ resFeeds' \in [{"web", "audit"} -> ResFeedStates]
        /\ resSite = "distro" => resFeeds'[by] = r.feed
    BY <1>2, <1>3 DEF ResolveIInv, ResKeptOK, ResultOK
  <1>8. resStored' \in ResTimes
    BY <1>2, <1>4 DEF ResolveIInv, ResKeptOK, ResultOK
  <1>9. resAudit' \in [1 .. ResSlots -> ResTimes]
    BY <1>2, <1>4 DEF ResolveIInv, ResKeptOK, ResultOK
  <1>10. resSlot' \in 1 .. ResSlots
    <2>1. resSlot \in 1 .. ResSlots /\ (resSlot % ResSlots) + 1 \in 1 .. ResSlots
      BY ResAssumption DEF ResolveIInv, ResKeptOK
    <2> QED  BY <1>4, <2>1
  <1>11. ResKeptOK'
    BY <1>3, <1>5, <1>6, <1>7, <1>8, <1>9, <1>10 DEF ResolveIInv, ResKeptOK
  <1>12. /\ resOutcome'.by = by /\ resOutcome'.what = r.what /\ resOutcome'.failed = failed
         /\ r.held # Never => resOutcome'.age = resTime - r.held
    BY <1>3
  <1>13. ResolvesWhenListed'
    BY <1>2, <1>3, <1>6, <1>7, <1>12 DEF ResolvesWhenListed, ResultOK
  <1>14. ResolvesFreshly'
    BY <1>2, <1>3, <1>7, <1>12 DEF ResolvesFreshly, ResultOK
  <1>15. DeadMeansGone'
    BY <1>2, <1>3, <1>12 DEF DeadMeansGone, ResultOK
  <1>16. BearerStored'
    <2>1. r.what = "url" /\ resSite = "sling" => r.held # Never
      BY <1>2 DEF ResultOK, ResolveIInv, ResKeptOK, ResTimes, Never
    <2> QED  BY <1>2, <1>3, <1>4, <1>12, <2>1 DEF BearerStored, ResultOK
  <1>17. ResRequests' = ResRequests
    BY <1>3 DEF ResRequests
  <1>18. ResOutcomeOK'
    BY <1>2, <1>12, <1>13, <1>14, <1>15, <1>16, <1>17 DEF ResOutcomeOK, ResultOK
  <1> QED  BY <1>11, <1>18 DEF ResolveIInv

\* Before a call there is nothing to tell.
LEMMA NothingTold ==
  ASSUME resOutcome' = NoResolve
  PROVE  ResOutcomeOK'
  BY DEF NoResolve, ResOutcomeOK, ResolvesWhenListed, ResolvesFreshly, DeadMeansGone, BearerStored

\* An audit begins.
LEMMA AuditStarts ==
  ASSUME ResolveIInv, NEW fails, ResAuditStart(fails)
  PROVE  ResolveIInv'
  <1>1. UNCHANGED <<resSite, resTime, resListed, bearersSince, keysSince, resStored>> /\ resSlot' = 1
    BY DEF ResAuditStart
  <1>2. ResTimes' = ResTimes /\ ResFeedStates' = ResFeedStates
    BY <1>1 DEF ResTimes, ResFeedStates
  <1>3. resAudit' \in [1 .. ResSlots -> ResTimes]
    BY NothingKept DEF ResAuditStart, ResolveIInv, ResKeptOK
  <1>4. resKeys' \in [{"web", "audit"} -> ResTimes] /\ resFeeds' \in [{"web", "audit"} -> ResFeedStates]
    BY NothingKept DEF ResAuditStart, ResolveIInv, ResKeptOK
  <1>5. 1 \in 1 .. ResSlots
    BY ResAssumption
  <1>6. ResKeptOK'
    BY <1>1, <1>2, <1>3, <1>4, <1>5 DEF ResolveIInv, ResKeptOK
  <1> QED  BY <1>6, NothingTold DEF ResAuditStart, ResolveIInv

\* Time passes; the service changes.
LEMMA ServiceChanges ==
  ASSUME ResolveIInv, (\E bearers, keys \in BOOLEAN : ResTick(bearers, keys)) \/ ResRelist
  PROVE  ResolveIInv'
  <1>1. CASE \E bearers, keys \in BOOLEAN : ResTick(bearers, keys)
    <2>1. /\ resTime' = resTime + 1 /\ resTime' \in 0 .. ResLastTime
          /\ bearersSince' \in {bearersSince, resTime'} /\ keysSince' \in {keysSince, resTime'}
          /\ UNCHANGED <<resSite, resListed, resStored, resKeys, resFeeds, resAudit, resSlot>>
          /\ resOutcome' = NoResolve
      BY <1>1, ResAssumption DEF ResTick, ResolveIInv, ResKeptOK
    <2>2. ResTimes \subseteq ResTimes'
      BY <2>1, ResAssumption DEF ResTimes, ResolveIInv, ResKeptOK, Never
    <2>3. ResFeedStates \subseteq ResFeedStates'
      BY <2>2 DEF ResFeedStates
    <2>4. bearersSince' \in 0 .. resTime' /\ keysSince' \in 0 .. resTime'
      BY <2>1 DEF ResolveIInv, ResKeptOK
    <2>5. /\ resStored' \in ResTimes' /\ resKeys' \in [{"web", "audit"} -> ResTimes']
          /\ resFeeds' \in [{"web", "audit"} -> ResFeedStates']
          /\ resAudit' \in [1 .. ResSlots -> ResTimes']
      BY <2>1, <2>2, <2>3 DEF ResolveIInv, ResKeptOK
    <2>6. ResKeptOK'
      BY <2>1, <2>4, <2>5 DEF ResolveIInv, ResKeptOK
    <2> QED  BY <2>1, <2>6, NothingTold DEF ResolveIInv
  <1>2. CASE ResRelist
    <2>1. /\ UNCHANGED <<resSite, resTime, bearersSince, keysSince, resStored, resKeys, resFeeds,
                         resAudit, resSlot>>
          /\ resListed' \in BOOLEAN /\ resOutcome' = NoResolve
      BY <1>2 DEF ResRelist
    <2>2. ResTimes' = ResTimes /\ ResFeedStates' = ResFeedStates
      BY <2>1 DEF ResTimes, ResFeedStates
    <2>3. ResKeptOK'
      BY <2>1, <2>2 DEF ResolveIInv, ResKeptOK
    <2> QED  BY <2>1, <2>3, NothingTold DEF ResolveIInv
  <1> QED  BY <1>1, <1>2

\* No token, URL or feed that an instance or the configuration keeps stands in
\* the way of a channel the service has; what a URL is built from is not older
\* than its life; a failure is not taken for the end of a channel by Sling and
\* Stirr; and a bearer that was accepted is stored: resolve() and
\* audit_resolve() of the scrapers, for any lives and any time.
THEOREM ResolveInvariant == ResSpec => []ResolveInv
  <1>1. ResInit => ResolveIInv
    <2> SUFFICES ASSUME ResInit  PROVE ResolveIInv
      OBVIOUS
    <2>1. Never \in ResTimes /\ resTime \in 0 .. ResLastTime
      BY ResAssumption DEF ResInit, ResTimes, Never
    <2>2. NoFeed \in ResFeedStates
      BY <2>1 DEF NoFeed, ResFeedStates
    <2>3. ResKeptOK
      BY <2>1, <2>2, ResAssumption DEF ResInit, ResKeptOK, NoAudit
    <2>4. ResOutcomeOK
      BY DEF ResInit, NoResolve, ResOutcomeOK, ResolvesWhenListed, ResolvesFreshly,
             DeadMeansGone, BearerStored
    <2> QED  BY <2>3, <2>4 DEF ResolveIInv
  <1>2. ResolveIInv /\ [ResNext]_resolverVars => ResolveIInv'
    <2>1. ASSUME ResolveIInv, UNCHANGED resolverVars  PROVE ResolveIInv'
      BY <2>1 DEF resolverVars, ResolveIInv, ResKeptOK, ResOutcomeOK, ResTimes, ResFeedStates, ResRequests,
                  ResolvesWhenListed, ResolvesFreshly, DeadMeansGone, BearerStored
    <2> QED  BY <2>1, CallKeeps, AuditStarts, ServiceChanges DEF ResNext
  <1>3. ResolveIInv => ResolveInv
    BY DEF ResolveIInv, ResKeptOK, ResOutcomeOK, ResTimes, ResolveInv, ResTypeOK
  <1> QED  BY <1>1, <1>2, <1>3, PTL DEF ResSpec
==============================================================================
