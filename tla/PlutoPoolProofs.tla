--------------------------- MODULE PlutoPoolProofs ---------------------------
(***************************************************************************)
(* Proofs about PlutoPool, for any channels, requests, refill threads and  *)
(* limit.                                                                  *)
(***************************************************************************)
EXTENDS PlutoPool, FiniteSetTheorems, TLAPS

\* Where a request may be: outside, before or at its launch, or reading
PoolPlaces ==
    {PoolOut}
    \cup [at : {"full", "launch"}, channel : Channels, sess : {NoSession}]
    \cup [at : {"reading"}, channel : Channels, sess : PoolNames]

\* Requests are somewhere, and who reads, reads a session for some channel.
ViewersOK ==
    /\ viewer \in [Viewers -> PoolPlaces]
    /\ \A v \in Viewers : viewer[v].at = "reading" => viewer[v].sess[1] \in Channels
    /\ told \subseteq Viewers

\* One request at a time launches for a channel, which has no session then.
LaunchesOK ==
    \A v \in Viewers : viewer[v].at \in {"full", "launch"} =>
        /\ active[viewer[v].channel] = NoSession
        /\ \A w \in Viewers \ {v} :
              ~(viewer[w].at \in {"full", "launch"} /\ viewer[w].channel = viewer[v].channel)

\* Sessions are kept under the key they were launched for.
TablesOK ==
    /\ active \in [Channels -> PoolNames \cup {NoSession}]
    /\ \A c \in Channels : active[c] # NoSession => active[c][1] = c
    /\ resting \subseteq PoolNames
    /\ \A s \in resting : s[1] = NoSession
    /\ running \subseteq PoolNames
    /\ alive \subseteq running
    /\ condemned \subseteq Channels
    /\ reaping \in PoolNames \cup {NoSession}
    /\ reaping # NoSession => reaping[1] \in Channels
    /\ PoolNothingLost

\* A refill thread that launches has a call to make.
RestersOK ==
    /\ rester \in [Resters -> [at : {"home", "launch"}, calls : 0 .. MaxSessions]]
    /\ \A r \in Resters : rester[r].at = "launch" => rester[r].calls > 0

\* Every session has the readers it counts.
ReadersOK ==
    /\ readers \in [PoolNames -> Nat]
    /\ PoolReadersCounted

\* As long as no launch has overlapped a request's, a request that launches
\* launches alone, and below the limit.
CapacityOK ==
    /\ crowded \in BOOLEAN
    /\ PoolWithinLimit
    /\ ~crowded =>
         \A v \in Viewers : viewer[v].at = "launch" =>
             /\ PoolTotal < MaxSessions
             /\ \A w \in Viewers \ {v} : viewer[w].at # "launch"
             /\ \A r \in Resters : rester[r].at # "launch"

\* The inductive invariant
PoolIInv == ViewersOK /\ LaunchesOK /\ TablesOK /\ RestersOK /\ ReadersOK /\ CapacityOK

-----------------------------------------------------------------------------
\* There are finitely many names.
LEMMA NamesFinite == IsFiniteSet(PoolNames)
  <1>1. Cardinality(Viewers) \in Nat
    BY PoolAssumption, FS_CardinalityType
  <1>2. IsFiniteSet(1 .. Cardinality(Viewers) + MaxSessions + 1)
    <2>1. Cardinality(Viewers) + MaxSessions + 1 \in Int
      BY <1>1, PoolAssumption
    <2> QED  BY <2>1, FS_Interval
  <1>3. IsFiniteSet(Channels \cup {NoSession})
    BY PoolAssumption, FS_AddElement
  <1> QED  BY <1>2, <1>3, FS_Product DEF PoolNames

\* A name for c is free as long as fewer names for c are in use than there are;
\* and PoolFresh finds it.
LEMMA FreshName ==
  ASSUME NEW c \in Channels \cup {NoSession}, NEW U, IsFiniteSet(U),
         Cardinality(U) < Cardinality(Viewers) + MaxSessions + 1,
         \A s \in PoolNames : s[1] = c /\ s \in PoolUsed => s \in U
  PROVE  /\ PoolFresh(c) \in PoolNames
         /\ PoolFresh(c) \notin PoolUsed
         /\ PoolFresh(c)[1] = c
  <1> DEFINE K == Cardinality(Viewers) + MaxSessions + 1
             T == {n \in 1 .. K : <<c, n>> \notin PoolUsed}
             Least(s) == /\ s \in PoolNames \ PoolUsed
                         /\ s[1] = c
                         /\ \A t \in PoolNames \ PoolUsed : t[1] = c => s[2] <= t[2]
  <1>1. K \in Nat
    BY PoolAssumption, FS_CardinalityType
  <1>2. \A n \in 1 .. K : <<c, n>> \in PoolNames
    BY DEF PoolNames
  <1>3. T # {}
    <2> SUFFICES ASSUME T = {}  PROVE FALSE
      OBVIOUS
    <2> DEFINE f == [n \in 1 .. K |-> <<c, n>>]
    <2>1. \A n \in 1 .. K : <<c, n>> \in U
      BY <1>2
    <2>2. f \in Injection(1 .. K, U)
      BY <2>1 DEF Injection, IsInjective
    <2>3. Cardinality(1 .. K) <= Cardinality(U)
      BY <2>2, FS_Injection
    <2>4. Cardinality(1 .. K) = K
      BY <1>1, FS_Interval
    <2>5. Cardinality(U) \in Nat
      BY FS_CardinalityType
    <2> HIDE DEF K
    <2>6. Cardinality(U) < K
      BY DEF K
    <2> QED  BY <1>1, <2>3, <2>4, <2>5, <2>6
  <1>4. PICK m \in T : \A n \in T : m <= n
    <2>1. T \subseteq Nat
      BY <1>1
    <2>2. PICK m \in T : \A n \in T : ~(<<n, m>> \in OpToRel(<, Nat))
      BY <1>3, <2>1, WFMin, NatLessThanWellFounded
    <2>3. \A n \in T : ~(n < m)
      BY <2>1, <2>2 DEF OpToRel
    <2> QED  BY <2>1, <2>3
  <1>5. Least(<<c, m>>)
    <2>1. <<c, m>> \in PoolNames \ PoolUsed
      BY <1>2, <1>4
    <2>2. ASSUME NEW t \in PoolNames \ PoolUsed, t[1] = c  PROVE m <= t[2]
      <3>1. t = <<c, t[2]>> /\ t[2] \in 1 .. K
        BY <2>2 DEF PoolNames
      <3>2. t[2] \in T
        BY <3>1
      <3> QED  BY <3>2, <1>4
    <2> QED  BY <2>1, <2>2
  <1>6. PoolFresh(c) = CHOOSE s \in PoolNames \ PoolUsed :
            s[1] = c /\ \A t \in PoolNames \ PoolUsed : t[1] = c => s[2] <= t[2]
    BY DEF PoolFresh
  <1> HIDE DEF T, K
  <1> QED  BY <1>5, <1>6

\* A request that launches finds a name nothing refers to.
LEMMA FreshForViewer ==
  ASSUME ViewersOK, TablesOK, NEW v \in Viewers, viewer[v].at = "launch"
  PROVE  /\ viewer[v].channel \in Channels
         /\ PoolFresh(viewer[v].channel) \in PoolNames
         /\ PoolFresh(viewer[v].channel) \notin PoolUsed
         /\ PoolFresh(viewer[v].channel)[1] = viewer[v].channel
  <1> DEFINE c == viewer[v].channel
             O == Viewers \ {v}
             f == [w \in O |-> viewer[w].sess]
             R == {viewer[w].sess : w \in O}
             B == {active[c], reaping}
  <1>1. c \in Channels /\ viewer[v].sess = NoSession
    BY DEF ViewersOK, PoolPlaces, PoolOut
  <1>2. IsFiniteSet(O) /\ Cardinality(O) = Cardinality(Viewers) - 1
    BY PoolAssumption, FS_RemoveElement
  <1>3. f \in Surjection(O, R)
    BY DEF Surjection
  <1>4. IsFiniteSet(R) /\ Cardinality(R) <= Cardinality(O)
    BY <1>2, <1>3, FS_Surjection
  <1>5. IsFiniteSet(B) /\ Cardinality(B) <= 2
    <2>1. IsFiniteSet({active[c]}) /\ Cardinality({active[c]}) = 1
      BY FS_Singleton
    <2>2. B = {active[c]} \cup {reaping}
      OBVIOUS
    <2>3. /\ IsFiniteSet({active[c]} \cup {reaping})
          /\ Cardinality({active[c]} \cup {reaping}) =
                IF reaping \in {active[c]} THEN Cardinality({active[c]}) ELSE Cardinality({active[c]}) + 1
      BY <2>1, FS_AddElement
    <2> HIDE DEF B
    <2> QED  BY <2>1, <2>2, <2>3
  <1>6. IsFiniteSet(R \cup B) /\ Cardinality(R \cup B) < Cardinality(Viewers) + MaxSessions + 1
    <2>1. /\ IsFiniteSet(R \cup B)
          /\ Cardinality(R \cup B) = Cardinality(R) + Cardinality(B) - Cardinality(R \cap B)
      BY <1>4, <1>5, FS_Union
    <2>2. Cardinality(R \cap B) \in Nat /\ Cardinality(R) \in Nat /\ Cardinality(B) \in Nat
          /\ Cardinality(Viewers) \in Nat
      BY <1>4, <1>5, FS_Intersection, FS_CardinalityType, PoolAssumption
    <2> HIDE DEF O, R, B
    <2> QED  BY <2>1, <2>2, <1>2, <1>4, <1>5, PoolAssumption
  <1>7. ASSUME NEW s \in PoolNames, s[1] = c, s \in PoolUsed  PROVE s \in R \cup B
    <2>1. s # NoSession
      BY PoolNameAssumption
    <2>2. s \in PoolActive => s = active[c]
      BY <1>7 DEF PoolActive, TablesOK
    <2>3. s \notin resting
      BY <1>1, <1>7, PoolAssumption DEF TablesOK
    <2>4. s \in running => s \in R \cup B
      BY <2>2, <2>3 DEF TablesOK, PoolNothingLost
    <2> QED  BY <2>1, <2>2, <2>3, <2>4, <1>1, <1>7 DEF PoolUsed
  <1> HIDE DEF R, B
  <1> QED  BY <1>1, <1>6, <1>7, FreshName

\* So does a refill thread that has found room.
LEMMA FreshForRester ==
  ASSUME ViewersOK, TablesOK, PoolRoom
  PROVE  /\ PoolFresh(NoSession) \in PoolNames
         /\ PoolFresh(NoSession) \notin PoolUsed
         /\ PoolFresh(NoSession)[1] = NoSession
  <1>1. IsFiniteSet(resting) /\ Cardinality(resting) \in Nat
    BY NamesFinite, FS_Subset, FS_CardinalityType DEF TablesOK
  <1>2. Cardinality(resting) < Cardinality(Viewers) + MaxSessions + 1
    <2>1. Cardinality(Viewers) \in Nat
      BY PoolAssumption, FS_CardinalityType
    <2> QED  BY <2>1, <1>1, PoolAssumption DEF PoolRoom
  <1>3. ASSUME NEW s \in PoolNames, s[1] = NoSession, s \in PoolUsed  PROVE s \in resting
    <2>1. s # NoSession /\ NoSession \notin Channels
      BY PoolNameAssumption, PoolAssumption
    <2>2. s \notin PoolActive
      BY <1>3, <2>1 DEF PoolActive, TablesOK
    <2>3. s # reaping
      BY <1>3, <2>1 DEF TablesOK
    <2>4. \A v \in Viewers : viewer[v].sess # s
      BY <1>3, <2>1 DEF ViewersOK, PoolPlaces, PoolOut
    <2> QED  BY <1>3, <2>2, <2>3, <2>4 DEF PoolUsed, TablesOK, PoolNothingLost
  <1> QED  BY <1>1, <1>2, <1>3, FreshName

-----------------------------------------------------------------------------
\* The total counts finite sets.
LEMMA Totals ==
  ASSUME TablesOK
  PROVE  /\ IsFiniteSet(PoolActive) /\ IsFiniteSet(resting)
         /\ PoolActive \subseteq PoolNames
         /\ Cardinality(PoolActive) \in Nat /\ Cardinality(resting) \in Nat
         /\ PoolTotal \in Nat
  <1>1. PoolActive \subseteq PoolNames /\ resting \subseteq PoolNames
    BY DEF TablesOK, PoolActive
  <1>2. IsFiniteSet(PoolActive) /\ IsFiniteSet(resting)
    BY <1>1, NamesFinite, FS_Subset
  <1>3. Cardinality(PoolActive) \in Nat /\ Cardinality(resting) \in Nat
    BY <1>2, FS_CardinalityType
  <1> QED  BY <1>1, <1>2, <1>3 DEF PoolTotal

\* A pool that only loses sessions does not grow.
LEMMA TotalShrinks ==
  ASSUME TablesOK, PoolActive' \subseteq PoolActive, resting' \subseteq resting
  PROVE  PoolTotal' \in Nat /\ PoolTotal' <= PoolTotal
  <1>1. /\ IsFiniteSet(PoolActive') /\ Cardinality(PoolActive') <= Cardinality(PoolActive)
        /\ IsFiniteSet(resting') /\ Cardinality(resting') <= Cardinality(resting)
    BY Totals, FS_Subset
  <1>2. Cardinality(PoolActive') \in Nat /\ Cardinality(resting') \in Nat
    BY <1>1, FS_CardinalityType
  <1>3. PoolTotal' = Cardinality(PoolActive') + Cardinality(resting')
    BY DEF PoolTotal
  <1> QED  BY <1>1, <1>2, <1>3, Totals DEF PoolTotal

\* A channel that loses its session takes none with it.
LEMMA Dropped ==
  ASSUME TablesOK, NEW c \in Channels, active' = [active EXCEPT ![c] = NoSession]
  PROVE  /\ active' \in [Channels -> PoolNames \cup {NoSession}]
         /\ \A d \in Channels : active'[d] \in {active[d], NoSession}
         /\ PoolActive' \subseteq PoolActive
         /\ PoolActive \subseteq PoolActive' \cup {active[c]}
  <1>1. /\ active' \in [Channels -> PoolNames \cup {NoSession}]
        /\ active'[c] = NoSession /\ \A d \in Channels \ {c} : active'[d] = active[d]
    BY DEF TablesOK
  <1>2. PoolActive' = {active'[d] : d \in Channels} \ {NoSession}
    BY DEF PoolActive
  <1> QED  BY <1>1, <1>2 DEF PoolActive

\* A request that moves leaves the others where they are.
LEMMA ViewerMoves ==
  ASSUME ViewersOK, NEW v \in Viewers, NEW new \in PoolPlaces,
         new.at = "reading" => new.sess[1] \in Channels,
         viewer' = [viewer EXCEPT ![v] = new], told' \subseteq Viewers
  PROVE  /\ ViewersOK'
         /\ viewer'[v] = new
         /\ \A w \in Viewers \ {v} : viewer'[w] = viewer[w]
  BY DEF ViewersOK

\* A request on its way to a launch
LEMMA LaunchPlace ==
  ASSUME NEW c \in Channels, NEW a \in {"full", "launch"}
  PROVE  [at |-> a, channel |-> c, sess |-> NoSession] \in PoolPlaces
  BY DEF PoolPlaces

\* A request that reads
LEMMA ReadPlace ==
  ASSUME NEW c \in Channels, NEW s \in PoolNames
  PROVE  [at |-> "reading", channel |-> c, sess |-> s] \in PoolPlaces
  BY DEF PoolPlaces

\* Readers are counted as long as nobody begins or ceases to read.
LEMMA ReadersKept ==
  ASSUME ReadersOK, UNCHANGED readers,
         \A v \in Viewers :
            viewer'[v] = viewer[v] \/ (viewer[v].at # "reading" /\ viewer'[v].at # "reading")
  PROVE  ReadersOK'
  <1>1. ASSUME NEW s \in PoolNames  PROVE PoolReaders(s)' = PoolReaders(s)
    BY DEF PoolReaders
  <1>2. \A s \in PoolNames : readers'[s] = Cardinality(PoolReaders(s)')
    BY <1>1 DEF ReadersOK, PoolReadersCounted
  <1> QED  BY <1>2 DEF ReadersOK, PoolReadersCounted

\* The readers of a session are finitely many.
LEMMA ReadersFinite ==
  ASSUME NEW s
  PROVE  /\ IsFiniteSet(PoolReaders(s))
         /\ Cardinality(PoolReaders(s)) \in Nat
         /\ Cardinality(PoolReaders(s)) <= Cardinality(Viewers)
  <1>1. PoolReaders(s) \subseteq Viewers
    BY DEF PoolReaders
  <1> QED  BY <1>1, PoolAssumption, FS_Subset, FS_CardinalityType

\* A request that begins to read is one reader more.
LEMMA ReaderCounted ==
  ASSUME ReadersOK, NEW v \in Viewers, NEW s \in PoolNames,
         viewer[v].at # "reading", viewer'[v].at = "reading", viewer'[v].sess = s,
         \A w \in Viewers \ {v} : viewer'[w] = viewer[w],
         readers' = [readers EXCEPT ![s] = Cardinality(PoolReaders(s)) + 1]
  PROVE  ReadersOK'
  <1>1. PoolReaders(s)' = PoolReaders(s) \cup {v} /\ v \notin PoolReaders(s)
    BY DEF PoolReaders
  <1>2. ASSUME NEW t \in PoolNames, t # s  PROVE PoolReaders(t)' = PoolReaders(t)
    BY <1>2 DEF PoolReaders
  <1>3. Cardinality(PoolReaders(s)') = Cardinality(PoolReaders(s)) + 1
    BY <1>1, ReadersFinite, FS_AddElement
  <1>4. readers' \in [PoolNames -> Nat]
    BY ReadersFinite DEF ReadersOK
  <1>5. \A t \in PoolNames : readers'[t] = Cardinality(PoolReaders(t)')
    BY <1>2, <1>3 DEF ReadersOK, PoolReadersCounted
  <1> QED  BY <1>4, <1>5 DEF ReadersOK, PoolReadersCounted

\* The lock on launches is kept while nobody else asks for one and channels
\* only lose sessions.
LEMMA LaunchesKept ==
  ASSUME LaunchesOK, ViewersOK,
         \A c \in Channels : active'[c] \in {active[c], NoSession},
         \A v \in Viewers : viewer'[v].at \in {"full", "launch"} =>
            viewer[v].at \in {"full", "launch"} /\ viewer'[v].channel = viewer[v].channel
  PROVE  LaunchesOK'
  <1>1. \A v \in Viewers : viewer[v].at \in {"full", "launch"} => viewer[v].channel \in Channels
    BY DEF ViewersOK, PoolPlaces, PoolOut
  <1> QED  BY <1>1 DEF LaunchesOK

\* So is the bound while no session is added and nobody begins to launch.
LEMMA CapacityKept ==
  ASSUME CapacityOK, TablesOK, UNCHANGED crowded,
         PoolTotal' \in Nat, PoolTotal' <= PoolTotal,
         \A v \in Viewers : viewer'[v].at = "launch" => viewer[v].at = "launch",
         \A r \in Resters : rester'[r].at = "launch" => rester[r].at = "launch"
  PROVE  CapacityOK'
  <1>1. PoolTotal \in Nat /\ MaxSessions \in Nat
    BY Totals, PoolAssumption
  <1>2. CASE crowded
    BY <1>2 DEF CapacityOK, PoolWithinLimit
  <1>3. CASE ~crowded
    <2>1. PoolTotal' <= MaxSessions
      BY <1>1, <1>3 DEF CapacityOK, PoolWithinLimit
    <2>2. ASSUME NEW v \in Viewers, viewer'[v].at = "launch"
          PROVE  /\ PoolTotal' < MaxSessions
                 /\ \A w \in Viewers \ {v} : viewer'[w].at # "launch"
                 /\ \A r \in Resters : rester'[r].at # "launch"
      BY <1>1, <1>3, <2>2 DEF CapacityOK
    <2> QED  BY <1>3, <2>1, <2>2 DEF CapacityOK, PoolWithinLimit
  <1> QED  BY <1>2, <1>3

-----------------------------------------------------------------------------
\* Attaching to a live session
LEMMA AttachKeeps ==
  ASSUME PoolIInv, NEW v \in Viewers, NEW c \in Channels, PoolAttach(v, c)
  PROVE  PoolIInv'
  <1> USE DEF PoolIInv
  <1> DEFINE s == active[c]
             new == [at |-> "reading", channel |-> c, sess |-> s]
  <1>1. s \in PoolNames /\ s[1] = c
    BY PoolNameAssumption DEF PoolAttach, TablesOK
  <1>2. new \in PoolPlaces /\ new.at = "reading" /\ new.sess = s
    BY <1>1, ReadPlace
  <1>3. viewer' = [viewer EXCEPT ![v] = new] /\ UNCHANGED told
    BY DEF PoolAttach
  <1> HIDE DEF new
  <1>4. ViewersOK' /\ viewer'[v] = new /\ \A w \in Viewers \ {v} : viewer'[w] = viewer[w]
    BY <1>1, <1>2, <1>3, ViewerMoves DEF ViewersOK
  <1>5. readers' = [readers EXCEPT ![s] = Cardinality(PoolReaders(s)) + 1]
    BY <1>1 DEF PoolAttach, ReadersOK, PoolReadersCounted
  <1>6. ReadersOK'
    BY <1>1, <1>2, <1>4, <1>5, ReaderCounted DEF PoolAttach
  <1>7. TablesOK' /\ RestersOK'
    BY DEF PoolAttach, TablesOK, RestersOK, PoolNothingLost, PoolActive
  <1>8. LaunchesOK'
    BY <1>2, <1>4, LaunchesKept DEF PoolAttach
  <1>9. PoolTotal' = PoolTotal
    BY DEF PoolAttach, PoolTotal, PoolActive
  <1>10. CapacityOK'
    BY <1>2, <1>4, <1>9, Totals, CapacityKept DEF PoolAttach
  <1> QED  BY <1>4, <1>6, <1>7, <1>8, <1>10

\* A request that must launch buries the channel's dead session and takes a
\* resting one out of the pool.
LEMMA MissKeeps ==
  ASSUME PoolIInv, NEW v \in Viewers, NEW c \in Channels, PoolMiss(v, c)
  PROVE  PoolIInv'
  <1> USE DEF PoolIInv
  <1> DEFINE new == [at |-> "full", channel |-> c, sess |-> NoSession]
  <1>1. PICK popped :
          /\ popped \subseteq resting
          /\ resting' = resting \ popped
          /\ PoolStop({active[c]} \cup popped, {})
    BY DEF PoolMiss
  <1>2. new \in PoolPlaces /\ new.at = "full" /\ new.channel = c
    BY LaunchPlace
  <1>3. viewer' = [viewer EXCEPT ![v] = new] /\ told' \subseteq Viewers
    BY <1>1 DEF PoolMiss, PoolStop, ViewersOK
  <1> HIDE DEF new
  <1>4. ViewersOK' /\ viewer'[v] = new /\ \A w \in Viewers \ {v} : viewer'[w] = viewer[w]
    BY <1>2, <1>3, ViewerMoves DEF ViewersOK
  <1>5. ReadersOK'
    BY <1>2, <1>4, ReadersKept DEF PoolMiss
  <1>6. /\ active' \in [Channels -> PoolNames \cup {NoSession}]
        /\ \A d \in Channels : active'[d] \in {active[d], NoSession}
        /\ PoolActive' \subseteq PoolActive
        /\ PoolActive \subseteq PoolActive' \cup {active[c]}
    BY Dropped DEF PoolMiss
  <1>7. /\ running' = running \ ({active[c]} \cup popped)
        /\ alive' = alive \ ({active[c]} \cup popped)
        /\ UNCHANGED <<condemned, reaping>>
    BY <1>1 DEF PoolMiss, PoolStop
  <1>8. TablesOK'
    BY <1>1, <1>6, <1>7 DEF TablesOK, PoolNothingLost
  <1>9. RestersOK'
    BY DEF PoolMiss, RestersOK
  <1>10. LaunchesOK'
    <2>1. active'[c] = NoSession
      BY DEF PoolMiss, TablesOK
    <2>2. \A w \in Viewers : ~(viewer[w].channel = c /\ viewer[w].at \in {"full", "launch"})
      BY DEF PoolMiss, PoolLockFree
    <2>3. \A w \in Viewers : viewer[w].at \in {"full", "launch"} => viewer[w].channel \in Channels
      BY DEF ViewersOK, PoolPlaces, PoolOut
    <2> QED  BY <1>2, <1>4, <1>6, <2>1, <2>2, <2>3 DEF LaunchesOK
  <1>11. CapacityOK'
    <2>1. PoolTotal' \in Nat /\ PoolTotal' <= PoolTotal
      BY <1>1, <1>6, TotalShrinks
    <2> QED  BY <1>2, <1>4, <2>1, CapacityKept DEF PoolMiss
  <1> QED  BY <1>4, <1>5, <1>8, <1>9, <1>10, <1>11

\* A request is admitted to a pool below its limit; if somebody else launches
\* already, that is remembered.
LEMMA AdmitKeeps ==
  ASSUME PoolIInv, NEW v \in Viewers, PoolAdmit(v)
  PROVE  PoolIInv'
  <1> USE DEF PoolIInv
  <1> DEFINE new == [at |-> "launch", channel |-> viewer[v].channel, sess |-> NoSession]
  <1>1. viewer[v].channel \in Channels /\ viewer[v].at = "full"
    BY DEF PoolAdmit, ViewersOK, PoolPlaces, PoolOut
  <1>2. new \in PoolPlaces /\ new.at = "launch" /\ new.channel = viewer[v].channel
    BY <1>1, LaunchPlace
  <1>3. viewer' = [viewer EXCEPT ![v] = new] /\ UNCHANGED told
    BY DEF PoolAdmit
  <1> HIDE DEF new
  <1>4. ViewersOK' /\ viewer'[v] = new /\ \A w \in Viewers \ {v} : viewer'[w] = viewer[w]
    BY <1>2, <1>3, ViewerMoves DEF ViewersOK
  <1>5. ReadersOK'
    BY <1>1, <1>2, <1>4, ReadersKept DEF PoolAdmit
  <1>6. TablesOK' /\ RestersOK'
    BY DEF PoolAdmit, TablesOK, RestersOK, PoolNothingLost, PoolActive
  <1>7. LaunchesOK'
    BY <1>1, <1>2, <1>4, LaunchesKept DEF PoolAdmit
  <1>8. PoolTotal' = PoolTotal /\ UNCHANGED rester /\ PoolTotal < MaxSessions
    BY DEF PoolAdmit, PoolTotal, PoolActive
  <1>9. /\ crowded' \in BOOLEAN
        /\ ~crowded' => /\ ~crowded
                        /\ \A w \in Viewers : viewer[w].at # "launch"
                        /\ \A r \in Resters : rester[r].at # "launch"
    BY Zenon DEF PoolAdmit
  <1>10. CapacityOK'
    <2>1. PoolWithinLimit'
      BY <1>8, Totals, PoolAssumption DEF PoolWithinLimit
    <2> QED  BY <1>4, <1>8, <1>9, <2>1 DEF CapacityOK
  <1> QED  BY <1>4, <1>5, <1>6, <1>7, <1>10

\* A request that is turned away, or whose launch fails
LEMMA GiveUpKeeps ==
  ASSUME PoolIInv, NEW v \in Viewers, PoolReject(v) \/ PoolLaunchFails(v)
  PROVE  PoolIInv'
  <1> USE DEF PoolIInv
  <1>1. /\ viewer' = [viewer EXCEPT ![v] = PoolOut] /\ viewer[v].at # "reading"
        /\ UNCHANGED <<active, resting, running, alive, readers, told, rester,
                       condemned, reaping, crowded>>
    BY DEF PoolReject, PoolLaunchFails
  <1>2. PoolOut \in PoolPlaces /\ PoolOut.at = "out"
    BY DEF PoolPlaces, PoolOut
  <1>3. ViewersOK' /\ viewer'[v] = PoolOut /\ \A w \in Viewers \ {v} : viewer'[w] = viewer[w]
    BY <1>1, <1>2, ViewerMoves DEF ViewersOK
  <1>4. ReadersOK'
    BY <1>1, <1>2, <1>3, ReadersKept
  <1>5. TablesOK' /\ RestersOK'
    BY <1>1 DEF TablesOK, RestersOK, PoolNothingLost, PoolActive
  <1>6. LaunchesOK'
    BY <1>1, <1>2, <1>3, LaunchesKept
  <1>7. PoolTotal' = PoolTotal
    BY <1>1 DEF PoolTotal, PoolActive
  <1>8. CapacityOK'
    BY <1>1, <1>2, <1>3, <1>7, Totals, CapacityKept
  <1> QED  BY <1>3, <1>4, <1>5, <1>6, <1>8

\* A refill thread that is started begins at home.
LEMMA SpawnKeeps ==
  ASSUME RestersOK, PoolSpawn
  PROVE  /\ RestersOK'
         /\ \A r \in Resters : rester'[r].at = "launch" => rester[r].at = "launch"
  <1>1. /\ PoolHome(1) \in [at : {"home", "launch"}, calls : 0 .. MaxSessions]
        /\ PoolHome(1).at = "home"
    BY PoolAssumption DEF PoolHome
  <1>2. CASE \E r \in Resters : rester' = [rester EXCEPT ![r] = PoolHome(1)]
    <2>1. PICK r \in Resters : rester' = [rester EXCEPT ![r] = PoolHome(1)]
      BY <1>2
    <2>2. rester'[r] = PoolHome(1) /\ \A q \in Resters \ {r} : rester'[q] = rester[q]
      BY <2>1 DEF RestersOK
    <2> QED  BY <1>1, <2>1, <2>2 DEF RestersOK
  <1>3. CASE UNCHANGED rester
    BY <1>3 DEF RestersOK
  <1> QED  BY <1>2, <1>3 DEF PoolSpawn

\* A launch that succeeds puts a new session where there was none.
LEMMA LaunchKeeps ==
  ASSUME PoolIInv, NEW v \in Viewers, PoolLaunch(v)
  PROVE  PoolIInv'
  <1> USE DEF PoolIInv
  <1> DEFINE c == viewer[v].channel
             s == PoolFresh(c)
             new == [at |-> "reading", channel |-> c, sess |-> s]
  <1>1. /\ viewer[v].at = "launch" /\ c \in Channels
        /\ s \in PoolNames /\ s \notin PoolUsed /\ s[1] = c
    BY FreshForViewer DEF PoolLaunch
  <1>2. /\ running' = running \cup {s} /\ alive' = alive \cup {s}
        /\ active' = [active EXCEPT ![c] = s]
        /\ readers' = [readers EXCEPT ![s] = 1]
        /\ viewer' = [viewer EXCEPT ![v] = new]
        /\ PoolSpawn
        /\ UNCHANGED <<resting, told, condemned, reaping, crowded>>
    BY DEF PoolLaunch
  <1>3. active[c] = NoSession
    BY <1>1 DEF LaunchesOK
  <1>4. new \in PoolPlaces /\ new.at = "reading" /\ new.sess = s
    BY <1>1, ReadPlace
  <1> HIDE DEF new, s
  <1>5. ViewersOK' /\ viewer'[v] = new /\ \A w \in Viewers \ {v} : viewer'[w] = viewer[w]
    BY <1>1, <1>2, <1>4, ViewerMoves DEF ViewersOK
  <1>6. ReadersOK'
    <2>1. PoolReaders(s) = {}
      BY <1>1 DEF PoolReaders, PoolUsed
    <2>2. Cardinality(PoolReaders(s)) + 1 = 1
      BY <2>1, FS_EmptySet
    <2> QED  BY <1>1, <1>2, <1>4, <1>5, <2>2, ReaderCounted
  <1>7. /\ active' \in [Channels -> PoolNames \cup {NoSession}]
        /\ active'[c] = s /\ \A d \in Channels \ {c} : active'[d] = active[d]
    BY <1>1, <1>2 DEF TablesOK
  <1>8. PoolActive' = PoolActive \cup {s} /\ s \notin PoolActive
    <2>1. PoolActive' = {active'[d] : d \in Channels} \ {NoSession}
      BY DEF PoolActive
    <2>2. s # NoSession
      BY <1>1, PoolNameAssumption
    <2> QED  BY <1>1, <1>3, <1>7, <2>1, <2>2 DEF PoolActive, PoolUsed
  <1>9. TablesOK'
    <2>1. PoolNothingLost'
      BY <1>2, <1>8 DEF PoolNothingLost, TablesOK
    <2> QED  BY <1>1, <1>2, <1>7, <2>1 DEF TablesOK
  <1>10. RestersOK' /\ \A r \in Resters : rester'[r].at = "launch" => rester[r].at = "launch"
    BY <1>2, SpawnKeeps
  <1>11. LaunchesOK'
    <2>1. \A w \in Viewers \ {v} : viewer[w].at \in {"full", "launch"} =>
             viewer[w].channel # c /\ viewer[w].channel \in Channels
      BY <1>1 DEF LaunchesOK, ViewersOK, PoolPlaces, PoolOut
    <2> QED  BY <1>4, <1>5, <1>7, <2>1 DEF LaunchesOK
  <1>12. CapacityOK'
    <2>1. PoolTotal' = PoolTotal + 1
      <3>1. Cardinality(PoolActive') = Cardinality(PoolActive) + 1
        BY <1>8, Totals, FS_AddElement
      <3> QED  BY <1>2, <3>1, Totals DEF PoolTotal
    <2>2. ~crowded => PoolTotal < MaxSessions /\ \A w \in Viewers : viewer'[w].at # "launch"
      BY <1>1, <1>4, <1>5 DEF CapacityOK
    <2>3. PoolWithinLimit'
      BY <1>2, <2>1, <2>2, Totals, PoolAssumption DEF PoolWithinLimit
    <2> QED  BY <1>2, <2>2, <2>3 DEF CapacityOK
  <1> QED  BY <1>5, <1>6, <1>9, <1>10, <1>11, <1>12

\* A request that ceases to read is one reader less, even of a session the
\* pool has given up.
LEMMA LeaveKeeps ==
  ASSUME PoolIInv, NEW v \in Viewers, PoolLeave(v)
  PROVE  PoolIInv'
  <1> USE DEF PoolIInv
  <1>0. viewer[v].at = "reading" /\ viewer[v].sess \in PoolNames
    BY DEF PoolLeave, ViewersOK, PoolPlaces, PoolOut
  <1>1. PICK s \in PoolNames : viewer[v].at = "reading" /\ viewer[v].sess = s
    BY <1>0
  <1>2. PoolOut \in PoolPlaces /\ PoolOut.at = "out"
    BY DEF PoolPlaces, PoolOut
  <1>3. /\ viewer' = [viewer EXCEPT ![v] = PoolOut]
        /\ told' \subseteq Viewers
        /\ readers' = [readers EXCEPT ![s] = IF @ > 0 THEN @ - 1 ELSE 0]
        /\ UNCHANGED <<active, resting, running, alive, rester, condemned, reaping, crowded>>
    BY <1>1 DEF PoolLeave, ViewersOK
  <1>4. ViewersOK' /\ viewer'[v] = PoolOut /\ \A w \in Viewers \ {v} : viewer'[w] = viewer[w]
    BY <1>2, <1>3, ViewerMoves DEF ViewersOK
  <1>5. ReadersOK'
    <2>1. PoolReaders(s)' = PoolReaders(s) \ {v} /\ v \in PoolReaders(s)
      BY <1>1, <1>2, <1>4 DEF PoolReaders
    <2>2. Cardinality(PoolReaders(s)') = Cardinality(PoolReaders(s)) - 1
      BY <2>1, ReadersFinite, FS_RemoveElement
    <2>3. readers[s] = Cardinality(PoolReaders(s)) /\ readers[s] \in Nat /\ readers[s] > 0
      <3>1. PoolReaders(s) # {}
        BY <2>1
      <3>2. Cardinality(PoolReaders(s)) # 0
        BY <3>1, ReadersFinite, FS_EmptySet
      <3> QED  BY <1>1, <3>2, ReadersFinite DEF ReadersOK, PoolReadersCounted
    <2>4. readers' \in [PoolNames -> Nat] /\ readers'[s] = Cardinality(PoolReaders(s)')
      BY <1>1, <1>3, <2>2, <2>3 DEF ReadersOK
    <2>5. ASSUME NEW t \in PoolNames, t # s  PROVE readers'[t] = Cardinality(PoolReaders(t)')
      <3>1. PoolReaders(t)' = PoolReaders(t)
        BY <1>1, <1>2, <1>4, <2>5 DEF PoolReaders
      <3> QED  BY <1>3, <2>5, <3>1 DEF ReadersOK, PoolReadersCounted
    <2> QED  BY <2>4, <2>5 DEF ReadersOK, PoolReadersCounted
  <1>6. TablesOK' /\ RestersOK'
    BY <1>3 DEF TablesOK, RestersOK, PoolNothingLost, PoolActive
  <1>7. LaunchesOK'
    BY <1>2, <1>3, <1>4, LaunchesKept
  <1>8. PoolTotal' = PoolTotal
    BY <1>3 DEF PoolTotal, PoolActive
  <1>9. CapacityOK'
    BY <1>2, <1>3, <1>4, <1>8, Totals, CapacityKept
  <1> QED  BY <1>4, <1>5, <1>6, <1>7, <1>9

\* What the manager asks for fits the pool.
LEMMA NeedFits == ASSUME TablesOK  PROVE PoolNeed \in 0 .. MaxSessions
  BY Totals, PoolAssumption DEF PoolNeed, PoolTotal

\* What holds when only a refill thread and the crowded mark change
LEMMA OnlyResterChanges ==
  ASSUME PoolIInv, RestersOK', CapacityOK',
         UNCHANGED <<active, resting, running, alive, readers, viewer, told,
                     condemned, reaping>>
  PROVE  PoolIInv'
  <1> USE DEF PoolIInv
  <1>1. ViewersOK' /\ LaunchesOK'
    BY DEF ViewersOK, LaunchesOK
  <1>2. TablesOK'
    BY DEF TablesOK, PoolNothingLost, PoolActive
  <1>3. ReadersOK'
    BY ReadersKept
  <1> QED  BY <1>1, <1>2, <1>3

\* A refill thread that goes home with fewer calls, or more
LEMMA ResterGoesHome ==
  ASSUME PoolIInv, NEW r \in Resters, NEW n \in 0 .. MaxSessions,
         rester' = [rester EXCEPT ![r] = PoolHome(n)]
  PROVE  RestersOK' /\ \A q \in Resters : rester'[q].at = "launch" => rester[q].at = "launch"
  <1>1. /\ PoolHome(n) \in [at : {"home", "launch"}, calls : 0 .. MaxSessions]
        /\ PoolHome(n).at = "home"
    BY DEF PoolHome
  <1>2. rester'[r] = PoolHome(n) /\ \A q \in Resters \ {r} : rester'[q] = rester[q]
    BY DEF PoolIInv, RestersOK
  <1>3. rester' \in [Resters -> [at : {"home", "launch"}, calls : 0 .. MaxSessions]]
    BY <1>1 DEF PoolIInv, RestersOK
  <1> QED  BY <1>1, <1>2, <1>3 DEF PoolIInv, RestersOK

\* The manager hands out calls, and a launch of a refill thread may fail.
LEMMA ResterHomeKeeps ==
  ASSUME PoolIInv, NEW r \in Resters, PoolManage(r) \/ PoolRestFails(r)
  PROVE  PoolIInv'
  <1> USE DEF PoolIInv
  <1>1. PICK n \in 0 .. MaxSessions : rester' = [rester EXCEPT ![r] = PoolHome(n)]
    <2>1. CASE PoolManage(r)
      BY <2>1, NeedFits DEF PoolManage
    <2>2. CASE PoolRestFails(r)
      <3>1. rester[r].calls \in 0 .. MaxSessions /\ rester[r].calls > 0
        BY <2>2 DEF PoolRestFails, RestersOK
      <3>2. rester[r].calls - 1 \in 0 .. MaxSessions
        BY <3>1, PoolAssumption
      <3> QED  BY <2>2, <3>2 DEF PoolRestFails
    <2> QED  BY <2>1, <2>2
  <1>2. UNCHANGED <<active, resting, running, alive, readers, viewer, told,
                    condemned, reaping, crowded>>
    BY DEF PoolManage, PoolRestFails
  <1>3. RestersOK' /\ \A q \in Resters : rester'[q].at = "launch" => rester[q].at = "launch"
    BY <1>1, ResterGoesHome
  <1>4. PoolTotal' = PoolTotal
    BY <1>2 DEF PoolTotal, PoolActive
  <1>5. CapacityOK'
    BY <1>2, <1>3, <1>4, Totals, CapacityKept
  <1> QED  BY <1>2, <1>3, <1>5, OnlyResterChanges

\* A refill thread that finds room launches; if a request launches already,
\* that is remembered.
LEMMA EnsureKeeps ==
  ASSUME PoolIInv, NEW r \in Resters, PoolEnsure(r)
  PROVE  PoolIInv'
  <1> USE DEF PoolIInv
  <1>1. UNCHANGED <<active, resting, running, alive, readers, viewer, told,
                    condemned, reaping>>
    BY DEF PoolEnsure
  <1>2. PoolTotal' = PoolTotal
    BY <1>1 DEF PoolTotal, PoolActive
  <1>3. rester[r].calls \in 1 .. MaxSessions /\ rester[r].calls - 1 \in 0 .. MaxSessions
    BY PoolAssumption DEF PoolEnsure, RestersOK
  <1>4. CASE PoolRoom
    <2> DEFINE new == [at |-> "launch", calls |-> rester[r].calls]
    <2>1. /\ new \in [at : {"home", "launch"}, calls : 0 .. MaxSessions]
          /\ new.at = "launch" /\ new.calls = rester[r].calls
      BY <1>3, PoolAssumption
    <2>2. rester' = [rester EXCEPT ![r] = new]
      BY <1>4 DEF PoolEnsure
    <2> HIDE DEF new
    <2>3. rester'[r] = new /\ \A q \in Resters \ {r} : rester'[q] = rester[q]
      BY <2>2 DEF RestersOK
    <2>4. rester' \in [Resters -> [at : {"home", "launch"}, calls : 0 .. MaxSessions]]
      BY <2>1, <2>2 DEF RestersOK
    <2>5. RestersOK'
      BY <1>3, <2>1, <2>3, <2>4 DEF RestersOK
    <2>6. /\ crowded' \in BOOLEAN
          /\ ~crowded' => ~crowded /\ \A v \in Viewers : viewer[v].at # "launch"
      BY <1>4, Zenon DEF PoolEnsure
    <2>7. PoolWithinLimit'
      BY <1>2, <2>6 DEF CapacityOK, PoolWithinLimit
    <2>8. CapacityOK'
      BY <1>1, <2>6, <2>7 DEF CapacityOK
    <2> QED  BY <1>1, <2>5, <2>8, OnlyResterChanges
  <1>5. CASE ~PoolRoom
    <2>1. rester' = [rester EXCEPT ![r] = PoolHome(rester[r].calls - 1)]
      BY <1>5 DEF PoolEnsure
    <2>2. RestersOK' /\ \A q \in Resters : rester'[q].at = "launch" => rester[q].at = "launch"
      BY <1>3, <2>1, ResterGoesHome
    <2>3. UNCHANGED crowded
      BY <1>5, Zenon DEF PoolEnsure, CapacityOK
    <2>4. CapacityOK'
      BY <1>1, <1>2, <2>2, <2>3, Totals, CapacityKept
    <2> QED  BY <1>1, <2>2, <2>4, OnlyResterChanges
  <1> QED  BY <1>4, <1>5

\* A session set to rest takes neither the last slot nor more than there is.
LEMMA RestFits ==
  ASSUME TablesOK, NEW s, s \notin resting, PoolRoom,
         resting' = resting \cup {s}, UNCHANGED active
  PROVE  /\ Cardinality(resting') <= MaxSessions - 1
         /\ PoolTotal' \in Nat
         /\ PoolTotal' <= MaxSessions
  <1>1. Cardinality(resting') = Cardinality(resting) + 1
    BY Totals, FS_AddElement
  <1>2. PoolTotal' = Cardinality(PoolActive) + Cardinality(resting')
    BY DEF PoolTotal, PoolActive
  <1> QED  BY <1>1, <1>2, Totals, PoolAssumption DEF PoolRoom, PoolTotal

\* A session is set to rest, or there is no room for it any more.
LEMMA RestKeeps ==
  ASSUME PoolIInv, NEW r \in Resters, PoolRest(r)
  PROVE  PoolIInv'
  <1> USE DEF PoolIInv
  <1>1. rester[r].at = "launch" /\ UNCHANGED <<active, viewer, told, condemned, reaping, crowded>>
    BY DEF PoolRest
  <1>2. rester[r].calls - 1 \in 0 .. MaxSessions
    BY <1>1, PoolAssumption DEF RestersOK
  <1>3. RestersOK' /\ \A q \in Resters : rester'[q].at = "launch" => rester[q].at = "launch"
    BY <1>2, ResterGoesHome DEF PoolRest
  <1>4. CASE PoolRoom
    <2> DEFINE s == PoolFresh(NoSession)
    <2>1. s \in PoolNames /\ s \notin PoolUsed /\ s[1] = NoSession
      BY <1>4, FreshForRester
    <2>2. /\ resting' = resting \cup {s}
          /\ running' = running \cup {s}
          /\ alive' = alive \cup {s}
          /\ readers' = [readers EXCEPT ![s] = 0]
      BY <1>4 DEF PoolRest
    <2> HIDE DEF s
    <2>3. ViewersOK' /\ LaunchesOK'
      BY <1>1 DEF ViewersOK, LaunchesOK
    <2>4. TablesOK'
      BY <1>1, <2>1, <2>2 DEF TablesOK, PoolNothingLost, PoolActive
    <2>5. ReadersOK'
      <3>1. PoolReaders(s) = {}
        BY <2>1 DEF PoolReaders, PoolUsed
      <3>2. readers' = readers
        BY <2>1, <2>2, <3>1, FS_EmptySet DEF ReadersOK, PoolReadersCounted
      <3> QED  BY <1>1, <3>2, ReadersKept
    <2>6. CapacityOK'
      <3>1. PoolTotal' <= MaxSessions
        BY <1>1, <1>4, <2>1, <2>2, RestFits DEF PoolUsed
      <3>2. ~crowded => \A v \in Viewers : viewer[v].at # "launch"
        BY <1>1 DEF CapacityOK
      <3> QED  BY <1>1, <3>1, <3>2 DEF CapacityOK, PoolWithinLimit
    <2> QED  BY <1>3, <2>3, <2>4, <2>5, <2>6
  <1>5. CASE UNCHANGED <<resting, running, alive, readers>>
    <2>1. PoolTotal' = PoolTotal
      BY <1>1, <1>5 DEF PoolTotal, PoolActive
    <2>2. CapacityOK'
      BY <1>1, <1>3, <2>1, Totals, CapacityKept
    <2> QED  BY <1>1, <1>3, <1>5, <2>2, OnlyResterChanges
  <1> QED  BY <1>4, <1>5 DEF PoolRest

-----------------------------------------------------------------------------
\* What the reaper and the weather do keeps requests and the limit.
LEMMA ReaperKeeps ==
  ASSUME PoolIInv, TablesOK', RestersOK', told' \subseteq Viewers,
         \A c \in Channels : active'[c] \in {active[c], NoSession},
         PoolTotal' \in Nat, PoolTotal' <= PoolTotal,
         \A r \in Resters : rester'[r].at = "launch" => rester[r].at = "launch",
         UNCHANGED <<readers, viewer, crowded>>
  PROVE  PoolIInv'
  <1> USE DEF PoolIInv
  <1>1. ViewersOK'
    BY DEF ViewersOK
  <1>2. LaunchesOK'
    BY LaunchesKept
  <1>3. ReadersOK'
    BY ReadersKept
  <1>4. CapacityOK'
    BY CapacityKept
  <1> QED  BY <1>1, <1>2, <1>3, <1>4

\* The reaper looks, pops one session, and terminates it.
LEMMA ReapKeeps ==
  ASSUME PoolIInv,
         PoolReaperStep \/ \E idle \in SUBSET Channels : PoolScan(idle)
  PROVE  PoolIInv'
  <1> USE DEF PoolIInv
  <1>1. CASE \E idle \in SUBSET Channels : PoolScan(idle)
    <2>1. /\ condemned' \subseteq Channels
          /\ UNCHANGED <<active, resting, running, alive, readers, viewer, told,
                         rester, reaping, crowded>>
      BY <1>1 DEF PoolScan
    <2>2. TablesOK' /\ RestersOK'
      BY <2>1 DEF TablesOK, RestersOK, PoolNothingLost, PoolActive
    <2>3. PoolTotal' = PoolTotal
      BY <2>1 DEF PoolTotal, PoolActive
    <2>4. told' \subseteq Viewers
      BY <2>1 DEF ViewersOK
    <2> QED  BY <2>1, <2>2, <2>3, <2>4, Totals, ReaperKeeps
  <1>2. ASSUME NEW c \in Channels, PoolPop(c)  PROVE PoolIInv'
    <2>1. /\ active' \in [Channels -> PoolNames \cup {NoSession}]
          /\ \A d \in Channels : active'[d] \in {active[d], NoSession}
          /\ PoolActive' \subseteq PoolActive
          /\ PoolActive \subseteq PoolActive' \cup {active[c]}
      BY <1>2, Dropped DEF PoolPop
    <2>2. /\ reaping = NoSession /\ reaping' = active[c] /\ condemned' \subseteq condemned
          /\ UNCHANGED <<resting, running, alive, readers, viewer, told, rester, crowded>>
      BY <1>2 DEF PoolPop
    <2>3. TablesOK'
      <3>1. NoSession \notin running
        BY PoolNameAssumption DEF TablesOK
      <3>2. PoolNothingLost'
        BY <2>1, <2>2, <3>1 DEF PoolNothingLost, TablesOK
      <3> QED  BY <2>1, <2>2, <3>2 DEF TablesOK
    <2>4. RestersOK' /\ told' \subseteq Viewers
      BY <2>2 DEF RestersOK, ViewersOK
    <2>5. PoolTotal' \in Nat /\ PoolTotal' <= PoolTotal
      BY <2>1, <2>2, TotalShrinks
    <2> QED  BY <2>1, <2>2, <2>3, <2>4, <2>5, ReaperKeeps
  <1>3. CASE PoolReap
    <2>1. /\ running' = running \ {reaping} /\ alive' = alive \ {reaping}
          /\ told' \subseteq Viewers
          /\ reaping' = NoSession
          /\ PoolSpawn
          /\ UNCHANGED <<active, resting, readers, viewer, condemned, crowded>>
      BY <1>3 DEF PoolReap, PoolStop, ViewersOK
    <2>2. TablesOK'
      BY <2>1 DEF TablesOK, PoolNothingLost, PoolActive
    <2>3. RestersOK' /\ \A r \in Resters : rester'[r].at = "launch" => rester[r].at = "launch"
      BY <2>1, SpawnKeeps
    <2>4. PoolTotal' = PoolTotal
      BY <2>1 DEF PoolTotal, PoolActive
    <2> QED  BY <2>1, <2>2, <2>3, <2>4, Totals, ReaperKeeps
  <1> QED  BY <1>1, <1>2, <1>3 DEF PoolReaperStep

\* ffmpeg dies.
LEMMA DiesKeeps ==
  ASSUME PoolIInv, NEW s \in PoolNames, PoolDies(s)
  PROVE  PoolIInv'
  <1> USE DEF PoolIInv
  <1>1. /\ alive' \subseteq alive /\ told' \subseteq Viewers
        /\ UNCHANGED <<active, resting, running, readers, viewer, rester,
                       condemned, reaping, crowded>>
    BY DEF PoolDies, ViewersOK
  <1>2. TablesOK' /\ RestersOK'
    BY <1>1 DEF TablesOK, RestersOK, PoolNothingLost, PoolActive
  <1>3. PoolTotal' = PoolTotal
    BY <1>1 DEF PoolTotal, PoolActive
  <1> QED  BY <1>1, <1>2, <1>3, Totals, ReaperKeeps

-----------------------------------------------------------------------------
\* The first state
LEMMA PoolInitInv == PoolInit => PoolIInv
  <1> SUFFICES ASSUME PoolInit  PROVE PoolIInv
    OBVIOUS
  <1> USE DEF PoolInit
  <1>1. ViewersOK /\ LaunchesOK
    BY DEF ViewersOK, LaunchesOK, PoolPlaces, PoolOut
  <1>2. TablesOK
    BY DEF TablesOK, PoolNothingLost
  <1>3. RestersOK
    <2>1. PoolHome(0) \in [at : {"home", "launch"}, calls : 0 .. MaxSessions]
          /\ PoolHome(0).at = "home"
      BY PoolAssumption DEF PoolHome
    <2> QED  BY <2>1 DEF RestersOK
  <1>4. ReadersOK
    <2>1. \A s : PoolReaders(s) = {}
      BY DEF PoolReaders, PoolOut
    <2> QED  BY <2>1, FS_EmptySet DEF ReadersOK, PoolReadersCounted
  <1>5. CapacityOK
    <2>1. PoolActive = {}
      BY DEF PoolActive
    <2>2. PoolTotal = 0
      BY <2>1, FS_EmptySet DEF PoolTotal
    <2>3. crowded = FALSE /\ \A v \in Viewers : viewer[v].at # "launch"
      BY DEF PoolOut
    <2>4. PoolWithinLimit
      BY <2>2, PoolAssumption DEF PoolWithinLimit
    <2> QED  BY <2>3, <2>4, Zenon DEF CapacityOK
  <1> QED  BY <1>1, <1>2, <1>3, <1>4, <1>5 DEF PoolIInv

\* Every step keeps the invariant.
LEMMA PoolStepInv == PoolIInv /\ [PoolNext]_poolVars => PoolIInv'
  <1> SUFFICES ASSUME PoolIInv, [PoolNext]_poolVars  PROVE PoolIInv'
    OBVIOUS
  <1>1. CASE UNCHANGED poolVars
    <2>1. PoolTotal' = PoolTotal
      BY <1>1 DEF poolVars, PoolTotal, PoolActive
    <2>2. TablesOK' /\ RestersOK' /\ told' \subseteq Viewers
      BY <1>1 DEF poolVars, PoolIInv, TablesOK, RestersOK, ViewersOK, PoolNothingLost, PoolActive
    <2> QED  BY <1>1, <2>1, <2>2, Totals, ReaperKeeps DEF poolVars, PoolIInv
  <1>2. ASSUME NEW v \in Viewers,
               \/ \E c \in Channels : PoolAttach(v, c) \/ PoolMiss(v, c)
               \/ PoolViewerStep(v) \/ PoolLaunchFails(v) \/ PoolLeave(v)
        PROVE  PoolIInv'
    BY <1>2, AttachKeeps, MissKeeps, AdmitKeeps, GiveUpKeeps, LaunchKeeps, LeaveKeeps
       DEF PoolViewerStep
  <1>3. ASSUME NEW r \in Resters, PoolManage(r) \/ PoolResterStep(r) \/ PoolRestFails(r)
        PROVE  PoolIInv'
    BY <1>3, ResterHomeKeeps, EnsureKeeps, RestKeeps DEF PoolResterStep
  <1> QED  BY <1>1, <1>2, <1>3, ReapKeeps, DiesKeeps DEF PoolNext

\* What failed launches have left behind is a mark of its own.
LeftoverOK == leftover \in BOOLEAN

\* The pool's books at any time, for any number of channels, requests and
\* refill threads: no session's processes run outside the table and the
\* reaper's hand, every session counts exactly the requests that read from
\* it, and the limit holds unless launches overlapped.
THEOREM PoolInvariant == PoolSpec => []PoolInv
  <1>1. PoolIInv /\ LeftoverOK => PoolInv
    <2> SUFFICES ASSUME PoolIInv, LeftoverOK  PROVE PoolInv
      OBVIOUS
    <2> USE DEF PoolIInv
    <2>1. readers \in [PoolNames -> 0 .. Cardinality(Viewers)]
      <3>1. Cardinality(Viewers) \in Nat
        BY PoolAssumption, FS_CardinalityType
      <3>2. \A s \in PoolNames : readers[s] \in 0 .. Cardinality(Viewers)
        BY <3>1, ReadersFinite DEF ReadersOK, PoolReadersCounted
      <3> QED  BY <3>2 DEF ReadersOK
    <2>2. viewer \in [Viewers -> [at : {"out", "full", "launch", "reading"},
                                  channel : Channels \cup {NoSession},
                                  sess : PoolNames \cup {NoSession}]]
      BY DEF ViewersOK, PoolPlaces, PoolOut
    <2>3. PoolTypeOK
      BY <2>1, <2>2 DEF PoolTypeOK, TablesOK, RestersOK, ViewersOK, CapacityOK, LeftoverOK
    <2> QED  BY <2>3 DEF PoolInv, TablesOK, ReadersOK, CapacityOK
  <1>2. PoolInit => LeftoverOK
    BY DEF PoolInit, LeftoverOK
  <1>3. LeftoverOK /\ [PoolNext]_poolVars => LeftoverOK'
    <2>1. \A v \in Viewers :
             /\ \A c \in Channels : PoolAttach(v, c) \/ PoolMiss(v, c) => UNCHANGED leftover
             /\ PoolViewerStep(v) \/ PoolLeave(v) => UNCHANGED leftover
             /\ PoolLaunchFails(v) => leftover' \in {leftover, TRUE}
      BY DEF PoolAttach, PoolMiss, PoolViewerStep, PoolAdmit, PoolReject, PoolLaunch, PoolLeave,
         PoolLaunchFails
    <2>2. \A r \in Resters :
             /\ PoolManage(r) \/ PoolResterStep(r) => UNCHANGED leftover
             /\ PoolRestFails(r) => leftover' \in {leftover, TRUE}
      BY DEF PoolManage, PoolResterStep, PoolEnsure, PoolRest, PoolRestFails
    <2>3. PoolReaperStep => UNCHANGED leftover
      BY DEF PoolReaperStep, PoolPop, PoolReap
    <2>4. \A idle \in SUBSET Channels : PoolScan(idle) => UNCHANGED leftover
      BY DEF PoolScan
    <2>5. \A s \in PoolNames : PoolDies(s) => UNCHANGED leftover
      BY DEF PoolDies
    <2>6. [PoolNext]_poolVars => UNCHANGED leftover \/ leftover' \in {leftover, TRUE}
      BY <2>1, <2>2, <2>3, <2>4, <2>5, Zenon DEF poolVars, PoolNext
    <2> QED  BY <2>6, Zenon DEF LeftoverOK
  <1> QED  BY <1>1, <1>2, <1>3, PoolInitInv, PoolStepInv, PTL DEF PoolSpec

\* Only a refill thread that has looked at the capacity again puts a session
\* to rest: the slot kept for viewers stays theirs.
THEOREM RestersYield == PoolSpec => PoolRestersYield
  <1>1. PoolIInv /\ [PoolNext]_poolVars =>
          [resting' \ resting # {} =>
              /\ Cardinality(resting') <= MaxSessions - 1
              /\ PoolTotal' <= MaxSessions]_poolVars
    <2> SUFFICES ASSUME PoolIInv, PoolNext, resting' \ resting # {}
                 PROVE  Cardinality(resting') <= MaxSessions - 1 /\ PoolTotal' <= MaxSessions
      BY DEF poolVars
    <2>1. PICK r \in Resters : PoolRest(r)
      BY DEF PoolNext, PoolAttach, PoolMiss, PoolViewerStep, PoolAdmit, PoolReject, PoolLaunch,
         PoolLaunchFails, PoolLeave, PoolManage, PoolResterStep, PoolEnsure, PoolRestFails,
         PoolReaperStep, PoolPop, PoolReap, PoolScan, PoolDies
    <2>2. PoolRoom /\ resting' = resting \cup {PoolFresh(NoSession)} /\ UNCHANGED active
      BY <2>1 DEF PoolRest
    <2>3. PoolFresh(NoSession) \notin resting
      BY <2>2, FreshForRester DEF PoolIInv, PoolUsed
    <2> QED  BY <2>2, <2>3, RestFits DEF PoolIInv
  <1> QED  BY <1>1, PoolInitInv, PoolStepInv, PTL DEF PoolSpec, PoolRestersYield
=============================================================================
