---------------------------- MODULE ScrapersProofs ----------------------------
(* Proofs about what the scrapers read, for every value of their constants: the    *)
(* channel lists they put together and the guides they fetch.                      *)
EXTENDS ScraperLineups, ScraperGuides, FiniteSetTheorems, WellFoundedInduction, TLAPS

------------------------------------------------------------------------------
(* Channel lists (ScraperLineups) *)

\* What a service offers
OfferOK == offer \in [Parts -> [LineupChannels -> LineupRows]]

\* The inductive invariant: what was fetched is what the offer and the requests
\* that failed make of it.
LineupIInv ==
    /\ OfferOK /\ site \in LineupSites
    /\ \/ failing = NotYet /\ fetched = LineupNothing
       \/ \E failed \in SUBSET LineupRequests : failing = failed /\ fetched = LineupFetch(failed)

\* Channels and parts
LineupPlaces == LineupChannels \X (0 .. LineupParts)

\* A result has channels and parts, and none when it is an exception.
ResultTyped(result) ==
    /\ result.rows \subseteq LineupPlaces
    /\ result.raised => result.rows = {}

-----------------------------------------------------------------------------
\* There are parts, and they are numbered.
LEMMA PartsNumbered == LineupParts \in Nat \ {0} /\ Parts \subseteq Nat
  <1>1. LineupParts \in Nat \ {0}
    BY Zenon, LineupAssumption
  <1> QED  BY <1>1 DEF Parts

\* The part that decides is the first of those read.
LEMMA FirstPartFirst ==
  ASSUME NEW read \in SUBSET Parts, NEW kinds, NEW c \in RowsOf(read, kinds)
  PROVE  /\ FirstPart(c, read, kinds) \in read
         /\ offer[FirstPart(c, read, kinds)][c] \in kinds
         /\ \A o \in read : offer[o][c] \in kinds => FirstPart(c, read, kinds) <= o
  <1> DEFINE S == {p \in read : offer[p][c] \in kinds}
  <1>1. S # {} /\ S \subseteq Nat
    BY PartsNumbered DEF RowsOf
  <1>2. PICK p \in S : \A o \in S : ~(<<o, p>> \in OpToRel(<, Nat))
    <2> HIDE DEF S
    <2> QED  BY <1>1, WFMin, NatLessThanWellFounded
  <1>3. \A o \in S : ~(o < p)
    BY <1>1, <1>2 DEF OpToRel
  <1>4. \A o \in S : p <= o
    BY <1>1, <1>3
  <1>5. \E q \in read : /\ offer[q][c] \in kinds
                        /\ \A o \in read : offer[o][c] \in kinds => q <= o
    BY <1>4
  <1> QED  BY <1>5 DEF FirstPart

\* More parts have more rows.
LEMMA RowsGrow ==
  ASSUME NEW read, NEW more, read \subseteq more, NEW kinds
  PROVE  RowsOf(read, kinds) \subseteq RowsOf(more, kinds)
  BY DEF RowsOf

\* The channels with rows are channels.
LEMMA RowsTyped ==
  ASSUME NEW read, NEW kinds
  PROVE  RowsOf(read, kinds) \subseteq LineupChannels
  BY DEF RowsOf

\* Pairs of channels with the part 0
LEMMA ZeroTyped ==
  ASSUME NEW S \in SUBSET LineupChannels
  PROVE  S \X {0} \subseteq LineupPlaces
  BY PartsNumbered DEF LineupPlaces

\* The number of a playlist's row, among the complete ones of its channel
LEMMA RowNumber ==
  ASSUME NEW c, NEW p \in Parts, NEW rows
  PROVE  Cardinality({o \in 1 .. p : <<c, o>> \in rows}) \in 0 .. LineupParts
  <1> DEFINE S == {o \in 1 .. p : <<c, o>> \in rows}
  <1>1. p \in Int /\ p <= LineupParts /\ p >= 1 /\ LineupParts \in Nat
    BY PartsNumbered DEF Parts
  <1>2. IsFiniteSet(1 .. p) /\ Cardinality(1 .. p) = p
    BY <1>1, FS_Interval
  <1>3. S \subseteq 1 .. p
    OBVIOUS
  <1> HIDE DEF S
  <1>4. IsFiniteSet(S) /\ Cardinality(S) <= Cardinality(1 .. p)
    BY <1>2, <1>3, FS_Subset
  <1>5. Cardinality(S) \in Nat
    BY <1>4, FS_CardinalityType
  <1>6. Cardinality(S) \in 0 .. LineupParts
    BY <1>1, <1>2, <1>4, <1>5
  <1> QED  BY <1>6 DEF S

\* The fields of a result
LEMMA ResultFields ==
  /\ \A rows : LineupReturns(rows).rows = rows /\ LineupReturns(rows).raised = FALSE
  /\ LineupNothing.rows = {} /\ LineupNothing.raised = FALSE
  /\ LineupRaised.rows = {} /\ LineupRaised.raised = TRUE
  BY DEF LineupReturns, LineupNothing, LineupRaised

\* A list of channels whose ids do not depend on the part is typed.
LEMMA PlainTyped ==
  ASSUME NEW S \in SUBSET LineupChannels
  PROVE  ResultTyped(LineupReturns(S \X {0}))
  BY ZeroTyped, ResultFields DEF ResultTyped

\* So is a list with the first part of each.
LEMMA FirstTyped ==
  ASSUME NEW read \in SUBSET Parts, NEW kinds
  PROVE  ResultTyped(LineupReturns({<<c, FirstPart(c, read, kinds)>> : c \in RowsOf(read, kinds)}))
  <1>1. \A c \in RowsOf(read, kinds) : <<c, FirstPart(c, read, kinds)>> \in LineupPlaces
    <2> TAKE c \in RowsOf(read, kinds)
    <2>1. FirstPart(c, read, kinds) \in Parts
      BY FirstPartFirst
    <2>2. FirstPart(c, read, kinds) \in 0 .. LineupParts
      BY <2>1, PartsNumbered DEF Parts
    <2> QED  BY <2>2, RowsTyped DEF LineupPlaces
  <1> QED  BY <1>1, ResultFields DEF ResultTyped

\* And nothing, and an exception.
LEMMA NothingTyped == ResultTyped(LineupNothing) /\ ResultTyped(LineupRaised)
  BY ResultFields DEF ResultTyped

\* Whatever fails, a scrape returns channels, and parts, or raises.
LEMMA FetchTyped ==
  ASSUME OfferOK, site \in LineupSites, NEW failed \in SUBSET LineupRequests
  PROVE  ResultTyped(LineupFetch(failed))
  <1> DEFINE read == Parts \ failed
  <1>1. read \in SUBSET Parts /\ Parts \in SUBSET Parts
    OBVIOUS
  <1>2. \A r, kinds : ResultTyped(LineupReturns(RowsOf(r, kinds) \X {0}))
    BY RowsTyped, PlainTyped
  <1>3. \A kinds : /\ ResultTyped(LineupReturns({<<c, FirstPart(c, read, kinds)>> : c \in RowsOf(read, kinds)}))
                   /\ ResultTyped(LineupReturns({<<c, FirstPart(c, Parts, kinds)>> : c \in RowsOf(Parts, kinds)}))
    BY <1>1, FirstTyped
  <1>4. CASE site = "xumo"
    BY <1>2, <1>4, NothingTyped DEF LineupFetch, XumoChannels
  <1>5. CASE site = "lg"
    BY <1>3, <1>5, NothingTyped DEF LineupFetch, LgChannels
  <1>6. CASE site = "freelive"
    BY <1>2, <1>6, NothingTyped DEF LineupFetch, FreeLiveChannels
  <1>7. CASE site = "vizio"
    BY <1>2, <1>7, NothingTyped DEF LineupFetch, VizioChannels
  <1>8. CASE site = "samsung"
    BY <1>2, <1>8, NothingTyped DEF LineupFetch, SamsungChannels
  <1>9. CASE site \in {"vidaa", "distro"}
    <2>1. CompleteRows(Parts) \subseteq LineupPlaces /\ CompleteRows(Parts \ failed) \subseteq LineupPlaces
      BY PartsNumbered DEF Parts, LineupPlaces, CompleteRows
    <2>2. LineupFetch(failed) \in {LineupRaised, LineupReturns(CompleteRows(Parts)),
                                   LineupReturns(CompleteRows(Parts \ failed))}
      BY <1>9 DEF LineupFetch, VidaaChannels, DistroChannels
    <2> QED  BY <2>1, <2>2, ResultFields, NothingTyped DEF ResultTyped
  <1>10. CASE site = "hdhomerun"
    <2> DEFINE decided == {<<c, FirstPart(c, read, {"good", "drm"})>> : c \in RowsOf(read, {"good", "drm"})}
    <2>1. decided \subseteq LineupPlaces
      BY <1>3, ResultFields DEF ResultTyped
    <2>2. LineupFetch(failed) = LineupReturns({r \in decided : offer[r[2]][r[1]] = "good"})
      BY <1>10 DEF LineupFetch, HdhomerunChannels
    <2> HIDE DEF decided
    <2> QED  BY <2>1, <2>2, ResultFields DEF ResultTyped
  <1>11. CASE site = "m3u"
    <2> DEFINE R == CompleteRows(Parts)
               N(c, p) == Cardinality({o \in 1 .. p : <<c, o>> \in R})
               S == {<<r[1], N(r[1], r[2])>> : r \in R}
    <2>1. \A r \in R : r[1] \in LineupChannels /\ r[2] \in Parts
      BY DEF CompleteRows
    <2>2. \A c \in LineupChannels, p \in Parts : N(c, p) \in 0 .. LineupParts
      BY RowNumber
    <2>3. LineupFetch(failed) \in {LineupNothing, LineupReturns(S)}
      BY <1>11 DEF LineupFetch, PlaylistChannels
    <2> HIDE DEF N, R
    <2>4. S \subseteq LineupPlaces
      BY <2>1, <2>2 DEF LineupPlaces
    <2> HIDE DEF S
    <2> QED  BY <2>3, <2>4, ResultFields, NothingTyped DEF ResultTyped
  <1>12. CASE site = "sling"
    BY <1>2, <1>12, NothingTyped DEF LineupFetch, SlingChannels
  <1>13. CASE site = "stirr"
    BY <1>3, <1>13, NothingTyped DEF LineupFetch, StirrChannels
  <1>14. CASE site = "localnow"
    <2> DEFINE S == {c \in RowsOf(Parts, {"good", "drm"}) :
                       offer[FirstPart(c, Parts, {"good", "drm"})][c] = "good"}
    <2>1. S \in SUBSET LineupChannels
      BY RowsTyped
    <2>2. LineupFetch(failed) \in {LineupRaised, LineupReturns(S \X {0})}
      BY <1>14 DEF LineupFetch, LocalNowChannels
    <2> HIDE DEF S
    <2> QED  BY <2>1, <2>2, PlainTyped, NothingTyped
  <1>15. CASE site = "amazon"
    BY <1>2, <1>15, NothingTyped DEF LineupFetch, AmazonChannels
  <1>16. CASE site = "tcl"
    BY <1>2, <1>16, NothingTyped DEF LineupFetch, TclChannels
  <1>17. CASE site = "pluto"
    BY <1>3, <1>17 DEF LineupFetch, PlutoChannels
  <1>18. CASE site = "tubi"
    BY <1>2, <1>18, NothingTyped DEF LineupFetch, TubiAnonymous
  <1>19. CASE site = "tubi login"
    BY <1>2, <1>19, NothingTyped DEF LineupFetch, TubiChannels, TubiAnonymous
  <1> QED  BY <1>4, <1>5, <1>6, <1>7, <1>8, <1>9, <1>10, <1>11, <1>12, <1>13, <1>14, <1>15,
              <1>16, <1>17, <1>18, <1>19, LineupAssumption, Zenon

\* Requests that fail take rows away, and change none.
LEMMA FetchShrinks ==
  ASSUME site \in LineupSites \ {"hdhomerun", "pluto", "tubi login"}, NEW failed
  PROVE  LineupFetch(failed).rows \subseteq LineupFetch({}).rows
  <1>1. Parts \ {} = Parts /\ {} \ {LoginRequest} = {} /\ 0 \notin {}
    OBVIOUS
  <1>2. \A kinds : RowsOf(Parts \ failed, kinds) \subseteq RowsOf(Parts, kinds)
    BY RowsGrow
  <1>3. CompleteRows(Parts \ failed) \subseteq CompleteRows(Parts)
    BY DEF CompleteRows
  <1> DEFINE plain == RowsOf(Parts, {"good"}) \X {0}
             both == RowsOf(Parts, {"good", "drm"}) \X {0}
             plainRead == RowsOf(Parts \ failed, {"good"}) \X {0}
             bothRead == RowsOf(Parts \ failed, {"good", "drm"}) \X {0}
  <1>0. plainRead \subseteq plain /\ bothRead \subseteq both
    BY <1>2
  <1>4. CASE site = "xumo"
    BY <1>4, ResultFields DEF LineupFetch, XumoChannels
  <1>5. CASE site = "lg"
    BY <1>5, ResultFields DEF LineupFetch, LgChannels
  <1>6. CASE site = "freelive"
    BY <1>6, ResultFields DEF LineupFetch, FreeLiveChannels
  <1>7. CASE site = "vizio"
    BY <1>7, ResultFields DEF LineupFetch, VizioChannels
  <1>8. CASE site = "samsung"
    <2>1. LineupFetch(failed) \in {LineupRaised, LineupReturns(plainRead)}
      BY <1>8 DEF LineupFetch, SamsungChannels
    <2>2. LineupFetch({}) = LineupReturns(plain)
      BY <1>1, <1>8 DEF LineupFetch, SamsungChannels
    <2>3. LineupFetch({}).rows = plain
      BY <2>2, ResultFields
    <2>4. LineupFetch(failed).rows \in {{}, plainRead}
      BY <2>1, ResultFields
    <2> HIDE DEF plain, plainRead
    <2> QED  BY <1>0, <2>3, <2>4
  <1>9. CASE site = "vidaa"
    BY <1>1, <1>9, ResultFields DEF LineupFetch, VidaaChannels
  <1>10. CASE site = "m3u"
    BY <1>10, ResultFields DEF LineupFetch, PlaylistChannels
  <1>11. CASE site = "sling"
    BY <1>1, <1>11, ResultFields DEF LineupFetch, SlingChannels
  <1>12. CASE site = "stirr"
    BY <1>12, ResultFields DEF LineupFetch, StirrChannels
  <1>13. CASE site = "distro"
    BY <1>1, <1>3, <1>13, ResultFields DEF LineupFetch, DistroChannels
  <1>14. CASE site = "localnow"
    BY <1>14, ResultFields DEF LineupFetch, LocalNowChannels
  <1>15. CASE site = "amazon"
    <2> DEFINE Read(f) == {p \in Parts : \A o \in 2 .. p : o \notin f}
    <2>1. RowsOf(Read(failed), {"good", "drm"}) \subseteq RowsOf(Read({}), {"good", "drm"})
      <3>1. Read(failed) \subseteq Read({})
        OBVIOUS
      <3> HIDE DEF Read
      <3> QED  BY <3>1, RowsGrow
    <2> DEFINE rows(f) == RowsOf(Read(f), {"good", "drm"}) \X {0}
    <2>2. rows(failed) \subseteq rows({})
      BY <2>1
    <2>3. LineupFetch(failed) \in {LineupNothing, LineupReturns(rows(failed))}
      BY <1>15 DEF LineupFetch, AmazonChannels
    <2>4. LineupFetch({}) = LineupReturns(rows({}))
      BY <1>1, <1>15 DEF LineupFetch, AmazonChannels
    <2> HIDE DEF rows
    <2> QED  BY <2>2, <2>3, <2>4, ResultFields
  <1>16. CASE site \in {"tcl", "tubi"}
    <2>1. LineupFetch(failed) \in {LineupRaised, LineupNothing, LineupReturns(bothRead)}
      BY <1>16 DEF LineupFetch, TclChannels, TubiAnonymous
    <2>2. LineupFetch({}) = LineupReturns(both)
      BY <1>1, <1>16 DEF LineupFetch, TclChannels, TubiAnonymous
    <2>3. LineupFetch({}).rows = both
      BY <2>2, ResultFields
    <2>4. LineupFetch(failed).rows \in {{}, bothRead}
      BY <2>1, ResultFields
    <2> HIDE DEF both, bothRead
    <2> QED  BY <1>0, <2>3, <2>4
  <1> QED  BY <1>4, <1>5, <1>6, <1>7, <1>8, <1>9, <1>10, <1>11, <1>12, <1>13, <1>14, <1>15,
              <1>16, LineupAssumption, Zenon

\* When nothing fails, every channel that can be played is found, but for the
\* scrapers whose first row decides those that this row has as protected.
LEMMA FetchFinds ==
  ASSUME site \in LineupSites, NEW c \in LineupChannels, NEW p \in Parts, offer[p][c] = "good",
         site \in {"hdhomerun", "localnow"} => \A o \in 1 .. p : offer[o][c] # "drm"
  PROVE  \E r \in LineupFetch({}).rows : r[1] = c
  <1> DEFINE found == \E r \in LineupFetch({}).rows : r[1] = c
             first == FirstPart(c, Parts, {"good", "drm"})
  <1>1. Parts \ {} = Parts /\ {} \ {LoginRequest} = {} /\ 0 \notin {} /\ LoginRequest \notin {}
    OBVIOUS
  <1>2. c \in RowsOf(Parts, {"good"}) /\ c \in RowsOf(Parts, {"good", "drm"})
    BY DEF RowsOf
  <1>3. \A kinds : c \in RowsOf(Parts, kinds) => <<c, 0>> \in RowsOf(Parts, kinds) \X {0}
    OBVIOUS
  <1>4. <<c, p>> \in CompleteRows(Parts)
    BY DEF CompleteRows
  <1>5. first \in Parts /\ offer[first][c] \in {"good", "drm"} /\ first <= p
    BY <1>2, FirstPartFirst
  <1>6. CASE site \in {"xumo", "vizio"}
    <2>1. LineupFetch({}) = LineupReturns(RowsOf(Parts, {"good"}) \X {0})
      BY <1>6 DEF LineupFetch, XumoChannels, VizioChannels
    <2> QED  BY <1>2, <1>3, <2>1, ResultFields
  <1>7. CASE site \in {"lg", "stirr", "pluto"}
    <2> DEFINE rows == {<<d, FirstPart(d, Parts, {"good", "drm"})>> : d \in RowsOf(Parts, {"good", "drm"})}
    <2>0. \E r \in rows : r[1] = c
      <3>1. <<c, first>> \in rows
        BY <1>2, Zenon
      <3> HIDE DEF rows, first
      <3> QED  BY <3>1
    <2>1. CASE site = "lg"
      <3>1. LineupFetch({}) = LineupReturns(rows)
        BY <2>1 DEF LineupFetch, LgChannels
      <3> HIDE DEF rows
      <3> QED  BY <2>0, <3>1, ResultFields
    <2>2. CASE site = "stirr"
      <3>1. LineupFetch({}) = LineupReturns(rows)
        BY <2>2 DEF LineupFetch, StirrChannels
      <3> HIDE DEF rows
      <3> QED  BY <2>0, <3>1, ResultFields
    <2>3. CASE site = "pluto"
      <3>1. LineupFetch({}) = LineupReturns(rows)
        BY <1>1, <2>3 DEF LineupFetch, PlutoChannels
      <3> HIDE DEF rows
      <3> QED  BY <2>0, <3>1, ResultFields
    <2> QED  BY <1>7, <2>1, <2>2, <2>3
  <1>8. CASE site = "freelive"
    BY <1>2, <1>3, <1>8, ResultFields DEF LineupFetch, FreeLiveChannels
  <1>9. CASE site = "samsung"
    BY <1>1, <1>2, <1>3, <1>9, ResultFields DEF LineupFetch, SamsungChannels
  <1>10. CASE site \in {"vidaa", "distro"}
    <2>1. <<c, p>> \in LineupFetch({}).rows
      BY <1>1, <1>4, <1>10, ResultFields DEF LineupFetch, VidaaChannels, DistroChannels
    <2> QED  BY <2>1
  <1>11. CASE site \in {"hdhomerun", "localnow"}
    <2>1. offer[first][c] # "drm"
      <3>1. first \in 1 .. p
        BY <1>5, PartsNumbered DEF Parts
      <3> QED  BY <1>11, <3>1
    <2>2. offer[first][c] = "good"
      BY <1>5, <2>1
    <2>3. <<c, first>> \in {r \in {<<d, FirstPart(d, Parts, {"good", "drm"})>> :
                                       d \in RowsOf(Parts, {"good", "drm"})} : offer[r[2]][r[1]] = "good"}
      BY <1>2, <2>2
    <2>4. CASE site = "hdhomerun"
      <3>1. <<c, first>> \in LineupFetch({}).rows
        BY <1>1, <2>3, <2>4, ResultFields DEF LineupFetch, HdhomerunChannels
      <3> QED  BY <3>1
    <2>5. CASE site = "localnow"
      <3>1. <<c, 0>> \in LineupFetch({}).rows
        BY <1>2, <2>2, <2>5, ResultFields DEF LineupFetch, LocalNowChannels
      <3> QED  BY <3>1
    <2> QED  BY <1>11, <2>4, <2>5
  <1>12. CASE site = "m3u"
    <2> DEFINE N(d, q) == Cardinality({o \in 1 .. q : <<d, o>> \in CompleteRows(Parts)})
               rows == {<<r[1], N(r[1], r[2])>> : r \in CompleteRows(Parts)}
    <2>1. LineupFetch({}) = LineupReturns(rows)
      BY <1>12 DEF LineupFetch, PlaylistChannels
    <2> HIDE DEF N
    <2>2. <<c, N(c, p)>> \in rows
      BY <1>4
    <2> HIDE DEF rows
    <2> QED  BY <2>1, <2>2, ResultFields
  <1>13. CASE site = "sling"
    BY <1>1, <1>2, <1>3, <1>13, ResultFields DEF LineupFetch, SlingChannels
  <1>14. CASE site = "amazon"
    <2>1. {q \in Parts : \A o \in 2 .. q : o \notin {}} = Parts
      OBVIOUS
    <2> QED  BY <1>2, <1>3, <1>14, <2>1, ResultFields DEF LineupFetch, AmazonChannels
  <1>15. CASE site = "tcl"
    BY <1>1, <1>2, <1>3, <1>15, ResultFields DEF LineupFetch, TclChannels
  <1>16. CASE site \in {"tubi", "tubi login"}
    <2>1. LineupFetch({}) \in {LineupReturns(RowsOf(Parts, {"good"}) \X {0}),
                               LineupReturns(RowsOf(Parts, {"good", "drm"}) \X {0})}
      BY <1>1, <1>16 DEF LineupFetch, TubiChannels, TubiAnonymous
    <2> QED  BY <1>2, <1>3, <2>1, ResultFields
  <1> QED  BY <1>6, <1>7, <1>8, <1>9, <1>10, <1>11, <1>12, <1>13, <1>14, <1>15, <1>16,
              LineupAssumption, Zenon

-----------------------------------------------------------------------------
\* What a scrape returns depends on the scraper and the offer alone.
LEMMA FetchKept ==
  ASSUME offer' = offer, site' = site, NEW CONSTANT failed
  PROVE  LineupFetch(failed)' = LineupFetch(failed)
  <1>1. \A read, kinds : RowsOf(read, kinds)' = RowsOf(read, kinds)
    BY DEF RowsOf
  <1>2. \A read : CompleteRows(read)' = CompleteRows(read)
    BY DEF CompleteRows
  <1>3. \A c, read, kinds : FirstPart(c, read, kinds)' = FirstPart(c, read, kinds)
    BY DEF FirstPart
  <1>4. /\ XumoChannels(failed)' = XumoChannels(failed)
        /\ FreeLiveChannels(failed)' = FreeLiveChannels(failed)
        /\ VizioChannels(failed)' = VizioChannels(failed)
        /\ SamsungChannels(failed)' = SamsungChannels(failed)
        /\ SlingChannels(failed)' = SlingChannels(failed)
    BY <1>1 DEF XumoChannels, FreeLiveChannels, VizioChannels, SamsungChannels, SlingChannels
  <1>5. /\ AmazonChannels(failed)' = AmazonChannels(failed)
        /\ TclChannels(failed)' = TclChannels(failed)
        /\ TubiAnonymous(failed)' = TubiAnonymous(failed)
        /\ TubiChannels(failed)' = TubiChannels(failed)
    BY <1>1 DEF AmazonChannels, TclChannels, TubiAnonymous, TubiChannels
  <1>6. /\ VidaaChannels(failed)' = VidaaChannels(failed)
        /\ PlaylistChannels(failed)' = PlaylistChannels(failed)
        /\ DistroChannels(failed)' = DistroChannels(failed)
    BY <1>2 DEF VidaaChannels, PlaylistChannels, DistroChannels
  <1>7. /\ LgChannels(failed)' = LgChannels(failed)
        /\ StirrChannels(failed)' = StirrChannels(failed)
        /\ PlutoChannels(failed)' = PlutoChannels(failed)
        /\ HdhomerunChannels(failed)' = HdhomerunChannels(failed)
        /\ LocalNowChannels(failed)' = LocalNowChannels(failed)
    BY <1>1, <1>3 DEF LgChannels, StirrChannels, PlutoChannels, HdhomerunChannels, LocalNowChannels
  <1> QED  BY <1>4, <1>5, <1>6, <1>7 DEF LineupFetch

\* Before a scrape nothing is fetched, after it what the requests leave.
LEMMA LineupKeeps == LineupIInv /\ [LineupNext]_lineupVars => LineupIInv'
  <1> SUFFICES ASSUME LineupIInv, [LineupNext]_lineupVars PROVE LineupIInv'
    OBVIOUS
  <1>1. ASSUME NEW failed \in SUBSET LineupRequests, LineupScrape(failed)  PROVE LineupIInv'
    <2>1. fetched' = LineupFetch(failed) /\ failing' = failed /\ offer' = offer /\ site' = site
      BY <1>1 DEF LineupScrape
    <2>2. LineupFetch(failed)' = LineupFetch(failed)
      BY <2>1, FetchKept
    <2> QED  BY <2>1, <2>2 DEF LineupIInv, OfferOK
  <1>2. ASSUME NEW p \in Parts, NEW c \in LineupChannels, NEW row \in LineupRows, LineupChanges(p, c, row)
        PROVE  LineupIInv'
    BY <1>2 DEF LineupChanges, LineupIInv, OfferOK
  <1>3. ASSUME UNCHANGED lineupVars  PROVE LineupIInv'
    <2>1. offer' = offer /\ site' = site /\ fetched' = fetched /\ failing' = failing
      BY <1>3 DEF lineupVars
    <2>2. CASE failing = NotYet /\ fetched = LineupNothing
      BY <2>1, <2>2 DEF LineupIInv, OfferOK
    <2>3. ASSUME NEW failed \in SUBSET LineupRequests, failing = failed, fetched = LineupFetch(failed)
          PROVE  LineupIInv'
      <3>1. LineupFetch(failed)' = LineupFetch(failed)
        BY <2>1, FetchKept
      <3> QED  BY <2>1, <2>3, <3>1 DEF LineupIInv, OfferOK
    <2> QED  BY <2>2, <2>3 DEF LineupIInv
  <1> QED  BY <1>1, <1>2, <1>3 DEF LineupNext

\* The invariant implies what the run checks.
LEMMA LineupImplies == LineupIInv => LineupInv
  <1> SUFFICES ASSUME LineupIInv PROVE LineupInv
    OBVIOUS
  <1>1. CASE failing = NotYet /\ fetched = LineupNothing
    <2>1. failing # {}
      BY <1>1 DEF NotYet
    <2> QED  BY <1>1, <2>1, ResultFields DEF LineupIInv, OfferOK, LineupInv, LineupTypeOK,
                LineupComplete, LineupIdentity
  <1>2. CASE \E failed \in SUBSET LineupRequests : failing = failed /\ fetched = LineupFetch(failed)
    <2>1. LineupTypeOK
      BY <1>2, FetchTyped DEF LineupIInv, OfferOK, LineupTypeOK, ResultTyped, LineupPlaces
    <2>2. LineupComplete
      BY <1>2, FetchFinds DEF LineupIInv, LineupComplete
    <2>3. LineupIdentity
      BY <1>2, FetchShrinks DEF LineupIInv, LineupIdentity
    <2> QED  BY <2>1, <2>2, <2>3 DEF LineupInv
  <1> QED  BY <1>1, <1>2 DEF LineupIInv

\* LineupInv, which the runs check, for every one of the scrapers: a scrape with
\* no failure finds every channel that can be played, and failures give no
\* channel another id or URL (fetch_channels() in app/scrapers).
THEOREM LineupInvariant == LineupSpec => []LineupInv
  <1>1. LineupInit => LineupIInv
    BY DEF LineupInit, LineupIInv, OfferOK
  <1> QED  BY <1>1, LineupKeeps, LineupImplies, PTL DEF LineupSpec

------------------------------------------------------------------------------
(* Guides (ScraperGuides) *)

\* The results of a scrape of the channels asked for: airings of stations, and
\* none with an exception, which only the one request for everything raises.
GuideTyped(got) ==
    /\ got.airings \subseteq GuideStations \X GuideSlots
    /\ got.raised => got.airings = {}

\* The inductive invariant
GuideScraperIInv ==
    /\ guideSite \in GuideSites
    /\ onAir \subseteq GuideStations
    /\ \E asked, failed :
          /\ asked \in SUBSET GuideStations
          /\ guideAsked = asked /\ guideFailed = failed
          /\ \/ guideGot = GuideFetched(asked, failed)
             \/ asked = {} /\ guideGot = GuideReturns({})

-----------------------------------------------------------------------------
\* Stations and slots are numbered.
LEMMA GuideNumbered ==
  /\ IsFiniteSet(GuideStations) /\ GuideStations \subseteq Nat \ {0}
  /\ \E m \in Nat : GuideSlots = 1 .. m
  /\ \E n \in Nat : GuideStations = 1 .. n
  /\ GuideBatch \in Nat /\ GuideBatch > 0
  /\ GuideKey \in [GuideStations -> GuideStations]
  /\ GuideRegion \in [GuideStations -> 1 .. 2]
  <1>1. /\ IsFiniteSet(GuideStations) /\ IsFiniteSet(GuideSlots)
        /\ GuideStations = 1 .. Cardinality(GuideStations) /\ GuideSlots = 1 .. Cardinality(GuideSlots)
        /\ GuideBatch \in Nat \ {0} /\ GuideKey \in [GuideStations -> GuideStations]
        /\ GuideRegion \in [GuideStations -> 1 .. 2]
    BY Zenon, ScraperGuideAssumption
  <1>2. Cardinality(GuideStations) \in Nat /\ Cardinality(GuideSlots) \in Nat
    BY <1>1, FS_CardinalityType
  <1>3. GuideStations \subseteq Nat \ {0}
    BY <1>1, <1>2
  <1> QED  BY <1>1, <1>2, <1>3

\* The batch of the k-th of n channels is among the batches of all of them.
LEMMA BatchNumber ==
  ASSUME NEW k \in Nat, NEW n \in Nat, k < n, NEW b \in Nat, b > 0
  PROVE  k \div b + 1 \in 1 .. (n + b - 1) \div b
  <1>1. k \div b \in Nat /\ b * (k \div b) <= k
    OBVIOUS
  <1>2. (n + b - 1) \div b \in Nat /\ n + b - 1 < b * ((n + b - 1) \div b + 1)
    OBVIOUS
  <1> DEFINE q == k \div b
             top == (n + b - 1) \div b
  <1>3. q \in Nat /\ b * q <= k /\ top \in Nat /\ n + b - 1 < b * (top + 1)
    BY <1>1, <1>2
  <1> HIDE DEF q, top
  <1>4. q < top
    <2>1. b * (q + 1) = b * q + b
      BY <1>3
    <2>2. b * (q + 1) < b * (top + 1)
      BY <1>3, <2>1
    <2>3. ASSUME q >= top  PROVE FALSE
      <3>1. b * (q + 1) >= b * (top + 1)
        BY <1>3, <2>3
      <3> QED  BY <1>3, <2>2, <3>1
    <2> QED  BY <1>3, <2>3
  <1>5. q + 1 \in 1 .. top
    BY <1>3, <1>4
  <1> QED  BY <1>5 DEF q, top

\* Every channel is in one of the batches.
LEMMA Batched ==
  ASSUME NEW asked \in SUBSET GuideStations, NEW c \in asked
  PROVE  BatchOf(c, asked) \in Batches(asked)
  <1> DEFINE before == {d \in asked : d < c}
  <1>1. IsFiniteSet(asked)
    BY GuideNumbered, FS_Subset
  <1>2. before \subseteq asked \ {c}
    BY GuideNumbered
  <1>3. IsFiniteSet(asked \ {c}) /\ Cardinality(asked \ {c}) = Cardinality(asked) - 1
    BY <1>1, FS_RemoveElement
  <1>4. IsFiniteSet(before) /\ Cardinality(before) <= Cardinality(asked \ {c})
    BY <1>2, <1>3, FS_Subset
  <1>5. Cardinality(before) \in Nat /\ Cardinality(asked) \in Nat
    BY <1>1, <1>4, FS_CardinalityType
  <1> DEFINE k == Cardinality(before)
             n == Cardinality(asked)
  <1>6. k \in Nat /\ n \in Nat /\ k < n
    BY <1>3, <1>4, <1>5
  <1>7. BatchOf(c, asked) = k \div GuideBatch + 1 /\ Batches(asked) = 1 .. (n + GuideBatch - 1) \div GuideBatch
    BY DEF BatchOf, Batches
  <1> HIDE DEF k, n
  <1> QED  BY <1>6, <1>7, BatchNumber, GuideNumbered

\* A channel whose batch is answered is read.
LEMMA BatchRead ==
  ASSUME NEW asked \in SUBSET GuideStations, NEW failed, NEW c \in asked, NEW w,
         <<w, BatchOf(c, asked)>> \notin failed
  PROVE  c \in BatchesRead(asked, failed, w)
  BY Batched DEF BatchesRead

\* A window of Pluto is one of the slots, and none is asked for twice when one
\* batch of all of them is answered.
LEMMA PlutoWindows ==
  ASSUME NEW asked, NEW failed, NEW w \in GuideSlots
  PROVE  /\ PlutoWindow(w, asked, failed) \in GuideSlots
         /\ (\E b \in Batches(asked) : \A v \in GuideSlots : <<v, b>> \notin failed)
               => PlutoWindow(w, asked, failed) = w
  <1> DEFINE S == {v \in 1 .. w - 1 : \E b \in Batches(asked) : <<v, b>> \notin failed}
  <1>1. PICK m \in Nat : GuideSlots = 1 .. m
    BY GuideNumbered
  <1>2. w \in Int /\ 1 <= w /\ w <= m
    BY <1>1
  <1>3. IsFiniteSet(1 .. w - 1) /\ Cardinality(1 .. w - 1) = w - 1
    BY <1>2, FS_Interval
  <1>4. IsFiniteSet(S) /\ Cardinality(S) <= w - 1
    BY <1>3, FS_Subset
  <1>5. Cardinality(S) \in Nat
    BY <1>4, FS_CardinalityType
  <1>6. PlutoWindow(w, asked, failed) = 1 + Cardinality(S)
    BY DEF PlutoWindow
  <1>7. ASSUME \E b \in Batches(asked) : \A v \in GuideSlots : <<v, b>> \notin failed
        PROVE  S = 1 .. w - 1
    BY <1>1, <1>2, <1>7
  <1> HIDE DEF S
  <1>8. 1 + Cardinality(S) \in 1 .. m
    BY <1>2, <1>4, <1>5
  <1> QED  BY <1>1, <1>2, <1>3, <1>6, <1>7, <1>8

\* The fields of a result
LEMMA GuideFields ==
  /\ \A airings : GuideReturns(airings).airings = airings /\ GuideReturns(airings).raised = FALSE
  /\ GuideRaised.airings = {} /\ GuideRaised.raised = TRUE
  BY DEF GuideReturns, GuideRaised

\* Where an airing may be: at a station that has one
GuideRight(c) ==
    IF guideSite \in {"m3u", "distro"} THEN GuideKey[c] \in onAir
    ELSE IF guideSite = "vizio" THEN \E d \in onAir : GuideKey[d] = GuideKey[c]
    ELSE c \in onAir

\* A result is what it should be: typed, honest.
GuideFine(got, failed) ==
    /\ GuideTyped(got)
    /\ got.raised => GuideWhole \in failed
    /\ \A a \in got.airings : GuideRight(a[1])

\* The airings of stations in all slots are, if these are the right stations.
LEMMA AllSlotsFine ==
  ASSUME NEW S \in SUBSET GuideStations, \A c \in S : GuideRight(c), NEW failed
  PROVE  GuideFine(GuideReturns(S \X GuideSlots), failed)
  BY GuideFields DEF GuideFine, GuideTyped

\* So is an exception after the request for everything.
LEMMA RaisedFine ==
  ASSUME NEW failed, GuideWhole \in failed
  PROVE  GuideFine(GuideRaised, failed)
  BY GuideFields DEF GuideFine, GuideTyped

\* Whatever is asked for and fails, what a scrape returns is.
LEMMA FetchedFine ==
  ASSUME onAir \subseteq GuideStations, guideSite \in GuideSites,
         NEW asked \in SUBSET GuideStations, NEW failed
  PROVE  GuideFine(GuideFetched(asked, failed), failed)
  <1>1. CASE guideSite = "xumo"
    <2> DEFINE found(day, page) == \E c \in GuideStations :
                   (c - 1) \div 2 = page /\ <<day, c>> \notin failed
               R == {a \in (asked \cap onAir) \X GuideSlots :
                        /\ <<a[2], a[1]>> \notin failed
                        /\ \A page \in 0 .. ((a[1] - 1) \div 2) - 1 : found(a[2], page)}
    <2>1. GuideFetched(asked, failed) = GuideReturns(R)
      BY <1>1 DEF GuideFetched, XumoGuide
    <2>2. R \subseteq (asked \cap onAir) \X GuideSlots
      OBVIOUS
    <2> HIDE DEF R
    <2> QED  BY <1>1, <2>1, <2>2, GuideFields DEF GuideFine, GuideTyped, GuideRight
  <1>2. CASE guideSite = "vizio"
    <2> DEFINE of(stations) == {c \in KeyHolders(asked) :
                                   \E d \in stations \cap onAir : GuideKey[d] = GuideKey[c]}
               bulk == IF GuideWhole \in failed THEN {} ELSE of(VizioBulk(asked))
               single == of({c \in asked : <<c, 1>> \notin failed})
               S == IF bulk # {} THEN bulk ELSE single
    <2>1. GuideFetched(asked, failed) = GuideReturns(S \X GuideSlots)
      BY <1>2 DEF GuideFetched, VizioGuide
    <2>2. \A stations : of(stations) \subseteq asked /\ \A c \in of(stations) : GuideRight(c)
      BY <1>2 DEF KeyHolders, GuideRight
    <2> HIDE DEF of
    <2>3. S \in SUBSET GuideStations /\ \A c \in S : GuideRight(c)
      BY <2>2
    <2> HIDE DEF S
    <2> QED  BY <2>1, <2>3, AllSlotsFine
  <1>3. CASE guideSite = "samsung"
    <2> DEFINE S == {c \in asked \cap onAir : <<GuideRegion[c], 0>> \notin failed}
    <2>1. GuideFetched(asked, failed) = GuideReturns(S \X GuideSlots)
      BY <1>3 DEF GuideFetched, SamsungGuide
    <2>2. S \in SUBSET GuideStations /\ \A c \in S : GuideRight(c)
      BY <1>3 DEF GuideRight
    <2> HIDE DEF S
    <2> QED  BY <2>1, <2>2, AllSlotsFine
  <1>4. CASE guideSite = "vidaa"
    <2> DEFINE S == onAir \cap UNION {BatchesRead({c \in asked : GuideRegion[c] = geo},
                                                  failed, geo) : geo \in 1 .. 2}
    <2>1. GuideFetched(asked, failed) = IF GuideWhole \in failed THEN GuideRaised
                                        ELSE GuideReturns(S \X GuideSlots)
      BY <1>4 DEF GuideFetched, VidaaGuide
    <2>2. S \in SUBSET GuideStations /\ \A c \in S : GuideRight(c)
      BY <1>4 DEF GuideRight
    <2> HIDE DEF S
    <2> QED  BY <2>1, <2>2, AllSlotsFine, RaisedFine
  <1>5. CASE guideSite \in {"lg", "freelive"}
    <2> DEFINE S == IF GuideWhole \in failed THEN {} ELSE asked \cap onAir
    <2>1. GuideFetched(asked, failed) = GuideReturns(S \X GuideSlots)
      BY <1>5 DEF GuideFetched, SingleGuide
    <2>2. S \in SUBSET GuideStations /\ \A c \in S : GuideRight(c)
      BY <1>5 DEF GuideRight
    <2> HIDE DEF S
    <2> QED  BY <2>1, <2>2, AllSlotsFine
  <1>6. CASE guideSite = "distro"
    <2> DEFINE S == IF GuideWhole \in failed THEN {} ELSE KeyOnAir(asked)
    <2>1. GuideFetched(asked, failed) = GuideReturns(S \X GuideSlots)
      BY <1>6 DEF GuideFetched, SingleGuide
    <2>2. S \in SUBSET GuideStations /\ \A c \in S : GuideRight(c)
      BY <1>6 DEF GuideRight, KeyOnAir
    <2> HIDE DEF S
    <2> QED  BY <2>1, <2>2, AllSlotsFine
  <1>7. CASE guideSite = "m3u"
    <2> DEFINE active == IF GuideEnabled = {} THEN asked ELSE asked \cap GuideEnabled
               S == IF GuideWhole \in failed THEN {} ELSE KeyHolders(active) \cap KeyOnAir(active)
    <2>1. GuideFetched(asked, failed) = GuideReturns(S \X GuideSlots)
      BY <1>7 DEF GuideFetched, PlaylistGuide, SingleGuide
    <2>2. active \in SUBSET GuideStations
      OBVIOUS
    <2> HIDE DEF active
    <2>3. S \in SUBSET GuideStations /\ \A c \in S : GuideRight(c)
      BY <1>7, <2>2 DEF GuideRight, KeyOnAir
    <2> HIDE DEF S
    <2> QED  BY <2>1, <2>3, AllSlotsFine
  <1>8. CASE guideSite = "stirr"
    <2> DEFINE S == {c \in asked \cap onAir : <<c, 1>> \notin failed \/ <<c, 2>> \notin failed}
    <2>1. GuideFetched(asked, failed) = GuideReturns(S \X GuideSlots)
      BY <1>8 DEF GuideFetched, StirrGuide
    <2>2. S \in SUBSET GuideStations /\ \A c \in S : GuideRight(c)
      BY <1>8 DEF GuideRight
    <2> HIDE DEF S
    <2> QED  BY <2>1, <2>2, AllSlotsFine
  <1>9. CASE guideSite = "sling"
    <2> DEFINE S == {c \in asked \cap onAir : \A s \in GuideSlots : <<c, s>> \notin failed}
    <2>1. GuideFetched(asked, failed) = IF GuideWhole \in failed THEN GuideRaised
                                        ELSE GuideReturns(S \X GuideSlots)
      BY <1>9 DEF GuideFetched, SlingGuide
    <2>2. S \in SUBSET GuideStations /\ \A c \in S : GuideRight(c)
      BY <1>9 DEF GuideRight
    <2> HIDE DEF S
    <2> QED  BY <2>1, <2>2, AllSlotsFine, RaisedFine
  <1>10. CASE guideSite = "localnow"
    <2>1. GuideFetched(asked, failed) = IF GuideWhole \in failed THEN GuideRaised
                                        ELSE GuideReturns((asked \cap onAir) \X GuideSlots)
      BY <1>10 DEF GuideFetched, LocalNowGuide
    <2>2. asked \cap onAir \in SUBSET GuideStations /\ \A c \in asked \cap onAir : GuideRight(c)
      BY <1>10 DEF GuideRight
    <2> QED  BY <2>1, <2>2, AllSlotsFine, RaisedFine
  <1>11. CASE guideSite = "amazon"
    <2> DEFINE S == IF GuideWhole \in failed THEN {}
                    ELSE {c \in asked \cap onAir : \A d \in 2 .. c : <<d, 0>> \notin failed}
    <2>1. GuideFetched(asked, failed) = GuideReturns(S \X GuideSlots)
      BY <1>11 DEF GuideFetched, AmazonGuide
    <2>2. S \in SUBSET GuideStations /\ \A c \in S : GuideRight(c)
      BY <1>11 DEF GuideRight
    <2> HIDE DEF S
    <2> QED  BY <2>1, <2>2, AllSlotsFine
  <1>12. CASE guideSite = "tcl"
    <2> DEFINE S == {c \in onAir : <<GuideRegion[c], 0>> \notin failed}
    <2>1. GuideFetched(asked, failed) = IF GuideWhole \in failed THEN GuideRaised
                                        ELSE GuideReturns(S \X GuideSlots)
      BY <1>12 DEF GuideFetched, TclGuide
    <2>2. S \in SUBSET GuideStations /\ \A c \in S : GuideRight(c)
      BY <1>12 DEF GuideRight
    <2> HIDE DEF S
    <2> QED  BY <2>1, <2>2, AllSlotsFine, RaisedFine
  <1>13. CASE guideSite = "pluto"
    <2> DEFINE R == UNION {(onAir \cap BatchesRead(asked, failed, w))
                              \X {PlutoWindow(w, asked, failed)} : w \in GuideSlots}
    <2>1. GuideFetched(asked, failed) \in {GuideReturns(R), GuideReturns({})}
      BY <1>13 DEF GuideFetched, PlutoGuide
    <2>2. \A w \in GuideSlots : PlutoWindow(w, asked, failed) \in GuideSlots
      BY PlutoWindows
    <2>3. R \subseteq onAir \X GuideSlots
      BY <2>2
    <2> HIDE DEF R
    <2> QED  BY <1>13, <2>1, <2>3, GuideFields DEF GuideFine, GuideTyped, GuideRight
  <1>14. CASE guideSite = "tubi"
    <2> DEFINE auth == IF GuideWhole \in failed THEN {} ELSE TubiEpg(asked, failed, 1)
               S == IF auth # {} THEN auth ELSE TubiEpg(asked, failed, 2)
    <2>1. GuideFetched(asked, failed) = GuideReturns(S \X GuideSlots)
      BY <1>14 DEF GuideFetched, TubiGuide
    <2>2. \A path : TubiEpg(asked, failed, path) \subseteq onAir
      BY DEF TubiEpg
    <2>3. S \in SUBSET GuideStations /\ \A c \in S : GuideRight(c)
      BY <1>14, <2>2 DEF GuideRight
    <2> HIDE DEF S
    <2> QED  BY <2>1, <2>3, AllSlotsFine
  <1> QED  BY <1>1, <1>2, <1>3, <1>4, <1>5, <1>6, <1>7, <1>8, <1>9, <1>10, <1>11, <1>12, <1>13,
              <1>14, ScraperGuideAssumption, Zenon

\* A channel has all its airings when the requests it depends on succeed.
LEMMA OwnEnough ==
  ASSUME onAir \subseteq GuideStations, guideSite \in GuideSites,
         guideAsked \in SUBSET GuideStations, guideGot = GuideFetched(guideAsked, guideFailed),
         NEW c \in GuideServed, OwnRequests(c, guideAsked) \cap guideFailed = {},
         guideSite = "xumo" => guideFailed = {}, NEW s \in GuideSlots
  PROVE  <<c, s>> \in guideGot.airings
  <1> DEFINE A == guideAsked
             F == guideFailed
  <1>0. /\ guideSite \notin {"vizio", "tubi"} => GuideWhole \notin F
        /\ \A S : GuideReturns(S).airings = S
    BY GuideFields, Zenon DEF OwnRequests
  <1>1. CASE guideSite = "xumo"
    <2> DEFINE found(day, page) == \E d \in GuideStations : (d - 1) \div 2 = page /\ <<day, d>> \notin F
               R == {a \in (A \cap onAir) \X GuideSlots :
                        /\ <<a[2], a[1]>> \notin F
                        /\ \A page \in 0 .. ((a[1] - 1) \div 2) - 1 : found(a[2], page)}
    <2>1. guideGot = GuideReturns(R)
      BY <1>1 DEF GuideFetched, XumoGuide
    <2>2. c \in A \cap onAir /\ F = {}
      BY <1>1 DEF GuideServed
    <2>3. ASSUME NEW page \in 0 .. ((c - 1) \div 2) - 1  PROVE found(s, page)
      <3>1. PICK n \in Nat : GuideStations = 1 .. n
        BY GuideNumbered
      <3>2. c \in 1 .. n
        BY <2>2, <3>1
      <3>3. 2 * page + 1 \in 1 .. n /\ (2 * page + 1 - 1) \div 2 = page
        BY <3>1, <3>2
      <3> DEFINE d == 2 * page + 1
      <3>4. d \in GuideStations /\ (d - 1) \div 2 = page /\ <<s, d>> \notin F
        BY <2>2, <3>1, <3>3
      <3> HIDE DEF d
      <3> QED  BY <3>4
    <2> HIDE DEF found
    <2>4. <<c, s>> \in R
      BY <2>2, <2>3
    <2> HIDE DEF R
    <2> QED  BY <1>0, <2>1, <2>4
  <1>2. CASE guideSite = "vizio"
    <2> DEFINE of(stations) == {d \in KeyHolders(A) :
                                   \E e \in stations \cap onAir : GuideKey[e] = GuideKey[d]}
               bulk == IF GuideWhole \in F THEN {} ELSE of(VizioBulk(A))
               single == of({d \in A : <<d, 1>> \notin F})
               S == IF bulk # {} THEN bulk ELSE single
    <2>1. guideGot = GuideReturns(S \X GuideSlots)
      BY <1>2 DEF GuideFetched, VizioGuide
    <2>2. c \in KeyHolders(A) /\ c \in onAir /\ c \in VizioBulk(A) /\ c \in A
      BY <1>2 DEF GuideServed, KeyHolders
    <2>3. <<c, 1>> \notin F
      BY <1>2 DEF OwnRequests
    <2>4. c \in of(VizioBulk(A)) /\ c \in single
      BY <2>2, <2>3
    <2> HIDE DEF of
    <2>5. c \in S
      BY <2>4
    <2> HIDE DEF S
    <2> QED  BY <1>0, <2>1, <2>5
  <1>3. CASE guideSite = "samsung"
    <2> DEFINE S == {d \in A \cap onAir : <<GuideRegion[d], 0>> \notin F}
    <2>1. guideGot = GuideReturns(S \X GuideSlots)
      BY <1>3 DEF GuideFetched, SamsungGuide
    <2>2. <<GuideRegion[c], 0>> \notin F
      BY <1>3 DEF OwnRequests
    <2>3. c \in S
      BY <1>3, <2>2 DEF GuideServed
    <2> HIDE DEF S
    <2> QED  BY <1>0, <2>1, <2>3
  <1>4. CASE guideSite = "vidaa"
    <2> DEFINE Of(geo) == {d \in A : GuideRegion[d] = geo}
               S == onAir \cap UNION {BatchesRead(Of(geo), F, geo) : geo \in 1 .. 2}
    <2>1. guideGot = GuideReturns(S \X GuideSlots)
      BY <1>0, <1>4 DEF GuideFetched, VidaaGuide
    <2>2. c \in A \cap onAir
      BY <1>4 DEF GuideServed
    <2>3. <<GuideRegion[c], BatchOf(c, Of(GuideRegion[c]))>> \notin F
      BY <1>4 DEF OwnRequests
    <2>4. GuideRegion[c] \in 1 .. 2 /\ c \in Of(GuideRegion[c])
      BY <2>2, GuideNumbered
    <2>5. Of(GuideRegion[c]) \in SUBSET GuideStations
      OBVIOUS
    <2> HIDE DEF Of
    <2>6. c \in BatchesRead(Of(GuideRegion[c]), F, GuideRegion[c])
      BY <2>3, <2>4, <2>5, BatchRead
    <2>7. c \in S
      BY <2>2, <2>4, <2>6
    <2> HIDE DEF S
    <2> QED  BY <1>0, <2>1, <2>7
  <1>5. CASE guideSite \in {"lg", "freelive"}
    <2>1. guideGot = GuideReturns((A \cap onAir) \X GuideSlots)
      BY <1>0, <1>5 DEF GuideFetched, SingleGuide
    <2>2. c \in A \cap onAir
      BY <1>5 DEF GuideServed
    <2> QED  BY <1>0, <2>1, <2>2
  <1>6. CASE guideSite = "distro"
    <2>1. guideGot = GuideReturns(KeyOnAir(A) \X GuideSlots)
      BY <1>0, <1>6 DEF GuideFetched, SingleGuide
    <2>2. c \in KeyOnAir(A)
      BY <1>6 DEF GuideServed
    <2> QED  BY <1>0, <2>1, <2>2
  <1>7. CASE guideSite = "m3u"
    <2> DEFINE active == IF GuideEnabled = {} THEN A ELSE A \cap GuideEnabled
    <2>1. guideGot = GuideReturns((KeyHolders(active) \cap KeyOnAir(active)) \X GuideSlots)
      BY <1>0, <1>7 DEF GuideFetched, PlaylistGuide, SingleGuide
    <2>2. c \in KeyHolders(A \cap GuideEnabled) /\ c \in KeyOnAir(A)
      BY <1>7 DEF GuideServed
    <2>3. c \in A \cap GuideEnabled
      BY <2>2 DEF KeyHolders
    <2>4. active = A \cap GuideEnabled
      BY <2>3
    <2>5. c \in KeyOnAir(A \cap GuideEnabled)
      BY <2>2, <2>3 DEF KeyOnAir
    <2> DEFINE S == KeyHolders(active) \cap KeyOnAir(active)
    <2> HIDE DEF active
    <2>6. c \in S
      BY <2>2, <2>4, <2>5, Zenon
    <2> HIDE DEF S
    <2> QED  BY <1>0, <2>1, <2>6 DEF S
  <1>8. CASE guideSite = "stirr"
    <2> DEFINE S == {d \in A \cap onAir : <<d, 1>> \notin F \/ <<d, 2>> \notin F}
    <2>1. guideGot = GuideReturns(S \X GuideSlots)
      BY <1>8 DEF GuideFetched, StirrGuide
    <2>2. <<c, 2>> \notin F
      BY <1>8 DEF OwnRequests
    <2>3. c \in S
      BY <1>8, <2>2 DEF GuideServed
    <2> HIDE DEF S
    <2> QED  BY <1>0, <2>1, <2>3
  <1>9. CASE guideSite = "sling"
    <2> DEFINE S == {d \in A \cap onAir : \A t \in GuideSlots : <<d, t>> \notin F}
    <2>1. guideGot = GuideReturns(S \X GuideSlots)
      BY <1>0, <1>9 DEF GuideFetched, SlingGuide
    <2>2. \A t \in GuideSlots : <<c, t>> \notin F
      BY <1>9 DEF OwnRequests
    <2>3. c \in S
      BY <1>9, <2>2 DEF GuideServed
    <2> HIDE DEF S
    <2> QED  BY <1>0, <2>1, <2>3
  <1>10. CASE guideSite = "localnow"
    <2>1. guideGot = GuideReturns((A \cap onAir) \X GuideSlots)
      BY <1>0, <1>10 DEF GuideFetched, LocalNowGuide
    <2>2. c \in A \cap onAir
      BY <1>10 DEF GuideServed
    <2> QED  BY <1>0, <2>1, <2>2
  <1>11. CASE guideSite = "amazon"
    <2> DEFINE S == {e \in A \cap onAir : \A d \in 2 .. e : <<d, 0>> \notin F}
    <2>1. guideGot = GuideReturns(S \X GuideSlots)
      BY <1>0, <1>11 DEF GuideFetched, AmazonGuide
    <2>2. \A d \in 2 .. c : <<d, 0>> \notin F
      BY <1>11 DEF OwnRequests
    <2>3. c \in S
      BY <1>11, <2>2 DEF GuideServed
    <2> HIDE DEF S
    <2> QED  BY <1>0, <2>1, <2>3
  <1>12. CASE guideSite = "tcl"
    <2> DEFINE S == {d \in onAir : <<GuideRegion[d], 0>> \notin F}
    <2>1. guideGot = GuideReturns(S \X GuideSlots)
      BY <1>0, <1>12 DEF GuideFetched, TclGuide
    <2>2. <<GuideRegion[c], 0>> \notin F
      BY <1>12 DEF OwnRequests
    <2>3. c \in S
      BY <1>12, <2>2 DEF GuideServed
    <2> HIDE DEF S
    <2> QED  BY <1>0, <2>1, <2>3
  <1>13. CASE guideSite = "pluto"
    <2> DEFINE Window(w) == (onAir \cap BatchesRead(A, F, w)) \X {PlutoWindow(w, A, F)}
               R == UNION {Window(w) : w \in GuideSlots}
    <2>1. guideGot = GuideReturns(R)
      BY <1>0, <1>13 DEF GuideFetched, PlutoGuide
    <2>2. c \in A /\ c \in onAir
      BY <1>13 DEF GuideServed
    <2>3. \A w \in GuideSlots : <<w, BatchOf(c, A)>> \notin F
      BY <1>13 DEF OwnRequests
    <2>4. BatchOf(c, A) \in Batches(A) /\ c \in BatchesRead(A, F, s)
      BY <2>2, <2>3, Batched, BatchRead
    <2>5. PlutoWindow(s, A, F) = s
      BY <2>3, <2>4, PlutoWindows
    <2>6. <<c, s>> \in Window(s)
      BY <2>2, <2>4, <2>5
    <2> HIDE DEF Window
    <2>7. <<c, s>> \in R
      BY <2>6
    <2> HIDE DEF R
    <2> QED  BY <1>0, <2>1, <2>7
  <1>14. CASE guideSite = "tubi"
    <2> DEFINE auth == IF GuideWhole \in F THEN {} ELSE TubiEpg(A, F, 1)
               S == IF auth # {} THEN auth ELSE TubiEpg(A, F, 2)
    <2>1. guideGot = GuideReturns(S \X GuideSlots)
      BY <1>14 DEF GuideFetched, TubiGuide
    <2>2. c \in A /\ c \in onAir
      BY <1>14 DEF GuideServed
    <2>3. 1 \in GuideSlots
      BY GuideNumbered
    <2>4. <<1, BatchOf(c, A)>> \notin F /\ <<2, BatchOf(c, A)>> \notin F
      BY <1>14, <2>3 DEF OwnRequests
    <2>5. c \in TubiEpg(A, F, 1) /\ c \in TubiEpg(A, F, 2)
      BY <2>2, <2>4, BatchRead DEF TubiEpg
    <2>6. c \in S
      BY <2>5
    <2> HIDE DEF S
    <2> QED  BY <1>0, <2>1, <2>6
  <1> QED  BY <1>1, <1>2, <1>3, <1>4, <1>5, <1>6, <1>7, <1>8, <1>9, <1>10, <1>11, <1>12, <1>13,
              <1>14, ScraperGuideAssumption, Zenon

-----------------------------------------------------------------------------
\* What a scrape returns depends on the scraper and the schedules alone.
LEMMA GuideKept ==
  ASSUME guideSite' = guideSite, onAir' = onAir, NEW CONSTANT asked, NEW CONSTANT failed
  PROVE  GuideFetched(asked, failed)' = GuideFetched(asked, failed)
  <1>1. /\ XumoGuide(asked, failed)' = XumoGuide(asked, failed)
        /\ VizioGuide(asked, failed)' = VizioGuide(asked, failed)
        /\ SamsungGuide(asked, failed)' = SamsungGuide(asked, failed)
    BY DEF XumoGuide, VizioGuide, SamsungGuide
  <1>2. /\ VidaaGuide(asked, failed)' = VidaaGuide(asked, failed)
        /\ StirrGuide(asked, failed)' = StirrGuide(asked, failed)
        /\ SlingGuide(asked, failed)' = SlingGuide(asked, failed)
    BY DEF VidaaGuide, StirrGuide, SlingGuide
  <1>3. /\ LocalNowGuide(asked, failed)' = LocalNowGuide(asked, failed)
        /\ AmazonGuide(asked, failed)' = AmazonGuide(asked, failed)
        /\ TclGuide(failed)' = TclGuide(failed)
    BY DEF LocalNowGuide, AmazonGuide, TclGuide
  <1>4. \A S : KeyOnAir(S)' = KeyOnAir(S)
    BY DEF KeyOnAir
  <1>5. PlaylistGuide(asked, failed)' = PlaylistGuide(asked, failed)
    BY <1>4 DEF PlaylistGuide, SingleGuide
  <1>6. PlutoGuide(asked, failed)' = PlutoGuide(asked, failed)
    BY DEF PlutoGuide
  <1>7. TubiGuide(asked, failed)' = TubiGuide(asked, failed)
    BY DEF TubiGuide, TubiEpg
  <1>8. /\ SingleGuide(asked, failed, asked \cap onAir)' = SingleGuide(asked, failed, asked \cap onAir)
        /\ SingleGuide(asked, failed, KeyOnAir(asked))' = SingleGuide(asked, failed, KeyOnAir(asked))
    BY <1>4 DEF SingleGuide
  <1> QED  BY <1>1, <1>2, <1>3, <1>5, <1>6, <1>7, <1>8 DEF GuideFetched

\* Every step keeps the invariant.
LEMMA GuideScraperKeeps ==
  GuideScraperIInv /\ [GuideScraperNext]_scraperGuideVars => GuideScraperIInv'
  <1> SUFFICES ASSUME GuideScraperIInv, [GuideScraperNext]_scraperGuideVars PROVE GuideScraperIInv'
    OBVIOUS
  <1>1. ASSUME NEW asked \in SUBSET GuideStations, NEW failed \in SUBSET GuideRequests,
               GuideScrape(asked, failed)
        PROVE  GuideScraperIInv'
    <2>1. /\ guideAsked' = asked /\ guideFailed' = failed /\ guideGot' = GuideFetched(asked, failed)
          /\ guideSite' = guideSite /\ onAir' = onAir
      BY <1>1 DEF GuideScrape
    <2>2. GuideFetched(asked, failed)' = GuideFetched(asked, failed)
      BY <2>1, GuideKept
    <2> QED  BY <2>1, <2>2 DEF GuideScraperIInv
  <1>2. ASSUME NEW stations \in SUBSET GuideStations, GuideChanges(stations)
        PROVE  GuideScraperIInv'
    BY <1>2 DEF GuideChanges, GuideScraperIInv, GuideReturns
  <1>3. ASSUME UNCHANGED scraperGuideVars  PROVE GuideScraperIInv'
    <2>1. /\ guideSite' = guideSite /\ onAir' = onAir /\ guideAsked' = guideAsked
          /\ guideFailed' = guideFailed /\ guideGot' = guideGot
      BY <1>3 DEF scraperGuideVars
    <2>2. PICK asked, failed :
             /\ asked \in SUBSET GuideStations
             /\ guideAsked = asked /\ guideFailed = failed
             /\ \/ guideGot = GuideFetched(asked, failed)
                \/ asked = {} /\ guideGot = GuideReturns({})
      BY DEF GuideScraperIInv
    <2>3. GuideFetched(asked, failed)' = GuideFetched(asked, failed)
      BY <2>1, GuideKept
    <2> QED  BY <2>1, <2>2, <2>3 DEF GuideScraperIInv, GuideReturns
  <1> QED  BY <1>1, <1>2, <1>3 DEF GuideScraperNext

\* The invariant implies what the run checks.
LEMMA GuideScraperImplies == GuideScraperIInv => GuideScraperInv
  <1> SUFFICES ASSUME GuideScraperIInv PROVE GuideScraperInv
    OBVIOUS
  <1>1. /\ guideSite \in GuideSites /\ onAir \subseteq GuideStations /\ guideAsked \in SUBSET GuideStations
        /\ guideGot = GuideFetched(guideAsked, guideFailed) \/ (guideAsked = {} /\ guideGot = GuideReturns({}))
    <2>1. PICK asked, failed :
             /\ asked \in SUBSET GuideStations
             /\ guideAsked = asked /\ guideFailed = failed
             /\ \/ guideGot = GuideFetched(asked, failed)
                \/ asked = {} /\ guideGot = GuideReturns({})
      BY DEF GuideScraperIInv
    <2>2. guideGot = GuideFetched(guideAsked, guideFailed) \/ (guideAsked = {} /\ guideGot = GuideReturns({}))
      <3>1. guideGot = GuideFetched(asked, failed) => guideGot = GuideFetched(guideAsked, guideFailed)
        BY <2>1
      <3> QED  BY <2>1, <3>1
    <2> QED  BY <2>1, <2>2 DEF GuideScraperIInv
  <1>2. CASE guideGot = GuideFetched(guideAsked, guideFailed)
    <2>1. GuideFine(guideGot, guideFailed)
      BY <1>1, <1>2, FetchedFine
    <2>2. GuideScraperTypeOK /\ GuideHonest
      BY <1>1, <2>1 DEF GuideFine, GuideTyped, GuideRight, GuideScraperTypeOK, GuideHonest
    <2>3. GuideIsolated
      BY <1>1, <1>2, OwnEnough DEF GuideIsolated
    <2> QED  BY <2>2, <2>3 DEF GuideScraperInv
  <1>3. CASE guideAsked = {} /\ guideGot = GuideReturns({})
    <2>1. GuideServed = {}
      BY <1>3 DEF GuideServed, KeyHolders, KeyOnAir
    <2> QED  BY <1>1, <1>3, <2>1, GuideFields
             DEF GuideScraperInv, GuideScraperTypeOK, GuideIsolated, GuideHonest
  <1> QED  BY <1>1, <1>2, <1>3

\* GuideScraperInv, which the runs check, for every one of the scrapers: requests
\* for other stations, regions and batches cost a channel nothing, and it gets
\* the airings of no other station (fetch_epg() in app/scrapers).
THEOREM GuideScraperInvariant == GuideScraperSpec => []GuideScraperInv
  <1>1. GuideScraperInit => GuideScraperIInv
    BY DEF GuideScraperInit, GuideScraperIInv
  <1> QED  BY <1>1, GuideScraperKeeps, GuideScraperImplies, PTL DEF GuideScraperSpec
==============================================================================
