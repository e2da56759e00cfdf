---------------------------- MODULE ChannelNumbers ----------------------------
(***************************************************************************)
(* Channel numbers: _refresh_auto_channel_numbers() of app/worker.py, the  *)
(* maps of app/generators/m3u.py it is built from, and the requests that   *)
(* pin, clear and reset numbers or move the blocks they come from.         *)
(*                                                                         *)
(* A channel is a number that stands for its row and for the place of its  *)
(* name in the alphabet, a source likewise; 0 stands for None.  Sources    *)
(* without a start use the one of the environment, the default feed has    *)
(* none of its own, and there is one feed that has.  A request or a scrape *)
(* is one step.                                                            *)
(***************************************************************************)
EXTENDS Naturals, FiniteSetsExt, Functions

CONSTANTS
    Numbered,       \* channels, of Nat \ {0}
    Provider,       \* the source of each channel, of Nat \ {0}
    FeedLineup,     \* the channels the feed's filters let through
    UserNumbers,    \* numbers a user may type
    MasterStart,    \* effective_global_chnum_start()
    MaxNumberEdits  \* bound: edits by users
ASSUME NumbersAssumption ==
    /\ Numbered \subseteq Nat \ {0} /\ IsFiniteSet(Numbered)
    /\ Provider \in [Numbered -> Nat \ {0}]
    /\ FeedLineup \subseteq Numbered
    /\ UserNumbers \subseteq Nat \ {0}
    /\ MasterStart \in Nat
    /\ MaxNumberEdits \in Nat

VARIABLES
    number,      \* Channel.number
    pinned,      \* channels with number_pinned
    shown,       \* channels that are active, enabled and have a stream
    guided,      \* channels with a Gracenote ID
    start,       \* Source.chnum_start
    feedStart,   \* the feed's chnum_start
    feedRow,         \* FeedChannelNumber.number of the feed, 0 where there is no row
    rowPinned,   \* rows with user_pinned
    renumbered,  \* history: the last step was a renumbering
    edits        \* edits so far

numbersVars == <<number, pinned, shown, guided, start, feedStart, feedRow,
                 rowPinned, renumbered, edits>>

Providers == Range(Provider)

NumbersInit ==
    /\ number = [c \in Numbered |-> 0]
    /\ pinned = {}
    /\ shown = {}
    /\ guided = {}
    /\ start = [s \in Providers |-> 0]
    /\ feedStart = 1
    /\ feedRow = [c \in Numbered |-> 0]
    /\ rowPinned = {}
    /\ renumbered = FALSE
    /\ edits = 0

-----------------------------------------------------------------------------
(* The maps of m3u.py, from channels to numbers.  A channel that is not in a     *)
(* map, as one for which nothing gives a number, has 0 there.                    *)

\* The order of the numbers n, those without one last, then of the names
Before(n, a, b) == \/ n[a] # 0 /\ (n[b] = 0 \/ n[a] < n[b])
                   \/ n[a] = n[b] /\ a < b

\* The k-th number from first on that is not taken
FreeNumber(first, taken, k) ==
    CHOOSE n \in first .. first + Cardinality(taken) + k :
        n \notin taken /\ Cardinality((first .. n) \ taken) = k

\* Faulty variant: only pins are kept.
StickyPinned(S, n, first, used, wanted, fixed) ==
    LET taken == used \cup {wanted[c] : c \in S \cap fixed}
        place(c) == Cardinality({d \in S \ fixed : Before(n, d, c)}) + 1
    IN  [c \in S |-> IF c \in fixed THEN wanted[c] ELSE FreeNumber(first, taken, place(c))]

\* The channels S are looked at in the order of n.  One keeps the number it
\* wants when it is fixed, or when that is in the block that begins at first
\* and nobody took it before; the others fill the gaps of the block.
Sticky(S, n, first, used, wanted, fixed) ==
    LET kept == {c \in S : \/ c \in fixed
                           \/ /\ wanted[c] >= first /\ wanted[c] \notin used
                              /\ \A d \in S : Before(n, d, c) => wanted[d] # wanted[c]}
        taken == used \cup {wanted[c] : c \in kept}
        place(c) == Cardinality({d \in S \ kept : Before(n, d, c)}) + 1
    IN  [c \in S |-> IF c \in kept THEN wanted[c] ELSE FreeNumber(first, taken, place(c))]

\* Where the block of a source begins, if its start is one of starts; 0 where
\* neither the source nor the default feed has a start
FirstNumber(s, starts) == IF starts[s] # 0 THEN starts[s] ELSE MasterStart

\* How many sources of the channels S go before s: those with a start of their
\* own first, in the order of their starts
Turn(S, s, starts) == Cardinality({t \in {Provider[c] : c \in S} : Before(starts, t, s)})

\* Faulty variant: pins of sources that come later are not set aside.
AfterTurnUnreserved(S, n, pins, starts, m, k) ==
    LET turn == {c \in S : Turn(S, Provider[c], starts) = k
                           /\ FirstNumber(Provider[c], starts) # 0}
        first == CHOOSE f \in {FirstNumber(Provider[c], starts) : c \in turn} : TRUE
        numbers == Sticky(turn, n, first, Range(m), n, pins)
    IN  [c \in Numbered |-> IF c \in turn THEN numbers[c] ELSE m[c]]

\* The map once the source whose turn it is has been added.  Every pinned number
\* is set aside before any is given out.  Where neither the source nor the
\* default feed has a start, no channel gets a number.
AfterTurn(S, n, pins, starts, m, k) ==
    LET turn == {c \in S : Turn(S, Provider[c], starts) = k
                           /\ FirstNumber(Provider[c], starts) # 0}
        first == CHOOSE f \in {FirstNumber(Provider[c], starts) : c \in turn} : TRUE
        numbers == Sticky(turn, n, first, {n[c] : c \in S \cap pins} \cup Range(m), n, pins)
    IN  [c \in Numbered |-> IF c \in turn THEN numbers[c] ELSE m[c]]

\* The maps after so many sources, and the last one
SourceMaps(S, n, pins, starts) ==
    LET maps[k \in 0 .. Cardinality({Provider[c] : c \in S})] ==
            IF k = 0 THEN [c \in Numbered |-> 0]
            ELSE AfterTurn(S, n, pins, starts, maps[k - 1], k - 1)
    IN  maps
SourceNumbers(S, n, pins, starts) ==
    SourceMaps(S, n, pins, starts)[Cardinality({Provider[c] : c \in S})]

\* The block of the channels with a Gracenote ID comes after the others.
GuideNumbers(S, n, pins, before) ==
    LET first == IF before # {} THEN Max(before) + 1
                 ELSE IF MasterStart # 0 THEN MasterStart ELSE 1
    IN  Sticky(S, n, first, before, n, pins)

\* The numbers of a feed, from first on, in the order of the channels' own
\* numbers n; the channels of held have a row that is not to be moved.
FeedNumbers(S, first, n, pins, rows, held) ==
    Sticky(S, n, first, {},
           [c \in Numbered |-> IF c \in pins THEN n[c] ELSE rows[c]], pins \cup held)

\* Where the Gracenote channels of a feed that begins at first do
GuideBlock(first, V, G) == first + Cardinality((V \cap FeedLineup) \ G)

\* Channel.number after _refresh_auto_channel_numbers(), when V is shown, G has
\* Gracenote IDs and the numbers were n
AutoNumbers(V, G, n, pins, starts) ==
    LET std == SourceNumbers(V \ G, n, pins, starts)
        guide == GuideNumbers(V \cap G, n, pins, Range(std) \ {0})
    IN  [c \in Numbered |->
            IF c \notin V \ pins THEN n[c] ELSE IF c \in G THEN guide[c] ELSE std[c]]

\* The rows of the feed after it, when they were rows, the channels have the
\* numbers n and the feed begins at first.  Rows a user pinned are not held.
FeedRows(V, G, n, pins, rows, first) ==
    LET lineup == V \cap FeedLineup
        std == FeedNumbers(lineup \ G, first, n, pins, rows, {})
        guide == FeedNumbers(lineup \cap G, GuideBlock(first, V, G), n, pins, rows, {})
    IN  IF V = {} \/ first = 0 THEN rows
        ELSE [c \in Numbered |-> IF c \notin lineup THEN 0 ELSE IF c \in G THEN guide[c] ELSE std[c]]

\* _refresh_auto_channel_numbers(), when V is shown, the numbers are n and the
\* rows of the feed are rows
Renumber(V, n, rows) ==
    /\ number' = AutoNumbers(V, guided, n, pinned, start)
    /\ feedRow' = FeedRows(V, guided, number', pinned, rows, feedStart)
    /\ rowPinned' = {c \in rowPinned :
                        rows[c] # 0 /\ (V = {} \/ feedStart = 0 \/ c \in V \cap FeedLineup)}
    /\ renumbered' = TRUE

\* What the feed's playlists without and with Gracenote IDs show when it begins
\* at first: numbers from a namespace of its own where it has no start.
FeedShows(first) ==
    LET own == first # 0
        rows == [c \in Numbered |-> IF own THEN feedRow[c] ELSE 0]
        held == IF own THEN rowPinned ELSE {}
        lineup == shown \cap FeedLineup
    IN  <<FeedNumbers(lineup \ guided, IF own THEN first ELSE 200000,
                      number, pinned, rows, held),
          FeedNumbers(lineup \cap guided,
                      IF own THEN GuideBlock(first, shown, guided) ELSE 300000,
                      number, pinned, rows, held)>>

\* The warnings of get_global_chnum_overlaps() about the feed
Clashes(first) ==
    LET maps == FeedShows(first)
    IN  {w \in (1 .. 2) \X Numbered \X Numbered :
            /\ w[2] < w[3] /\ {w[2], w[3]} \subseteq DOMAIN maps[w[1]]
            /\ maps[w[1]][w[2]] = maps[w[1]][w[3]]}

-----------------------------------------------------------------------------
\* A scrape lets channels come and go, and renumbers; a brand new row has no
\* number, like a row that was never shown.
NumbersScrape ==
    /\ \E V \in SUBSET Numbered :
          /\ Cardinality(SymDiff(shown, V)) <= 1
          /\ shown' = V
          /\ Renumber(V, number, feedRow)
    /\ UNCHANGED <<pinned, guided, start, feedStart, edits>>

NumbersEdit ==
    /\ edits < MaxNumberEdits
    /\ edits' = edits + 1

\* PATCH of a channel: enable or disable, give or take a Gracenote ID, pin
\* (by setting a number), unpin.  None of these renumbers.
NumbersPatch(c) ==
    /\ NumbersEdit
    /\ \/ /\ shown' = SymDiff(shown, {c})
          /\ UNCHANGED <<guided, number, pinned>>
       \/ /\ guided' = SymDiff(guided, {c})
          /\ UNCHANGED <<shown, number, pinned>>
       \/ /\ \E n \in UserNumbers : number' = [number EXCEPT ![c] = n]
          /\ pinned' = pinned \cup {c}
          /\ UNCHANGED <<shown, guided>>
       \/ /\ c \in pinned
          /\ pinned' = pinned \ {c}
          /\ UNCHANGED <<shown, guided, number>>
    /\ renumbered' = FALSE
    /\ UNCHANGED <<start, feedStart, feedRow, rowPinned>>

\* PUT and DELETE of a channel's number in the feed
NumbersFeedPin(c) ==
    /\ NumbersEdit
    /\ \E n \in UserNumbers : feedRow' = [feedRow EXCEPT ![c] = n]
    /\ rowPinned' = rowPinned \cup {c}
    /\ renumbered' = FALSE
    /\ UNCHANGED <<number, pinned, shown, guided, start, feedStart>>

NumbersFeedClear(c) ==
    /\ NumbersEdit
    /\ c \in rowPinned
    /\ feedRow' = [feedRow EXCEPT ![c] = 0]
    /\ rowPinned' = rowPinned \ {c}
    /\ renumbered' = FALSE
    /\ UNCHANGED <<number, pinned, shown, guided, start, feedStart>>

\* PATCH of a source.  Its overlap check compares the new state with itself:
\* the baseline is read after the edit, which the first query flushes.
NumbersMoveSource ==
    /\ NumbersEdit
    /\ \E s \in Providers, n \in UserNumbers \cup {0} : start' = [start EXCEPT ![s] = n]
    /\ renumbered' = FALSE
    /\ UNCHANGED <<number, pinned, shown, guided, feedStart, feedRow, rowPinned>>

\* PATCH of the feed, refused when the new numbers clash where the old did not
NumbersMoveFeed ==
    /\ NumbersEdit
    /\ LET clashed == Clashes(feedStart)
       IN  feedStart' \in {n \in UserNumbers \cup {0} : Clashes(n) \subseteq clashed}
    /\ renumbered' = FALSE
    /\ UNCHANGED <<number, pinned, shown, guided, start, feedRow, rowPinned>>

\* Reset of the default feed: what is numbered from the environment's start,
\* or has a Gracenote ID, is numbered afresh.
NumbersReset ==
    /\ NumbersEdit
    /\ LET afresh == {c \in shown \ pinned : start[Provider[c]] = 0 \/ c \in guided}
       IN  Renumber(shown, [c \in Numbered |-> IF c \in afresh THEN 0 ELSE number[c]], feedRow)
    /\ UNCHANGED <<pinned, shown, guided, start, feedStart>>

\* Reset of the feed: its rows are deleted first, pinned ones too.
NumbersFeedReset ==
    /\ NumbersEdit
    /\ feedStart # 0
    /\ Renumber(shown, number, [c \in Numbered |-> 0])
    /\ UNCHANGED <<pinned, shown, guided, start, feedStart>>

NumbersNext ==
    \/ NumbersScrape \/ NumbersMoveSource \/ NumbersMoveFeed
    \/ NumbersReset \/ NumbersFeedReset
    \/ \E c \in Numbered : NumbersPatch(c) \/ NumbersFeedPin(c) \/ NumbersFeedClear(c)

NumbersSpec == NumbersInit /\ [][NumbersNext]_numbersVars

-----------------------------------------------------------------------------
\* Type invariant
NumbersTypeOK ==
    /\ number \in [Numbered -> Nat] /\ feedRow \in [Numbered -> Nat]
    /\ pinned \subseteq Numbered /\ shown \subseteq Numbered /\ guided \subseteq Numbered
    /\ start \in [Providers -> UserNumbers \cup {0}]
    /\ feedStart \in UserNumbers \cup {0, 1}
    /\ rowPinned \subseteq {c \in Numbered : feedRow[c] # 0}
    /\ renumbered \in BOOLEAN
    /\ edits \in 0 .. MaxNumberEdits

\* After _refresh_auto_channel_numbers() no automatic number is anybody else's,
\* except that one may be that of a pin the allocator does not set aside: a pin on
\* a channel with a Gracenote ID (one that comes later, for a channel of that
\* block) or, in the Gracenote block, one on a channel without, whose source has
\* no start to go by.
NumbersDistinct ==
    renumbered =>
        \A c \in shown \ pinned : \A d \in shown \ {c} :
            number[c] = number[d] /\ number[c] # 0 =>
                /\ d \in pinned
                /\ IF d \in guided THEN c \in guided => c < d
                   ELSE c \in guided /\ FirstNumber(Provider[d], start) = 0

\* Every other step counts as an edit.
NumbersScraped == edits' = edits

\* Numbers are sticky: in a scrape a shown channel loses its automatic number
\* only to a channel of another block (a source numbered earlier, or the
\* Gracenote block giving way to the sources), to a pin, to a channel that
\* already had the number, or because the number is below the block.
NumbersStick ==
    [][NumbersScraped =>
        \A c \in (shown' \cap shown) \ (pinned \cup guided) :
            number'[c] # number[c] =>
                LET first == FirstNumber(Provider[c], start)
                IN  \/ first = 0 \/ number[c] < first
                    \/ \E d \in shown' \ {c} :
                          /\ number'[d] = number[c]
                          /\ \/ d \in pinned
                             \/ number[d] = number[c]
                             \/ Before(start, Provider[d], Provider[c])
      ]_numbersVars

\* Renumbering settles: done twice with nothing in between, it changes no
\* channel's number and no row of the feed.
NumbersSettle ==
    [][NumbersScraped /\ renumbered /\ shown' = shown => UNCHANGED <<number, feedRow>>]_numbersVars

\* The number a user gave a channel within a feed stays its number there while
\* the channel is in the feed ("these always keep their stored number",
\* m3u.py).
FeedPinsKept ==
    [][NumbersScraped =>
        \A c \in rowPinned \cap shown' \cap FeedLineup :
            c \notin pinned => feedRow'[c] = feedRow[c]]_numbersVars

\* Types, and no number twice
NumbersInv == NumbersTypeOK /\ NumbersDistinct

\* Nothing moves without a reason.
NumbersStable == NumbersStick /\ NumbersSettle
===============================================================================
