-------------------------- MODULE HistorySyncProofs --------------------------
(***************************************************************************)
(* Proofs about HistorySync, for any flows, page size, times, resolution   *)
(* of the cursor and bounds: its types; that a bulk clear leaves no        *)
(* ghosts; that only a message whose time an older row's cursor covers is  *)
(* skipped; and that a pull is complete but for those.                     *)
(***************************************************************************)
EXTENDS HistorySync, FiniteSetTheorems, WellFoundedInduction, TLAPS

-----------------------------------------------------------------------------
(* The server's rows *)

\* The times up to the last message.
Stamps == 0..clock

\* Every row has a timestamp of its own, no longer held by a worker, and was
\* inserted since the last clear.
LogInv ==
    /\ saving \subseteq Stamps
    /\ \A m \in log : m.at \in Stamps /\ m.at \notin saving /\ m.clears = clears
    /\ \A m, n \in log : m.at = n.at => m = n

\* What the types rest on: sets are finite, and no flow carries a clear the
\* server has not counted.
BoundInv ==
    /\ IsFiniteSet(saving) /\ IsFiniteSet(log)
    /\ \A f \in Flow : flow[f] \in Listing => flow[f].clears <= clears
    /\ \A f \in Flow : flow[f] \in Pulling =>
          IsFiniteSet(flow[f].page) /\ flow[f].max \in Nat \cup {NoCursor}

-----------------------------------------------------------------------------
(* Resets *)

InReset(f) == flow[f].pc = "unmarking"
Writes(f) == flow[f].pc = "upserting"
Pulls(f) == flow[f].pc \in {"history_asked", "history_got", "saving"}

\* All these messages were inserted since clear number c.
Since(messages, c) == \A m \in messages : m.clears >= c

\* Neither the mirror nor a page on its way holds a message from before c.
Purged(c) == Since(mirror, c) /\ \A f \in Flow : Pulls(f) => Since(flow[f].page, c)

\* Between its two writes a reset is the only one, and ahead of what the device
\* has applied; a row that is to be written changes nothing.
ResetInv ==
    ~overlapped =>
        /\ Purged(appliedClears)
        /\ \A f \in Flow : InReset(f) =>
              /\ Purged(flow[f].clears)
              /\ appliedClears < flow[f].clears
              /\ \A e \in Flow : InReset(e) => e = f
        /\ \A f \in Flow : Writes(f) => flow[f].clears = appliedClears

-----------------------------------------------------------------------------
(* Pulls *)

\* The rows no cursor covered when they were inserted: what a pull must not miss.
Owed == {m \in log : ~m.late}

\* Cursor x covers no more than some row's does.
Reached(x) == x = NoCursor \/ \E m \in log : CursorText(x) <= CursorText(Millis(m))

\* The position of the next request is that of a row, or the stored cursor.
PositionInv(f) ==
    IF flow[f].exact THEN \E m \in log : flow[f].after <= Text(m.at)
                     ELSE flow[f].after = CursorText(flow[f].max)

\* Behind the position everything is mirrored.
AskedInv(f) ==
    /\ PositionInv(f)
    /\ Owed \ After(flow[f].after) \subseteq mirror

\* m lies beyond the page and, when the page is the last, beyond its cursor.
Beyond(m, f) ==
    /\ \A p \in flow[f].page : Text(p.at) < Text(m.at)
    /\ IsLastPage(f) =>
          ~Covers(flow[f].max, m) /\ \A p \in flow[f].page : ~Covers(Millis(p), m)

\* What is owed is mirrored, in the page or beyond it; the last page completes
\* what was owed when the pull began.
GotInv(f) ==
    /\ \A m \in Owed : m \in mirror \cup flow[f].page \/ Beyond(m, f)
    /\ IsLastPage(f) => Owed \cap flow[f].asked \subseteq mirror \cup flow[f].page

\* Everything owed that cursor x covers is mirrored.
MirroredTo(x) == \A m \in Owed : Covers(x, m) => m \in mirror

PullInv(f) ==
    /\ Reached(flow[f].max)
    /\ flow[f].page \subseteq log
    /\ flow[f].pc = "history_asked" => AskedInv(f)
    /\ flow[f].pc = "history_got" => GotInv(f)
    /\ flow[f].pc = "saving" => MirroredTo(flow[f].max)

\* The rows a pull has seen have given up their worker.
SeenInv ==
    \A f \in Flow : Pulls(f) => \A m \in flow[f].asked : m.at \in Stamps \ saving

\* Unless a clear waits or a reset was disturbed, the cursor and every pull
\* keep to this.
HistoryInv ==
    Undisturbed =>
        /\ Reached(cursor) /\ MirroredTo(cursor)
        /\ \A f \in Flow : Pulls(f) => PullInv(f)

-----------------------------------------------------------------------------
(* Times, texts and cursors *)

\* What division by a symbolic divisor gives.
LEMMA Division ==
    ASSUME NEW a \in Nat, NEW d \in Nat \ {0}
    PROVE  /\ a \div d \in Nat /\ a % d \in 0..(d - 1)
           /\ a = (a \div d) * d + (a % d)
<1>1. a \div d \in Int /\ a % d \in 0..(d - 1)
    BY SMT
<1> QED BY <1>1, SMT

\* The text of a row and the cursor made of its time are numbers, and the cursor
\* covers the row itself.
LEMMA TextType ==
    ASSUME NEW m \in Message
    PROVE  m.at \in Nat /\ Text(m.at) \in Nat /\ Millis(m) \in Nat
<1>1. m.at \in Nat
    BY DEF Message
<1>2. Milli \in Nat \ {0} /\ PerSecond \in Nat \ {0}
    BY TimeAssumption
<1>3. Millis(m) \in Nat
    BY <1>1, <1>2, Division DEF Millis
<1>4. Milli * PerSecond \in Nat
    BY <1>2
<1> QED BY <1>1, <1>3, <1>4 DEF Text

LEMMA CursorType ==
    ASSUME NEW x \in Nat \cup {NoCursor}
    PROVE  CursorText(x) \in Int
<1>1. Milli \in Nat /\ PerSecond \in Nat /\ x \in Int
    BY TimeAssumption DEF NoCursor
<1>2. x * Milli \in Int /\ Milli * PerSecond \in Int /\ (x + 1) * Milli \in Int
    BY <1>1
<1> QED BY <1>2 DEF CursorText, NoCursor

LEMMA CoversItself ==
    ASSUME NEW m \in Message
    PROVE  Covers(Millis(m), m)
<1> DEFINE q == m.at \div Milli
           r == m.at % Milli
<1>1. /\ m.at \in Nat /\ q \in Nat /\ r \in 0..(Milli - 1) /\ m.at = q * Milli + r
      /\ Milli \in Nat \ {0} /\ PerSecond \in Nat \ {0}
    BY TextType, TimeAssumption, Division
<1>2. Millis(m) = q /\ q # NoCursor
    BY <1>1 DEF Millis, NoCursor
<1> DEFINE t == q * Milli
           s == Milli * PerSecond
<1>3. t \in Nat /\ s \in Nat /\ s >= Milli
    <2>1. t \in Nat /\ s \in Nat
        BY <1>1
    <2>2. Milli * (PerSecond - 1) >= 0
        BY <1>1
    <2>3. s = Milli * (PerSecond - 1) + Milli
        BY <1>1
    <2> QED BY <1>1, <2>1, <2>2, <2>3
<1>4. (q + 1) * Milli = t + Milli
    BY <1>1
<1>5. /\ Text(m.at) = IF r = 0 /\ q % PerSecond = 0 THEN 2 * (m.at + s) ELSE 2 * m.at
      /\ CursorText(Millis(m)) = IF q % PerSecond = 0 THEN 2 * (t + s) ELSE 2 * (t + Milli) - 1
    BY <1>2, <1>4 DEF Text, CursorText
<1>6. m.at = t + r
    BY <1>1
<1> DEFINE whole == q % PerSecond = 0
<1> HIDE DEF q, r, t, s, whole
<1>7. /\ Text(m.at) = IF r = 0 /\ whole THEN 2 * (m.at + s) ELSE 2 * m.at
      /\ CursorText(Millis(m)) = IF whole THEN 2 * (t + s) ELSE 2 * (t + Milli) - 1
    BY <1>5 DEF whole
<1> QED BY <1>1, <1>3, <1>6, <1>7 DEF Covers

-----------------------------------------------------------------------------
(* Finite sets of numbers *)

\* A finite set of integers has a greatest element, which Max chooses.
LEMMA MaxOfFinite ==
    ASSUME NEW S \in SUBSET Int, IsFiniteSet(S), S # {}
    PROVE  Max(S) \in S /\ \A y \in S : Max(S) >= y
<1> DEFINE R == StrictSubsetOrdering(S)
           F == FiniteSubsetsOf(S)
           C == {{y \in S : y > x} : x \in S}
<1>1. IsWellFoundedOn(R, F)
    BY FS_StrictSubsetOrderingWellFounded
<1>2. ASSUME NEW x \in S PROVE {y \in S : y > x} \in F
    BY FS_Subset DEF FiniteSubsetsOf
<1>3. C \subseteq F /\ C # {}
    <2> HIDE DEF F
    <2> QED BY <1>2
<1>4. ASSUME NEW x \in S, NEW z \in S, z > x
      PROVE  <<{y \in S : y > z}, {y \in S : y > x}>> \in R
    <2>1. z \in {y \in S : y > x} /\ z \notin {y \in S : y > z}
        BY <1>4
    <2>2. \A y \in S : y > z => y > x
        <3>1. x \in Int /\ z \in Int /\ \A y \in S : y \in Int
            OBVIOUS
        <3> QED BY <3>1, <1>4
    <2> QED BY <2>1, <2>2 DEF StrictSubsetOrdering
<1> HIDE DEF R, F
<1>5. PICK c \in C : \A d \in C : <<d, c>> \notin R
    <2> HIDE DEF C
    <2> QED BY <1>1, <1>3, WFMin
<1>6. PICK x \in S : c = {y \in S : y > x}
    OBVIOUS
<1>7. \A z \in S : ~(z > x)
    BY <1>4, <1>5, <1>6
<1>8. \A y \in S : x >= y
    BY <1>7
<1> QED BY <1>8 DEF Max

\* The image of a finite set of messages under a function is finite.
LEMMA FiniteImage ==
    ASSUME NEW S, IsFiniteSet(S), NEW g, DOMAIN g = S
    PROVE  IsFiniteSet({g[x] : x \in S})
<1> DEFINE h == [x \in S |-> g[x]]
           T == {g[x] : x \in S}
<1>1. h \in Surjection(S, T)
    BY DEF Surjection
<1> QED BY <1>1, FS_Surjection

\* The oldest rows of a finite set: a row left out is younger than any of
\* them, and is left out only when they are n.
LEMMA OldestRows ==
    ASSUME NEW S \in SUBSET Message, IsFiniteSet(S), NEW n \in Nat
    PROVE  /\ Oldest(S, n) \subseteq S /\ IsFiniteSet(Oldest(S, n))
           /\ \A m \in S \ Oldest(S, n) :
                 /\ Cardinality(Oldest(S, n)) >= n
                 /\ \A p \in Oldest(S, n) : Text(p.at) < Text(m.at)
<1> DEFINE Before(m) == {e \in S : Text(e.at) < Text(m.at)}
           O == Oldest(S, n)
<1>1. O \subseteq S /\ IsFiniteSet(O)
    BY FS_Subset DEF Oldest
<1>2. \A m \in S : IsFiniteSet(Before(m)) /\ Cardinality(Before(m)) \in Nat
    BY FS_Subset, FS_CardinalityType
<1>3. \A m \in S : Text(m.at) \in Nat
    BY TextType
<1>4. ASSUME NEW m \in S \ O, NEW p \in O PROVE Text(p.at) < Text(m.at)
    <2> SUFFICES ASSUME ~(Text(p.at) < Text(m.at)) PROVE FALSE
        OBVIOUS
    <2>1. Before(m) \in SUBSET Before(p)
        BY <1>1, <1>3
    <2>2. Cardinality(Before(m)) <= Cardinality(Before(p))
        <3> HIDE DEF Before
        <3> QED BY <1>1, <1>2, <2>1, FS_Subset
    <2>3. Cardinality(Before(p)) < n /\ ~(Cardinality(Before(m)) < n)
        BY DEF Oldest
    <2> HIDE DEF Before, O
    <2> QED BY <1>1, <1>2, <2>2, <2>3
<1>5. ASSUME NEW m \in S \ O PROVE Cardinality(O) >= n
    <2> DEFINE A == {0 - Text(e.at) : e \in S \ O}
    <2>1. IsFiniteSet(A) /\ A \in SUBSET Int /\ A # {}
        <3> DEFINE g == [e \in S \ O |-> 0 - Text(e.at)]
        <3>1. IsFiniteSet(S \ O)
            <4> HIDE DEF O
            <4> QED BY FS_Difference
        <3>2. IsFiniteSet({g[e] : e \in S \ O})
            <4> HIDE DEF O
            <4> QED BY <3>1, FiniteImage
        <3> HIDE DEF O
        <3>3. A = {g[e] : e \in S \ O}
            OBVIOUS
        <3>4. \A e \in S \ O : 0 - Text(e.at) \in Int
            BY <1>3
        <3>5. A \in SUBSET Int
            BY <3>4
        <3>6. 0 - Text(m.at) \in A
            BY <1>5
        <3> HIDE DEF A, g
        <3> QED BY <3>2, <3>3, <3>5, <3>6
    <2>2. Max(A) \in A /\ \A y \in A : Max(A) >= y
        <3> HIDE DEF A
        <3> QED BY <2>1, MaxOfFinite
    <2>3. PICK first \in S \ O : Max(A) = 0 - Text(first.at)
        BY <2>2
    <2>4. \A e \in S \ O : Text(first.at) <= Text(e.at)
        <3> HIDE DEF O
        <3>1. \A e \in S \ O : Max(A) >= 0 - Text(e.at)
            BY <2>2
        <3> QED BY <3>1, <2>3, <1>3
    <2>5. Before(first) \in SUBSET O
        <3> HIDE DEF O
        <3> QED BY <2>4, <1>3
    <2>6. Cardinality(Before(first)) <= Cardinality(O) /\ Cardinality(O) \in Nat
        <3> HIDE DEF Before, O
        <3> QED BY <1>1, <2>5, FS_Subset, FS_CardinalityType
    <2>7. ~(Cardinality(Before(first)) < n)
        BY <2>3 DEF Oldest
    <2> HIDE DEF Before, O
    <2> QED BY <1>2, <2>3, <2>6, <2>7
<1> QED BY <1>1, <1>4, <1>5

-----------------------------------------------------------------------------
(* Types *)

ListingPc == {"list_asked", "list_got", "deleting", "unmarking", "upserting", "resuming"}
PullingPc == {"history_asked", "history_got", "saving"}

\* A flow's record is told by its pc.
LEMMA FlowKinds ==
    ASSUME TypeOK, NEW f \in Flow
    PROVE  /\ flow[f] \in {Idle} \cup Listing \cup Pulling
           /\ flow[f].pc \in ListingPc <=> flow[f] \in Listing
           /\ flow[f].pc \in PullingPc <=> flow[f] \in Pulling
           /\ flow[f].pc = "idle" <=> flow[f] = Idle
<1>1. flow[f] \in {Idle} \cup Listing \cup Pulling
    BY DEF TypeOK
<1>2. \A r \in Listing : r.pc \in ListingPc
    BY DEF Listing, ListingPc
<1>3. \A r \in Pulling : r.pc \in PullingPc
    BY DEF Pulling, PullingPc
<1>4. Idle.pc = "idle"
    BY DEF Idle
<1>5. ListingPc \cap PullingPc = {} /\ "idle" \notin ListingPc /\ "idle" \notin PullingPc
    BY DEF ListingPc, PullingPc
<1> QED BY <1>1, <1>2, <1>3, <1>4, <1>5

\* The greatest time applied after a page is the one before it or a row's.
LEMMA PageMax ==
    ASSUME TypeOK, BoundInv, NEW f \in Flow, flow[f] \in Pulling
    PROVE  LET units == {flow[f].max} \cup {Millis(m) : m \in flow[f].page}
           IN  Max(units) \in units /\ \A x \in units : Max(units) >= x
<1> DEFINE page == flow[f].page
           own == {Millis(m) : m \in page}
           units == {flow[f].max} \cup own
           g == [m \in page |-> Millis(m)]
<1>1. IsFiniteSet(page) /\ flow[f].max \in Int
    BY DEF BoundInv, NoCursor
<1>2. page \subseteq Message
    BY DEF Pulling
<1> HIDE DEF page
<1>3. IsFiniteSet({g[m] : m \in page})
    BY <1>1, FiniteImage
<1>4. own = {g[m] : m \in page}
    OBVIOUS
<1>5. \A m \in page : Millis(m) \in Int
    BY <1>2, TextType
<1>6. units \in SUBSET Int
    BY <1>1, <1>5
<1> HIDE DEF own, g
<1>7. IsFiniteSet(units)
    BY <1>3, <1>4, FS_Union, FS_Singleton
<1>8. units # {}
    OBVIOUS
<1> HIDE DEF units
<1>9. Max(units) \in units /\ \A x \in units : Max(units) >= x
    BY <1>6, <1>7, <1>8, MaxOfFinite
<1> QED BY <1>9 DEF units, own, page

\* The next request starts after the youngest row of the page.
LEMMA PageEnd ==
    ASSUME TypeOK, BoundInv, NEW f \in Flow, flow[f] \in Pulling, ~IsLastPage(f)
    PROVE  LET after == NextPosition(f).after
           IN  /\ after \in Nat
               /\ \E m \in flow[f].page : after = Text(m.at)
               /\ \A m \in flow[f].page : Text(m.at) <= after
<1> DEFINE page == flow[f].page
           ats == {Text(m.at) : m \in page}
           g == [m \in page |-> Text(m.at)]
<1>1. IsFiniteSet(page) /\ Cardinality(page) \in Nat
    BY FS_CardinalityType DEF BoundInv
<1>2. page \subseteq Message
    BY DEF Pulling
<1>3. page # {}
    <2>1. ~(Cardinality(page) < PageLimit)
        BY DEF IsLastPage
    <2> QED BY <2>1, <1>1, PageAssumption, FS_EmptySet
<1> HIDE DEF page
<1>4. IsFiniteSet({g[m] : m \in page})
    BY <1>1, FiniteImage
<1>5. ats = {g[m] : m \in page}
    OBVIOUS
<1>6. \A m \in page : Text(m.at) \in Nat
    BY <1>2, TextType
<1>7. ats \in SUBSET Int /\ ats # {}
    BY <1>3, <1>6
<1> HIDE DEF g
<1>8. Max(ats) \in ats /\ \A x \in ats : Max(ats) >= x
    <2> HIDE DEF ats
    <2> QED BY <1>4, <1>5, <1>7, MaxOfFinite
<1>9. \E m \in page : Max(ats) = Text(m.at)
    BY <1>8
<1>10. \A m \in page : Text(m.at) <= Max(ats)
    BY <1>6, <1>7, <1>8
<1>11. NextPosition(f).after = Max(ats)
    BY DEF NextPosition, ats, page
<1> HIDE DEF ats
<1>12. Max(ats) \in Nat
    BY <1>9, <1>6
<1> QED BY <1>9, <1>10, <1>11, <1>12 DEF page

\* The flow records the actions make.
LEMMA Asking ==
    ASSUME TypeOK, BoundInv
    PROVE  /\ AskHistory \in Pulling /\ AskHistory.page = {} /\ AskHistory.max = cursor
           /\ AskHistory.max \in Nat \cup {NoCursor}
<1>1. log \in SUBSET Message /\ cursor \in Nat \cup {NoCursor} /\ cursor \in Int
      /\ CursorText(cursor) \in Int
    BY CursorType DEF TypeOK, NoCursor
<1> QED BY <1>1 DEF AskHistory, Pulling

\* A flow that is replaced by a well-formed record leaves the others as they are.
LEMMA FlowUpdate ==
    ASSUME TypeOK, BoundInv, clears \in Nat, clears' \in Nat, clears <= clears',
           NEW f \in Flow, NEW r, flow' = [flow EXCEPT ![f] = r],
           r \in {Idle} \cup Listing \cup Pulling,
           r \in Listing => r.clears <= clears',
           r \in Pulling => IsFiniteSet(r.page) /\ r.max \in Nat \cup {NoCursor}
    PROVE  /\ flow' \in [Flow -> {Idle} \cup Listing \cup Pulling]
           /\ \A e \in Flow : flow'[e] \in Listing => flow'[e].clears <= clears'
           /\ \A e \in Flow : flow'[e] \in Pulling =>
                 IsFiniteSet(flow'[e].page) /\ flow'[e].max \in Nat \cup {NoCursor}
<1>1. flow \in [Flow -> {Idle} \cup Listing \cup Pulling]
    BY DEF TypeOK
<1>2. \A e \in Flow : flow'[e] = IF e = f THEN r ELSE flow[e]
    BY <1>1
<1>3. \A e \in Flow : flow[e] \in Listing => flow[e].clears \in Nat /\ flow[e].clears <= clears'
    BY DEF BoundInv, Listing
<1>4. flow' \in [Flow -> {Idle} \cup Listing \cup Pulling]
    BY <1>1
<1>5. ASSUME NEW e \in Flow
      PROVE  /\ flow'[e] \in Listing => flow'[e].clears <= clears'
             /\ flow'[e] \in Pulling =>
                   IsFiniteSet(flow'[e].page) /\ flow'[e].max \in Nat \cup {NoCursor}
    BY <1>2, <1>3, Zenon DEF BoundInv
<1> QED BY <1>4, <1>5

\* A record is a listing or a pulling flow, never both nor idle.
LEMMA KindsDiffer ==
    /\ \A r \in Listing : r \notin Pulling
    /\ Idle \notin Listing /\ Idle \notin Pulling
<1>1. \A r \in Listing : r.pc \in ListingPc
    BY DEF Listing, ListingPc
<1>2. \A r \in Pulling : r.pc \in PullingPc
    BY DEF Pulling, PullingPc
<1>3. Idle.pc = "idle"
    BY DEF Idle
<1>4. ListingPc \cap PullingPc = {} /\ "idle" \notin ListingPc /\ "idle" \notin PullingPc
    BY DEF ListingPc, PullingPc
<1> QED BY <1>1, <1>2, <1>3, <1>4

TypeInv == TypeOK /\ BoundInv

LEMMA ServerTypeStep ==
    ASSUME TypeInv, StampMessage \/ InsertMessage \/ ClearMessages
    PROVE  TypeInv'
<1> USE DEF TypeInv
<1>1. /\ IsFiniteSet(saving) /\ IsFiniteSet(log) /\ saving \subseteq Nat /\ log \subseteq Message
      /\ Cardinality(saving) \in Nat /\ Cardinality(saving) <= Threads /\ clears \in Nat
      /\ clock \in Nat /\ Threads \in Nat
      /\ flow \in [Flow -> {Idle} \cup Listing \cup Pulling]
    BY FS_CardinalityType, ThreadAssumption, TimeAssumption DEF TypeOK, BoundInv
<1>2. CASE StampMessage
    <2>1. PICK at \in Times :
              /\ Cardinality(saving) < Threads
              /\ clock' = at /\ saving' = saving \cup {at}
        BY <1>2 DEF StampMessage
    <2>5. at \in Nat
        BY TimeAssumption
    <2>2. IsFiniteSet(saving') /\ Cardinality(saving') <= Threads
        <3>0. saving' = saving \cup {at}
            BY <2>1
        <3>1. IsFiniteSet(saving') /\ Cardinality(saving') <= Cardinality(saving) + 1
            <4>1. /\ IsFiniteSet(saving \cup {at})
                  /\ Cardinality(saving \cup {at}) =
                        IF at \in saving THEN Cardinality(saving) ELSE Cardinality(saving) + 1
                BY <1>1, FS_AddElement
            <4> QED BY <1>1, <3>0, <4>1
        <3>2. IsFiniteSet(saving') => Cardinality(saving') \in Nat
            BY FS_CardinalityType
        <3>3. Cardinality(saving) < Threads
            BY <2>1
        <3> QED BY <1>1, <3>1, <3>2, <3>3
    <2>3. saving' \subseteq Nat
        BY <1>1, <2>1, <2>5
    <2>4. TypeOK'
        BY <1>2, <2>1, <2>2, <2>3, <2>5 DEF StampMessage, database, TypeOK
    <2>6. BoundInv'
        BY <1>2, <2>2 DEF StampMessage, database, BoundInv
    <2> QED BY <2>4, <2>6
<1>3. CASE InsertMessage
    <2>1. PICK at \in saving :
              /\ saving' = saving \ {at}
              /\ log' = log \cup {[at |-> at, clears |-> clears, late |-> IsLate(at)]}
        BY <1>3 DEF InsertMessage
    <2>2. [at |-> at, clears |-> clears, late |-> IsLate(at)] \in Message
        BY <1>1 DEF Message, IsLate
    <2>3. IsFiniteSet(log') /\ log' \subseteq Message
        BY <1>1, <2>1, <2>2, FS_AddElement
    <2>4. IsFiniteSet(saving') /\ Cardinality(saving') <= Threads /\ saving' \subseteq Nat
        <3>1. IsFiniteSet(saving') /\ Cardinality(saving') = Cardinality(saving) - 1
            BY <1>1, <2>1, FS_RemoveElement
        <3> QED BY <1>1, <2>1, <3>1
    <2>5. TypeOK'
        BY <1>3, <2>3, <2>4 DEF InsertMessage, database, TypeOK
    <2>6. BoundInv'
        BY <1>3, <2>3, <2>4 DEF InsertMessage, database, BoundInv
    <2> QED BY <2>5, <2>6
<1>4. CASE ClearMessages
    <2>1. log' = {} /\ clears' = clears + 1
        BY <1>4 DEF ClearMessages
    <2>2. events' \in 0..MaxEvents
        BY <1>4, BoundAssumption DEF ClearMessages, Disturb, TypeOK
    <2>3. appliedClears \in 0..clears' /\ clears' \in Nat
        BY <1>1, <2>1 DEF TypeOK
    <2>4. TypeOK'
        BY <1>4, <2>1, <2>2, <2>3 DEF ClearMessages, database, TypeOK
    <2>5. \A r \in Listing : r.clears <= clears => r.clears <= clears'
        BY <1>1, <2>1 DEF Listing
    <2>6. IsFiniteSet(log')
        BY <2>1, FS_EmptySet
    <2>7. BoundInv'
        BY <1>4, <2>5, <2>6 DEF ClearMessages, database, BoundInv
    <2> QED BY <2>4, <2>7
<1> QED BY <1>2, <1>3, <1>4

LEMMA PullTypeStep ==
    ASSUME TypeInv, NEW f \in Flow, StartPull(f) \/ PullStep(f) \/ PullAfterReset(f)
    PROVE  TypeInv'
<1> USE DEF TypeInv
<1>1. clears' = clears /\ log' = log /\ saving' = saving /\ clock' = clock
      /\ UNCHANGED <<appliedClears, events, overlapped>>
    BY DEF StartPull, PullStep, ServeHistory, ApplyPage, SaveCursor, PullAfterReset,
           server, database
<1>2. clears \in Nat /\ flow \in [Flow -> {Idle} \cup Listing \cup Pulling]
    BY DEF TypeOK
<1>3. pulls' \in 0..MaxPulls
    BY BoundAssumption DEF TypeOK, StartPull, PullStep, ServeHistory, ApplyPage, SaveCursor,
           PullAfterReset
<1>4. SUFFICES
         /\ mirror' \subseteq Message /\ cursor' \in Nat \cup {NoCursor}
         /\ \E r : /\ flow' = [flow EXCEPT ![f] = r]
                   /\ r \in {Idle} \cup Pulling
                   /\ r \in Pulling => IsFiniteSet(r.page) /\ r.max \in Nat \cup {NoCursor}
    <2>1. PICK r : /\ flow' = [flow EXCEPT ![f] = r]
                   /\ r \in {Idle} \cup Pulling
                   /\ r \in Pulling => IsFiniteSet(r.page) /\ r.max \in Nat \cup {NoCursor}
        BY <1>4
    <2>2. r \notin Listing
        BY <2>1, KindsDiffer
    <2>5. TypeOK /\ BoundInv /\ clears' \in Nat /\ clears <= clears'
        BY <1>1, <1>2
    <2>3. /\ flow' \in [Flow -> {Idle} \cup Listing \cup Pulling]
          /\ \A e \in Flow : flow'[e] \in Listing => flow'[e].clears <= clears'
          /\ \A e \in Flow : flow'[e] \in Pulling =>
                IsFiniteSet(flow'[e].page) /\ flow'[e].max \in Nat \cup {NoCursor}
        <3>1. r \in {Idle} \cup Listing \cup Pulling
            BY <2>1
        <3> QED BY <1>2, <2>1, <2>2, <2>5, <3>1, FlowUpdate, Zenon
    <2>4. TypeOK'
        BY <1>1, <1>3, <1>4, <2>3 DEF TypeOK
    <2>6. BoundInv'
        BY <1>1, <2>3 DEF BoundInv
    <2> QED BY <2>4, <2>6
<1>5. mirror \subseteq Message /\ cursor \in Nat \cup {NoCursor}
    BY DEF TypeOK
<1>6. CASE StartPull(f) \/ PullAfterReset(f)
    <2>1. IsFiniteSet(AskHistory.page)
        BY Asking, FS_EmptySet
    <2>2. flow' = [flow EXCEPT ![f] = AskHistory] /\ mirror' = mirror /\ cursor' = cursor
        BY <1>6 DEF StartPull, PullAfterReset, database
    <2> QED BY <1>5, <2>1, <2>2, Asking
<1>7. CASE ServeHistory(f)
    <2>0. PICK ties \in SUBSET Ties(f) :
              flow' = [flow EXCEPT ![f].pc = "history_got",
                           ![f].page = Oldest(After(flow[f].after) \cup ties, PageLimit)]
        BY <1>7 DEF ServeHistory
    <2> DEFINE rows == After(flow[f].after) \cup ties
               page == Oldest(rows, PageLimit)
               r == [flow[f] EXCEPT !.pc = "history_got", !.page = page]
    <2>1. flow[f] \in Pulling
        BY <1>7, FlowKinds DEF ServeHistory, PullingPc
    <2>2. rows \subseteq log
        BY DEF After, Ties
    <2>3. IsFiniteSet(page) /\ page \subseteq log /\ log \subseteq Message
        <3> HIDE DEF rows
        <3>1. IsFiniteSet(rows)
            BY <2>2, FS_Subset DEF BoundInv
        <3>2. log \subseteq Message
            BY DEF TypeOK
        <3> QED BY <2>2, <3>1, <3>2, OldestRows, PageAssumption
    <2>4. flow' = [flow EXCEPT ![f] = r] /\ mirror' = mirror /\ cursor' = cursor
        BY <1>7, <1>2, <2>0 DEF ServeHistory, database
    <2> HIDE DEF page
    <2>5. r \in Pulling /\ r.page = page /\ r.max = flow[f].max
        BY <2>1, <2>3 DEF Pulling
    <2>6. flow[f].max \in Nat \cup {NoCursor}
        BY <2>1 DEF BoundInv
    <2> HIDE DEF r
    <2> QED BY <1>5, <2>3, <2>4, <2>5, <2>6
<1>8. CASE ApplyPage(f)
    <2> DEFINE max == Max({flow[f].max} \cup {Millis(m) : m \in flow[f].page})
               next == [flow[f] EXCEPT !.pc = "history_asked", !.max = max, !.page = {},
                            !.after = NextPosition(f).after, !.exact = NextPosition(f).exact]
               last == [flow[f] EXCEPT !.pc = "saving", !.max = max, !.page = {}]
    <2>1. flow[f] \in Pulling
        BY <1>8, FlowKinds DEF ApplyPage, PullingPc
    <2>2. max \in Nat \cup {NoCursor}
        <3>1. flow[f].max \in Nat \cup {NoCursor}
            BY <2>1 DEF BoundInv
        <3>2. \A m \in flow[f].page : Millis(m) \in Nat
            BY <2>1, TextType DEF Pulling
        <3>3. max \in {flow[f].max} \cup {Millis(m) : m \in flow[f].page}
            BY <2>1, PageMax
        <3> HIDE DEF max
        <3> QED BY <3>1, <3>2, <3>3
    <2>3. \/ ~IsLastPage(f) /\ flow' = [flow EXCEPT ![f] = next]
          \/ flow' = [flow EXCEPT ![f] = last]
          \/ flow' = [flow EXCEPT ![f] = Idle]
        BY <1>8, <1>2, Zenon DEF ApplyPage
    <2> HIDE DEF max
    <2>4. ASSUME ~IsLastPage(f)
          PROVE  next \in Pulling /\ next.page = {} /\ next.max = max
        <3>1. NextPosition(f).after \in Int /\ NextPosition(f).exact = TRUE
            BY <2>1, <2>4, PageEnd DEF NextPosition
        <3>2. max \in Int
            BY <2>2 DEF NoCursor
        <3> QED BY <2>1, <3>1, <3>2 DEF Pulling
    <2>5. last \in Pulling /\ last.page = {} /\ last.max = max
        <3>1. max \in Int
            BY <2>2 DEF NoCursor
        <3> QED BY <2>1, <3>1 DEF Pulling
    <2>6. mirror' \subseteq Message /\ cursor' = cursor
        BY <1>5, <1>8, <2>1 DEF ApplyPage, Pulling
    <2> HIDE DEF next, last
    <2> QED BY <1>5, <2>2, <2>3, <2>4, <2>5, <2>6, FS_EmptySet, KindsDiffer
<1>9. CASE SaveCursor(f)
    <2>1. flow[f] \in Pulling
        BY <1>9, FlowKinds DEF SaveCursor, PullingPc
    <2>2. cursor' \in Nat \cup {NoCursor} /\ mirror' = mirror
        BY <1>9, <2>1 DEF SaveCursor, BoundInv
    <2>3. flow' = [flow EXCEPT ![f] = Idle]
        BY <1>9 DEF SaveCursor
    <2> QED BY <1>5, <2>2, <2>3, KindsDiffer
<1> QED BY <1>6, <1>7, <1>8, <1>9 DEF PullStep

LEMMA ListTypeStep ==
    ASSUME TypeInv, NEW f \in Flow,
           \/ StartList(f) \/ ServeList(f) \/ CompareClears(f) \/ DeleteMirror(f)
           \/ ClearWatermark(f) \/ UpsertChannel(f)
    PROVE  TypeInv'
<1> USE DEF TypeInv
<1>1. /\ clears' = clears /\ log' = log /\ saving' = saving /\ clock' = clock /\ events' = events
      /\ mirror' \in {mirror, {}}
      /\ cursor' \in {cursor, NoCursor}
      /\ (appliedClears' = appliedClears
            \/ (appliedClears' = flow[f].clears /\ flow[f] \in Listing))
      /\ overlapped' \in {overlapped, overlapped \/ Overlaps(f)}
      /\ (pulls' = pulls \/ (pulls' = pulls + 1 /\ pulls < MaxPulls))
    <2>1. flow[f].pc \in {"unmarking", "upserting"} => flow[f] \in Listing
        BY FlowKinds DEF ListingPc
    <2>2. CASE StartList(f) \/ ServeList(f) \/ CompareClears(f)
        BY <2>2 DEF StartList, ServeList, CompareClears, server, database
    <2>3. CASE DeleteMirror(f)
        BY <2>3 DEF DeleteMirror, server
    <2>4. CASE ClearWatermark(f)
        BY <2>1, <2>4 DEF ClearWatermark, server
    <2>5. CASE UpsertChannel(f)
        BY <2>1, <2>5 DEF UpsertChannel, server
    <2> QED BY <2>2, <2>3, <2>4, <2>5
<1>2. clears \in Nat /\ flow \in [Flow -> {Idle} \cup Listing \cup Pulling]
    BY DEF TypeOK
<1>3. pulls' \in 0..MaxPulls
    BY <1>1, BoundAssumption DEF TypeOK
<1>4. mirror' \subseteq Message /\ cursor' \in Nat \cup {NoCursor} /\ overlapped' \in BOOLEAN
    BY <1>1 DEF TypeOK, Overlaps
<1>5. appliedClears' \in 0..clears
    BY <1>1 DEF TypeOK, BoundInv, Listing
<1>6. SUFFICES
         \E r : /\ flow' = [flow EXCEPT ![f] = r]
                /\ r \in {Idle} \cup Listing
                /\ r \in Listing => r.clears <= clears
    <2>1. PICK r : /\ flow' = [flow EXCEPT ![f] = r]
                   /\ r \in {Idle} \cup Listing
                   /\ r \in Listing => r.clears <= clears'
        BY <1>6, <1>1
    <2>2. r \notin Pulling
        BY <2>1, KindsDiffer
    <2>3. TypeOK /\ BoundInv /\ clears' \in Nat /\ clears <= clears'
        BY <1>1, <1>2
    <2>4. /\ flow' \in [Flow -> {Idle} \cup Listing \cup Pulling]
          /\ \A e \in Flow : flow'[e] \in Listing => flow'[e].clears <= clears'
          /\ \A e \in Flow : flow'[e] \in Pulling =>
                IsFiniteSet(flow'[e].page) /\ flow'[e].max \in Nat \cup {NoCursor}
        <3>1. r \in {Idle} \cup Listing \cup Pulling
            BY <2>1
        <3> QED BY <1>2, <2>1, <2>2, <2>3, <3>1, FlowUpdate, Zenon
    <2>5. TypeOK'
        BY <1>1, <1>3, <1>4, <1>5, <2>4 DEF TypeOK
    <2>6. BoundInv'
        BY <1>1, <2>4 DEF BoundInv
    <2> QED BY <2>5, <2>6
<1>8. flow[f] \in Listing => flow[f].clears <= clears
    BY DEF BoundInv
<1>9. CASE StartList(f)
    <2> DEFINE r == [pc |-> "list_asked", clears |-> 0, reset |-> FALSE]
    <2>1. r \in Listing /\ r.clears <= clears
        BY <1>2 DEF Listing
    <2>2. flow' = [flow EXCEPT ![f] = r]
        BY <1>9 DEF StartList
    <2> QED BY <2>1, <2>2
<1>10. CASE ServeList(f)
    <2>1. flow[f] \in Listing
        BY <1>10, FlowKinds DEF ServeList, ListingPc
    <2> DEFINE r == [flow[f] EXCEPT !.pc = "list_got", !.clears = clears]
    <2>2. flow' = [flow EXCEPT ![f] = r]
        BY <1>2, <1>10 DEF ServeList
    <2>3. r \in Listing /\ r.clears = clears
        BY <1>2, <2>1 DEF Listing
    <2>4. clears <= clears
        BY <1>2
    <2> HIDE DEF r
    <2> QED BY <2>2, <2>3, <2>4
<1>11. CASE CompareClears(f)
    <2>1. flow[f] \in Listing
        BY <1>11, FlowKinds DEF CompareClears, ListingPc
    <2>2. CASE flow[f].clears > appliedClears
        <3> DEFINE r == [flow[f] EXCEPT !.pc = "deleting", !.reset = TRUE]
        <3>1. flow' = [flow EXCEPT ![f] = r]
            BY <1>2, <1>11, <2>2 DEF CompareClears
        <3>2. r \in Listing /\ r.clears = flow[f].clears
            BY <2>1 DEF Listing
        <3> HIDE DEF r
        <3> QED BY <1>8, <2>1, <3>1, <3>2
    <2>3. CASE ~(flow[f].clears > appliedClears)
        <3> DEFINE r == [flow[f] EXCEPT !.pc = "upserting", !.clears = appliedClears]
        <3>1. flow' = [flow EXCEPT ![f] = r]
            BY <1>2, <1>11, <2>3 DEF CompareClears
        <3>2. appliedClears \in Nat /\ appliedClears <= clears
            BY DEF TypeOK
        <3>3. r \in Listing /\ r.clears = appliedClears
            BY <2>1, <3>2 DEF Listing
        <3> HIDE DEF r
        <3> QED BY <3>1, <3>2, <3>3
    <2> QED BY <2>2, <2>3
<1>12. ASSUME NEW pc \in ListingPc, flow[f] \in Listing, flow' = [flow EXCEPT ![f].pc = pc]
       PROVE  \E r : /\ flow' = [flow EXCEPT ![f] = r]
                     /\ r \in {Idle} \cup Listing
                     /\ r \in Listing => r.clears <= clears
    <2> DEFINE r == [flow[f] EXCEPT !.pc = pc]
    <2>1. flow' = [flow EXCEPT ![f] = r]
        BY <1>2, <1>12
    <2>2. r \in Listing /\ r.clears = flow[f].clears
        BY <1>12 DEF Listing, ListingPc
    <2> HIDE DEF r
    <2> QED BY <1>8, <1>12, <2>1, <2>2
<1>13. CASE DeleteMirror(f)
    <2>1. flow[f] \in Listing
        BY <1>13, FlowKinds DEF DeleteMirror, ListingPc
    <2>2. flow' = [flow EXCEPT ![f].pc = "unmarking"] /\ "unmarking" \in ListingPc
        BY <1>13 DEF DeleteMirror, ListingPc
    <2> QED BY <1>12, <2>1, <2>2
<1>14. CASE ClearWatermark(f)
    <2>1. flow[f] \in Listing
        BY <1>14, FlowKinds DEF ClearWatermark, ListingPc
    <2>2. flow' = [flow EXCEPT ![f].pc = "upserting"] /\ "upserting" \in ListingPc
        BY <1>14 DEF ClearWatermark, ListingPc
    <2> QED BY <1>12, <2>1, <2>2
<1>15. CASE UpsertChannel(f)
    <2>1. flow[f] \in Listing
        BY <1>15, FlowKinds DEF UpsertChannel, ListingPc
    <2>2. CASE flow[f].reset
        <3>1. flow' = [flow EXCEPT ![f].pc = "resuming"] /\ "resuming" \in ListingPc
            BY <1>2, <1>15, <2>2 DEF UpsertChannel, ListingPc
        <3> QED BY <1>12, <2>1, <3>1
    <2>3. CASE ~flow[f].reset
        <3>1. flow' = [flow EXCEPT ![f] = Idle]
            BY <1>2, <1>15, <2>3 DEF UpsertChannel
        <3> QED BY <3>1, KindsDiffer
    <2> QED BY <2>2, <2>3
<1> QED BY <1>9, <1>10, <1>11, <1>13, <1>14, <1>15

LEMMA DisturbedTypeStep ==
    ASSUME TypeInv, AppKilled \/ \E f \in Flow : RequestTimeout(f)
    PROVE  TypeInv'
<1> USE DEF TypeInv
<1>1. /\ events' \in 0..MaxEvents
      /\ UNCHANGED <<server, database, pulls, overlapped>>
    BY BoundAssumption DEF AppKilled, RequestTimeout, Disturb, TypeOK
<1>2. flow \in [Flow -> {Idle} \cup Listing \cup Pulling]
    BY DEF TypeOK
<1>3. \A e \in Flow : flow'[e] = Idle \/ flow'[e] = flow[e]
    BY <1>2 DEF AppKilled, RequestTimeout
<1>4. flow' \in [Flow -> {Idle} \cup Listing \cup Pulling]
    BY <1>2 DEF AppKilled, RequestTimeout
<1>5. TypeOK'
    BY <1>1, <1>4 DEF TypeOK, server, database
<1>6. BoundInv'
    BY <1>1, <1>3, KindsDiffer, Zenon DEF BoundInv, server, database
<1> QED BY <1>5, <1>6

LEMMA TypeStep == TypeInv /\ [Next]_vars => TypeInv'
<1> SUFFICES ASSUME TypeInv, [Next]_vars PROVE TypeInv'
    OBVIOUS
<1>1. CASE UNCHANGED vars
    BY <1>1 DEF vars, TypeInv, TypeOK, BoundInv
<1> QED BY <1>1, ServerTypeStep, PullTypeStep, ListTypeStep, DisturbedTypeStep
        DEF Next, PullStep, ListStep

LEMMA HistoryInit == Init => TypeInv
<1> SUFFICES ASSUME Init PROVE TypeInv
    OBVIOUS
<1>1. Cardinality({}) <= Threads /\ 0 \in 0..MaxPulls
      /\ 0 \in 0..MaxEvents /\ 0 \in 0..0
    BY FS_EmptySet, BoundAssumption, ThreadAssumption
<1>2. flow \in [Flow -> {Idle} \cup Listing \cup Pulling]
    BY DEF Init
<1>3. TypeOK
    BY <1>1, <1>2 DEF Init, TypeOK
<1>4. BoundInv
    BY FS_EmptySet, KindsDiffer DEF Init, BoundInv
<1> QED BY <1>3, <1>4 DEF TypeInv

\* Every variable of the server, of the device's database and of its flows keeps
\* its type: no flow and no device carries a clear the server has not counted,
\* and never more messages are being saved than there are worker threads
\* (message_store.py, message_history_sync.dart).
THEOREM HistoryTypeCorrect == Spec => []TypeOK
<1>1. Init => TypeInv
    BY HistoryInit
<1>2. TypeInv /\ [Next]_vars => TypeInv'
    BY TypeStep
<1>3. TypeInv => TypeOK
    BY DEF TypeInv
<1> QED BY <1>1, <1>2, <1>3, PTL DEF Spec

-----------------------------------------------------------------------------
(* What a step does to a pull *)

\* The flow keeps what it asked for and from where.
SamePull(f) ==
    /\ flow'[f].asked = flow[f].asked
    /\ flow'[f].after = flow[f].after /\ flow'[f].exact = flow[f].exact

AppliedMax(f) == Max({flow[f].max} \cup {Millis(m) : m \in flow[f].page})

\* The answer comes in: the page, and nothing else.
Serves(f) ==
    /\ ServeHistory(f) /\ Pulls(f) /\ SamePull(f)
    /\ flow'[f].pc = "history_got" /\ flow'[f].max = flow[f].max
    /\ \E ties \in SUBSET Ties(f) :
          flow'[f].page = Oldest(After(flow[f].after) \cup ties, PageLimit)

\* A full page is applied, and the next one asked for.
Continues(f) ==
    /\ ApplyPage(f) /\ Pulls(f) /\ ~IsLastPage(f)
    /\ flow'[f].pc = "history_asked" /\ flow'[f].page = {}
    /\ flow'[f].max = AppliedMax(f) /\ flow'[f].asked = flow[f].asked
    /\ flow'[f].after = NextPosition(f).after /\ flow'[f].exact = TRUE

\* The last page is applied.
Completes(f) ==
    /\ ApplyPage(f) /\ Pulls(f) /\ IsLastPage(f) /\ SamePull(f)
    /\ flow'[f].pc = "saving" /\ flow'[f].page = {} /\ flow'[f].max = AppliedMax(f)

\* A flow that pulls after a step has just begun, is as it was, or made one of
\* the three steps above.
LEMMA PullerStep ==
    ASSUME TypeInv, [Next]_vars, NEW f \in Flow, Pulls(f)'
    PROVE  \/ flow'[f] = AskHistory /\ UNCHANGED <<server, database, overlapped>>
           \/ flow'[f] = flow[f] /\ Pulls(f)
           \/ Serves(f) \/ Continues(f) \/ Completes(f)
<1> DEFINE Goal == \/ flow'[f] = AskHistory /\ UNCHANGED <<server, database, overlapped>>
                   \/ flow'[f] = flow[f] /\ Pulls(f)
                   \/ Serves(f) \/ Continues(f) \/ Completes(f)
<1>1. flow \in [Flow -> {Idle} \cup Listing \cup Pulling]
    BY DEF TypeInv, TypeOK
<1>2. flow'[f].pc \in PullingPc
    BY DEF Pulls, PullingPc
<1>3. flow'[f] # Idle
    BY <1>2 DEF Idle, PullingPc
<1>4. CASE flow'[f] = flow[f]
    BY <1>2, <1>4 DEF Pulls, PullingPc
<1>5. ASSUME NEW e \in Flow, NEW r, flow' = [flow EXCEPT ![e] = r], e # f PROVE Goal
    BY <1>1, <1>4, <1>5
<1>6. ASSUME NEW e \in Flow, ServeHistory(e) PROVE Goal
    <2>0. PICK ties \in SUBSET Ties(e) :
              flow' = [flow EXCEPT ![e].pc = "history_got",
                           ![e].page = Oldest(After(flow[e].after) \cup ties, PageLimit)]
        BY <1>6 DEF ServeHistory
    <2> DEFINE page == Oldest(After(flow[e].after) \cup ties, PageLimit)
               r == [flow[e] EXCEPT !.pc = "history_got", !.page = page]
    <2>1. flow[e] \in Pulling /\ flow[e].pc = "history_asked"
        BY <1>6, FlowKinds DEF ServeHistory, TypeInv, PullingPc
    <2>2. flow' = [flow EXCEPT ![e] = r]
        BY <1>1, <2>0
    <2>3. CASE e # f
        BY <1>5, <2>2, <2>3
    <2>4. CASE e = f
        <3> HIDE DEF page
        <3>1. flow'[f] = r
            BY <1>1, <2>2, <2>4
        <3>2. /\ r.pc = "history_got" /\ r.page = page /\ r.max = flow[f].max
              /\ r.asked = flow[f].asked /\ r.after = flow[f].after /\ r.exact = flow[f].exact
            BY <2>1, <2>4 DEF Pulling
        <3> HIDE DEF r
        <3>3. Serves(f)
            BY <1>6, <2>1, <2>4, <3>1, <3>2 DEF Serves, SamePull, Pulls, page
        <3> QED BY <3>3
    <2> QED BY <2>3, <2>4
<1>7. ASSUME NEW e \in Flow, ApplyPage(e) PROVE Goal
    <2> DEFINE max == AppliedMax(e)
               next == [flow[e] EXCEPT !.pc = "history_asked", !.max = max, !.page = {},
                            !.after = NextPosition(e).after, !.exact = NextPosition(e).exact]
               last == [flow[e] EXCEPT !.pc = "saving", !.max = max, !.page = {}]
    <2>1. flow[e] \in Pulling /\ flow[e].pc = "history_got"
        BY <1>7, FlowKinds DEF ApplyPage, TypeInv, PullingPc
    <2>2. \/ ~IsLastPage(e) /\ flow' = [flow EXCEPT ![e] = next]
          \/ IsLastPage(e) /\ flow' = [flow EXCEPT ![e] = last]
          \/ flow' = [flow EXCEPT ![e] = Idle]
        BY <1>7, <1>1, Zenon DEF ApplyPage, AppliedMax
    <2>3. CASE e # f
        BY <1>5, <2>2, <2>3
    <2>4. CASE e = f
        <3> HIDE DEF max
        <3>1. flow'[f] = Idle => Goal
            BY <1>3
        <3>2. ASSUME ~IsLastPage(f), flow'[f] = next PROVE Goal
            <4>1. NextPosition(f).exact = TRUE
                BY DEF NextPosition
            <4>2. /\ next.pc = "history_asked" /\ next.page = {} /\ next.max = max
                  /\ next.asked = flow[f].asked
                  /\ next.after = NextPosition(f).after /\ next.exact = NextPosition(f).exact
                BY <2>1, <2>4 DEF Pulling
            <4> HIDE DEF next
            <4> QED BY <1>7, <2>1, <2>4, <3>2, <4>1, <4>2 DEF Continues, Pulls, max
        <3>3. ASSUME IsLastPage(f), flow'[f] = last PROVE Goal
            <4>1. /\ last.pc = "saving" /\ last.page = {} /\ last.max = max
                  /\ last.asked = flow[f].asked
                  /\ last.after = flow[f].after /\ last.exact = flow[f].exact
                BY <2>1, <2>4 DEF Pulling
            <4> HIDE DEF last
            <4> QED BY <1>7, <2>1, <2>4, <3>3, <4>1 DEF Completes, SamePull, Pulls, max
        <3> HIDE DEF next, last, Goal
        <3>4. \/ ~IsLastPage(f) /\ flow'[f] = next
              \/ IsLastPage(f) /\ flow'[f] = last
              \/ flow'[f] = Idle
            BY <1>1, <2>2, <2>4
        <3> QED BY <3>1, <3>2, <3>3, <3>4
    <2> QED BY <2>3, <2>4
<1>8. ASSUME NEW e \in Flow, StartPull(e) \/ PullAfterReset(e) PROVE Goal
    BY <1>1, <1>5, <1>8 DEF StartPull, PullAfterReset
<1>9. ASSUME NEW e \in Flow, SaveCursor(e) \/ RequestTimeout(e) PROVE Goal
    BY <1>1, <1>3, <1>5, <1>9 DEF SaveCursor, RequestTimeout
<1>10. ASSUME NEW e \in Flow,
              \/ StartList(e) \/ ServeList(e) \/ CompareClears(e) \/ DeleteMirror(e)
              \/ ClearWatermark(e) \/ UpsertChannel(e)
       PROVE Goal
    <2>1. e = f => flow'[f].pc \in ListingPc \cup {"idle"}
        <3>1. flow[e].pc \in ListingPc => flow[e] \in Listing
            BY FlowKinds DEF TypeInv
        <3>2. \A r \in Listing, pc \in ListingPc : [r EXCEPT !.pc = pc].pc = pc
            BY DEF Listing
        <3>3. CASE StartList(e)
            BY <1>1, <3>3 DEF StartList, ListingPc
        <3>4. CASE ServeList(e)
            BY <1>1, <3>1, <3>4 DEF ServeList, ListingPc, Listing
        <3>5. CASE CompareClears(e)
            BY <1>1, <3>1, <3>5 DEF CompareClears, ListingPc, Listing
        <3>6. CASE DeleteMirror(e)
            BY <1>1, <3>1, <3>2, <3>6 DEF DeleteMirror, ListingPc
        <3>7. CASE ClearWatermark(e)
            BY <1>1, <3>1, <3>2, <3>7 DEF ClearWatermark, ListingPc
        <3>8. CASE UpsertChannel(e)
            BY <1>1, <3>1, <3>2, <3>8 DEF UpsertChannel, ListingPc, Idle
        <3> QED BY <1>10, <3>3, <3>4, <3>5, <3>6, <3>7, <3>8
    <2>2. e = f => FALSE
        BY <1>2, <2>1 DEF ListingPc, PullingPc
    <2>3. e # f => flow'[f] = flow[f]
        BY <1>1, <1>10 DEF StartList, ServeList, CompareClears, DeleteMirror,
           ClearWatermark, UpsertChannel
    <2> QED BY <1>4, <2>2, <2>3
<1>11. CASE AppKilled
    BY <1>3, <1>11 DEF AppKilled
<1>12. CASE StampMessage \/ InsertMessage \/ ClearMessages \/ UNCHANGED vars
    BY <1>4, <1>12 DEF StampMessage, InsertMessage, ClearMessages, vars
<1>13. ASSUME NEW e \in Flow,
              StartPull(e) \/ StartList(e) \/ PullStep(e) \/ ListStep(e) \/ RequestTimeout(e)
       PROVE  Goal
    BY <1>13, <1>6, <1>7, <1>8, <1>9, <1>10, Zenon DEF PullStep, ListStep
<1>14. CASE Next
    BY <1>14, <1>11, <1>12, <1>13, Zenon DEF Next
<1> QED BY <1>12, <1>14

-----------------------------------------------------------------------------
(* What a step does to a reset and to the database *)

\* A flow that is between the two writes of its reset, or about to write its
\* row, is as it was or has just got there.
LEMMA ResetStep ==
    ASSUME TypeInv, [Next]_vars, NEW f \in Flow, InReset(f)' \/ Writes(f)'
    PROVE  \/ flow'[f] = flow[f] /\ ((InReset(f) /\ InReset(f)') \/ (Writes(f) /\ Writes(f)'))
           \/ DeleteMirror(f) /\ InReset(f)' /\ flow'[f].clears = flow[f].clears
           \/ ClearWatermark(f) /\ Writes(f)' /\ flow'[f].clears = flow[f].clears
           \/ CompareClears(f) /\ Writes(f)' /\ flow'[f].clears = appliedClears
<1> DEFINE
      Goal == \/ flow'[f] = flow[f] /\ ((InReset(f) /\ InReset(f)') \/ (Writes(f) /\ Writes(f)'))
              \/ DeleteMirror(f) /\ InReset(f)' /\ flow'[f].clears = flow[f].clears
              \/ ClearWatermark(f) /\ Writes(f)' /\ flow'[f].clears = flow[f].clears
              \/ CompareClears(f) /\ Writes(f)' /\ flow'[f].clears = appliedClears
<1>1. flow \in [Flow -> {Idle} \cup Listing \cup Pulling]
    BY DEF TypeInv, TypeOK
<1>2. flow'[f].pc \in {"unmarking", "upserting"}
    BY DEF InReset, Writes
<1>3. flow'[f] # Idle
    BY <1>2 DEF Idle
<1>4. CASE flow'[f] = flow[f]
    BY <1>2, <1>4 DEF InReset, Writes
<1>5. ASSUME NEW e \in Flow, e # f,
             \/ StartPull(e) \/ StartList(e) \/ PullStep(e) \/ ListStep(e) \/ RequestTimeout(e)
      PROVE  flow'[f] = flow[f]
    BY <1>1, <1>5 DEF StartPull, StartList, PullStep, ListStep, RequestTimeout, ServeHistory,
       ApplyPage, SaveCursor, ServeList, CompareClears, DeleteMirror, ClearWatermark,
       UpsertChannel, PullAfterReset
<1>6. flow[f].pc \in ListingPc => flow[f] \in Listing
    BY FlowKinds DEF TypeInv
<1>7. \A r \in Listing, pc \in ListingPc :
         [r EXCEPT !.pc = pc].pc = pc /\ [r EXCEPT !.pc = pc].clears = r.clears
    BY DEF Listing
<1>8. CASE StartPull(f) \/ StartList(f) \/ PullAfterReset(f)
    BY <1>1, <1>2, <1>8 DEF StartPull, StartList, PullAfterReset, AskHistory
<1>9. CASE PullStep(f)
    <2>1. flow[f] \in Pulling
        BY <1>9, FlowKinds
           DEF PullStep, ServeHistory, ApplyPage, SaveCursor, TypeInv, PullingPc
    <2>2. flow'[f].pc \in {"history_asked", "history_got", "saving", "idle"}
        <3>1. CASE ServeHistory(f)
            BY <1>1, <2>1, <3>1 DEF ServeHistory, Pulling
        <3>2. CASE ApplyPage(f)
            BY <1>1, <2>1, <3>2 DEF ApplyPage, Pulling, Idle
        <3>3. CASE SaveCursor(f)
            BY <1>1, <3>3 DEF SaveCursor, Idle
        <3> QED BY <1>9, <3>1, <3>2, <3>3 DEF PullStep
    <2> QED BY <1>2, <2>2
<1>10. CASE ServeList(f)
    BY <1>1, <1>2, <1>6, <1>10 DEF ServeList, ListingPc, Listing
<1>11. CASE CompareClears(f)
    <2>1. flow[f] \in Listing
        BY <1>6, <1>11 DEF CompareClears, ListingPc
    <2>2. CASE flow[f].clears > appliedClears
        BY <1>1, <1>2, <1>11, <2>1, <2>2 DEF CompareClears, Listing
    <2>3. CASE ~(flow[f].clears > appliedClears)
        BY <1>1, <1>11, <2>1, <2>3 DEF CompareClears, Listing, Writes
    <2> QED BY <2>2, <2>3
<1>12. CASE DeleteMirror(f)
    BY <1>1, <1>6, <1>7, <1>12 DEF DeleteMirror, ListingPc, InReset
<1>13. CASE ClearWatermark(f)
    BY <1>1, <1>6, <1>7, <1>13 DEF ClearWatermark, ListingPc, Writes
<1>14. CASE UpsertChannel(f)
    BY <1>1, <1>2, <1>3, <1>6, <1>7, <1>14 DEF UpsertChannel, ListingPc
<1>15. CASE RequestTimeout(f)
    BY <1>1, <1>3, <1>15 DEF RequestTimeout
<1>16. CASE AppKilled
    BY <1>3, <1>16 DEF AppKilled
<1>17. CASE StampMessage \/ InsertMessage \/ ClearMessages \/ UNCHANGED vars
    BY <1>4, <1>17 DEF StampMessage, InsertMessage, ClearMessages, vars
<1>18. ASSUME NEW e \in Flow,
              StartPull(e) \/ StartList(e) \/ PullStep(e) \/ ListStep(e) \/ RequestTimeout(e)
       PROVE  Goal
    <2>1. CASE e # f
        BY <1>4, <1>5, <1>18, <2>1
    <2>2. CASE e = f
        BY <1>18, <2>2, <1>8, <1>9, <1>10, <1>11, <1>12, <1>13, <1>14, <1>15, Zenon DEF ListStep
    <2> QED BY <2>1, <2>2
<1>19. CASE Next
    BY <1>19, <1>16, <1>17, <1>18, Zenon DEF Next
<1> QED BY <1>17, <1>19

\* The mirror, the cursor and the applied clears change in these steps only.
LEMMA DatabaseStep ==
    ASSUME [Next]_vars
    PROVE  \/ UNCHANGED database
           \/ \E e \in Flow : ApplyPage(e) \/ SaveCursor(e) \/ DeleteMirror(e)
                                 \/ ClearWatermark(e) \/ UpsertChannel(e)
<1>1. CASE UNCHANGED vars
    BY <1>1 DEF vars, database
<1>2. CASE StampMessage \/ InsertMessage \/ ClearMessages \/ AppKilled
    BY <1>2 DEF StampMessage, InsertMessage, ClearMessages, AppKilled
<1>3. ASSUME NEW e \in Flow,
             \/ StartPull(e) \/ StartList(e) \/ ServeHistory(e) \/ ServeList(e)
             \/ CompareClears(e) \/ PullAfterReset(e) \/ RequestTimeout(e)
      PROVE  UNCHANGED database
    BY <1>3 DEF StartPull, StartList, ServeHistory, ServeList, CompareClears, PullAfterReset,
       RequestTimeout
<1>4. CASE Next
    BY <1>2, <1>3, <1>4, Zenon DEF Next, PullStep, ListStep
<1> QED BY <1>1, <1>4

\* The server's variables change in these steps only, which leave the device alone.
LEMMA ServerStep ==
    ASSUME [Next]_vars
    PROVE  \/ UNCHANGED server
           \/ /\ StampMessage \/ InsertMessage \/ ClearMessages
              /\ UNCHANGED <<database, flow, overlapped>>
<1>1. CASE UNCHANGED vars
    BY <1>1 DEF vars, server
<1>2. CASE StampMessage \/ InsertMessage \/ ClearMessages
    BY <1>2 DEF StampMessage, InsertMessage, ClearMessages, database
<1>3. CASE AppKilled
    BY <1>3 DEF AppKilled
<1>4. ASSUME NEW e \in Flow,
             StartPull(e) \/ StartList(e) \/ PullStep(e) \/ ListStep(e) \/ RequestTimeout(e)
      PROVE  UNCHANGED server
    BY <1>4 DEF StartPull, StartList, PullStep, ListStep, RequestTimeout, ServeHistory,
       ApplyPage, SaveCursor, ServeList, CompareClears, DeleteMirror, ClearWatermark,
       UpsertChannel, PullAfterReset
<1>5. CASE Next
    BY <1>2, <1>3, <1>4, <1>5, Zenon DEF Next
<1> QED BY <1>1, <1>5

\* Once a reset has overlapped, it stays noted.
LEMMA OverlapStays == [Next]_vars /\ overlapped => overlapped'
<1> SUFFICES ASSUME [Next]_vars, overlapped PROVE overlapped'
    OBVIOUS
<1>1. CASE UNCHANGED vars
    BY <1>1 DEF vars
<1>2. CASE StampMessage \/ InsertMessage \/ ClearMessages \/ AppKilled
    BY <1>2 DEF StampMessage, InsertMessage, ClearMessages, AppKilled
<1>3. ASSUME NEW e \in Flow,
             StartPull(e) \/ StartList(e) \/ PullStep(e) \/ ListStep(e) \/ RequestTimeout(e)
      PROVE  overlapped'
    BY <1>3 DEF StartPull, StartList, PullStep, ListStep, RequestTimeout, ServeHistory,
       ApplyPage, SaveCursor, ServeList, CompareClears, DeleteMirror, ClearWatermark,
       UpsertChannel, PullAfterReset
<1>4. CASE Next
    BY <1>2, <1>3, <1>4, Zenon DEF Next
<1> QED BY <1>1, <1>4

-----------------------------------------------------------------------------
(* The server's rows *)

LEMMA StampsGrow == ASSUME TypeInv, [Next]_vars PROVE Stamps \subseteq Stamps'
<1>1. clock \in Nat /\ \A at \in Times : at \in Nat
    BY TimeAssumption DEF TypeInv, TypeOK
<1>2. clock' = clock \/ \E at \in Times : at > clock /\ clock' = at
    BY ServerStep DEF server, StampMessage, InsertMessage, ClearMessages
<1> QED BY <1>1, <1>2 DEF Stamps

\* A worker's new time was given out to nobody before.
LEMMA FreshStamp ==
    ASSUME TypeInv, StampMessage
    PROVE  \E at : /\ saving' = saving \cup {at} /\ at \notin Stamps /\ at \in Stamps'
<1>1. clock \in Nat /\ \A at \in Times : at \in Nat
    BY TimeAssumption DEF TypeInv, TypeOK
<1> QED BY <1>1 DEF StampMessage, Stamps

LEMMA LogStep == TypeInv /\ LogInv /\ [Next]_vars => LogInv'
<1> SUFFICES ASSUME TypeInv, LogInv, [Next]_vars PROVE LogInv'
    OBVIOUS
<1>1. CASE UNCHANGED server
    BY <1>1 DEF server, LogInv, Stamps
<1>2. CASE StampMessage
    <2>1. PICK at : /\ saving' = saving \cup {at} /\ at \notin Stamps /\ at \in Stamps'
        BY <1>2, FreshStamp
    <2>2. log' = log /\ clears' = clears
        BY <1>2 DEF StampMessage
    <2>3. Stamps \subseteq Stamps'
        BY StampsGrow
    <2> QED BY <2>1, <2>2, <2>3 DEF LogInv
<1>3. CASE InsertMessage
    <2>1. PICK at \in saving :
              /\ saving' = saving \ {at}
              /\ log' = log \cup {[at |-> at, clears |-> clears, late |-> IsLate(at)]}
        BY <1>3 DEF InsertMessage
    <2>2. Stamps' = Stamps /\ clears' = clears
        BY <1>3 DEF InsertMessage, Stamps
    <2> DEFINE new == [at |-> at, clears |-> clears, late |-> IsLate(at)]
    <2>3. new.at = at /\ new.clears = clears /\ log' = log \cup {new}
        BY <2>1
    <2> HIDE DEF new
    <2> QED BY <2>1, <2>2, <2>3 DEF LogInv
<1>4. CASE ClearMessages
    <2>1. log' = {} /\ saving' = saving /\ Stamps' = Stamps
        BY <1>4 DEF ClearMessages, Stamps
    <2> QED BY <2>1 DEF LogInv
<1> QED BY <1>1, <1>2, <1>3, <1>4, ServerStep

LEMMA SeenStep == TypeInv /\ LogInv /\ SeenInv /\ [Next]_vars => SeenInv'
<1> SUFFICES ASSUME TypeInv, LogInv, SeenInv, [Next]_vars,
                    NEW f \in Flow, Pulls(f)', NEW m \in flow'[f].asked
             PROVE  m.at \in (Stamps \ saving)'
    BY DEF SeenInv
<1>1. m.at \in Stamps \ saving
    <2>1. CASE flow'[f] = AskHistory
        BY <2>1 DEF AskHistory, LogInv
    <2>2. CASE Pulls(f) /\ flow'[f].asked = flow[f].asked
        BY <2>2 DEF SeenInv
    <2> QED BY <2>1, <2>2, PullerStep DEF Serves, Continues, Completes, SamePull
<1>2. m.at \in Stamps'
    BY <1>1, StampsGrow
<1>3. \A x \in saving' : x \in saving \/ x \notin Stamps
    BY ServerStep, FreshStamp DEF server, StampMessage, InsertMessage, ClearMessages
<1> QED BY <1>1, <1>2, <1>3

-----------------------------------------------------------------------------
(* No ghosts *)

\* What is free of messages from before clear c stays so: new pages come from
\* rows inserted since the last clear.
LEMMA PurgedStep ==
    ASSUME TypeInv, LogInv, [Next]_vars, NEW c \in Nat, c <= clears, Purged(c)
    PROVE  Purged(c)'
<1>1. Since(log, c)
    BY DEF LogInv, Since
<1>2. Since(mirror', c)
    <2>1. CASE mirror' = mirror
        BY <2>1 DEF Purged
    <2>2. ASSUME NEW e \in Flow, ApplyPage(e) PROVE Since(mirror', c)
        BY <2>2 DEF ApplyPage, Purged, Since, Pulls
    <2>3. ASSUME NEW e \in Flow, DeleteMirror(e) PROVE Since(mirror', c)
        BY <2>3 DEF DeleteMirror, Since
    <2>4. ASSUME NEW e \in Flow, SaveCursor(e) \/ ClearWatermark(e) \/ UpsertChannel(e)
          PROVE  mirror' = mirror
        BY <2>4 DEF SaveCursor, ClearWatermark, UpsertChannel
    <2> QED BY <2>1, <2>2, <2>3, <2>4, DatabaseStep DEF database
<1>3. ASSUME NEW f \in Flow, Pulls(f)' PROVE Since(flow'[f].page, c)
    <2>1. CASE flow'[f] = AskHistory
        BY <2>1 DEF AskHistory, Since
    <2>2. CASE flow'[f] = flow[f] /\ Pulls(f)
        BY <2>2 DEF Purged
    <2>3. CASE Serves(f)
        BY <1>1, <2>3 DEF Serves, Oldest, After, Ties, Since
    <2>4. CASE Continues(f) \/ Completes(f)
        BY <2>4 DEF Continues, Completes, Since
    <2> QED BY <1>3, <2>1, <2>2, <2>3, <2>4, PullerStep
<1> QED BY <1>2, <1>3 DEF Purged, Since

\* The clears a reset carries are a number the server has counted.
LEMMA ResetBound ==
    ASSUME TypeInv
    PROVE  /\ appliedClears \in Nat /\ clears \in Nat /\ appliedClears <= clears
           /\ \A f \in Flow : InReset(f) \/ Writes(f) =>
                 flow[f].clears \in Nat /\ flow[f].clears <= clears
<1>1. ASSUME NEW f \in Flow, InReset(f) \/ Writes(f) PROVE flow[f] \in Listing
    BY <1>1, FlowKinds DEF TypeInv, InReset, Writes, ListingPc
<1>2. \A r \in Listing : r.clears \in Nat
    BY DEF Listing
<1>3. appliedClears \in Nat /\ clears \in Nat /\ appliedClears <= clears
    BY DEF TypeInv, TypeOK
<1> QED BY <1>1, <1>2, <1>3 DEF TypeInv, BoundInv

LEMMA ResetInvStep == TypeInv /\ LogInv /\ ResetInv /\ [Next]_vars => ResetInv'
<1> SUFFICES ASSUME TypeInv, LogInv, ResetInv, [Next]_vars, ~overlapped'
             PROVE  /\ Purged(appliedClears)'
                    /\ \A f \in Flow : InReset(f)' =>
                          /\ Purged(flow[f].clears)'
                          /\ appliedClears' < flow'[f].clears
                          /\ \A e \in Flow : InReset(e)' => e = f
                    /\ \A f \in Flow : Writes(f)' => flow'[f].clears = appliedClears'
    BY DEF ResetInv
<1>1. ~overlapped
    BY OverlapStays
<1>2. flow \in [Flow -> {Idle} \cup Listing \cup Pulling]
    BY DEF TypeInv, TypeOK
<1>3. ASSUME NEW f \in Flow, DeleteMirror(f)
      PROVE  /\ appliedClears < flow[f].clears /\ appliedClears' = appliedClears /\ mirror' = {}
             /\ \A e \in Flow \ {f} :
                   flow'[e] = flow[e] /\ ~InReset(e) /\ ~Writes(e) /\ ~Pulls(e)
    <2>1. ~Overlaps(f)
        BY <1>3 DEF DeleteMirror
    <2>2. flow[f] \in Listing
        BY <1>3, FlowKinds DEF DeleteMirror, TypeInv, ListingPc
    <2>3. flow[f].clears \in Nat /\ appliedClears \in Nat
        BY <2>2, ResetBound DEF Listing
    <2>4. appliedClears < flow[f].clears
        BY <2>1, <2>3 DEF Overlaps
    <2> QED BY <1>2, <1>3, <2>1, <2>4 DEF DeleteMirror, Overlaps, InReset, Writes, Pulls
<1>4. ASSUME NEW f \in Flow, ClearWatermark(f)
      PROVE  /\ appliedClears' = flow[f].clears /\ InReset(f) /\ ~InReset(f)'
             /\ \A e \in Flow \ {f} :
                   flow'[e] = flow[e] /\ ~InReset(e) /\ ~Writes(e) /\ ~Pulls(e)
    <2>1. ~Overlaps(f)
        BY <1>4 DEF ClearWatermark
    <2>2. flow[f] \in Listing
        BY <1>4, FlowKinds DEF ClearWatermark, TypeInv, ListingPc
    <2>3. flow'[f].pc = "upserting"
        BY <1>2, <1>4, <2>2 DEF ClearWatermark, Listing
    <2>4. ~InReset(f)'
        BY <2>3 DEF InReset
    <2>5. \A e \in Flow \ {f} : ~InReset(e) /\ ~Writes(e) /\ ~Pulls(e)
        BY <2>1 DEF Overlaps, InReset, Writes, Pulls
    <2> QED BY <1>2, <1>4, <2>4, <2>5 DEF ClearWatermark, InReset
<1>5. ASSUME NEW f \in Flow, UpsertChannel(f) PROVE appliedClears' = appliedClears
    BY <1>1, <1>5 DEF UpsertChannel, ResetInv, Writes
<1>6. appliedClears' = appliedClears \/ \E f \in Flow : ClearWatermark(f)
    BY <1>3, <1>5, DatabaseStep DEF database, ApplyPage, SaveCursor
<1>7. Purged(appliedClears)'
    <2>1. CASE appliedClears' = appliedClears
        <3>1. Purged(appliedClears)
            BY <1>1 DEF ResetInv
        <3> DEFINE c == appliedClears
        <3>2. c \in Nat /\ c <= clears
            BY ResetBound
        <3> HIDE DEF c
        <3> QED BY <2>1, <3>1, <3>2, PurgedStep DEF c, Purged
    <2>2. ASSUME NEW f \in Flow, ClearWatermark(f) PROVE Purged(appliedClears)'
        <3>1. appliedClears' = flow[f].clears /\ InReset(f)
            BY <1>4, <2>2
        <3>2. Purged(flow[f].clears) /\ flow[f].clears \in Nat /\ flow[f].clears <= clears
            BY <1>1, <3>1, ResetBound DEF ResetInv
        <3> QED BY <3>1, <3>2, PurgedStep DEF Purged
    <2> QED BY <1>6, <2>1, <2>2
<1>8. ASSUME NEW f \in Flow, InReset(f)'
      PROVE  /\ Purged(flow[f].clears)'
             /\ appliedClears' < flow'[f].clears
             /\ \A e \in Flow : InReset(e)' => e = f
    <2>1. CASE DeleteMirror(f) /\ flow'[f].clears = flow[f].clears
        <3>1. \A e \in Flow : e # f => ~InReset(e)' /\ ~Pulls(e)'
            BY <1>3, <2>1 DEF InReset, Pulls
        <3>2. ~Pulls(f)'
            BY <1>8 DEF InReset, Pulls
        <3>3. Purged(flow[f].clears)'
            BY <1>3, <2>1, <3>1, <3>2 DEF Purged, Since
        <3> QED BY <1>3, <2>1, <3>1, <3>3
    <2>2. CASE flow'[f] = flow[f] /\ InReset(f)
        <3>1. /\ Purged(flow[f].clears) /\ appliedClears < flow[f].clears
              /\ \A e \in Flow : InReset(e) => e = f
            BY <1>1, <2>2 DEF ResetInv
        <3>2. ASSUME NEW e \in Flow, ClearWatermark(e) PROVE FALSE
            BY <1>4, <1>8, <2>2, <3>1, <3>2
        <3>3. ASSUME NEW e \in Flow, DeleteMirror(e) PROVE FALSE
            <4>1. e # f
                BY <2>2, <3>3 DEF DeleteMirror, InReset
            <4> QED BY <1>3, <2>2, <3>3, <4>1
        <3>4. appliedClears' < flow'[f].clears
            BY <1>6, <2>2, <3>1, <3>2
        <3>5. Purged(flow[f].clears)'
            BY <2>2, <3>1, ResetBound, PurgedStep DEF Purged
        <3>6. ASSUME NEW e \in Flow, InReset(e)' PROVE e = f
            <4>1. InReset(e)
                BY <3>3, <3>6, <3>2, ResetStep DEF InReset, Writes
            <4> QED BY <3>1, <4>1
        <3> QED BY <3>4, <3>5, <3>6
    <2> QED BY <1>8, <2>1, <2>2, ResetStep DEF InReset, Writes
<1>9. ASSUME NEW f \in Flow, Writes(f)' PROVE flow'[f].clears = appliedClears'
    <2>1. CASE ClearWatermark(f) /\ flow'[f].clears = flow[f].clears
        BY <1>4, <2>1
    <2>2. CASE CompareClears(f) /\ flow'[f].clears = appliedClears
        BY <2>2 DEF CompareClears, database
    <2>3. CASE flow'[f] = flow[f] /\ Writes(f)
        <3>1. ASSUME NEW e \in Flow, ClearWatermark(e) PROVE FALSE
            BY <1>4, <2>3, <3>1 DEF InReset, Writes
        <3>2. flow[f].clears = appliedClears
            BY <1>1, <2>3 DEF ResetInv
        <3> QED BY <1>6, <2>3, <3>1, <3>2
    <2> QED BY <1>9, <2>1, <2>2, <2>3, ResetStep DEF InReset, Writes
<1> QED BY <1>7, <1>8, <1>9

\* Once a bulk clear is applied and no reset has run into another flow's work,
\* the mirror holds no message from before it: the reset deletes the rows
\* before it notes the clear, and every page on its way was read after the
\* server had counted it (message_history_sync.dart, channel_repository_impl.dart).
THEOREM GhostsAreGone == Spec => []NoGhosts
<1>1. Init => TypeInv /\ LogInv /\ ResetInv
    BY HistoryInit DEF Init, LogInv, ResetInv, Purged, Since, InReset, Writes, Pulls, Idle
<1>2. TypeInv /\ LogInv /\ ResetInv /\ [Next]_vars => (TypeInv /\ LogInv /\ ResetInv)'
    BY TypeStep, LogStep, ResetInvStep
<1>3. ResetInv => NoGhosts
    BY DEF ResetInv, NoGhosts, Purged, Since
<1> QED BY <1>1, <1>2, <1>3, PTL DEF Spec

-----------------------------------------------------------------------------
(* No message is skipped *)

\* m is beyond the cursor of every row of the log.
Fresh(m) == \A n \in log : Text(m.at) > CursorText(Millis(n))

\* While no clear comes, rows only join the log, and one that is owed then is
\* beyond the cursors of the rest.
LEMMA OwedStep ==
    ASSUME TypeInv, LogInv, [Next]_vars, clears' = clears
    PROVE  /\ log \subseteq log'
           /\ \A m \in Owed' : m \in Owed \/ (m.at \in saving /\ Fresh(m))
<1>1. CASE UNCHANGED server
    BY <1>1 DEF server, Owed
<1>2. CASE StampMessage
    BY <1>2 DEF StampMessage, Owed
<1>3. CASE ClearMessages
    BY <1>3 DEF ClearMessages, TypeInv, TypeOK
<1>4. CASE InsertMessage
    <2>1. PICK at \in saving :
              /\ saving' = saving \ {at}
              /\ log' = log \cup {[at |-> at, clears |-> clears, late |-> IsLate(at)]}
        BY <1>4 DEF InsertMessage
    <2> DEFINE new == [at |-> at, clears |-> clears, late |-> IsLate(at)]
    <2>2. at \in Nat /\ log \subseteq Message
        BY DEF TypeInv, TypeOK
    <2>3. new.at = at /\ (new.late <=> IsLate(at)) /\ new \in Message
        BY <2>2 DEF Message, IsLate, TypeInv, TypeOK
    <2>4. log' = log \cup {new}
        BY <2>1
    <2> HIDE DEF new
    <2>5. ASSUME ~new.late, NEW n \in log PROVE Text(new.at) > CursorText(Millis(n))
        <3>1. Text(new.at) \in Int /\ CursorText(Millis(n)) \in Int
            BY <2>2, <2>3, TextType, CursorType
        <3> QED BY <2>3, <2>5, <3>1 DEF IsLate
    <2>6. \A m \in Owed' : m \in Owed \/ (m = new /\ ~new.late)
        BY <2>4 DEF Owed
    <2> QED BY <2>3, <2>4, <2>5, <2>6 DEF Fresh
<1> QED BY <1>1, <1>2, <1>3, <1>4, ServerStep

\* A cursor that was reached stays reached, and covers no new owed row; so what
\* was mirrored up to it still is.
LEMMA ReachedStep ==
    ASSUME TypeInv, LogInv, [Next]_vars, clears' = clears,
           mirror \subseteq mirror', NEW x \in Nat \cup {NoCursor}, Reached(x)
    PROVE  /\ x = NoCursor \/ \E m \in log' : CursorText(x) <= CursorText(Millis(m))
           /\ \A m \in Owed' \ Owed : ~Covers(x, m)
           /\ MirroredTo(x) => \A m \in Owed' : Covers(x, m) => m \in mirror'
<1>1. log \subseteq Message /\ log' \subseteq Message
    BY TypeStep DEF TypeInv, TypeOK
<1>2. \A m \in Owed' : Text(m.at) \in Nat
    BY <1>1, TextType DEF Owed
<1>3. CursorText(x) \in Int /\ \A m \in log : CursorText(Millis(m)) \in Int
    BY <1>1, TextType, CursorType
<1>4. ASSUME NEW m \in Owed' \ Owed PROVE ~Covers(x, m)
    <2>1. Fresh(m)
        BY OwedStep
    <2>2. CASE x = NoCursor
        BY <1>2, <2>2 DEF NoCursor, Covers, CursorText
    <2>3. CASE \E n \in log : CursorText(x) <= CursorText(Millis(n))
        BY <1>2, <1>3, <2>1, <2>3 DEF Fresh, Covers
    <2> QED BY <2>2, <2>3 DEF Reached
<1>5. x = NoCursor \/ \E m \in log' : CursorText(x) <= CursorText(Millis(m))
    BY OwedStep DEF Reached
<1>6. ASSUME MirroredTo(x), NEW m \in Owed', Covers(x, m) PROVE m \in mirror'
    <2>1. m \in Owed
        BY <1>4, <1>6
    <2> QED BY <1>6, <2>1 DEF MirroredTo
<1> QED BY <1>4, <1>5, <1>6

\* How the device and the server come to agree on the clears, undisturbed: they
\* did before, and no reset is under way; or a reset just dropped the cursor,
\* and no other flow pulls.
LEMMA AgreedStep ==
    ASSUME TypeInv, LogInv, ResetInv, [Next]_vars, Undisturbed'
    PROVE  \/ /\ Undisturbed /\ clears' = clears /\ mirror \subseteq mirror'
              /\ cursor' = cursor \/ \E e \in Flow : SaveCursor(e)
           \/ cursor' = NoCursor /\ \A e \in Flow : ~Pulls(e)'
<1>1. ~overlapped /\ ~overlapped' /\ appliedClears' = clears'
    BY OverlapStays DEF Undisturbed
<1>2. flow \in [Flow -> {Idle} \cup Listing \cup Pulling]
    BY DEF TypeInv, TypeOK
<1>3. ASSUME NEW f \in Flow, ClearWatermark(f)
      PROVE  cursor' = NoCursor /\ \A e \in Flow : ~Pulls(e)'
    <2>1. ~Overlaps(f)
        BY <1>1, <1>3 DEF ClearWatermark
    <2>2. flow[f] \in Listing
        BY <1>3, FlowKinds DEF ClearWatermark, TypeInv, ListingPc
    <2>3. flow'[f].pc = "upserting"
        BY <1>2, <1>3, <2>2 DEF ClearWatermark, Listing
    <2>4. \A e \in Flow \ {f} : flow'[e] = flow[e] /\ ~Pulls(e)
        BY <1>2, <1>3, <2>1 DEF ClearWatermark, Overlaps, Pulls
    <2> QED BY <1>3, <2>3, <2>4 DEF ClearWatermark, Pulls
<1>4. ASSUME \A f \in Flow : ~ClearWatermark(f)
      PROVE  /\ Undisturbed /\ clears' = clears /\ mirror \subseteq mirror'
             /\ cursor' = cursor \/ \E e \in Flow : SaveCursor(e)
    <2>1. appliedClears \in Nat /\ clears \in Nat /\ appliedClears <= clears
        BY ResetBound
    <2>2. appliedClears' = appliedClears
        BY <1>1, <1>4, DatabaseStep
           DEF database, ApplyPage, SaveCursor, DeleteMirror, UpsertChannel, ResetInv, Writes
    <2>3. clears' = clears
        BY <1>1, <2>1, <2>2, ServerStep
           DEF server, StampMessage, InsertMessage, ClearMessages
    <2>4. appliedClears = clears
        BY <1>1, <2>2, <2>3
    <2>5. ASSUME NEW f \in Flow, DeleteMirror(f) PROVE FALSE
        <3>1. ~Overlaps(f)
            BY <1>1, <2>5 DEF DeleteMirror
        <3>2. flow[f] \in Listing
            BY <2>5, FlowKinds DEF DeleteMirror, TypeInv, ListingPc
        <3>3. flow[f].clears \in Nat /\ flow[f].clears <= clears
            BY <3>2 DEF TypeInv, BoundInv, Listing
        <3> QED BY <2>1, <2>4, <3>1, <3>3 DEF Overlaps
    <2>6. mirror \subseteq mirror'
        BY <1>4, <2>5, DatabaseStep DEF database, ApplyPage, SaveCursor, UpsertChannel
    <2>7. cursor' = cursor \/ \E e \in Flow : SaveCursor(e)
        BY <1>4, <2>5, DatabaseStep DEF database, ApplyPage, UpsertChannel
    <2> QED BY <1>1, <2>3, <2>4, <2>6, <2>7 DEF Undisturbed
<1> QED BY <1>3, <1>4

\* The facts about a pulling flow that the steps below need.
LEMMA PullFields ==
    ASSUME TypeInv, NEW f \in Flow, Pulls(f)
    PROVE  /\ flow[f] \in Pulling /\ flow[f].max \in Nat \cup {NoCursor}
           /\ flow[f].after \in Int /\ flow[f].exact \in BOOLEAN
           /\ flow[f].page \subseteq Message /\ flow[f].asked \subseteq Message
<1>1. flow[f] \in Pulling
    BY FlowKinds DEF TypeInv, Pulls, PullingPc
<1> QED BY <1>1 DEF Pulling, TypeInv, BoundInv

\* A pull that begins behind a cursor that skips nothing.
LEMMA BeginPull ==
    ASSUME TypeInv, NEW f \in Flow, flow'[f] = AskHistory, UNCHANGED <<server, database>>,
           Reached(cursor), MirroredTo(cursor)
    PROVE  PullInv(f)'
<1>1. /\ flow'[f].pc = "history_asked" /\ flow'[f].after = CursorText(cursor)
      /\ flow'[f].exact = FALSE /\ flow'[f].max = cursor /\ flow'[f].page = {}
    BY DEF AskHistory
<1>2. log' = log /\ mirror' = mirror
    BY DEF server, database
<1>3. \A m \in log : Text(m.at) \in Nat
    BY TextType DEF TypeInv, TypeOK
<1>4. CursorText(cursor) \in Int
    BY CursorType DEF TypeInv, TypeOK
<1>5. \A m \in Owed \ After(CursorText(cursor)) : m \in mirror
    BY <1>3, <1>4 DEF Owed, After, MirroredTo, Covers
<1>6. Reached(flow[f].max)'
    BY <1>1, <1>2 DEF Reached
<1>7. AskedInv(f)'
    BY <1>1, <1>2, <1>5 DEF AskedInv, PositionInv, Owed, After
<1> QED BY <1>1, <1>6, <1>7 DEF PullInv

\* A pull that waits, whatever the others do meanwhile.
LEMMA KeepPull ==
    ASSUME TypeInv, LogInv, SeenInv, [Next]_vars, clears' = clears,
           mirror \subseteq mirror', NEW f \in Flow, Pulls(f), flow'[f] = flow[f], PullInv(f)
    PROVE  PullInv(f)'
<1>1. Reached(flow[f].max) /\ flow[f].page \subseteq log
    BY DEF PullInv
<1>2. log \subseteq log' /\ \A m \in Owed' \ Owed : m.at \in saving /\ Fresh(m)
    BY OwedStep
<1>3. /\ flow[f].max \in Nat \cup {NoCursor} /\ flow[f].after \in Int
      /\ flow[f].page \subseteq Message
    BY PullFields
<1>4. /\ \A m \in Owed' : Text(m.at) \in Nat
      /\ \A n \in log : /\ Text(n.at) \in Nat /\ CursorText(Millis(n)) \in Int
                        /\ Text(n.at) <= CursorText(Millis(n))
    <2>1. log \subseteq Message /\ log' \subseteq Message
        BY TypeStep DEF TypeInv, TypeOK
    <2>2. \A m \in Owed' : Text(m.at) \in Nat
        BY <2>1, TextType DEF Owed
    <2>3. \A n \in log : /\ Text(n.at) \in Nat /\ CursorText(Millis(n)) \in Int
                         /\ Text(n.at) <= CursorText(Millis(n))
        BY <2>1, TextType, CursorType, CoversItself DEF Covers
    <2> QED BY <2>2, <2>3
<1>5. /\ flow[f].max = NoCursor
            \/ \E m \in log' : CursorText(flow[f].max) <= CursorText(Millis(m))
      /\ \A m \in Owed' \ Owed : ~Covers(flow[f].max, m)
      /\ MirroredTo(flow[f].max) => \A m \in Owed' : Covers(flow[f].max, m) => m \in mirror'
    BY <1>1, <1>3, ReachedStep
<1>6. Reached(flow[f].max)' /\ flow'[f].page \subseteq log'
    BY <1>1, <1>2, <1>5 DEF Reached
<1>10. ASSUME NEW m \in Owed' \ Owed, NEW n \in log
       PROVE  Text(n.at) < Text(m.at) /\ ~Covers(Millis(n), m)
    BY <1>2, <1>4 DEF Fresh, Covers
<1>7. ASSUME flow[f].pc = "history_asked" PROVE AskedInv(f)'
    <2>1. PositionInv(f) /\ Owed \ After(flow[f].after) \subseteq mirror
        BY <1>7 DEF PullInv, AskedInv
    <2>2. PositionInv(f)'
        BY <1>2, <2>1 DEF PositionInv
    <2>3. ASSUME NEW m \in Owed', ~(Text(m.at) > flow[f].after) PROVE m \in mirror'
        <3>2. CASE m \in Owed
            BY <2>1, <2>3, <3>2 DEF Owed, After
        <3>3. CASE m \notin Owed
            <4>1. CASE flow[f].exact
                <5>1. PICK n \in log : flow[f].after <= Text(n.at)
                    BY <2>1, <4>1 DEF PositionInv
                <5>2. Text(n.at) < Text(m.at)
                    BY <1>10, <3>3
                <5> QED BY <1>3, <1>4, <2>3, <5>1, <5>2
            <4>2. CASE ~flow[f].exact
                <5>1. flow[f].after = CursorText(flow[f].max)
                    BY <2>1, <4>2 DEF PositionInv
                <5>2. ~(Text(m.at) <= flow[f].after)
                    BY <1>5, <3>3, <5>1 DEF Covers
                <5> QED BY <1>3, <1>4, <2>3, <5>2
            <4> QED BY <4>1, <4>2
        <3> QED BY <3>2, <3>3
    <2>4. (Owed \ After(flow[f].after))' \subseteq mirror'
        BY <2>3 DEF Owed, After
    <2> QED BY <2>2, <2>4 DEF AskedInv
<1>8. ASSUME flow[f].pc = "history_got" PROVE GotInv(f)'
    <2>1. GotInv(f)
        BY <1>8 DEF PullInv
    <2>2. ASSUME NEW m \in Owed' PROVE m \in mirror' \cup flow'[f].page \/ Beyond(m, f)'
        <3>1. CASE m \in Owed
            BY <2>1, <3>1 DEF GotInv, Beyond, IsLastPage
        <3>2. CASE m \notin Owed
            BY <1>1, <1>10, <1>5, <3>2 DEF Beyond, IsLastPage
        <3> QED BY <3>1, <3>2
    <2>3. ASSUME NEW m \in Owed', m \in flow[f].asked, IsLastPage(f)
          PROVE  m \in mirror' \cup flow'[f].page
        <3>1. m.at \notin saving
            BY <2>3 DEF SeenInv
        <3>2. m \in Owed
            BY <1>2, <3>1
        <3> QED BY <2>1, <2>3, <3>2 DEF GotInv
    <2> QED BY <2>2, <2>3 DEF GotInv, IsLastPage
<1>9. ASSUME flow[f].pc = "saving" PROVE MirroredTo(flow[f].max)'
    BY <1>5, <1>9 DEF PullInv, MirroredTo
<1> QED BY <1>6, <1>7, <1>8, <1>9 DEF PullInv

\* The server answers: what lies behind the position is mirrored, the page
\* holds the oldest of the rest.
LEMMA ServePull ==
    ASSUME TypeInv, NEW f \in Flow, Serves(f), PullInv(f)
    PROVE  PullInv(f)'
<1>0. PICK ties \in SUBSET Ties(f) :
          flow'[f].page = Oldest(After(flow[f].after) \cup ties, PageLimit)
    BY DEF Serves
<1> DEFINE rows == After(flow[f].after) \cup ties
           page == Oldest(rows, PageLimit)
<1>1. /\ flow'[f].pc = "history_got" /\ flow'[f].page = page /\ flow'[f].max = flow[f].max
      /\ flow'[f].asked = flow[f].asked
      /\ log' = log /\ mirror' = mirror /\ flow[f].pc = "history_asked"
    BY <1>0 DEF Serves, SamePull, ServeHistory, server, database
<1>2. Reached(flow[f].max) /\ Owed \ rows \subseteq mirror
    BY <1>1 DEF PullInv, AskedInv
<1>3. rows \subseteq log /\ rows \in SUBSET Message /\ IsFiniteSet(rows) /\ PageLimit \in Nat
    <2>1. rows \subseteq log
        BY DEF After, Ties
    <2>2. log \subseteq Message /\ IsFiniteSet(log)
        BY DEF TypeInv, TypeOK, BoundInv
    <2> HIDE DEF rows
    <2> QED BY <2>1, <2>2, FS_Subset, PageAssumption
<1>4. /\ page \subseteq rows /\ IsFiniteSet(page)
      /\ \A m \in rows \ page :
            Cardinality(page) >= PageLimit /\ \A p \in page : Text(p.at) < Text(m.at)
    <2> HIDE DEF rows
    <2> QED BY <1>3, OldestRows
<1>5. Cardinality(page) \in Nat
    <2> HIDE DEF page
    <2> QED BY <1>4, FS_CardinalityType
<1>6. ASSUME Cardinality(page) < PageLimit PROVE rows \subseteq page
    <2> HIDE DEF page, rows
    <2> QED BY <1>3, <1>4, <1>5, <1>6
<1> HIDE DEF rows, page
<1>7. IsLastPage(f)' <=> Cardinality(page) < PageLimit
    BY <1>1 DEF IsLastPage
<1>8. ASSUME NEW m \in Owed PROVE m \in mirror' \cup page \/ Beyond(m, f)'
    <2>1. CASE m \in rows \ page
        BY <1>1, <1>4, <1>6, <1>7, <2>1 DEF Beyond
    <2>2. CASE m \notin rows \ page
        BY <1>1, <1>2, <2>2
    <2> QED BY <2>1, <2>2
<1>9. GotInv(f)'
    BY <1>1, <1>2, <1>6, <1>7, <1>8 DEF GotInv, Owed
<1>10. Reached(flow[f].max)'
    BY <1>1, <1>2 DEF Reached
<1> QED BY <1>1, <1>3, <1>4, <1>9, <1>10 DEF PullInv

\* The greatest time applied after the page: its cursor is the one before the page
\* or a row's, and covers nothing beyond the page.
LEMMA AppliedMaxCovers ==
    ASSUME TypeInv, NEW f \in Flow, Pulls(f), PullInv(f)
    PROVE  /\ Reached(AppliedMax(f))
           /\ \A m \in Owed : Beyond(m, f) /\ IsLastPage(f) => ~Covers(AppliedMax(f), m)
<1> DEFINE max == AppliedMax(f)
<1>1. flow[f] \in Pulling /\ flow[f].page \subseteq log /\ Reached(flow[f].max)
    BY PullFields DEF PullInv
<1>2. max = flow[f].max \/ \E m \in flow[f].page : max = Millis(m)
    <2>1. AppliedMax(f) \in {flow[f].max} \cup {Millis(m) : m \in flow[f].page}
        BY <1>1, PageMax DEF AppliedMax, TypeInv
    <2> QED BY <2>1
<1> HIDE DEF max
<1>3. \A m \in log : CursorText(Millis(m)) <= CursorText(Millis(m))
    BY TextType, CursorType DEF TypeInv, TypeOK
<1>4. Reached(max)
    BY <1>1, <1>2, <1>3 DEF Reached
<1>5. ASSUME NEW m \in Owed, Beyond(m, f), IsLastPage(f) PROVE ~Covers(max, m)
    BY <1>2, <1>5 DEF Beyond
<1> QED BY <1>4, <1>5 DEF max

\* A full page is applied: everything owed up to its end is mirrored.
LEMMA ContinuePull ==
    ASSUME TypeInv, NEW f \in Flow, Continues(f), PullInv(f)
    PROVE  PullInv(f)'
<1>1. /\ flow'[f].pc = "history_asked" /\ flow'[f].page = {} /\ flow'[f].max = AppliedMax(f)
      /\ flow'[f].after = NextPosition(f).after /\ flow'[f].exact = TRUE
      /\ log' = log /\ mirror' = mirror \cup flow[f].page
      /\ flow[f].pc = "history_got" /\ ~IsLastPage(f) /\ Pulls(f)
    BY DEF Continues, ApplyPage, server
<1>2. flow[f] \in Pulling /\ flow[f].page \subseteq log /\ GotInv(f)
    BY <1>1, PullFields DEF PullInv
<1> DEFINE after == NextPosition(f).after
<1>3. after \in Nat /\ \E m \in flow[f].page : after = Text(m.at)
    BY <1>1, <1>2, PageEnd DEF TypeInv
<1> HIDE DEF after
<1>4. Reached(AppliedMax(f))
    BY <1>1, AppliedMaxCovers
<1>5. Reached(flow[f].max)'
    BY <1>1, <1>4 DEF Reached
<1>6. \A m \in log : Text(m.at) \in Nat
    BY TextType DEF TypeInv, TypeOK
<1>7. PositionInv(f)'
    BY <1>1, <1>2, <1>3, <1>6 DEF PositionInv, after
<1>8. ASSUME NEW m \in Owed, ~(Text(m.at) > after) PROVE m \in mirror'
    <2>1. ~Beyond(m, f)
        BY <1>2, <1>3, <1>6, <1>8 DEF Beyond, Owed
    <2> QED BY <1>1, <1>2, <2>1 DEF GotInv
<1>9. AskedInv(f)'
    BY <1>1, <1>7, <1>8 DEF AskedInv, Owed, After, after
<1> QED BY <1>1, <1>5, <1>9 DEF PullInv

\* The last page is applied: everything owed that the cursor covers is mirrored.
LEMMA CompletePull ==
    ASSUME TypeInv, NEW f \in Flow, Completes(f), PullInv(f)
    PROVE  PullInv(f)'
<1>1. /\ flow'[f].pc = "saving" /\ flow'[f].page = {} /\ flow'[f].max = AppliedMax(f)
      /\ log' = log /\ mirror' = mirror \cup flow[f].page
      /\ flow[f].pc = "history_got" /\ IsLastPage(f) /\ Pulls(f)
    BY DEF Completes, ApplyPage, server
<1>2. GotInv(f)
    BY <1>1 DEF PullInv
<1>3. /\ Reached(AppliedMax(f))
      /\ \A m \in Owed : Beyond(m, f) => ~Covers(AppliedMax(f), m)
    BY <1>1, AppliedMaxCovers
<1>4. Reached(flow[f].max)'
    BY <1>1, <1>3 DEF Reached
<1>5. ASSUME NEW m \in Owed, Covers(AppliedMax(f), m) PROVE m \in mirror'
    <2>1. ~Beyond(m, f)
        BY <1>3, <1>5
    <2> QED BY <1>1, <1>2, <2>1 DEF GotInv
<1>6. MirroredTo(flow[f].max)'
    BY <1>1, <1>5 DEF MirroredTo, Owed, Covers
<1> QED BY <1>1, <1>4, <1>6 DEF PullInv

IInv == TypeInv /\ LogInv /\ ResetInv /\ SeenInv /\ HistoryInv

LEMMA HistoryInvStep == IInv /\ [Next]_vars => HistoryInv'
<1> SUFFICES ASSUME IInv, [Next]_vars, Undisturbed'
             PROVE  /\ Reached(cursor)' /\ MirroredTo(cursor)'
                    /\ \A f \in Flow : Pulls(f)' => PullInv(f)'
    BY DEF HistoryInv
<1>1. TypeInv /\ LogInv /\ ResetInv /\ SeenInv /\ HistoryInv
    BY DEF IInv
<1>2. CASE cursor' = NoCursor /\ \A e \in Flow : ~Pulls(e)'
    <2>1. \A m \in log' : Text(m.at) \in Nat
        BY <1>1, TypeStep, TextType DEF TypeInv, TypeOK
    <2> QED BY <1>2, <2>1 DEF Reached, MirroredTo, Owed, Covers, CursorText, NoCursor
<1>3. CASE /\ Undisturbed /\ clears' = clears /\ mirror \subseteq mirror'
           /\ cursor' = cursor \/ \E e \in Flow : SaveCursor(e)
    <2>1. Reached(cursor) /\ MirroredTo(cursor) /\ \A f \in Flow : Pulls(f) => PullInv(f)
        BY <1>1, <1>3 DEF HistoryInv
    <2>2. Reached(cursor') /\ MirroredTo(cursor') /\ cursor' \in Nat \cup {NoCursor}
        <3>1. CASE cursor' = cursor
            BY <1>1, <2>1, <3>1 DEF TypeInv, TypeOK, NoCursor
        <3>2. ASSUME NEW e \in Flow, SaveCursor(e)
              PROVE  Reached(cursor') /\ MirroredTo(cursor') /\ cursor' \in Nat \cup {NoCursor}
            <4>1. Pulls(e) /\ flow[e].pc = "saving" /\ cursor' = flow[e].max
                BY <3>2 DEF SaveCursor, Pulls
            <4> QED BY <1>1, <2>1, <4>1, PullFields DEF PullInv
        <3> QED BY <1>3, <3>1, <3>2
    <2>3. Reached(cursor)' /\ MirroredTo(cursor)'
        <3> DEFINE x == cursor'
        <3> HIDE DEF x
        <3>1. Reached(x) /\ MirroredTo(x) /\ x \in Nat \cup {NoCursor}
            BY <2>2 DEF x
        <3>2. /\ x = NoCursor \/ \E m \in log' : CursorText(x) <= CursorText(Millis(m))
              /\ \A m \in Owed' : Covers(x, m) => m \in mirror'
            BY <1>1, <1>3, <3>1, ReachedStep
        <3> QED BY <3>2 DEF Reached, MirroredTo, x
    <2>4. ASSUME NEW f \in Flow, Pulls(f)' PROVE PullInv(f)'
        <3>1. CASE flow'[f] = AskHistory /\ UNCHANGED <<server, database, overlapped>>
            BY <1>1, <2>1, <3>1, BeginPull
        <3>2. CASE flow'[f] = flow[f] /\ Pulls(f)
            BY <1>1, <1>3, <2>1, <3>2, KeepPull
        <3>3. CASE Serves(f)
            BY <1>1, <2>1, <3>3, ServePull DEF Serves
        <3>4. CASE Continues(f)
            BY <1>1, <2>1, <3>4, ContinuePull DEF Continues
        <3>5. CASE Completes(f)
            BY <1>1, <2>1, <3>5, CompletePull DEF Completes
        <3> QED BY <1>1, <2>4, <3>1, <3>2, <3>3, <3>4, <3>5, PullerStep
    <2> QED BY <2>3, <2>4
<1> QED BY <1>1, <1>2, <1>3, AgreedStep

LEMMA InvariantHolds == Spec => []IInv
<1>1. Init => IInv
    BY HistoryInit
       DEF Init, IInv, LogInv, ResetInv, SeenInv, HistoryInv, Purged, Since, InReset, Writes,
           Pulls, Idle, Reached, MirroredTo, Owed
<1>2. IInv /\ [Next]_vars => IInv'
    BY TypeStep, LogStep, ResetInvStep, SeenStep, HistoryInvStep DEF IInv
<1> QED BY <1>1, <1>2, PTL DEF Spec

\* The device skips a message only when the cursor of a row that was inserted
\* before it covers it (an equal millisecond, or a whole second, or a row that
\* was stamped earlier and inserted later): every other row behind the stored
\* cursor is in the mirror, whatever pulls, resets, timeouts and kills came
\* between, unless a clear is still to be applied or a reset has run into
\* another flow's work (message_history_sync.dart, channel_repository_impl.dart).
THEOREM NoMessageIsSkipped == Spec => []NothingSkipped
<1>1. IInv => NothingSkipped
    BY DEF IInv, HistoryInv, NothingSkipped, MirroredTo, Owed
<1> QED BY <1>1, InvariantHolds, PTL

\* A pull that ends has brought every message it owed: those the server had when
\* it began and still has, with the same exception.
THEOREM PullsAreComplete == Spec => PullIsComplete
<1> DEFINE A == \A f \in Flow :
                    (ApplyPage(f) /\ flow'[f].pc \in {"saving", "idle"} /\ Undisturbed)
                       => {m \in flow[f].asked \cap log : ~m.late} \subseteq mirror'
<1>1. ASSUME IInv, NEW f \in Flow, ApplyPage(f), flow'[f].pc \in {"saving", "idle"},
             Undisturbed
      PROVE  {m \in flow[f].asked \cap log : ~m.late} \subseteq mirror'
    <2>1. Pulls(f) /\ flow[f].pc = "history_got" /\ mirror' = mirror \cup flow[f].page
        BY <1>1 DEF ApplyPage, Pulls
    <2>2. GotInv(f)
        BY <1>1, <2>1 DEF IInv, HistoryInv, PullInv
    <2>3. IsLastPage(f)
        <3>1. SUFFICES ASSUME ~IsLastPage(f) PROVE FALSE
            OBVIOUS
        <3>2. flow \in [Flow -> {Idle} \cup Listing \cup Pulling] /\ flow[f] \in Pulling
            BY <1>1, <2>1, PullFields DEF IInv, TypeInv, TypeOK
        <3> DEFINE next == [flow[f] EXCEPT !.pc = "history_asked", !.max = AppliedMax(f),
                                !.page = {}, !.after = NextPosition(f).after,
                                !.exact = NextPosition(f).exact]
        <3>3. flow' = [flow EXCEPT ![f] = next]
            BY <1>1, <3>1, <3>2, Zenon DEF ApplyPage, AppliedMax
        <3>4. next.pc = "history_asked"
            BY <3>2 DEF Pulling
        <3> HIDE DEF next
        <3> QED BY <1>1, <3>2, <3>3, <3>4
    <2> QED BY <2>1, <2>2, <2>3 DEF GotInv, Owed
<1>2. IInv => A
    BY <1>1
<1>3. IInv /\ [Next]_vars => [A]_vars
    BY <1>2
<1>4. Spec => []IInv
    BY InvariantHolds
<1> HIDE DEF A
<1>5. Spec => [][A]_vars
    BY <1>3, <1>4, PTL DEF Spec
<1> QED BY <1>5 DEF PullIsComplete, A
=============================================================================
