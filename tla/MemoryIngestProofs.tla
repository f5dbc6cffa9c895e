------------------------- MODULE MemoryIngestProofs -------------------------
(***************************************************************************)
(* Proofs about MemoryIngest, for any number of turns, windows and         *)
(* disturbances: its types; and, when no message arrives while an earlier  *)
(* one is at work, that no turn after the first watermark is skipped and   *)
(* that only a pass that ends between an addition and the watermark makes  *)
(* one told twice.                                                         *)
(***************************************************************************)
EXTENDS MemoryIngest, NaturalsInduction, WellFoundedInduction, FiniteSetTheorems, TLAPS

\* Later turns of a plan come after those before them.
Ordered(windows) ==
    \A i, j \in 1..Len(windows) :
        \A a \in 1..Len(windows[i]), b \in 1..Len(windows[j]) :
            i < j \/ (i = j /\ a < b) => windows[i][a] < windows[j][b]

\* Messages of the user are in the order of their turns, and there is one for
\* each turn that has begun.
LogInv ==
    /\ \A i, j \in 1..Len(rows) :
          i < j /\ rows[i].role = "user" /\ rows[j].role = "user" => rows[i].turn < rows[j].turn
    /\ \A i \in 1..Len(rows) : rows[i].role = "user" => reply[rows[i].turn] # "none"
    /\ \A n \in Turn : reply[n] # "none" => \E i \in 1..Len(rows) : rows[i] = User(n)
    /\ \A m, n \in Turn : m < n /\ reply[n] # "none" => reply[m] # "none"

\* What is planned are turns that have begun, in order, and no window is empty.
PlanInv ==
    \A p \in Pass :
        /\ Ordered(plan[p])
        /\ \A i \in 1..Len(plan[p]) :
              plan[p][i] # <<>> /\ \A n \in ToSet(plan[p][i]) : reply[n] # "none"

\* A reply follows the message it answers; a message that is being answered is
\* the last one.
AgentInv ==
    /\ \A i \in 1..Len(rows) : rows[i].role = "agent" => reply[rows[i].turn] = "stored"
    /\ \A n \in Turn : reply[n] = "stored" =>
          \E i \in 1..(Len(rows) - 1) : rows[i] = User(n) /\ rows[i + 1] = Agent(n)
    /\ \A n \in Turn : reply[n] \in {"thinking", "due"} =>
          rows # <<>> /\ rows[Len(rows)] = User(n)

\* One pass at a time, after the run and before the next message.
SerialInv ==
    /\ \A p, q \in Pass : pc[p] # "idle" /\ pc[q] # "idle" => p = q
    /\ \A n \in Turn : reply[n] = "thinking" => \A p \in Pass : pc[p] = "idle"
    /\ \A n \in Turn : reply[n] = "due" => \A p \in Pass \ {n} : pc[p] = "idle"

\* A pass begins when its turn is answered, and goes on when the reply has been
\* handled.
AnsweredInv ==
    \A n \in Turn :
        /\ pc[n] # "idle" => reply[n] \in {"due", "stored", "lost"}
        /\ reply[n] = "due" => pc[n] \in {"idle", "begin"}

At(n) == PositionOf(User(n))

\* Every message of the user is deleted.
Wiped == \A i \in 1..Len(rows) : rows[i].role = "user" => i <= base

\* A pass reads from the watermark as it is, and plans what is beyond it; unless
\* a clear has taken everything.
WatermarkInv ==
    \A p \in Pass :
        /\ pc[p] \in {"list", "pin"} => cursor = NoCursor
        /\ pc[p] = "read" => from[p] = cursor \/ Wiped
        /\ pc[p] \in {"add", "advance"} => Wiped \/
              \A i \in 1..Len(plan[p]) : \A n \in ToSet(plan[p][i]) : At(n) > cursor

\* The windows of pass p that are not added yet.
Ahead(p) == (IF pc[p] = "advance" THEN 2 ELSE 1)..Len(plan[p])

\* A turn told once more than passes were interrupted is behind the watermark, or it is
\* in the window the watermark is about to pass; never in one still to be added.
TwiceInv ==
    /\ \A n \in Turn : reply[n] = "none" => told[n] = 0
    /\ \A n \in Turn : told[n] <= interrupted + 1
    /\ \A n \in Turn : told[n] > interrupted =>
          \/ At(n) <= base \/ At(n) <= cursor
          \/ \E p \in Pass : pc[p] = "advance" /\ n \in ToSet(Head(plan[p]))
    /\ \A p \in Pass : \A i \in Ahead(p) : \A n \in ToSet(plan[p][i]) : told[n] <= interrupted

\* The window the watermark is about to pass is told, and no answered turn up to
\* one that is planned is left out of the plan.
SkipInv ==
    \A p \in Pass :
        /\ pc[p] = "advance" => \A n \in ToSet(Head(plan[p])) : told[n] > 0
        /\ pc[p] \in {"add", "advance"} => Wiped \/
              \A n \in Turn : reply[n] = "stored" /\ At(n) > cursor /\ At(n) > base =>
                  \A i \in 1..Len(plan[p]) : \A m \in ToSet(plan[p][i]) : n <= m =>
                      \E j \in 1..i : n \in ToSet(plan[p][j])

\* LaterTurnsAreKept; and a message that is being answered is not passed.
ToldInv ==
    /\ \A n \in Turn : reply[n] \in {"thinking", "due"} => cursor < Len(rows)
    /\ \A n \in Turn :
          reply[n] = "stored" /\ At(n) > base /\ At(n) > pinned /\ At(n) <= cursor => told[n] > 0

-----------------------------------------------------------------------------
(* Numbers and sequences *)

LEMMA Least == ASSUME NEW T, T \subseteq Nat, T # {} PROVE \E x \in T : \A y \in T : x <= y
<1> DEFINE R == StrictSubsetOrdering(Nat)
           F == FiniteSubsetsOf(Nat)
           C == {0..n : n \in T}
<1>1. IsWellFoundedOn(R, F)
    BY FS_StrictSubsetOrderingWellFounded
<1>2. C \subseteq F /\ C # {}
    <2>1. \A n \in Nat : 0..n \subseteq Nat /\ IsFiniteSet(0..n)
        BY FS_Interval
    <2>2. \A n \in T : 0..n \in F
        BY <2>1 DEF FiniteSubsetsOf
    <2> HIDE DEF F
    <2> QED BY <2>2
<1>3. ASSUME NEW x \in T, NEW y \in T, y < x PROVE <<0..y, 0..x>> \in R
    <2>1. x \in 0..x /\ x \notin 0..y /\ 0..y \subseteq 0..x /\ 0..x \subseteq Nat
        BY <1>3
    <2> QED BY <2>1 DEF StrictSubsetOrdering
<1> HIDE DEF R, F
<1>4. PICK c \in C : \A d \in C : <<d, c>> \notin R
    <2> HIDE DEF C
    <2> QED BY <1>1, <1>2, WFMin
<1>5. PICK x \in T : c = 0..x
    OBVIOUS
<1>6. \A y \in T : ~(y < x)
    BY <1>3, <1>4, <1>5
<1> QED BY <1>6

\* Induction, over a set.
LEMMA Induction ==
    ASSUME NEW S, 0 \in S, \A n \in Nat : n \in S => n + 1 \in S
    PROVE  Nat \subseteq S
<1> SUFFICES ASSUME Nat \ S # {} PROVE FALSE
    OBVIOUS
<1>1. PICK x \in Nat \ S : \A y \in Nat \ S : x <= y
    BY Least
<1>2. x # 0 /\ x - 1 \in Nat /\ x - 1 \in S
    BY <1>1
<1> QED BY <1>1, <1>2

LEMMA Elements ==
    ASSUME NEW S, NEW s \in Seq(S)
    PROVE  /\ Len(s) \in Nat /\ DOMAIN s = 1..Len(s)
           /\ \A i \in 1..Len(s) : s[i] \in S
           /\ ToSet(s) = {s[i] : i \in 1..Len(s)}
           /\ s # <<>> <=> Len(s) > 0
    BY DEF ToSet

LEMMA Appended ==
    ASSUME NEW S, NEW s \in Seq(S), NEW e \in S
    PROVE  /\ Append(s, e) \in Seq(S) /\ Len(Append(s, e)) = Len(s) + 1
           /\ \A i \in 1..Len(s) : Append(s, e)[i] = s[i]
           /\ Append(s, e)[Len(s) + 1] = e
           /\ ToSet(Append(s, e)) = ToSet(s) \cup {e}
<1>1. /\ Append(s, e) \in Seq(S) /\ Len(Append(s, e)) = Len(s) + 1
      /\ \A i \in 1..Len(s) : Append(s, e)[i] = s[i]
      /\ Append(s, e)[Len(s) + 1] = e
    OBVIOUS
<1>2. \A i \in 1..(Len(s) + 1) : i \in 1..Len(s) \/ i = Len(s) + 1
    BY Elements
<1>3. Len(s) + 1 \in 1..(Len(s) + 1) /\ \A i \in 1..Len(s) : i \in 1..(Len(s) + 1)
    BY Elements
<1> DEFINE t == Append(s, e)
<1> HIDE DEF t
<1>4. ToSet(t) = {t[i] : i \in 1..Len(t)} /\ ToSet(s) = {s[i] : i \in 1..Len(s)}
    BY <1>1, Elements DEF t
<1>5. ToSet(t) = ToSet(s) \cup {e}
    BY <1>1, <1>2, <1>3, <1>4 DEF t
<1> QED BY <1>1, <1>5 DEF t

LEMMA Singleton ==
    ASSUME NEW S, NEW e \in S
    PROVE  <<e>> \in Seq(S) /\ Len(<<e>>) = 1 /\ <<e>>[1] = e /\ ToSet(<<e>>) = {e}
    BY DEF ToSet

LEMMA TurnsAreNumbers == Turn \subseteq Nat /\ Sweep \notin Turn
    BY TurnAssumption DEF Turn, Sweep

-----------------------------------------------------------------------------
(* Windows *)

Windowed == [done : Seq(Seq(Turn)), open : Seq(Turn)]
Nothing == [done |-> <<>>, open |-> <<>>]
Grown(turns, k, size, acc) == IF Complete(turns, k) THEN Take(acc, turns[k].turn, size) ELSE acc

\* What Grouping computes, step by step.
Steps(turns, size, f) ==
    /\ DOMAIN f = 0..Len(turns)
    /\ f[0] = Nothing
    /\ \A k \in 1..Len(turns) : f[k] = Grown(turns, k, size, f[k - 1])

LEMMA GroupingSteps ==
    ASSUME NEW turns, Len(turns) \in Nat, NEW size
    PROVE  \E f : Steps(turns, size, f) /\ Grouping(turns, size) = f[Len(turns)]
<1> DEFINE Body(f) == [k \in 0..Len(turns) |->
                IF k = 0 THEN [done |-> <<>>, open |-> <<>>]
                ELSE IF Complete(turns, k) THEN Take(f[k - 1], turns[k].turn, size)
                ELSE f[k - 1]]
           Part(n, f) == /\ DOMAIN f = 0..n /\ f[0] = Nothing
                         /\ \A k \in 1..n : f[k] = Grown(turns, k, size, f[k - 1])
           S == {n \in Nat : \E f : Part(n, f)}
<1>1. 0 \in S
    <2>1. Part(0, [k \in 0..0 |-> Nothing])
        OBVIOUS
    <2> QED BY <2>1
<1>2. ASSUME NEW n \in Nat, n \in S PROVE n + 1 \in S
    <2>1. PICK f : Part(n, f)
        BY <1>2
    <2> DEFINE g == [k \in 0..(n + 1) |->
                       IF k = n + 1 THEN Grown(turns, k, size, f[n]) ELSE f[k]]
    <2>2. g[n + 1] = Grown(turns, n + 1, size, f[n]) /\ \A k \in 0..n : g[k] = f[k]
        OBVIOUS
    <2>3. \A k \in 1..(n + 1) : k - 1 \in 0..n /\ (k \in 1..n \/ k = n + 1)
        OBVIOUS
    <2>4. DOMAIN g = 0..(n + 1) /\ n \in 0..n /\ 0 \in 0..n /\ n + 1 - 1 = n
        OBVIOUS
    <2> HIDE DEF g
    <2>5. \A k \in 1..(n + 1) : g[k] = Grown(turns, k, size, g[k - 1])
        BY <2>1, <2>2, <2>3, <2>4
    <2>6. Part(n + 1, g)
        BY <2>1, <2>2, <2>4, <2>5
    <2> HIDE DEF Part
    <2> QED BY <2>6
<1>3. Len(turns) \in S
    <2> HIDE DEF S
    <2> QED BY <1>1, <1>2, Induction
<1>4. PICK f : Part(Len(turns), f)
    BY <1>3
<1>5. \E g : g = Body(g)
    <2> DEFINE g == [k \in 0..Len(turns) |-> f[k]]
    <2>1. \A k \in 1..Len(turns) : k - 1 \in 0..Len(turns) /\ k \in 0..Len(turns)
        OBVIOUS
    <2>2. \A k \in 0..Len(turns) : g[k] = f[k]
        OBVIOUS
    <2> HIDE DEF g
    <2>3. \A k \in 0..Len(turns) : g[k] = Body(g)[k]
        BY <1>4, <2>1, <2>2 DEF Nothing, Grown
    <2>4. g = [k \in 0..Len(turns) |-> g[k]]
        BY DEF g
    <2>5. g = Body(g)
        BY <2>3, <2>4
    <2> QED BY <2>5
<1> DEFINE h == CHOOSE g : g = Body(g)
<1>6. h = Body(h)
    BY <1>5
<1>7. Grouping(turns, size) = h[Len(turns)]
    BY DEF Grouping
<1>8. Steps(turns, size, h)
    <2> HIDE DEF h
    <2>1. DOMAIN h = 0..Len(turns)
        BY <1>6
    <2>2. \A k \in 0..Len(turns) : h[k] = Body(h)[k]
        BY <1>6
    <2>3. h[0] = Nothing
        BY <2>2 DEF Nothing
    <2>4. ASSUME NEW k \in 1..Len(turns) PROVE h[k] = Grown(turns, k, size, h[k - 1])
        BY <2>2 DEF Grown
    <2> QED BY <2>1, <2>3, <2>4 DEF Steps
<1> QED BY <1>7, <1>8

\* The windows of a grouping, the one left over among them.
All(acc) == acc.done \o AsWindow(acc.open)

LEMMA AllWindows ==
    ASSUME NEW acc \in Windowed
    PROVE  /\ All(acc) \in Seq(Seq(Turn))
           /\ Len(All(acc)) = Len(acc.done) + (IF acc.open = <<>> THEN 0 ELSE 1)
           /\ \A i \in 1..Len(acc.done) : All(acc)[i] = acc.done[i]
           /\ acc.open # <<>> => All(acc)[Len(acc.done) + 1] = acc.open
<1>1. acc.done \in Seq(Seq(Turn)) /\ acc.open \in Seq(Turn)
    BY DEF Windowed
<1>2. CASE acc.open = <<>>
    BY <1>1, <1>2 DEF All, AsWindow
<1>3. CASE acc.open # <<>>
    <2>1. <<acc.open>> \in Seq(Seq(Turn)) /\ Len(<<acc.open>>) = 1 /\ <<acc.open>>[1] = acc.open
        BY <1>1
    <2>2. All(acc) = acc.done \o <<acc.open>>
        BY <1>3 DEF All, AsWindow
    <2> QED BY <1>1, <1>3, <2>1, <2>2
<1> QED BY <1>2, <1>3

\* A window of one exchange more, or one exchange more in the last window.
Longer(w, n, v) ==
    /\ Len(v) = Len(w) + 1 /\ \A i \in 1..Len(w) : v[i] = w[i]
    /\ v[Len(w) + 1] = <<n>>
Larger(w, n, v) ==
    /\ Len(w) > 0 /\ Len(v) = Len(w) /\ \A i \in 1..(Len(w) - 1) : v[i] = w[i]
    /\ v[Len(w)] = Append(w[Len(w)], n)

LEMMA TakeOne ==
    ASSUME NEW acc \in Windowed, NEW n \in Turn, NEW size
    PROVE  /\ Take(acc, n, size) \in Windowed
           /\ \/ Longer(All(acc), n, All(Take(acc, n, size)))
              \/ Larger(All(acc), n, All(Take(acc, n, size)))
<1> DEFINE joins == opening[n] = "joins"
           closed == IF joins THEN acc.done ELSE acc.done \o AsWindow(acc.open)
           batch == IF joins THEN Append(acc.open, n) ELSE <<n>>
           new == Take(acc, n, size)
<1>1. acc.done \in Seq(Seq(Turn)) /\ acc.open \in Seq(Turn)
    BY DEF Windowed
<1>2. closed = IF joins THEN acc.done ELSE All(acc)
    BY DEF All
<1>3. closed \in Seq(Seq(Turn)) /\ batch \in Seq(Turn) /\ batch # <<>>
    <2>1. closed \in Seq(Seq(Turn))
        BY <1>1, <1>2, AllWindows
    <2>2. CASE joins
        <3>1. batch = Append(acc.open, n)
            BY <2>2
        <3> HIDE DEF batch
        <3>2. batch \in Seq(Turn) /\ Len(batch) = Len(acc.open) + 1 /\ Len(acc.open) \in Nat
            BY <1>1, <3>1, Appended
        <3> QED BY <2>1, <3>2
    <2>3. CASE ~joins
        <3>1. <<n>> \in Seq(Turn) /\ <<n>> # <<>>
            OBVIOUS
        <3> QED BY <2>1, <2>3, <3>1
    <2> QED BY <2>2, <2>3
<1>4. \/ new = [done |-> Append(closed, batch), open |-> <<>>]
      \/ new = [done |-> closed, open |-> batch]
    BY DEF Take
<1>5. joins => batch = Append(acc.open, n)
    OBVIOUS
<1>6. ~joins => batch = <<n>>
    OBVIOUS
<1>7. joins /\ acc.open = <<>> => batch = <<n>> /\ closed = All(acc)
    BY <1>1, <1>2 DEF All, AsWindow
<1> HIDE DEF closed, batch, new, joins
<1>8. new \in Windowed
    <2>1. Append(closed, batch) \in Seq(Seq(Turn)) /\ <<>> \in Seq(Turn)
        BY <1>3
    <2>2. \A x \in Seq(Seq(Turn)), y \in Seq(Turn) : [done |-> x, open |-> y] \in Windowed
        BY DEF Windowed
    <2> QED BY <1>3, <1>4, <2>1, <2>2
<1>9. /\ Len(All(new)) = Len(closed) + 1
      /\ \A i \in 1..Len(closed) : All(new)[i] = closed[i]
      /\ All(new)[Len(closed) + 1] = batch
    <2>1. CASE new = [done |-> Append(closed, batch), open |-> <<>>]
        <3>1. new.done = Append(closed, batch) /\ new.open = <<>>
            BY <2>1
        <3>2. /\ Len(Append(closed, batch)) = Len(closed) + 1 /\ Len(closed) \in Nat
              /\ \A i \in 1..Len(closed) : Append(closed, batch)[i] = closed[i]
              /\ Append(closed, batch)[Len(closed) + 1] = batch
            BY <1>3
        <3>3. /\ Len(All(new)) = Len(closed) + 1
              /\ \A i \in 1..(Len(closed) + 1) : All(new)[i] = Append(closed, batch)[i]
            <4>1. /\ Len(All(new)) = Len(new.done)
                  /\ \A i \in 1..Len(new.done) : All(new)[i] = new.done[i]
                <5>1. /\ Len(All(new)) = Len(new.done) + (IF new.open = <<>> THEN 0 ELSE 1)
                      /\ \A i \in 1..Len(new.done) : All(new)[i] = new.done[i]
                    BY <1>8, AllWindows
                <5> QED BY <3>1, <3>2, <5>1
            <4> QED BY <3>1, <3>2, <4>1
        <3> QED BY <3>2, <3>3
    <2>2. CASE new = [done |-> closed, open |-> batch]
        <3>1. new.done = closed /\ new.open = batch
            BY <2>2
        <3> QED BY <1>3, <1>8, <3>1, AllWindows
    <2> QED BY <1>4, <2>1, <2>2
<1>10. CASE joins /\ acc.open # <<>>
    <2>1. closed = acc.done /\ batch = Append(acc.open, n)
        BY <1>2, <1>5, <1>10
    <2>2. Len(acc.done) \in Nat
        BY <1>1
    <2>3. /\ Len(All(acc)) = Len(acc.done) + 1 /\ All(acc)[Len(acc.done) + 1] = acc.open
          /\ \A i \in 1..Len(acc.done) : All(acc)[i] = acc.done[i]
        BY <1>10, AllWindows
    <2>4. Larger(All(acc), n, All(new))
        BY <1>9, <2>1, <2>2, <2>3 DEF Larger
    <2> QED BY <1>8, <2>4 DEF new
<1>11. CASE ~(joins /\ acc.open # <<>>)
    <2>1. batch = <<n>> /\ closed = All(acc)
        BY <1>2, <1>6, <1>7, <1>11
    <2>2. Longer(All(acc), n, All(new))
        BY <1>9, <2>1 DEF Longer
    <2> QED BY <1>8, <2>2 DEF new
<1> QED BY <1>10, <1>11

\* Windows w hold the turns of E, each once and in order.
Holds(w, E) ==
    /\ Ordered(w) /\ \A i \in 1..Len(w) : w[i] # <<>>
    /\ \A n \in Turn : n \in E <=> \E i \in 1..Len(w) : n \in ToSet(w[i])

LEMMA HoldsMore ==
    ASSUME NEW w \in Seq(Seq(Turn)), NEW v \in Seq(Seq(Turn)), NEW E, Holds(w, E),
           NEW n \in Turn, \A m \in Turn : m \in E => m < n,
           Longer(w, n, v) \/ Larger(w, n, v)
    PROVE  Holds(v, E \cup {n})
<1>1. /\ \A i \in 1..Len(w) : w[i] \in Seq(Turn) /\ Len(w[i]) \in Nat
                                /\ ToSet(w[i]) = {w[i][a] : a \in 1..Len(w[i])}
      /\ \A i \in 1..Len(v) : v[i] \in Seq(Turn) /\ Len(v[i]) \in Nat
      /\ Len(w) \in Nat /\ Len(v) \in Nat
    BY Elements
<1>2. \A i \in 1..Len(w) : \A a \in 1..Len(w[i]) : w[i][a] \in Nat /\ w[i][a] < n
    <2> SUFFICES ASSUME NEW i \in 1..Len(w), NEW a \in 1..Len(w[i])
                 PROVE  w[i][a] \in Nat /\ w[i][a] < n
        OBVIOUS
    <2>1. w[i][a] \in Turn /\ w[i][a] \in ToSet(w[i])
        BY <1>1, Elements
    <2> QED BY <2>1, TurnsAreNumbers DEF Holds
<1>3. \A m \in Turn : m \in E <=> \E i \in 1..Len(w) : m \in ToSet(w[i])
    BY DEF Holds
<1>4. \A i, j \in 1..Len(w) : \A a \in 1..Len(w[i]), b \in 1..Len(w[j]) :
            i < j \/ (i = j /\ a < b) => w[i][a] < w[j][b]
    BY DEF Holds, Ordered
<1>5. CASE Longer(w, n, v)
    <2>1. /\ \A i \in 1..Len(v) : i \in 1..Len(w) \/ i = Len(w) + 1
          /\ \A i \in 1..Len(w) : i \in 1..Len(v) /\ v[i] = w[i]
          /\ Len(w) + 1 \in 1..Len(v) /\ v[Len(w) + 1] = <<n>>
        BY <1>1, <1>5 DEF Longer
    <2>2. Len(<<n>>) = 1 /\ <<n>>[1] = n /\ ToSet(<<n>>) = {n}
        BY Singleton
    <2>3. ASSUME NEW i \in 1..Len(v), NEW j \in 1..Len(v),
                 NEW a \in 1..Len(v[i]), NEW b \in 1..Len(v[j]), i < j \/ (i = j /\ a < b)
          PROVE  v[i][a] < v[j][b]
        <3>1. CASE i \in 1..Len(w) /\ j \in 1..Len(w)
            BY <1>4, <2>1, <2>3, <3>1
        <3>2. CASE i \in 1..Len(w) /\ j = Len(w) + 1
            <4>1. v[j] = <<n>>
                BY <2>1, <3>2
            <4>2. b = 1
                BY <2>2, <4>1
            <4> QED BY <1>2, <2>1, <2>2, <3>2, <4>1, <4>2
        <3>3. CASE i = Len(w) + 1
            <4>1. j = Len(w) + 1
                BY <1>1, <2>1, <2>3, <3>3
            <4>2. v[i] = <<n>> /\ v[j] = <<n>>
                BY <2>1, <3>3, <4>1
            <4>3. a = 1 /\ b = 1
                BY <2>2, <4>2
            <4> QED BY <2>3, <3>3, <4>1, <4>3
        <3> QED BY <2>1, <3>1, <3>2, <3>3
    <2>4. \A i \in 1..Len(v) : v[i] # <<>>
        <3>1. <<n>> # <<>>
            OBVIOUS
        <3> QED BY <2>1, <3>1 DEF Holds
    <2>5. \A m \in Turn : m \in E \cup {n} <=> \E i \in 1..Len(v) : m \in ToSet(v[i])
        BY <1>3, <2>1, <2>2
    <2> QED BY <2>3, <2>4, <2>5 DEF Holds, Ordered
<1>6. CASE Larger(w, n, v)
    <2> DEFINE l == Len(w)
               k == Len(w[l])
    <2>1. /\ l \in 1..l /\ l \in 1..Len(v) /\ Len(v) = l /\ k \in Nat
          /\ \A i \in 1..l : i \in 1..(l - 1) \/ i = l
          /\ \A i \in 1..(l - 1) : i \in 1..l /\ v[i] = w[i]
          /\ v[l] = Append(w[l], n)
        BY <1>1, <1>6 DEF Larger
    <2>2. /\ Len(v[l]) = k + 1 /\ v[l][k + 1] = n /\ \A a \in 1..k : v[l][a] = w[l][a]
          /\ ToSet(v[l]) = ToSet(w[l]) \cup {n}
        BY <1>1, <2>1, Appended
    <2> HIDE DEF k, l
    <2>3. ASSUME NEW i \in 1..Len(v), NEW a \in 1..Len(v[i])
          PROVE  \/ a \in 1..Len(w[i]) /\ v[i][a] = w[i][a]
                 \/ i = l /\ a = k + 1 /\ v[i][a] = n
        <3>1. CASE i \in 1..(l - 1)
            BY <2>1, <3>1
        <3>2. CASE i = l
            <4>1. a \in 1..k \/ a = k + 1
                BY <2>1, <2>2, <3>2
            <4> QED BY <2>2, <3>2, <4>1 DEF k
        <3> QED BY <2>1, <3>1, <3>2
    <2>4. ASSUME NEW i \in 1..Len(v), NEW j \in 1..Len(v),
                 NEW a \in 1..Len(v[i]), NEW b \in 1..Len(v[j]), i < j \/ (i = j /\ a < b)
          PROVE  v[i][a] < v[j][b]
        <3>1. i \in 1..Len(w) /\ j \in 1..Len(w)
            BY <2>1 DEF l
        <3>2. CASE a \in 1..Len(w[i]) /\ v[i][a] = w[i][a]
            <4>1. CASE b \in 1..Len(w[j]) /\ v[j][b] = w[j][b]
                BY <1>4, <2>4, <3>1, <3>2, <4>1
            <4>2. CASE v[j][b] = n
                BY <1>2, <3>1, <3>2, <4>2
            <4> QED BY <2>3, <4>1, <4>2
        <3>3. CASE i = l /\ a = k + 1
            <4>1. FALSE
                <5>1. j \in 1..l /\ l \in Nat
                    BY <1>1, <2>1 DEF l
                <5>2. j = l /\ a < b
                    BY <2>4, <3>3, <5>1
                <5>3. b \in 1..(k + 1)
                    BY <2>2, <5>2
                <5> QED BY <2>1, <3>3, <5>2, <5>3
            <4> QED BY <4>1
        <3> QED BY <2>3, <3>2, <3>3
    <2>5. \A i \in 1..Len(v) : v[i] # <<>>
        <3>1. v[l] # <<>>
            <4>1. Len(v[l]) # 0
                BY <2>1, <2>2
            <4> QED BY <4>1
        <3> QED BY <2>1, <3>1 DEF Holds, l
    <2>6. \A m \in Turn : m \in E \cup {n} <=> \E i \in 1..Len(v) : m \in ToSet(v[i])
        <3>1. \A i \in 1..l : i # l => v[i] = w[i]
            BY <2>1
        <3> QED BY <1>3, <2>1, <2>2, <3>1 DEF l
    <2> QED BY <2>4, <2>5, <2>6 DEF Holds, Ordered
<1> QED BY <1>5, <1>6

Increasing(turns) ==
    \A i, j \in 1..Len(turns) :
        i < j /\ turns[i].role = "user" /\ turns[j].role = "user" => turns[i].turn < turns[j].turn

\* The complete exchanges among the first k turns.
Exchanges(turns, k) == {turns[i].turn : i \in {h \in 1..k : Complete(turns, h)}}

LEMMA GroupingHolds ==
    ASSUME NEW turns \in Seq(Row), Increasing(turns), NEW size
    PROVE  /\ Grouping(turns, size) \in Windowed
           /\ Holds(All(Grouping(turns, size)), Exchanges(turns, Len(turns)))
<1>1. Len(turns) \in Nat /\ \A i \in 1..Len(turns) : turns[i] \in Row /\ turns[i].turn \in Turn
    <2>1. Len(turns) \in Nat /\ \A i \in 1..Len(turns) : turns[i] \in Row
        BY Elements
    <2>2. \A r \in Row : r.turn \in Turn
        BY DEF Row
    <2> QED BY <2>1, <2>2
<1>2. PICK f : Steps(turns, size, f) /\ Grouping(turns, size) = f[Len(turns)]
    BY <1>1, GroupingSteps
<1> DEFINE Good(k) == f[k] \in Windowed /\ Holds(All(f[k]), Exchanges(turns, k))
           S == {k \in Nat : k <= Len(turns) => Good(k)}
<1>3. Good(0)
    <2>1. f[0] = Nothing
        BY <1>2 DEF Steps
    <2>2. Nothing \in Windowed /\ All(Nothing) = <<>>
        BY DEF Nothing, Windowed, All, AsWindow
    <2>3. Exchanges(turns, 0) = {}
        BY DEF Exchanges
    <2>4. Holds(<<>>, {})
        BY DEF Holds, Ordered
    <2> QED BY <2>1, <2>2, <2>3, <2>4
<1>4. ASSUME NEW n \in Nat, n + 1 <= Len(turns), Good(n) PROVE Good(n + 1)
    <2> DEFINE k == n + 1
               t == turns[k].turn
    <2>1. k \in 1..Len(turns) /\ k - 1 = n
        BY <1>1, <1>4
    <2>2. f[k] = Grown(turns, k, size, f[n])
        BY <1>2, <2>1 DEF Steps
    <2>3. CASE ~Complete(turns, k)
        <3>1. f[k] = f[n]
            BY <2>2, <2>3 DEF Grown
        <3>2. Exchanges(turns, k) = Exchanges(turns, n)
            <4>1. \A i \in 1..k : i \in 1..n \/ i = k
                BY <2>1
            <4>2. \A i \in 1..n : i \in 1..k
                BY <2>1
            <4> QED BY <2>3, <4>1, <4>2 DEF Exchanges
        <3> QED BY <1>4, <3>1, <3>2
    <2>4. CASE Complete(turns, k)
        <3>1. f[k] = Take(f[n], t, size) /\ t \in Turn
            BY <1>1, <2>1, <2>2, <2>4 DEF Grown
        <3>2. Exchanges(turns, k) = Exchanges(turns, n) \cup {t}
            <4>1. \A i \in 1..k : i \in 1..n \/ i = k
                BY <2>1
            <4>2. k \in 1..k /\ \A i \in 1..n : i \in 1..k
                BY <2>1
            <4> QED BY <2>4, <4>1, <4>2 DEF Exchanges
        <3>3. \A m \in Turn : m \in Exchanges(turns, n) => m < t
            <4>1. \A i \in 1..n : i \in 1..Len(turns) /\ i < k
                BY <1>1, <2>1
            <4>2. \A i \in 1..n : Complete(turns, i) => turns[i].turn < t
                BY <2>1, <2>4, <4>1 DEF Complete, Increasing
            <4> QED BY <4>2 DEF Exchanges
        <3>4. /\ f[k] \in Windowed
              /\ \/ Longer(All(f[n]), t, All(f[k]))
                 \/ Larger(All(f[n]), t, All(f[k]))
            BY <1>4, <3>1, TakeOne
        <3>5. All(f[n]) \in Seq(Seq(Turn)) /\ All(f[k]) \in Seq(Seq(Turn))
            BY <1>4, <3>4, AllWindows
        <3> HIDE DEF k, t
        <3>6. Holds(All(f[k]), Exchanges(turns, n) \cup {t})
            BY <1>4, <3>1, <3>3, <3>4, <3>5, HoldsMore
        <3> QED BY <3>2, <3>4, <3>6 DEF k
    <2> QED BY <2>3, <2>4
<1>5. Nat \subseteq S
    <2>1. 0 \in S
        BY <1>3
    <2>2. \A n \in Nat : n \in S => n + 1 \in S
        <3> HIDE DEF Good
        <3> QED BY <1>1, <1>4
    <2> HIDE DEF S
    <2> QED BY <2>1, <2>2, Induction
<1>6. Good(Len(turns))
    <2> HIDE DEF Good
    <2> QED BY <1>1, <1>5
<1> QED BY <1>2, <1>6

\* What plan_windows makes of the turns read, for every list of them: complete
\* exchanges only, each once and in order, no empty window, and none is left
\* pending before one that is taken (windowing.py).
THEOREM WindowsHold ==
    ASSUME NEW turns \in Seq(Row), Increasing(turns), NEW size, NEW force,
           NEW w, w = Windows(turns, size, force)
    PROVE  /\ w \in Seq(Seq(Turn)) /\ Ordered(w) /\ \A i \in 1..Len(w) : w[i] # <<>>
           /\ \A i \in 1..Len(w) : \A n \in ToSet(w[i]) : n \in Exchanges(turns, Len(turns))
           /\ \A n \in Turn : n \in Exchanges(turns, Len(turns)) =>
                 \A i \in 1..Len(w) : \A m \in ToSet(w[i]) : n <= m =>
                     \E j \in 1..i : n \in ToSet(w[j])
<1> DEFINE acc == Grouping(turns, size)
           v == All(acc)
           E == Exchanges(turns, Len(turns))
<1>1. acc \in Windowed /\ Holds(v, E)
    BY GroupingHolds
<1>2. acc.done \in Seq(Seq(Turn)) /\ v \in Seq(Seq(Turn))
    BY <1>1, AllWindows DEF Windowed
<1>3. w = v \/ w = acc.done
    BY DEF Windows, All
<1>4. /\ Len(acc.done) \in Nat /\ Len(acc.done) <= Len(v)
      /\ \A i \in 1..Len(acc.done) : v[i] = acc.done[i]
    <2>1. Len(acc.done) \in Nat
        BY <1>2
    <2>2. /\ Len(v) = Len(acc.done) + (IF acc.open = <<>> THEN 0 ELSE 1)
          /\ \A i \in 1..Len(acc.done) : v[i] = acc.done[i]
        BY <1>1, AllWindows
    <2> HIDE DEF acc, v
    <2>3. CASE acc.open = <<>>
        BY <2>1, <2>2, <2>3
    <2>4. CASE acc.open # <<>>
        BY <2>1, <2>2, <2>4
    <2> QED BY <2>3, <2>4
<1> HIDE DEF acc, v, E
<1>5. /\ w \in Seq(Seq(Turn)) /\ Len(w) \in Nat /\ Len(v) \in Nat
      /\ \A i \in 1..Len(w) : i \in 1..Len(v) /\ w[i] = v[i]
    <2>1. CASE w = v
        BY <1>2, <2>1, Elements
    <2>2. CASE w = acc.done
        BY <1>2, <1>4, <2>2, Elements
    <2> QED BY <1>3, <2>1, <2>2
<1>6. Ordered(w)
    <2> SUFFICES ASSUME NEW i \in 1..Len(w), NEW j \in 1..Len(w),
                        NEW a \in 1..Len(w[i]), NEW b \in 1..Len(w[j]), i < j \/ (i = j /\ a < b)
                 PROVE  w[i][a] < w[j][b]
        BY DEF Ordered
    <2>1. i \in 1..Len(v) /\ j \in 1..Len(v) /\ w[i] = v[i] /\ w[j] = v[j]
        BY <1>5
    <2>2. a \in 1..Len(v[i]) /\ b \in 1..Len(v[j])
        BY <2>1
    <2>3. v[i][a] < v[j][b]
        BY <1>1, <2>1, <2>2 DEF Holds, Ordered
    <2> QED BY <2>1, <2>3
<1>7. \A i \in 1..Len(w) : w[i] # <<>> /\ w[i] \in Seq(Turn)
    BY <1>1, <1>2, <1>5, Elements DEF Holds
<1>8. \A i \in 1..Len(v) : \A n \in ToSet(v[i]) : n \in Turn /\ n \in E
    <2>1. \A i \in 1..Len(v) : ToSet(v[i]) \subseteq Turn
        BY <1>2, Elements
    <2> QED BY <1>1, <2>1 DEF Holds
<1>9. ASSUME NEW n \in Turn, n \in E, NEW i \in 1..Len(w), NEW m \in ToSet(w[i]), n <= m
      PROVE  \E j \in 1..i : n \in ToSet(w[j])
    <2>1. PICK j \in 1..Len(v) : n \in ToSet(v[j])
        BY <1>1, <1>9 DEF Holds
    <2>2. i \in 1..Len(v) /\ v[i] \in Seq(Turn) /\ v[j] \in Seq(Turn) /\ w[i] = v[i]
        BY <1>2, <1>5, Elements
    <2>3. PICK a \in 1..Len(v[i]) : m = v[i][a]
        BY <2>2, Elements, SMTT(30)
    <2>4. PICK b \in 1..Len(v[j]) : n = v[j][b]
        BY <2>1, <2>2, Elements
    <2>5. m \in Nat /\ n \in Nat
        BY <2>2, <2>3, Elements, TurnsAreNumbers
    <2>6. ~(i < j)
        <3>1. i < j => m < n
            BY <1>1, <2>2, <2>3, <2>4 DEF Holds, Ordered
        <3> QED BY <1>9, <2>5, <3>1
    <2>7. j \in 1..i /\ j \in 1..Len(w)
        BY <1>5, <2>6
    <2> QED BY <1>5, <2>1, <2>7
<1> QED BY <1>5, <1>6, <1>7, <1>8, <1>9 DEF E

-----------------------------------------------------------------------------
(* What a pass reads *)

Watermark == {NoCursor} \cup 0..Len(rows)

\* The position after which messages are read.
Start(w) == IF w > base THEN w ELSE base

LEMMA RowsAre ==
    ASSUME TypeOK
    PROVE  /\ rows \in Seq(Row) /\ Len(rows) \in Nat /\ base \in Nat /\ base <= Len(rows)
           /\ \A i \in 1..Len(rows) : /\ rows[i] \in Row /\ rows[i].turn \in Turn
                                      /\ rows[i].role \in {"user", "agent"}
                                      /\ rows[i] = User(rows[i].turn) \/ rows[i] = Agent(rows[i].turn)
<1>1. rows \in Seq(Row) /\ Len(rows) \in Nat /\ base \in Nat /\ base <= Len(rows)
    BY DEF TypeOK
<1>2. \A i \in 1..Len(rows) : rows[i] \in Row
    BY <1>1, Elements
<1>3. \A r \in Row : /\ r.turn \in Turn /\ r.role \in {"user", "agent"}
                     /\ r = User(r.turn) \/ r = Agent(r.turn)
    BY DEF Row, User, Agent
<1> QED BY <1>1, <1>2, <1>3

LEMMA UserAgent ==
    /\ \A n \in Turn : /\ User(n) \in Row /\ User(n).turn = n /\ User(n).role = "user"
                       /\ Agent(n) \in Row /\ Agent(n).turn = n /\ Agent(n).role = "agent"
    /\ \A m, n \in Turn : User(m) # Agent(n)
    BY DEF Row, User, Agent

LEMMA AfterIs ==
    ASSUME TypeOK, NEW w \in Watermark
    PROVE  /\ Start(w) \in 0..Len(rows) /\ Start(w) >= base /\ Start(w) >= w
           /\ After(w) \in Seq(Row) /\ Len(After(w)) = Len(rows) - Start(w)
           /\ \A i \in 1..(Len(rows) - Start(w)) : After(w)[i] = rows[Start(w) + i]
<1>1. w \in Int /\ w <= Len(rows) /\ Len(rows) \in Nat /\ base \in Nat /\ base <= Len(rows)
    BY RowsAre DEF Watermark, NoCursor
<1>2. Start(w) \in 0..Len(rows) /\ Start(w) >= base /\ Start(w) >= w
    BY <1>1 DEF Start
<1>3. After(w) = SubSeq(rows, Start(w) + 1, Len(rows))
    BY DEF After, Start
<1> DEFINE b == Start(w)
<1> HIDE DEF b
<1>4. \A i \in (b + 1)..Len(rows) : rows[i] \in Row
    BY <1>1, <1>2, RowsAre DEF b
<1>5. /\ SubSeq(rows, b + 1, Len(rows)) \in Seq(Row)
      /\ Len(SubSeq(rows, b + 1, Len(rows))) = Len(rows) - b
      /\ \A i \in 1..(Len(rows) - b) : SubSeq(rows, b + 1, Len(rows))[i] = rows[b + i]
    BY <1>1, <1>2, <1>4, RowsAre DEF b
<1> QED BY <1>2, <1>3, <1>5 DEF b

\* What a pass reads is what is stored after its watermark, and its own reply
\* when that is not there.
LEMMA PendingIs ==
    ASSUME TypeOK, NEW p \in Pass, NEW w \in Watermark
    PROVE  LET l == Len(rows) - Start(w)
               turns == Pending(p, w)
           IN  /\ turns \in Seq(Row)
               /\ \A i \in 1..l : turns[i] = rows[Start(w) + i]
               /\ \/ Len(turns) = l /\ (p = Sweep \/ \E i \in 1..l : turns[i] = Agent(p))
                  \/ Len(turns) = l + 1 /\ p \in Turn /\ turns[l + 1] = Agent(p)
<1> DEFINE l == Len(rows) - Start(w)
           turns == Pending(p, w)
<1>1. After(w) \in Seq(Row) /\ Len(After(w)) = l /\ \A i \in 1..l : After(w)[i] = rows[Start(w) + i]
    BY AfterIs
<1>2. CASE p = Sweep \/ \E i \in 1..Len(After(w)) : After(w)[i] = Agent(p)
    <2>1. turns = After(w)
        BY <1>2 DEF Pending
    <2> QED BY <1>1, <1>2, <2>1
<1>3. CASE ~(p = Sweep \/ \E i \in 1..Len(After(w)) : After(w)[i] = Agent(p))
    <2>1. turns = Append(After(w), Agent(p))
        BY <1>3 DEF Pending
    <2>2. p \in Turn /\ Agent(p) \in Row
        BY <1>3, UserAgent DEF Pass
    <2>3. /\ turns \in Seq(Row) /\ Len(turns) = l + 1 /\ turns[l + 1] = Agent(p)
          /\ \A i \in 1..l : turns[i] = After(w)[i]
        BY <1>1, <2>1, <2>2, Appended
    <2> QED BY <1>1, <2>2, <2>3
<1> QED BY <1>2, <1>3

LEMMA PendingUsers ==
    ASSUME TypeOK, NEW p \in Pass, NEW w \in Watermark, NEW i \in 1..Len(Pending(p, w)),
           Pending(p, w)[i].role = "user"
    PROVE  Start(w) + i \in 1..Len(rows) /\ Pending(p, w)[i] = rows[Start(w) + i]
<1> DEFINE l == Len(rows) - Start(w)
           turns == Pending(p, w)
<1>1. Start(w) \in 0..Len(rows) /\ Len(rows) \in Nat /\ l \in Nat
    BY AfterIs, RowsAre
<1>2. i \in 1..l
    <2>1. CASE Len(turns) = l
        BY <2>1
    <2>2. CASE Len(turns) = l + 1 /\ p \in Turn /\ turns[l + 1] = Agent(p)
        <3>1. i # l + 1
            BY <2>2, UserAgent
        <3> HIDE DEF l
        <3> QED BY <1>1, <2>2, <3>1
    <2> QED BY <2>1, <2>2, PendingIs
<1>3. turns[i] = rows[Start(w) + i]
    BY <1>2, PendingIs
<1> QED BY <1>1, <1>2, <1>3

LEMMA PendingHold ==
    ASSUME TypeOK, LogInv, NEW p \in Pass, NEW w \in Watermark
    PROVE  /\ Pending(p, w) \in Seq(Row) /\ Increasing(Pending(p, w))
           /\ \A n \in Exchanges(Pending(p, w), Len(Pending(p, w))) :
                 /\ n \in Turn
                 /\ \E i \in 1..Len(rows) : i > Start(w) /\ rows[i] = User(n)
<1> DEFINE turns == Pending(p, w)
<1>1. turns \in Seq(Row)
    BY PendingIs
<1>2. Start(w) \in Nat
    BY AfterIs
<1>3. \A i \in 1..Len(turns) : turns[i].role = "user" =>
          Start(w) + i \in 1..Len(rows) /\ turns[i] = rows[Start(w) + i]
    BY PendingUsers
<1> HIDE DEF turns
<1>4. Increasing(turns)
    <2> SUFFICES ASSUME NEW i \in 1..Len(turns), NEW j \in 1..Len(turns), i < j,
                        turns[i].role = "user", turns[j].role = "user"
                 PROVE  turns[i].turn < turns[j].turn
        BY DEF Increasing
    <2>1. Start(w) + i < Start(w) + j
        BY <1>2
    <2> QED BY <1>3, <2>1 DEF LogInv
<1>5. ASSUME NEW n \in Exchanges(turns, Len(turns))
      PROVE  n \in Turn /\ \E i \in 1..Len(rows) : i > Start(w) /\ rows[i] = User(n)
    <2>1. PICK i \in 1..Len(turns) : Complete(turns, i) /\ n = turns[i].turn
        BY DEF Exchanges
    <2>2. turns[i].role = "user"
        BY <2>1 DEF Complete
    <2>3. Start(w) + i \in 1..Len(rows) /\ turns[i] = rows[Start(w) + i]
        BY <1>3, <2>2
    <2>4. rows[Start(w) + i].turn = n /\ rows[Start(w) + i].role = "user"
        BY <2>1, <2>2, <2>3
    <2>5. n \in Turn /\ rows[Start(w) + i] = User(n)
        BY <2>3, <2>4, RowsAre, UserAgent
    <2>6. Start(w) + i > Start(w)
        BY <1>2
    <2> QED BY <2>3, <2>5, <2>6
<1> QED BY <1>1, <1>4, <1>5 DEF turns

\* A message is at its position.
LEMMA AtIs ==
    ASSUME TypeOK, LogInv, NEW n \in Turn, NEW i \in 1..Len(rows), rows[i] = User(n)
    PROVE  At(n) = i
<1>1. \A j \in 1..Len(rows) : rows[j] = User(n) => j = i
    <2> SUFFICES ASSUME NEW j \in 1..Len(rows), rows[j] = User(n), j # i PROVE FALSE
        OBVIOUS
    <2>1. n \in Nat /\ User(n).role = "user" /\ User(n).turn = n
        BY UserAgent, TurnsAreNumbers
    <2>2. n < n
        BY <2>1, RowsAre DEF LogInv
    <2> QED BY <2>1, <2>2
<1>2. At(n) \in 1..Len(rows) /\ rows[At(n)] = User(n)
    BY DEF At, PositionOf
<1> QED BY <1>1, <1>2

\* Positions of turns that have begun are in the order of the turns.
LEMMA Positions ==
    ASSUME TypeOK, LogInv
    PROVE  /\ \A n \in Turn : reply[n] # "none" =>
                 At(n) \in 1..Len(rows) /\ rows[At(n)] = User(n)
           /\ \A m, n \in Turn : reply[m] # "none" /\ reply[n] # "none" /\ m < n => At(m) < At(n)
<1>1. ASSUME NEW n \in Turn, reply[n] # "none"
      PROVE  At(n) \in 1..Len(rows) /\ rows[At(n)] = User(n)
    <2>1. PICK i \in 1..Len(rows) : rows[i] = User(n)
        BY <1>1 DEF LogInv
    <2> QED BY <2>1, AtIs
<1>2. ASSUME NEW m \in Turn, NEW n \in Turn, reply[m] # "none", reply[n] # "none", m < n
      PROVE  At(m) < At(n)
    <2>1. /\ At(m) \in 1..Len(rows) /\ rows[At(m)] = User(m)
          /\ At(n) \in 1..Len(rows) /\ rows[At(n)] = User(n)
        BY <1>1, <1>2
    <2>2. m \in Nat /\ n \in Nat
        BY TurnsAreNumbers
    <2>3. At(n) < At(m) => n < m
        BY <2>1, UserAgent DEF LogInv
    <2>4. At(n) = At(m) => n = m
        BY <2>1, UserAgent
    <2> QED BY <1>2, <2>1, <2>2, <2>3, <2>4
<1> QED BY <1>1, <1>2

-----------------------------------------------------------------------------
(* Types *)

Place == {"idle", "begin", "list", "pin", "read", "add", "advance"}

\* The part of the types that is about passes.
PassTypes ==
    /\ pc \in [Pass -> Place]
    /\ from \in [Pass -> Watermark]
    /\ upTo \in [Pass -> 0..Len(rows)]
    /\ plan \in [Pass -> Seq(Seq(Turn))]
    /\ \A p \in Pass : plan[p] # <<>> <=> pc[p] \in {"add", "advance"}

LogTypes ==
    /\ rows \in Seq(Row) /\ base \in 0..Len(rows)
    /\ told \in [Turn -> Nat]
    /\ opening \in [Turn -> {"joins", "splits", "alone"}]
    /\ reply \in [Turn -> {"none", "thinking", "due", "stored", "lost"}]
    /\ interrupted \in 0..MaxEvents /\ events \in 0..MaxEvents

CursorTypes == cursor \in Watermark /\ pinned \in 0..Len(rows)

Typed == LogTypes /\ PassTypes /\ CursorTypes /\ interrupted <= events

LEMMA TypeParts == TypeOK <=> LogTypes /\ PassTypes /\ CursorTypes
    BY DEF TypeOK, LogTypes, PassTypes, CursorTypes, Place, Watermark

LEMMA TypedEnough == Typed => TypeOK /\ interrupted <= events
    BY TypeParts DEF Typed

TypeInv == TypeOK /\ LogInv /\ PlanInv /\ AnsweredInv /\ interrupted <= events

\* Rows are only added.
LEMMA MoreRows ==
    ASSUME TypeOK, NEW r \in Row, rows' = Append(rows, r)
    PROVE  /\ rows' \in Seq(Row) /\ Len(rows') = Len(rows) + 1
           /\ \A i \in 1..Len(rows) : rows'[i] = rows[i]
           /\ rows'[Len(rows) + 1] = r
           /\ 0..Len(rows) \subseteq 0..Len(rows') /\ Watermark \subseteq Watermark'
<1>1. /\ rows' \in Seq(Row) /\ Len(rows') = Len(rows) + 1 /\ Len(rows) \in Nat
      /\ \A i \in 1..Len(rows) : rows'[i] = rows[i]
      /\ rows'[Len(rows) + 1] = r
    BY RowsAre, Appended
<1>2. 0..Len(rows) \subseteq 0..Len(rows')
    BY <1>1
<1> QED BY <1>1, <1>2 DEF Watermark

LEMMA PassesKeep ==
    ASSUME TypeOK, UNCHANGED pass, 0..Len(rows) \subseteq 0..Len(rows')
    PROVE  PassTypes'
    BY TypeParts DEF PassTypes, Watermark, pass

LEMMA GotoTypes ==
    ASSUME TypeOK, NEW p \in Pass, NEW l \in Place, Goto(p, l), UNCHANGED rows,
           \/ UNCHANGED plan /\ (plan[p] # <<>> <=> l \in {"add", "advance"})
           \/ /\ plan' \in [Pass -> Seq(Seq(Turn))]
              /\ \A q \in Pass : q # p => plan'[q] = plan[q]
              /\ plan'[p] # <<>> <=> l \in {"add", "advance"}
    PROVE  PassTypes'
<1>1. /\ pc' \in [Pass -> Place] /\ pc'[p] = l
      /\ \A q \in Pass : q # p => pc'[q] = pc[q]
    BY TypeParts DEF Goto, PassTypes
<1>2. from' \in [Pass -> Watermark']
    BY TypeParts DEF Goto, PassTypes, Watermark
<1>3. upTo' \in [Pass -> 0..Len(rows')]
    BY TypeParts, RowsAre DEF Goto, PassTypes
<1>4. plan' \in [Pass -> Seq(Seq(Turn))] /\ \A q \in Pass : q # p => plan'[q] = plan[q]
    BY TypeParts DEF PassTypes
<1>5. \A q \in Pass : plan'[q] # <<>> <=> pc'[q] \in {"add", "advance"}
    BY <1>1, <1>4, TypeParts DEF PassTypes
<1> QED BY <1>1, <1>2, <1>3, <1>4, <1>5 DEF PassTypes

LEMMA GoTypes ==
    ASSUME TypeOK, NEW p \in Pass, NEW l \in Place \ {"add", "advance"}, NEW w \in Watermark,
           Go(p, l, w), UNCHANGED <<rows, plan>>, pc[p] \notin {"add", "advance"}
    PROVE  PassTypes'
<1>1. /\ pc' \in [Pass -> Place] /\ pc'[p] = l
      /\ \A q \in Pass : q # p => pc'[q] = pc[q]
    BY TypeParts DEF Go, PassTypes
<1>2. from' \in [Pass -> Watermark']
    BY TypeParts DEF Go, PassTypes, Watermark
<1>3. upTo' \in [Pass -> 0..Len(rows')]
    BY TypeParts, RowsAre DEF Go, PassTypes
<1> QED BY <1>1, <1>2, <1>3, TypeParts DEF PassTypes

LEMMA DisturbBound ==
    ASSUME events \in 0..MaxEvents, NEW kind, Disturb(kind)
    PROVE  events' \in 0..MaxEvents /\ events' = events + 1
    BY TurnAssumption DEF Disturb

\* What Plan puts in the plan.
LEMMA Planned ==
    ASSUME TypeOK, LogInv, NEW p \in Pass, Plan(p)
    PROVE  \E size \in WindowSizes, l \in Place :
              /\ plan' = [plan EXCEPT ![p] = Windows(Pending(p, from[p]), size, Forced(p))]
              /\ Goto(p, l) /\ plan'[p] = Windows(Pending(p, from[p]), size, Forced(p))
              /\ plan'[p] # <<>> <=> l = "add"
              /\ plan'[p] = <<>> <=> l = "idle"
              /\ plan'[p] \in Seq(Seq(Turn))
<1>1. PICK size \in WindowSizes :
        /\ plan' = [plan EXCEPT ![p] = Windows(Pending(p, from[p]), size, Forced(p))]
        /\ Goto(p, IF Windows(Pending(p, from[p]), size, Forced(p)) = <<>> THEN "idle" ELSE "add")
    BY DEF Plan
<1>2. from[p] \in Watermark /\ plan \in [Pass -> Seq(Seq(Turn))]
    BY TypeParts DEF PassTypes
<1> DEFINE w == Windows(Pending(p, from[p]), size, Forced(p))
<1>3. w \in Seq(Seq(Turn))
    BY <1>2, PendingHold, WindowsHold
<1> HIDE DEF w
<1>4. plan' = [plan EXCEPT ![p] = w] /\ Goto(p, IF w = <<>> THEN "idle" ELSE "add")
    BY <1>1 DEF w
<1>5. plan'[p] = w
    BY <1>2, <1>4
<1>6. PICK l \in Place :
          /\ Goto(p, l)
          /\ plan'[p] # <<>> <=> l = "add"
          /\ plan'[p] = <<>> <=> l = "idle"
    <2>1. CASE w = <<>>
        BY <1>4, <1>5, <2>1 DEF Place
    <2>2. CASE w # <<>>
        BY <1>4, <1>5, <2>2 DEF Place
    <2> QED BY <2>1, <2>2
<1>7. plan'[p] \in Seq(Seq(Turn))
    BY <1>3, <1>5
<1>8. /\ plan' = [plan EXCEPT ![p] = w]
      /\ Goto(p, l) /\ plan'[p] = w
      /\ plan'[p] # <<>> <=> l = "add"
      /\ plan'[p] = <<>> <=> l = "idle"
      /\ plan'[p] \in Seq(Seq(Turn))
    BY <1>4, <1>5, <1>6, <1>7, Zenon
<1> QED BY <1>8, Zenon DEF w

\* The window at the head of a plan, and the others.
LEMMA HeadAndTail ==
    ASSUME TypeOK, PlanInv, NEW p \in Pass, pc[p] \in {"add", "advance"}
    PROVE  /\ plan[p] \in Seq(Seq(Turn)) /\ Len(plan[p]) \in Nat /\ 1 \in 1..Len(plan[p])
           /\ Head(plan[p]) = plan[p][1]
           /\ Tail(plan[p]) \in Seq(Seq(Turn)) /\ Len(Tail(plan[p])) = Len(plan[p]) - 1
           /\ \A i \in 1..Len(Tail(plan[p])) :
                 i + 1 \in 1..Len(plan[p]) /\ Tail(plan[p])[i] = plan[p][i + 1]
           /\ Last(Head(plan[p])) \in Turn /\ Last(Head(plan[p])) \in ToSet(Head(plan[p]))
           /\ \A n \in ToSet(Head(plan[p])) : n \in Turn /\ n <= Last(Head(plan[p]))
<1>1. plan[p] \in Seq(Seq(Turn)) /\ plan[p] # <<>>
    BY TypeParts DEF PassTypes
<1> DEFINE s == plan[p]
           h == Head(s)
<1> HIDE DEF s
<1>2. Len(s) \in Nat /\ 1 \in 1..Len(s) /\ h = s[1]
    BY <1>1 DEF s
<1>3. Tail(s) \in Seq(Seq(Turn)) /\ Len(Tail(s)) = Len(s) - 1
    BY <1>1 DEF s
<1>4. \A i \in 1..Len(Tail(s)) : i + 1 \in 1..Len(s) /\ Tail(s)[i] = s[i + 1]
    BY <1>1, <1>2, <1>3 DEF s
<1>5. h \in Seq(Turn) /\ h # <<>> /\ Ordered(s)
    BY <1>1, <1>2, Elements DEF PlanInv, s
<1>6. Len(h) \in Nat /\ Len(h) \in 1..Len(h) /\ ToSet(h) = {h[a] : a \in 1..Len(h)}
    BY <1>5, Elements
<1>7. Last(h) = h[Len(h)] /\ Last(h) \in Turn /\ Last(h) \in ToSet(h)
    BY <1>5, <1>6, Elements DEF Last
<1>8. ASSUME NEW n \in ToSet(h) PROVE n \in Turn /\ n <= Last(h)
    <2>1. PICK a \in 1..Len(h) : n = h[a]
        BY <1>6
    <2>2. n \in Turn /\ n \in Nat /\ Last(h) \in Nat
        BY <1>5, <1>7, <2>1, Elements, TurnsAreNumbers
    <2>3. a < Len(h) => n < Last(h)
        BY <1>2, <1>5, <1>6, <1>7, <2>1 DEF Ordered
    <2>4. a = Len(h) => n = Last(h)
        BY <1>7, <2>1
    <2> QED BY <1>6, <2>2, <2>3, <2>4
<1> QED BY <1>1, <1>2, <1>3, <1>4, <1>7, <1>8 DEF s

LEMMA TypeStep == ASSUME TypeInv, [Next]_vars PROVE TypeOK' /\ (interrupted <= events)'
<1>3. SUFFICES Typed'
    BY TypedEnough, PTL
<1> USE DEF pass, Typed
<1>1. TypeOK /\ LogInv /\ PlanInv /\ LogTypes /\ PassTypes /\ CursorTypes
    BY TypeParts DEF TypeInv
<1>2. /\ interrupted <= events /\ interrupted \in Nat /\ events \in Nat /\ events \in 0..MaxEvents
      /\ Len(rows) \in Nat /\ base \in Nat /\ base <= Len(rows)
    BY <1>1, RowsAre DEF TypeInv, LogTypes
<1>4. ASSUME NEW n \in Turn, Arrive(n) PROVE Typed'
    <2>1. rows' = Append(rows, User(n)) /\ User(n) \in Row
        BY <1>4, UserAgent DEF Arrive
    <2>2. /\ rows' \in Seq(Row) /\ 0..Len(rows) \subseteq 0..Len(rows')
          /\ Watermark \subseteq Watermark'
        BY <1>1, <2>1, MoreRows
    <2>3. LogTypes'
        BY <1>1, <1>4, <2>2, OpeningAssumption DEF Arrive, LogTypes
    <2>4. PassTypes'
        BY <1>1, <1>4, <2>2, PassesKeep DEF Arrive
    <2> QED BY <1>1, <1>2, <1>4, <2>2, <2>3, <2>4 DEF Arrive, CursorTypes
<1>5. ASSUME NEW n \in Turn, StoreReply(n) PROVE Typed'
    <2>1. rows' = Append(rows, Agent(n)) /\ Agent(n) \in Row
        BY <1>5, UserAgent DEF StoreReply
    <2>2. /\ rows' \in Seq(Row) /\ 0..Len(rows) \subseteq 0..Len(rows')
          /\ Watermark \subseteq Watermark'
        BY <1>1, <2>1, MoreRows
    <2>3. LogTypes'
        BY <1>1, <1>5, <2>2 DEF StoreReply, LogTypes
    <2>4. PassTypes'
        BY <1>1, <1>5, <2>2, PassesKeep DEF StoreReply
    <2> QED BY <1>1, <1>2, <1>5, <2>2, <2>3, <2>4 DEF StoreReply, CursorTypes
<1>6. ASSUME NEW n \in Turn, RunFails(n) \/ StoreFails(n) PROVE Typed'
    <2>1. events' \in 0..MaxEvents /\ events' = events + 1
        BY <1>2, <1>6, DisturbBound DEF RunFails, StoreFails
    <2>2. LogTypes'
        BY <1>1, <1>6, <2>1 DEF RunFails, StoreFails, LogTypes
    <2>3. PassTypes'
        BY <1>1, <1>6, PassesKeep DEF RunFails, StoreFails
    <2> QED BY <1>1, <1>2, <1>6, <2>1, <2>2, <2>3 DEF RunFails, StoreFails, CursorTypes, Watermark
<1>7. ASSUME NEW n \in Turn, Answer(n) PROVE Typed'
    <2>1. LogTypes'
        BY <1>1, <1>7 DEF Answer, LogTypes
    <2>2. plan[n] = <<>> /\ n \in Pass
        BY <1>1, <1>7 DEF Answer, PassTypes, TypeInv, AnsweredInv, Pass
    <2> QED BY <1>1, <1>2, <1>7, <2>1, <2>2
            DEF Answer, PassTypes, CursorTypes, Watermark, Place
<1>8. CASE StartSweep
    <2>1. LogTypes'
        BY <1>1, <1>8 DEF StartSweep, LogTypes
    <2> QED BY <1>1, <1>2, <1>8, <2>1 DEF StartSweep, PassTypes, CursorTypes, Watermark, Place, Pass, Quiet
<1>9. ASSUME NEW p \in Pass, ReadCursor(p) PROVE Typed'
    <2>1. PassTypes'
        <3>1. PICK l \in {"list", "read"} : Go(p, l, cursor)
            BY <1>9 DEF ReadCursor
        <3> QED BY <1>1, <1>9, <3>1, GoTypes DEF ReadCursor, CursorTypes, Place
    <2> QED BY <1>1, <1>2, <1>9, <2>1 DEF ReadCursor, LogTypes, CursorTypes, Watermark
<1>10. ASSUME NEW p \in Pass, ListAll(p) PROVE Typed'
    <2>1. PassTypes'
        <3>1. PICK l \in {"idle", "pin"} : Goto(p, l)
            BY <1>10 DEF ListAll
        <3>2. plan[p] = <<>> /\ UNCHANGED <<rows, plan>>
            BY <1>1, <1>10 DEF ListAll, PassTypes
        <3> QED BY <1>1, <3>1, <3>2, GotoTypes DEF Place
    <2> QED BY <1>1, <1>2, <1>10, <2>1 DEF ListAll, LogTypes, CursorTypes, Watermark
<1>11. ASSUME NEW p \in Pass, Pin(p) PROVE Typed'
    <2>1. upTo[p] \in 0..Len(rows)
        BY <1>1 DEF PassTypes
    <2>2. cursor' \in 0..Len(rows)
        BY <1>2, <1>11, <2>1 DEF Pin
    <2>3. PassTypes'
        BY <1>1, <1>11, <2>2, GoTypes DEF Pin, Place, Watermark
    <2>4. pinned' \in 0..Len(rows)
        BY <1>1, <1>11, <2>2 DEF Pin, CursorTypes
    <2> QED BY <1>1, <1>2, <1>11, <2>2, <2>3, <2>4 DEF Pin, LogTypes, CursorTypes, Watermark
<1>12. ASSUME NEW p \in Pass, Plan(p) PROVE Typed'
    <2>1. PassTypes'
        <3>1. PICK size \in WindowSizes, l \in Place :
                 /\ plan' = [plan EXCEPT ![p] = Windows(Pending(p, from[p]), size, Forced(p))]
                 /\ Goto(p, l) /\ plan'[p] = Windows(Pending(p, from[p]), size, Forced(p))
                 /\ plan'[p] # <<>> <=> l = "add"
                 /\ plan'[p] = <<>> <=> l = "idle"
                 /\ plan'[p] \in Seq(Seq(Turn))
            BY <1>1, <1>12, Planned
        <3>2. /\ plan' \in [Pass -> Seq(Seq(Turn))]
              /\ \A q \in Pass : q # p => plan'[q] = plan[q]
            BY <1>1, <3>1 DEF PassTypes
        <3>3. plan'[p] # <<>> <=> l \in {"add", "advance"}
            BY <3>1
        <3> QED BY <1>1, <1>12, <3>1, <3>2, <3>3, GotoTypes DEF Plan
    <2> QED BY <1>1, <1>2, <1>12, <2>1 DEF Plan, LogTypes, CursorTypes, Watermark
<1>13. ASSUME NEW p \in Pass, Add(p) PROVE Typed'
    <2>1. PassTypes'
        <3>1. plan[p] # <<>> /\ UNCHANGED <<rows, plan>> /\ Goto(p, "advance")
            BY <1>1, <1>13 DEF Add, PassTypes
        <3> QED BY <1>1, <3>1, GotoTypes DEF Place
    <2> QED BY <1>1, <1>2, <1>13, <2>1 DEF Add, LogTypes, CursorTypes, Watermark
<1>14. ASSUME NEW p \in Pass, PassFails(p) PROVE Typed'
    <2>1. PassTypes'
        <3>1. /\ plan' \in [Pass -> Seq(Seq(Turn))] /\ plan'[p] = <<>>
              /\ \A q \in Pass : q # p => plan'[q] = plan[q]
              /\ UNCHANGED rows /\ Goto(p, "idle")
            BY <1>1, <1>14 DEF PassFails, PassTypes
        <3> QED BY <1>1, <3>1, GotoTypes DEF Place
    <2>2. events' \in 0..MaxEvents /\ events' = events + 1
        BY <1>2, <1>14, DisturbBound DEF PassFails
    <2>3. interrupted' \in {interrupted, interrupted + 1}
        BY <1>14 DEF PassFails
    <2>4. UNCHANGED <<rows, base, cursor, told, opening, reply, pinned>>
        BY <1>14 DEF PassFails
    <2>5. LogTypes' /\ (interrupted <= events)'
        BY <1>1, <1>2, <2>2, <2>3, <2>4, TurnAssumption DEF LogTypes
    <2> QED BY <1>1, <2>1, <2>4, <2>5 DEF CursorTypes, Watermark
<1>15. ASSUME NEW p \in Pass, Advance(p) PROVE Typed'
    <2>1. pc[p] = "advance" /\ NextWindow(p) /\ UNCHANGED rows
          /\ cursor' = At(Last(Head(plan[p])))
        BY <1>15 DEF Advance, At
    <2>2. /\ Last(Head(plan[p])) \in Turn /\ Last(Head(plan[p])) \in ToSet(plan[p][1])
          /\ 1 \in 1..Len(plan[p]) /\ Tail(plan[p]) \in Seq(Seq(Turn))
        BY <1>1, <2>1, HeadAndTail
    <2>3. cursor' \in 1..Len(rows)
        BY <1>1, <2>1, <2>2, Positions DEF PlanInv
    <2>4. PassTypes'
        <3>1. PICK l \in {"idle", "add"} : Goto(p, l) /\ (l = "idle" <=> Tail(plan[p]) = <<>>)
            BY <2>1 DEF NextWindow
        <3>2. plan' = [plan EXCEPT ![p] = Tail(plan[p])]
            BY <2>1 DEF NextWindow
        <3>3. /\ plan' \in [Pass -> Seq(Seq(Turn))] /\ plan'[p] = Tail(plan[p])
              /\ \A q \in Pass : q # p => plan'[q] = plan[q]
            BY <1>1, <2>2, <3>2 DEF PassTypes
        <3>4. plan'[p] # <<>> <=> l \in {"add", "advance"}
            BY <3>1, <3>3
        <3> QED BY <1>1, <2>1, <3>1, <3>3, <3>4, GotoTypes DEF Place
    <2>5. CursorTypes'
        BY <1>1, <1>2, <1>15, <2>3 DEF Advance, CursorTypes, Watermark
    <2> QED BY <1>1, <1>2, <1>15, <2>4, <2>5 DEF Advance, LogTypes
<1>16. CASE Clear
    <2>1. events' \in 0..MaxEvents /\ events' = events + 1
        BY <1>2, <1>16, DisturbBound DEF Clear
    <2>2. LogTypes'
        BY <1>1, <1>2, <1>16, <2>1 DEF Clear, LogTypes
    <2>3. PassTypes'
        BY <1>1, <1>16, PassesKeep DEF Clear
    <2> QED BY <1>1, <1>2, <1>16, <2>1, <2>2, <2>3 DEF Clear, CursorTypes, Watermark
<1>17. CASE Kill
    <2>1. events' \in 0..MaxEvents /\ events' = events + 1
        BY <1>2, <1>17, DisturbBound DEF Kill
    <2>2. interrupted' \in {interrupted, interrupted + 1}
        BY <1>17 DEF Kill
    <2>3. LogTypes'
        BY <1>1, <1>2, <1>17, <2>1, <2>2, TurnAssumption DEF Kill, LogTypes
    <2>4. PassTypes'
        BY <1>1, <1>2, <1>17 DEF Kill, PassTypes, Watermark, Place
    <2> QED BY <1>1, <1>2, <1>17, <2>1, <2>2, <2>3, <2>4 DEF Kill, CursorTypes, Watermark
<1>18. CASE UNCHANGED vars
    BY <1>1, <1>2, <1>18, PassesKeep DEF vars, LogTypes, CursorTypes, Watermark
<1>19. ASSUME NEW p \in Pass, Step(p) \/ PassFails(p)
       PROVE  Typed'
    BY <1>9, <1>10, <1>11, <1>12, <1>13, <1>14, <1>15, <1>19, Zenon DEF Step
<1>20. CASE Next
    BY <1>4, <1>5, <1>6, <1>7, <1>8, <1>16, <1>17, <1>19, <1>20, Zenon DEF Next
<1> QED BY <1>18, <1>20

\* A turn that has begun stays so; another one begins only when it arrives.
LEMMA Beginning ==
    ASSUME TypeOK, [Next]_vars
    PROVE  /\ \A n \in Turn : reply[n] # "none" => reply'[n] # "none"
           /\ \A n \in Turn : reply[n] = "none" => reply'[n] = "none" \/ Arrive(n)
<1> USE DEF pass
<1>1. reply \in [Turn -> {"none", "thinking", "due", "stored", "lost"}]
    BY DEF TypeOK
<1>2. ASSUME NEW m \in Turn, Arrive(m) PROVE \A n \in Turn : n # m => reply'[n] = reply[n]
    BY <1>1, <1>2 DEF Arrive
<1>3. ASSUME NEW m \in Turn, RunFails(m) \/ Answer(m) \/ StoreReply(m) \/ StoreFails(m)
      PROVE  reply[m] # "none" /\ reply'[m] # "none" /\ \A n \in Turn : n # m => reply'[n] = reply[n]
    BY <1>1, <1>3 DEF RunFails, Answer, StoreReply, StoreFails
<1>4. ASSUME NEW p \in Pass, Step(p) \/ PassFails(p) PROVE UNCHANGED reply
    BY <1>4 DEF Step, ReadCursor, ListAll, Pin, Plan, Add, Advance, PassFails
<1>5. CASE StartSweep \/ Clear \/ UNCHANGED vars
    BY <1>5 DEF StartSweep, Clear, vars
<1>6. CASE Kill
    <2>1. \A n \in Turn : reply'[n] = reply[n] \/ (reply[n] # "none" /\ reply'[n] = "lost")
        BY <1>6 DEF Kill
    <2> QED BY <2>1
<1>7. CASE \E m \in Turn : Arrive(m)
    <2>1. PICK m \in Turn : Arrive(m)
        BY <1>7
    <2>2. reply[m] = "none" /\ reply'[m] # "none"
        BY <1>1, <2>1 DEF Arrive
    <2> QED BY <1>2, <2>1, <2>2
<1>8. CASE \E m \in Turn : RunFails(m) \/ Answer(m) \/ StoreReply(m) \/ StoreFails(m)
    BY <1>3, <1>8
<1>9. CASE \E p \in Pass : Step(p) \/ PassFails(p)
    BY <1>4, <1>9
<1> QED BY <1>5, <1>6, <1>7, <1>8, <1>9, Zenon DEF Next

\* Rows are only added, at an arrival and when a reply is stored.
LEMMA Growing ==
    ASSUME [Next]_vars
    PROVE  \/ UNCHANGED rows
           \/ \E n \in Turn : Arrive(n) \/ StoreReply(n)
<1> USE DEF pass
<1>1. ASSUME NEW m \in Turn, RunFails(m) \/ Answer(m) \/ StoreFails(m) PROVE UNCHANGED rows
    BY <1>1 DEF RunFails, Answer, StoreFails
<1>2. ASSUME NEW p \in Pass, Step(p) \/ PassFails(p) PROVE UNCHANGED rows
    BY <1>2 DEF Step, ReadCursor, ListAll, Pin, Plan, Add, Advance, PassFails
<1>3. CASE StartSweep \/ Clear \/ Kill \/ UNCHANGED vars
    BY <1>3 DEF StartSweep, Clear, Kill, vars
<1> QED BY <1>1, <1>2, <1>3, Zenon DEF Next

LEMMA LogStep == ASSUME TypeOK, LogInv, [Next]_vars PROVE LogInv'
<1>1. /\ \A n \in Turn : reply[n] # "none" => reply'[n] # "none"
      /\ \A n \in Turn : reply[n] = "none" => reply'[n] = "none" \/ Arrive(n)
    BY Beginning
<1>2. Len(rows) \in Nat /\ \A i \in 1..Len(rows) : rows[i].turn \in Turn
    BY RowsAre
<1>3. CASE UNCHANGED rows
    <2>1. ASSUME NEW n \in Turn PROVE ~Arrive(n)
        <3>1. Arrive(n) => Len(rows') = Len(rows) + 1
            BY MoreRows, UserAgent DEF Arrive
        <3> QED BY <1>2, <1>3, <3>1
    <2>2. \A n \in Turn : reply'[n] = "none" <=> reply[n] = "none"
        BY <1>1, <2>1
    <2> QED BY <1>2, <1>3, <2>2 DEF LogInv
<1>4. ASSUME NEW n \in Turn, StoreReply(n) PROVE LogInv'
    <2>1. /\ Len(rows') = Len(rows) + 1 /\ rows'[Len(rows) + 1] = Agent(n)
          /\ \A i \in 1..Len(rows) : rows'[i] = rows[i]
        BY <1>4, MoreRows, UserAgent DEF StoreReply
    <2>2. \A m \in Turn : reply'[m] = "none" <=> reply[m] = "none"
        BY <1>4 DEF StoreReply, TypeOK
    <2>3. \A i \in 1..Len(rows') : rows'[i].role = "user" => i \in 1..Len(rows) /\ rows'[i] = rows[i]
        BY <1>2, <2>1, UserAgent
    <2>4. \A i \in 1..Len(rows) : i \in 1..Len(rows')
        BY <1>2, <2>1
    <2> QED BY <1>2, <2>1, <2>2, <2>3, <2>4 DEF LogInv
<1>5. ASSUME NEW n \in Turn, Arrive(n) PROVE LogInv'
    <2>1. /\ Len(rows') = Len(rows) + 1 /\ rows'[Len(rows) + 1] = User(n)
          /\ \A i \in 1..Len(rows) : rows'[i] = rows[i]
        BY <1>5, MoreRows, UserAgent DEF Arrive
    <2>2. /\ reply[n] = "none" /\ reply'[n] # "none"
          /\ n > 1 => reply[n - 1] # "none"
          /\ \A m \in Turn : m # n => reply'[m] = reply[m]
        BY <1>5 DEF Arrive, TypeOK
    <2>3. \A i \in 1..Len(rows') : i \in 1..Len(rows) \/ i = Len(rows) + 1
        BY <1>2, <2>1
    <2>4. \A i \in 1..Len(rows) : i \in 1..Len(rows')
        BY <1>2, <2>1
    <2>5. Len(rows) + 1 \in 1..Len(rows')
        BY <1>2, <2>1
    <2>6. \A m \in Turn : m < n => reply[m] # "none"
        <3> SUFFICES ASSUME NEW m \in Turn, m < n PROVE reply[m] # "none"
            OBVIOUS
        <3>1. n - 1 \in Turn /\ n > 1 /\ m \in Nat
            BY TurnAssumption DEF Turn
        <3>2. reply[n - 1] # "none"
            BY <2>2, <3>1
        <3>3. m = n - 1 \/ m < n - 1
            BY <3>1, TurnsAreNumbers
        <3> QED BY <3>1, <3>2, <3>3 DEF LogInv
    <2>7. \A i \in 1..Len(rows) : rows[i].role = "user" => rows[i].turn < n
        <3> SUFFICES ASSUME NEW i \in 1..Len(rows), rows[i].role = "user"
                     PROVE  rows[i].turn < n
            OBVIOUS
        <3>1. rows[i].turn \in Turn /\ reply[rows[i].turn] # "none"
            BY <1>2 DEF LogInv
        <3>2. ~(n < rows[i].turn) /\ rows[i].turn # n
            BY <2>2, <3>1 DEF LogInv
        <3>3. rows[i].turn \in Nat /\ n \in Nat
            BY <3>1, TurnsAreNumbers
        <3> QED BY <3>2, <3>3
    <2>8. \A i, j \in 1..Len(rows') :
             i < j /\ rows'[i].role = "user" /\ rows'[j].role = "user" =>
                 rows'[i].turn < rows'[j].turn
        <3> SUFFICES ASSUME NEW i \in 1..Len(rows'), NEW j \in 1..Len(rows'), i < j,
                            rows'[i].role = "user", rows'[j].role = "user"
                     PROVE  rows'[i].turn < rows'[j].turn
            OBVIOUS
        <3>1. i \in 1..Len(rows)
            BY <1>2, <2>1
        <3>2. CASE j \in 1..Len(rows)
            BY <2>1, <3>1, <3>2 DEF LogInv
        <3>3. CASE j = Len(rows) + 1
            BY <2>1, <2>7, <3>1, <3>3, UserAgent
        <3> QED BY <2>3, <3>2, <3>3
    <2>9. \A i \in 1..Len(rows') : rows'[i].role = "user" => reply'[rows'[i].turn] # "none"
        <3>1. \A i \in 1..Len(rows) : rows[i].role = "user" => reply'[rows[i].turn] # "none"
            BY <1>1, <1>2 DEF LogInv
        <3> QED BY <2>1, <2>2, <2>3, <3>1, UserAgent
    <2>10. \A m \in Turn : reply'[m] # "none" => \E i \in 1..Len(rows') : rows'[i] = User(m)
        BY <2>1, <2>2, <2>4, <2>5 DEF LogInv
    <2>11. \A m, k \in Turn : m < k /\ reply'[k] # "none" => reply'[m] # "none"
        BY <1>1, <2>2, <2>6 DEF LogInv
    <2> QED BY <2>8, <2>9, <2>10, <2>11 DEF LogInv
<1> QED BY <1>3, <1>4, <1>5, Growing

\* What a pass plans has begun, and lies beyond its watermark and what was deleted.
LEMMA PlannedTurns ==
    ASSUME TypeOK, LogInv, NEW p \in Pass, Plan(p)
    PROVE  LET turns == Pending(p, from[p])
           IN  /\ Ordered(plan'[p]) /\ \A i \in 1..Len(plan'[p]) : plan'[p][i] # <<>>
               /\ \A i \in 1..Len(plan'[p]) : \A n \in ToSet(plan'[p][i]) :
                     n \in Turn /\ reply[n] # "none" /\ At(n) > Start(from[p])
               /\ \A n \in Turn : n \in Exchanges(turns, Len(turns)) =>
                     \A i \in 1..Len(plan'[p]) : \A m \in ToSet(plan'[p][i]) : n <= m =>
                         \E j \in 1..i : n \in ToSet(plan'[p][j])
<1> DEFINE turns == Pending(p, from[p])
<1>1. from[p] \in Watermark
    BY TypeParts DEF PassTypes
<1>2. /\ turns \in Seq(Row) /\ Increasing(turns)
      /\ \A n \in Exchanges(turns, Len(turns)) :
            n \in Turn /\ \E i \in 1..Len(rows) : i > Start(from[p]) /\ rows[i] = User(n)
    BY <1>1, PendingHold
<1>3. \A n \in Exchanges(turns, Len(turns)) :
          n \in Turn /\ reply[n] # "none" /\ At(n) > Start(from[p])
    <2> SUFFICES ASSUME NEW n \in Exchanges(turns, Len(turns))
                 PROVE  n \in Turn /\ reply[n] # "none" /\ At(n) > Start(from[p])
        OBVIOUS
    <2> HIDE DEF turns
    <2>1. n \in Turn
        BY <1>2
    <2>2. PICK i \in 1..Len(rows) : i > Start(from[p]) /\ rows[i] = User(n)
        BY <1>2
    <2>3. At(n) = i
        BY <2>1, <2>2, AtIs
    <2>4. reply[n] # "none"
        BY <2>1, <2>2, UserAgent DEF LogInv
    <2> QED BY <2>1, <2>2, <2>3, <2>4
<1>4. PICK size \in WindowSizes : plan'[p] = Windows(turns, size, Forced(p))
    BY Planned
<1> HIDE DEF turns
<1> DEFINE w == plan'[p]
<1>5. /\ Ordered(w) /\ \A i \in 1..Len(w) : w[i] # <<>>
      /\ \A i \in 1..Len(w) : \A n \in ToSet(w[i]) : n \in Exchanges(turns, Len(turns))
      /\ \A n \in Turn : n \in Exchanges(turns, Len(turns)) =>
            \A i \in 1..Len(w) : \A m \in ToSet(w[i]) : n <= m =>
                \E j \in 1..i : n \in ToSet(w[j])
    BY <1>2, <1>4, WindowsHold
<1> QED BY <1>3, <1>5 DEF turns

LEMMA TailOrdered ==
    ASSUME NEW s, Ordered(s), Len(s) \in Nat, NEW t, Len(t) = Len(s) - 1,
           \A i \in 1..Len(t) : i + 1 \in 1..Len(s) /\ t[i] = s[i + 1]
    PROVE  Ordered(t)
<1> SUFFICES ASSUME NEW i \in 1..Len(t), NEW j \in 1..Len(t),
                    NEW a \in 1..Len(t[i]), NEW b \in 1..Len(t[j]), i < j \/ (i = j /\ a < b)
             PROVE  t[i][a] < t[j][b]
    BY DEF Ordered
<1>1. i + 1 \in 1..Len(s) /\ j + 1 \in 1..Len(s) /\ t[i] = s[i + 1] /\ t[j] = s[j + 1]
    OBVIOUS
<1>2. i + 1 < j + 1 \/ (i + 1 = j + 1 /\ a < b)
    OBVIOUS
<1>3. a \in 1..Len(s[i + 1]) /\ b \in 1..Len(s[j + 1])
    BY <1>1
<1>4. s[i + 1][a] < s[j + 1][b]
    BY <1>1, <1>2, <1>3 DEF Ordered
<1> QED BY <1>1, <1>4

\* What a step does to plans.
LEMMA Planning ==
    ASSUME TypeOK, [Next]_vars
    PROVE  \/ \A p \in Pass : plan'[p] = plan[p] \/ plan'[p] = <<>>
           \/ \E p \in Pass : /\ Plan(p) \/ Advance(p)
                              /\ \A q \in Pass : q # p => plan'[q] = plan[q]
<1> USE DEF pass
<1>1. plan \in [Pass -> Seq(Seq(Turn))]
    BY DEF TypeOK
<1>2. ASSUME NEW n \in Turn, Arrive(n) \/ RunFails(n) \/ Answer(n) \/ StoreReply(n) \/ StoreFails(n)
      PROVE  UNCHANGED plan
    BY <1>2 DEF Arrive, RunFails, Answer, StoreReply, StoreFails
<1>3. ASSUME NEW p \in Pass, ReadCursor(p) \/ ListAll(p) \/ Pin(p) \/ Add(p)
      PROVE  UNCHANGED plan
    BY <1>3 DEF ReadCursor, ListAll, Pin, Add
<1>4. ASSUME NEW p \in Pass, PassFails(p)
      PROVE  \A q \in Pass : plan'[q] = plan[q] \/ plan'[q] = <<>>
    BY <1>1, <1>4 DEF PassFails
<1>5. ASSUME NEW p \in Pass, Plan(p) \/ Advance(p)
      PROVE  \A q \in Pass : q # p => plan'[q] = plan[q]
    BY <1>1, <1>5 DEF Plan, Advance, NextWindow
<1>6. CASE StartSweep \/ Clear \/ UNCHANGED vars
    BY <1>6 DEF StartSweep, Clear, vars
<1>7. CASE Kill
    BY <1>7 DEF Kill
<1> QED BY <1>2, <1>3, <1>4, <1>5, <1>6, <1>7, Zenon DEF Next, Step

LEMMA PlanStep == ASSUME TypeInv, [Next]_vars PROVE PlanInv'
<1>1. TypeOK /\ LogInv /\ PlanInv
    BY DEF TypeInv
<1>2. \A n \in Turn : reply[n] # "none" => reply'[n] # "none"
    BY <1>1, Beginning
<1>3. \A p \in Pass : \A i \in 1..Len(plan[p]) : \A n \in ToSet(plan[p][i]) :
          n \in Turn /\ reply[n] # "none"
    <2>1. \A p \in Pass : plan[p] \in Seq(Seq(Turn))
        BY <1>1, TypeParts DEF PassTypes
    <2>2. \A p \in Pass : \A i \in 1..Len(plan[p]) : ToSet(plan[p][i]) \subseteq Turn
        BY <2>1, Elements
    <2> QED BY <1>1, <2>2 DEF PlanInv
<1> DEFINE Sound(w) == /\ Ordered(w)
                       /\ \A i \in 1..Len(w) :
                             w[i] # <<>> /\ \A n \in ToSet(w[i]) : reply'[n] # "none"
<1>4. Sound(<<>>) /\ \A p \in Pass : Sound(plan[p])
    <2>1. Sound(<<>>)
        BY DEF Ordered
    <2>2. \A p \in Pass : Sound(plan[p])
        BY <1>1, <1>2, <1>3 DEF PlanInv
    <2> QED BY <2>1, <2>2
<1>5. ASSUME NEW p \in Pass, Plan(p) PROVE Sound(plan'[p])
    BY <1>1, <1>2, <1>5, PlannedTurns
<1>6. ASSUME NEW p \in Pass, Advance(p) PROVE Sound(plan'[p])
    <2>1. pc[p] = "advance" /\ plan'[p] = Tail(plan[p])
        BY <1>1, <1>6, TypeParts DEF Advance, NextWindow, PassTypes
    <2> DEFINE s == plan[p]
               t == Tail(plan[p])
    <2>2. /\ Len(s) \in Nat /\ Len(t) = Len(s) - 1
          /\ \A i \in 1..Len(t) : i + 1 \in 1..Len(s) /\ t[i] = s[i + 1]
        BY <1>1, <2>1, HeadAndTail
    <2>3. Sound(s)
        BY <1>4
    <2> HIDE DEF s, t
    <2>4. Ordered(t)
        BY <2>2, <2>3, TailOrdered
    <2>5. Sound(t)
        BY <2>2, <2>3, <2>4
    <2> QED BY <2>1, <2>5 DEF t
<1>7. \A p \in Pass : Sound(plan'[p])
    <2> HIDE DEF Sound
    <2> QED BY <1>1, <1>4, <1>5, <1>6, Planning
<1> QED BY <1>7 DEF PlanInv

LEMMA AnsweredStep == ASSUME TypeOK, AnsweredInv, [Next]_vars PROVE AnsweredInv'
<1> USE DEF pass, AnsweredInv
<1>1. /\ pc \in [Pass -> Place] /\ Turn \subseteq Pass
      /\ reply \in [Turn -> {"none", "thinking", "due", "stored", "lost"}]
    BY TypeParts DEF PassTypes, LogTypes, Pass
<1>2. ASSUME NEW n \in Turn, Arrive(n) \/ RunFails(n) \/ Answer(n) \/ StoreReply(n) \/ StoreFails(n)
      PROVE  AnsweredInv'
    BY <1>1, <1>2 DEF Arrive, RunFails, Answer, StoreReply, StoreFails
<1>3. ASSUME NEW p \in Pass, Step(p) \/ PassFails(p)
      PROVE  AnsweredInv'
    <2>1. UNCHANGED reply /\ pc[p] # "idle"
        BY <1>3 DEF Step, ReadCursor, ListAll, Pin, Plan, Add, Advance, PassFails
    <2>2. \A q \in Pass : q # p => pc'[q] = pc[q]
        BY <1>1, <1>3 DEF Step, ReadCursor, ListAll, Pin, Plan, Add, Advance, PassFails,
           NextWindow, Goto, Go
    <2>3. ASSUME p \in Turn, reply[p] = "due" PROVE pc'[p] = "idle"
        <3>1. ~Step(p)
            BY <2>3, TurnsAreNumbers DEF Step, ReadCursor, ListAll, Pin, Plan, Add, Advance
        <3> QED BY <1>1, <1>3, <3>1 DEF PassFails, Goto
    <2> QED BY <1>1, <2>1, <2>2, <2>3
<1>4. CASE StartSweep
    <2>1. \A n \in Turn : pc'[n] = pc[n]
        BY <1>1, <1>4, TurnsAreNumbers DEF StartSweep
    <2> QED BY <1>4, <2>1 DEF StartSweep
<1>5. CASE Clear \/ Kill \/ UNCHANGED vars
    BY <1>1, <1>5 DEF Clear, Kill, vars
<1> QED BY <1>2, <1>3, <1>4, <1>5, Zenon DEF Next

LEMMA TypeInvStep == TypeInv /\ [Next]_vars => TypeInv'
<1> SUFFICES ASSUME TypeInv, [Next]_vars PROVE TypeInv'
    OBVIOUS
<1>1. TypeOK /\ LogInv /\ AnsweredInv
    BY DEF TypeInv
<1> QED BY <1>1, TypeStep, LogStep, PlanStep, AnsweredStep DEF TypeInv

LEMMA TypeInvInit == Init => TypeInv
<1> SUFFICES ASSUME Init PROVE TypeInv
    OBVIOUS
<1>1. Len(rows) = 0 /\ rows \in Seq(Row) /\ <<>> \in Seq(Seq(Turn)) /\ Len(<<>>) = 0
    BY DEF Init
<1>2. LogTypes /\ PassTypes /\ CursorTypes
    BY <1>1, TurnAssumption
    DEF Init, LogTypes, PassTypes, CursorTypes, Watermark, Place
<1>3. LogInv /\ AnsweredInv
    BY <1>1, TurnsAreNumbers DEF Init, LogInv, AnsweredInv, Pass
<1>4. PlanInv
    BY <1>1 DEF Init, PlanInv, Ordered
<1> QED BY <1>2, <1>3, <1>4, TypeParts DEF TypeInv, Init

\* Messages, watermark, replies and passes keep their types: a watermark is a
\* position of a stored message, also after clears, restarts, failures and
\* passes of the same conversation at once (windowed_ingest.py).
THEOREM MemoryTypeCorrect == Spec => []TypeOK
<1>1. TypeInv => TypeOK
    BY DEF TypeInv
<1> QED BY <1>1, TypeInvInit, TypeInvStep, PTL DEF Spec

-----------------------------------------------------------------------------
(* One message at a time *)

Serial == TypeInv /\ AgentInv /\ SerialInv

\* What the steps of a pass have in common.
LEMMA PassFrame ==
    ASSUME TypeOK, NEW p \in Pass, Step(p) \/ PassFails(p)
    PROVE  /\ pc[p] # "idle" /\ UNCHANGED <<rows, base, opening, reply>>
           /\ Step(p) => UNCHANGED interrupted
           /\ \A q \in Pass : q # p => /\ pc'[q] = pc[q] /\ plan'[q] = plan[q]
                                       /\ from'[q] = from[q]
<1>1. pc \in [Pass -> Place] /\ from \in [Pass -> Watermark] /\ plan \in [Pass -> Seq(Seq(Turn))]
    BY TypeParts DEF PassTypes
<1>2. /\ pc[p] # "idle" /\ UNCHANGED <<rows, base, opening, reply>>
      /\ Step(p) => UNCHANGED interrupted
    BY DEF Step, ReadCursor, ListAll, Pin, Plan, Add, Advance, PassFails
<1>3. \A q \in Pass : q # p => pc'[q] = pc[q]
    BY <1>1 DEF Step, ReadCursor, ListAll, Pin, Plan, Add, Advance, PassFails,
       NextWindow, Goto, Go
<1>4. \A q \in Pass : q # p => from'[q] = from[q]
    BY <1>1 DEF Step, ReadCursor, ListAll, Pin, Plan, Add, Advance, PassFails,
       NextWindow, Goto, Go
<1>5. \A q \in Pass : q # p => plan'[q] = plan[q]
    BY <1>1 DEF Step, ReadCursor, ListAll, Pin, Plan, Add, Advance, PassFails, NextWindow
<1> QED BY <1>2, <1>3, <1>4, <1>5

\* The message being answered is the only one.
LEMMA OneAtWork ==
    ASSUME TypeOK, AgentInv, NEW m \in Turn, NEW n \in Turn,
           reply[m] \in {"thinking", "due"}, reply[n] \in {"thinking", "due"}
    PROVE  m = n
    BY UserAgent DEF AgentInv

LEMMA AgentStep ==
    ASSUME "overlap" \notin Disturbances, TypeInv, AgentInv, [Next]_vars
    PROVE  AgentInv'
<1> USE DEF pass
<1>1. /\ TypeOK /\ reply \in [Turn -> {"none", "thinking", "due", "stored", "lost"}]
      /\ Len(rows) \in Nat /\ \A i \in 1..Len(rows) : rows[i].turn \in Turn
      /\ rows # <<>> => Len(rows) \in 1..Len(rows)
    <2>1. TypeOK
        BY DEF TypeInv
    <2>2. rows # <<>> => Len(rows) > 0
        BY <2>1, RowsAre, Elements
    <2> QED BY <2>1, <2>2, RowsAre DEF TypeOK
<1>2. ASSUME UNCHANGED rows,
             \A n \in Turn : /\ reply'[n] = "stored" <=> reply[n] = "stored"
                             /\ reply'[n] \in {"thinking", "due"} =>
                                    reply[n] \in {"thinking", "due"}
      PROVE  AgentInv'
    BY <1>1, <1>2 DEF AgentInv
<1>3. ASSUME NEW n \in Turn, Arrive(n) PROVE AgentInv'
    <2>1. /\ Len(rows') = Len(rows) + 1 /\ rows'[Len(rows) + 1] = User(n)
          /\ \A i \in 1..Len(rows) : rows'[i] = rows[i]
          /\ rows' \in Seq(Row)
        BY <1>1, <1>3, MoreRows, UserAgent DEF Arrive
    <2>2. \A m \in Turn : reply[m] \notin {"thinking", "due"}
        BY <1>3 DEF Arrive, Quiet
    <2>3. reply[n] = "none" /\ reply'[n] = "thinking" /\ \A m \in Turn : m # n => reply'[m] = reply[m]
        BY <1>1, <1>3 DEF Arrive
    <2>4. \A i \in 1..Len(rows') : rows'[i].role = "agent" => reply'[rows'[i].turn] = "stored"
        <3> SUFFICES ASSUME NEW i \in 1..Len(rows'), rows'[i].role = "agent"
                     PROVE  reply'[rows'[i].turn] = "stored"
            OBVIOUS
        <3>1. i \in 1..Len(rows)
            BY <1>1, <2>1, UserAgent
        <3>2. reply[rows[i].turn] = "stored" /\ rows'[i] = rows[i] /\ rows[i].turn \in Turn
            BY <1>1, <2>1, <3>1 DEF AgentInv
        <3> QED BY <2>3, <3>2
    <2>5. ASSUME NEW m \in Turn, reply'[m] = "stored"
          PROVE  \E i \in 1..(Len(rows') - 1) : rows'[i] = User(m) /\ rows'[i + 1] = Agent(m)
        <3>1. reply[m] = "stored"
            BY <2>3, <2>5
        <3>2. PICK i \in 1..(Len(rows) - 1) : rows[i] = User(m) /\ rows[i + 1] = Agent(m)
            BY <3>1 DEF AgentInv
        <3>3. i \in 1..Len(rows) /\ i + 1 \in 1..Len(rows) /\ i \in 1..(Len(rows') - 1)
            BY <1>1, <2>1
        <3> QED BY <2>1, <3>2, <3>3
    <2>6. ASSUME NEW m \in Turn, reply'[m] \in {"thinking", "due"}
          PROVE  rows' # <<>> /\ rows'[Len(rows')] = User(m)
        <3>1. m = n
            BY <2>2, <2>3, <2>6
        <3>2. rows' # <<>>
            BY <1>1, <2>1, Elements
        <3> QED BY <2>1, <3>1, <3>2
    <2> QED BY <2>4, <2>5, <2>6 DEF AgentInv
<1>4. ASSUME NEW n \in Turn, StoreReply(n) PROVE AgentInv'
    <2>1. /\ Len(rows') = Len(rows) + 1 /\ rows'[Len(rows) + 1] = Agent(n)
          /\ \A i \in 1..Len(rows) : rows'[i] = rows[i]
        BY <1>1, <1>4, MoreRows, UserAgent DEF StoreReply
    <2>2. reply[n] = "due" /\ reply'[n] = "stored" /\ \A m \in Turn : m # n => reply'[m] = reply[m]
        BY <1>1, <1>4 DEF StoreReply
    <2>3. \A m \in Turn : reply'[m] \notin {"thinking", "due"}
        BY <1>1, <2>2, OneAtWork
    <2>4. \A i \in 1..Len(rows') : rows'[i].role = "agent" => reply'[rows'[i].turn] = "stored"
        <3> SUFFICES ASSUME NEW i \in 1..Len(rows'), rows'[i].role = "agent"
                     PROVE  reply'[rows'[i].turn] = "stored"
            OBVIOUS
        <3>1. CASE i \in 1..Len(rows)
            <4>1. reply[rows[i].turn] = "stored" /\ rows'[i] = rows[i] /\ rows[i].turn \in Turn
                BY <1>1, <2>1, <3>1 DEF AgentInv
            <4> QED BY <2>2, <4>1
        <3>2. CASE i = Len(rows) + 1
            BY <2>1, <2>2, <3>2, UserAgent
        <3> QED BY <1>1, <2>1, <3>1, <3>2
    <2>5. ASSUME NEW m \in Turn, reply'[m] = "stored"
          PROVE  \E i \in 1..(Len(rows') - 1) : rows'[i] = User(m) /\ rows'[i + 1] = Agent(m)
        <3>1. CASE m = n
            <4>1. Len(rows) \in 1..Len(rows) /\ rows[Len(rows)] = User(n)
                BY <1>1, <2>2 DEF AgentInv
            <4>2. Len(rows) \in 1..(Len(rows') - 1)
                BY <2>1, <4>1
            <4> QED BY <2>1, <3>1, <4>1, <4>2
        <3>2. CASE m # n
            <4>1. reply[m] = "stored"
                BY <2>2, <2>5, <3>2
            <4>2. PICK i \in 1..(Len(rows) - 1) : rows[i] = User(m) /\ rows[i + 1] = Agent(m)
                BY <4>1 DEF AgentInv
            <4>3. i \in 1..Len(rows) /\ i + 1 \in 1..Len(rows) /\ i \in 1..(Len(rows') - 1)
                BY <1>1, <2>1
            <4> QED BY <2>1, <4>2, <4>3
        <3> QED BY <3>1, <3>2
    <2> QED BY <2>3, <2>4, <2>5 DEF AgentInv
<1>5. ASSUME NEW n \in Turn, RunFails(n) \/ Answer(n) \/ StoreFails(n) PROVE AgentInv'
    <2>1. /\ UNCHANGED rows /\ reply[n] \in {"thinking", "due"} /\ reply'[n] \in {"lost", "due"}
          /\ \A m \in Turn : m # n => reply'[m] = reply[m]
        BY <1>1, <1>5 DEF RunFails, Answer, StoreFails
    <2> QED BY <1>2, <2>1
<1>6. ASSUME NEW p \in Pass, Step(p) \/ PassFails(p) PROVE AgentInv'
    <2>1. UNCHANGED <<rows, reply>>
        BY <1>1, <1>6, PassFrame
    <2> QED BY <1>2, <2>1
<1>7. CASE StartSweep \/ Clear \/ UNCHANGED vars
    BY <1>2, <1>7 DEF StartSweep, Clear, vars
<1>8. CASE Kill
    <2>1. UNCHANGED rows
        BY <1>8 DEF Kill
    <2>2. \A n \in Turn : reply'[n] = IF reply[n] \in {"thinking", "due"} THEN "lost" ELSE reply[n]
        BY <1>8 DEF Kill
    <2> QED BY <1>2, <2>1, <2>2
<1> QED BY <1>3, <1>4, <1>5, <1>6, <1>7, <1>8, Zenon DEF Next

LEMMA SerialStep ==
    ASSUME "overlap" \notin Disturbances, TypeInv, AgentInv, SerialInv, [Next]_vars
    PROVE  SerialInv'
<1> USE DEF pass
<1>1. /\ TypeOK /\ pc \in [Pass -> Place] /\ Turn \subseteq Pass
      /\ reply \in [Turn -> {"none", "thinking", "due", "stored", "lost"}]
    BY TypeParts DEF PassTypes, LogTypes, Pass, TypeInv
<1>2. ASSUME \A p \in Pass : pc'[p] = "idle" \/ pc'[p] = pc[p],
             \A n \in Turn : reply'[n] \in {"thinking", "due"} => reply'[n] = reply[n]
      PROVE  SerialInv'
    BY <1>1, <1>2 DEF SerialInv
<1>3. ASSUME NEW n \in Turn, Arrive(n) PROVE SerialInv'
    BY <1>1, <1>3 DEF Arrive, Quiet, SerialInv
<1>4. ASSUME NEW n \in Turn, Answer(n) PROVE SerialInv'
    <2>1. /\ reply[n] = "thinking" /\ reply'[n] = "due" /\ pc'[n] = "begin"
          /\ \A m \in Turn : m # n => reply'[m] = reply[m]
          /\ \A p \in Pass : p # n => pc'[p] = pc[p]
        BY <1>1, <1>4 DEF Answer
    <2>2. \A p \in Pass : p # n => pc'[p] = "idle"
        BY <2>1 DEF SerialInv
    <2>3. \A m \in Turn : m # n => reply'[m] \notin {"thinking", "due"}
        BY <1>1, <2>1, OneAtWork
    <2> QED BY <2>1, <2>2, <2>3 DEF SerialInv
<1>5. ASSUME NEW n \in Turn, RunFails(n) \/ StoreReply(n) \/ StoreFails(n) PROVE SerialInv'
    <2>1. /\ UNCHANGED pc /\ reply'[n] \in {"lost", "stored"}
          /\ \A m \in Turn : m # n => reply'[m] = reply[m]
        BY <1>1, <1>5 DEF RunFails, StoreReply, StoreFails
    <2> QED BY <1>2, <2>1
<1>6. ASSUME NEW p \in Pass, Step(p) \/ PassFails(p) PROVE SerialInv'
    <2>1. /\ pc[p] # "idle" /\ UNCHANGED reply
          /\ \A q \in Pass : q # p => pc'[q] = pc[q]
        BY <1>1, <1>6, PassFrame
    <2>2. \A q \in Pass : q # p => pc'[q] = "idle"
        BY <2>1 DEF SerialInv
    <2> QED BY <1>1, <2>1, <2>2 DEF SerialInv
<1>7. CASE StartSweep
    <2>1. /\ \A n \in Turn : reply'[n] \notin {"thinking", "due"}
          /\ \A p \in Pass : p # Sweep => pc'[p] = "idle"
        BY <1>1, <1>7 DEF StartSweep, Quiet
    <2> QED BY <2>1 DEF SerialInv
<1>8. CASE Clear \/ Kill \/ UNCHANGED vars
    <2>1. CASE Clear \/ UNCHANGED vars
        BY <1>2, <2>1 DEF Clear, vars
    <2>2. CASE Kill
        <3>1. \A p \in Pass : pc'[p] = "idle"
            BY <2>2 DEF Kill
        <3>2. \A n \in Turn : reply'[n] = IF reply[n] \in {"thinking", "due"} THEN "lost" ELSE reply[n]
            BY <2>2 DEF Kill
        <3> QED BY <1>2, <3>1, <3>2
    <2> QED BY <1>8, <2>1, <2>2
<1> QED BY <1>3, <1>4, <1>5, <1>6, <1>7, <1>8, Zenon DEF Next

\* A pass is at work alone, and goes on when no message is being answered.
LEMMA Sole ==
    ASSUME Serial, NEW p \in Pass, Step(p) \/ PassFails(p)
    PROVE  /\ \A q \in Pass : q # p => pc[q] = "idle" /\ pc'[q] = "idle"
           /\ \A n \in Turn : reply[n] # "thinking"
           /\ Step(p) => \A n \in Turn : reply[n] # "due"
<1>1. pc[p] # "idle" /\ \A q \in Pass : q # p => pc'[q] = pc[q]
    BY PassFrame DEF Serial, TypeInv
<1>2. SerialInv /\ AnsweredInv
    BY DEF Serial, TypeInv
<1>3. ASSUME Step(p), NEW n \in Turn PROVE reply[n] # "due"
    <2>1. reply[n] = "due" => n = p
        BY <1>1, <1>2 DEF SerialInv
    <2>2. n = p /\ reply[n] = "due" => pc[p] = "begin"
        BY <1>1, <1>2 DEF AnsweredInv
    <2>3. pc[p] = "begin" => ReadCursor(p)
        BY <1>3 DEF Step, ListAll, Pin, Plan, Add, Advance
    <2>4. ReadCursor(p) /\ n = p => reply[n] # "due"
        BY TurnsAreNumbers DEF ReadCursor
    <2> QED BY <2>1, <2>2, <2>3, <2>4
<1> QED BY <1>1, <1>2, <1>3 DEF SerialInv

LEMMA FirstPlace ==
    ASSUME NEW r, NEW i \in 1..Len(r), \A j \in 1..Len(r) : r[j] = r[i] => j = i
    PROVE  (CHOOSE k \in 1..Len(r) : r[k] = r[i]) = i
    OBVIOUS

\* The position of a message does not change.
LEMMA AtKeeps ==
    ASSUME TypeOK, LogInv, TypeOK', LogInv', [Next]_vars, NEW n \in Turn, reply[n] # "none"
    PROVE  At(n)' = At(n)
<1> DEFINE i == At(n)
<1>1. i \in 1..Len(rows) /\ rows[i] = User(n)
    BY Positions
<1>2. i \in 1..Len(rows') /\ rows'[i] = User(n)
    <2>1. CASE UNCHANGED rows
        BY <1>1, <2>1
    <2>2. ASSUME NEW m \in Turn, Arrive(m) \/ StoreReply(m)
          PROVE  i \in 1..Len(rows') /\ rows'[i] = User(n)
        <3>1. /\ Len(rows) \in Nat /\ Len(rows') = Len(rows) + 1
              /\ \A k \in 1..Len(rows) : rows'[k] = rows[k]
            BY <2>2, RowsAre, MoreRows, UserAgent DEF Arrive, StoreReply
        <3> HIDE DEF i
        <3> QED BY <1>1, <3>1
    <2> QED BY <2>1, <2>2, Growing
<1> HIDE DEF i
<1>3. n \in Nat /\ User(n).role = "user" /\ User(n).turn = n
    BY UserAgent, TurnsAreNumbers
<1>4. \A j, k \in 1..Len(rows') :
         j < k /\ rows'[j].role = "user" /\ rows'[k].role = "user" => rows'[j].turn < rows'[k].turn
    BY DEF LogInv
<1>5. Len(rows') \in Nat
    BY Elements DEF TypeOK
<1>6. \A j \in 1..Len(rows') : rows'[j] = rows'[i] => j = i
    <2> SUFFICES ASSUME NEW j \in 1..Len(rows'), rows'[j] = rows'[i], j # i PROVE FALSE
        OBVIOUS
    <2>1. j < i \/ i < j
        BY <1>2
    <2>2. n < n
        BY <1>2, <1>3, <1>4, <2>1
    <2> QED BY <1>3, <2>2
<1>7. (CHOOSE k \in 1..Len(rows') : rows'[k] = rows'[i]) = i
    BY <1>2, <1>6, FirstPlace
<1>8. (CHOOSE k \in 1..Len(rows') : rows'[k] = User(n)) = i
    BY <1>2, <1>7
<1> QED BY <1>8 DEF At, PositionOf, User, i

\* What is planned has begun.
LEMMA PlannedBegun ==
    ASSUME TypeOK, PlanInv, NEW p \in Pass, NEW i \in 1..Len(plan[p]), NEW n \in ToSet(plan[p][i])
    PROVE  n \in Turn /\ reply[n] # "none"
<1>1. plan[p] \in Seq(Seq(Turn))
    BY TypeParts DEF PassTypes
<1>2. plan[p][i] \in Seq(Turn)
    BY <1>1, Elements
<1> DEFINE w == plan[p][i]
<1>3. n \in {w[a] : a \in 1..Len(w)} /\ \A a \in 1..Len(w) : w[a] \in Turn
    BY <1>2, Elements
<1>4. n \in Turn
    <2> HIDE DEF w
    <2> QED BY <1>3
<1> QED BY <1>4 DEF PlanInv

\* The window added, and those after it.
LEMMA Advancing ==
    ASSUME TypeInv, NEW p \in Pass, Advance(p)
    PROVE  LET m == Last(Head(plan[p]))
           IN  /\ 1 \in 1..Len(plan[p]) /\ m \in ToSet(plan[p][1]) /\ Head(plan[p]) = plan[p][1]
               /\ m \in Turn /\ reply[m] # "none" /\ cursor' = At(m)
               /\ \A n \in ToSet(plan[p][1]) : n \in Turn /\ At(n) <= At(m)
               /\ plan'[p] = Tail(plan[p]) /\ Len(plan'[p]) = Len(plan[p]) - 1
               /\ \A i \in 1..Len(plan'[p]) :
                     i + 1 \in 1..Len(plan[p]) /\ plan'[p][i] = plan[p][i + 1]
               /\ pc'[p] \in {"idle", "add"}
               /\ \A i \in 1..Len(plan'[p]) : \A n \in ToSet(plan'[p][i]) : m < n
<1> DEFINE s == plan[p]
           m == Last(Head(s))
<1>1. /\ TypeOK /\ LogInv /\ PlanInv /\ pc[p] = "advance"
      /\ pc \in [Pass -> Place] /\ plan \in [Pass -> Seq(Seq(Turn))]
    BY TypeParts DEF TypeInv, Advance, PassTypes
<1>2. /\ s \in Seq(Seq(Turn)) /\ Len(s) \in Nat /\ 1 \in 1..Len(s)
      /\ Head(s) = s[1]
      /\ Len(Tail(s)) = Len(s) - 1
      /\ \A i \in 1..Len(Tail(s)) : i + 1 \in 1..Len(s) /\ Tail(s)[i] = s[i + 1]
      /\ m \in Turn /\ m \in ToSet(Head(s))
      /\ \A n \in ToSet(Head(s)) : n \in Turn /\ n <= m
    BY <1>1, HeadAndTail
<1>3. plan'[p] = Tail(s) /\ pc'[p] \in {"idle", "add"} /\ cursor' = At(m)
    BY <1>1 DEF Advance, NextWindow, Goto, At
<1> HIDE DEF s, m
<1>4. reply[m] # "none" /\ Ordered(s)
    BY <1>1, <1>2, PlannedBegun DEF s, PlanInv
<1>5. ASSUME NEW n \in ToSet(s[1]) PROVE n \in Turn /\ At(n) <= At(m)
    <2>1. n \in Turn /\ n <= m /\ reply[n] # "none"
        BY <1>1, <1>2, PlannedBegun DEF s
    <2>2. n \in Nat /\ m \in Nat
        BY <1>2, <2>1, TurnsAreNumbers
    <2>3. n < m => At(n) < At(m)
        BY <1>1, <1>2, <1>4, <2>1, Positions
    <2>4. At(n) \in Int /\ At(m) \in Int
        BY <1>1, <1>2, <1>4, <2>1, Positions
    <2> QED BY <2>1, <2>2, <2>3, <2>4
<1>6. ASSUME NEW i \in 1..Len(Tail(s)), NEW n \in ToSet(Tail(s)[i]) PROVE m < n
    <2>1. i + 1 \in 1..Len(s) /\ n \in ToSet(s[i + 1]) /\ 1 < i + 1
        BY <1>2, <1>6
    <2>2. s[1] \in Seq(Turn) /\ s[i + 1] \in Seq(Turn)
        BY <1>2, <2>1, Elements
    <2>3. PICK a \in 1..Len(s[1]) : m = s[1][a]
        BY <1>2, <2>2, Elements
    <2>4. PICK b \in 1..Len(s[i + 1]) : n = s[i + 1][b]
        BY <2>1, <2>2, Elements
    <2> QED BY <1>2, <1>4, <2>1, <2>3, <2>4 DEF Ordered
<1> QED BY <1>2, <1>3, <1>4, <1>5, <1>6 DEF s, m

LEMMA WatermarkStep ==
    ASSUME "overlap" \notin Disturbances, Serial, TypeOK', LogInv', WatermarkInv, [Next]_vars
    PROVE  WatermarkInv'
<1> USE DEF pass
<1> DEFINE Good(p) ==
        /\ pc'[p] \in {"list", "pin"} => cursor' = NoCursor
        /\ pc'[p] = "read" => from'[p] = cursor' \/ Wiped'
        /\ pc'[p] \in {"add", "advance"} => Wiped' \/
              \A i \in 1..Len(plan'[p]) : \A n \in ToSet(plan'[p][i]) : At(n)' > cursor'
<1>1. /\ TypeInv /\ TypeOK /\ LogInv /\ PlanInv /\ pc \in [Pass -> Place]
      /\ plan \in [Pass -> Seq(Seq(Turn))] /\ from \in [Pass -> Watermark]
      /\ cursor \in Watermark
    BY TypeParts DEF PassTypes, CursorTypes, Serial, TypeInv
<1>2. \A p \in Pass : \A i \in 1..Len(plan[p]) : \A n \in ToSet(plan[p][i]) :
          n \in Turn /\ At(n)' = At(n)
    BY <1>1, AtKeeps, PlannedBegun
<1>3. SUFFICES \A p \in Pass : Good(p)
    BY DEF WatermarkInv
<1>4. ASSUME NEW p \in Pass, pc'[p] \in {"idle", "begin"} PROVE Good(p)
    BY <1>4
<1>5. ASSUME NEW p \in Pass, pc'[p] = pc[p], from'[p] = from[p], plan'[p] = plan[p],
             UNCHANGED cursor, Wiped => Wiped'
      PROVE  Good(p)
    BY <1>2, <1>5 DEF WatermarkInv
<1>6. UNCHANGED <<rows, base>> => (Wiped => Wiped')
    BY DEF Wiped
<1> HIDE DEF Good
<1>7. ASSUME NEW n \in Turn, Arrive(n), NEW p \in Pass PROVE Good(p)
    BY <1>4, <1>7 DEF Arrive, Quiet
<1>8. ASSUME NEW n \in Turn, RunFails(n) \/ StoreFails(n), NEW p \in Pass PROVE Good(p)
    BY <1>5, <1>6, <1>8 DEF RunFails, StoreFails
<1>9. ASSUME NEW n \in Turn, Answer(n), NEW p \in Pass PROVE Good(p)
    BY <1>1, <1>4, <1>5, <1>6, <1>9 DEF Answer
<1>10. ASSUME NEW n \in Turn, StoreReply(n), NEW p \in Pass PROVE Good(p)
    <2>1. /\ Len(rows') = Len(rows) + 1 /\ rows'[Len(rows) + 1] = Agent(n)
          /\ \A i \in 1..Len(rows) : rows'[i] = rows[i]
        BY <1>1, <1>10, MoreRows, UserAgent DEF StoreReply
    <2>2. Wiped => Wiped'
        <3>1. \A i \in 1..Len(rows') : i \in 1..Len(rows) \/ i = Len(rows) + 1
            BY <1>1, <2>1, RowsAre
        <3>2. UNCHANGED base
            BY <1>10 DEF StoreReply
        <3> QED BY <2>1, <3>1, <3>2, UserAgent DEF Wiped
    <2> QED BY <1>5, <1>10, <2>2 DEF StoreReply
<1>11. ASSUME StartSweep, NEW p \in Pass PROVE Good(p)
    BY <1>1, <1>4, <1>5, <1>6, <1>11 DEF StartSweep
<1>12. ASSUME Clear, NEW p \in Pass PROVE Good(p)
    <2>1. Wiped' /\ cursor' = NoCursor
        BY <1>1, <1>12, RowsAre DEF Clear, Wiped
    <2> QED BY <2>1 DEF Good
<1>13. ASSUME Kill, NEW p \in Pass PROVE Good(p)
    BY <1>4, <1>13 DEF Kill
<1>14. ASSUME NEW p \in Pass, Step(p) \/ PassFails(p), NEW q \in Pass PROVE Good(q)
    <2>1. UNCHANGED <<rows, base>> /\ \A r \in Pass : r # p => pc'[r] = "idle"
        BY <1>1, <1>14, PassFrame, Sole
    <2>2. q # p => Good(q)
        BY <1>4, <2>1
    <2>3. Wiped => Wiped'
        BY <1>6, <2>1
    <2>4. CASE ReadCursor(p)
        <3>1. /\ from'[p] = cursor /\ UNCHANGED cursor
              /\ pc'[p] = IF cursor = NoCursor THEN "list" ELSE "read"
            BY <1>1, <2>4 DEF ReadCursor, Go
        <3>2. Good(p)
            BY <3>1 DEF Good
        <3> QED BY <2>2, <3>2
    <2>5. CASE ListAll(p)
        <3>1. pc[p] = "list" /\ pc'[p] \in {"idle", "pin"} /\ UNCHANGED cursor
            BY <1>1, <2>5 DEF ListAll, Goto
        <3>2. Good(p)
            BY <3>1 DEF Good, WatermarkInv
        <3> QED BY <2>2, <3>2
    <2>6. CASE Pin(p)
        <3>1. pc'[p] = "read" /\ from'[p] = cursor'
            BY <1>1, <2>6 DEF Pin, Go
        <3>2. Good(p)
            BY <3>1 DEF Good
        <3> QED BY <2>2, <3>2
    <2>7. CASE Plan(p)
        <3>1. pc[p] = "read" /\ UNCHANGED cursor /\ pc'[p] \in {"idle", "add"}
            BY <1>1, <2>7 DEF Plan, Goto
        <3>2. \A i \in 1..Len(plan'[p]) : \A n \in ToSet(plan'[p][i]) :
                 n \in Turn /\ reply[n] # "none" /\ At(n) > Start(from[p])
            BY <1>1, <2>7, PlannedTurns
        <3>3. Start(from[p]) >= from[p] /\ Start(from[p]) \in Int /\ from[p] \in Int
            <4>1. from[p] \in Watermark
                BY <1>1
            <4>2. from[p] \in Int
                BY <4>1 DEF Watermark, NoCursor
            <4> QED BY <1>1, <4>1, <4>2, AfterIs
        <3>4. ASSUME ~Wiped', NEW i \in 1..Len(plan'[p]), NEW n \in ToSet(plan'[p][i])
              PROVE  At(n)' > cursor'
            <4>1. from[p] = cursor
                BY <2>3, <3>1, <3>4 DEF WatermarkInv
            <4>2. n \in Turn /\ reply[n] # "none" /\ At(n) > Start(from[p])
                BY <3>2
            <4>3. At(n)' = At(n) /\ At(n) \in Int
                BY <1>1, <4>2, AtKeeps, Positions
            <4> QED BY <3>1, <3>3, <4>1, <4>2, <4>3
        <3>5. Good(p)
            BY <3>1, <3>4 DEF Good
        <3> QED BY <2>2, <3>5
    <2>8. CASE Add(p)
        <3>1. pc[p] = "add" /\ pc'[p] = "advance" /\ plan'[p] = plan[p] /\ UNCHANGED cursor
            BY <1>1, <2>8 DEF Add, Goto
        <3>2. Good(p)
            BY <1>2, <2>3, <3>1 DEF Good, WatermarkInv
        <3> QED BY <2>2, <3>2
    <2>9. CASE PassFails(p)
        <3>1. pc'[p] = "idle"
            BY <1>1, <2>9 DEF PassFails, Goto
        <3> QED BY <1>4, <2>2, <3>1
    <2>10. CASE Advance(p)
        <3> DEFINE m == Last(Head(plan[p]))
        <3>1. /\ m \in Turn /\ reply[m] # "none" /\ cursor' = At(m)
              /\ pc'[p] \in {"idle", "add"}
              /\ \A i \in 1..Len(plan'[p]) :
                    i + 1 \in 1..Len(plan[p]) /\ plan'[p][i] = plan[p][i + 1]
              /\ \A i \in 1..Len(plan'[p]) : \A n \in ToSet(plan'[p][i]) : m < n
            BY <1>1, <2>10, Advancing
        <3> HIDE DEF m
        <3>2. ASSUME NEW i \in 1..Len(plan'[p]), NEW n \in ToSet(plan'[p][i])
              PROVE  At(n)' > cursor'
            <4>1. n \in Turn /\ reply[n] # "none" /\ m < n /\ At(n)' = At(n)
                BY <1>1, <1>2, <3>1, PlannedBegun
            <4>2. At(m) < At(n)
                BY <1>1, <3>1, <4>1, Positions
            <4> QED BY <3>1, <4>1, <4>2
        <3>3. Good(p)
            BY <3>1, <3>2 DEF Good
        <3> QED BY <2>2, <3>3
    <2> QED BY <1>14, <2>4, <2>5, <2>6, <2>7, <2>8, <2>9, <2>10, Zenon DEF Step
<1>15. ASSUME UNCHANGED vars, NEW p \in Pass PROVE Good(p)
    BY <1>5, <1>6, <1>15 DEF vars
<1> QED BY <1>7, <1>8, <1>9, <1>10, <1>11, <1>12, <1>13, <1>14, <1>15, Zenon DEF Next

\* What is planned lies beyond the watermark and is not deleted, unless all is.
LEMMA PlannedBeyond ==
    ASSUME Serial, WatermarkInv, NEW p \in Pass, Plan(p),
           NEW i \in 1..Len(plan'[p]), NEW n \in ToSet(plan'[p][i])
    PROVE  n \in Turn /\ reply[n] # "none" /\ At(n) > base /\ At(n) > cursor
<1>1. TypeOK /\ LogInv /\ pc[p] = "read" /\ cursor \in Int /\ cursor <= Len(rows) /\ Len(rows) \in Nat
    <2>1. TypeOK /\ LogInv /\ pc[p] = "read"
        BY DEF Serial, TypeInv, Plan
    <2>2. cursor \in Watermark /\ Len(rows) \in Nat
        BY <2>1, TypeParts, RowsAre DEF CursorTypes
    <2> QED BY <2>1, <2>2 DEF Watermark, NoCursor
<1>2. n \in Turn /\ reply[n] # "none" /\ At(n) > Start(from[p])
    BY <1>1, PlannedTurns
<1>3. from[p] \in Watermark
    BY <1>1, TypeParts DEF PassTypes
<1>4. Start(from[p]) >= from[p] /\ Start(from[p]) >= base /\ Start(from[p]) \in Nat /\ base \in Nat
    BY <1>1, <1>3, AfterIs, RowsAre
<1>5. from[p] \in Int
    BY <1>1, <1>3 DEF Watermark, NoCursor
<1>6. At(n) \in 1..Len(rows) /\ rows[At(n)].role = "user"
    BY <1>1, <1>2, Positions, UserAgent
<1>7. At(n) > base
    BY <1>1, <1>2, <1>4, <1>6
<1>8. ~Wiped
    BY <1>1, <1>4, <1>6, <1>7 DEF Wiped
<1>9. from[p] = cursor
    BY <1>1, <1>8 DEF WatermarkInv
<1> QED BY <1>1, <1>2, <1>4, <1>5, <1>6, <1>7, <1>9

\* When the watermark passes a window it does not go back, unless all is deleted.
LEMMA Onwards ==
    ASSUME Serial, WatermarkInv, NEW p \in Pass, Advance(p)
    PROVE  /\ Wiped \/ cursor < cursor'
           /\ Wiped => \A n \in Turn : reply[n] # "none" => At(n) <= base
<1>1. /\ TypeInv /\ TypeOK /\ LogInv /\ pc[p] = "advance"
    BY DEF Serial, TypeInv, Advance
<1> DEFINE m == Last(Head(plan[p]))
<1>2. 1 \in 1..Len(plan[p]) /\ m \in ToSet(plan[p][1]) /\ cursor' = At(m)
    BY <1>1, Advancing
<1>3. Wiped \/ At(m) > cursor
    BY <1>1, <1>2 DEF WatermarkInv
<1>4. ASSUME Wiped, NEW n \in Turn, reply[n] # "none" PROVE At(n) <= base
    <2>1. At(n) \in 1..Len(rows) /\ rows[At(n)].role = "user"
        BY <1>1, <1>4, Positions, UserAgent
    <2> QED BY <1>4, <2>1 DEF Wiped
<1> QED BY <1>2, <1>3, <1>4

LEMMA TwiceStep ==
    ASSUME "overlap" \notin Disturbances, Serial, TypeOK', LogInv', WatermarkInv, TwiceInv, [Next]_vars
    PROVE  TwiceInv'
<1> USE DEF pass
<1>1. /\ TypeInv /\ TypeOK /\ LogInv /\ PlanInv /\ pc \in [Pass -> Place]
      /\ plan \in [Pass -> Seq(Seq(Turn))] /\ told \in [Turn -> Nat] /\ interrupted \in Nat
      /\ cursor \in Int /\ base \in Int /\ Len(rows) \in Nat
    <2>1. TypeOK /\ TypeInv
        BY DEF Serial, TypeInv
    <2>2. cursor \in Watermark
        BY <2>1, TypeParts DEF CursorTypes
    <2>3. cursor \in Int /\ base \in Int /\ Len(rows) \in Nat
        BY <2>1, <2>2, RowsAre DEF Watermark, NoCursor
    <2> QED BY <2>1, <2>3, TypeParts DEF PassTypes, LogTypes, Serial, TypeInv
<1>2. /\ \A n \in Turn : reply[n] # "none" => reply'[n] # "none"
      /\ \A n \in Turn : reply[n] # "none" => At(n)' = At(n)
    BY <1>1, Beginning, AtKeeps
<1>3. \A n \in Turn : told[n] > interrupted => reply[n] # "none"
    BY <1>1 DEF TwiceInv
<1> DEFINE Passing(n) == \E p \in Pass : pc[p] = "advance" /\ n \in ToSet(Head(plan[p]))
           Behind == \A n \in Turn : told[n] > interrupted =>
                        At(n) <= base' \/ At(n) <= cursor' \/ Passing(n)'
           Rest == \A p \in Pass : \A i \in Ahead(p)' : \A n \in ToSet(plan'[p][i]) : told[n] <= interrupted
<1>4. ASSUME UNCHANGED <<told, interrupted>>, Behind, Rest PROVE TwiceInv'
    <2>1. \A n \in Turn : reply'[n] = "none" => told'[n] = 0
        BY <1>2, <1>4 DEF TwiceInv
    <2>2. \A n \in Turn : told'[n] <= interrupted' + 1
        BY <1>4 DEF TwiceInv
    <2>3. \A n \in Turn : told'[n] > interrupted' =>
              At(n)' <= base' \/ At(n)' <= cursor' \/ Passing(n)'
        BY <1>2, <1>3, <1>4
    <2>4. \A p \in Pass : \A i \in Ahead(p)' : \A n \in ToSet(plan'[p][i]) : told'[n] <= interrupted'
        BY <1>4
    <2> QED BY <2>1, <2>2, <2>3, <2>4 DEF TwiceInv
<1>5. ASSUME \A p \in Pass : /\ plan'[p] = plan[p] \/ plan'[p] = <<>>
                             /\ pc[p] = "advance" /\ plan'[p] # <<>> => pc'[p] = "advance"
      PROVE  Rest
    <2> SUFFICES ASSUME NEW p \in Pass, NEW i \in Ahead(p)', NEW n \in ToSet(plan'[p][i])
                 PROVE  told[n] <= interrupted
        OBVIOUS
    <2>1. plan'[p] = plan[p] /\ plan'[p] # <<>>
        BY <1>5 DEF Ahead
    <2>2. i \in Ahead(p)
        BY <1>1, <1>5, <2>1 DEF Ahead
    <2> QED BY <2>1, <2>2 DEF TwiceInv
<1>6. ASSUME UNCHANGED <<base, cursor>>,
             \A p \in Pass : pc[p] = "advance" => pc'[p] = "advance" /\ plan'[p] = plan[p]
      PROVE  Behind
    BY <1>6 DEF TwiceInv
<1>7. ASSUME NEW p \in Pass, pc[p] # "advance", Step(p) \/ PassFails(p),
             NEW n \in Turn, told[n] > interrupted
      PROVE  At(n) <= base \/ At(n) <= cursor
    <2>1. \A q \in Pass : pc[q] # "advance"
        <3>1. \A q \in Pass : q # p => pc[q] = "idle"
            BY <1>7, Sole
        <3> QED BY <1>7, <3>1
    <2> QED BY <1>7, <2>1 DEF TwiceInv
<1> HIDE DEF Behind, Rest, Passing
<1>8. ASSUME NEW n \in Turn, Arrive(n) \/ RunFails(n) \/ StoreReply(n) \/ StoreFails(n)
      PROVE  TwiceInv'
    <2>1. UNCHANGED <<told, interrupted, base, cursor, pc, plan>>
        BY <1>8 DEF Arrive, RunFails, StoreReply, StoreFails
    <2> QED BY <1>4, <1>5, <1>6, <2>1
<1>9. ASSUME NEW n \in Turn, Answer(n) PROVE TwiceInv'
    <2>1. UNCHANGED <<told, interrupted, base, cursor, plan>>
        BY <1>9 DEF Answer
    <2>2. \A p \in Pass : pc[p] = "idle"
        BY <1>9 DEF Answer, Serial, SerialInv
    <2> QED BY <1>4, <1>5, <1>6, <2>1, <2>2
<1>10. CASE StartSweep
    <2>1. UNCHANGED <<told, interrupted, base, cursor, plan>>
        BY <1>10 DEF StartSweep
    <2>2. \A p \in Pass : pc[p] = "idle"
        BY <1>10 DEF StartSweep, Quiet
    <2> QED BY <1>4, <1>5, <1>6, <2>1, <2>2
<1>11. CASE Clear
    <2>1. UNCHANGED <<told, interrupted, pc, plan>> /\ base' = Len(rows)
        BY <1>11 DEF Clear
    <2>2. \A n \in Turn : reply[n] # "none" => At(n) <= base'
        BY <1>1, <2>1, Positions
    <2>3. Behind
        BY <1>3, <2>2 DEF Behind
    <2> QED BY <1>4, <1>5, <2>1, <2>3
<1>12. ASSUME UNCHANGED told, interrupted' = interrupted + 1, \A p \in Pass : plan'[p] = <<>>
       PROVE  TwiceInv'
    <2>1. \A n \in Turn : reply'[n] = "none" => told'[n] = 0
        BY <1>2, <1>12 DEF TwiceInv
    <2>2. \A n \in Turn : told'[n] <= interrupted' /\ told'[n] \in Nat /\ interrupted' \in Nat
        BY <1>1, <1>12 DEF TwiceInv
    <2>3. \A p \in Pass : Ahead(p)' = {}
        <3>1. Len(<<>>) = 0
            OBVIOUS
        <3> QED BY <1>12, <3>1 DEF Ahead
    <2> QED BY <2>1, <2>2, <2>3 DEF TwiceInv
<1>13. CASE Kill
    <2>1. UNCHANGED <<told, base, cursor>> /\ \A p \in Pass : plan'[p] = <<>>
        BY <1>13 DEF Kill
    <2>2. CASE \E p \in Pass : pc[p] = "advance"
        <3>1. interrupted' = interrupted + 1
            BY <1>13, <2>2 DEF Kill
        <3> QED BY <1>12, <2>1, <3>1
    <2>3. CASE \A p \in Pass : pc[p] # "advance"
        <3>1. UNCHANGED interrupted
            BY <1>13, <2>3 DEF Kill
        <3> QED BY <1>4, <1>5, <1>6, <2>1, <2>3, <3>1
    <2> QED BY <2>2, <2>3
<1>14. ASSUME NEW p \in Pass, PassFails(p) PROVE TwiceInv'
    <2>1. /\ UNCHANGED <<told, base, cursor>> /\ plan'[p] = <<>>
          /\ \A q \in Pass : q # p => /\ pc[q] = "idle" /\ pc'[q] = "idle"
                                      /\ plan'[q] = plan[q] /\ plan[q] = <<>>
        <3>1. UNCHANGED <<told, base, cursor>> /\ plan'[p] = <<>>
            BY <1>1, <1>14 DEF PassFails
        <3>2. \A q \in Pass : q # p => pc[q] = "idle" /\ pc'[q] = "idle" /\ plan'[q] = plan[q]
            BY <1>1, <1>14, Sole, PassFrame
        <3>3. \A q \in Pass : pc[q] = "idle" => plan[q] = <<>>
            BY <1>1 DEF TypeOK
        <3> QED BY <3>1, <3>2, <3>3
    <2>2. CASE pc[p] = "advance"
        <3>1. interrupted' = interrupted + 1
            BY <1>14, <2>2 DEF PassFails
        <3>2. \A q \in Pass : plan'[q] = <<>>
            BY <2>1
        <3> QED BY <1>12, <2>1, <3>1, <3>2
    <2>3. CASE pc[p] # "advance"
        <3>1. UNCHANGED interrupted
            BY <1>14, <2>3 DEF PassFails
        <3>2. \A q \in Pass : pc[q] # "advance"
            BY <2>1, <2>3
        <3> QED BY <1>4, <1>5, <1>6, <2>1, <3>1, <3>2
    <2> QED BY <2>2, <2>3
<1>15. ASSUME NEW p \in Pass, Step(p) PROVE TwiceInv'
    <2>1. /\ UNCHANGED <<rows, base, interrupted>>
          /\ \A q \in Pass : q # p => pc'[q] = pc[q] /\ plan'[q] = plan[q]
        BY <1>1, <1>15, PassFrame
    <2>2. CASE ReadCursor(p) \/ ListAll(p)
        <3>1. UNCHANGED <<told, cursor, plan>> /\ pc[p] # "advance"
            BY <2>2 DEF ReadCursor, ListAll
        <3> QED BY <1>4, <1>5, <1>6, <2>1, <3>1
    <2>3. CASE Pin(p)
        <3>1. UNCHANGED <<told, plan>> /\ pc[p] = "pin"
            BY <2>3 DEF Pin
        <3>2. cursor = NoCursor
            BY <3>1 DEF WatermarkInv
        <3>3. \A n \in Turn : told[n] > interrupted => At(n) <= base
            <4> SUFFICES ASSUME NEW n \in Turn, told[n] > interrupted PROVE At(n) <= base
                OBVIOUS
            <4>1. At(n) <= base \/ At(n) <= cursor
                BY <1>7, <1>15, <3>1
            <4>2. At(n) \in 1..Len(rows)
                BY <1>1, <1>3, Positions
            <4> QED BY <3>2, <4>1, <4>2 DEF NoCursor
        <3>4. Behind
            BY <2>1, <3>3 DEF Behind
        <3> QED BY <1>4, <1>5, <2>1, <3>1, <3>4
    <2>4. CASE Plan(p)
        <3>1. UNCHANGED <<told, cursor>> /\ pc[p] = "read" /\ pc'[p] \in {"idle", "add"}
            BY <1>1, <2>4 DEF Plan, Goto
        <3>2. Behind
            BY <1>6, <2>1, <3>1
        <3>3. Rest
            <4> SUFFICES ASSUME NEW q \in Pass, NEW i \in Ahead(q)', NEW n \in ToSet(plan'[q][i])
                         PROVE  told[n] <= interrupted
                BY DEF Rest
            <4>1. CASE q # p
                <5>1. plan'[q] = plan[q] /\ i \in Ahead(q)
                    BY <2>1, <4>1 DEF Ahead
                <5> QED BY <5>1 DEF TwiceInv
            <4>2. CASE q = p
                <5>1. i \in 1..Len(plan'[p])
                    BY <3>1, <4>2 DEF Ahead
                <5>2. n \in Turn /\ reply[n] # "none" /\ At(n) > base /\ At(n) > cursor
                    BY <2>4, <4>2, <5>1, PlannedBeyond
                <5>3. At(n) \in Int
                    BY <1>1, <5>2, Positions
                <5>4. told[n] > interrupted => At(n) <= base \/ At(n) <= cursor
                    BY <1>7, <1>15, <3>1, <5>2
                <5>5. told[n] \in Nat
                    BY <1>1, <5>2
                <5> QED BY <1>1, <5>2, <5>3, <5>4, <5>5
            <4> QED BY <4>1, <4>2
        <3> QED BY <1>4, <2>1, <3>1, <3>2, <3>3
    <2>5. CASE Add(p)
        <3>1. /\ UNCHANGED <<cursor, plan>> /\ pc[p] = "add" /\ pc'[p] = "advance"
              /\ told' = [n \in Turn |-> IF n \in ToSet(Head(plan[p])) THEN told[n] + 1 ELSE told[n]]
            BY <1>1, <2>5 DEF Add, Goto
        <3>2. 1 \in 1..Len(plan[p]) /\ Head(plan[p]) = plan[p][1] /\ Len(plan[p]) \in Nat
            BY <1>1, <3>1, HeadAndTail
        <3> DEFINE h == plan[p][1]
        <3>3. ASSUME NEW n \in Turn PROVE told'[n] = IF n \in ToSet(h) THEN told[n] + 1 ELSE told[n]
            BY <3>1, <3>2
        <3>4. \A n \in ToSet(h) : told[n] <= interrupted /\ reply[n] # "none" /\ n \in Turn
            <4>1. 1 \in Ahead(p)
                BY <3>1, <3>2 DEF Ahead
            <4> QED BY <1>1, <3>2, <4>1, PlannedBegun DEF TwiceInv
        <3>5. ASSUME NEW n \in Turn, reply'[n] = "none" PROVE told'[n] = 0
            <4>1. reply[n] = "none" /\ told[n] = 0
                BY <1>2, <3>5 DEF TwiceInv
            <4>2. n \notin ToSet(h)
                BY <3>4, <4>1
            <4> QED BY <3>3, <4>1, <4>2
        <3>6. ASSUME NEW n \in Turn PROVE told'[n] <= interrupted' + 1
            <4>1. CASE n \in ToSet(h)
                <5>1. told[n] <= interrupted /\ told'[n] = told[n] + 1 /\ told[n] \in Nat
                    BY <1>1, <3>3, <3>4, <4>1
                <5> QED BY <1>1, <2>1, <5>1
            <4>2. CASE n \notin ToSet(h)
                BY <2>1, <3>3, <4>2 DEF TwiceInv
            <4> QED BY <4>1, <4>2
        <3>7. ASSUME NEW n \in Turn, told'[n] > interrupted'
              PROVE  At(n)' <= base' \/ At(n)' <= cursor' \/ Passing(n)'
            <4>1. CASE n \in ToSet(h)
                BY <3>1, <3>2, <4>1 DEF Passing
            <4>2. CASE n \notin ToSet(h)
                <5>1. told[n] > interrupted
                    BY <2>1, <3>3, <3>7, <4>2
                <5>2. At(n) <= base \/ At(n) <= cursor
                    BY <1>7, <1>15, <3>1, <5>1
                <5>3. At(n)' = At(n)
                    BY <1>2, <1>3, <5>1
                <5> QED BY <2>1, <3>1, <5>2, <5>3
            <4> QED BY <4>1, <4>2
        <3>8. ASSUME NEW q \in Pass, NEW i \in Ahead(q)', NEW n \in ToSet(plan'[q][i])
              PROVE  told'[n] <= interrupted'
            <4>1. CASE q # p
                <5>1. Len(plan[q]) = 0
                    <6>1. pc[q] = "idle"
                        BY <1>15, <4>1, Sole
                    <6>2. plan[q] = <<>>
                        BY <1>1, <6>1 DEF TypeOK
                    <6> QED BY <6>2
                <5> QED BY <2>1, <4>1, <5>1 DEF Ahead
            <4>2. CASE q = p
                <5>1. i \in 2..Len(plan[p]) /\ n \in ToSet(plan[p][i])
                    BY <3>1, <4>2 DEF Ahead
                <5>2. i \in 1..Len(plan[p]) /\ i \in Ahead(p)
                    BY <3>1, <3>2, <5>1 DEF Ahead
                <5>3. told[n] <= interrupted /\ n \in Turn
                    BY <1>1, <5>1, <5>2, PlannedBegun DEF TwiceInv
                <5>4. n \notin ToSet(h)
                    <6>1. Ordered(plan[p]) /\ h \in Seq(Turn) /\ plan[p][i] \in Seq(Turn)
                        BY <1>1, <3>2, <5>2, Elements DEF PlanInv
                    <6>2. \A a \in 1..Len(h), b \in 1..Len(plan[p][i]) : h[a] < plan[p][i][b]
                        BY <3>2, <5>1, <5>2, <6>1 DEF Ordered
                    <6>3. PICK b \in 1..Len(plan[p][i]) : n = plan[p][i][b]
                        BY <5>1, <6>1, Elements
                    <6>4. n \in ToSet(h) => \E a \in 1..Len(h) : n = h[a]
                        BY <6>1, Elements
                    <6>5. n \in Nat
                        BY <5>3, TurnsAreNumbers
                    <6> HIDE DEF h
                    <6> QED BY <6>2, <6>3, <6>4, <6>5
                <5> QED BY <2>1, <3>3, <5>3, <5>4
            <4> QED BY <4>1, <4>2
        <3> QED BY <3>5, <3>6, <3>7, <3>8 DEF TwiceInv, Passing
    <2>6. CASE Advance(p)
        <3> DEFINE m == Last(Head(plan[p]))
        <3>1. /\ m \in Turn /\ reply[m] # "none" /\ cursor' = At(m) /\ Head(plan[p]) = plan[p][1]
              /\ \A n \in ToSet(plan[p][1]) : n \in Turn /\ At(n) <= At(m)
              /\ pc'[p] \in {"idle", "add"}
              /\ \A i \in 1..Len(plan'[p]) :
                    i + 1 \in 1..Len(plan[p]) /\ plan'[p][i] = plan[p][i + 1]
            BY <1>1, <2>6, Advancing
        <3> HIDE DEF m
        <3>2. UNCHANGED told /\ pc[p] = "advance"
            BY <2>6 DEF Advance
        <3>3. ASSUME NEW n \in Turn, told[n] > interrupted PROVE At(n) <= base' \/ At(n) <= cursor'
            <4>1. At(n) \in Int /\ At(m) \in Int
                BY <1>1, <1>3, <3>1, <3>3, Positions
            <4>2. Wiped => At(n) <= base'
                BY <1>3, <2>1, <2>6, <3>3, Onwards
            <4>3. At(n) <= base \/ At(n) <= cursor \/ n \in ToSet(plan[p][1])
                <5>1. \A q \in Pass : pc[q] = "advance" => q = p
                    BY <1>15, Sole
                <5> QED BY <3>1, <3>3, <5>1 DEF TwiceInv
            <4>4. Wiped \/ cursor < cursor'
                BY <2>6, Onwards
            <4> QED BY <1>1, <2>1, <3>1, <4>1, <4>2, <4>3, <4>4
        <3>4. Behind
            BY <3>3 DEF Behind
        <3>5. Rest
            <4> SUFFICES ASSUME NEW q \in Pass, NEW i \in Ahead(q)', NEW n \in ToSet(plan'[q][i])
                         PROVE  told[n] <= interrupted
                BY DEF Rest
            <4>1. CASE q # p
                <5>1. plan'[q] = plan[q] /\ i \in Ahead(q)
                    BY <2>1, <4>1 DEF Ahead
                <5> QED BY <5>1 DEF TwiceInv
            <4>2. CASE q = p
                <5>1. i \in 1..Len(plan'[p])
                    BY <3>1, <4>2 DEF Ahead
                <5>2. i + 1 \in 1..Len(plan[p]) /\ n \in ToSet(plan[p][i + 1])
                    BY <3>1, <4>2, <5>1
                <5>3. i + 1 \in Ahead(p)
                    BY <3>2, <5>1, <5>2 DEF Ahead
                <5> QED BY <5>2, <5>3 DEF TwiceInv
            <4> QED BY <4>1, <4>2
        <3> QED BY <1>4, <2>1, <3>2, <3>4, <3>5
    <2> QED BY <1>15, <2>2, <2>3, <2>4, <2>5, <2>6, Zenon DEF Step
<1>16. CASE UNCHANGED vars
    <2>1. UNCHANGED <<told, interrupted, base, cursor, pc, plan>>
        BY <1>16 DEF vars
    <2> QED BY <1>4, <1>5, <1>6, <2>1
<1> QED BY <1>8, <1>9, <1>10, <1>11, <1>15, <1>16, <1>13, <1>14, Zenon DEF Next

\* The exchange of a turn that was answered is read complete when its message is
\* beyond the watermark.
LEMMA StoredIsRead ==
    ASSUME Serial, NEW p \in Pass, Plan(p), NEW n \in Turn, reply[n] = "stored", At(n) > Start(from[p])
    PROVE  n \in Exchanges(Pending(p, from[p]), Len(Pending(p, from[p])))
<1> DEFINE b == Start(from[p])
           turns == Pending(p, from[p])
           l == Len(rows) - b
<1>1. TypeOK /\ LogInv /\ AgentInv /\ Len(rows) \in Nat
    BY RowsAre DEF Serial, TypeInv, Plan
<1>2. from[p] \in Watermark
    BY <1>1, TypeParts DEF PassTypes
<1>3. b \in 0..Len(rows) /\ l \in Nat
    BY <1>1, <1>2, AfterIs
<1>4. /\ \A i \in 1..l : turns[i] = rows[b + i]
      /\ \/ Len(turns) = l /\ (p = Sweep \/ \E i \in 1..l : turns[i] = Agent(p))
         \/ Len(turns) = l + 1 /\ p \in Turn /\ turns[l + 1] = Agent(p)
    BY <1>1, <1>2, PendingIs
<1> HIDE DEF b, turns, l
<1>5. Len(rows) = b + l
    BY <1>1, <1>3 DEF l
<1>6. \E k \in 1..Len(turns) : turns[k] = User(n) /\ k < Len(turns) /\ turns[k + 1] = Agent(n)
    <2>1. PICK i \in 1..(Len(rows) - 1) : rows[i] = User(n) /\ rows[i + 1] = Agent(n)
        BY <1>1 DEF AgentInv
    <2>2. i \in 1..Len(rows)
        BY <1>1
    <2>3. i > b
        BY <1>1, <2>1, <2>2, AtIs DEF b
    <2> DEFINE k == i - b
    <2>4. k \in 1..l /\ k + 1 \in 1..l /\ b + k = i /\ b + (k + 1) = i + 1
        BY <1>1, <1>3, <1>5, <2>3
    <2> HIDE DEF k
    <2>5. turns[k] = User(n) /\ turns[k + 1] = Agent(n)
        BY <1>4, <2>1, <2>4
    <2>6. k \in 1..Len(turns) /\ k < Len(turns)
        BY <1>3, <1>4, <2>4
    <2> QED BY <2>5, <2>6
<1>7. PICK k \in 1..Len(turns) : turns[k] = User(n) /\ k < Len(turns) /\ turns[k + 1] = Agent(n)
    BY <1>6
<1>8. Complete(turns, k) /\ turns[k].turn = n
    BY <1>7, UserAgent DEF Complete
<1>9. n \in Exchanges(turns, Len(turns))
    BY <1>8 DEF Exchanges
<1> QED BY <1>9 DEF turns

LEMMA SkipStep ==
    ASSUME "overlap" \notin Disturbances, Serial, TypeOK', LogInv', WatermarkInv, SkipInv, [Next]_vars
    PROVE  SkipInv'
<1> USE DEF pass
<1> DEFINE Good(p) ==
        /\ pc'[p] = "advance" => \A n \in ToSet(Head(plan'[p])) : told'[n] > 0
        /\ pc'[p] \in {"add", "advance"} => Wiped' \/
              \A n \in Turn : reply'[n] = "stored" /\ At(n)' > cursor' /\ At(n)' > base' =>
                  \A i \in 1..Len(plan'[p]) : \A m \in ToSet(plan'[p][i]) : n <= m =>
                      \E j \in 1..i : n \in ToSet(plan'[p][j])
<1>1. /\ TypeInv /\ TypeOK /\ LogInv /\ PlanInv /\ AnsweredInv /\ SerialInv /\ pc \in [Pass -> Place]
      /\ plan \in [Pass -> Seq(Seq(Turn))] /\ from \in [Pass -> Watermark]
      /\ cursor \in Int /\ base \in Int /\ Len(rows) \in Nat /\ told \in [Turn -> Nat]
      /\ reply \in [Turn -> {"none", "thinking", "due", "stored", "lost"}]
    <2>1. TypeOK /\ TypeInv
        BY DEF Serial, TypeInv
    <2>2. cursor \in Watermark
        BY <2>1, TypeParts DEF CursorTypes
    <2>3. cursor \in Int /\ base \in Int /\ Len(rows) \in Nat
        BY <2>1, <2>2, RowsAre DEF Watermark, NoCursor
    <2> QED BY <2>1, <2>3, TypeParts DEF PassTypes, LogTypes, Serial, TypeInv
<1>2. \A n \in Turn : reply[n] # "none" => At(n)' = At(n)
    BY <1>1, AtKeeps
<1>3. SUFFICES \A p \in Pass : Good(p)
    BY DEF SkipInv
<1>4. ASSUME NEW p \in Pass, pc'[p] \in {"idle", "begin"} PROVE Good(p)
    BY <1>4
<1>5. ASSUME NEW p \in Pass, pc'[p] \in {"list", "pin", "read"} PROVE Good(p)
    BY <1>5
<1>6. \A n \in Turn : reply[n] = "stored" => At(n)' = At(n)
    BY <1>2
<1>7. ASSUME NEW p \in Pass, pc'[p] = pc[p], plan'[p] = plan[p], UNCHANGED told,
             UNCHANGED <<cursor, base>> \/ Wiped', Wiped => Wiped',
             pc[p] \in {"add", "advance"} => \A n \in Turn : reply'[n] = "stored" => reply[n] = "stored"
      PROVE  Good(p)
    <2>1. CASE Wiped' \/ pc[p] \notin {"add", "advance"}
        BY <1>7, <2>1 DEF SkipInv
    <2>2. CASE ~Wiped' /\ pc[p] \in {"add", "advance"}
        <3>1. \A n \in Turn : reply'[n] = "stored" => reply[n] = "stored"
            BY <1>7, <2>2
        <3>2. \A n \in Turn : reply'[n] = "stored" => At(n)' = At(n)
            BY <1>6, <3>1
        <3>3. UNCHANGED <<cursor, base>> /\ ~Wiped
            BY <1>7, <2>2
        <3> QED BY <1>7, <2>2, <3>1, <3>2, <3>3 DEF SkipInv
    <2> QED BY <2>1, <2>2
<1>8. UNCHANGED <<rows, base>> => (Wiped => Wiped')
    BY DEF Wiped
<1> HIDE DEF Good
<1>9. ASSUME NEW n \in Turn, Arrive(n), NEW p \in Pass PROVE Good(p)
    BY <1>4, <1>9 DEF Arrive, Quiet
<1>10. ASSUME NEW n \in Turn, RunFails(n) \/ StoreFails(n), NEW p \in Pass PROVE Good(p)
    <2>1. \A m \in Turn : reply'[m] = "stored" => reply[m] = "stored"
        BY <1>1, <1>10 DEF RunFails, StoreFails
    <2> QED BY <1>7, <1>8, <1>10, <2>1 DEF RunFails, StoreFails
<1>11. ASSUME NEW n \in Turn, Answer(n), NEW p \in Pass PROVE Good(p)
    <2>1. pc'[p] \in {"idle", "begin"}
        BY <1>1, <1>11 DEF Answer, SerialInv
    <2> QED BY <1>4, <2>1
<1>12. ASSUME NEW n \in Turn, StoreReply(n), NEW p \in Pass PROVE Good(p)
    <2>1. /\ Len(rows') = Len(rows) + 1 /\ rows'[Len(rows) + 1] = Agent(n)
          /\ \A i \in 1..Len(rows) : rows'[i] = rows[i]
        BY <1>1, <1>12, MoreRows, UserAgent DEF StoreReply
    <2>2. Wiped => Wiped'
        <3>1. \A i \in 1..Len(rows') : i \in 1..Len(rows) \/ i = Len(rows) + 1
            BY <1>1, <2>1
        <3>2. UNCHANGED base
            BY <1>12 DEF StoreReply
        <3> QED BY <2>1, <3>1, <3>2, UserAgent DEF Wiped
    <2>3. pc[p] \notin {"add", "advance"}
        <3>1. pc[n] \in {"idle", "begin"} /\ (p # n => pc[p] = "idle")
            BY <1>1, <1>12 DEF StoreReply, SerialInv, AnsweredInv
        <3> QED BY <3>1
    <2>4. UNCHANGED <<base, cursor, told, pc, plan>>
        BY <1>12 DEF StoreReply
    <2> QED BY <1>7, <2>2, <2>3, <2>4
<1>13. ASSUME StartSweep, NEW p \in Pass PROVE Good(p)
    <2>1. pc'[p] \in {"idle", "begin"}
        BY <1>1, <1>13 DEF StartSweep, Quiet
    <2> QED BY <1>4, <2>1
<1>14. ASSUME Clear, NEW p \in Pass PROVE Good(p)
    <2>1. Wiped' /\ UNCHANGED <<pc, plan, told, reply>>
        BY <1>1, <1>14 DEF Clear, Wiped
    <2> QED BY <1>7, <2>1
<1>15. ASSUME Kill, NEW p \in Pass PROVE Good(p)
    BY <1>4, <1>15 DEF Kill
<1>16. ASSUME NEW p \in Pass, Step(p) \/ PassFails(p), NEW q \in Pass PROVE Good(q)
    <2>1. UNCHANGED <<rows, base, reply>> /\ \A r \in Pass : r # p => pc'[r] = "idle"
        BY <1>1, <1>16, PassFrame, Sole
    <2>2. q # p => Good(q)
        BY <1>4, <2>1
    <2>3. Wiped => Wiped'
        BY <1>8, <2>1
    <2>4. \A n \in Turn : reply'[n] = "stored" <=> reply[n] = "stored"
        BY <2>1
    <2>5. CASE ReadCursor(p) \/ ListAll(p) \/ Pin(p) \/ PassFails(p)
        <3>1. pc'[p] \in {"idle", "list", "pin", "read"}
            BY <1>1, <2>5 DEF ReadCursor, ListAll, Pin, PassFails, Go, Goto
        <3> QED BY <1>4, <1>5, <2>2, <3>1
    <2>6. CASE Plan(p)
        <3>1. pc[p] = "read" /\ UNCHANGED cursor /\ pc'[p] \in {"idle", "add"}
            BY <1>1, <2>6 DEF Plan, Goto
        <3>2. ASSUME ~Wiped', NEW n \in Turn, reply'[n] = "stored", At(n)' > cursor', At(n)' > base',
                     NEW i \in 1..Len(plan'[p]), NEW m \in ToSet(plan'[p][i]), n <= m
              PROVE  \E j \in 1..i : n \in ToSet(plan'[p][j])
            <4>1. from[p] = cursor
                BY <2>3, <3>1, <3>2 DEF WatermarkInv
            <4>2. reply[n] = "stored" /\ At(n)' = At(n)
                BY <1>6, <2>4, <3>1, <3>2
            <4>3. At(n) > Start(from[p])
                BY <2>1, <3>1, <3>2, <4>1, <4>2 DEF Start
            <4>4. n \in Exchanges(Pending(p, from[p]), Len(Pending(p, from[p])))
                BY <2>6, <4>2, <4>3, StoredIsRead
            <4> QED BY <1>1, <2>6, <3>2, <4>4, PlannedTurns
        <3>3. Good(p)
            BY <3>1, <3>2 DEF Good
        <3> QED BY <2>2, <3>3
    <2>7. CASE Add(p)
        <3>1. /\ UNCHANGED <<cursor, plan>> /\ pc[p] = "add" /\ pc'[p] = "advance"
              /\ told' = [n \in Turn |-> IF n \in ToSet(Head(plan[p])) THEN told[n] + 1 ELSE told[n]]
            BY <1>1, <2>7 DEF Add, Goto
        <3>2. \A n \in ToSet(Head(plan'[p])) : told'[n] > 0
            <4>1. \A n \in ToSet(Head(plan[p])) : n \in Turn
                BY <1>1, <3>1, HeadAndTail
            <4>2. ASSUME NEW n \in ToSet(Head(plan[p])) PROVE told'[n] > 0
                <5>1. n \in Turn /\ told[n] \in Nat /\ told'[n] = told[n] + 1
                    BY <1>1, <3>1, <4>1
                <5> QED BY <5>1
            <4> QED BY <3>1, <4>2
        <3>3. ~Wiped' =>
                \A n \in Turn : reply'[n] = "stored" /\ At(n)' > cursor' /\ At(n)' > base' =>
                  \A i \in 1..Len(plan'[p]) : \A m \in ToSet(plan'[p][i]) : n <= m =>
                      \E j \in 1..i : n \in ToSet(plan'[p][j])
            <4>1. \A n \in Turn : reply'[n] = "stored" => reply[n] = "stored" /\ At(n)' = At(n)
                BY <1>6, <2>4
            <4> QED BY <2>1, <2>3, <3>1, <4>1 DEF SkipInv
        <3>4. Good(p)
            BY <3>1, <3>2, <3>3 DEF Good
        <3> QED BY <2>2, <3>4
    <2>8. CASE Advance(p)
        <3> DEFINE k == Last(Head(plan[p]))
        <3>1. /\ k \in Turn /\ reply[k] # "none" /\ cursor' = At(k)
              /\ \A n \in ToSet(plan[p][1]) : n \in Turn /\ At(n) <= At(k)
              /\ pc'[p] \in {"idle", "add"}
              /\ \A i \in 1..Len(plan'[p]) :
                    i + 1 \in 1..Len(plan[p]) /\ plan'[p][i] = plan[p][i + 1]
              /\ Len(plan'[p]) = Len(plan[p]) - 1
            BY <1>1, <2>8, Advancing
        <3> HIDE DEF k
        <3>2. pc[p] = "advance"
            BY <2>8 DEF Advance
        <3>3. ASSUME ~Wiped', NEW n \in Turn, reply'[n] = "stored", At(n)' > cursor', At(n)' > base',
                     NEW i \in 1..Len(plan'[p]), NEW m \in ToSet(plan'[p][i]), n <= m
              PROVE  \E j \in 1..i : n \in ToSet(plan'[p][j])
            <4>1. reply[n] = "stored" /\ At(n)' = At(n)
                BY <1>6, <2>4, <3>2, <3>3
            <4>2. ~Wiped /\ cursor < cursor'
                BY <2>3, <2>8, <3>3, Onwards
            <4>3. At(n) \in Int /\ At(k) \in Int
                <5>1. reply[n] # "none"
                    BY <4>1
                <5> QED BY <1>1, <3>1, <5>1, Positions
            <4>4. At(n) > cursor /\ At(n) > base /\ At(n) > At(k)
                BY <1>1, <2>1, <3>1, <3>3, <4>1, <4>2, <4>3
            <4>5. i + 1 \in 1..Len(plan[p]) /\ m \in ToSet(plan[p][i + 1])
                BY <3>1, <3>3
            <4>6. PICK j \in 1..(i + 1) : n \in ToSet(plan[p][j])
                BY <3>2, <3>3, <4>1, <4>2, <4>4, <4>5 DEF SkipInv
            <4>7. j # 1
                BY <3>1, <4>3, <4>4, <4>6
            <4>8. j - 1 \in 1..i /\ j - 1 \in 1..Len(plan'[p]) /\ (j - 1) + 1 = j
                BY <3>3, <4>6, <4>7
            <4>9. plan'[p][j - 1] = plan[p][j]
                BY <3>1, <4>8
            <4> QED BY <4>6, <4>8, <4>9
        <3>4. Good(p)
            BY <3>1, <3>3 DEF Good
        <3> QED BY <2>2, <3>4
    <2> QED BY <1>16, <2>5, <2>6, <2>7, <2>8, Zenon DEF Step
<1>17. ASSUME UNCHANGED vars, NEW p \in Pass PROVE Good(p)
    BY <1>7, <1>8, <1>17 DEF vars
<1> QED BY <1>9, <1>10, <1>11, <1>12, <1>13, <1>14, <1>15, <1>16, <1>17, Zenon DEF Next

LEMMA ToldStep ==
    ASSUME "overlap" \notin Disturbances, Serial, TypeOK', LogInv', WatermarkInv, SkipInv, ToldInv,
           [Next]_vars
    PROVE  ToldInv'
<1> USE DEF pass
<1> DEFINE Good(n) == reply'[n] = "stored" /\ At(n)' > base' /\ At(n)' > pinned'
                         /\ At(n)' <= cursor' => told'[n] > 0
<1>1. /\ TypeInv /\ TypeOK /\ LogInv /\ PlanInv /\ AgentInv /\ AnsweredInv /\ SerialInv
      /\ pc \in [Pass -> Place]
      /\ plan \in [Pass -> Seq(Seq(Turn))] /\ cursor \in Int /\ base \in Int /\ base <= Len(rows)
      /\ Len(rows) \in Nat /\ told \in [Turn -> Nat] /\ cursor <= Len(rows)
      /\ pinned \in Int
      /\ reply \in [Turn -> {"none", "thinking", "due", "stored", "lost"}]
    <2>1. TypeOK /\ TypeInv
        BY DEF Serial, TypeInv
    <2>2. cursor \in Watermark /\ pinned \in 0..Len(rows)
        BY <2>1, TypeParts DEF CursorTypes
    <2>3. /\ cursor \in Int /\ base \in Int /\ Len(rows) \in Nat /\ cursor <= Len(rows)
          /\ base <= Len(rows) /\ pinned \in Int
        BY <2>1, <2>2, RowsAre DEF Watermark, NoCursor
    <2> QED BY <2>1, <2>3, TypeParts DEF PassTypes, LogTypes, Serial, TypeInv
<1>2. \A n \in Turn : reply[n] # "none" => At(n)' = At(n) /\ At(n) \in 1..Len(rows)
    BY <1>1, AtKeeps, Positions
<1>3. ASSUME \A n \in Turn : Good(n),
             \A n \in Turn : reply'[n] \in {"thinking", "due"} => cursor' < Len(rows')
      PROVE  ToldInv'
    BY <1>3 DEF ToldInv
<1>4. ASSUME NEW n \in Turn, reply[n] = "stored", UNCHANGED <<base, cursor, pinned, told>>
      PROVE  Good(n)
    BY <1>2, <1>4 DEF ToldInv
<1>5. ASSUME NEW n \in Turn, reply'[n] # "stored" PROVE Good(n)
    BY <1>5
<1> HIDE DEF Good
<1>6. ASSUME NEW n \in Turn, Arrive(n) PROVE ToldInv'
    <2>1. UNCHANGED <<base, cursor, pinned, told>> /\ Len(rows') = Len(rows) + 1
        BY <1>1, <1>6, MoreRows, UserAgent DEF Arrive
    <2>2. reply'[n] = "thinking" /\ \A m \in Turn : m # n => reply'[m] = reply[m]
        BY <1>1, <1>6 DEF Arrive
    <2>3. ASSUME NEW m \in Turn PROVE Good(m)
        BY <1>4, <1>5, <2>1, <2>2
    <2>4. cursor' < Len(rows')
        BY <1>1, <2>1
    <2> QED BY <1>3, <2>3, <2>4
<1>7. ASSUME NEW n \in Turn, RunFails(n) \/ StoreFails(n) \/ Answer(n) PROVE ToldInv'
    <2>1. UNCHANGED <<rows, base, cursor, pinned, told>>
        BY <1>7 DEF RunFails, StoreFails, Answer
    <2>2. /\ reply[n] \in {"thinking", "due"} /\ reply'[n] # "stored"
          /\ \A m \in Turn : m # n => reply'[m] = reply[m]
        BY <1>1, <1>7 DEF RunFails, StoreFails, Answer
    <2>3. ASSUME NEW m \in Turn PROVE Good(m)
        BY <1>4, <1>5, <2>1, <2>2
    <2>4. ASSUME NEW m \in Turn, reply'[m] \in {"thinking", "due"} PROVE cursor' < Len(rows')
        BY <2>1, <2>2, <2>4 DEF ToldInv
    <2> QED BY <1>3, <2>3, <2>4
<1>8. ASSUME NEW n \in Turn, StoreReply(n) PROVE ToldInv'
    <2>1. UNCHANGED <<base, cursor, pinned, told>> /\ Len(rows') = Len(rows) + 1
        BY <1>1, <1>8, MoreRows, UserAgent DEF StoreReply
    <2>2. /\ reply[n] = "due" /\ \A m \in Turn : m # n => reply'[m] = reply[m]
        BY <1>1, <1>8 DEF StoreReply
    <2>3. Good(n)
        <3>1. rows # <<>> /\ rows[Len(rows)] = User(n) /\ cursor < Len(rows)
            BY <1>1, <2>2 DEF AgentInv, ToldInv
        <3>2. Len(rows) \in 1..Len(rows)
            <4>1. Len(rows) > 0
                BY <1>1, <3>1, RowsAre, Elements
            <4> QED BY <1>1, <4>1
        <3>3. At(n) = Len(rows) /\ At(n)' = At(n)
            BY <1>1, <1>2, <2>2, <3>1, <3>2, AtIs
        <3> QED BY <1>1, <2>1, <3>1, <3>3 DEF Good
    <2>4. ASSUME NEW m \in Turn, m # n PROVE Good(m)
        BY <1>4, <1>5, <2>1, <2>2, <2>4
    <2>5. cursor' < Len(rows')
        BY <1>1, <2>1
    <2> QED BY <1>3, <2>3, <2>4, <2>5
<1>9. CASE Clear
    <2>1. UNCHANGED <<rows, reply, told, pinned>> /\ base' = Len(rows) /\ cursor' = NoCursor
        BY <1>9 DEF Clear
    <2>2. ASSUME NEW n \in Turn PROVE Good(n)
        <3>1. CASE reply[n] = "none"
            BY <1>5, <2>1, <3>1
        <3>2. CASE reply[n] # "none"
            BY <1>1, <1>2, <2>1, <3>2 DEF Good
        <3> QED BY <3>1, <3>2
    <2>3. ASSUME NEW n \in Turn, reply'[n] \in {"thinking", "due"} PROVE cursor' < Len(rows')
        BY <1>1, <2>1 DEF NoCursor
    <2> QED BY <1>3, <2>2, <2>3
<1>10. CASE Kill
    <2>1. UNCHANGED <<rows, base, cursor, pinned, told>>
        BY <1>10 DEF Kill
    <2>2. \A n \in Turn : reply'[n] = IF reply[n] \in {"thinking", "due"} THEN "lost" ELSE reply[n]
        BY <1>10 DEF Kill
    <2>3. ASSUME NEW n \in Turn PROVE Good(n)
        BY <1>4, <1>5, <2>1, <2>2
    <2>4. \A n \in Turn : reply'[n] \notin {"thinking", "due"}
        BY <2>2
    <2> QED BY <1>3, <2>3, <2>4
<1>11. CASE StartSweep \/ UNCHANGED vars
    <2>1. UNCHANGED <<rows, base, cursor, pinned, told, reply>>
        BY <1>11 DEF StartSweep, vars
    <2>2. ASSUME NEW n \in Turn PROVE Good(n)
        BY <1>4, <1>5, <2>1
    <2>3. \A n \in Turn : reply'[n] \in {"thinking", "due"} => cursor' < Len(rows')
        BY <2>1 DEF ToldInv
    <2> QED BY <1>3, <2>2, <2>3
<1>12. ASSUME NEW p \in Pass, Step(p) \/ PassFails(p) PROVE ToldInv'
    <2>1. UNCHANGED <<rows, base, reply>>
        BY <1>1, <1>12, PassFrame
    <2>2. \A n \in Turn : reply'[n] \in {"thinking", "due"} => cursor' < Len(rows')
        <3>1. CASE Step(p)
            BY <2>1, <3>1, Sole
        <3>2. CASE PassFails(p)
            BY <2>1, <3>2 DEF PassFails, ToldInv
        <3> QED BY <1>12, <3>1, <3>2
    <2>3. SUFFICES ASSUME NEW n \in Turn, reply[n] = "stored" PROVE Good(n)
        BY <1>3, <1>5, <2>1, <2>2
    <2>4. At(n)' = At(n) /\ At(n) \in Int
        BY <1>2, <2>3
    <2>5. CASE ReadCursor(p) \/ ListAll(p) \/ Plan(p) \/ PassFails(p)
        BY <1>4, <2>1, <2>3, <2>5 DEF ReadCursor, ListAll, Plan, PassFails
    <2>6. CASE Pin(p)
        <3>1. pinned' >= cursor' /\ cursor' \in Int /\ pinned' \in Int
            <4>1. pinned' = IF cursor' > pinned THEN cursor' ELSE pinned
                BY <2>6 DEF Pin
            <4>2. cursor' \in Int
                BY TypeParts DEF TypeOK, NoCursor
            <4> QED BY <1>1, <4>1, <4>2
        <3> QED BY <2>4, <3>1 DEF Good
    <2>7. CASE Add(p)
        <3>1. told' = [m \in Turn |-> IF m \in ToSet(Head(plan[p])) THEN told[m] + 1 ELSE told[m]]
              /\ UNCHANGED <<cursor, pinned>>
            BY <2>7 DEF Add
        <3>2. told[n] \in Nat /\ (told'[n] = told[n] \/ told'[n] = told[n] + 1)
            BY <1>1, <3>1
        <3> QED BY <2>1, <2>3, <2>4, <3>1, <3>2 DEF Good, ToldInv
    <2>8. CASE Advance(p)
        <3> DEFINE k == Last(Head(plan[p]))
        <3>1. /\ 1 \in 1..Len(plan[p]) /\ k \in ToSet(plan[p][1]) /\ Head(plan[p]) = plan[p][1]
              /\ k \in Turn /\ reply[k] # "none" /\ cursor' = At(k)
            BY <1>1, <2>8, Advancing
        <3> HIDE DEF k
        <3>2. UNCHANGED <<pinned, told>> /\ pc[p] = "advance"
            BY <2>8 DEF Advance
        <3>3. CASE At(n) <= cursor
            BY <2>1, <2>3, <2>4, <3>2, <3>3 DEF Good, ToldInv
        <3>4. ASSUME At(n) > cursor, At(n) > base, At(n) <= cursor' PROVE told[n] > 0
            <4>1. ~Wiped
                <5>1. Wiped => \A m \in Turn : reply[m] # "none" => At(m) <= base
                    BY <2>8, Onwards
                <5>2. reply[n] # "none" /\ ~(At(n) <= base)
                    BY <1>1, <2>3, <2>4, <3>4
                <5> QED BY <5>1, <5>2
            <4>3. n <= k
                <5>1. ~(k < n)
                    <6>1. k < n => At(k) < At(n)
                        BY <1>1, <2>3, <3>1, Positions
                    <6>2. At(k) \in Int
                        BY <1>2, <3>1
                    <6> QED BY <2>4, <3>1, <3>4, <6>1, <6>2
                <5>2. k \in Nat /\ n \in Nat
                    BY <3>1, TurnsAreNumbers
                <5> QED BY <5>1, <5>2
            <4>4. \E j \in 1..1 : n \in ToSet(plan[p][j])
                BY <2>3, <3>1, <3>2, <3>4, <4>1, <4>3 DEF SkipInv
            <4>5. n \in ToSet(Head(plan[p]))
                BY <3>1, <4>4
            <4> QED BY <3>2, <4>5 DEF SkipInv
        <3> QED BY <1>1, <2>1, <2>4, <3>2, <3>3, <3>4 DEF Good
    <2> QED BY <1>12, <2>5, <2>6, <2>7, <2>8, Zenon DEF Step
<1> QED BY <1>6, <1>7, <1>8, <1>9, <1>10, <1>11, <1>12, Zenon DEF Next

-----------------------------------------------------------------------------
(* Turns skipped, and turns told twice *)

MemoryInv == Serial /\ WatermarkInv /\ TwiceInv /\ SkipInv /\ ToldInv

LEMMA MemoryInit == Init => MemoryInv
<1> SUFFICES ASSUME Init PROVE MemoryInv
    OBVIOUS
<1>1. TypeInv
    BY TypeInvInit
<1>2. /\ Len(rows) = 0 /\ interrupted = 0 /\ cursor = NoCursor
      /\ \A p \in Pass : pc[p] = "idle" /\ plan[p] = <<>> /\ Len(plan[p]) = 0
      /\ \A n \in Turn : reply[n] = "none" /\ told[n] = 0
    BY DEF Init
<1>3. AgentInv /\ SerialInv
    BY <1>2 DEF AgentInv, SerialInv
<1>4. WatermarkInv /\ SkipInv /\ ToldInv
    BY <1>2 DEF WatermarkInv, SkipInv, ToldInv
<1>5. TwiceInv
    BY <1>2 DEF TwiceInv, Ahead
<1> QED BY <1>1, <1>3, <1>4, <1>5 DEF MemoryInv, Serial

LEMMA MemoryStep ==
    ASSUME "overlap" \notin Disturbances, MemoryInv, [Next]_vars
    PROVE  MemoryInv'
<1>1. /\ Serial /\ TypeInv /\ AgentInv /\ SerialInv
      /\ WatermarkInv /\ TwiceInv /\ SkipInv /\ ToldInv
    BY DEF MemoryInv, Serial
<1>2. TypeInv'
    BY <1>1, TypeInvStep
<1>3. TypeOK' /\ LogInv'
    BY <1>2 DEF TypeInv
<1>4. AgentInv' /\ SerialInv'
    BY <1>1, AgentStep, SerialStep
<1>5. WatermarkInv' /\ TwiceInv' /\ SkipInv' /\ ToldInv'
    BY <1>1, <1>3, WatermarkStep, TwiceStep, SkipStep, ToldStep
<1> QED BY <1>2, <1>4, <1>5 DEF MemoryInv, Serial

\* When messages do not overtake the work on earlier ones, no turn after the first
\* watermark is skipped: a watermark has passed one only when the memory has it,
\* after any failures of the memory and of the database, replies that were not
\* stored, restarts, clears and changes of the window's size (windowed_ingest.py).
THEOREM LaterTurnsAreNotSkipped ==
    ASSUME "overlap" \notin Disturbances
    PROVE  Spec => []LaterTurnsAreKept
<1>1. MemoryInv /\ [Next]_vars => MemoryInv'
    BY MemoryStep
<1>2. MemoryInv => LaterTurnsAreKept
    BY DEF MemoryInv, ToldInv, LaterTurnsAreKept, Later, At
<1> QED BY <1>1, <1>2, MemoryInit, PTL DEF Spec

\* When messages do not overtake the work on earlier ones, a turn is told once,
\* and once more at most for each pass that ended between an addition and the
\* watermark: no other failure, nor the sweep after a pass, nor a clear repeats
\* one (windowed_ingest.py).
THEOREM OnlyAnInterruptionTellsTwice ==
    ASSUME "overlap" \notin Disturbances
    PROVE  Spec => []TwiceOnlyIfInterrupted
<1>1. MemoryInv /\ [Next]_vars => MemoryInv'
    BY MemoryStep
<1>2. MemoryInv => TwiceOnlyIfInterrupted
    <2> SUFFICES ASSUME MemoryInv, NEW n \in Turn PROVE told[n] <= 1 + interrupted
        BY DEF TwiceOnlyIfInterrupted
    <2>1. told[n] <= interrupted + 1 /\ interrupted \in Nat
        BY TypeParts DEF MemoryInv, TwiceInv, Serial, TypeInv, LogTypes
    <2> QED BY <2>1
<1> QED BY <1>1, <1>2, MemoryInit, PTL DEF Spec

=============================================================================
