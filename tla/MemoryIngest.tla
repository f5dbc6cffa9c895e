---------------------------- MODULE MemoryIngest ----------------------------
(***************************************************************************)
(* How the turns of one conversation reach the long-term memory: a pass    *)
(* after each reply, and an hourly sweep for conversations gone idle, read *)
(* the messages after a watermark, group them into windows of exchanges,   *)
(* add each window to the memory and then move the watermark past it       *)
(* (services/memory/windowed_ingest.py, windowing.py,                      *)
(* domain/memory_ingest_cursor.py, agent_manager.py, nodes/memory.py).     *)
(*                                                                         *)
(* The graph goes on to the pass when the reply's event has been handled,  *)
(* which stores the reply.  Every message is a task of its own, and        *)
(* nothing serializes the passes of a conversation.  Messages are numbered *)
(* in the order of their (created_at, external_id); a watermark is such a  *)
(* number.                                                                 *)
(***************************************************************************)
EXTENDS Integers, Sequences, SequencesExt

CONSTANTS
    MaxTurns,     \* bound: messages of the user in one behaviour
    Openings,     \* of joins, splits and alone, those that happen
    WindowSizes,  \* values memory.extraction.window_turns takes
    Disturbances, \* which of the environment's events may happen
    MaxEvents     \* bound: disturbances in one behaviour

ASSUME TurnAssumption == MaxTurns \in Nat \ {0} /\ MaxEvents \in Nat
ASSUME OpeningAssumption == Openings \subseteq {"joins", "splits", "alone"}
ASSUME WindowAssumption == WindowSizes \subseteq Nat \ {0}
\* overlap: a message arrives while an earlier one is at work, which is no fault.
ASSUME DisturbanceAssumption ==
    Disturbances \subseteq {"overlap", "run", "store", "pass", "clear", "kill"}

Turn == 1..MaxTurns
Sweep == 0  \* the pass of the idle sweep
Pass == Turn \cup {Sweep}
NoCursor == -1

VARIABLES
    rows,    \* messages ever stored, oldest first
    base,    \* how many of them a clear has deleted
    cursor,  \* memory_ingest_cursors: a position of rows, or NoCursor
    told,    \* told[n]: windows with turn n that the memory has taken
    opening, \* opening[n]: what the exchange of n does to the window before it
    reply,   \* reply[n]: none, thinking, due (to be stored), stored, lost
    pc,      \* pc[p]: where pass p is
    from,    \* from[p]: the watermark it goes by
    upTo,    \* upTo[p]: the newest message it has seen, while it pins
    plan,    \* plan[p]: the windows it has still to add
    pinned,  \* the newest message a first watermark was set past
    interrupted, \* passes that ended between an addition and the watermark
    events   \* bound

pass == <<pc, from, upTo, plan>>
vars == <<rows, base, cursor, told, opening, reply, pc, from, upTo, plan, pinned,
          interrupted, events>>

Row == [turn : Turn, role : {"user", "agent"}]
User(n) == [turn |-> n, role |-> "user"]
Agent(n) == [turn |-> n, role |-> "agent"]

TypeOK ==
    /\ rows \in Seq(Row) /\ base \in 0..Len(rows)
    /\ cursor \in {NoCursor} \cup (0..Len(rows))
    /\ told \in [Turn -> Nat]
    /\ opening \in [Turn -> {"joins", "splits", "alone"}]
    /\ reply \in [Turn -> {"none", "thinking", "due", "stored", "lost"}]
    /\ pc \in [Pass -> {"idle", "begin", "list", "pin", "read", "add", "advance"}]
    /\ from \in [Pass -> {NoCursor} \cup (0..Len(rows))]
    /\ upTo \in [Pass -> 0..Len(rows)]
    /\ plan \in [Pass -> Seq(Seq(Turn))]
    /\ \A p \in Pass : plan[p] # <<>> <=> pc[p] \in {"add", "advance"}
    /\ pinned \in 0..Len(rows) /\ interrupted \in 0..MaxEvents /\ events \in 0..MaxEvents

Init ==
    /\ rows = <<>> /\ base = 0 /\ cursor = NoCursor
    /\ told = [n \in Turn |-> 0]
    /\ opening = [n \in Turn |-> "joins"]
    /\ reply = [n \in Turn |-> "none"]
    /\ pc = [p \in Pass |-> "idle"]
    /\ from = [p \in Pass |-> NoCursor]
    /\ upTo = [p \in Pass |-> 0]
    /\ plan = [p \in Pass |-> <<>>]
    /\ pinned = 0 /\ interrupted = 0 /\ events = 0

Disturb(kind) ==
    /\ kind \in Disturbances
    /\ events < MaxEvents
    /\ events' = events + 1

Quiet ==
    /\ \A p \in Pass : pc[p] = "idle"
    /\ \A n \in Turn : reply[n] \notin {"thinking", "due"}

-----------------------------------------------------------------------------
(* Windows *)

\* The i-th of a list of turns opens a complete exchange: a user turn followed
\* by an agent's, before the user's next one.
Complete(turns, i) ==
    i < Len(turns) /\ turns[i].role = "user" /\ turns[i + 1].role = "agent"

AsWindow(batch) == IF batch = <<>> THEN <<>> ELSE <<batch>>

\* An exchange after a session gap, or one that would overflow the window, starts
\* a new one; one that overflows alone is a window; a window is full at size
\* exchanges.
Take(acc, n, size) ==
    LET joins == opening[n] = "joins"
        closed == IF joins THEN acc.done ELSE acc.done \o AsWindow(acc.open)
        batch == IF joins THEN Append(acc.open, n) ELSE <<n>>
    IN  IF opening[n] = "alone" \/ Len(batch) >= size
        THEN [done |-> Append(closed, batch), open |-> <<>>]
        ELSE [done |-> closed, open |-> batch]

Grouping(turns, size) ==
    LET after[k \in 0..Len(turns)] ==
            IF k = 0 THEN [done |-> <<>>, open |-> <<>>]
            ELSE IF Complete(turns, k) THEN Take(after[k - 1], turns[k].turn, size)
            ELSE after[k - 1]
    IN  after[Len(turns)]

\* plan_windows: what is left over stays pending unless forced.
Windows(turns, size, force) ==
    LET end == Grouping(turns, size)
    IN  IF force THEN end.done \o AsWindow(end.open) ELSE end.done

\* Mutant: a sweep leaves the last window pending.
NeverForced(p) == FALSE

\* The sweep forces the window left over.
Forced(p) == p = Sweep

PositionOf(row) == CHOOSE i \in 1..Len(rows) : rows[i] = row

\* The messages after a watermark that have not been deleted.
After(w) == SubSeq(rows, (IF w > base THEN w ELSE base) + 1, Len(rows))

\* What pass p reads, with its own reply spliced in when it is not stored yet.
Pending(p, w) ==
    LET turns == After(w)
    IN  IF p = Sweep \/ \E i \in 1..Len(turns) : turns[i] = Agent(p)
        THEN turns ELSE Append(turns, Agent(p))

-----------------------------------------------------------------------------
(* Messages and replies *)

\* A message is stored, and the graph runs.
Arrive(n) ==
    /\ reply[n] = "none" /\ (n > 1 => reply[n - 1] # "none")
    /\ "overlap" \in Disturbances \/ Quiet
    /\ rows' = Append(rows, User(n))
    /\ \E kind \in Openings : opening' = [opening EXCEPT ![n] = kind]
    /\ reply' = [reply EXCEPT ![n] = "thinking"]
    /\ UNCHANGED <<base, cursor, told, pass, pinned, interrupted, events>>

RunFails(n) ==
    /\ Disturb("run") /\ reply[n] = "thinking"
    /\ reply' = [reply EXCEPT ![n] = "lost"]
    /\ UNCHANGED <<rows, base, cursor, told, opening, pass, pinned, interrupted>>

\* memory_out announces the reply, and is followed by the pass.
Answer(n) ==
    /\ reply[n] = "thinking"
    /\ reply' = [reply EXCEPT ![n] = "due"]
    /\ pc' = [pc EXCEPT ![n] = "begin"]
    /\ UNCHANGED <<rows, base, cursor, told, opening, from, upTo, plan, pinned,
                   interrupted, events>>

\* The loop that runs the graph handles the announcement: the reply is stored ...
StoreReply(n) ==
    /\ reply[n] = "due"
    /\ rows' = Append(rows, Agent(n))
    /\ reply' = [reply EXCEPT ![n] = "stored"]
    /\ UNCHANGED <<base, cursor, told, opening, pass, pinned, interrupted, events>>

\* ... or the write fails, which is only logged.
StoreFails(n) ==
    /\ Disturb("store") /\ reply[n] = "due"
    /\ reply' = [reply EXCEPT ![n] = "lost"]
    /\ UNCHANGED <<rows, base, cursor, told, opening, pass, pinned, interrupted>>

\* The hourly sweep finds a conversation idle for hours with messages after
\* its watermark; one that has no watermark is not looked at.
StartSweep ==
    /\ Quiet /\ cursor # NoCursor
    /\ After(cursor) # <<>>
    /\ pc' = [pc EXCEPT ![Sweep] = "begin"]
    /\ UNCHANGED <<rows, base, cursor, told, opening, reply, from, upTo, plan, pinned,
                   interrupted, events>>

-----------------------------------------------------------------------------
(* A pass *)

\* Pass p goes on at l; when it is over its watermark is forgotten.
Goto(p, l) ==
    /\ pc' = [pc EXCEPT ![p] = l]
    /\ from' = IF l = "idle" THEN [from EXCEPT ![p] = NoCursor] ELSE from
    /\ upTo' = IF l = "pin" THEN [upTo EXCEPT ![p] = Len(rows)] ELSE [upTo EXCEPT ![p] = 0]

Go(p, l, w) ==
    /\ pc' = [pc EXCEPT ![p] = l]
    /\ from' = [from EXCEPT ![p] = w]
    /\ upTo' = [upTo EXCEPT ![p] = 0]

\* The graph goes on when the loop has handled the announcement.
ReadCursor(p) ==
    /\ pc[p] = "begin" /\ (p # Sweep => reply[p] # "due")
    /\ Go(p, IF cursor = NoCursor THEN "list" ELSE "read", cursor)
    /\ UNCHANGED <<rows, base, cursor, told, opening, reply, plan, pinned, interrupted, events>>

\* Without a watermark, all the messages are listed in a thread...
ListAll(p) ==
    /\ pc[p] = "list"
    /\ Goto(p, IF Len(rows) = base THEN "idle" ELSE "pin")
    /\ UNCHANGED <<rows, base, cursor, told, opening, reply, plan, pinned, interrupted, events>>

\* ... and the watermark is set before the last one, which is taken for the
\* message of this turn.
Pin(p) ==
    /\ pc[p] = "pin"
    /\ cursor' = IF upTo[p] - 1 > base THEN upTo[p] - 1 ELSE 0
    /\ pinned' = IF cursor' > pinned THEN cursor' ELSE pinned
    /\ Go(p, "read", cursor')
    /\ UNCHANGED <<rows, base, told, opening, reply, plan, interrupted, events>>

\* The messages after the watermark are read and the windows planned.
Plan(p) ==
    /\ pc[p] = "read"
    /\ \E size \in WindowSizes :
          LET windows == Windows(Pending(p, from[p]), size, Forced(p))
          IN  /\ plan' = [plan EXCEPT ![p] = windows]
              /\ Goto(p, IF windows = <<>> THEN "idle" ELSE "add")
    /\ UNCHANGED <<rows, base, cursor, told, opening, reply, pinned, interrupted, events>>

\* memory.add returns; the graph takes one episode at a time.
Add(p) ==
    /\ pc[p] = "add"
    /\ told' = [n \in Turn |-> IF n \in ToSet(Head(plan[p])) THEN told[n] + 1 ELSE told[n]]
    /\ Goto(p, "advance")
    /\ UNCHANGED <<rows, base, cursor, opening, reply, plan, pinned, interrupted, events>>

\* A read of the database, the addition, what follows it (the memory has the window
\* by then, and its index is to be rebuilt) or the watermark's write fails: the
\* pass ends with the watermark where the last window left it.
PassFails(p) ==
    /\ Disturb("pass") /\ pc[p] # "idle"
    /\ plan' = [plan EXCEPT ![p] = <<>>]
    /\ interrupted' = IF pc[p] = "advance" THEN interrupted + 1 ELSE interrupted
    /\ Goto(p, "idle")
    /\ UNCHANGED <<rows, base, cursor, told, opening, reply, pinned>>

NextWindow(p) ==
    /\ plan' = [plan EXCEPT ![p] = Tail(@)]
    /\ Goto(p, IF Tail(plan[p]) = <<>> THEN "idle" ELSE "add")

\* Mutant: the watermark moves once, when every window is in.
AdvanceAtTheEnd(p) ==
    /\ pc[p] = "advance"
    /\ cursor' = IF Tail(plan[p]) = <<>> THEN PositionOf(User(Last(Head(plan[p])))) ELSE cursor
    /\ NextWindow(p)
    /\ UNCHANGED <<rows, base, told, opening, reply, pinned, interrupted, events>>

\* Mutant: the watermark moves to the newest message there is.
AdvanceToNewest(p) ==
    /\ pc[p] = "advance"
    /\ cursor' = Len(rows)
    /\ NextWindow(p)
    /\ UNCHANGED <<rows, base, told, opening, reply, pinned, interrupted, events>>

\* Mutant: the windows are not taken off the plan.
AdvanceOnly(p) ==
    /\ pc[p] = "advance"
    /\ cursor' = PositionOf(User(Last(Head(plan[p]))))
    /\ Goto(p, "idle")
    /\ UNCHANGED <<rows, base, told, opening, reply, plan, pinned, interrupted, events>>

\* The watermark moves to the last user message of the window, wherever it is
\* by now.
Advance(p) ==
    /\ pc[p] = "advance"
    /\ cursor' = PositionOf(User(Last(Head(plan[p]))))
    /\ NextWindow(p)
    /\ UNCHANGED <<rows, base, told, opening, reply, pinned, interrupted, events>>

-----------------------------------------------------------------------------
(* Clears and restarts *)

\* A bulk clear deletes the messages and the watermark in one transaction.
Clear ==
    /\ Disturb("clear")
    /\ base' = Len(rows) /\ cursor' = NoCursor
    /\ UNCHANGED <<rows, told, opening, reply, pass, pinned, interrupted>>

\* Runs and passes are lost with the process.
Kill ==
    /\ Disturb("kill")
    /\ interrupted' = IF \E p \in Pass : pc[p] = "advance" THEN interrupted + 1 ELSE interrupted
    /\ reply' = [n \in Turn |-> IF reply[n] \in {"thinking", "due"} THEN "lost" ELSE reply[n]]
    /\ pc' = [p \in Pass |-> "idle"]
    /\ from' = [p \in Pass |-> NoCursor]
    /\ upTo' = [p \in Pass |-> 0]
    /\ plan' = [p \in Pass |-> <<>>]
    /\ UNCHANGED <<rows, base, cursor, told, opening, pinned>>

-----------------------------------------------------------------------------

Step(p) ==
    \/ ReadCursor(p) \/ ListAll(p) \/ Pin(p) \/ Plan(p) \/ Add(p) \/ Advance(p)

Next ==
    \/ \E n \in Turn : Arrive(n) \/ RunFails(n) \/ Answer(n) \/ StoreReply(n) \/ StoreFails(n)
    \/ \E p \in Pass : Step(p) \/ PassFails(p)
    \/ StartSweep \/ Clear \/ Kill

Spec == Init /\ [][Next]_vars

\* The sweep's loop runs as long as the server does; runs and passes go on, and
\* an addition is answered.
Fairness ==
    /\ WF_vars(StartSweep)
    /\ \A n \in Turn : WF_vars(Answer(n)) /\ WF_vars(StoreReply(n))
    /\ \A p \in Pass : WF_vars(Step(p))

FairSpec == Spec /\ Fairness

-----------------------------------------------------------------------------
(* Properties *)

\* Comment of ingest_pending_windows: the first watermark is "NOT skip the current
\* turn", "so turn 1 is counted".
FirstTurnIsCounted == [][\A n \in Turn : Pin(n) => cursor' < PositionOf(User(n))]_vars

\* A turn that was answered, later than the first watermark, and whose messages
\* are still there.
Later(n) ==
    /\ reply[n] = "stored"
    /\ PositionOf(User(n)) > base /\ PositionOf(User(n)) > pinned

\* After the first watermark no turn is skipped: a watermark has passed only turns
\* the memory has, over failures of the memory and of the database, replies that
\* are not stored, restarts between the addition and the watermark, clears
\* during a pass and changes of the window's size.
LaterTurnsAreKept ==
    \A n \in Turn : Later(n) /\ PositionOf(User(n)) <= cursor => told[n] > 0

\* A turn is told again only when a pass ended between an addition and the
\* watermark: a failure in the middle of several windows repeats none of those
\* before it, and neither does the sweep after a pass.
TwiceOnlyIfInterrupted == \A n \in Turn : told[n] <= 1 + interrupted

\* No turn is ever told twice (windowing.py).
NeverTwice == \A n \in Turn : told[n] <= 1

\* After the first watermark every turn ends up told, also the last ones, too few
\* for a window, when the user does not come back.
LaterTurnsEndUpTold == \A n \in Turn : []<>~(Later(n) /\ cursor # NoCursor /\ told[n] = 0)
=============================================================================
