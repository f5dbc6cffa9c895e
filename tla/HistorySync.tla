----------------------------- MODULE HistorySync -----------------------------
(***************************************************************************)
(* One conversation channel and the mirror of its messages on a device.    *)
(*                                                                         *)
(*   server   saves messages in worker threads, serves pages ordered by    *)
(*            (created_at, external_id), bulk-clears the channel and       *)
(*            counts the clears (message_store.py, conversation_channel.py)*)
(*   device   flows that pull: the channel list, which resets the mirror   *)
(*            when the server has cleared it, and the history after a      *)
(*            cursor kept in the database (message_history_sync.dart,      *)
(*            channel_repository_impl.dart, resource_sync_bootstrap.dart)  *)
(*                                                                         *)
(* created_at is written as text with microseconds, and without a fraction *)
(* when there is none.  The device keeps the milliseconds only and drops   *)
(* ".000" when it sends them back.  The server compares texts, where Z is  *)
(* greater than a digit, and a digit than a dot: what a device asks after  *)
(* covers its millisecond, or its whole second when the fraction was .000. *)
(* A time is a number of microseconds (as many to a millisecond, and those *)
(* to a second, as the constants say), a text its place in that order.     *)
(***************************************************************************)
EXTENDS Integers, FiniteSets, FiniteSetsExt

CONSTANTS
    Flow,        \* what may pull at the same time on the device
    PageLimit,   \* messages in a page
    Milli,       \* microseconds in a millisecond
    PerSecond,   \* milliseconds in a second
    Threads,     \* messages being saved at the same time
    Disturbances,\* which of the environment's events may happen
    Times,       \* bound: the times at which messages may be sent
    MaxPulls,    \* bound: flows started
    MaxEvents    \* bound: disturbances

ASSUME PageAssumption == PageLimit \in Nat \ {0}
ASSUME TimeAssumption ==
    Milli \in Nat \ {0} /\ PerSecond \in Nat \ {0} /\ Times \subseteq Nat \ {0}
ASSUME ThreadAssumption == Threads \in Nat \ {0}
ASSUME DisturbanceAssumption == Disturbances \subseteq {"clear", "timeout", "kill"}
ASSUME BoundAssumption == MaxPulls \in Nat /\ MaxEvents \in Nat

VARIABLES
    \* --- server
    clock,     \* the time of the last message
    saving,    \* stamped, not yet inserted
    log,       \* the channel's rows
    clears,    \* last_deleted
    \* --- device, in its database
    mirror,    \* message rows
    cursor,    \* last_history_synced_at in milliseconds, NoCursor when null
    appliedClears, \* applied_server_last_deleted
    \* --- device, in memory
    flow,      \* flow[f]: what f is doing
    \* --- bounds and history
    pulls, events,
    overlapped \* a reset ran into another flow's work (history, no action reads it)

server == <<clock, saving, log, clears>>
database == <<mirror, cursor, appliedClears>>
vars == <<clock, saving, log, clears, mirror, cursor, appliedClears, flow,
          pulls, events, overlapped>>

NoCursor == -1

\* A message: its created_at, the value of last_deleted when it was inserted, and
\* whether a row was there by then whose cursor would cover it (history, no
\* action reads it).
Message == [at : Nat, clears : Nat, late : BOOLEAN]

\* The place of a row's text: a time without a fraction comes last in its second.
Text(at) ==
    IF at % Milli = 0 /\ (at \div Milli) % PerSecond = 0
    THEN 2 * (at + Milli * PerSecond)
    ELSE 2 * at

\* What DateTime keeps of a row's time.
Millis(m) == m.at \div Milli

\* The place of _serverIsoFromMs: between the rows of its millisecond and those
\* of the next, or equal to the row without a fraction.
CursorText(ms) ==
    IF ms = NoCursor THEN NoCursor
    ELSE IF ms % PerSecond = 0 THEN 2 * (ms * Milli + Milli * PerSecond)
    ELSE 2 * ((ms + 1) * Milli) - 1

\* Rows with the same text as m's or a smaller one than the cursor ms is sent as
\* are not asked for any more.
Covers(ms, m) == Text(m.at) <= CursorText(ms)

\* pc: where the flow waits; clears: last_deleted in its list response, then
\* the value its row update carries; after: the text asked after, exact when it
\* is a row's; max: greatest millisecond applied; page: rows received; asked:
\* rows the server had when the pull began (history, no action reads it).
Idle == [pc |-> "idle"]
Listing ==
    [pc : {"list_asked", "list_got", "deleting", "unmarking", "upserting", "resuming"},
     clears : Nat, reset : BOOLEAN]
Pulling ==
    [pc : {"history_asked", "history_got", "saving"}, after : Int, exact : BOOLEAN,
     max : Int, page : SUBSET Message, asked : SUBSET Message]

TypeOK ==
    /\ clock \in Nat /\ clears \in Nat
    /\ saving \subseteq Nat /\ Cardinality(saving) <= Threads
    /\ log \subseteq Message /\ mirror \subseteq Message
    /\ cursor \in Nat \cup {NoCursor} /\ appliedClears \in 0..clears
    /\ flow \in [Flow -> {Idle} \cup Listing \cup Pulling]
    /\ pulls \in 0..MaxPulls /\ events \in 0..MaxEvents /\ overlapped \in BOOLEAN

Init ==
    /\ clock = 0 /\ saving = {} /\ log = {} /\ clears = 0
    /\ mirror = {} /\ cursor = NoCursor /\ appliedClears = 0
    /\ flow = [f \in Flow |-> Idle]
    /\ pulls = 0 /\ events = 0 /\ overlapped = FALSE

Disturb(kind) ==
    /\ kind \in Disturbances
    /\ events < MaxEvents
    /\ events' = events + 1

-----------------------------------------------------------------------------
(* Server *)

\* A worker thread takes the time ...
StampMessage ==
    \E at \in Times :
        /\ at > clock /\ Cardinality(saving) < Threads
        /\ clock' = at
        /\ saving' = saving \cup {at}
        /\ UNCHANGED <<log, clears, database, flow, pulls, events, overlapped>>

\* A row is there already whose cursor covers the time.
IsLate(at) == \E m \in log : Text(at) <= CursorText(Millis(m))

\* ... and then inserts the row.
InsertMessage ==
    \E at \in saving :
        /\ saving' = saving \ {at}
        /\ log' = log \cup {[at |-> at, clears |-> clears, late |-> IsLate(at)]}
        /\ UNCHANGED <<clock, clears, database, flow, pulls, events, overlapped>>

\* One transaction deletes the rows and counts the clear.
ClearMessages ==
    /\ Disturb("clear")
    /\ log' = {}
    /\ clears' = clears + 1
    /\ UNCHANGED <<clock, saving, database, flow, pulls, overlapped>>

\* The rows after a text.
After(after) == {m \in log : Text(m.at) > after}

\* Rows with the very text of a stored cursor follow it when their id does.
Ties(f) == {m \in log : ~flow[f].exact /\ Text(m.at) = flow[f].after}

Oldest(rows, n) ==
    {m \in rows : Cardinality({e \in rows : Text(e.at) < Text(m.at)}) < n}

\* ORDER BY created_at LIMIT PageLimit; the request runs on the loop, in one step.
ServeHistory(f) ==
    /\ flow[f].pc = "history_asked"
    /\ \E ties \in SUBSET Ties(f) :
          flow' = [flow EXCEPT ![f].pc = "history_got",
                       ![f].page = Oldest(After(flow[f].after) \cup ties, PageLimit)]
    /\ UNCHANGED <<server, database, pulls, events, overlapped>>

ServeList(f) ==
    /\ flow[f].pc = "list_asked"
    /\ flow' = [flow EXCEPT ![f].pc = "list_got", ![f].clears = clears]
    /\ UNCHANGED <<server, database, pulls, events, overlapped>>

-----------------------------------------------------------------------------
(* Device: history *)

\* syncChannel reads the cursor and asks for what comes after it.
AskHistory ==
    [pc |-> "history_asked", after |-> CursorText(cursor), exact |-> FALSE,
     max |-> cursor, page |-> {}, asked |-> log]

StartPull(f) ==
    /\ pulls < MaxPulls /\ flow[f] = Idle
    /\ pulls' = pulls + 1
    /\ flow' = [flow EXCEPT ![f] = AskHistory]
    /\ UNCHANGED <<server, database, events, overlapped>>

\* Mutant: the position does not move to the end of the page.
SamePosition(f) == [after |-> flow[f].after, exact |-> flow[f].exact]

\* The next page starts after the last row of this one.
NextPosition(f) ==
    [after |-> Max({Text(m.at) : m \in flow[f].page}), exact |-> TRUE]

\* Mutant: a full page ends the pull.
OnePageOnly(f) == TRUE

IsLastPage(f) == Cardinality(flow[f].page) < PageLimit

\* The rows of a page are inserted unless they are there; a full page asks for
\* the next one, a shorter one goes on to store the cursor, when there is one.
ApplyPage(f) ==
    /\ flow[f].pc = "history_got"
    /\ mirror' = mirror \cup flow[f].page
    /\ LET max == Max({flow[f].max} \cup {Millis(m) : m \in flow[f].page}) IN
       flow' = [flow EXCEPT ![f] =
           IF ~IsLastPage(f)
           THEN [@ EXCEPT !.pc = "history_asked", !.max = max, !.page = {},
                          !.after = NextPosition(f).after, !.exact = NextPosition(f).exact]
           ELSE IF max # NoCursor THEN [@ EXCEPT !.pc = "saving", !.max = max, !.page = {}]
           ELSE Idle]
    /\ UNCHANGED <<server, cursor, appliedClears, pulls, events, overlapped>>

SaveCursor(f) ==
    /\ flow[f].pc = "saving"
    /\ cursor' = flow[f].max
    /\ flow' = [flow EXCEPT ![f] = Idle]
    /\ UNCHANGED <<server, mirror, appliedClears, pulls, events, overlapped>>

-----------------------------------------------------------------------------
(* Device: channel list *)

StartList(f) ==
    /\ pulls < MaxPulls /\ flow[f] = Idle
    /\ pulls' = pulls + 1
    /\ flow' = [flow EXCEPT ![f] = [pc |-> "list_asked", clears |-> 0, reset |-> FALSE]]
    /\ UNCHANGED <<server, database, events, overlapped>>

\* syncFromServer compares with the clears it has applied; the row it will
\* write carries the greater of the two.
CompareClears(f) ==
    /\ flow[f].pc = "list_got"
    /\ flow' = [flow EXCEPT ![f] =
           IF @.clears > appliedClears
           THEN [@ EXCEPT !.pc = "deleting", !.reset = TRUE]
           ELSE [@ EXCEPT !.pc = "upserting", !.clears = appliedClears]]
    /\ UNCHANGED <<server, database, pulls, events, overlapped>>

\* The reset of f meets another flow's pull, reset or row write, or repeats one.
Overlaps(f) ==
    \/ appliedClears >= flow[f].clears
    \/ \E e \in Flow \ {f} :
          flow[e].pc \in {"unmarking", "upserting", "history_asked", "history_got", "saving"}

\* Mutant: the mirror's rows are kept.
KeepRows(f) ==
    /\ flow[f].pc = "deleting"
    /\ flow' = [flow EXCEPT ![f].pc = "unmarking"]
    /\ overlapped' = (overlapped \/ Overlaps(f))
    /\ UNCHANGED <<server, database, pulls, events>>

\* The reset deletes the rows ...
DeleteMirror(f) ==
    /\ flow[f].pc = "deleting"
    /\ mirror' = {}
    /\ flow' = [flow EXCEPT ![f].pc = "unmarking"]
    /\ overlapped' = (overlapped \/ Overlaps(f))
    /\ UNCHANGED <<server, cursor, appliedClears, pulls, events>>

\* Mutant: resets are counted, whatever the list said.
CountReset(f) ==
    /\ flow[f].pc = "unmarking"
    /\ cursor' = NoCursor
    /\ appliedClears' = appliedClears + 1
    /\ flow' = [flow EXCEPT ![f].pc = "upserting"]
    /\ overlapped' = (overlapped \/ Overlaps(f))
    /\ UNCHANGED <<server, mirror, pulls, events>>

\* Mutant: the cursor outlives the rows.
KeepCursor(f) ==
    /\ flow[f].pc = "unmarking"
    /\ appliedClears' = flow[f].clears
    /\ flow' = [flow EXCEPT ![f].pc = "upserting"]
    /\ overlapped' = (overlapped \/ Overlaps(f))
    /\ UNCHANGED <<server, mirror, cursor, pulls, events>>

\* ... then the cursor, and notes the clear as applied.
ClearWatermark(f) ==
    /\ flow[f].pc = "unmarking"
    /\ cursor' = NoCursor
    /\ appliedClears' = flow[f].clears
    /\ flow' = [flow EXCEPT ![f].pc = "upserting"]
    /\ overlapped' = (overlapped \/ Overlaps(f))
    /\ UNCHANGED <<server, mirror, pulls, events>>

\* The channel's row is written with the clears compared before.
UpsertChannel(f) ==
    /\ flow[f].pc = "upserting"
    /\ appliedClears' = flow[f].clears
    /\ flow' = [flow EXCEPT ![f] =
           IF @.reset THEN [@ EXCEPT !.pc = "resuming"] ELSE Idle]
    /\ UNCHANGED <<server, mirror, cursor, pulls, events, overlapped>>

\* After a reset the flow goes on to pull the history.
PullAfterReset(f) ==
    /\ flow[f].pc = "resuming"
    /\ flow' = [flow EXCEPT ![f] = AskHistory]
    /\ UNCHANGED <<server, database, pulls, events, overlapped>>

-----------------------------------------------------------------------------
(* Disturbances *)

\* A request is not answered in time: the exception ends the flow.
RequestTimeout(f) ==
    /\ Disturb("timeout")
    /\ flow[f].pc \in {"list_asked", "list_got", "history_asked", "history_got"}
    /\ flow' = [flow EXCEPT ![f] = Idle]
    /\ UNCHANGED <<server, database, pulls, overlapped>>

\* The app is killed between two of its writes.
AppKilled ==
    /\ Disturb("kill")
    /\ flow' = [f \in Flow |-> Idle]
    /\ UNCHANGED <<server, database, pulls, overlapped>>

-----------------------------------------------------------------------------

PullStep(f) == ServeHistory(f) \/ ApplyPage(f) \/ SaveCursor(f)

ListStep(f) ==
    \/ ServeList(f) \/ CompareClears(f) \/ DeleteMirror(f)
    \/ ClearWatermark(f) \/ UpsertChannel(f) \/ PullAfterReset(f)

Next ==
    \/ StampMessage \/ InsertMessage \/ ClearMessages \/ AppKilled
    \/ \E f \in Flow :
          StartPull(f) \/ StartList(f) \/ PullStep(f) \/ ListStep(f) \/ RequestTimeout(f)

Spec == Init /\ [][Next]_vars

\* A request is answered or times out, and the flow that waits goes on.
Fairness == \A f \in Flow : WF_vars(PullStep(f) \/ ListStep(f))

FairSpec == Spec /\ Fairness

-----------------------------------------------------------------------------
(* Properties *)

\* No clear is waiting to be applied (it would pull everything anew), and no
\* reset has run into another flow's pull or reset (those do skip messages).
Undisturbed == appliedClears = clears /\ ~overlapped

\* The device never skips a message, unless a row whose cursor covers it was there
\* before it: every row of the server behind the stored cursor is in the mirror,
\* since no later pull asks for it.  It needs the cursor to be stored after the
\* rows and dropped with them, also when the app is killed in between.
NothingSkipped ==
    Undisturbed => \A m \in log : ~m.late /\ Covers(cursor, m) => m \in mirror

\* Once a bulk clear is applied, no message from before it is shown.
NoGhosts ==
    ~overlapped =>
        \A m \in mirror : m.clears >= appliedClears

\* A history pull that ends has brought every message that was there when it
\* began and still is, with the same exception.
PullIsComplete ==
    [][\A f \in Flow :
          (ApplyPage(f) /\ flow'[f].pc \in {"saving", "idle"} /\ Undisturbed)
             => {m \in flow[f].asked \cap log : ~m.late} \subseteq mirror']_vars

\* Comment of updateLastHistorySyncedCursor: the compound cursor lets "the next
\* page request resume past collisions".
ResumesPastCollisions ==
    [][\A f \in Flow :
          (ApplyPage(f) /\ flow'[f].pc \in {"saving", "idle"})
             => (flow[f].asked \cap log) \subseteq mirror']_vars

\* Whatever is inserted meanwhile, a flow that was started ends: its pages
\* move forward.
FlowsEnd == \A f \in Flow : []<>(flow[f] = Idle)
=============================================================================
