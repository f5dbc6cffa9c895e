--------------------------- MODULE AttachmentFetch ---------------------------
(***************************************************************************)
(* The bytes of message attachments on a device.  A row in the database    *)
(* says how far its download is; ticks pick rows that need one, ask the    *)
(* server with files.get, collect the acknowledgement, the chunks and the  *)
(* terminal response, save the file and mark the row                       *)
(* (attachment_fetch_service.dart, message_attachments_dao.dart,           *)
(* gateway_request_client.dart, stream_sender.py).                         *)
(*                                                                         *)
(* The 30 s ticker lets one of its ticks run at a time, the ticks of the   *)
(* sync flows run beside it.  A bulk clear deletes files and rows          *)
(* meanwhile (channel_repository_impl.dart).  A call's frames carry its    *)
(* request id, which is not used again: frames that arrive when the call   *)
(* is over are ignored, so they are dropped here with the call.            *)
(***************************************************************************)
EXTENDS Naturals, Sequences

CONSTANTS
    Row,         \* attachment rows of the mirror
    NoRow,       \* absence of a row
    Tick,        \* ticks that may run at the same time
    Chunks,      \* chunks of a file
    Disturbances,\* which of the environment's events may happen
    MaxEvents    \* bound: disturbances in one behaviour

ASSUME RowAssumption == NoRow \notin Row
ASSUME ChunkAssumption == Chunks \in Nat \ {0}
ASSUME DisturbanceAssumption ==
    Disturbances \subseteq {"lose", "slow", "cancel", "kill", "clear"}
ASSUME BoundAssumption == MaxEvents \in Nat

VARIABLES
    \* --- device, on disk
    status,  \* status[r]: fetch_status, absent without a row
    path,    \* rows whose local_path is set
    files,   \* rows whose bytes are on disk
    \* --- device, in memory
    due,     \* rows whose last attempt is old enough to be tried again
    pc,      \* pc[t]: where tick t is with its row
    target,  \* target[t]: the row
    ackSeen, \* ackSeen[t]: the session has had a first response
    got,     \* got[t]: chunks in the session's buffer
    \* --- server
    wire,    \* wire[t]: frames of the call on their way, in order
    asked,   \* calls whose request has not been served
    cleared, \* the channel was cleared and the server's files are gone
    resetting, \* the mirror's reset: none, files or rows (to be deleted next),
               \* again (interrupted between the two), done
    \* --- bound
    events

session == <<ackSeen, got, wire, asked>>
vars == <<status, path, files, due, pc, target, ackSeen, got, wire, asked,
          cleared, resetting, events>>

Whole == [i \in 1..Chunks |-> i]
Response(kind) == [type |-> kind, seq |-> 0]
Chunk(i) == [type |-> "chunk", seq |-> i]
Frame == {Response(kind) : kind \in {"ack", "end", "error"}} \cup {Chunk(i) : i \in 1..Chunks}

TypeOK ==
    /\ status \in [Row -> {"absent", "pending", "fetching", "failed", "ready"}]
    /\ path \subseteq Row /\ files \subseteq Row /\ due \subseteq Row
    /\ pc \in [Tick -> {"idle", "marking", "waiting", "saving", "readying", "failing"}]
    /\ target \in [Tick -> Row \cup {NoRow}]
    /\ \A t \in Tick : target[t] = NoRow <=> pc[t] = "idle"
    /\ ackSeen \in [Tick -> BOOLEAN] /\ got \in [Tick -> Seq(1..Chunks)]
    /\ wire \in [Tick -> Seq(Frame)] /\ asked \subseteq Tick
    /\ cleared \in BOOLEAN /\ resetting \in {"none", "files", "rows", "again", "done"}
    /\ events \in 0..MaxEvents

\* The history has just inserted the rows.
Init ==
    /\ status = [r \in Row |-> "pending"]
    /\ path = {} /\ files = {} /\ due = {}
    /\ pc = [t \in Tick |-> "idle"]
    /\ target = [t \in Tick |-> NoRow]
    /\ ackSeen = [t \in Tick |-> FALSE]
    /\ got = [t \in Tick |-> <<>>]
    /\ wire = [t \in Tick |-> <<>>] /\ asked = {}
    /\ cleared = FALSE /\ resetting = "none" /\ events = 0

Disturb(kind) ==
    /\ kind \in Disturbances
    /\ events < MaxEvents
    /\ events' = events + 1

-----------------------------------------------------------------------------
(* Ticks *)

\* Mutant: a row that was being fetched is never picked again.
NeverStale(r) ==
    status[r] = "pending" \/ (status[r] = "failed" /\ r \in due)

\* getFetchCandidates: new rows, failed ones after a delay, and those that
\* have been fetching for too long.
IsCandidate(r) ==
    status[r] = "pending" \/ (status[r] \in {"failed", "fetching"} /\ r \in due)

StartFetch(t) ==
    /\ pc[t] = "idle"
    /\ \E r \in Row :
          /\ IsCandidate(r)
          /\ target' = [target EXCEPT ![t] = r]
    /\ pc' = [pc EXCEPT ![t] = "marking"]
    /\ UNCHANGED <<status, path, files, due, session, cleared, resetting, events>>

\* An update of a row that has been deleted changes nothing.
Mark(r, s) == status' = [status EXCEPT ![r] = IF @ = "absent" THEN @ ELSE s]

\* The row is marked, then the session opened and the request sent.
MarkFetching(t) ==
    /\ pc[t] = "marking"
    /\ Mark(target[t], "fetching")
    /\ due' = due \ {target[t]}
    /\ pc' = [pc EXCEPT ![t] = "waiting"]
    /\ ackSeen' = [ackSeen EXCEPT ![t] = FALSE]
    /\ got' = [got EXCEPT ![t] = <<>>]
    /\ wire' = [wire EXCEPT ![t] = <<>>]
    /\ asked' = asked \cup {t}
    /\ UNCHANGED <<path, files, target, cleared, resetting, events>>

\* Mutant: the row is marked before the file is written.
MarkReadyEarly(t) ==
    /\ pc[t] = "saving"
    /\ Mark(target[t], "ready")
    /\ path' = path \cup {target[t]}
    /\ pc' = [pc EXCEPT ![t] = "readying"]
    /\ UNCHANGED <<files, due, target, session, cleared, resetting, events>>

SaveBytes(t) ==
    /\ pc[t] = "saving"
    /\ files' = files \cup {target[t]}
    /\ pc' = [pc EXCEPT ![t] = "readying"]
    /\ UNCHANGED <<status, path, due, target, session, cleared, resetting, events>>

\* Mutant: the tick keeps its row.
MarkReadyAndHold(t) ==
    /\ pc[t] = "readying"
    /\ Mark(target[t], "ready")
    /\ path' = IF status[target[t]] = "absent" THEN path ELSE path \cup {target[t]}
    /\ pc' = [pc EXCEPT ![t] = "idle"]
    /\ UNCHANGED <<files, due, target, session, cleared, resetting, events>>

MarkReady(t) ==
    /\ pc[t] = "readying"
    /\ Mark(target[t], "ready")
    /\ path' = IF status[target[t]] = "absent" THEN path ELSE path \cup {target[t]}
    /\ pc' = [pc EXCEPT ![t] = "idle"]
    /\ target' = [target EXCEPT ![t] = NoRow]
    /\ UNCHANGED <<files, due, session, cleared, resetting, events>>

\* Whatever the row says by now, also when another tick has just made it ready.
MarkFailed(t) ==
    /\ pc[t] = "failing"
    /\ Mark(target[t], "failed")
    /\ due' = due \ {target[t]}
    /\ pc' = [pc EXCEPT ![t] = "idle"]
    /\ target' = [target EXCEPT ![t] = NoRow]
    /\ UNCHANGED <<path, files, session, cleared, resetting, events>>

\* The retry delay of a failed row passes; a fetching one is stale after two
\* minutes, which a tick that is still at work seldom takes.
BecomeDue(r) ==
    /\ status[r] \in {"failed", "fetching"} /\ r \notin due
    /\ \/ (status[r] = "failed" \/ \A t \in Tick : target[t] # r) /\ UNCHANGED events
       \/ status[r] = "fetching" /\ Disturb("slow")
    /\ due' = due \cup {r}
    /\ UNCHANGED <<status, path, files, pc, target, session, cleared, resetting>>

-----------------------------------------------------------------------------
(* files.get *)

\* The server answers with an error, or an acknowledgement, the stream and the
\* terminal response, in the order of its outbound queue.
ServeFile(t) ==
    /\ t \in asked
    /\ asked' = asked \ {t}
    /\ wire' = [wire EXCEPT ![t] =
           IF cleared THEN <<Response("error")>>
           ELSE <<Response("ack")>> \o [i \in 1..Chunks |-> Chunk(i)] \o <<Response("end")>>]
    /\ UNCHANGED <<status, path, files, due, pc, target, ackSeen, got, cleared,
                   resetting, events>>

\* The call ends: its session and its timer are dropped.
End(t, next) ==
    /\ pc' = [pc EXCEPT ![t] = next]
    /\ wire' = [wire EXCEPT ![t] = <<>>]
    /\ asked' = asked \ {t}

\* Mutant: the terminal response is believed.
Believed(t) == TRUE

\* The size the terminal response gives, and the hash in the blob's id.
Verified(t) == Len(got[t]) = Chunks /\ got[t] = Whole

Arrives(t, kinds) == pc[t] = "waiting" /\ wire[t] # <<>> /\ Head(wire[t]).type \in kinds

ReceiveChunk(t) ==
    /\ Arrives(t, {"chunk"})
    /\ got' = [got EXCEPT ![t] = Append(@, Head(wire[t]).seq)]
    /\ wire' = [wire EXCEPT ![t] = Tail(@)]
    /\ UNCHANGED <<status, path, files, due, pc, target, ackSeen, asked, cleared,
                   resetting, events>>

\* The first response is the acknowledgement, whatever it says: when that was
\* lost the terminal response is taken for it, and only the timer ends the call.
ReceiveResponse(t) ==
    /\ Arrives(t, {"ack", "end"})
    /\ IF ~ackSeen[t]
       THEN /\ ackSeen' = [ackSeen EXCEPT ![t] = TRUE]
            /\ wire' = [wire EXCEPT ![t] = Tail(@)]
            /\ UNCHANGED <<pc, asked>>
       ELSE /\ End(t, IF Verified(t) THEN "saving" ELSE "failing")
            /\ UNCHANGED ackSeen
    /\ UNCHANGED <<status, path, files, due, target, got, cleared, resetting, events>>

ReceiveError(t) ==
    /\ Arrives(t, {"error"})
    /\ End(t, "failing")
    /\ UNCHANGED <<status, path, files, due, target, ackSeen, got, cleared, resetting, events>>

\* The session's timer: when nothing comes any more, or before the end of a
\* transfer that is slow.
SessionTimeout(t) ==
    /\ pc[t] = "waiting"
    /\ \/ wire[t] = <<>> /\ t \notin asked /\ UNCHANGED events
       \/ Disturb("slow")
    /\ End(t, "failing")
    /\ UNCHANGED <<status, path, files, due, target, ackSeen, got, cleared, resetting>>

\* The request or a frame is lost with a socket; the gateway repeats nothing.
Lose(t) ==
    /\ Disturb("lose") /\ pc[t] = "waiting"
    /\ \/ asked' = asked \ {t} /\ t \in asked /\ UNCHANGED wire
       \/ wire[t] # <<>> /\ wire' = [wire EXCEPT ![t] = Tail(@)] /\ UNCHANGED asked
    /\ UNCHANGED <<status, path, files, due, pc, target, ackSeen, got, cleared, resetting>>

\* Logout: every call that waits is answered with an error.
CancelAll ==
    /\ Disturb("cancel")
    /\ pc' = [t \in Tick |-> IF pc[t] = "waiting" THEN "failing" ELSE pc[t]]
    /\ wire' = [t \in Tick |-> <<>>] /\ asked' = {}
    /\ UNCHANGED <<status, path, files, due, target, ackSeen, got, cleared, resetting>>

-----------------------------------------------------------------------------
(* Bulk clear and restart *)

ServerClears ==
    /\ Disturb("clear") /\ ~cleared
    /\ cleared' = TRUE /\ resetting' = "files"
    /\ UNCHANGED <<status, path, files, due, pc, target, session>>

\* The reset deletes the files the rows name, then the rows.
DeleteFiles ==
    /\ resetting \in {"files", "again"}
    /\ files' = files \ path
    /\ resetting' = "rows"
    /\ UNCHANGED <<status, path, due, pc, target, session, cleared, events>>

DeleteRows ==
    /\ resetting = "rows"
    /\ status' = [r \in Row |-> "absent"]
    /\ path' = {} /\ due' = {}
    /\ resetting' = "done"
    /\ UNCHANGED <<files, pc, target, session, cleared, events>>

\* The app is killed and started again: rows and files are as they were, and
\* a clear that was not applied to the end is applied again.
AppKilled ==
    /\ Disturb("kill")
    /\ pc' = [t \in Tick |-> "idle"]
    /\ target' = [t \in Tick |-> NoRow]
    /\ ackSeen' = [t \in Tick |-> FALSE]
    /\ got' = [t \in Tick |-> <<>>]
    /\ wire' = [t \in Tick |-> <<>>] /\ asked' = {}
    /\ resetting' = IF resetting = "rows" THEN "again" ELSE resetting
    /\ UNCHANGED <<status, path, files, due, cleared>>

-----------------------------------------------------------------------------

Receive(t) == ReceiveChunk(t) \/ ReceiveResponse(t) \/ ReceiveError(t)

TickStep(t) ==
    \/ MarkFetching(t) \/ SaveBytes(t) \/ MarkReady(t) \/ MarkFailed(t) \/ Receive(t)

Next ==
    \/ \E t \in Tick :
          StartFetch(t) \/ TickStep(t) \/ ServeFile(t) \/ SessionTimeout(t) \/ Lose(t)
    \/ \E r \in Row : BecomeDue(r)
    \/ CancelAll \/ ServerClears \/ DeleteFiles \/ DeleteRows \/ AppKilled

Spec == Init /\ [][Next]_vars

\* Ticks come every 30 s while the app runs, a tick goes on with its row, the
\* server serves what it is asked, and timers fire.
Fairness ==
    /\ WF_vars(\E t \in Tick : StartFetch(t))
    /\ \A t \in Tick : WF_vars(TickStep(t)) /\ WF_vars(ServeFile(t)) /\ WF_vars(SessionTimeout(t))
    /\ \A r \in Row : WF_vars(BecomeDue(r))
    /\ WF_vars(DeleteFiles \/ DeleteRows)

FairSpec == Spec /\ Fairness

-----------------------------------------------------------------------------
(* Properties *)

\* A row says ready only of bytes that are on disk, whatever two ticks on the
\* same row, a restart between the two writes or a reset under way do.
ReadyHasBytes ==
    resetting \notin {"rows", "again"} =>
        \A r \in Row : status[r] = "ready" => r \in files

\* Every attachment of the mirror ends up ready and stays so, unless its
\* message is deleted: after losses, timeouts, a logout, a restart in the
\* middle of a fetch, and a tick that marks a row failed that another one has
\* just made ready.
EndsUpReady ==
    \A r \in Row : <>[](status[r] \in {"ready", "absent"})

\* A call of files.get is answered once, with the whole file or an error.
CallOf(t) ==
    IF pc[t] = "waiting" THEN "asking"
    ELSE IF pc[t] = "saving" THEN IF got[t] = Whole THEN "whole" ELSE "broken"
    ELSE IF pc[t] = "failing" THEN "error"
    ELSE "idle"

Call == INSTANCE FileCall WITH Caller <- Tick, call <- [t \in Tick |-> CallOf(t)]
WholeOrError == Call!Spec
=============================================================================
