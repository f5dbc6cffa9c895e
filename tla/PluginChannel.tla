---------------------------- MODULE PluginChannel ----------------------------
(***************************************************************************)
(* One channel of the server: the plugin process that serves it, its       *)
(* sockets to the ChannelManager, the registry entry that says which of    *)
(* them is the channel, the admin's switch, the server's own stop and      *)
(* start, and the outbound worker.                                         *)
(*                                                                         *)
(*   plugin   connect, register, read frames, redial until told to stop    *)
(*            (hiro_channel_sdk/transport.py)                              *)
(*   manager  one handler per socket, registry, process supervision        *)
(*            (channel_manager.py)                                         *)
(*   worker   takes messages off the queue one at a time and awaits the    *)
(*            registered socket's send (outbound_pipeline.py)              *)
(*                                                                         *)
(* A socket has two ends: what the server knows of it (sock) and whether   *)
(* the plugin still has it (peer); the server notices a close later.       *)
(***************************************************************************)
EXTENDS Naturals, Sequences

CONSTANTS
    Conn,        \* sockets, each used for one connection
    NoConn,      \* absence of a socket
    Disturbances,\* which of the environment's events may happen
    MaxEvents,   \* bound: disturbances in one behaviour
    MaxMessages  \* bound: messages for the channel

ASSUME NoConnAssumption == NoConn \notin Conn
ASSUME DisturbanceAssumption ==
    Disturbances \subseteq {"drop", "crash", "switch", "busy", "stop", "restart"}
ASSUME BoundAssumption == MaxEvents \in Nat /\ MaxMessages \in Nat

VARIABLES
    \* --- manager
    registry, \* _channels[name].ws, NoConn without an entry
    sock,     \* sock[c]: the server's end: unused, open, closing, closed
    handler,  \* handler[c]: where _handle_connection of c is
    prev,     \* prev[c]: the socket the registration of c is closing
    enabled,  \* the channel is enabled in the workspace
    admin,    \* idle, or closing: deactivate awaits a close
    victim,   \* the socket deactivate is closing
    server,   \* running, stopping (the channels are told), closing, down
    \* --- worker
    queued,   \* messages enqueued and not taken
    worker,   \* idle, draining (awaits a full socket) or dead
    draining, \* the socket a draining worker waits for
    \* --- plugin
    plugin,   \* the process: up, stopped (told to stop, not yet gone), down
    peer,     \* the socket the process has open, NoConn while it redials
    frames,   \* frames[c]: what was sent to the plugin and it has not read
    started,  \* on_start was called for the present connection
    \* --- bounds
    events, messages

manager == <<registry, sock, handler, prev>>
switch == <<enabled, admin, victim, server>>
outbound == <<queued, worker, draining, messages>>
process == <<plugin, peer, started>>
vars == <<registry, sock, handler, prev, enabled, admin, victim, server, queued,
          worker, draining, plugin, peer, frames, started, events, messages>>

Frame == {"configure", "stop", "send"}

TypeOK ==
    /\ registry \in Conn \cup {NoConn}
    /\ sock \in [Conn -> {"unused", "open", "closing", "closed"}]
    /\ handler \in [Conn -> {"none", "accepted", "replacing", "reading", "busy", "done"}]
    /\ prev \in [Conn -> Conn \cup {NoConn}]
    /\ \A c \in Conn : handler[c] = "replacing" <=> prev[c] # NoConn
    /\ enabled \in BOOLEAN /\ admin \in {"idle", "closing"}
    /\ server \in {"running", "stopping", "closing", "down"}
    /\ victim \in Conn \cup {NoConn}
    /\ queued \in 0..MaxMessages /\ worker \in {"idle", "draining", "dead"}
    /\ draining \in Conn \cup {NoConn}
    /\ plugin \in {"up", "stopped", "down"} /\ peer \in Conn \cup {NoConn}
    /\ frames \in [Conn -> Seq(Frame)]
    /\ started \in BOOLEAN /\ events \in 0..MaxEvents /\ messages \in 0..MaxMessages

\* The server has spawned the enabled channel; its plugin has not dialled yet.
Init ==
    /\ registry = NoConn
    /\ sock = [c \in Conn |-> "unused"]
    /\ handler = [c \in Conn |-> "none"]
    /\ prev = [c \in Conn |-> NoConn]
    /\ enabled = TRUE /\ admin = "idle" /\ victim = NoConn
    /\ server = "running"
    /\ queued = 0 /\ worker = "idle" /\ draining = NoConn
    /\ plugin = "up" /\ peer = NoConn
    /\ frames = [c \in Conn |-> <<>>]
    /\ started = FALSE /\ events = 0 /\ messages = 0

Disturb(kind) ==
    /\ kind \in Disturbances
    /\ events < MaxEvents
    /\ events' = events + 1

\* ws.send of frame f on c: a socket that is not open takes nothing.
Sent(c, f) == IF sock[c] = "open" THEN [frames EXCEPT ![c] = Append(@, f)] ELSE frames

\* ws.close of c: the handshake is under way until the other end has answered.
Closing(c) == IF sock[c] = "open" THEN [sock EXCEPT ![c] = "closing"] ELSE sock

-----------------------------------------------------------------------------
(* Plugin process *)

\* Mutant: the redial does not wait.
ConnectAtOnce(c) ==
    /\ plugin = "up" /\ peer = NoConn
    /\ server \in {"running", "stopping"} /\ sock[c] = "unused"
    /\ peer' = c
    /\ sock' = [sock EXCEPT ![c] = "open"]
    /\ handler' = [handler EXCEPT ![c] = "accepted"]
    /\ UNCHANGED <<registry, prev, switch, outbound, plugin, frames, started, events>>

\* The transport dials.  Its redial delay (5 s), like the start of a process,
\* is longer than the manager needs to read a registration and to close the
\* socket of a peer that has gone: no registration is still under way.
Connect(c) ==
    /\ plugin = "up" /\ peer = NoConn
    /\ server \in {"running", "stopping"} /\ sock[c] = "unused"
    /\ \A e \in Conn : handler[e] \notin {"accepted", "replacing"}
    /\ peer' = c
    /\ sock' = [sock EXCEPT ![c] = "open"]
    /\ handler' = [handler EXCEPT ![c] = "accepted"]
    /\ UNCHANGED <<registry, prev, switch, outbound, plugin, frames, started, events>>

\* The first configure starts the plugin; a stop ends the redial loop once
\* the socket closes.
ReadFrame ==
    /\ peer # NoConn /\ frames[peer] # <<>>
    /\ LET f == Head(frames[peer]) IN
       /\ plugin' = IF f = "stop" THEN "stopped" ELSE plugin
       /\ started' = (started \/ f = "configure")
    /\ frames' = [frames EXCEPT ![peer] = Tail(@)]
    /\ UNCHANGED <<manager, switch, outbound, peer, events>>

\* The process loses its socket, with what it had not read: on_stop is called,
\* and without a stop it will redial.
LosePeer ==
    /\ peer' = NoConn
    /\ started' = FALSE
    /\ frames' = [c \in Conn |-> IF c = peer THEN <<>> ELSE frames[c]]
    /\ plugin' = IF plugin = "stopped" THEN "down" ELSE plugin

PluginDrops ==
    /\ Disturb("drop") /\ peer # NoConn
    /\ LosePeer
    /\ UNCHANGED <<manager, switch, outbound>>

\* A frame read before the server's close is handled before it.
PluginAnswersClose ==
    /\ peer # NoConn /\ sock[peer] # "open" /\ frames[peer] = <<>>
    /\ LosePeer
    /\ UNCHANGED <<manager, switch, outbound, events>>

PluginCrashes ==
    /\ Disturb("crash") /\ plugin # "down"
    /\ plugin' = "down" /\ peer' = NoConn /\ started' = FALSE
    /\ frames' = [c \in Conn |-> <<>>]
    /\ UNCHANGED <<manager, switch, outbound>>

-----------------------------------------------------------------------------
(* Connection handler of the manager *)

\* The server's end learns that the other end is gone.
NoticeClosed(c) ==
    /\ sock[c] \in {"open", "closing"} /\ peer # c
    /\ sock' = [sock EXCEPT ![c] = "closed"]
    /\ UNCHANGED <<registry, handler, prev, switch, outbound, process, frames, events>>

\* Mutant: the entry is set before the connection it replaces is closed.
RegisterAtOnce(c) ==
    /\ handler[c] = "accepted"
    /\ LET old == registry IN
       IF old \notin {NoConn, c} /\ sock[old] \in {"open", "closing"}
       THEN /\ registry' = c
            /\ frames' = Sent(old, "stop")
            /\ sock' = Closing(old)
            /\ prev' = [prev EXCEPT ![c] = old]
            /\ handler' = [handler EXCEPT ![c] = "replacing"]
       ELSE /\ registry' = IF sock[c] = "open" THEN c ELSE NoConn
            /\ frames' = Sent(c, "configure")
            /\ handler' = [handler EXCEPT ![c] = IF sock[c] = "open" THEN "reading" ELSE "done"]
            /\ UNCHANGED <<sock, prev>>
    /\ UNCHANGED <<switch, outbound, process, events>>

\* Mutant: a failed configure leaves the entry behind.
EnterAndStay(c) ==
    /\ registry' = c
    /\ frames' = Sent(c, "configure")
    /\ handler' = [handler EXCEPT ![c] = IF sock[c] = "open" THEN "reading" ELSE "done"]

\* The entry is set and the config pushed without a yield between them.  On a
\* closed socket the push raises and the handler's finally drops the entry.
Enter(c) ==
    IF sock[c] = "open"
    THEN /\ registry' = c
         /\ frames' = Sent(c, "configure")
         /\ handler' = [handler EXCEPT ![c] = "reading"]
    ELSE /\ registry' = NoConn
         /\ handler' = [handler EXCEPT ![c] = "done"]
         /\ UNCHANGED frames

\* channel.register: another connection under the name is told to stop and
\* closed first, which takes until the other end has answered.
Register(c) ==
    /\ handler[c] = "accepted"
    /\ LET old == registry IN
       IF old \notin {NoConn, c} /\ sock[old] \in {"open", "closing"}
       THEN /\ frames' = Sent(old, "stop")
            /\ sock' = Closing(old)
            /\ prev' = [prev EXCEPT ![c] = old]
            /\ handler' = [handler EXCEPT ![c] = "replacing"]
            /\ UNCHANGED registry
       ELSE /\ Enter(c)
            /\ UNCHANGED <<sock, prev>>
    /\ UNCHANGED <<switch, outbound, process, events>>

\* Mutant: the handler goes on holding the connection it replaced.
FinishKeepsPrev(c) ==
    /\ handler[c] = "replacing" /\ sock[prev[c]] = "closed"
    /\ Enter(c)
    /\ UNCHANGED <<sock, prev, switch, outbound, process, events>>

\* The connection it replaces is closed.
FinishRegister(c) ==
    /\ handler[c] = "replacing" /\ sock[prev[c]] = "closed"
    /\ Enter(c)
    /\ prev' = [prev EXCEPT ![c] = NoConn]
    /\ UNCHANGED <<sock, switch, outbound, process, events>>

\* A received message or event is awaited inside the handler, which notices
\* nothing of its socket meanwhile.
Dispatch(c) ==
    /\ Disturb("busy") /\ handler[c] = "reading"
    /\ handler' = [handler EXCEPT ![c] = "busy"]
    /\ UNCHANGED <<registry, sock, prev, switch, outbound, process, frames>>

DispatchEnds(c) ==
    /\ handler[c] = "busy"
    /\ handler' = [handler EXCEPT ![c] = "reading"]
    /\ UNCHANGED <<registry, sock, prev, switch, outbound, process, frames, events>>

\* Mutant: the handler deletes the name's entry, whoever it is.
DropAnyEntry(c) ==
    /\ handler[c] = "reading" /\ sock[c] = "closed"
    /\ handler' = [handler EXCEPT ![c] = "done"]
    /\ registry' = NoConn
    /\ UNCHANGED <<sock, prev, switch, outbound, process, frames, events>>

\* The receive loop ends with its socket; only its own entry is deleted.
HandlerEnds(c) ==
    /\ handler[c] = "reading" /\ sock[c] = "closed"
    /\ handler' = [handler EXCEPT ![c] = "done"]
    /\ registry' = IF registry = c THEN NoConn ELSE registry
    /\ UNCHANGED <<sock, prev, switch, outbound, process, frames, events>>

-----------------------------------------------------------------------------
(* Outbound worker *)

Enqueue ==
    /\ server # "down" /\ messages < MaxMessages
    /\ messages' = messages + 1
    /\ queued' = queued + 1
    /\ UNCHANGED <<manager, switch, worker, draining, process, frames, events>>

\* send_to_channel: without an entry the message is dropped; the send on a
\* socket that is no longer open raises, and so does one that waits for a full
\* socket to drain when it closes.  Nothing catches it: the worker is gone.
WorkerSends ==
    /\ worker = "idle" /\ queued > 0
    /\ queued' = queued - 1
    /\ IF registry = NoConn THEN UNCHANGED <<frames, worker, draining>>
       ELSE /\ frames' = Sent(registry, "send")
            /\ \/ sock[registry] = "open" /\ UNCHANGED <<worker, draining>>
               \/ sock[registry] = "open" /\ worker' = "draining" /\ draining' = registry
               \/ sock[registry] # "open" /\ worker' = "dead" /\ UNCHANGED draining
    /\ UNCHANGED <<manager, switch, process, events, messages>>

WorkerDrained ==
    /\ worker = "draining"
    /\ \/ sock[draining] = "closed" /\ worker' = "dead"
       \/ frames[draining] = <<>> /\ sock[draining] # "closed" /\ worker' = "idle"
    /\ draining' = NoConn
    /\ UNCHANGED <<manager, switch, process, frames, events, queued, messages>>

-----------------------------------------------------------------------------
(* Supervision *)

\* The admin disables the channel: the entry is popped, the plugin told to
\* stop, the socket closed.
Deactivate ==
    /\ Disturb("switch") /\ server # "down" /\ enabled /\ admin = "idle"
    /\ enabled' = FALSE /\ admin' = "closing" /\ victim' = registry
    /\ registry' = NoConn
    /\ IF registry = NoConn THEN UNCHANGED <<frames, sock>>
       ELSE frames' = Sent(registry, "stop") /\ sock' = Closing(registry)
    /\ UNCHANGED <<handler, prev, server, outbound, process>>

\* The process is terminated, or killed by its recorded pid, wherever it was.
Killed ==
    /\ plugin' = "down" /\ peer' = NoConn /\ started' = FALSE
    /\ frames' = [c \in Conn |-> <<>>]

\* ... and once it is closed the process is terminated and killed.
Reap ==
    /\ admin = "closing"
    /\ victim # NoConn => sock[victim] = "closed"
    /\ admin' = "idle" /\ victim' = NoConn
    /\ Killed
    /\ UNCHANGED <<manager, enabled, server, outbound, events>>

\* Enable, or enable again after a crash: a process is spawned, and what the
\* recorded pid names is killed, unless one this server has spawned runs.
\* Requests of the admin are taken one after the other.
Activate ==
    /\ Disturb("switch") /\ server # "down" /\ admin = "idle"
    /\ enabled' = TRUE
    /\ IF enabled /\ plugin # "down" THEN UNCHANGED <<process, frames>>
       ELSE /\ plugin' = "up" /\ peer' = NoConn /\ started' = FALSE
            /\ frames' = [c \in Conn |-> <<>>]
    /\ UNCHANGED <<manager, admin, victim, server, outbound>>

\* The server is stopped: the channel that is registered is told to stop.
ShutdownChannels ==
    /\ Disturb("stop") /\ server = "running"
    /\ server' = "stopping"
    /\ frames' = IF registry = NoConn THEN frames ELSE Sent(registry, "stop")
    /\ UNCHANGED <<manager, enabled, admin, victim, outbound, process>>

\* A second later the processes this server has spawned, and not reaped, are
\* terminated; then the server of the sockets closes them.
CloseServer ==
    /\ server = "stopping"
    /\ server' = "closing"
    /\ IF enabled \/ admin = "closing" THEN Killed ELSE UNCHANGED <<process, frames>>
    /\ sock' = [c \in Conn |-> IF sock[c] = "open" THEN "closing" ELSE sock[c]]
    /\ UNCHANGED <<registry, handler, prev, enabled, admin, victim, outbound, events>>

\* Sockets and handlers have ended; the rest of the process goes with it.
ServerExits ==
    /\ server = "closing"
    /\ \A c \in Conn : sock[c] \in {"unused", "closed"} /\ handler[c] \in {"none", "done"}
    /\ server' = "down" /\ admin' = "idle" /\ victim' = NoConn /\ registry' = NoConn
    /\ queued' = 0 /\ worker' = "idle" /\ draining' = NoConn
    /\ UNCHANGED <<sock, handler, prev, enabled, messages, process, frames, events>>

\* The server process dies: every socket, handler and queue goes with it, the
\* plugin is a session of its own and stays.
ServerCrashes ==
    /\ Disturb("restart") /\ server # "down"
    /\ server' = "down" /\ admin' = "idle" /\ victim' = NoConn /\ registry' = NoConn
    /\ sock' = [c \in Conn |-> IF sock[c] = "unused" THEN "unused" ELSE "closed"]
    /\ handler' = [c \in Conn |-> IF sock[c] = "unused" THEN "none" ELSE "done"]
    /\ prev' = [c \in Conn |-> NoConn]
    /\ queued' = 0 /\ worker' = "idle" /\ draining' = NoConn
    /\ LosePeer
    /\ UNCHANGED <<enabled, messages>>

\* It starts: each enabled channel's previous process is killed by its pid and
\* a new one spawned; nothing looks at the disabled ones.
ServerBoots ==
    /\ server = "down"
    /\ server' = "running"
    /\ plugin' = IF enabled THEN "up" ELSE plugin
    /\ UNCHANGED <<manager, enabled, admin, victim, outbound, peer, started, frames, events>>

-----------------------------------------------------------------------------

Next ==
    \/ ReadFrame \/ PluginDrops \/ PluginAnswersClose \/ PluginCrashes
    \/ \E c \in Conn :
          \/ Connect(c) \/ NoticeClosed(c) \/ Register(c) \/ FinishRegister(c)
          \/ Dispatch(c) \/ DispatchEnds(c) \/ HandlerEnds(c)
    \/ Enqueue \/ WorkerSends \/ WorkerDrained
    \/ Deactivate \/ Reap \/ Activate
    \/ ShutdownChannels \/ CloseServer \/ ServerExits \/ ServerCrashes \/ ServerBoots

Spec == Init /\ [][Next]_vars

\* The loops of the plugin and of the server, which is started again once it is
\* down; nothing is assumed of the admin, of disturbances or of who enqueues.
Fairness ==
    /\ WF_vars(ReadFrame) /\ WF_vars(PluginAnswersClose)
    /\ WF_vars(\E c \in Conn : Connect(c))
    /\ \A c \in Conn :
          /\ WF_vars(NoticeClosed(c)) /\ WF_vars(Register(c)) /\ WF_vars(FinishRegister(c))
          /\ WF_vars(DispatchEnds(c)) /\ WF_vars(HandlerEnds(c))
    /\ WF_vars(WorkerSends) /\ WF_vars(WorkerDrained)
    /\ WF_vars(Reap)
    /\ WF_vars(CloseServer) /\ WF_vars(ServerExits) /\ WF_vars(ServerBoots)

FairSpec == Spec /\ Fairness

-----------------------------------------------------------------------------
(* Properties *)

\* The registry never names a connection whose handler has ended: that handler
\* is the only one that would remove the entry, so every later send to the
\* channel would go to a dead socket.
EntryIsLive ==
    registry # NoConn => handler[registry] \in {"reading", "busy"}

\* What the worker sends never reaches a plugin that was not started: a
\* message waiting for a plugin has the configure in front of it, or behind it.
ConfiguredFirst ==
    peer # NoConn =>
        \A i \in 1..Len(frames[peer]) : frames[peer][i] = "send" =>
            started \/ \E j \in 1..(i - 1) : frames[peer][j] = "configure"

\* A plugin leaves its loop only when its channel was disabled or its server is
\* being stopped: the stop that a registration sends to the connection it
\* replaces never reaches the process that has just redialled, which nobody
\* would start again.  The redial delay is what this rests on (Connect).
StopsAreMeant ==
    plugin = "stopped" => ~enabled \/ server \in {"stopping", "closing"}

\* Docstring of deactivate: "a deactivated channel must stop flowing entirely".
DisabledIsSilent ==
    (~enabled /\ admin = "idle" /\ server = "running") => plugin = "down"

\* Docstring of OutboundPipeline.run: "Continuously drain the queue and
\* dispatch to the sink."
QueueIsDrained == [](queued > 0 => <>(queued = 0))

\* The registry follows the process: one that stays up ends up registered with
\* the socket it really has, and started; of one that is gone no entry stays.
RegistryFollowsPlugin ==
    /\ <>[](plugin = "up") => <>[](registry # NoConn /\ registry = peer /\ started)
    /\ <>[](plugin = "down") => <>[](registry = NoConn)
=============================================================================
