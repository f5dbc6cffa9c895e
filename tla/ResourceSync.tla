---------------------------- MODULE ResourceSync ----------------------------
(***************************************************************************)
(* How one logical resource (policy, channels, ...) is kept in step on the *)
(* devices: the server bumps a version and sends a resource.changed hint,  *)
(* the device answers a hint it has not seen with a pull, and the response *)
(* carries the content and the version it was read at.                     *)
(*                                                                         *)
(*   server   domain event -> debounced flush -> hints, pulls served       *)
(*            (resource_change_broadcaster.py, request_methods.py)         *)
(*   link     server <-> devices plugin <-> gateway, dropped and redialled *)
(*   gateway  which devices are registered, what it tells the desktop      *)
(*   device   duplicate guard, apply, record (gateway_notifier.dart,       *)
(*            resource_sync_bootstrap.dart, resource_sync_version_store.dart)*)
(*                                                                         *)
(* The content is the number of changes made so far.  A hint carries the   *)
(* content at its bump in the auxiliary field "data", and "announced" is   *)
(* history too: no action reads either, the code has neither.              *)
(***************************************************************************)
EXTENDS Integers, Sequences

CONSTANTS
    Device,      \* the paired devices
    ApplyMode,   \* "snapshot" (policy) or "mirror" (channels)
    Disturbances,\* which of the environment's events may happen
    MaxChanges,  \* bound: changes made to the resource
    MaxEvents,   \* bound: disturbances in one behaviour
    MaxLoss      \* bound: messages per device lost with a gateway session

ASSUME ModeAssumption == ApplyMode \in {"snapshot", "mirror"}
ASSUME DisturbanceAssumption ==
    Disturbances \subseteq {"drop", "link", "socket", "restart", "timeout", "open"}
ASSUME BoundAssumption == MaxChanges \in Nat /\ MaxEvents \in Nat /\ MaxLoss \in Nat

VARIABLES
    \* --- server
    data,        \* content of the resource in the workspace
    unpublished, \* changes committed whose domain event has not reached the loop
    debounce,    \* a debounced emit is scheduled for the resource
    ver,         \* ResourceVersionStore counter
    connected,   \* the broadcaster's _connected_device_ids
    \* --- transport
    upq,         \* gateway -> plugin -> server, in order
    outq,        \* outq[d]: server -> plugin -> gateway, messages for d, in order
    inbox,       \* inbox[d]: gateway -> device socket
    link,        \* the desktop's gateway session is up
    registered,  \* registered[d]: the gateway's _registry has a socket for d
    announced,   \* devices whose device_connected went to the present session
    \* --- device
    copy,        \* copy[d]: the content d shows
    lastSeen,    \* lastSeen[d]: version store entry, NoVersion when absent
    applying,    \* applying[d]: responses received whose pull has not ended
    \* --- bound
    events       \* disturbances so far

server == <<data, unpublished, debounce, ver, connected>>
device == <<copy, lastSeen, applying>>
gateway == <<link, registered, announced>>
vars == <<data, unpublished, debounce, ver, connected, upq, outq, inbox,
          link, registered, announced, copy, lastSeen, applying, events>>

NoVersion == -1

UpMessage ==
    [type : {"device_connected", "device_disconnected", "pull"}, dev : Device]
        \cup [type : {"gateway_disconnected"}]
DownMessage == [type : {"hint", "response"}, ver : Nat, data : Nat]
PullResult == [ver : Nat, data : Nat, applied : BOOLEAN]

TypeOK ==
    /\ data \in Nat /\ unpublished \in Nat /\ debounce \in BOOLEAN
    /\ ver \in Nat /\ connected \subseteq Device
    /\ upq \in Seq(UpMessage)
    /\ outq \in [Device -> Seq(DownMessage)]
    /\ inbox \in [Device -> Seq(DownMessage)]
    /\ link \in BOOLEAN
    /\ registered \in [Device -> BOOLEAN]
    /\ announced \subseteq Device
    /\ copy \in [Device -> Nat]
    /\ lastSeen \in [Device -> Nat \cup {NoVersion}]
    /\ applying \in [Device -> SUBSET PullResult]
    /\ events \in Nat

Init ==
    /\ data = 0 /\ unpublished = 0 /\ debounce = FALSE /\ ver = 0
    /\ connected = {}
    /\ upq = <<>>
    /\ outq = [d \in Device |-> <<>>]
    /\ inbox = [d \in Device |-> <<>>]
    /\ link = TRUE
    /\ registered = [d \in Device |-> FALSE]
    /\ announced = {}
    /\ copy = [d \in Device |-> 0]
    /\ lastSeen = [d \in Device |-> NoVersion]
    /\ applying = [d \in Device |-> {}]
    /\ events = 0

-----------------------------------------------------------------------------
(* Server *)

\* A tool or an HTTP thread commits a change; its event is not published yet.
Write ==
    /\ data < MaxChanges
    /\ data' = data + 1
    /\ unpublished' = unpublished + 1
    /\ UNCHANGED <<debounce, ver, connected, upq, outq, inbox, gateway, device, events>>

\* Mutant: the handler runs without an event.
OnDomainEventUnguarded ==
    /\ unpublished' = unpublished - 1
    /\ debounce' = TRUE
    /\ UNCHANGED <<data, ver, connected, upq, outq, inbox, gateway, device, events>>

\* The domain event reaches the broadcaster on the loop, which cancels the
\* emit it had scheduled, if any, and schedules a new one.
OnDomainEvent ==
    /\ unpublished > 0
    /\ unpublished' = unpublished - 1
    /\ debounce' = TRUE
    /\ UNCHANGED <<data, ver, connected, upq, outq, inbox, gateway, device, events>>

\* Mutant: bump returns the counter before the increment.
FlushOldVersion ==
    /\ debounce
    /\ debounce' = FALSE
    /\ IF connected = {}
       THEN UNCHANGED <<ver, outq>>
       ELSE /\ ver' = ver + 1
            /\ outq' = [d \in Device |->
                  IF d \in connected
                  THEN Append(outq[d], [type |-> "hint", ver |-> ver, data |-> data])
                  ELSE outq[d]]
    /\ UNCHANGED <<data, unpublished, connected, upq, inbox, gateway, device, events>>

\* The debounce elapses: with recipients, one bump and one hint for each.
\* The outbound queue is unbounded, so nothing here yields to the loop.
Flush ==
    /\ debounce
    /\ debounce' = FALSE
    /\ IF connected = {}
       THEN UNCHANGED <<ver, outq>>
       ELSE /\ ver' = ver + 1
            /\ outq' = [d \in Device |->
                  IF d \in connected
                  THEN Append(outq[d], [type |-> "hint", ver |-> ver + 1, data |-> data])
                  ELSE outq[d]]
    /\ UNCHANGED <<data, unpublished, connected, upq, inbox, gateway, device, events>>

HandleDeviceConnected ==
    /\ upq # <<>> /\ Head(upq).type = "device_connected"
    /\ connected' = connected \cup {Head(upq).dev}
    /\ upq' = Tail(upq)
    /\ UNCHANGED <<data, unpublished, debounce, ver, outq, inbox, gateway, device, events>>

\* Mutant: one device leaving clears every recipient.
DisconnectClearsAll ==
    /\ upq # <<>> /\ Head(upq).type = "device_disconnected"
    /\ connected' = {}
    /\ upq' = Tail(upq)
    /\ UNCHANGED <<data, unpublished, debounce, ver, outq, inbox, gateway, device, events>>

HandleDeviceDisconnected ==
    /\ upq # <<>> /\ Head(upq).type = "device_disconnected"
    /\ connected' = connected \ {Head(upq).dev}
    /\ upq' = Tail(upq)
    /\ UNCHANGED <<data, unpublished, debounce, ver, outq, inbox, gateway, device, events>>

HandleGatewayDisconnected ==
    /\ upq # <<>> /\ Head(upq).type = "gateway_disconnected"
    /\ connected' = {}
    /\ upq' = Tail(upq)
    /\ UNCHANGED <<data, unpublished, debounce, ver, outq, inbox, gateway, device, events>>

\* Mutant: responses overtake what is queued.
ServePullFirst ==
    /\ upq # <<>> /\ Head(upq).type = "pull"
    /\ outq' = [outq EXCEPT ![Head(upq).dev] =
                  <<[type |-> "response", ver |-> ver, data |-> data]>> \o @]
    /\ upq' = Tail(upq)
    /\ UNCHANGED <<server, inbox, gateway, device, events>>

\* The request handler reads the content and the version without yielding and
\* enqueues the response, whether or not the device is still connected.
ServePull ==
    /\ upq # <<>> /\ Head(upq).type = "pull"
    /\ outq' = [outq EXCEPT ![Head(upq).dev] =
                  Append(@, [type |-> "response", ver |-> ver, data |-> data])]
    /\ upq' = Tail(upq)
    /\ UNCHANGED <<server, inbox, gateway, device, events>>

\* The outbound worker, the plugin and the relay move a message on; the plugin
\* drops it without a session, the relay drops it without a socket.
Relay(d) ==
    /\ outq[d] # <<>>
    /\ outq' = [outq EXCEPT ![d] = Tail(@)]
    /\ inbox' = IF link /\ registered[d]
                THEN [inbox EXCEPT ![d] = Append(@, Head(outq[d]))]
                ELSE inbox
    /\ UNCHANGED <<server, upq, gateway, device, events>>

-----------------------------------------------------------------------------
(* Device *)

\* A pull of device d, as it leaves the gateway for the desktop.
Pull(d) == [type |-> "pull", dev |-> d]

\* Mutant: the comparison of the guard is inverted.
IsNotDuplicate(d, hint) == lastSeen[d] # hint.ver

\* The duplicate guard of resource.changed: only the exact version recorded
\* last is skipped.
IsDuplicate(d, hint) == lastSeen[d] = hint.ver

HandleHint(d) ==
    /\ inbox[d] # <<>> /\ Head(inbox[d]).type = "hint"
    /\ inbox' = [inbox EXCEPT ![d] = Tail(@)]
    /\ upq' = IF link /\ registered[d] /\ ~IsDuplicate(d, Head(inbox[d]))
              THEN Append(upq, Pull(d))
              ELSE upq
    /\ UNCHANGED <<server, outq, gateway, device, events>>

\* A response resolves its pull.  The policy snapshot replaces the provider's
\* state at once; the channel mirror is written row by row and ends later.
HandleResponse(d) ==
    /\ inbox[d] # <<>> /\ Head(inbox[d]).type = "response"
    /\ LET r == Head(inbox[d])
           atOnce == ApplyMode = "snapshot"
       IN  /\ applying' = [applying EXCEPT ![d] =
                  @ \cup {[ver |-> r.ver, data |-> r.data, applied |-> atOnce]}]
           /\ copy' = IF atOnce THEN [copy EXCEPT ![d] = r.data] ELSE copy
    /\ inbox' = [inbox EXCEPT ![d] = Tail(@)]
    /\ UNCHANGED <<server, upq, outq, gateway, lastSeen, events>>

\* The mirror's rows are written; pulls run concurrently and end in any order.
ApplyMirror(d) ==
    \E r \in applying[d] :
        /\ ~r.applied
        /\ copy' = [copy EXCEPT ![d] = r.data]
        /\ applying' = [applying EXCEPT ![d] =
               (@ \ {r}) \cup {[r EXCEPT !.applied = TRUE]}]
        /\ UNCHANGED <<server, upq, outq, inbox, gateway, lastSeen, events>>

\* The version is recorded only after the storage writes have been awaited.
RecordAuthoritative(d) ==
    \E r \in applying[d] :
        /\ r.applied
        /\ lastSeen' = [lastSeen EXCEPT ![d] = r.ver]
        /\ applying' = [applying EXCEPT ![d] = @ \ {r}]
        /\ UNCHANGED <<server, upq, outq, inbox, gateway, copy, events>>

\* Mutant: nothing is pulled at connect.
ConnectWithoutSync(d) ==
    /\ ~registered[d]
    /\ registered' = [registered EXCEPT ![d] = TRUE]
    /\ IF link
       THEN /\ upq' = Append(upq, [type |-> "device_connected", dev |-> d])
            /\ announced' = announced \cup {d}
       ELSE UNCHANGED <<upq, announced>>
    /\ UNCHANGED <<server, outq, inbox, link, device, events>>

\* Connected: the gateway registers the socket and tells the desktop, if there
\* is one; the device pulls everything it syncs.
DeviceConnect(d) ==
    /\ ~registered[d]
    /\ registered' = [registered EXCEPT ![d] = TRUE]
    /\ IF link
       THEN /\ upq' = upq \o <<[type |-> "device_connected", dev |-> d], Pull(d)>>
            /\ announced' = announced \cup {d}
       ELSE UNCHANGED <<upq, announced>>
    /\ UNCHANGED <<server, outq, inbox, link, device, events>>

-----------------------------------------------------------------------------
(* Disturbances *)

Disturb(kind) ==
    /\ kind \in Disturbances
    /\ events < MaxEvents
    /\ events' = events + 1

\* The device's socket closes: what was on it is lost, the app's data is not.
DeviceDrop(d) ==
    /\ Disturb("drop")
    /\ registered[d]
    /\ registered' = [registered EXCEPT ![d] = FALSE]
    /\ announced' = announced \ {d}
    /\ inbox' = [inbox EXCEPT ![d] = <<>>]
    /\ upq' = IF link
              THEN Append(upq, [type |-> "device_disconnected", dev |-> d])
              ELSE upq
    /\ UNCHANGED <<server, outq, link, device>>

\* The desktop's gateway session ends.  Frames on the wire are lost in both
\* directions; those the plugin already has are processed before its
\* gateway_disconnected event.
LinkDown ==
    /\ Disturb("link")
    /\ link
    /\ link' = FALSE
    /\ announced' = {}
    /\ \E kept \in 0..Len(upq) :
          upq' = Append(SubSeq(upq, 1, kept), [type |-> "gateway_disconnected"])
    /\ \E lost \in [Device -> 0..MaxLoss] :
          outq' = [d \in Device |-> SubSeq(outq[d], lost[d] + 1, Len(outq[d]))]
    /\ UNCHANGED <<server, inbox, registered, device>>

\* The socket between the plugin and the server closes.  The plugin stops its
\* gateway loop, and a cancelled loop says nothing: no gateway_disconnected is
\* sent, one that was on the wire may be lost, and the server only forgets the
\* connection.  Its recipients stay as they are.
SocketLost ==
    /\ Disturb("socket")
    /\ link' = FALSE
    /\ announced' = {}
    /\ \E kept \in 0..Len(upq) : upq' = SubSeq(upq, 1, kept)
    /\ \E lost \in [Device -> 0..MaxLoss] :
          outq' = [d \in Device |-> SubSeq(outq[d], lost[d] + 1, Len(outq[d]))]
    /\ UNCHANGED <<server, inbox, registered, device>>

\* The plugin is connected and started again if its own socket was lost, and
\* its loop dials the gateway, which replays nothing.
LinkUp ==
    /\ ~link
    /\ link' = TRUE
    /\ UNCHANGED <<server, upq, outq, inbox, registered, announced, device, events>>

\* The server process ends and starts again, its plugins with it: queues,
\* recipients, timers and version counters are in memory, the content is not.
ServerRestart ==
    /\ Disturb("restart")
    /\ unpublished' = 0 /\ debounce' = FALSE /\ ver' = 0 /\ connected' = {}
    /\ upq' = <<>>
    /\ outq' = [d \in Device |-> <<>>]
    /\ link' = FALSE
    /\ announced' = {}
    /\ UNCHANGED <<data, inbox, registered, device>>

\* A pull's timer fires before its response is routed: the late response
\* finds no completer, and the pull is not retried.
PullTimeout(d) ==
    /\ Disturb("timeout")
    /\ inbox[d] # <<>> /\ Head(inbox[d]).type = "response"
    /\ inbox' = [inbox EXCEPT ![d] = Tail(@)]
    /\ UNCHANGED <<server, upq, outq, gateway, device>>

\* A screen opens on data older than its limit and pulls without a hint.
Revalidate(d) ==
    /\ Disturb("open")
    /\ registered[d]
    /\ upq' = IF link THEN Append(upq, Pull(d)) ELSE upq
    /\ UNCHANGED <<server, outq, inbox, gateway, device>>

-----------------------------------------------------------------------------

HandleUp ==
    \/ HandleDeviceConnected \/ HandleDeviceDisconnected
    \/ HandleGatewayDisconnected \/ ServePull

DeviceStep(d) ==
    \/ HandleHint(d) \/ HandleResponse(d)
    \/ ApplyMirror(d) \/ RecordAuthoritative(d)

Next ==
    \/ Write \/ OnDomainEvent \/ Flush \/ HandleUp
    \/ LinkDown \/ SocketLost \/ LinkUp \/ ServerRestart
    \/ \E d \in Device :
          \/ Relay(d) \/ DeviceStep(d) \/ DeviceConnect(d)
          \/ DeviceDrop(d) \/ PullTimeout(d) \/ Revalidate(d)

Spec == Init /\ [][Next]_vars

\* The loops that run by themselves: the server's event loop and worker, the
\* plugin's redial loop, and a device's handling of what reached it.  Nothing
\* is assumed of users, writers or disturbances.
Fairness ==
    /\ WF_vars(OnDomainEvent) /\ WF_vars(Flush) /\ WF_vars(HandleUp)
    /\ WF_vars(LinkUp)
    /\ \A d \in Device : WF_vars(Relay(d)) /\ WF_vars(DeviceStep(d))

FairSpec == Spec /\ Fairness

-----------------------------------------------------------------------------
(* Properties *)

InFlight(d) ==
    {outq[d][i] : i \in 1..Len(outq[d])} \cup {inbox[d][i] : i \in 1..Len(inbox[d])}

\* Message m to the server changes whether d is a recipient.
Concerns(m, d) ==
    m.type = "gateway_disconnected" \/ (m.type # "pull" /\ m.dev = d)

\* d is a recipient, and nothing the server still has to process changes that.
IsRecipient(d) ==
    d \in connected /\ \A i \in 1..Len(upq) : ~Concerns(upq[i], d)

\* Something on its way will bring device d the present content.
RepairUnderWay(d) ==
    \/ \E i \in 1..Len(upq) : upq[i] = Pull(d)
    \/ \E m \in InFlight(d) :
          m.data = data /\ (m.type = "hint" => ~IsDuplicate(d, m))
    \/ \E r \in applying[d] : r.data = data /\ ~r.applied
    \/ (unpublished > 0 \/ debounce) /\ IsRecipient(d)

\* No update is lost on a device the present gateway session was told about:
\* while its copy is behind, a write, a timer, a hint, a pull or a response is
\* on its way that brings the present content.  It breaks when a hint is
\* skipped, coalesced or addressed wrongly and nothing comes after it.
StaleHasCause ==
    \A d \in announced : copy[d] = data \/ RepairUnderWay(d)

\* Once the server has processed what the gateway told it, every device that
\* was announced to the present session is a recipient: whatever is lost of the
\* events of earlier sessions, and in whatever order the rest is processed, no
\* event takes away a device that was announced after it.
AnnouncedAreRecipients ==
    upq = <<>> => announced \subseteq connected

\* device_targeting.py: "broadcast every hint to every currently-connected
\* approved device".  While a session is up and the server has processed what
\* the gateway told it, a recipient is connected to the gateway.
RecipientsAreConnected ==
    link /\ upq = <<>> => \A d \in connected : registered[d]

\* Within one life of the server a hint on its way to a device is newer than
\* every version the device has recorded or is about to record, so the
\* duplicate guard cannot swallow it.  It rests on the bump and the enqueue
\* being one step of the loop and on hints and responses sharing one queue.
FreshHints ==
    \A d \in Device : \A m \in InFlight(d) : m.type = "hint" =>
        /\ lastSeen[d] < m.ver
        /\ \A r \in applying[d] : r.ver < m.ver

\* The duplicate guard of resource.changed skips "exact duplicate emissions
\* only": a hint is dropped only by a device that already shows the content
\* the hint announces, or something newer.
SkipsOnlyDuplicates ==
    [][\A d \in Device :
         (HandleHint(d) /\ IsDuplicate(d, Head(inbox[d])))
            => copy[d] >= Head(inbox[d]).data]_vars

\* A device that stays registered, and was announced, ends up showing the
\* present content and keeps showing it.
Converges ==
    \A d \in Device : <>[](d \in announced) => <>[](copy[d] = data)

\* A device's copy only ever moves to newer content the server really had.
Replica == INSTANCE MonotonicReplica
    WITH Device <- Device, MaxChanges <- MaxChanges, data <- data, copy <- copy
CopyIsMonotonic == Replica!Spec
=============================================================================
