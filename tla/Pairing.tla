------------------------------ MODULE Pairing ------------------------------
(***************************************************************************)
(* Pairing a device: the app asks the gateway with a code, the gateway     *)
(* keeps the app's socket and forwards the request to the desktop's        *)
(* session, the server checks the code against the pairing session file,   *)
(* stores the device, consumes the code and answers, and the gateway hands *)
(* the answer to the socket that asked.                                    *)
(*                                                                         *)
(*   server   infra_event_handlers.py, domain/pairing.py, tools/device.py  *)
(*   link     devices plugin: one gateway session, redialled when it ends  *)
(*   gateway  relay.py: _desktop_ws, _pairing_pending                      *)
(*   app      pairing_client.dart, one Attempt for each call of pair()     *)
(*                                                                         *)
(* Codes are numbered in the order they are issued: two codes that happen  *)
(* to have the same digits are not modelled.                               *)
(***************************************************************************)
EXTENDS Naturals, Sequences

CONSTANTS
    Attempt,      \* calls of PairingClient.pair
    Nobody,       \* not an attempt
    Disturbances, \* which of the environment's events may happen
    MaxCodes,     \* bound: codes issued
    MaxEvents     \* bound: disturbances in one behaviour

ASSUME NobodyAssumption == Nobody \notin Attempt
ASSUME DisturbanceAssumption ==
    Disturbances \subseteq
    {"link", "giveup", "timeout", "expire", "crash"}
ASSUME BoundAssumption == MaxCodes \in Nat /\ MaxEvents \in Nat

VARIABLES
    \* --- server
    issued,    \* how many codes have been issued
    session,   \* the code in pairing_session.json, NoCode when there is none
    approved,  \* approved[a]: the code a's device row was written for, or NoCode
    approving, \* the request whose row is written and whose code is not consumed
    \* --- transport
    upq,       \* requests from the gateway to the server, in order
    downq,     \* answers from the server to the gateway, in order
    \* --- gateway
    desktop,   \* the desktop's connection: "none", "live" or "lost" (not yet unregistered)
    dialled,   \* how many sessions the desktop has had
    pending,   \* _pairing_pending
    socket,    \* socket[a]: "none", "open" or "closed"
    \* --- app
    code,      \* code[a]: the code the user typed
    phone,     \* phone[a]: "idle", "waiting", "paired" or "failed"
    answer,    \* answer[a]: frame on the socket, "none" when there is none
    askedIn,   \* history: the desktop session a's request was forwarded in
    \* --- bound
    events     \* disturbances so far

server == <<issued, session, approved, approving>>
gateway == <<desktop, dialled, pending, socket>>
app == <<code, phone, answer, askedIn>>
vars == <<issued, session, approved, approving, upq, downq, desktop, dialled,
          pending, socket, code, phone, answer, askedIn, events>>

NoCode == 0
Code == 1..MaxCodes
Answer == [to : Attempt, status : {"approved", "rejected"}]

TypeOK ==
    /\ issued \in 0..MaxCodes /\ session \in Code \cup {NoCode}
    /\ approved \in [Attempt -> Code \cup {NoCode}]
    /\ approving \in Attempt \cup {Nobody}
    /\ upq \in Seq(Attempt) /\ downq \in Seq(Answer)
    /\ desktop \in {"none", "live", "lost"} /\ dialled \in Nat
    /\ pending \subseteq Attempt
    /\ socket \in [Attempt -> {"none", "open", "closed"}]
    /\ code \in [Attempt -> Code \cup {NoCode}]
    /\ phone \in [Attempt -> {"idle", "waiting", "paired", "failed"}]
    /\ answer \in [Attempt -> {"none", "approved", "rejected"}]
    /\ askedIn \in [Attempt -> Nat]
    /\ events \in Nat

Init ==
    /\ issued = 0 /\ session = NoCode /\ approving = Nobody
    /\ approved = [a \in Attempt |-> NoCode]
    /\ upq = <<>> /\ downq = <<>>
    /\ desktop = "none" /\ dialled = 0 /\ pending = {}
    /\ socket = [a \in Attempt |-> "none"]
    /\ code = [a \in Attempt |-> NoCode]
    /\ phone = [a \in Attempt |-> "idle"]
    /\ answer = [a \in Attempt |-> "none"]
    /\ askedIn = [a \in Attempt |-> 0]
    /\ events = 0

-----------------------------------------------------------------------------
(* Server *)

\* The device_add tool writes a new code over the one there may be.
IssueCode ==
    /\ issued < MaxCodes
    /\ issued' = issued + 1
    /\ session' = issued + 1
    /\ UNCHANGED <<approved, approving, upq, downq, gateway, app, events>>

\* Mutant: the answer is lost between the handler and the plugin.
SendNothing(a, status) == downq' = downq

\* The plugin sends an answer over its session, or drops it without one.
SendAnswer(a, status) ==
    downq' = IF desktop = "live"
             THEN Append(downq, [to |-> a, status |-> status])
             ELSE downq

\* Mutant: a request with a stale code is dropped instead of answered.
RejectSilently ==
    /\ approving = Nobody /\ upq # <<>>
    /\ session = NoCode \/ session # code[Head(upq)]
    /\ upq' = Tail(upq)
    /\ UNCHANGED <<server, downq, gateway, app, events>>

\* No code is live, or another one than the request's.
RejectRequest ==
    /\ approving = Nobody /\ upq # <<>>
    /\ session = NoCode \/ session # code[Head(upq)]
    /\ SendAnswer(Head(upq), "rejected")
    /\ upq' = Tail(upq)
    /\ UNCHANGED <<server, gateway, app, events>>

\* Mutant: the answer is sent though the row was not written.
ApproveWithoutRow ==
    /\ approving = Nobody /\ upq # <<>>
    /\ session # NoCode /\ session = code[Head(upq)]
    /\ approving' = Head(upq)
    /\ UNCHANGED <<issued, session, approved, upq, downq, gateway, app, events>>

\* Mutant: the code is remembered where the request belongs.
ApproveRemembersCode ==
    /\ approving = Nobody /\ upq # <<>>
    /\ session # NoCode /\ session = code[Head(upq)]
    /\ approved' = [approved EXCEPT ![Head(upq)] = session]
    /\ approving' = session
    /\ UNCHANGED <<issued, session, upq, downq, gateway, app, events>>

\* The code matches: the device's row is committed to workspace.db.
ApproveDevice ==
    /\ approving = Nobody /\ upq # <<>>
    /\ session # NoCode /\ session = code[Head(upq)]
    /\ approved' = [approved EXCEPT ![Head(upq)] = session]
    /\ approving' = Head(upq)
    /\ UNCHANGED <<issued, session, upq, downq, gateway, app, events>>

\* Mutant: the code is not consumed.
FinishWithoutConsuming ==
    /\ approving # Nobody
    /\ SendAnswer(approving, "approved")
    /\ approving' = Nobody
    /\ upq' = Tail(upq)
    /\ UNCHANGED <<issued, session, approved, gateway, app, events>>

\* The handler goes on without yielding to the loop: the session file is
\* unlinked, whatever code another process may have written meanwhile, and the
\* answer is sent.
FinishApproval ==
    /\ approving # Nobody
    /\ session' = NoCode
    /\ SendAnswer(approving, "approved")
    /\ approving' = Nobody
    /\ upq' = Tail(upq)
    /\ UNCHANGED <<issued, approved, gateway, app, events>>

-----------------------------------------------------------------------------
(* Gateway *)

\* The plugin dials and authenticates; a second session is refused while the
\* gateway still has the first.
Redial ==
    /\ desktop = "none"
    /\ desktop' = "live"
    /\ dialled' = dialled + 1
    /\ UNCHANGED <<server, upq, downq, pending, socket, app, events>>

\* The handler of the desktop's connection ends once it has read what was
\* left on the socket.
UnregisterDesktop ==
    /\ desktop = "lost" /\ downq = <<>>
    /\ desktop' = "none"
    /\ UNCHANGED <<server, upq, downq, dialled, pending, socket, app, events>>

\* An attempt connects and asks with a code the user was shown.
Ask(a, c) ==
    /\ phone[a] = "idle"
    /\ code' = [code EXCEPT ![a] = c]
    /\ UNCHANGED <<server, downq, desktop, dialled, answer, events>>

\* Without a desktop the gateway closes the socket.
AskRefused(a, c) ==
    /\ Ask(a, c)
    /\ desktop = "none"
    /\ phone' = [phone EXCEPT ![a] = "failed"]
    /\ socket' = [socket EXCEPT ![a] = "closed"]
    /\ UNCHANGED <<upq, pending, askedIn>>

\* The request is remembered, then forwarded.  On a socket that is gone the
\* frame is lost, or the send raises and takes the app's connection with it.
AskForwarded(a, c) ==
    /\ Ask(a, c)
    /\ desktop # "none"
    /\ pending' = pending \cup {a}
    /\ askedIn' = [askedIn EXCEPT ![a] = dialled]
    /\ \/ /\ phone' = [phone EXCEPT ![a] = "waiting"]
          /\ socket' = [socket EXCEPT ![a] = "open"]
          /\ upq' = IF desktop = "live" THEN Append(upq, a) ELSE upq
       \/ /\ desktop = "lost"
          /\ phone' = [phone EXCEPT ![a] = "failed"]
          /\ socket' = [socket EXCEPT ![a] = "closed"]
          /\ UNCHANGED upq

\* An answer for a request that is not pending is ignored.
IgnoreAnswer ==
    /\ desktop # "none" /\ downq # <<>>
    /\ Head(downq).to \notin pending
    /\ downq' = Tail(downq)
    /\ UNCHANGED <<server, upq, gateway, app, events>>

\* The answer goes to the socket that asked, which is then closed.
HandAnswer ==
    /\ desktop # "none" /\ downq # <<>>
    /\ LET a == Head(downq).to IN
          /\ a \in pending /\ socket[a] = "open"
          /\ pending' = pending \ {a}
          /\ answer' = [answer EXCEPT ![a] = Head(downq).status]
          /\ socket' = [socket EXCEPT ![a] = "closed"]
    /\ downq' = Tail(downq)
    /\ UNCHANGED <<server, upq, desktop, dialled, code, phone, askedIn, events>>

\* The socket that asked is gone: the send raises ConnectionClosed, which the
\* desktop's own handler takes for the end of its connection.
AnswerClosedSocket ==
    /\ desktop # "none" /\ downq # <<>>
    /\ LET a == Head(downq).to IN
          /\ a \in pending /\ socket[a] = "closed"
          /\ pending' = pending \ {a}
    /\ desktop' = "none"
    /\ downq' = <<>>
    /\ UNCHANGED <<server, upq, dialled, socket, app, events>>

-----------------------------------------------------------------------------
(* App *)

ReadAnswer(a) ==
    /\ phone[a] = "waiting"
    /\ answer[a] # "none"
    /\ phone' = [phone EXCEPT ![a] = IF answer[a] = "approved" THEN "paired" ELSE "failed"]
    /\ UNCHANGED <<server, upq, downq, gateway, code, answer, askedIn, events>>

\* The socket closed with no answer on it.
SeeClose(a) ==
    /\ phone[a] = "waiting"
    /\ socket[a] = "closed" /\ answer[a] = "none"
    /\ phone' = [phone EXCEPT ![a] = "failed"]
    /\ UNCHANGED <<server, upq, downq, gateway, code, answer, askedIn, events>>

-----------------------------------------------------------------------------
(* Disturbances *)

Disturb(kind) ==
    /\ kind \in Disturbances
    /\ events < MaxEvents
    /\ events' = events + 1

\* The desktop's session ends on the network.  What each side has already
\* received is still processed, the rest is lost.
LoseFrames ==
    /\ desktop' = IF desktop = "live" THEN "lost" ELSE desktop
    /\ \E kept \in 0..Len(downq) : downq' = SubSeq(downq, 1, kept)

LinkDown ==
    /\ Disturb("link")
    /\ desktop = "live"
    /\ LoseFrames
    /\ \E kept \in 0..Len(upq) :
          /\ approving # Nobody => kept > 0
          /\ upq' = SubSeq(upq, 1, kept)
    /\ UNCHANGED <<server, dialled, pending, socket, app>>

\* The server process ends, its plugins with it, and starts again: the rows
\* and the session file are on disk, the request in hand is forgotten.
ServerCrash ==
    /\ Disturb("crash")
    /\ approving' = Nobody
    /\ upq' = <<>>
    /\ LoseFrames
    /\ UNCHANGED <<issued, session, approved, dialled, pending, socket, app>>

\* The code's lifetime ends; the file is removed when it is next read.
Expire ==
    /\ Disturb("expire")
    /\ session # NoCode
    /\ session' = NoCode
    /\ UNCHANGED <<issued, approved, approving, upq, downq, gateway, app>>

\* The app's timer fires, or its user leaves: the socket closes and whatever
\* it still carried is not read.  The gateway's handler ends with it and does
\* not forget the request.
GiveUp(a) ==
    /\ Disturb("giveup")
    /\ phone[a] = "waiting"
    /\ phone' = [phone EXCEPT ![a] = "failed"]
    /\ socket' = [socket EXCEPT ![a] = "closed"]
    /\ UNCHANGED <<server, upq, downq, desktop, dialled, pending, code, answer, askedIn>>

\* The gateway's own timer: the request is forgotten, the socket closed.
PairingTimeout(a) ==
    /\ Disturb("timeout")
    /\ socket[a] = "open"
    /\ pending' = pending \ {a}
    /\ socket' = [socket EXCEPT ![a] = "closed"]
    /\ UNCHANGED <<server, upq, downq, desktop, dialled, app>>

-----------------------------------------------------------------------------

ServerStep == RejectRequest \/ ApproveDevice \/ FinishApproval

GatewayStep ==
    \/ Redial \/ UnregisterDesktop
    \/ IgnoreAnswer \/ HandAnswer \/ AnswerClosedSocket

AppStep(a) == ReadAnswer(a) \/ SeeClose(a)

Next ==
    \/ IssueCode \/ ServerStep \/ GatewayStep
    \/ \E a \in Attempt :
          \/ AppStep(a)
          \/ \E c \in 1..issued : AskRefused(a, c) \/ AskForwarded(a, c)
    \/ LinkDown \/ ServerCrash \/ Expire
    \/ \E a \in Attempt : GiveUp(a) \/ PairingTimeout(a)

Spec == Init /\ [][Next]_vars

\* The server's and the gateway's loops, the plugin's redial loop and the app's
\* handling of its socket run by themselves.
Fairness ==
    /\ WF_vars(ServerStep) /\ WF_vars(GatewayStep)
    /\ \A a \in Attempt : WF_vars(AppStep(a))

FairSpec == Spec /\ Fairness

-----------------------------------------------------------------------------
(* Properties *)

\* A code pairs at most one app, whatever expires, is issued meanwhile, drops,
\* crashes between storing the device and consuming the code, or is retried.
CodePairsOnce ==
    \A a, b \in Attempt :
        (phone[a] = "paired" /\ phone[b] = "paired" /\ code[a] = code[b]) => a = b

\* An app that believes it is paired has its row in the server's table, and
\* the row was written for the code it asked with.
PairedIsApproved ==
    \A a \in Attempt : phone[a] = "paired" => approved[a] = code[a] /\ code[a] # NoCode

\* The desktop session a's request went to is still the one that is up, and
\* a's socket is still open.
Undisturbed(a) == desktop = "live" /\ askedIn[a] = dialled /\ socket[a] = "open"

\* No approval is stranded: while a's socket and the session its request went
\* to are both still up, an approved request is in the handler's hands or its
\* answer is on the way.
ApprovalOnItsWay ==
    \A a \in Attempt : (Undisturbed(a) /\ approved[a] # NoCode) =>
        \/ approving = a
        \/ \E i \in 1..Len(downq) : downq[i] = [to |-> a, status |-> "approved"]

\* Every request that reached the server is answered unless the app leaves, the
\* request's timer fires or the session it was sent in ends first.
RequestIsAnswered ==
    \A a \in Attempt : Undisturbed(a) ~> ~Undisturbed(a)

\* handle_connection: "Handle a single WebSocket connection lifetime."  The
\* desktop's session ends only when its own connection is lost.
SessionEndsOnlyWhenLost ==
    [][desktop = "live" => desktop' # "none"]_vars
=============================================================================
