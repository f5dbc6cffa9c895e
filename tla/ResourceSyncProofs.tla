------------------------- MODULE ResourceSyncProofs -------------------------
(***************************************************************************)
(* Proofs about ResourceSync for every set of devices and every bound: its *)
(* types; who is hinted; the order in which hints and responses reach a    *)
(* device: the copy of a snapshot never goes back, and, within one life of *)
(* the server, no hint on its way can be mistaken for a duplicate; and,    *)
(* from these, no update of a snapshot is lost through device drops and    *)
(* losses of the gateway session or of the plugin's socket.                *)
(***************************************************************************)
EXTENDS ResourceSync, TLAPS

-----------------------------------------------------------------------------
(* Type correctness *)

\* The variables keep their types through every operation of the server, the
\* transport and the devices.
THEOREM TypeCorrect == Spec => []TypeOK
<1>1. Init => TypeOK
  <2> SUFFICES ASSUME Init PROVE TypeOK
    OBVIOUS
  <2>1. debounce \in BOOLEAN /\ link \in BOOLEAN
    BY DEF Init
  <2>2. registered \in [Device -> BOOLEAN]
    BY DEF Init
  <2>3. outq \in [Device -> Seq(DownMessage)] /\ inbox \in [Device -> Seq(DownMessage)]
    BY DEF Init
  <2>4. lastSeen \in [Device -> Nat \cup {NoVersion}]
    BY DEF Init
  <2>5. copy \in [Device -> Nat] /\ applying \in [Device -> SUBSET PullResult]
    BY DEF Init
  <2>6. data \in Nat /\ unpublished \in Nat /\ ver \in Nat /\ events \in Nat
    BY DEF Init
  <2>7. upq \in Seq(UpMessage) /\ connected \subseteq Device /\ announced \subseteq Device
    BY DEF Init
  <2> QED BY <2>1, <2>2, <2>3, <2>4, <2>5, <2>6, <2>7 DEF TypeOK
<1>2. TypeOK /\ [Next]_vars => TypeOK'
  <2> SUFFICES ASSUME TypeOK, [Next]_vars PROVE TypeOK'
    OBVIOUS
  <2> USE BoundAssumption DEF TypeOK, server, gateway, device
  <2>1. CASE Write
    BY <2>1 DEF Write
  <2>2. CASE OnDomainEvent
    BY <2>2 DEF OnDomainEvent
  <2>3. CASE Flush
    <3>1. [type |-> "hint", ver |-> ver + 1, data |-> data] \in DownMessage
      BY DEF DownMessage
    <3>2. outq' \in [Device -> Seq(DownMessage)]
      <4>1. CASE connected = {}
        BY <2>3, <4>1 DEF Flush
      <4>2. CASE connected # {}
        <5>1. outq' = [d \in Device |->
                IF d \in connected
                THEN Append(outq[d], [type |-> "hint", ver |-> ver + 1, data |-> data])
                ELSE outq[d]]
          BY <2>3, <4>2 DEF Flush
        <5> QED BY <3>1, <5>1
      <4> QED BY <4>1, <4>2
    <3>3. ver' \in Nat
      BY <2>3 DEF Flush
    <3>4. debounce' \in BOOLEAN
      BY <2>3 DEF Flush
    <3> QED BY <2>3, <3>2, <3>3, <3>4 DEF Flush
  <2>4. CASE HandleUp
    <3>1. CASE HandleDeviceConnected
      <4>1. Head(upq) \in UpMessage /\ Tail(upq) \in Seq(UpMessage)
        BY <3>1 DEF HandleDeviceConnected
      <4>2. Head(upq).dev \in Device
        BY <3>1, <4>1 DEF HandleDeviceConnected, UpMessage
      <4> QED BY <3>1, <4>1, <4>2 DEF HandleDeviceConnected
    <3>2. CASE HandleDeviceDisconnected
      BY <3>2 DEF HandleDeviceDisconnected
    <3>3. CASE HandleGatewayDisconnected
      BY <3>3 DEF HandleGatewayDisconnected
    <3>4. CASE ServePull
      <4>1. [type |-> "response", ver |-> ver, data |-> data] \in DownMessage
        BY DEF DownMessage
      <4>2. Head(upq) \in UpMessage /\ Tail(upq) \in Seq(UpMessage)
        BY <3>4 DEF ServePull
      <4>3. Head(upq).dev \in Device
        BY <3>4, <4>2 DEF ServePull, UpMessage
      <4>4. Append(outq[Head(upq).dev],
                   [type |-> "response", ver |-> ver, data |-> data]) \in Seq(DownMessage)
        BY <4>1, <4>3
      <4>5. outq' \in [Device -> Seq(DownMessage)]
        BY <3>4, <4>3, <4>4 DEF ServePull
      <4>6. upq' \in Seq(UpMessage)
        BY <3>4, <4>2 DEF ServePull
      <4> QED BY <3>4, <4>5, <4>6 DEF ServePull
    <3> QED BY <2>4, <3>1, <3>2, <3>3, <3>4 DEF HandleUp
  <2>5. CASE LinkDown
    <3>1. [type |-> "gateway_disconnected"] \in UpMessage
      BY DEF UpMessage
    <3>2. upq' \in Seq(UpMessage)
      <4>1. PICK kept \in 0..Len(upq) :
              upq' = Append(SubSeq(upq, 1, kept), [type |-> "gateway_disconnected"])
        BY <2>5 DEF LinkDown
      <4>2. SubSeq(upq, 1, kept) \in Seq(UpMessage)
        OBVIOUS
      <4> QED BY <4>1, <4>2, <3>1
    <3>3. outq' \in [Device -> Seq(DownMessage)]
      <4>1. PICK lost \in [Device -> 0..MaxLoss] :
              outq' = [d \in Device |-> SubSeq(outq[d], lost[d] + 1, Len(outq[d]))]
        BY <2>5 DEF LinkDown
      <4>2. ASSUME NEW d \in Device
            PROVE  SubSeq(outq[d], lost[d] + 1, Len(outq[d])) \in Seq(DownMessage)
        OBVIOUS
      <4> QED BY <4>1, <4>2
    <3>4. link' \in BOOLEAN
      BY <2>5 DEF LinkDown
    <3>5. events' \in Nat
      BY <2>5 DEF LinkDown, Disturb
    <3> QED BY <2>5, <3>2, <3>3, <3>4, <3>5 DEF LinkDown
  <2>15. CASE SocketLost
    <3>1. upq' \in Seq(UpMessage)
      BY <2>15 DEF SocketLost
    <3>2. outq' \in [Device -> Seq(DownMessage)]
      <4>1. PICK lost \in [Device -> 0..MaxLoss] :
              outq' = [d \in Device |-> SubSeq(outq[d], lost[d] + 1, Len(outq[d]))]
        BY <2>15 DEF SocketLost
      <4>2. ASSUME NEW d \in Device
            PROVE  SubSeq(outq[d], lost[d] + 1, Len(outq[d])) \in Seq(DownMessage)
        OBVIOUS
      <4> QED BY <4>1, <4>2
    <3>3. link' \in BOOLEAN
      BY <2>15 DEF SocketLost
    <3>5. events' \in Nat
      BY <2>15 DEF SocketLost, Disturb
    <3>4. announced' = {} /\ UNCHANGED <<server, inbox, registered, device>>
      BY <2>15 DEF SocketLost
    <3> HIDE DEF UpMessage, DownMessage, PullResult
    <3> QED BY <3>1, <3>2, <3>3, <3>4, <3>5
  <2>6. CASE LinkUp
    <3>1. link' \in BOOLEAN
      BY <2>6 DEF LinkUp
    <3> QED BY <2>6, <3>1 DEF LinkUp
  <2>7. CASE ServerRestart
    <3>1. link' \in BOOLEAN /\ debounce' \in BOOLEAN
      BY <2>7 DEF ServerRestart
    <3>2. outq' \in [Device -> Seq(DownMessage)] /\ upq' \in Seq(UpMessage)
      BY <2>7 DEF ServerRestart
    <3>3. events' \in Nat
      BY <2>7 DEF ServerRestart, Disturb
    <3> QED BY <2>7, <3>1, <3>2, <3>3 DEF ServerRestart
  <2>8. ASSUME NEW d \in Device, Relay(d) PROVE TypeOK'
    <3>1. Head(outq[d]) \in DownMessage /\ Tail(outq[d]) \in Seq(DownMessage)
      BY <2>8 DEF Relay
    <3> QED BY <2>8, <3>1 DEF Relay
  <2>9. ASSUME NEW d \in Device, DeviceStep(d) PROVE TypeOK'
    <3>1. Pull(d) \in UpMessage
      BY DEF Pull, UpMessage
    <3>2. CASE HandleHint(d)
      BY <3>1, <3>2 DEF HandleHint
    <3>3. CASE HandleResponse(d)
      <4>1. Head(inbox[d]) \in DownMessage
        BY <3>3 DEF HandleResponse
      <4>2. [ver |-> Head(inbox[d]).ver, data |-> Head(inbox[d]).data,
             applied |-> (ApplyMode = "snapshot")] \in PullResult
        BY <4>1 DEF DownMessage, PullResult
      <4>3. copy' \in [Device -> Nat]
        BY <3>3, <4>1 DEF HandleResponse, DownMessage
      <4>4. applying' \in [Device -> SUBSET PullResult]
        BY <3>3, <4>2 DEF HandleResponse
      <4>5. inbox' \in [Device -> Seq(DownMessage)]
        BY <3>3 DEF HandleResponse
      <4> QED BY <3>3, <4>3, <4>4, <4>5 DEF HandleResponse
    <3>4. CASE ApplyMirror(d)
      <4>1. PICK r \in applying[d] :
              /\ copy' = [copy EXCEPT ![d] = r.data]
              /\ applying' = [applying EXCEPT ![d] =
                   (@ \ {r}) \cup {[r EXCEPT !.applied = TRUE]}]
              /\ UNCHANGED <<server, upq, outq, inbox, gateway, lastSeen, events>>
        BY <3>4 DEF ApplyMirror
      <4>2. r \in PullResult
        OBVIOUS
      <4>3. r.data \in Nat /\ [r EXCEPT !.applied = TRUE] \in PullResult
        BY <4>2 DEF PullResult
      <4> QED BY <4>1, <4>3
    <3>5. CASE RecordAuthoritative(d)
      <4>1. PICK r \in applying[d] :
              /\ lastSeen' = [lastSeen EXCEPT ![d] = r.ver]
              /\ applying' = [applying EXCEPT ![d] = @ \ {r}]
              /\ UNCHANGED <<server, upq, outq, inbox, gateway, copy, events>>
        BY <3>5 DEF RecordAuthoritative
      <4>2. r.ver \in Nat
        BY DEF PullResult
      <4> QED BY <4>1, <4>2
    <3> QED BY <2>9, <3>2, <3>3, <3>4, <3>5 DEF DeviceStep
  <2>10. ASSUME NEW d \in Device, DeviceConnect(d) PROVE TypeOK'
    <3>1. <<[type |-> "device_connected", dev |-> d], Pull(d)>> \in Seq(UpMessage)
      BY DEF Pull, UpMessage
    <3>2. upq' \in Seq(UpMessage)
      <4>1. CASE link
        <5>1. upq' = upq \o <<[type |-> "device_connected", dev |-> d], Pull(d)>>
          BY <2>10, <4>1 DEF DeviceConnect
        <5> QED BY <3>1, <5>1
      <4>2. CASE ~link
        BY <2>10, <4>2 DEF DeviceConnect
      <4> QED BY <4>1, <4>2
    <3>3. registered' \in [Device -> BOOLEAN]
      BY <2>10 DEF DeviceConnect
    <3> QED BY <2>10, <3>2, <3>3 DEF DeviceConnect
  <2>11. ASSUME NEW d \in Device, DeviceDrop(d) PROVE TypeOK'
    <3>1. [type |-> "device_disconnected", dev |-> d] \in UpMessage
      BY DEF UpMessage
    <3> QED BY <2>11, <3>1 DEF DeviceDrop, Disturb
  <2>12. ASSUME NEW d \in Device, PullTimeout(d) PROVE TypeOK'
    BY <2>12 DEF PullTimeout, Disturb
  <2>13. ASSUME NEW d \in Device, Revalidate(d) PROVE TypeOK'
    <3>1. Pull(d) \in UpMessage
      BY DEF Pull, UpMessage
    <3> QED BY <2>13, <3>1 DEF Revalidate, Disturb
  <2>14. CASE UNCHANGED vars
    BY <2>14 DEF vars
  <2> QED BY <2>1, <2>2, <2>3, <2>4, <2>5, <2>6, <2>7, <2>8, <2>9, <2>10,
             <2>11, <2>12, <2>13, <2>14, <2>15 DEF Next
<1> QED BY <1>1, <1>2, PTL DEF Spec

-----------------------------------------------------------------------------
(* Recipients *)

\* What a queue q of gateway messages leaves of an announced device d, given
\* the recipients C: with no message that concerns d, d is a recipient;
\* otherwise the last such message makes it one.
Settled(q, C, A, d) ==
    d \in A =>
       /\ (\A i \in 1..Len(q) : ~Concerns(q[i], d)) => d \in C
       /\ \A i \in 1..Len(q) :
             (Concerns(q[i], d) /\ \A j \in (i + 1)..Len(q) : ~Concerns(q[j], d))
                => q[i].type = "device_connected"

\* Without a session nothing is announced, and only registered devices are.
SessionInv ==
    /\ ~link => announced = {}
    /\ \A d \in announced : registered[d]

RecipientInv == SessionInv /\ \A d \in Device : Settled(upq, connected, announced, d)

LEMMA PullConcernsNobody ==
    ASSUME NEW d \in Device, NEW e PROVE ~Concerns(Pull(d), e)
BY DEF Pull, Concerns

\* The head is processed: what it says of d is what becomes of d.
LEMMA TailSettled ==
    ASSUME NEW q \in Seq(UpMessage), q # <<>>, NEW d, NEW C, NEW D, NEW A,
           Settled(q, C, A, d),
           Concerns(Head(q), d) => (d \in D <=> Head(q).type = "device_connected"),
           ~Concerns(Head(q), d) => (d \in D <=> d \in C)
    PROVE  Settled(Tail(q), D, A, d)
<1>1. /\ Tail(q) \in Seq(UpMessage) /\ Len(Tail(q)) = Len(q) - 1 /\ Len(q) \in Nat \ {0}
      /\ \A i \in 1..Len(Tail(q)) : Tail(q)[i] = q[i + 1]
      /\ Head(q) = q[1]
  OBVIOUS
<1>2. ASSUME \A i \in 1..Len(Tail(q)) : ~Concerns(Tail(q)[i], d)
      PROVE  d \in A => d \in D
  <2>1. \A j \in 2..Len(q) : ~Concerns(q[j], d)
    <3> SUFFICES ASSUME NEW j \in 2..Len(q) PROVE ~Concerns(q[j], d)
      OBVIOUS
    <3>1. j - 1 \in 1..Len(Tail(q)) /\ Tail(q)[j - 1] = q[j]
      BY <1>1
    <3> QED BY <3>1, <1>2
  <2>2. CASE Concerns(Head(q), d)
    <3>1. d \in A => q[1].type = "device_connected"
      BY <1>1, <2>1, <2>2 DEF Settled
    <3> QED BY <3>1, <2>2, <1>1
  <2>3. CASE ~Concerns(Head(q), d)
    <3>1. \A i \in 1..Len(q) : ~Concerns(q[i], d)
      BY <1>1, <2>1, <2>3
    <3> QED BY <3>1, <2>3 DEF Settled
  <2> QED BY <2>2, <2>3
<1>3. ASSUME NEW i \in 1..Len(Tail(q)), Concerns(Tail(q)[i], d),
             \A j \in (i + 1)..Len(Tail(q)) : ~Concerns(Tail(q)[j], d)
      PROVE  d \in A => Tail(q)[i].type = "device_connected"
  <2>1. i + 1 \in 1..Len(q) /\ Tail(q)[i] = q[i + 1]
    BY <1>1
  <2>2. ASSUME NEW j \in (i + 2)..Len(q) PROVE ~Concerns(q[j], d)
    <3>1. j - 1 \in (i + 1)..Len(Tail(q)) /\ j - 1 \in 1..Len(Tail(q))
      BY <1>1
    <3>2. Tail(q)[j - 1] = q[j]
      BY <1>1, <3>1
    <3> QED BY <3>1, <3>2, <1>3
  <2> QED BY <2>1, <2>2, <1>3 DEF Settled
<1> QED BY <1>2, <1>3 DEF Settled

\* A message that does not concern d changes nothing for it.
LEMMA AppendOtherSettled ==
    ASSUME NEW q \in Seq(UpMessage), NEW m \in UpMessage, NEW d, NEW C, NEW A, NEW B,
           Settled(q, C, A, d), ~Concerns(m, d), d \in B => d \in A
    PROVE  Settled(Append(q, m), C, B, d)
<1> DEFINE p == Append(q, m)
<1>1. /\ Len(p) = Len(q) + 1 /\ Len(q) \in Nat
      /\ p[Len(q) + 1] = m
      /\ \A i \in 1..Len(q) : p[i] = q[i]
  OBVIOUS
<1>2. ASSUME \A i \in 1..Len(p) : ~Concerns(p[i], d)
      PROVE  d \in B => d \in C
  <2>1. \A i \in 1..Len(q) : ~Concerns(q[i], d)
    BY <1>1, <1>2
  <2> QED BY <2>1 DEF Settled
<1>3. ASSUME NEW i \in 1..Len(p), Concerns(p[i], d),
             \A j \in (i + 1)..Len(p) : ~Concerns(p[j], d)
      PROVE  d \in B => p[i].type = "device_connected"
  <2>1. i \in 1..Len(q) /\ p[i] = q[i]
    BY <1>1, <1>3
  <2>2. \A j \in (i + 1)..Len(q) : ~Concerns(q[j], d)
    BY <1>1, <1>3
  <2> QED BY <2>1, <2>2, <1>3 DEF Settled
<1> HIDE DEF p
<1>4. Settled(p, C, B, d)
  BY <1>2, <1>3 DEF Settled
<1> QED BY <1>4 DEF p

\* A message that does concern d decides, whatever was queued before.
LEMMA AppendLastSettled ==
    ASSUME NEW q \in Seq(UpMessage), NEW m \in UpMessage, NEW d, NEW C, NEW B,
           Concerns(m, d), d \in B => m.type = "device_connected"
    PROVE  Settled(Append(q, m), C, B, d)
<1> DEFINE p == Append(q, m)
<1>1. /\ Len(p) = Len(q) + 1 /\ Len(q) \in Nat
      /\ p[Len(p)] = m
  OBVIOUS
<1>2. Len(p) \in 1..Len(p)
  BY <1>1
<1>3. ~ \A i \in 1..Len(p) : ~Concerns(p[i], d)
  BY <1>1, <1>2
<1>4. ASSUME NEW i \in 1..Len(p), Concerns(p[i], d),
             \A j \in (i + 1)..Len(p) : ~Concerns(p[j], d)
      PROVE  d \in B => p[i].type = "device_connected"
  <2>1. i = Len(p)
    BY <1>1, <1>4
  <2> QED BY <2>1, <1>1
<1> HIDE DEF p
<1>5. Settled(p, C, B, d)
  BY <1>3, <1>4 DEF Settled
<1> QED BY <1>5 DEF p

LEMMA AppendPullSettled ==
    ASSUME NEW q \in Seq(UpMessage), NEW d \in Device, NEW e, NEW C, NEW A,
           Settled(q, C, A, e)
    PROVE  Settled(Append(q, Pull(d)), C, A, e)
<1>1. Pull(d) \in UpMessage /\ ~Concerns(Pull(d), e)
  BY PullConcernsNobody DEF Pull, UpMessage
<1> QED BY <1>1, AppendOtherSettled

\* A step of the server, the transport or a device keeps every device settled.
LEMMA RecipientStep ==
    TypeOK /\ RecipientInv /\ [Next]_vars => RecipientInv'
<1> SUFFICES ASSUME TypeOK, RecipientInv, [Next]_vars PROVE RecipientInv'
  OBVIOUS
<1> USE DEF server, gateway, device
<1>0. /\ upq \in Seq(UpMessage)
      /\ SessionInv
      /\ \A e \in Device : Settled(upq, connected, announced, e)
  BY DEF TypeOK, RecipientInv
<1>1. ASSUME UNCHANGED <<upq, connected, link, announced, registered>>
      PROVE  RecipientInv'
  BY <1>0, <1>1 DEF RecipientInv, SessionInv, Settled
<1>2. CASE Write
  BY <1>1, <1>2 DEF Write
<1>3. CASE OnDomainEvent
  BY <1>1, <1>3 DEF OnDomainEvent
<1>4. CASE Flush
  BY <1>1, <1>4 DEF Flush
<1>5. CASE HandleUp
  <2>0. upq # <<>> /\ upq' = Tail(upq) /\ UNCHANGED gateway
    BY <1>5 DEF HandleUp, HandleDeviceConnected, HandleDeviceDisconnected,
                HandleGatewayDisconnected, ServePull
  <2>1. ASSUME NEW e \in Device
        PROVE  /\ Concerns(Head(upq), e) =>
                     (e \in connected' <=> Head(upq).type = "device_connected")
               /\ ~Concerns(Head(upq), e) => (e \in connected' <=> e \in connected)
    <3>1. CASE HandleDeviceConnected
      BY <3>1 DEF HandleDeviceConnected, Concerns
    <3>2. CASE HandleDeviceDisconnected
      BY <3>2 DEF HandleDeviceDisconnected, Concerns
    <3>3. CASE HandleGatewayDisconnected
      BY <3>3 DEF HandleGatewayDisconnected, Concerns
    <3>4. CASE ServePull
      BY <3>4 DEF ServePull, Concerns
    <3> QED BY <1>5, <3>1, <3>2, <3>3, <3>4 DEF HandleUp
  <2>2. ASSUME NEW e \in Device PROVE Settled(Tail(upq), connected', announced, e)
    BY <1>0, <2>0, <2>1, TailSettled
  <2>3. SessionInv'
    BY <1>0, <2>0 DEF SessionInv
  <2> QED BY <2>0, <2>2, <2>3 DEF RecipientInv
<1>6. CASE LinkDown
  <2>1. PICK kept \in 0..Len(upq) :
          upq' = Append(SubSeq(upq, 1, kept), [type |-> "gateway_disconnected"])
    BY <1>6 DEF LinkDown
  <2>2. SubSeq(upq, 1, kept) \in Seq(UpMessage)
    BY <1>0
  <2>3. [type |-> "gateway_disconnected"] \in UpMessage
    BY DEF UpMessage
  <2>4. announced' = {} /\ UNCHANGED <<connected, registered>>
    BY <1>6 DEF LinkDown
  <2>5. ASSUME NEW e \in Device
        PROVE  Settled(upq', connected', announced', e)
    <3>1. Concerns([type |-> "gateway_disconnected"], e)
      BY DEF Concerns
    <3>2. e \in {} => [type |-> "gateway_disconnected"].type = "device_connected"
      OBVIOUS
    <3> QED BY <2>1, <2>2, <2>3, <2>4, <3>1, <3>2, AppendLastSettled
  <2>6. SessionInv'
    BY <2>4 DEF SessionInv
  <2> QED BY <2>5, <2>6 DEF RecipientInv
<1>16. CASE SocketLost
  BY <1>16 DEF SocketLost, RecipientInv, SessionInv, Settled
<1>7. CASE LinkUp
  <2>1. UNCHANGED <<upq, connected, announced, registered>> /\ announced = {}
    BY <1>0, <1>7 DEF LinkUp, SessionInv
  <2>2. SessionInv'
    BY <1>0, <2>1 DEF SessionInv
  <2> QED BY <1>0, <2>1, <2>2 DEF RecipientInv
<1>8. CASE ServerRestart
  <2>1. upq' = <<>> /\ connected' = {} /\ announced' = {} /\ UNCHANGED registered
    BY <1>8 DEF ServerRestart
  <2>2. \A e : Settled(<<>>, {}, {}, e)
    BY DEF Settled
  <2>3. SessionInv'
    BY <2>1 DEF SessionInv
  <2> QED BY <2>1, <2>2, <2>3 DEF RecipientInv
<1>9. ASSUME NEW d \in Device, Relay(d) PROVE RecipientInv'
  BY <1>1, <1>9 DEF Relay
<1>10. ASSUME NEW d \in Device, DeviceStep(d) PROVE RecipientInv'
  <2>1. CASE HandleHint(d)
    <3>1. UNCHANGED <<connected, gateway>> /\ (upq' = upq \/ upq' = Append(upq, Pull(d)))
      BY <2>1 DEF HandleHint
    <3>2. ASSUME NEW e \in Device PROVE Settled(upq', connected, announced, e)
      BY <1>0, <3>1, AppendPullSettled
    <3>3. SessionInv'
      BY <1>0, <3>1 DEF SessionInv
    <3> QED BY <3>1, <3>2, <3>3 DEF RecipientInv
  <2>2. CASE HandleResponse(d)
    BY <1>1, <2>2 DEF HandleResponse
  <2>3. CASE ApplyMirror(d)
    BY <1>1, <2>3 DEF ApplyMirror
  <2>4. CASE RecordAuthoritative(d)
    BY <1>1, <2>4 DEF RecordAuthoritative
  <2> QED BY <1>10, <2>1, <2>2, <2>3, <2>4 DEF DeviceStep
<1>11. ASSUME NEW d \in Device, DeviceConnect(d) PROVE RecipientInv'
  <2>1. CASE ~link
    <3>1. UNCHANGED <<upq, connected, announced, link>> /\ announced = {}
      BY <1>0, <1>11, <2>1 DEF DeviceConnect, SessionInv
    <3>2. SessionInv'
      BY <3>1 DEF SessionInv
    <3> QED BY <1>0, <3>1, <3>2 DEF RecipientInv
  <2>2. CASE link
    <3> DEFINE m == [type |-> "device_connected", dev |-> d]
    <3>1. m \in UpMessage /\ Pull(d) \in UpMessage
      BY DEF UpMessage, Pull
    <3>2. /\ upq' = upq \o <<m, Pull(d)>>
          /\ announced' = announced \cup {d}
          /\ registered' = [registered EXCEPT ![d] = TRUE]
          /\ UNCHANGED <<connected, link>>
      BY <1>11, <2>2 DEF DeviceConnect
    <3> HIDE DEF m
    <3>3. upq' = Append(Append(upq, m), Pull(d)) /\ Append(upq, m) \in Seq(UpMessage)
      BY <1>0, <3>1, <3>2
    <3>4. ASSUME NEW e \in Device PROVE Settled(Append(upq, m), connected, announced', e)
      <4>1. CASE e = d
        BY <1>0, <3>1, <3>2, <4>1, AppendLastSettled DEF m, Concerns
      <4>2. CASE e # d
        <5>1. ~Concerns(m, e) /\ (e \in announced' <=> e \in announced)
          BY <3>2, <4>2 DEF m, Concerns
        <5> QED BY <1>0, <3>1, <5>1, AppendOtherSettled
      <4> QED BY <4>1, <4>2
    <3>5. ASSUME NEW e \in Device PROVE Settled(upq', connected', announced', e)
      BY <3>2, <3>3, <3>4, AppendPullSettled
    <3>6. \A e \in announced' : registered'[e]
      <4>1. registered \in [Device -> BOOLEAN]
        BY DEF TypeOK
      <4> QED BY <1>0, <3>2, <4>1 DEF SessionInv, TypeOK
    <3>7. SessionInv'
      BY <2>2, <3>2, <3>6 DEF SessionInv
    <3> QED BY <3>5, <3>7 DEF RecipientInv
  <2> QED BY <2>1, <2>2
<1>12. ASSUME NEW d \in Device, DeviceDrop(d) PROVE RecipientInv'
  <2> DEFINE m == [type |-> "device_disconnected", dev |-> d]
  <2>1. m \in UpMessage
    BY DEF UpMessage
  <2>2. /\ announced' = announced \ {d}
        /\ registered' = [registered EXCEPT ![d] = FALSE]
        /\ UNCHANGED <<connected, link>>
        /\ link => upq' = Append(upq, m)
        /\ ~link => upq' = upq
    BY <1>12 DEF DeviceDrop
  <2> HIDE DEF m
  <2>3. ASSUME NEW e \in Device PROVE Settled(upq', connected', announced', e)
    <3>1. CASE ~link
      <4>1. announced' = announced
        BY <1>0, <2>2, <3>1 DEF SessionInv
      <4> QED BY <1>0, <2>2, <3>1, <4>1
    <3>2. CASE link /\ e = d
      BY <1>0, <2>1, <2>2, <3>2, AppendLastSettled DEF m, Concerns
    <3>3. CASE link /\ e # d
      <4>1. ~Concerns(m, e) /\ (e \in announced' <=> e \in announced)
        BY <2>2, <3>3 DEF m, Concerns
      <4> QED BY <1>0, <2>1, <2>2, <3>3, <4>1, AppendOtherSettled
    <3> QED BY <3>1, <3>2, <3>3
  <2>4. \A e \in announced' : registered'[e]
    <3>1. registered \in [Device -> BOOLEAN]
      BY DEF TypeOK
    <3> QED BY <1>0, <2>2, <3>1 DEF SessionInv, TypeOK
  <2>5. SessionInv'
    BY <1>0, <2>2, <2>4 DEF SessionInv
  <2> QED BY <2>3, <2>5 DEF RecipientInv
<1>13. ASSUME NEW d \in Device, PullTimeout(d) PROVE RecipientInv'
  BY <1>1, <1>13 DEF PullTimeout
<1>14. ASSUME NEW d \in Device, Revalidate(d) PROVE RecipientInv'
  <2>1. UNCHANGED <<connected, gateway>> /\ (upq' = upq \/ upq' = Append(upq, Pull(d)))
    BY <1>14 DEF Revalidate
  <2>2. ASSUME NEW e \in Device PROVE Settled(upq', connected, announced, e)
    BY <1>0, <2>1, AppendPullSettled
  <2>3. SessionInv'
    BY <1>0, <2>1 DEF SessionInv
  <2> QED BY <2>1, <2>2, <2>3 DEF RecipientInv
<1>15. CASE UNCHANGED vars
  BY <1>1, <1>15 DEF vars
<1> QED BY <1>2, <1>3, <1>4, <1>5, <1>6, <1>7, <1>8, <1>9, <1>10, <1>11,
           <1>12, <1>13, <1>14, <1>15, <1>16 DEF Next

\* Whatever the server has still to process of what the gateway told it, every
\* announced device comes out a recipient: through device drops, losses of the
\* gateway session or of the plugin's socket, and restarts, for every set of
\* devices (infra_event_handlers.py, resource_change_broadcaster.py).
THEOREM RecipientsSettled == Spec => []RecipientInv
<1>1. Init => RecipientInv
  BY DEF Init, RecipientInv, SessionInv, Settled
<1> QED BY <1>1, RecipientStep, TypeCorrect, PTL DEF Spec

\* Once the server has processed what the gateway told it, no device that was
\* announced to the present session is missing from the broadcaster's
\* recipients, under every disturbance and for every set of devices.
THEOREM AnnouncedAreHinted == Spec => []AnnouncedAreRecipients
<1>1. TypeOK /\ RecipientInv => AnnouncedAreRecipients
  <2> SUFFICES ASSUME TypeOK, RecipientInv, upq = <<>> PROVE announced \subseteq connected
    BY DEF AnnouncedAreRecipients
  <2>1. \A e \in Device : e \in announced => e \in connected
    BY DEF RecipientInv, Settled
  <2> QED BY <2>1 DEF TypeOK
<1> QED BY <1>1, RecipientsSettled, TypeCorrect, PTL

-----------------------------------------------------------------------------
(* The order *)

\* n was put into a device's queue after m, or after what m records: its
\* content is at least as new and, unless counters restart, a hint's version
\* is higher.
Newer(m, n) ==
    /\ m.data <= n.data
    /\ ("restart" \notin Disturbances /\ n.type = "hint") => m.ver < n.ver

\* Every message of s is newer than m.
Above(s, m) == \A i \in 1..Len(s) : Newer(m, s[i])

\* Later messages of s are newer than earlier ones.
Ascending(s) == \A i, j \in 1..Len(s) : i < j => Newer(s[i], s[j])

\* Every message of t is newer than every message of s.
Precedes(s, t) == \A i \in 1..Len(s) : Above(t, s[i])

\* m carries nothing the server has not reached.
AtMost(m, v, x) ==
    /\ m.data \in 0..x /\ m.ver \in Int
    /\ "restart" \notin Disturbances => m.ver <= v

Within(s, v, x) == \A i \in 1..Len(s) : AtMost(s[i], v, x)

\* What a device holds, written as a message: the version it recorded, with
\* the content of its copy when that is replaced at once.
Mark(seen, shown) ==
    [ver |-> seen, data |-> IF ApplyMode = "snapshot" THEN shown ELSE 0]

\* m is older than both queues of its device, and not ahead of the server.
Behind(m, in, out, v, x) == Above(in, m) /\ Above(out, m) /\ AtMost(m, v, x)

\* The order of one device: its queues in and out, the version it has seen, the
\* content it shows and its open pulls, with the server at version v, content x.
Ordered(in, out, v, x, seen, shown, open) ==
    /\ Ascending(in) /\ Ascending(out) /\ Precedes(in, out)
    /\ Within(in, v, x) /\ Within(out, v, x)
    /\ Behind(Mark(seen, shown), in, out, v, x)
    /\ \A r \in open : Behind(r, in, out, v, x)
    /\ ApplyMode = "snapshot" => \A r \in open : r.applied

OrderInv ==
    \A d \in Device :
        Ordered(inbox[d], outq[d], ver, data, lastSeen[d], copy[d], applying[d])

-----------------------------------------------------------------------------
(* Queues *)

\* t is what is left of s when its first k messages are gone.
IsSuffix(t, s, k) == \A i \in 1..Len(t) : i + k \in 1..Len(s) /\ t[i] = s[i + k]

LEMMA SuffixAbove ==
    ASSUME NEW s \in Seq(DownMessage), NEW t \in Seq(DownMessage), NEW k \in Nat,
           IsSuffix(t, s, k), NEW m, Above(s, m)
    PROVE  Above(t, m)
BY DEF IsSuffix, Above

LEMMA SuffixAscending ==
    ASSUME NEW s \in Seq(DownMessage), NEW t \in Seq(DownMessage), NEW k \in Nat,
           IsSuffix(t, s, k), Ascending(s)
    PROVE  Ascending(t)
<1> SUFFICES ASSUME NEW i \in 1..Len(t), NEW j \in 1..Len(t), i < j
             PROVE  Newer(t[i], t[j])
  BY DEF Ascending
<1>1. i + k \in 1..Len(s) /\ j + k \in 1..Len(s) /\ i + k < j + k
  BY DEF IsSuffix
<1>2. t[i] = s[i + k] /\ t[j] = s[j + k]
  BY DEF IsSuffix
<1> QED BY <1>1, <1>2 DEF Ascending

LEMMA SuffixWithin ==
    ASSUME NEW s \in Seq(DownMessage), NEW t \in Seq(DownMessage), NEW k \in Nat,
           IsSuffix(t, s, k), NEW v, NEW x, Within(s, v, x)
    PROVE  Within(t, v, x)
BY DEF IsSuffix, Within

LEMMA SuffixPrecedes ==
    ASSUME NEW s \in Seq(DownMessage), NEW t \in Seq(DownMessage), NEW k \in Nat,
           IsSuffix(t, s, k), NEW u, Precedes(s, u)
    PROVE  Precedes(t, u)
BY DEF IsSuffix, Precedes

LEMMA PrecedesSuffix ==
    ASSUME NEW s \in Seq(DownMessage), NEW t \in Seq(DownMessage), NEW k \in Nat,
           IsSuffix(t, s, k), NEW u, Precedes(u, s)
    PROVE  Precedes(u, t)
<1> SUFFICES ASSUME NEW i \in 1..Len(u) PROVE Above(t, u[i])
  BY DEF Precedes
<1>1. Above(s, u[i])
  BY DEF Precedes
<1> QED BY <1>1, SuffixAbove

LEMMA TailIsSuffix ==
    ASSUME NEW s \in Seq(DownMessage), s # <<>>
    PROVE  /\ Tail(s) \in Seq(DownMessage) /\ Head(s) \in DownMessage
           /\ Head(s) = s[1] /\ 1 \in 1..Len(s)
           /\ IsSuffix(Tail(s), s, 1)
<1>1. /\ Tail(s) \in Seq(DownMessage) /\ Len(Tail(s)) = Len(s) - 1
      /\ Len(s) \in Nat \ {0} /\ Head(s) = s[1] /\ Head(s) \in DownMessage
      /\ \A i \in 1..Len(Tail(s)) : Tail(s)[i] = s[i + 1]
  OBVIOUS
<1> QED BY <1>1 DEF IsSuffix

LEMMA LossIsSuffix ==
    ASSUME NEW s \in Seq(DownMessage), NEW k \in Nat
    PROVE  /\ SubSeq(s, k + 1, Len(s)) \in Seq(DownMessage)
           /\ IsSuffix(SubSeq(s, k + 1, Len(s)), s, k)
<1> DEFINE t == SubSeq(s, k + 1, Len(s))
<1>1. /\ t \in Seq(DownMessage) /\ Len(s) \in Nat
      /\ Len(t) = IF k + 1 <= Len(s) THEN Len(s) - k ELSE 0
      /\ \A i \in 1..Len(t) : t[i] = s[i + k]
  OBVIOUS
<1> HIDE DEF t
<1>2. IsSuffix(t, s, k)
  BY <1>1 DEF IsSuffix
<1> QED BY <1>1, <1>2 DEF t

LEMMA EmptyIsSuffix ==
    ASSUME NEW s \in Seq(DownMessage)
    PROVE  IsSuffix(<<>>, s, 0) /\ <<>> \in Seq(DownMessage)
BY DEF IsSuffix

\* What Append makes of the indices.
LEMMA AppendIndices ==
    ASSUME NEW s \in Seq(DownMessage), NEW m \in DownMessage
    PROVE  /\ Append(s, m) \in Seq(DownMessage)
           /\ \A i \in 1..Len(Append(s, m)) :
                 \/ i \in 1..Len(s) /\ Append(s, m)[i] = s[i]
                 \/ i = Len(s) + 1 /\ Append(s, m)[i] = m
OBVIOUS

LEMMA AppendAbove ==
    ASSUME NEW s \in Seq(DownMessage), NEW m \in DownMessage,
           NEW o, Above(s, o), Newer(o, m)
    PROVE  Above(Append(s, m), o)
<1> DEFINE t == Append(s, m)
<1>1. \A i \in 1..Len(t) : (i \in 1..Len(s) /\ t[i] = s[i]) \/ t[i] = m
  BY AppendIndices
<1> HIDE DEF t
<1>2. Above(t, o)
  BY <1>1 DEF Above
<1> QED BY <1>2 DEF t

LEMMA AppendAscending ==
    ASSUME NEW s \in Seq(DownMessage), NEW m \in DownMessage,
           Ascending(s), \A i \in 1..Len(s) : Newer(s[i], m)
    PROVE  Ascending(Append(s, m))
<1> DEFINE t == Append(s, m)
<1>1. /\ Len(s) \in Nat
      /\ \A i \in 1..Len(t) : \/ i \in 1..Len(s) /\ t[i] = s[i]
                              \/ i = Len(s) + 1 /\ t[i] = m
  BY AppendIndices
<1>2. Len(t) \in Nat
  BY AppendIndices
<1> HIDE DEF t
<1>3. ASSUME NEW i \in 1..Len(t), NEW j \in 1..Len(t), i < j
      PROVE  Newer(t[i], t[j])
  <2>1. i \in 1..Len(s) /\ t[i] = s[i]
    <3>1. CASE i = Len(s) + 1
      <4>1. j \in 1..Len(s) \/ j = Len(s) + 1
        BY <1>1
      <4> QED BY <4>1, <3>1, <1>1, <1>3
    <3> QED BY <3>1, <1>1
  <2>2. CASE j \in 1..Len(s) /\ t[j] = s[j]
    BY <2>1, <2>2, <1>3 DEF Ascending
  <2>3. CASE t[j] = m
    BY <2>1, <2>3
  <2> QED BY <2>2, <2>3, <1>1
<1>4. Ascending(t)
  BY <1>3 DEF Ascending
<1> QED BY <1>4 DEF t

LEMMA AppendWithin ==
    ASSUME NEW s \in Seq(DownMessage), NEW m \in DownMessage,
           NEW v, NEW x, Within(s, v, x), AtMost(m, v, x)
    PROVE  Within(Append(s, m), v, x)
<1> DEFINE t == Append(s, m)
<1>1. \A i \in 1..Len(t) : (i \in 1..Len(s) /\ t[i] = s[i]) \/ t[i] = m
  BY AppendIndices
<1> HIDE DEF t
<1>2. Within(t, v, x)
  BY <1>1 DEF Within
<1> QED BY <1>2 DEF t

LEMMA AppendPrecedes ==
    ASSUME NEW s \in Seq(DownMessage), NEW m \in DownMessage,
           NEW u, Precedes(s, u), Above(u, m)
    PROVE  Precedes(Append(s, m), u)
<1> DEFINE t == Append(s, m)
<1>1. \A i \in 1..Len(t) : (i \in 1..Len(s) /\ t[i] = s[i]) \/ t[i] = m
  BY AppendIndices
<1> HIDE DEF t
<1>2. Precedes(t, u)
  BY <1>1 DEF Precedes
<1> QED BY <1>2 DEF t

LEMMA PrecedesAppend ==
    ASSUME NEW s \in Seq(DownMessage), NEW m \in DownMessage,
           NEW u, Precedes(u, s), \A i \in 1..Len(u) : Newer(u[i], m)
    PROVE  Precedes(u, Append(s, m))
<1> SUFFICES ASSUME NEW i \in 1..Len(u) PROVE Above(Append(s, m), u[i])
  BY DEF Precedes
<1>1. Above(s, u[i]) /\ Newer(u[i], m)
  BY DEF Precedes
<1> QED BY <1>1, AppendAbove

-----------------------------------------------------------------------------
(* The order of one device under what happens to it *)

\* The queues lose a prefix: a message was read, dropped or lost.
LEMMA OrderedLoss ==
    ASSUME NEW in \in Seq(DownMessage), NEW out \in Seq(DownMessage),
           NEW i2 \in Seq(DownMessage), NEW o2 \in Seq(DownMessage),
           NEW k \in Nat, NEW l \in Nat, IsSuffix(i2, in, k), IsSuffix(o2, out, l),
           NEW v, NEW x, NEW seen, NEW shown, NEW open,
           Ordered(in, out, v, x, seen, shown, open)
    PROVE  Ordered(i2, o2, v, x, seen, shown, open)
<1>1. /\ Ascending(in) /\ Ascending(out) /\ Precedes(in, out)
      /\ Within(in, v, x) /\ Within(out, v, x)
  BY DEF Ordered
<1>2. Ascending(i2) /\ Ascending(o2) /\ Within(i2, v, x) /\ Within(o2, v, x)
  BY <1>1, SuffixAscending, SuffixWithin
<1>3. Precedes(i2, o2)
  <2>1. Precedes(i2, out)
    BY <1>1, SuffixPrecedes
  <2> QED BY <2>1, PrecedesSuffix
<1>4. ASSUME NEW m, Behind(m, in, out, v, x) PROVE Behind(m, i2, o2, v, x)
  BY <1>4, SuffixAbove DEF Behind
<1> QED BY <1>2, <1>3, <1>4 DEF Ordered

\* A message that is newer than everything joins the outbound queue, while the
\* server's version and content may move on.
LEMMA OrderedSend ==
    ASSUME NEW in \in Seq(DownMessage), NEW out \in Seq(DownMessage),
           NEW m \in DownMessage,
           NEW v \in Nat, NEW x \in Nat, NEW w \in Nat,
           NEW seen, NEW shown, NEW open,
           Ordered(in, out, v, x, seen, shown, open),
           v <= w, AtMost(m, w, x), \A o : AtMost(o, v, x) => Newer(o, m),
           \A o : AtMost(o, v, x) => AtMost(o, w, x)
    PROVE  Ordered(in, Append(out, m), w, x, seen, shown, open)
<1>1. /\ Ascending(in) /\ Ascending(out) /\ Precedes(in, out)
      /\ Within(in, v, x) /\ Within(out, v, x)
  BY DEF Ordered
<1>2. /\ \A i \in 1..Len(in) : Newer(in[i], m)
      /\ \A i \in 1..Len(out) : Newer(out[i], m)
  BY <1>1 DEF Within
<1>3. Within(in, w, x) /\ Within(out, w, x)
  BY <1>1 DEF Within
<1>4. Ascending(Append(out, m)) /\ Within(Append(out, m), w, x)
  BY <1>1, <1>2, <1>3, AppendAscending, AppendWithin
<1>5. Precedes(in, Append(out, m))
  BY <1>1, <1>2, PrecedesAppend
<1>6. ASSUME NEW o, Behind(o, in, out, v, x)
      PROVE  Behind(o, in, Append(out, m), w, x)
  <2>1. Above(in, o) /\ Above(out, o) /\ AtMost(o, v, x)
    BY <1>6 DEF Behind
  <2>2. Newer(o, m) /\ AtMost(o, w, x)
    BY <2>1
  <2> QED BY <2>1, <2>2, AppendAbove DEF Behind
<1> QED BY <1>1, <1>3, <1>4, <1>5, <1>6 DEF Ordered

\* The server's version or content moves on.
LEMMA OrderedAdvance ==
    ASSUME NEW in, NEW out, NEW v, NEW x, NEW w, NEW y,
           NEW seen, NEW shown, NEW open,
           Ordered(in, out, v, x, seen, shown, open),
           \A o : AtMost(o, v, x) => AtMost(o, w, y)
    PROVE  Ordered(in, out, w, y, seen, shown, open)
<1>1. Within(in, w, y) /\ Within(out, w, y)
  BY DEF Ordered, Within
<1>2. ASSUME NEW o, Behind(o, in, out, v, x) PROVE Behind(o, in, out, w, y)
  BY <1>2 DEF Behind
<1> QED BY <1>1, <1>2 DEF Ordered

\* The first message of the outbound queue reaches the device's socket.
LEMMA OrderedRelay ==
    ASSUME NEW in \in Seq(DownMessage), NEW out \in Seq(DownMessage), out # <<>>,
           NEW v, NEW x, NEW seen, NEW shown, NEW open,
           Ordered(in, out, v, x, seen, shown, open)
    PROVE  Ordered(Append(in, Head(out)), Tail(out), v, x, seen, shown, open)
<1> DEFINE m == Head(out)
           i2 == Append(in, m)
           o2 == Tail(out)
<1>1. /\ Ascending(in) /\ Ascending(out) /\ Precedes(in, out)
      /\ Within(in, v, x) /\ Within(out, v, x)
  BY DEF Ordered
<1>2. /\ o2 \in Seq(DownMessage) /\ m \in DownMessage /\ m = out[1]
      /\ 1 \in 1..Len(out) /\ IsSuffix(o2, out, 1)
  BY TailIsSuffix
<1>3. Ascending(o2) /\ Within(o2, v, x)
  BY <1>1, <1>2, SuffixAscending, SuffixWithin
<1>4. Above(o2, m)
  <2> SUFFICES ASSUME NEW i \in 1..Len(o2) PROVE Newer(m, o2[i])
    BY DEF Above
  <2>1. i + 1 \in 1..Len(out) /\ o2[i] = out[i + 1]
    BY <1>2 DEF IsSuffix
  <2> QED BY <2>1, <1>1, <1>2 DEF Ascending
<1>5. \A i \in 1..Len(in) : Newer(in[i], m)
  BY <1>1, <1>2 DEF Precedes, Above
<1>6. AtMost(m, v, x)
  BY <1>1, <1>2 DEF Within
<1>7. Ascending(i2) /\ Within(i2, v, x)
  BY <1>1, <1>2, <1>5, <1>6, AppendAscending, AppendWithin
<1>8. Precedes(i2, o2)
  <2>1. Precedes(in, o2)
    BY <1>1, <1>2, PrecedesSuffix
  <2> QED BY <2>1, <1>2, <1>4, AppendPrecedes
<1>9. ASSUME NEW o, Behind(o, in, out, v, x) PROVE Behind(o, i2, o2, v, x)
  <2>1. Above(in, o) /\ Above(out, o) /\ AtMost(o, v, x)
    BY <1>9 DEF Behind
  <2>2. Newer(o, m)
    BY <2>1, <1>2 DEF Above
  <2>3. Above(i2, o)
    BY <2>1, <2>2, <1>2, AppendAbove
  <2>4. Above(o2, o)
    BY <2>1, <1>2, SuffixAbove
  <2> QED BY <2>1, <2>3, <2>4 DEF Behind
<1> QED BY <1>3, <1>7, <1>8, <1>9 DEF Ordered

\* The first message of the socket's queue is older than all that follows it.
LEMMA HeadBehind ==
    ASSUME NEW in \in Seq(DownMessage), in # <<>>, NEW out \in Seq(DownMessage),
           NEW v, NEW x, NEW seen, NEW shown, NEW open,
           Ordered(in, out, v, x, seen, shown, open)
    PROVE  Behind(Head(in), Tail(in), out, v, x)
<1>1. Ascending(in) /\ Precedes(in, out) /\ Within(in, v, x)
  BY DEF Ordered
<1>2. Head(in) = in[1] /\ 1 \in 1..Len(in) /\ IsSuffix(Tail(in), in, 1)
  BY TailIsSuffix
<1>3. Above(Tail(in), in[1])
  <2> SUFFICES ASSUME NEW i \in 1..Len(Tail(in)) PROVE Newer(in[1], Tail(in)[i])
    BY DEF Above
  <2>1. i + 1 \in 1..Len(in) /\ Tail(in)[i] = in[i + 1]
    BY <1>2 DEF IsSuffix
  <2> QED BY <2>1, <1>1, <1>2 DEF Ascending
<1>4. Above(out, in[1]) /\ AtMost(in[1], v, x)
  BY <1>1, <1>2 DEF Precedes, Within
<1> QED BY <1>2, <1>3, <1>4 DEF Behind

\* m is behind a device's queues when its version and its content both are.
LEMMA BehindParts ==
    ASSUME NEW in, NEW out, NEW v, NEW x, NEW m, NEW a, NEW b,
           Behind(a, in, out, v, x), Behind(b, in, out, v, x),
           m.ver = a.ver, m.data = b.data
    PROVE  Behind(m, in, out, v, x)
<1>1. \A n : Newer(a, n) /\ Newer(b, n) => Newer(m, n)
  BY DEF Newer
<1>2. Above(in, m) /\ Above(out, m)
  BY <1>1 DEF Behind, Above
<1>3. AtMost(m, v, x)
  BY DEF Behind, AtMost
<1> QED BY <1>2, <1>3 DEF Behind

\* A response is read: its pull is open until its version is recorded, and a
\* snapshot shows the content at once.
LEMMA OrderedReceive ==
    ASSUME NEW in \in Seq(DownMessage), in # <<>>, NEW out \in Seq(DownMessage),
           NEW v, NEW x, NEW seen, NEW shown, NEW open,
           NEW h, h = Head(in),
           NEW b, b = (ApplyMode = "snapshot"),
           Ordered(in, out, v, x, seen, shown, open)
    PROVE  Ordered(Tail(in), out, v, x, seen, IF b THEN h.data ELSE shown,
                   open \cup {[ver |-> h.ver, data |-> h.data, applied |-> b]})
<1> DEFINE pull == [ver |-> h.ver, data |-> h.data, applied |-> b]
           content == IF b THEN h.data ELSE shown
<1>1. Behind(h, Tail(in), out, v, x)
  BY HeadBehind
<1>2. Ordered(Tail(in), out, v, x, seen, shown, open)
  <2>1. Tail(in) \in Seq(DownMessage) /\ IsSuffix(Tail(in), in, 1)
    BY TailIsSuffix
  <2>2. IsSuffix(out, out, 0)
    BY DEF IsSuffix
  <2> QED BY <2>1, <2>2, OrderedLoss
<1>3. pull.ver = h.ver /\ pull.data = h.data /\ pull.applied = b
  OBVIOUS
<1>4. Behind(pull, Tail(in), out, v, x)
  <2> HIDE DEF pull
  <2> QED BY <1>1, <1>3, BehindParts
<1>5. Behind(Mark(seen, content), Tail(in), out, v, x)
  <2>1. Behind(Mark(seen, shown), Tail(in), out, v, x)
    BY <1>2 DEF Ordered
  <2>2. CASE ApplyMode = "snapshot"
    <3>1. /\ Mark(seen, content).ver = Mark(seen, shown).ver
          /\ Mark(seen, content).data = h.data
      BY <2>2 DEF Mark
    <3> QED BY <1>1, <2>1, <3>1, BehindParts
  <2>3. CASE ApplyMode # "snapshot"
    <3>1. content = shown
      BY <2>3
    <3> QED BY <2>1, <3>1
  <2> QED BY <2>2, <2>3
<1>6. ApplyMode = "snapshot" => \A r \in open \cup {pull} : r.applied
  BY <1>2, <1>3 DEF Ordered
<1> HIDE DEF pull, content
<1>7. Ordered(Tail(in), out, v, x, seen, content, open \cup {pull})
  BY <1>2, <1>4, <1>5, <1>6 DEF Ordered
<1> QED BY <1>7 DEF pull, content

\* A pull ends: its version is recorded.
LEMMA OrderedRecord ==
    ASSUME NEW in, NEW out, NEW v, NEW x, NEW seen, NEW shown, NEW open,
           NEW r \in open,
           Ordered(in, out, v, x, seen, shown, open)
    PROVE  Ordered(in, out, v, x, r.ver, shown, open \ {r})
<1>1. Behind(r, in, out, v, x) /\ Behind(Mark(seen, shown), in, out, v, x)
  BY DEF Ordered
<1>2. /\ Mark(r.ver, shown).ver = r.ver
      /\ Mark(r.ver, shown).data = Mark(seen, shown).data
  BY DEF Mark
<1>3. Behind(Mark(r.ver, shown), in, out, v, x)
  BY <1>1, <1>2, BehindParts
<1> QED BY <1>3 DEF Ordered

\* The rows of a mirror are written.
LEMMA OrderedApply ==
    ASSUME NEW in, NEW out, NEW v, NEW x, NEW seen, NEW shown, NEW content,
           NEW open, NEW r \in open, r \in PullResult, ~r.applied,
           Ordered(in, out, v, x, seen, shown, open)
    PROVE  Ordered(in, out, v, x, seen, content,
                   (open \ {r}) \cup {[r EXCEPT !.applied = TRUE]})
<1> DEFINE pull == [r EXCEPT !.applied = TRUE]
<1>1. ApplyMode # "snapshot"
  BY DEF Ordered
<1>2. Mark(seen, content) = Mark(seen, shown)
  BY <1>1 DEF Mark
<1>3. pull.ver = r.ver /\ pull.data = r.data
  BY DEF PullResult
<1>4. Behind(r, in, out, v, x)
  BY DEF Ordered
<1> HIDE DEF pull
<1>5. Behind(pull, in, out, v, x)
  BY <1>3, <1>4, BehindParts
<1>6. Ordered(in, out, v, x, seen, content, (open \ {r}) \cup {pull})
  BY <1>1, <1>2, <1>5 DEF Ordered
<1> QED BY <1>6 DEF pull

-----------------------------------------------------------------------------
(* The order is an invariant *)

LEMMA OrderInit == Init => OrderInv
<1> SUFFICES ASSUME Init, NEW d \in Device
             PROVE  Ordered(inbox[d], outq[d], ver, data, lastSeen[d], copy[d], applying[d])
  BY DEF OrderInv
<1>1. /\ inbox[d] = <<>> /\ outq[d] = <<>> /\ applying[d] = {}
      /\ ver = 0 /\ data = 0 /\ lastSeen[d] = -1 /\ copy[d] = 0
  BY DEF Init, NoVersion
<1>2. Ascending(<<>>) /\ Precedes(<<>>, <<>>) /\ Within(<<>>, 0, 0)
  BY DEF Ascending, Precedes, Within
<1>3. Behind(Mark(-1, 0), <<>>, <<>>, 0, 0)
  BY DEF Behind, Mark, Above, AtMost
<1> QED BY <1>1, <1>2, <1>3 DEF Ordered

\* A step of the server, the transport or a device keeps every device ordered.
LEMMA OrderStep ==
    ASSUME TypeOK, OrderInv, [Next]_vars
    PROVE  OrderInv'
<1> SUFFICES ASSUME NEW d \in Device
             PROVE  Ordered(inbox'[d], outq'[d], ver', data', lastSeen'[d], copy'[d],
                            applying'[d])
  BY DEF OrderInv
<1> USE BoundAssumption
<1> DEFINE Now(in, out) == Ordered(in, out, ver, data, lastSeen[d], copy[d], applying[d])
<1>0. /\ inbox[d] \in Seq(DownMessage) /\ outq[d] \in Seq(DownMessage)
      /\ ver \in Nat /\ data \in Nat
      /\ inbox \in [Device -> Seq(DownMessage)] /\ outq \in [Device -> Seq(DownMessage)]
      /\ copy \in [Device -> Nat] /\ applying \in [Device -> SUBSET PullResult]
      /\ lastSeen \in [Device -> Nat \cup {NoVersion}] /\ upq \in Seq(UpMessage)
  BY DEF TypeOK
<1>1. Now(inbox[d], outq[d])
  BY DEF OrderInv
<1>2. IsSuffix(inbox[d], inbox[d], 0) /\ IsSuffix(outq[d], outq[d], 0)
  BY <1>0 DEF IsSuffix
<1>3. CASE Write
  <2>1. \A o : AtMost(o, ver, data) => AtMost(o, ver, data + 1)
    BY <1>0 DEF AtMost
  <2>2. Ordered(inbox[d], outq[d], ver, data + 1, lastSeen[d], copy[d], applying[d])
    BY <1>1, <2>1, OrderedAdvance
  <2> QED BY <1>3, <2>2 DEF Write, device
<1>4. CASE Flush
  <2> DEFINE hint == [type |-> "hint", ver |-> ver + 1, data |-> data]
  <2>1. CASE connected = {}
    BY <1>1, <1>4, <2>1 DEF Flush, device
  <2>2. CASE connected # {}
    <3>1. /\ ver' = ver + 1
          /\ outq'[d] = IF d \in connected THEN Append(outq[d], hint) ELSE outq[d]
          /\ UNCHANGED <<inbox, data, lastSeen, copy, applying>>
      BY <1>4, <2>2 DEF Flush, device
    <3>2. hint \in DownMessage /\ AtMost(hint, ver + 1, data)
      BY <1>0 DEF DownMessage, AtMost
    <3>3. \A o : AtMost(o, ver, data) => Newer(o, hint)
      BY <1>0 DEF AtMost, Newer
    <3>4. \A o : AtMost(o, ver, data) => AtMost(o, ver + 1, data)
      BY <1>0 DEF AtMost
    <3> HIDE DEF hint
    <3>5. Ordered(inbox[d], Append(outq[d], hint), ver + 1, data,
                  lastSeen[d], copy[d], applying[d])
      <4>1. ver + 1 \in Nat /\ ver <= ver + 1
        BY <1>0
      <4>2. inbox[d] \in Seq(DownMessage) /\ outq[d] \in Seq(DownMessage)
        BY <1>0
      <4>3. ver \in Nat /\ data \in Nat
        BY <1>0
      <4> QED BY <1>1, <3>2, <3>3, <3>4, <4>1, <4>2, <4>3, OrderedSend
    <3>6. Ordered(inbox[d], outq[d], ver + 1, data, lastSeen[d], copy[d], applying[d])
      BY <1>1, <3>4, OrderedAdvance
    <3> QED BY <3>1, <3>5, <3>6
  <2> QED BY <2>1, <2>2
<1>5. CASE ServePull
  <2> DEFINE response == [type |-> "response", ver |-> ver, data |-> data]
  <2>1. /\ outq'[d] = IF d = Head(upq).dev THEN Append(outq[d], response) ELSE outq[d]
        /\ UNCHANGED <<inbox, ver, data, lastSeen, copy, applying>>
    BY <1>0, <1>5 DEF ServePull, server, device
  <2>2. response \in DownMessage /\ AtMost(response, ver, data)
    BY <1>0 DEF DownMessage, AtMost
  <2>3. \A o : AtMost(o, ver, data) => Newer(o, response)
    BY <1>0 DEF AtMost, Newer
  <2> HIDE DEF response
  <2>4. Now(inbox[d], Append(outq[d], response))
    BY <1>0, <1>1, <2>2, <2>3, OrderedSend
  <2> QED BY <1>1, <2>1, <2>4
<1>6. ASSUME NEW e \in Device, Relay(e)
      PROVE  Ordered(inbox'[d], outq'[d], ver', data', lastSeen'[d], copy'[d], applying'[d])
  <2>1. outq[e] # <<>> /\ UNCHANGED <<ver, data, lastSeen, copy, applying>>
    BY <1>6 DEF Relay, server, device
  <2>2. CASE d # e
    BY <1>0, <1>1, <1>6, <2>1, <2>2 DEF Relay
  <2>3. CASE d = e
    <3>1. outq'[d] = Tail(outq[d])
      BY <1>0, <1>6, <2>3 DEF Relay
    <3>2. inbox'[d] = Append(inbox[d], Head(outq[d])) \/ inbox'[d] = inbox[d]
      BY <1>0, <1>6, <2>3 DEF Relay
    <3>3. Now(Append(inbox[d], Head(outq[d])), Tail(outq[d]))
      BY <1>0, <1>1, <2>1, <2>3, OrderedRelay
    <3>4. Now(inbox[d], Tail(outq[d]))
      <4>1. Tail(outq[d]) \in Seq(DownMessage) /\ IsSuffix(Tail(outq[d]), outq[d], 1)
        BY <1>0, <2>1, <2>3, TailIsSuffix
      <4>2. /\ inbox[d] \in Seq(DownMessage) /\ outq[d] \in Seq(DownMessage)
            /\ IsSuffix(inbox[d], inbox[d], 0)
        BY <1>0, <1>2
      <4> QED BY <1>1, <4>1, <4>2, OrderedLoss
    <3> QED BY <2>1, <3>1, <3>2, <3>3, <3>4
  <2> QED BY <2>2, <2>3
<1>7. ASSUME NEW e \in Device, inbox'[d] = (IF d = e THEN Tail(inbox[d]) ELSE inbox[d]),
             inbox[e] # <<>>, UNCHANGED <<outq, ver, data, lastSeen, copy, applying>>
      PROVE  Ordered(inbox'[d], outq'[d], ver', data', lastSeen'[d], copy'[d], applying'[d])
  <2>1. CASE d = e
    <3>1. Tail(inbox[d]) \in Seq(DownMessage) /\ IsSuffix(Tail(inbox[d]), inbox[d], 1)
      BY <1>0, <1>7, <2>1, TailIsSuffix
    <3>2. Now(Tail(inbox[d]), outq[d])
      BY <1>0, <1>1, <1>2, <3>1, OrderedLoss
    <3> QED BY <1>7, <2>1, <3>2
  <2> QED BY <1>1, <1>7, <2>1
<1>8. ASSUME NEW e \in Device, HandleHint(e) \/ PullTimeout(e)
      PROVE  Ordered(inbox'[d], outq'[d], ver', data', lastSeen'[d], copy'[d], applying'[d])
  <2>1. /\ inbox'[d] = (IF d = e THEN Tail(inbox[d]) ELSE inbox[d]) /\ inbox[e] # <<>>
        /\ UNCHANGED <<outq, ver, data, lastSeen, copy, applying>>
    BY <1>0, <1>8 DEF HandleHint, PullTimeout, server, device
  <2> QED BY <1>7, <2>1
<1>9. ASSUME NEW e \in Device, HandleResponse(e)
      PROVE  Ordered(inbox'[d], outq'[d], ver', data', lastSeen'[d], copy'[d], applying'[d])
  <2> DEFINE h == Head(inbox[d])
             b == ApplyMode = "snapshot"
  <2>1. UNCHANGED <<outq, ver, data, lastSeen>> /\ inbox[e] # <<>>
    BY <1>9 DEF HandleResponse, server
  <2>2. CASE d # e
    <3>1. inbox'[d] = inbox[d] /\ copy'[d] = copy[d] /\ applying'[d] = applying[d]
      BY <1>0, <1>9, <2>2 DEF HandleResponse
    <3> QED BY <1>1, <2>1, <3>1
  <2>3. CASE d = e
    <3>1. /\ inbox'[d] = Tail(inbox[d])
          /\ copy'[d] = IF b THEN h.data ELSE copy[d]
          /\ applying'[d] =
               applying[d] \cup {[ver |-> h.ver, data |-> h.data, applied |-> b]}
      BY <1>0, <1>9, <2>3 DEF HandleResponse
    <3> HIDE DEF h, b
    <3>2. h = Head(inbox[d]) /\ b = (ApplyMode = "snapshot")
      BY DEF h, b
    <3>3. Ordered(Tail(inbox[d]), outq[d], ver, data, lastSeen[d],
                  IF b THEN h.data ELSE copy[d],
                  applying[d] \cup {[ver |-> h.ver, data |-> h.data, applied |-> b]})
      <4>1. /\ inbox[d] \in Seq(DownMessage) /\ inbox[d] # <<>>
            /\ outq[d] \in Seq(DownMessage)
        BY <1>0, <2>1, <2>3
      <4> QED BY <1>1, <3>2, <4>1, OrderedReceive
    <3> QED BY <2>1, <3>1, <3>3
  <2> QED BY <2>2, <2>3
<1>10. ASSUME NEW e \in Device, ApplyMirror(e)
       PROVE  Ordered(inbox'[d], outq'[d], ver', data', lastSeen'[d], copy'[d], applying'[d])
  <2>1. PICK r \in applying[e] :
          /\ ~r.applied
          /\ copy' = [copy EXCEPT ![e] = r.data]
          /\ applying' = [applying EXCEPT ![e] =
                 (@ \ {r}) \cup {[r EXCEPT !.applied = TRUE]}]
          /\ UNCHANGED <<inbox, outq, ver, data, lastSeen>>
    BY <1>10 DEF ApplyMirror, server
  <2>2. CASE d # e
    BY <1>0, <1>1, <2>1, <2>2
  <2>3. CASE d = e
    <3>1. r \in applying[d] /\ r \in PullResult
      BY <1>0, <2>1, <2>3
    <3>2. applying'[d] = (applying[d] \ {r}) \cup {[r EXCEPT !.applied = TRUE]}
      BY <1>0, <2>1, <2>3
    <3>3. Ordered(inbox[d], outq[d], ver, data, lastSeen[d], copy'[d],
                  (applying[d] \ {r}) \cup {[r EXCEPT !.applied = TRUE]})
      BY <1>1, <2>1, <3>1, OrderedApply
    <3> QED BY <2>1, <3>2, <3>3
  <2> QED BY <2>2, <2>3
<1>11. ASSUME NEW e \in Device, RecordAuthoritative(e)
       PROVE  Ordered(inbox'[d], outq'[d], ver', data', lastSeen'[d], copy'[d], applying'[d])
  <2>1. PICK r \in applying[e] :
          /\ lastSeen' = [lastSeen EXCEPT ![e] = r.ver]
          /\ applying' = [applying EXCEPT ![e] = @ \ {r}]
          /\ UNCHANGED <<inbox, outq, ver, data, copy>>
    BY <1>11 DEF RecordAuthoritative, server
  <2>2. CASE d # e
    BY <1>0, <1>1, <2>1, <2>2
  <2>3. CASE d = e
    <3>1. r \in applying[d] /\ lastSeen'[d] = r.ver /\ applying'[d] = applying[d] \ {r}
      BY <1>0, <2>1, <2>3
    <3>2. Ordered(inbox[d], outq[d], ver, data, r.ver, copy[d], applying[d] \ {r})
      BY <1>1, <3>1, OrderedRecord
    <3> QED BY <2>1, <3>1, <3>2
  <2> QED BY <2>2, <2>3
<1>12. ASSUME NEW e \in Device, DeviceDrop(e)
       PROVE  Ordered(inbox'[d], outq'[d], ver', data', lastSeen'[d], copy'[d], applying'[d])
  <2>1. /\ inbox'[d] = (IF d = e THEN <<>> ELSE inbox[d])
        /\ UNCHANGED <<outq, ver, data, lastSeen, copy, applying>>
    BY <1>0, <1>12 DEF DeviceDrop, server, device
  <2>2. IsSuffix(<<>>, inbox[d], 0) /\ <<>> \in Seq(DownMessage)
    BY <1>0, EmptyIsSuffix
  <2>3. Now(<<>>, outq[d])
    BY <1>0, <1>1, <1>2, <2>2, OrderedLoss
  <2> QED BY <1>1, <2>1, <2>3
<1>13. CASE LinkDown \/ SocketLost
  <2>1. PICK lost \in [Device -> 0..MaxLoss] :
          outq' = [e \in Device |-> SubSeq(outq[e], lost[e] + 1, Len(outq[e]))]
    BY <1>13 DEF LinkDown, SocketLost
  <2>2. UNCHANGED <<inbox, ver, data, lastSeen, copy, applying>>
    BY <1>13 DEF LinkDown, SocketLost, server, device
  <2>3. lost[d] \in Nat /\ outq'[d] = SubSeq(outq[d], lost[d] + 1, Len(outq[d]))
    BY <2>1, SMTT(30)
  <2>4. outq'[d] \in Seq(DownMessage) /\ IsSuffix(outq'[d], outq[d], lost[d])
    BY <1>0, <2>3, LossIsSuffix
  <2>5. Now(inbox[d], outq'[d])
    BY <1>0, <1>1, <1>2, <2>3, <2>4, OrderedLoss
  <2> QED BY <2>2, <2>5
<1>14. CASE ServerRestart
  <2>1. /\ "restart" \in Disturbances /\ ver' = 0 /\ outq'[d] = <<>>
        /\ UNCHANGED <<inbox, data, lastSeen, copy, applying>>
    BY <1>14 DEF ServerRestart, Disturb, device
  <2>2. \A o : AtMost(o, ver, data) => AtMost(o, 0, data)
    BY <2>1 DEF AtMost
  <2>3. Ordered(inbox[d], outq[d], 0, data, lastSeen[d], copy[d], applying[d])
    BY <1>1, <2>2, OrderedAdvance
  <2>4. IsSuffix(<<>>, outq[d], 0) /\ <<>> \in Seq(DownMessage)
    BY <1>0, EmptyIsSuffix
  <2>5. Ordered(inbox[d], <<>>, 0, data, lastSeen[d], copy[d], applying[d])
    BY <1>0, <1>2, <2>3, <2>4, OrderedLoss
  <2> QED BY <2>1, <2>5
<1>15. ASSUME UNCHANGED <<inbox, outq, ver, data, lastSeen, copy, applying>>
       PROVE  Ordered(inbox'[d], outq'[d], ver', data', lastSeen'[d], copy'[d], applying'[d])
  BY <1>1, <1>15
<1>16. CASE \/ OnDomainEvent \/ HandleDeviceConnected \/ HandleDeviceDisconnected
            \/ HandleGatewayDisconnected \/ LinkUp \/ UNCHANGED vars
  BY <1>15, <1>16 DEF OnDomainEvent, HandleDeviceConnected, HandleDeviceDisconnected,
     HandleGatewayDisconnected, LinkUp, vars, server, device
<1>17. ASSUME NEW e \in Device, DeviceConnect(e) \/ Revalidate(e)
       PROVE  Ordered(inbox'[d], outq'[d], ver', data', lastSeen'[d], copy'[d], applying'[d])
  BY <1>15, <1>17 DEF DeviceConnect, Revalidate, server, device
<1> QED BY <1>3, <1>4, <1>5, <1>6, <1>8, <1>9, <1>10, <1>11, <1>12, <1>13, <1>14,
           <1>16, <1>17 DEF Next, HandleUp, DeviceStep

LEMMA OrderCorrect == Spec => []OrderInv
BY OrderInit, OrderStep, TypeCorrect, PTL DEF Spec

-----------------------------------------------------------------------------
(* What follows from the order *)

\* Within one life of the server the duplicate guard cannot swallow a hint:
\* every hint on its way to a device is newer than any version the device has
\* recorded or is about to record, for every number of devices and changes.
THEOREM HintsAreFresh ==
    ASSUME "restart" \notin Disturbances
    PROVE  Spec => []FreshHints
<1>1. ASSUME TypeOK, OrderInv PROVE FreshHints
  <2> SUFFICES ASSUME NEW d \in Device, NEW m \in InFlight(d), m.type = "hint"
               PROVE  lastSeen[d] < m.ver /\ \A r \in applying[d] : r.ver < m.ver
    BY DEF FreshHints
  <2>1. ASSUME NEW a, Behind(a, inbox[d], outq[d], ver, data) PROVE a.ver < m.ver
    <3>1. Newer(a, m)
      BY <2>1 DEF Behind, Above, InFlight
    <3> QED BY <3>1 DEF Newer
  <2>2. /\ Behind(Mark(lastSeen[d], copy[d]), inbox[d], outq[d], ver, data)
        /\ \A r \in applying[d] : Behind(r, inbox[d], outq[d], ver, data)
    BY <1>1 DEF OrderInv, Ordered
  <2>3. Mark(lastSeen[d], copy[d]).ver = lastSeen[d]
    BY DEF Mark
  <2> QED BY <2>1, <2>2, <2>3
<1> QED BY <1>1, OrderCorrect, TypeCorrect, PTL

\* A snapshot resource implements MonotonicReplica: through lost messages,
\* dropped sessions and server restarts a device's copy only ever moves to
\* newer content the server really had.
THEOREM SnapshotsNeverGoBack ==
    ASSUME ApplyMode = "snapshot"
    PROVE  Spec => CopyIsMonotonic
<1>1. Init => Replica!Init
  BY DEF Init, Replica!Init
<1>2. ASSUME TypeOK, OrderInv, [Next]_vars PROVE [Replica!Next]_(Replica!vars)
  <2> USE DEF Replica!vars
  <2>1. CASE Write
    BY <2>1 DEF Write, device, Replica!Next, Replica!Write
  <2>2. ASSUME NEW d \in Device, HandleResponse(d)
        PROVE  [Replica!Next]_(Replica!vars)
    <3> DEFINE r == Head(inbox[d])
    <3>1. /\ inbox[d] # <<>> /\ inbox[d] \in Seq(DownMessage)
          /\ copy' = [copy EXCEPT ![d] = r.data] /\ UNCHANGED data
      BY <1>2, <2>2 DEF HandleResponse, server, TypeOK
    <3>2. r = inbox[d][1] /\ 1 \in 1..Len(inbox[d]) /\ r \in DownMessage
      BY <3>1, TailIsSuffix
    <3>3. copy[d] <= r.data
      <4>1. Above(inbox[d], Mark(lastSeen[d], copy[d]))
        BY <1>2 DEF OrderInv, Ordered, Behind
      <4>2. Mark(lastSeen[d], copy[d]).data = copy[d]
        BY DEF Mark
      <4> QED BY <3>2, <4>1, <4>2 DEF Above, Newer
    <3>4. r.data <= data
      <4>1. Within(inbox[d], ver, data)
        BY <1>2 DEF OrderInv, Ordered
      <4>2. AtMost(r, ver, data)
        BY <3>2, <4>1 DEF Within
      <4> QED BY <1>2, <4>2 DEF AtMost, TypeOK
    <3>5. copy \in [Device -> Nat] /\ data \in Nat /\ r.data \in Nat
      BY <1>2, <3>2 DEF TypeOK, DownMessage
    <3> HIDE DEF r
    <3>6. CASE r.data = copy[d]
      BY <3>1, <3>5, <3>6
    <3>7. CASE r.data # copy[d]
      <4>1. r.data \in (copy[d] + 1)..data
        BY <3>3, <3>4, <3>5, <3>7
      <4> QED BY <3>1, <4>1 DEF Replica!Next, Replica!Refresh
    <3> QED BY <3>6, <3>7
  <2>3. ASSUME NEW d \in Device, ApplyMirror(d) PROVE FALSE
    <3>1. \A r \in applying[d] : r.applied
      BY <1>2 DEF OrderInv, Ordered
    <3> QED BY <2>3, <3>1 DEF ApplyMirror
  <2>4. CASE \/ OnDomainEvent \/ Flush \/ HandleUp \/ LinkDown \/ SocketLost
             \/ LinkUp \/ ServerRestart \/ UNCHANGED vars
    BY <2>4 DEF OnDomainEvent, Flush, HandleUp, HandleDeviceConnected,
       HandleDeviceDisconnected, HandleGatewayDisconnected, ServePull, LinkDown,
       SocketLost, LinkUp, ServerRestart, vars, server, device
  <2>5. ASSUME NEW d \in Device,
               \/ Relay(d) \/ HandleHint(d) \/ RecordAuthoritative(d)
               \/ DeviceConnect(d) \/ DeviceDrop(d) \/ PullTimeout(d) \/ Revalidate(d)
        PROVE  UNCHANGED <<data, copy>>
    BY <2>5 DEF Relay, HandleHint, RecordAuthoritative, DeviceConnect, DeviceDrop,
       PullTimeout, Revalidate, server, device
  <2> QED BY <1>2, <2>1, <2>2, <2>3, <2>4, <2>5 DEF Next, DeviceStep
<1> QED BY <1>1, <1>2, OrderCorrect, TypeCorrect, PTL
        DEF Spec, CopyIsMonotonic, Replica!Spec


-----------------------------------------------------------------------------
(* What repairs a copy *)

\* A message of s brings content x.
Carries(s, x) == \E i \in 1..Len(s) : s[i].data = x

\* A pull of d is queued in q.
Pulled(q, d) == \E i \in 1..Len(q) : q[i] = Pull(d)

\* Nothing in q concerns d.
Silent(q, d) == \A i \in 1..Len(q) : ~Concerns(q[i], d)

\* Whatever q says of d, a pull of d comes after it.
Followed(q, d) ==
    \A i \in 1..Len(q) : Concerns(q[i], d) => \E j \in (i + 1)..Len(q) : q[j] = Pull(d)

\* d shows the present content, or something on its way brings it: a pull, a
\* message with it, or a change not yet flushed to a recipient.
Repaired(d) ==
    \/ copy[d] = data
    \/ Pulled(upq, d)
    \/ Carries(outq[d], data)
    \/ Carries(inbox[d], data)
    \/ (unpublished > 0 \/ debounce) /\ d \in connected /\ Silent(upq, d)

RepairInv == \A d \in announced : Followed(upq, d) /\ Repaired(d)

LEMMA TailCarries ==
    ASSUME NEW s \in Seq(DownMessage), s # <<>>, NEW x, Carries(s, x)
    PROVE  Head(s).data = x \/ Carries(Tail(s), x)
<1>1. /\ Len(Tail(s)) = Len(s) - 1 /\ Len(s) \in Nat \ {0} /\ Head(s) = s[1]
      /\ \A i \in 1..Len(Tail(s)) : Tail(s)[i] = s[i + 1]
  OBVIOUS
<1>2. ASSUME NEW i \in 1..Len(s), s[i].data = x, i # 1 PROVE Carries(Tail(s), x)
  <2>1. i - 1 \in 1..Len(Tail(s)) /\ Tail(s)[i - 1] = s[i]
    BY <1>1, <1>2
  <2> QED BY <1>2, <2>1 DEF Carries
<1> QED BY <1>1, <1>2 DEF Carries

LEMMA AppendCarries ==
    ASSUME NEW s \in Seq(DownMessage), NEW m \in DownMessage, NEW x,
           Carries(s, x) \/ m.data = x
    PROVE  Carries(Append(s, m), x)
<1>1. /\ Len(Append(s, m)) = Len(s) + 1 /\ Len(s) \in Nat
      /\ \A i \in 1..Len(s) : Append(s, m)[i] = s[i]
      /\ Append(s, m)[Len(s) + 1] = m
  OBVIOUS
<1> QED BY <1>1 DEF Carries

LEMMA TailUp ==
    ASSUME NEW q \in Seq(UpMessage), q # <<>>, NEW d
    PROVE  /\ Pulled(q, d) => Head(q) = Pull(d) \/ Pulled(Tail(q), d)
           /\ Silent(q, d) => ~Concerns(Head(q), d) /\ Silent(Tail(q), d)
           /\ Followed(q, d) => Followed(Tail(q), d)
           /\ Followed(q, d) /\ Concerns(Head(q), d) => Pulled(Tail(q), d)
<1>1. /\ Len(Tail(q)) = Len(q) - 1 /\ Len(q) \in Nat \ {0} /\ Head(q) = q[1]
      /\ \A i \in 1..Len(Tail(q)) : Tail(q)[i] = q[i + 1]
  OBVIOUS
<1>2. ASSUME NEW i \in 2..Len(q), q[i] = Pull(d) PROVE Pulled(Tail(q), d)
  <2>1. i - 1 \in 1..Len(Tail(q)) /\ Tail(q)[i - 1] = q[i]
    BY <1>1
  <2> QED BY <1>2, <2>1 DEF Pulled
<1>3. Pulled(q, d) => Head(q) = Pull(d) \/ Pulled(Tail(q), d)
  <2> SUFFICES ASSUME NEW i \in 1..Len(q), q[i] = Pull(d), i # 1 PROVE Pulled(Tail(q), d)
    BY <1>1 DEF Pulled
  <2>1. i \in 2..Len(q)
    BY <1>1
  <2> QED BY <1>2, <2>1
<1>4. Silent(q, d) => ~Concerns(Head(q), d) /\ Silent(Tail(q), d)
  BY <1>1 DEF Silent
<1>5. ASSUME Followed(q, d) PROVE Followed(Tail(q), d)
  <2> SUFFICES ASSUME NEW i \in 1..Len(Tail(q)), Concerns(Tail(q)[i], d)
               PROVE  \E j \in (i + 1)..Len(Tail(q)) : Tail(q)[j] = Pull(d)
    BY DEF Followed
  <2>1. i + 1 \in 1..Len(q) /\ Concerns(q[i + 1], d)
    BY <1>1
  <2>2. PICK j \in (i + 2)..Len(q) : q[j] = Pull(d)
    BY <1>5, <2>1, <1>1 DEF Followed
  <2>3. j - 1 \in (i + 1)..Len(Tail(q)) /\ Tail(q)[j - 1] = q[j]
    BY <1>1
  <2> QED BY <2>2, <2>3
<1>6. ASSUME Followed(q, d), Concerns(Head(q), d) PROVE Pulled(Tail(q), d)
  <2>1. 1 \in 1..Len(q) /\ Concerns(q[1], d)
    BY <1>1, <1>6
  <2>2. \E j \in 2..Len(q) : q[j] = Pull(d)
    BY <1>6, <2>1, <1>1 DEF Followed
  <2> QED BY <1>2, <2>2
<1> QED BY <1>3, <1>4, <1>5, <1>6

LEMMA AppendUp ==
    ASSUME NEW q \in Seq(UpMessage), NEW m \in UpMessage, NEW d
    PROVE  /\ Pulled(q, d) \/ m = Pull(d) => Pulled(Append(q, m), d)
           /\ Silent(q, d) /\ ~Concerns(m, d) => Silent(Append(q, m), d)
           /\ Followed(q, d) /\ ~Concerns(m, d) => Followed(Append(q, m), d)
<1>1. /\ Len(Append(q, m)) = Len(q) + 1 /\ Len(q) \in Nat
      /\ \A i \in 1..Len(q) : Append(q, m)[i] = q[i]
      /\ Append(q, m)[Len(q) + 1] = m
  OBVIOUS
<1>2. Pulled(q, d) \/ m = Pull(d) => Pulled(Append(q, m), d)
  BY <1>1 DEF Pulled
<1>3. Silent(q, d) /\ ~Concerns(m, d) => Silent(Append(q, m), d)
  BY <1>1 DEF Silent
<1>4. ASSUME Followed(q, d), ~Concerns(m, d) PROVE Followed(Append(q, m), d)
  <2> SUFFICES ASSUME NEW i \in 1..Len(Append(q, m)), Concerns(Append(q, m)[i], d)
               PROVE  \E j \in (i + 1)..Len(Append(q, m)) : Append(q, m)[j] = Pull(d)
    BY DEF Followed
  <2>1. i \in 1..Len(q) /\ Concerns(q[i], d)
    BY <1>1, <1>4
  <2>2. PICK j \in (i + 1)..Len(q) : q[j] = Pull(d)
    BY <1>4, <2>1 DEF Followed
  <2>3. j \in (i + 1)..Len(Append(q, m)) /\ Append(q, m)[j] = q[j]
    BY <1>1, <2>1
  <2> QED BY <2>2, <2>3
<1> QED BY <1>2, <1>3, <1>4

\* A pull at the end follows everything.
LEMMA PullFollows ==
    ASSUME NEW q \in Seq(UpMessage), NEW d \in Device
    PROVE  Followed(Append(q, Pull(d)), d) /\ Pulled(Append(q, Pull(d)), d)
<1> DEFINE p == Append(q, Pull(d))
<1>1. /\ Len(p) = Len(q) + 1 /\ Len(q) \in Nat /\ p[Len(p)] = Pull(d)
  BY DEF Pull, UpMessage
<1>2. ~Concerns(Pull(d), d)
  BY PullConcernsNobody
<1> HIDE DEF p
<1>3. Followed(p, d)
  <2> SUFFICES ASSUME NEW i \in 1..Len(p), Concerns(p[i], d)
               PROVE  \E j \in (i + 1)..Len(p) : p[j] = Pull(d)
    BY DEF Followed
  <2>1. i # Len(p)
    BY <1>1, <1>2
  <2>2. Len(p) \in (i + 1)..Len(p)
    BY <1>1, <2>1
  <2> QED BY <1>1, <2>2
<1>4. Pulled(p, d)
  BY <1>1 DEF Pulled
<1> QED BY <1>3, <1>4 DEF p

\* An announced device is a recipient for good, or has a pull queued.
LEMMA PullOrRecipient ==
    ASSUME RecipientInv, NEW d \in Device, d \in announced, Followed(upq, d)
    PROVE  Pulled(upq, d) \/ (d \in connected /\ Silent(upq, d))
<1>1. CASE Silent(upq, d)
  BY <1>1 DEF RecipientInv, Settled, Silent
<1>2. CASE ~Silent(upq, d)
  <2>1. PICK i \in 1..Len(upq) : Concerns(upq[i], d)
    BY <1>2 DEF Silent
  <2>2. PICK j \in (i + 1)..Len(upq) : upq[j] = Pull(d)
    BY <2>1 DEF Followed
  <2>3. j \in 1..Len(upq)
    BY <2>1, <2>2
  <2> QED BY <2>2, <2>3 DEF Pulled
<1> QED BY <1>1, <1>2

-----------------------------------------------------------------------------
(* Every step *)

LEMMA RepairStep ==
    ASSUME ApplyMode = "snapshot", "restart" \notin Disturbances, "timeout" \notin Disturbances,
           TypeOK, RecipientInv, OrderInv, FreshHints, RepairInv, [Next]_vars
    PROVE  RepairInv'
<1> USE DEF server, device, gateway
<1>0. /\ upq \in Seq(UpMessage) /\ data \in Nat /\ unpublished \in Nat
      /\ inbox \in [Device -> Seq(DownMessage)] /\ outq \in [Device -> Seq(DownMessage)]
      /\ copy \in [Device -> Nat] /\ ver \in Nat /\ connected \subseteq Device
      /\ registered \in [Device -> BOOLEAN] /\ announced \subseteq Device
      /\ \A d \in announced : link /\ registered[d]
  BY DEF TypeOK, RecipientInv, SessionInv
<1>1. \A d \in announced : Followed(upq, d) /\ Repaired(d)
  BY DEF RepairInv
\* The queues and the content as they were, or a message appended upwards.
<1>2. ASSUME NEW d \in announced,
             upq' = upq \/ \E m \in UpMessage : ~Concerns(m, d) /\ upq' = Append(upq, m),
             UNCHANGED <<data, unpublished, debounce, connected>>,
             copy'[d] = copy[d], outq'[d] = outq[d], inbox'[d] = inbox[d]
      PROVE  Followed(upq', d) /\ Repaired(d)'
  <2>1. /\ Followed(upq', d)
        /\ Pulled(upq, d) => Pulled(upq', d)
        /\ Silent(upq, d) => Silent(upq', d)
    <3>1. CASE upq' = upq
      BY <1>1, <3>1
    <3>2. ASSUME NEW m \in UpMessage, ~Concerns(m, d), upq' = Append(upq, m)
          PROVE  /\ Followed(upq', d)
                 /\ Pulled(upq, d) => Pulled(upq', d)
                 /\ Silent(upq, d) => Silent(upq', d)
      BY <1>0, <1>1, <3>2, AppendUp
    <3> QED BY <1>2, <3>1, <3>2
  <2> QED BY <1>1, <1>2, <2>1 DEF Repaired
<1>3. CASE Write
  <2> SUFFICES ASSUME NEW d \in announced PROVE Followed(upq', d) /\ Repaired(d)'
    BY <1>3 DEF Write, RepairInv
  <2>1. Pulled(upq, d) \/ (d \in connected /\ Silent(upq, d))
    BY <1>0, <1>1, PullOrRecipient
  <2>2. unpublished' > 0 /\ UNCHANGED <<upq, connected>>
    BY <1>0, <1>3 DEF Write
  <2> QED BY <1>1, <2>1, <2>2 DEF Repaired
<1>4. CASE OnDomainEvent
  <2>1. debounce' /\ UNCHANGED <<upq, connected, announced, data, copy, outq, inbox>>
    BY <1>4 DEF OnDomainEvent
  <2> QED BY <1>1, <2>1 DEF RepairInv, Repaired
<1>5. CASE Flush
  <2> SUFFICES ASSUME NEW d \in announced PROVE Followed(upq', d) /\ Repaired(d)'
    BY <1>5 DEF Flush, RepairInv
  <2> DEFINE hint == [type |-> "hint", ver |-> ver + 1, data |-> data]
  <2>1. UNCHANGED <<upq, data, copy, inbox>>
    BY <1>5 DEF Flush
  <2>2. CASE d \in connected
    <3>1. outq'[d] = Append(outq[d], hint)
      BY <1>0, <1>5, <2>2 DEF Flush
    <3>2. hint \in DownMessage /\ hint.data = data /\ outq[d] \in Seq(DownMessage)
      BY <1>0 DEF DownMessage
    <3>3. Carries(outq'[d], data)
      BY <3>1, <3>2, AppendCarries
    <3> QED BY <1>1, <2>1, <3>3 DEF Repaired
  <2>3. CASE d \notin connected
    <3>1. outq'[d] = outq[d]
      BY <1>0, <1>5, <2>3 DEF Flush
    <3> QED BY <1>1, <2>1, <2>3, <3>1 DEF Repaired
  <2> QED BY <2>2, <2>3
<1>6. CASE HandleUp
  <2> SUFFICES ASSUME NEW d \in announced PROVE Followed(upq', d) /\ Repaired(d)'
    BY <1>6 DEF HandleUp, HandleDeviceConnected, HandleDeviceDisconnected,
       HandleGatewayDisconnected, ServePull, RepairInv
  <2>1. upq # <<>> /\ upq' = Tail(upq) /\ UNCHANGED <<data, copy, inbox, unpublished, debounce>>
    BY <1>6 DEF HandleUp, HandleDeviceConnected, HandleDeviceDisconnected,
       HandleGatewayDisconnected, ServePull
  <2>2. /\ Pulled(upq, d) => Head(upq) = Pull(d) \/ Pulled(upq', d)
        /\ Silent(upq, d) => ~Concerns(Head(upq), d) /\ Silent(upq', d)
        /\ Followed(upq', d)
        /\ Concerns(Head(upq), d) => Pulled(upq', d)
    BY <1>0, <1>1, <2>1, TailUp
  <2>3. CASE Head(upq).type = "pull"
    <3>1. ServePull
      BY <1>6, <2>3 DEF HandleUp, HandleDeviceConnected, HandleDeviceDisconnected,
         HandleGatewayDisconnected
    <3> DEFINE response == [type |-> "response", ver |-> ver, data |-> data]
    <3>2. response \in DownMessage /\ response.data = data /\ outq[d] \in Seq(DownMessage)
      BY <1>0 DEF DownMessage
    <3>3. connected' = connected
      BY <3>1 DEF ServePull
    <3>4. CASE Head(upq).dev = d
      <4>1. outq'[d] = Append(outq[d], response)
        BY <1>0, <3>1, <3>4 DEF ServePull
      <4>2. Carries(outq'[d], data)
        BY <3>2, <4>1, AppendCarries
      <4> QED BY <2>1, <2>2, <4>2 DEF Repaired
    <3>5. CASE Head(upq).dev # d
      <4>1. Head(upq) # Pull(d) /\ outq'[d] = outq[d]
        BY <1>0, <3>1, <3>5 DEF ServePull, Pull
      <4> QED BY <1>1, <2>1, <2>2, <3>3, <4>1 DEF Repaired
    <3> QED BY <3>4, <3>5
  <2>4. CASE Head(upq).type # "pull"
    <3>1. outq' = outq /\ Head(upq) # Pull(d)
      BY <1>6, <2>4 DEF HandleUp, HandleDeviceConnected, HandleDeviceDisconnected,
         HandleGatewayDisconnected, ServePull, Pull
    <3>2. ~Concerns(Head(upq), d) => (d \in connected => d \in connected')
      BY <1>6, <2>4 DEF HandleUp, HandleDeviceConnected, HandleDeviceDisconnected,
         HandleGatewayDisconnected, ServePull, Concerns
    <3> QED BY <1>1, <2>1, <2>2, <3>1, <3>2 DEF Repaired
  <2> QED BY <2>3, <2>4
<1>7. CASE LinkDown \/ SocketLost \/ ServerRestart
  BY <1>7 DEF LinkDown, SocketLost, ServerRestart, RepairInv
<1>8. CASE LinkUp
  BY <1>0, <1>8 DEF LinkUp, RepairInv
<1>9. ASSUME NEW e \in Device, Relay(e) PROVE RepairInv'
  <2> SUFFICES ASSUME NEW d \in announced PROVE Followed(upq', d) /\ Repaired(d)'
    BY <1>9 DEF Relay, RepairInv
  <2>1. CASE d # e
    BY <1>0, <1>2, <1>9, <2>1 DEF Relay
  <2>2. CASE d = e
    <3>1. /\ outq[d] # <<>> /\ outq'[d] = Tail(outq[d]) /\ outq[d] \in Seq(DownMessage)
          /\ inbox'[d] = Append(inbox[d], Head(outq[d])) /\ inbox[d] \in Seq(DownMessage)
          /\ UNCHANGED <<upq, data, unpublished, debounce, connected, copy>>
      BY <1>0, <1>9, <2>2 DEF Relay
    <3>2. Carries(outq[d], data) => Head(outq[d]).data = data \/ Carries(outq'[d], data)
      BY <3>1, TailCarries
    <3>3. Head(outq[d]) \in DownMessage
      BY <3>1, TailIsSuffix
    <3>4. Carries(inbox[d], data) \/ Head(outq[d]).data = data => Carries(inbox'[d], data)
      BY <3>1, <3>3, AppendCarries
    <3> QED BY <1>1, <3>1, <3>2, <3>4 DEF Repaired
  <2> QED BY <2>1, <2>2
<1>10. ASSUME NEW e \in Device, HandleHint(e) PROVE RepairInv'
  <2> SUFFICES ASSUME NEW d \in announced PROVE Followed(upq', d) /\ Repaired(d)'
    BY <1>10 DEF HandleHint, RepairInv
  <2>1. Pull(e) \in UpMessage /\ ~Concerns(Pull(e), d)
    BY PullConcernsNobody DEF Pull, UpMessage
  <2>2. CASE d # e
    <3>1. upq' = upq \/ upq' = Append(upq, Pull(e))
      BY <1>10 DEF HandleHint
    <3>2. /\ UNCHANGED <<data, unpublished, debounce, connected>>
          /\ copy'[d] = copy[d] /\ outq'[d] = outq[d] /\ inbox'[d] = inbox[d]
      BY <1>0, <1>10, <2>2 DEF HandleHint
    <3> QED BY <1>2, <2>1, <3>1, <3>2
  <2>3. CASE d = e
    <3>1. inbox[d] # <<>> /\ Head(inbox[d]).type = "hint" /\ inbox[d] \in Seq(DownMessage)
      BY <1>0, <1>10, <2>3 DEF HandleHint
    <3>2. Head(inbox[d]) = inbox[d][1] /\ 1 \in 1..Len(inbox[d]) /\ Head(inbox[d]) \in DownMessage
      BY <3>1, TailIsSuffix
    <3>3. lastSeen[d] < Head(inbox[d]).ver
      <4>1. Head(inbox[d]) \in InFlight(d) /\ d \in Device
        BY <2>3, <3>2 DEF InFlight
      <4> QED BY <3>1, <4>1 DEF FreshHints
    <3>4. ~IsDuplicate(d, Head(inbox[d]))
      BY <3>2, <3>3 DEF IsDuplicate, DownMessage, TypeOK
    <3>5. upq' = Append(upq, Pull(d))
      BY <1>0, <1>10, <2>3, <3>4 DEF HandleHint
    <3> QED BY <1>0, <3>5, PullFollows DEF Repaired
  <2> QED BY <2>2, <2>3
<1>11. ASSUME NEW e \in Device, HandleResponse(e) PROVE RepairInv'
  <2> SUFFICES ASSUME NEW d \in announced PROVE Followed(upq', d) /\ Repaired(d)'
    BY <1>11 DEF HandleResponse, RepairInv
  <2> DEFINE r == Head(inbox[e])
  <2>1. /\ inbox[e] # <<>> /\ inbox[e] \in Seq(DownMessage) /\ inbox' = [inbox EXCEPT ![e] = Tail(@)]
        /\ copy' = [copy EXCEPT ![e] = r.data]
        /\ UNCHANGED <<data, unpublished, debounce, connected, upq, outq>>
    BY <1>0, <1>11 DEF HandleResponse
  <2>2. CASE d # e
    BY <1>0, <1>2, <2>1, <2>2
  <2>3. CASE d = e
    <3>1. r = inbox[d][1] /\ 1 \in 1..Len(inbox[d]) /\ r \in DownMessage
      BY <2>1, <2>3, TailIsSuffix
    <3>2. copy[d] <= r.data
      <4>1. Above(inbox[d], Mark(lastSeen[d], copy[d]))
        BY DEF OrderInv, Ordered, Behind, TypeOK
      <4>2. Mark(lastSeen[d], copy[d]).data = copy[d]
        BY DEF Mark
      <4> QED BY <3>1, <4>1, <4>2 DEF Above, Newer
    <3>3. r.data <= data
      <4>1. Within(inbox[d], ver, data)
        BY DEF OrderInv, Ordered, TypeOK
      <4> QED BY <1>0, <3>1, <4>1 DEF Within, AtMost
    <3>4. copy[d] \in Nat /\ r.data \in Nat /\ copy'[d] = r.data /\ inbox'[d] = Tail(inbox[d])
      BY <1>0, <2>1, <2>3, <3>1 DEF DownMessage
    <3>5. Carries(inbox[d], data) => r.data = data \/ Carries(inbox'[d], data)
      BY <2>1, <2>3, <3>4, TailCarries
    <3> HIDE DEF r
    <3>6. copy[d] = data => copy'[d] = data
      BY <1>0, <3>2, <3>3, <3>4
    <3> QED BY <1>1, <2>1, <3>4, <3>5, <3>6 DEF Repaired
  <2> QED BY <2>2, <2>3
<1>12. ASSUME NEW e \in Device, ApplyMirror(e) PROVE FALSE
  <2>1. \A r \in applying[e] : r.applied
    BY DEF OrderInv, Ordered
  <2> QED BY <1>12, <2>1 DEF ApplyMirror
<1>13. ASSUME NEW e \in Device, RecordAuthoritative(e) PROVE RepairInv'
  <2>1. UNCHANGED <<announced, data, unpublished, debounce, connected, upq, outq, inbox, copy>>
    BY <1>13 DEF RecordAuthoritative
  <2> QED BY <1>1, <2>1 DEF RepairInv, Repaired
<1>14. ASSUME NEW e \in Device, DeviceConnect(e) PROVE RepairInv'
  <2> SUFFICES ASSUME NEW d \in announced' PROVE Followed(upq', d) /\ Repaired(d)'
    BY DEF RepairInv
  <2>1. UNCHANGED <<data, unpublished, debounce, connected, outq, inbox, copy>>
    BY <1>14 DEF DeviceConnect
  <2>2. CASE ~link
    <3>1. announced' = announced
      BY <1>14, <2>2 DEF DeviceConnect
    <3> QED BY <1>0, <2>2, <3>1
  <2>3. CASE link
    <3> DEFINE m == [type |-> "device_connected", dev |-> e]
    <3> DEFINE q == Append(upq, m)
    <3>1. m \in UpMessage /\ Pull(e) \in UpMessage /\ q \in Seq(UpMessage)
      BY <1>0 DEF UpMessage, Pull
    <3>2. upq' = Append(q, Pull(e)) /\ announced' = announced \cup {e}
      <4>1. upq' = upq \o <<m, Pull(e)>> /\ announced' = announced \cup {e}
        BY <1>14, <2>3 DEF DeviceConnect
      <4>2. upq \o <<m, Pull(e)>> = Append(Append(upq, m), Pull(e))
        BY <1>0, <3>1
      <4> QED BY <4>1, <4>2
    <3>3. CASE d = e
      BY <3>1, <3>2, <3>3, PullFollows DEF Repaired
    <3>4. CASE d # e
      <4>1. d \in announced /\ ~Concerns(m, d) /\ ~Concerns(Pull(e), d)
        BY <3>2, <3>4, PullConcernsNobody DEF Concerns
      <4> HIDE DEF m
      <4>2. /\ Followed(q, d)
            /\ Pulled(upq, d) => Pulled(q, d)
            /\ Silent(upq, d) => Silent(q, d)
        BY <1>0, <1>1, <3>1, <4>1, AppendUp
      <4> HIDE DEF q
      <4>3. /\ Followed(upq', d)
            /\ Pulled(q, d) => Pulled(upq', d)
            /\ Silent(q, d) => Silent(upq', d)
        BY <3>1, <3>2, <4>1, <4>2, AppendUp
      <4> QED BY <1>1, <2>1, <4>1, <4>2, <4>3 DEF Repaired
    <3> QED BY <3>3, <3>4
  <2> QED BY <2>2, <2>3
<1>15. ASSUME NEW e \in Device, DeviceDrop(e) PROVE RepairInv'
  <2> SUFFICES ASSUME NEW d \in announced, d # e PROVE Followed(upq', d) /\ Repaired(d)'
    BY <1>15 DEF DeviceDrop, RepairInv
  <2> DEFINE m == [type |-> "device_disconnected", dev |-> e]
  <2>1. m \in UpMessage /\ ~Concerns(m, d)
    BY DEF UpMessage, Concerns
  <2>2. upq' = upq \/ upq' = Append(upq, m)
    BY <1>15 DEF DeviceDrop
  <2>3. /\ UNCHANGED <<data, unpublished, debounce, connected>>
        /\ copy'[d] = copy[d] /\ outq'[d] = outq[d] /\ inbox'[d] = inbox[d]
    BY <1>0, <1>15 DEF DeviceDrop
  <2> HIDE DEF m
  <2> QED BY <1>2, <2>1, <2>2, <2>3
<1>16. ASSUME NEW e \in Device, PullTimeout(e) PROVE FALSE
  BY <1>16 DEF PullTimeout, Disturb
<1>17. ASSUME NEW e \in Device, Revalidate(e) PROVE RepairInv'
  <2> SUFFICES ASSUME NEW d \in announced PROVE Followed(upq', d) /\ Repaired(d)'
    BY <1>17 DEF Revalidate, RepairInv
  <2>1. Pull(e) \in UpMessage /\ ~Concerns(Pull(e), d)
    BY PullConcernsNobody DEF Pull, UpMessage
  <2>2. upq' = upq \/ upq' = Append(upq, Pull(e))
    BY <1>17 DEF Revalidate
  <2>3. UNCHANGED <<data, unpublished, debounce, connected, copy, outq, inbox>>
    BY <1>17 DEF Revalidate
  <2> QED BY <1>2, <2>1, <2>2, <2>3
<1>18. CASE UNCHANGED vars
  BY <1>1, <1>18 DEF vars, RepairInv, Repaired
<1> QED BY <1>3, <1>4, <1>5, <1>6, <1>7, <1>8, <1>9, <1>10, <1>11, <1>12, <1>13, <1>14,
           <1>15, <1>16, <1>17, <1>18 DEF Next, DeviceStep

\* Without restarts and timeouts no update of a snapshot resource is lost: a
\* device the present session was told of shows the content, or something on
\* its way brings it, for any devices, changes, drops and lost sessions
\* (resource_change_broadcaster.py, gateway_notifier.dart).
THEOREM NoUpdateIsLost ==
    ASSUME ApplyMode = "snapshot", "restart" \notin Disturbances, "timeout" \notin Disturbances
    PROVE  Spec => []StaleHasCause
<1>1. Init => RepairInv
  BY DEF Init, RepairInv
<1>2. ASSUME TypeOK, FreshHints, RepairInv PROVE StaleHasCause
  <2> SUFFICES ASSUME NEW d \in announced, copy[d] # data PROVE RepairUnderWay(d)
    BY DEF StaleHasCause
  <2>0. /\ d \in Device /\ outq[d] \in Seq(DownMessage) /\ inbox[d] \in Seq(DownMessage)
        /\ lastSeen[d] \in Int
    BY <1>2 DEF TypeOK, NoVersion
  <2>1. ASSUME NEW m \in InFlight(d), m.data = data PROVE RepairUnderWay(d)
    <3>1. m \in DownMessage
      BY <2>0 DEF InFlight
    <3>2. m.type = "hint" => ~IsDuplicate(d, m)
      <4>1. m.type = "hint" => lastSeen[d] < m.ver
        BY <1>2, <2>0, <2>1 DEF FreshHints
      <4> QED BY <2>0, <3>1, <4>1 DEF IsDuplicate, DownMessage
    <3> QED BY <2>1, <3>2 DEF RepairUnderWay
  <2>2. CASE Carries(outq[d], data) \/ Carries(inbox[d], data)
    BY <2>1, <2>2 DEF Carries, InFlight
  <2>3. CASE Pulled(upq, d)
    BY <2>3 DEF Pulled, RepairUnderWay
  <2>4. CASE (unpublished > 0 \/ debounce) /\ d \in connected /\ Silent(upq, d)
    BY <2>4 DEF RepairUnderWay, IsRecipient, Silent
  <2> QED BY <1>2, <2>2, <2>3, <2>4 DEF RepairInv, Repaired
<1>3. TypeOK /\ RecipientInv /\ OrderInv /\ FreshHints /\ RepairInv /\ [Next]_vars => RepairInv'
  BY RepairStep
<1>4. Spec => []FreshHints
  BY HintsAreFresh
<1> QED BY <1>1, <1>2, <1>3, <1>4, TypeCorrect, RecipientsSettled, OrderCorrect, PTL DEF Spec
=============================================================================
