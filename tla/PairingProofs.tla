---------------------------- MODULE PairingProofs ----------------------------
(***************************************************************************)
(* Proofs about Pairing, for any attempts, codes, disturbances and bounds: *)
(* its types, that a code pairs one app at most and only an approved one,  *)
(* and that no approval is stranded while the sessions last.               *)
(***************************************************************************)
EXTENDS Pairing, TLAPS

-----------------------------------------------------------------------------
(* Queues *)

LEMMA ElementOf == ASSUME NEW S, NEW q \in Seq(S) PROVE \A i \in 1..Len(q) : q[i] \in S
    OBVIOUS

LEMMA TailOf ==
    ASSUME NEW S, NEW q \in Seq(S), q # <<>>
    PROVE  \A i \in 1..Len(Tail(q)) : i + 1 \in 1..Len(q) /\ Tail(q)[i] = q[i + 1]
    OBVIOUS

LEMMA AppendOf ==
    ASSUME NEW S, NEW q \in Seq(S), NEW e \in S
    PROVE  /\ \A i \in 1..Len(Append(q, e)) :
                 (i \in 1..Len(q) /\ Append(q, e)[i] = q[i]) \/ Append(q, e)[i] = e
           /\ q # <<>> => Append(q, e) # <<>> /\ Head(Append(q, e)) = Head(q)
    OBVIOUS

LEMMA PrefixOf ==
    ASSUME NEW S, NEW q \in Seq(S), NEW n \in 0..Len(q)
    PROVE  /\ \A i \in 1..Len(SubSeq(q, 1, n)) :
                 i \in 1..Len(q) /\ SubSeq(q, 1, n)[i] = q[i]
           /\ n > 0 => SubSeq(q, 1, n) # <<>> /\ Head(SubSeq(q, 1, n)) = Head(q)
    OBVIOUS

-----------------------------------------------------------------------------
(* Types *)

\* A code somebody asks with has been issued.
CodeInv ==
    /\ session <= issued
    /\ \A a \in Attempt : code[a] <= issued

\* The request in hand is the first of the queue, and its row has its code.
HandInv ==
    approving # Nobody =>
        /\ upq # <<>> /\ approving = Head(upq)
        /\ approved[approving] = code[approving] /\ code[approving] # NoCode

LEMMA QueueTypes ==
    ASSUME TypeOK
    PROVE  /\ upq # <<>> => Head(upq) \in Attempt /\ Tail(upq) \in Seq(Attempt)
           /\ downq # <<>> => Head(downq) \in Answer /\ Tail(downq) \in Seq(Answer)
           /\ \A n \in 0..Len(upq) : SubSeq(upq, 1, n) \in Seq(Attempt)
           /\ \A n \in 0..Len(downq) : SubSeq(downq, 1, n) \in Seq(Answer)
           /\ \A a \in Attempt : Append(upq, a) \in Seq(Attempt)
           /\ \A a \in Attempt, s \in {"approved", "rejected"} :
                 Append(downq, [to |-> a, status |-> s]) \in Seq(Answer)
<1>1. upq \in Seq(Attempt) /\ downq \in Seq(Answer)
    BY DEF TypeOK
<1>2. \A n \in 0..Len(upq) : SubSeq(upq, 1, n) \in Seq(Attempt)
    BY <1>1
<1>3. \A n \in 0..Len(downq) : SubSeq(downq, 1, n) \in Seq(Answer)
    BY <1>1
<1>4. \A a \in Attempt, s \in {"approved", "rejected"} : [to |-> a, status |-> s] \in Answer
    BY DEF Answer
<1>5. \A e \in Answer : Append(downq, e) \in Seq(Answer)
    BY <1>1
<1> QED BY <1>1, <1>2, <1>3, <1>4, <1>5

\* The server's steps keep the types.
LEMMA ServerTypes ==
    ASSUME TypeOK, CodeInv, HandInv, IssueCode \/ ServerStep \/ ServerCrash \/ Expire
    PROVE  TypeOK' /\ CodeInv'
<1> USE BoundAssumption DEF TypeOK, CodeInv, Code, NoCode
<1>1. CASE IssueCode
    <2>1. issued' = issued + 1 /\ session' = issued + 1 /\ issued \in Nat /\ issued < MaxCodes
        BY <1>1 DEF IssueCode
    <2>2. code' = code /\ \A a \in Attempt : code[a] \in Nat
        BY <1>1 DEF IssueCode, app
    <2>3. CodeInv'
        BY <2>1, <2>2
    <2>4. issued' \in 0..MaxCodes /\ session' \in Code
        BY <2>1
    <2> QED BY <1>1, <2>3, <2>4 DEF IssueCode, gateway, app
<1>2. CASE RejectRequest
    <2>1. Head(upq) \in Attempt /\ Tail(upq) \in Seq(Attempt)
        BY <1>2, QueueTypes DEF RejectRequest
    <2>2. downq' \in Seq(Answer)
        BY <1>2, <2>1, QueueTypes DEF RejectRequest, SendAnswer
    <2> QED BY <1>2, <2>1, <2>2 DEF RejectRequest, SendAnswer, server, gateway, app
<1>3. CASE ApproveDevice
    <2>1. Head(upq) \in Attempt
        BY <1>3, QueueTypes DEF ApproveDevice
    <2> QED BY <1>3, <2>1 DEF ApproveDevice, gateway, app
<1>4. CASE FinishApproval
    <2>1. approving \in Attempt /\ upq' = Tail(upq)
        BY <1>4 DEF FinishApproval
    <2>2. upq' \in Seq(Attempt)
        BY <2>1, QueueTypes, <1>4 DEF FinishApproval, HandInv
    <2>3. downq' \in Seq(Answer)
        BY <2>1, <1>4, QueueTypes DEF FinishApproval, SendAnswer
    <2>4. session' = 0 /\ issued' = issued /\ code' = code
        BY <1>4 DEF FinishApproval, app
    <2> QED BY <1>4, <2>2, <2>3, <2>4 DEF FinishApproval, gateway, app
<1>5. CASE ServerCrash
    <2>1. downq' \in Seq(Answer)
        BY <1>5, QueueTypes DEF ServerCrash, LoseFrames
    <2> QED BY <1>5, <2>1 DEF ServerCrash, LoseFrames, Disturb, app
<1>6. CASE Expire
    <2>1. session' = 0 /\ issued' = issued /\ code' = code
        BY <1>6 DEF Expire, app
    <2>2. events' \in Nat
        BY <1>6 DEF Expire, Disturb
    <2> QED BY <1>6, <2>1, <2>2 DEF Expire, gateway, app
<1> QED BY <1>1, <1>2, <1>3, <1>4, <1>5, <1>6 DEF ServerStep

\* So do the gateway's, the link's and the apps'.
LEMMA GatewayTypes ==
    ASSUME TypeOK, CodeInv, GatewayStep \/ LinkDown
    PROVE  TypeOK' /\ CodeInv'
<1> USE DEF TypeOK, CodeInv
<1>1. CASE Redial
    BY <1>1 DEF Redial, server, app
<1>2. CASE UnregisterDesktop
    BY <1>2 DEF UnregisterDesktop, server, app
<1>3. CASE IgnoreAnswer
    <2>1. downq' \in Seq(Answer)
        BY <1>3, QueueTypes DEF IgnoreAnswer
    <2> QED BY <1>3, <2>1 DEF IgnoreAnswer, server, gateway, app
<1>4. CASE HandAnswer
    <2>1. Head(downq).to \in Attempt /\ Head(downq).status \in {"none", "approved", "rejected"}
        BY <1>4, QueueTypes DEF HandAnswer, Answer
    <2>2. downq' \in Seq(Answer)
        BY <1>4, QueueTypes DEF HandAnswer
    <2> QED BY <1>4, <2>1, <2>2 DEF HandAnswer, server
<1>5. CASE AnswerClosedSocket
    BY <1>5 DEF AnswerClosedSocket, server, app
<1>6. CASE LinkDown
    <2>1. downq' \in Seq(Answer) /\ upq' \in Seq(Attempt)
        BY <1>6, QueueTypes DEF LinkDown, LoseFrames
    <2> QED BY <1>6, <2>1 DEF LinkDown, LoseFrames, Disturb, server, app
<1> QED BY <1>1, <1>2, <1>3, <1>4, <1>5, <1>6 DEF GatewayStep

LEMMA AppTypes ==
    ASSUME TypeOK, CodeInv, NEW a \in Attempt,
           \/ AppStep(a) \/ GiveUp(a) \/ PairingTimeout(a)
           \/ \E c \in 1..issued : AskRefused(a, c) \/ AskForwarded(a, c)
    PROVE  TypeOK' /\ CodeInv'
<1> USE BoundAssumption DEF TypeOK, CodeInv, Code, NoCode
<1>1. CASE ReadAnswer(a)
    BY <1>1 DEF ReadAnswer, server, gateway
<1>2. CASE SeeClose(a)
    BY <1>2 DEF SeeClose, server, gateway
<1>3. CASE GiveUp(a)
    BY <1>3 DEF GiveUp, Disturb, server
<1>4. CASE PairingTimeout(a)
    BY <1>4 DEF PairingTimeout, Disturb, server, app
<1>5. ASSUME NEW c \in 1..issued, AskRefused(a, c) PROVE TypeOK' /\ CodeInv'
    BY <1>5 DEF AskRefused, Ask, server
<1>6. ASSUME NEW c \in 1..issued, AskForwarded(a, c) PROVE TypeOK' /\ CodeInv'
    <2>1. upq' \in Seq(Attempt)
        <3>1. upq' = Append(upq, a) \/ upq' = upq
            BY <1>6 DEF AskForwarded, Ask
        <3> QED BY <3>1, QueueTypes
    <2>2. events' = events
        BY <1>6 DEF AskForwarded, Ask
    <2>3. code' \in [Attempt -> Code \cup {NoCode}] /\ \A b \in Attempt : code'[b] <= issued
        BY <1>6 DEF AskForwarded, Ask
    <2> QED BY <1>6, <2>1, <2>2, <2>3 DEF AskForwarded, Ask, server
<1> QED BY <1>1, <1>2, <1>3, <1>4, <1>5, <1>6 DEF AppStep

LEMMA TypeStep == TypeOK /\ CodeInv /\ HandInv /\ [Next]_vars => TypeOK' /\ CodeInv'
<1> SUFFICES ASSUME TypeOK, CodeInv, HandInv, [Next]_vars PROVE TypeOK' /\ CodeInv'
    OBVIOUS
<1>1. CASE UNCHANGED vars
    BY <1>1 DEF vars, TypeOK, CodeInv
<1> QED BY <1>1, ServerTypes, GatewayTypes, AppTypes DEF Next

-----------------------------------------------------------------------------
(* What an attempt has been given *)

\* The request in hand stays the first of the queue, and only attempts that
\* have asked are in it; one that has not has no row.
AskedInv ==
    /\ \A i \in 1..Len(upq) : phone[upq[i]] # "idle"
    /\ \A a \in Attempt : phone[a] = "idle" => approved[a] = NoCode

LEMMA HandStep ==
    ASSUME TypeOK, HandInv, AskedInv, [Next]_vars
    PROVE  HandInv' /\ AskedInv'
<1> USE DEF TypeOK, HandInv, AskedInv
<1>1. upq # <<>> => Head(upq) = upq[1] /\ Head(upq) \in Attempt /\ phone[Head(upq)] # "idle"
    OBVIOUS
<1>2. ASSUME upq # <<>>, upq' = Tail(upq), phone' = phone
      PROVE  \A i \in 1..Len(upq') : phone'[upq'[i]] # "idle"
    BY <1>2
<1>3. CASE IssueCode
    BY <1>3 DEF IssueCode, gateway, app
<1>4. CASE RejectRequest
    BY <1>4, <1>2 DEF RejectRequest, server, app
<1>5. CASE ApproveDevice
    BY <1>5, <1>1 DEF ApproveDevice, app
<1>6. CASE FinishApproval
    BY <1>6, <1>2 DEF FinishApproval, app
<1>7. CASE GatewayStep
    BY <1>7 DEF GatewayStep, Redial, UnregisterDesktop, IgnoreAnswer, HandAnswer,
                AnswerClosedSocket, server, gateway, app
<1>8. ASSUME NEW a \in Attempt, AppStep(a) \/ GiveUp(a) \/ PairingTimeout(a)
      PROVE  HandInv' /\ AskedInv'
    BY <1>8 DEF AppStep, ReadAnswer, SeeClose, GiveUp, PairingTimeout, server, gateway, app
<1>9. ASSUME NEW a \in Attempt, NEW c \in 1..issued, AskRefused(a, c) \/ AskForwarded(a, c)
      PROVE  HandInv' /\ AskedInv'
    <2>1. /\ phone[a] = "idle" /\ code' = [code EXCEPT ![a] = c]
          /\ approving' = approving /\ approved' = approved
        BY <1>9 DEF AskRefused, AskForwarded, Ask, server
    <2>2. phone' = [phone EXCEPT ![a] = "failed"] \/ phone' = [phone EXCEPT ![a] = "waiting"]
        BY <1>9 DEF AskRefused, AskForwarded
    <2>3. upq' = upq \/ upq' = Append(upq, a)
        BY <1>9 DEF AskRefused, AskForwarded
    <2>4. \A i \in 1..Len(upq') : (i \in 1..Len(upq) /\ upq'[i] = upq[i]) \/ upq'[i] = a
        <3>1. upq \in Seq(Attempt)
            OBVIOUS
        <3>2. CASE upq' = Append(upq, a)
            BY <3>1, <3>2, AppendOf
        <3> QED BY <2>3, <3>2
    <2>5. \A b \in Attempt : phone[b] # "idle" \/ b = a => phone'[b] # "idle"
        BY <2>2
    <2>6. AskedInv'
        <3>1. \A i \in 1..Len(upq') : upq'[i] \in Attempt
            BY <2>4, ElementOf
        <3> QED BY <2>1, <2>2, <2>4, <2>5, <3>1
    <2>7. upq # <<>> => upq' # <<>> /\ Head(upq') = Head(upq)
        <3>1. upq \in Seq(Attempt)
            OBVIOUS
        <3>2. upq # <<>> => Append(upq, a) # <<>> /\ Head(Append(upq, a)) = Head(upq)
            BY <3>1, AppendOf
        <3> QED BY <2>3, <3>2
    <2>8. approving # Nobody => approving # a /\ upq' # <<>> /\ Head(upq') = Head(upq)
        BY <1>1, <2>1, <2>7
    <2> QED BY <2>1, <2>6, <2>8
<1>10. CASE LinkDown
    <2>1. PICK kept \in 0..Len(upq) :
              (approving # Nobody => kept > 0) /\ upq' = SubSeq(upq, 1, kept)
        BY <1>10 DEF LinkDown
    <2>2. approving # Nobody => upq' # <<>> /\ Head(upq') = Head(upq)
        <3>1. upq \in Seq(Attempt)
            OBVIOUS
        <3>2. kept > 0 => SubSeq(upq, 1, kept) # <<>> /\ Head(SubSeq(upq, 1, kept)) = Head(upq)
            BY <3>1, PrefixOf
        <3> QED BY <2>1, <3>2
    <2>3. \A i \in 1..Len(upq') : i \in 1..Len(upq) /\ upq'[i] = upq[i]
        BY <2>1, PrefixOf
    <2> QED BY <1>10, <2>2, <2>3 DEF LinkDown, server, app
<1>11. CASE ServerCrash
    BY <1>11 DEF ServerCrash, app
<1>12. CASE Expire
    BY <1>12 DEF Expire, gateway, app
<1>13. CASE UNCHANGED vars
    BY <1>13 DEF vars
<1> QED BY <1>3, <1>4, <1>5, <1>6, <1>7, <1>8, <1>9, <1>10, <1>11, <1>12, <1>13
        DEF Next, ServerStep

Approval(a) == [to |-> a, status |-> "approved"]

OnItsWay(a) == \E i \in 1..Len(downq) : downq[i] = Approval(a)

\* a's app is paired, or nothing but the app's reading is between it and that.
Given(a) == phone[a] = "paired" \/ answer[a] = "approved" \/ OnItsWay(a)

\* Approvals come from FinishApproval only.
LEMMA GivenByFinish ==
    ASSUME TypeOK, [Next]_vars, NEW a \in Attempt, Given(a)'
    PROVE  Given(a) \/ (FinishApproval /\ approving = a)
<1> USE DEF TypeOK, Given, OnItsWay, Approval
<1>1. ASSUME downq' = downq \/ \E s \in STRING, b \in Attempt :
                 s # "approved" /\ downq' = Append(downq, [to |-> b, status |-> s])
      PROVE  OnItsWay(a)' => OnItsWay(a)
    <2>1. CASE downq' = downq
        BY <2>1
    <2>2. ASSUME NEW s \in STRING, NEW b \in Attempt, s # "approved",
                 downq' = Append(downq, [to |-> b, status |-> s])
          PROVE  OnItsWay(a)' => OnItsWay(a)
        <3>1. \A i \in 1..Len(downq') :
                  (i \in 1..Len(downq) /\ downq'[i] = downq[i])
                  \/ downq'[i] = [to |-> b, status |-> s]
            BY <2>2, AppendOf
        <3> QED BY <2>2, <3>1
    <2> QED BY <1>1, <2>1, <2>2
<1>2. ASSUME downq # <<>>, downq' = Tail(downq) PROVE OnItsWay(a)' => OnItsWay(a)
    <2>1. \A i \in 1..Len(downq') : i + 1 \in 1..Len(downq) /\ downq'[i] = downq[i + 1]
        BY <1>2
    <2> QED BY <2>1
<1>3. ASSUME NEW kept \in 0..Len(downq), downq' = SubSeq(downq, 1, kept)
      PROVE  OnItsWay(a)' => OnItsWay(a)
    <2>1. \A i \in 1..Len(downq') : i \in 1..Len(downq) /\ downq'[i] = downq[i]
        BY <1>3
    <2> QED BY <2>1
<1>4. CASE IssueCode \/ ApproveDevice \/ Expire
    BY <1>4 DEF IssueCode, ApproveDevice, Expire, gateway, app
<1>5. CASE RejectRequest
    <2>1. Head(upq) \in Attempt
        BY <1>5, QueueTypes DEF RejectRequest
    <2>2. OnItsWay(a)' => OnItsWay(a)
        BY <1>1, <1>5, <2>1 DEF RejectRequest, SendAnswer
    <2> QED BY <1>5, <2>2 DEF RejectRequest, app
<1>6. CASE FinishApproval
    <2>1. CASE downq' = downq
        BY <1>6, <2>1 DEF FinishApproval, app
    <2>2. CASE downq' = Append(downq, Approval(approving))
        <3>1. \A i \in 1..Len(downq') :
                  (i \in 1..Len(downq) /\ downq'[i] = downq[i]) \/ downq'[i] = Approval(approving)
            <4>1. approving \in Attempt /\ Approval(approving) \in Answer
                BY <1>6 DEF FinishApproval, Answer
            <4>2. downq \in Seq(Answer)
                OBVIOUS
            <4> HIDE DEF TypeOK, Approval, OnItsWay, Given
            <4> QED BY <2>2, <4>1, <4>2, AppendOf
        <3>2. Approval(approving) = Approval(a) => approving = a
            <4>1. Approval(approving).to = approving /\ Approval(a).to = a
                BY DEF Approval
            <4> QED BY <4>1
        <3>3. OnItsWay(a)' => OnItsWay(a) \/ approving = a
            <4> HIDE DEF TypeOK, Approval, Given
            <4>1. OnItsWay(a)' => \E i \in 1..Len(downq') : downq'[i] = Approval(a)
                BY DEF Approval
            <4> QED BY <3>1, <3>2, <4>1
        <3> QED BY <1>6, <3>3 DEF FinishApproval, app
    <2> QED BY <1>6, <2>1, <2>2 DEF FinishApproval, SendAnswer
<1>7. CASE Redial \/ UnregisterDesktop
    BY <1>7 DEF Redial, UnregisterDesktop, app
<1>8. CASE IgnoreAnswer
    BY <1>8, <1>2 DEF IgnoreAnswer, app
<1>9. CASE HandAnswer
    <2>1. OnItsWay(a)' => OnItsWay(a)
        BY <1>2, <1>9 DEF HandAnswer
    <2>2. downq[1] = Head(downq) /\ downq[1] \in Answer
        BY <1>9 DEF HandAnswer
    <2>3. answer'[a] = "approved" => answer[a] = "approved" \/ downq[1] = Approval(a)
        BY <1>9, <2>2 DEF HandAnswer, Answer
    <2> QED BY <1>9, <2>1, <2>3 DEF HandAnswer
<1>10. CASE AnswerClosedSocket
    BY <1>10 DEF AnswerClosedSocket, app
<1>11. ASSUME NEW b \in Attempt, AppStep(b) \/ GiveUp(b) \/ PairingTimeout(b)
       PROVE  Given(a)
    BY <1>11 DEF AppStep, ReadAnswer, SeeClose, GiveUp, PairingTimeout, app
<1>12. ASSUME NEW b \in Attempt, NEW c \in 1..issued, AskRefused(b, c) \/ AskForwarded(b, c)
       PROVE  Given(a)
    BY <1>12 DEF AskRefused, AskForwarded, Ask
<1>13. CASE LinkDown \/ ServerCrash
    <2>1. PICK kept \in 0..Len(downq) : downq' = SubSeq(downq, 1, kept)
        BY <1>13 DEF LinkDown, ServerCrash, LoseFrames
    <2>2. OnItsWay(a)' => OnItsWay(a)
        BY <1>3, <2>1
    <2> QED BY <1>13, <2>2 DEF LinkDown, ServerCrash, app
<1>14. CASE UNCHANGED vars
    BY <1>14 DEF vars
<1> QED BY <1>4, <1>5, <1>6, <1>7, <1>8, <1>9, <1>10, <1>11, <1>12, <1>13, <1>14
        DEF Next, ServerStep, GatewayStep

-----------------------------------------------------------------------------
(* Codes *)

\* Who has been given an approval has a row for the code it asked with; that
\* code is consumed, and no request in hand has it.
GivenInv ==
    \A a \in Attempt : Given(a) =>
        /\ phone[a] # "idle"
        /\ approved[a] = code[a] /\ code[a] # NoCode
        /\ code[a] # session
        /\ approving # Nobody => code[a] # code[approving]

\* No two have been given one for the same code.
OnceInv ==
    \A a, b \in Attempt : Given(a) /\ Given(b) /\ code[a] = code[b] => a = b

PairInv == TypeOK /\ CodeInv /\ HandInv /\ AskedInv /\ GivenInv /\ OnceInv

\* An attempt that has asked keeps its code.
LEMMA CodeKept ==
    ASSUME TypeOK, [Next]_vars, NEW a \in Attempt, phone[a] # "idle"
    PROVE  code'[a] = code[a] /\ phone'[a] # "idle"
<1> USE DEF TypeOK
<1>1. CASE IssueCode \/ ServerStep \/ GatewayStep \/ LinkDown \/ ServerCrash \/ Expire
    BY <1>1 DEF IssueCode, ServerStep, RejectRequest, ApproveDevice, FinishApproval, GatewayStep,
                Redial, UnregisterDesktop, IgnoreAnswer, HandAnswer, AnswerClosedSocket,
                LinkDown, ServerCrash, Expire, app
<1>2. ASSUME NEW b \in Attempt, AppStep(b) \/ GiveUp(b) \/ PairingTimeout(b)
      PROVE  code'[a] = code[a] /\ phone'[a] # "idle"
    BY <1>2 DEF AppStep, ReadAnswer, SeeClose, GiveUp, PairingTimeout, app
<1>3. ASSUME NEW b \in Attempt, NEW c \in 1..issued, AskRefused(b, c) \/ AskForwarded(b, c)
      PROVE  code'[a] = code[a] /\ phone'[a] # "idle"
    BY <1>3 DEF AskRefused, AskForwarded, Ask
<1>4. CASE UNCHANGED vars
    BY <1>4 DEF vars
<1> QED BY <1>1, <1>2, <1>3, <1>4 DEF Next

\* What the steps do to the codes that are live, in hand and recorded.
LEMMA LiveCodes ==
    ASSUME TypeOK, CodeInv, HandInv, AskedInv, [Next]_vars
    PROVE  \/ session' \in {session, NoCode} /\ approving' \in {approving, Nobody} /\ approved' = approved
           \/ session' = issued + 1 /\ approving' = approving /\ approved' = approved
           \/ /\ session' = session /\ approving' = Head(upq) /\ upq # <<>>
              /\ code' = code /\ session = code[Head(upq)] /\ approving = Nobody
              /\ approved' = [approved EXCEPT ![Head(upq)] = session]
<1>1. CASE IssueCode \/ ServerStep \/ Expire
    BY <1>1 DEF IssueCode, ServerStep, RejectRequest, ApproveDevice, FinishApproval, Expire,
                server, app
<1>2. CASE GatewayStep \/ LinkDown \/ ServerCrash
    BY <1>2 DEF GatewayStep, Redial, UnregisterDesktop, IgnoreAnswer, HandAnswer,
                AnswerClosedSocket, LinkDown, ServerCrash, server
<1>3. ASSUME NEW b \in Attempt, AppStep(b) \/ GiveUp(b) \/ PairingTimeout(b)
      PROVE  session' = session /\ approving' = approving /\ approved' = approved
    BY <1>3 DEF AppStep, ReadAnswer, SeeClose, GiveUp, PairingTimeout, server
<1>4. ASSUME NEW b \in Attempt, NEW c \in 1..issued, AskRefused(b, c) \/ AskForwarded(b, c)
      PROVE  session' = session /\ approving' = approving /\ approved' = approved
    BY <1>4 DEF AskRefused, AskForwarded, Ask, server
<1>5. CASE UNCHANGED vars
    BY <1>5 DEF vars
<1> QED BY <1>1, <1>2, <1>3, <1>4, <1>5 DEF Next

LEMMA GivenStep == ASSUME PairInv, [Next]_vars PROVE GivenInv'
<1> USE DEF PairInv
<1> SUFFICES ASSUME NEW a \in Attempt, Given(a)'
             PROVE  /\ phone'[a] # "idle"
                    /\ approved'[a] = code'[a] /\ code'[a] # NoCode
                    /\ code'[a] # session'
                    /\ approving' # Nobody => code'[a] # code'[approving']
    BY DEF GivenInv
<1>1. CASE Given(a)
    <2>1. /\ phone[a] # "idle" /\ approved[a] = code[a] /\ code[a] # NoCode
          /\ code[a] # session /\ (approving # Nobody => code[a] # code[approving])
        BY <1>1 DEF GivenInv
    <2>2. code'[a] = code[a] /\ phone'[a] # "idle"
        BY <2>1, CodeKept
    <2>3. code[a] # issued + 1
        BY DEF TypeOK, CodeInv, Code, NoCode
    <2>4. approving # Nobody => approving \in Attempt /\ code'[approving] = code[approving]
        <3>1. approving # Nobody => approving \in Attempt /\ phone[approving] # "idle"
            BY DEF HandInv, AskedInv, TypeOK
        <3> QED BY <3>1, CodeKept
    <2>5. CASE /\ session' \in {session, NoCode} /\ approving' \in {approving, Nobody}
               /\ approved' = approved
        BY <2>1, <2>2, <2>4, <2>5
    <2>6. CASE session' = issued + 1 /\ approving' = approving /\ approved' = approved
        BY <2>1, <2>2, <2>3, <2>4, <2>6
    <2>7. CASE /\ session' = session /\ approving' = Head(upq) /\ upq # <<>>
               /\ code' = code /\ session = code[Head(upq)] /\ approving = Nobody
               /\ approved' = [approved EXCEPT ![Head(upq)] = session]
        BY <2>1, <2>2, <2>7 DEF TypeOK
    <2> QED BY <2>5, <2>6, <2>7, LiveCodes
<1>2. CASE FinishApproval /\ approving = a
    BY <1>2 DEF FinishApproval, HandInv, AskedInv, TypeOK, app, NobodyAssumption
<1> QED BY <1>1, <1>2, GivenByFinish

LEMMA OnceStep == ASSUME PairInv, [Next]_vars PROVE OnceInv'
<1> USE DEF PairInv
<1> SUFFICES ASSUME NEW a \in Attempt, NEW b \in Attempt, Given(a)', Given(b)',
                    code'[a] = code'[b]
             PROVE  a = b
    BY DEF OnceInv
<1>1. CASE FinishApproval
    <2>1. code' = code
        BY <1>1 DEF FinishApproval, app
    <2>2. approving # Nobody
        BY <1>1 DEF FinishApproval
    <2> QED BY <1>1, <2>1, <2>2, GivenByFinish DEF GivenInv, OnceInv
<1>2. CASE ~FinishApproval
    <2>1. Given(a) /\ Given(b)
        BY <1>2, GivenByFinish
    <2>2. code'[a] = code[a] /\ code'[b] = code[b]
        BY <2>1, CodeKept DEF GivenInv
    <2> QED BY <2>1, <2>2 DEF OnceInv
<1> QED BY <1>1, <1>2

LEMMA PairInit == Init => PairInv
<1> SUFFICES ASSUME Init PROVE PairInv
    OBVIOUS
<1>1. TypeOK /\ CodeInv
    BY BoundAssumption DEF Init, TypeOK, CodeInv, Code, NoCode
<1>2. HandInv /\ AskedInv
    BY DEF Init, HandInv, AskedInv
<1>3. \A a \in Attempt : ~Given(a)
    <2>1. \A i \in 1..Len(downq) : FALSE
        <3>1. Len(downq) = 0
            BY DEF Init
        <3> QED BY <3>1
    <2>2. ASSUME NEW a \in Attempt PROVE phone[a] = "idle" /\ answer[a] = "none"
        BY DEF Init
    <2>3. \A a \in Attempt : ~OnItsWay(a)
        BY <2>1 DEF OnItsWay
    <2> QED BY <2>2, <2>3 DEF Given
<1> QED BY <1>1, <1>2, <1>3 DEF PairInv, GivenInv, OnceInv

LEMMA PairStep == PairInv /\ [Next]_vars => PairInv'
    BY TypeStep, HandStep, GivenStep, OnceStep DEF PairInv

\* Every variable of server, gateway and apps keeps its type, for any attempts
\* and codes (relay.py, infra_event_handlers.py, pairing_client.dart).
THEOREM PairingTypeCorrect == Spec => []TypeOK
<1>1. PairInv => TypeOK
    BY DEF PairInv
<1> QED BY <1>1, PairInit, PairStep, PTL DEF Spec

\* A code pairs one app at most, for any number of attempts, codes and
\* disturbances: the code is consumed by the handler that approves, which
\* answers afterwards (infra_event_handlers.py, handle_pairing_request).
THEOREM CodesPairOnce == Spec => []CodePairsOnce
<1>1. PairInv => CodePairsOnce
    BY DEF PairInv, OnceInv, Given, CodePairsOnce
<1> QED BY <1>1, PairInit, PairStep, PTL DEF Spec

\* An app that believes it is paired has a row, written for the code it asked
\* with, though row, code and answer are three steps a crash may separate.
THEOREM PairedAppsAreApproved == Spec => []PairedIsApproved
<1>1. PairInv => PairedIsApproved
    BY DEF PairInv, GivenInv, Given, PairedIsApproved
<1> QED BY <1>1, PairInit, PairStep, PTL DEF Spec

-----------------------------------------------------------------------------
(* Approvals on their way *)

\* An open socket is remembered, and no request was sent in a later session.
SocketInv ==
    \A a \in Attempt :
        /\ socket[a] = "open" => a \in pending
        /\ askedIn[a] <= dialled

LEMMA SocketStep == ASSUME TypeOK, SocketInv, [Next]_vars PROVE SocketInv'
<1> USE DEF TypeOK, SocketInv
<1>1. CASE IssueCode \/ ServerStep \/ LinkDown \/ ServerCrash \/ Expire
    BY <1>1 DEF IssueCode, ServerStep, RejectRequest, ApproveDevice, FinishApproval, LinkDown,
                ServerCrash, Expire, gateway, app
<1>2. CASE Redial \/ UnregisterDesktop \/ IgnoreAnswer
    BY <1>2 DEF Redial, UnregisterDesktop, IgnoreAnswer, gateway, app
<1>3. CASE HandAnswer
    BY <1>3 DEF HandAnswer
<1>4. CASE AnswerClosedSocket
    BY <1>4 DEF AnswerClosedSocket, app
<1>5. ASSUME NEW b \in Attempt, AppStep(b) \/ GiveUp(b) \/ PairingTimeout(b) PROVE SocketInv'
    BY <1>5 DEF AppStep, ReadAnswer, SeeClose, GiveUp, PairingTimeout, gateway, app
<1>6. ASSUME NEW b \in Attempt, NEW c \in 1..issued, AskRefused(b, c) \/ AskForwarded(b, c)
      PROVE  SocketInv'
    <2>1. CASE AskRefused(b, c)
        BY <1>6, <2>1 DEF AskRefused, Ask
    <2>2. CASE AskForwarded(b, c)
        <3>1. /\ pending' = pending \cup {b} /\ dialled' = dialled
              /\ askedIn' = [askedIn EXCEPT ![b] = dialled]
            BY <2>2 DEF AskForwarded, Ask
        <3>2. \A a \in Attempt : socket'[a] = "open" => socket[a] = "open" \/ a = b
            BY <2>2 DEF AskForwarded
        <3> QED BY <3>1, <3>2
    <2> QED BY <1>6, <2>1, <2>2
<1>7. CASE UNCHANGED vars
    BY <1>7 DEF vars
<1> QED BY <1>1, <1>2, <1>3, <1>4, <1>5, <1>6, <1>7 DEF Next, GatewayStep

\* Only a forwarded request begins to be undisturbed, and then it has no row.
LEMMA UndisturbedBefore ==
    ASSUME TypeOK, SocketInv, AskedInv, [Next]_vars, NEW a \in Attempt,
           Undisturbed(a)', approved'[a] # NoCode
    PROVE  Undisturbed(a) /\ ~LinkDown /\ ~ServerCrash /\ ~AnswerClosedSocket /\ ~Redial
<1> USE DEF TypeOK, SocketInv, Undisturbed
<1>1. CASE IssueCode \/ ServerStep \/ Expire
    BY <1>1 DEF IssueCode, ServerStep, RejectRequest, ApproveDevice, FinishApproval, Expire,
                gateway, app, LinkDown, ServerCrash, AnswerClosedSocket, Redial, LoseFrames
<1>2. CASE LinkDown \/ ServerCrash
    BY <1>2 DEF LinkDown, ServerCrash, LoseFrames
<1>3. CASE Redial \/ UnregisterDesktop \/ IgnoreAnswer
    BY <1>3 DEF Redial, UnregisterDesktop, IgnoreAnswer, gateway, app, LinkDown, ServerCrash,
                AnswerClosedSocket, LoseFrames
<1>4. CASE HandAnswer \/ AnswerClosedSocket
    BY <1>4 DEF HandAnswer, AnswerClosedSocket, app, LinkDown, ServerCrash, Redial, LoseFrames
<1>5. ASSUME NEW b \in Attempt, AppStep(b) \/ GiveUp(b) \/ PairingTimeout(b)
      PROVE  Undisturbed(a) /\ ~LinkDown /\ ~ServerCrash /\ ~AnswerClosedSocket /\ ~Redial
    BY <1>5 DEF AppStep, ReadAnswer, SeeClose, GiveUp, PairingTimeout, gateway, app, LinkDown,
                ServerCrash, AnswerClosedSocket, Redial, LoseFrames
<1>6. ASSUME NEW b \in Attempt, NEW c \in 1..issued, AskRefused(b, c) \/ AskForwarded(b, c)
      PROVE  Undisturbed(a) /\ ~LinkDown /\ ~ServerCrash /\ ~AnswerClosedSocket /\ ~Redial
    <2>1. a # b
        BY <1>6 DEF AskRefused, AskForwarded, Ask, AskedInv, server
    <2> QED BY <1>6, <2>1 DEF AskRefused, AskForwarded, Ask, LinkDown, ServerCrash,
                              AnswerClosedSocket, Redial, LoseFrames
<1>7. CASE UNCHANGED vars
    BY <1>7 DEF vars, LinkDown, ServerCrash, AnswerClosedSocket, Redial, LoseFrames
<1> QED BY <1>1, <1>2, <1>3, <1>4, <1>5, <1>6, <1>7 DEF Next, GatewayStep

\* An approval on its way stays so while its attempt is undisturbed.
LEMMA WayKept ==
    ASSUME TypeOK, SocketInv, AskedInv, [Next]_vars, NEW a \in Attempt,
           OnItsWay(a), Undisturbed(a)', approved'[a] # NoCode
    PROVE  OnItsWay(a)'
<1>1. Undisturbed(a) /\ ~LinkDown /\ ~ServerCrash /\ ~AnswerClosedSocket /\ ~Redial
    BY UndisturbedBefore
<1>2. PICK i \in 1..Len(downq) : downq[i] = Approval(a)
    BY DEF OnItsWay
<1>3. downq \in Seq(Answer)
    BY DEF TypeOK
<1>4. ASSUME downq # <<>>, downq' = Tail(downq), Head(downq) # Approval(a) PROVE OnItsWay(a)'
    <2>1. i # 1
        BY <1>2, <1>3, <1>4
    <2>2. i - 1 \in 1..Len(downq') /\ downq'[i - 1] = downq[i]
        BY <1>2, <1>3, <1>4, <2>1
    <2> QED BY <1>2, <2>2 DEF OnItsWay, Approval
<1>5. ASSUME NEW e, downq' = Append(downq, e) PROVE OnItsWay(a)'
    <2>1. i \in 1..Len(downq') /\ downq'[i] = downq[i]
        BY <1>3, <1>5
    <2> QED BY <1>2, <2>1 DEF OnItsWay, Approval
<1>6. ASSUME downq' = downq PROVE OnItsWay(a)'
    BY <1>2, <1>6 DEF OnItsWay, Approval
<1>7. CASE IssueCode \/ ApproveDevice \/ Expire \/ UnregisterDesktop
    BY <1>6, <1>7 DEF IssueCode, ApproveDevice, Expire, UnregisterDesktop
<1>8. CASE RejectRequest \/ FinishApproval
    BY <1>5, <1>6, <1>8 DEF RejectRequest, FinishApproval, SendAnswer
<1>9. CASE IgnoreAnswer
    <2>1. a \in pending
        BY <1>1 DEF Undisturbed, SocketInv
    <2>2. Head(downq) # Approval(a)
        BY <1>9, <2>1 DEF IgnoreAnswer, Approval
    <2> QED BY <1>4, <1>9, <2>2 DEF IgnoreAnswer
<1>10. CASE HandAnswer
    <2>1. Head(downq).to # a
        BY <1>10 DEF HandAnswer, Undisturbed, TypeOK
    <2>2. Head(downq) # Approval(a)
        BY <2>1 DEF Approval
    <2> QED BY <1>4, <1>10, <2>2 DEF HandAnswer
<1>11. ASSUME NEW b \in Attempt, AppStep(b) \/ GiveUp(b) \/ PairingTimeout(b)
       PROVE  OnItsWay(a)'
    BY <1>6, <1>11 DEF AppStep, ReadAnswer, SeeClose, GiveUp, PairingTimeout
<1>12. ASSUME NEW b \in Attempt, NEW c \in 1..issued, AskRefused(b, c) \/ AskForwarded(b, c)
       PROVE  OnItsWay(a)'
    BY <1>6, <1>12 DEF AskRefused, AskForwarded, Ask
<1>13. CASE UNCHANGED vars
    BY <1>6, <1>13 DEF vars
<1> QED BY <1>1, <1>7, <1>8, <1>9, <1>10, <1>11, <1>12, <1>13 DEF Next, ServerStep, GatewayStep

LEMMA WayStep == ASSUME PairInv, SocketInv, ApprovalOnItsWay, [Next]_vars PROVE ApprovalOnItsWay'
<1> USE DEF PairInv
<1> SUFFICES ASSUME NEW a \in Attempt, Undisturbed(a)', approved'[a] # NoCode
             PROVE  approving' = a \/ OnItsWay(a)'
    BY DEF ApprovalOnItsWay, OnItsWay, Approval
<1>1. Undisturbed(a) /\ ~LinkDown /\ ~ServerCrash
    BY UndisturbedBefore
<1>2. CASE ApproveDevice
    <2>1. approved' = [approved EXCEPT ![Head(upq)] = session] /\ approving' = Head(upq)
          /\ approving = Nobody
        BY <1>2 DEF ApproveDevice
    <2>2. CASE approving' # a
        <3>1. approved[a] # NoCode /\ approving # a
            BY <2>1, <2>2, NobodyAssumption DEF TypeOK
        <3> QED BY <1>1, <3>1, WayKept DEF ApprovalOnItsWay, OnItsWay, Approval
    <2> QED BY <2>2
<1>3. CASE FinishApproval
    <2>1. CASE approving = a
        <3>1. downq' = Append(downq, Approval(a))
            BY <1>1, <1>3, <2>1 DEF FinishApproval, SendAnswer, Undisturbed, Approval
        <3>2. Len(downq') \in 1..Len(downq') /\ downq'[Len(downq')] = Approval(a)
            <4>1. downq \in Seq(Answer) /\ Approval(a) \in Answer
                BY DEF TypeOK, Answer, Approval
            <4> QED BY <3>1, <4>1
        <3> QED BY <3>2 DEF OnItsWay, Approval
    <2>2. CASE approving # a
        <3>1. approved[a] # NoCode
            BY <1>3 DEF FinishApproval
        <3> QED BY <1>1, <2>2, <3>1, WayKept DEF ApprovalOnItsWay, OnItsWay, Approval
    <2> QED BY <2>1, <2>2
<1>4. CASE ~ApproveDevice /\ ~FinishApproval
    <2>1. approved' = approved /\ approving' = approving
        <3>1. CASE IssueCode \/ RejectRequest \/ Expire \/ GatewayStep
            BY <3>1 DEF IssueCode, RejectRequest, Expire, GatewayStep, Redial, UnregisterDesktop,
                        IgnoreAnswer, HandAnswer, AnswerClosedSocket, server
        <3>2. ASSUME NEW b \in Attempt, AppStep(b) \/ GiveUp(b) \/ PairingTimeout(b)
              PROVE  approved' = approved /\ approving' = approving
            BY <3>2 DEF AppStep, ReadAnswer, SeeClose, GiveUp, PairingTimeout, server
        <3>3. ASSUME NEW b \in Attempt, NEW c \in 1..issued, AskRefused(b, c) \/ AskForwarded(b, c)
              PROVE  approved' = approved /\ approving' = approving
            BY <3>3 DEF AskRefused, AskForwarded, Ask, server
        <3>4. CASE UNCHANGED vars
            BY <3>4 DEF vars
        <3> QED BY <1>1, <1>4, <3>1, <3>2, <3>3, <3>4 DEF Next, ServerStep
    <2> QED BY <1>1, <2>1, WayKept DEF ApprovalOnItsWay, OnItsWay, Approval
<1> QED BY <1>2, <1>3, <1>4

\* While a's socket and the session its request went to last, an approved
\* request is in the handler's hands or its answer is on the way: no
\* disturbance elsewhere strands it (plugin.py, relay.py).
THEOREM ApprovalsAreNotStranded == Spec => []ApprovalOnItsWay
<1> DEFINE Inv == PairInv /\ SocketInv /\ ApprovalOnItsWay
<1>1. Init => Inv
    BY PairInit DEF Init, SocketInv, ApprovalOnItsWay
<1>2. Inv /\ [Next]_vars => Inv'
    BY PairStep, SocketStep, WayStep DEF PairInv
<1> QED BY <1>1, <1>2, PTL DEF Spec
=============================================================================
