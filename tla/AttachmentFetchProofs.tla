------------------------ MODULE AttachmentFetchProofs ------------------------
(***************************************************************************)
(* Proofs about AttachmentFetch for any rows, ticks, chunks and bounds:    *)
(* its types, that a ready row has its bytes, and that a call of files.get *)
(* implements FileCall.                                                    *)
(***************************************************************************)
EXTENDS AttachmentFetch, TLAPS

-----------------------------------------------------------------------------
(* Types *)

LEMMA FrameTypes ==
    /\ \A k \in {"ack", "end", "error"} : Response(k) \in Frame
    /\ \A i \in 1..Chunks : Chunk(i) \in Frame
    /\ \A f \in Frame : f.type = "chunk" => f.seq \in 1..Chunks
<1>1. \A k \in {"ack", "end", "error"} : Response(k) \in Frame
    BY DEF Frame
<1>2. \A i \in 1..Chunks : Chunk(i) \in Frame
    BY DEF Frame
<1>3. ASSUME NEW f \in Frame, f.type = "chunk" PROVE f.seq \in 1..Chunks
    <2>1. \A k \in {"ack", "end", "error"} : Response(k).type # "chunk"
        BY DEF Response
    <2>2. PICK i \in 1..Chunks : f = Chunk(i)
        BY <1>3, <2>1 DEF Frame
    <2> QED BY <2>2 DEF Chunk
<1> QED BY <1>1, <1>2, <1>3

LEMMA EmptyType == <<>> \in Seq(Frame) /\ <<>> \in Seq(1..Chunks)
    OBVIOUS

\* What ServeFile puts on the wire.
LEMMA AnswerType ==
    /\ <<Response("error")>> \in Seq(Frame)
    /\ <<Response("ack")>> \o [i \in 1..Chunks |-> Chunk(i)] \o <<Response("end")>>
          \in Seq(Frame)
<1>1. [i \in 1..Chunks |-> Chunk(i)] \in Seq(Frame)
    <2>1. Chunks \in Nat /\ \A i \in 1..Chunks : Chunk(i) \in Frame
        BY ChunkAssumption, FrameTypes
    <2>2. [i \in 1..Chunks |-> Chunk(i)] \in [1..Chunks -> Frame]
        BY <2>1
    <2> QED BY <2>1, <2>2
<1>2. <<Response("ack")>> \in Seq(Frame) /\ <<Response("end")>> \in Seq(Frame)
         /\ <<Response("error")>> \in Seq(Frame)
    BY FrameTypes
<1> QED BY <1>1, <1>2

LEMMA FetchTypeStep == TypeOK /\ [Next]_vars => TypeOK'
<1> SUFFICES ASSUME TypeOK, [Next]_vars PROVE TypeOK'
    OBVIOUS
<1> USE RowAssumption, BoundAssumption DEF TypeOK, Disturb, session
<1>1. ASSUME NEW t \in Tick, StartFetch(t) PROVE TypeOK'
    BY <1>1 DEF StartFetch
<1>2. ASSUME NEW t \in Tick, MarkFetching(t) PROVE TypeOK'
    <2>1. status' \in [Row -> {"absent", "pending", "fetching", "failed", "ready"}]
        BY <1>2 DEF MarkFetching, Mark
    <2> QED BY <1>2, <2>1 DEF MarkFetching
<1>3. ASSUME NEW t \in Tick, SaveBytes(t) PROVE TypeOK'
    BY <1>3 DEF SaveBytes
<1>4. ASSUME NEW t \in Tick, MarkReady(t) PROVE TypeOK'
    <2>1. status' \in [Row -> {"absent", "pending", "fetching", "failed", "ready"}]
        BY <1>4 DEF MarkReady, Mark
    <2>2. target[t] \in Row
        BY <1>4 DEF MarkReady
    <2> QED BY <1>4, <2>1, <2>2 DEF MarkReady
<1>5. ASSUME NEW t \in Tick, MarkFailed(t) PROVE TypeOK'
    <2>1. status' \in [Row -> {"absent", "pending", "fetching", "failed", "ready"}]
        BY <1>5 DEF MarkFailed, Mark
    <2> QED BY <1>5, <2>1 DEF MarkFailed
<1>6. ASSUME NEW t \in Tick, ReceiveChunk(t) PROVE TypeOK'
    <2>1. wire[t] \in Seq(Frame) /\ wire[t] # <<>> /\ Head(wire[t]).type = "chunk"
        BY <1>6 DEF ReceiveChunk, Arrives
    <2>2. Head(wire[t]) \in Frame /\ Tail(wire[t]) \in Seq(Frame)
        BY <2>1
    <2>3. Append(got[t], Head(wire[t]).seq) \in Seq(1..Chunks)
        BY <2>1, <2>2, FrameTypes
    <2> QED BY <1>6, <2>2, <2>3 DEF ReceiveChunk
<1>7. ASSUME NEW t \in Tick, ReceiveResponse(t) PROVE TypeOK'
    <2>1. pc[t] = "waiting" /\ wire[t] \in Seq(Frame) /\ wire[t] # <<>>
        BY <1>7 DEF ReceiveResponse, Arrives
    <2>2. Tail(wire[t]) \in Seq(Frame) /\ <<>> \in Seq(Frame)
        BY <2>1, EmptyType
    <2>3. wire' = [wire EXCEPT ![t] = Tail(wire[t])] \/ wire' = [wire EXCEPT ![t] = <<>>]
        BY <1>7 DEF ReceiveResponse, End
    <2>4. wire' \in [Tick -> Seq(Frame)]
        BY <2>2, <2>3
    <2>5. pc' = pc \/ \E next \in {"saving", "failing"} : pc' = [pc EXCEPT ![t] = next]
        BY <1>7 DEF ReceiveResponse, End
    <2>6. /\ pc' \in [Tick -> {"idle", "marking", "waiting", "saving", "readying", "failing"}]
          /\ \A u \in Tick : pc'[u] = "idle" <=> pc[u] = "idle"
        BY <2>1, <2>5, ZenonT(60)
    <2>7. ackSeen' = [ackSeen EXCEPT ![t] = TRUE] \/ ackSeen' = ackSeen
        BY <1>7 DEF ReceiveResponse
    <2>8. asked' = asked \/ asked' = asked \ {t}
        BY <1>7 DEF ReceiveResponse, End
    <2>9. UNCHANGED <<status, path, files, due, target, got, cleared, resetting, events>>
        BY <1>7 DEF ReceiveResponse
    <2> QED BY <2>4, <2>6, <2>7, <2>8, <2>9
<1>8. ASSUME NEW t \in Tick, ReceiveError(t) PROVE TypeOK'
    BY <1>8 DEF ReceiveError, Arrives, End
<1>9. ASSUME NEW t \in Tick, ServeFile(t) PROVE TypeOK'
    <2>1. PICK w \in Seq(Frame) : wire' = [wire EXCEPT ![t] = w]
        <3>1. CASE cleared
            BY <1>9, <3>1, AnswerType DEF ServeFile
        <3>2. CASE ~cleared
            BY <1>9, <3>2, AnswerType DEF ServeFile
        <3> QED BY <3>1, <3>2
    <2>2. wire' \in [Tick -> Seq(Frame)]
        BY <2>1
    <2> QED BY <1>9, <2>2 DEF ServeFile
<1>10. ASSUME NEW t \in Tick, SessionTimeout(t) PROVE TypeOK'
    BY <1>10 DEF SessionTimeout, End
<1>11. ASSUME NEW t \in Tick, Lose(t) PROVE TypeOK'
    <2>1. wire[t] \in Seq(Frame) /\ (wire[t] # <<>> => Tail(wire[t]) \in Seq(Frame))
        OBVIOUS
    <2>2. CASE asked' = asked \ {t} /\ UNCHANGED wire
        BY <1>11, <2>2 DEF Lose
    <2>3. CASE wire[t] # <<>> /\ wire' = [wire EXCEPT ![t] = Tail(@)] /\ UNCHANGED asked
        <3>1. wire' \in [Tick -> Seq(Frame)]
            BY <2>1, <2>3
        <3> QED BY <1>11, <2>3, <3>1 DEF Lose
    <2> QED BY <1>11, <2>2, <2>3 DEF Lose
<1>12. ASSUME NEW r \in Row, BecomeDue(r) PROVE TypeOK'
    BY <1>12 DEF BecomeDue
<1>13. CASE CancelAll
    <2>1. wire' \in [Tick -> Seq(Frame)]
        BY <1>13, EmptyType DEF CancelAll
    <2>2. pc' \in [Tick -> {"idle", "marking", "waiting", "saving", "readying", "failing"}]
        BY <1>13 DEF CancelAll
    <2>3. \A t \in Tick : target'[t] = NoRow <=> pc'[t] = "idle"
        BY <1>13 DEF CancelAll
    <2> QED BY <1>13, <2>1, <2>2, <2>3 DEF CancelAll
<1>14. CASE ServerClears \/ DeleteFiles \/ DeleteRows
    <2>1. CASE ServerClears
        BY <2>1 DEF ServerClears
    <2>2. CASE DeleteFiles
        BY <2>2 DEF DeleteFiles
    <2>3. CASE DeleteRows
        BY <2>3 DEF DeleteRows
    <2> QED BY <1>14, <2>1, <2>2, <2>3
<1>15. CASE AppKilled
    <2>1. wire' \in [Tick -> Seq(Frame)] /\ got' \in [Tick -> Seq(1..Chunks)]
        BY <1>15, EmptyType DEF AppKilled
    <2>2. /\ pc' \in [Tick -> {"idle", "marking", "waiting", "saving", "readying", "failing"}]
          /\ target' \in [Tick -> Row \cup {NoRow}] /\ ackSeen' \in [Tick -> BOOLEAN]
          /\ \A t \in Tick : target'[t] = NoRow <=> pc'[t] = "idle"
        BY <1>15 DEF AppKilled
    <2>3. resetting' \in {"none", "files", "rows", "again", "done"} /\ events' \in 0..MaxEvents
        BY <1>15 DEF AppKilled
    <2> QED BY <1>15, <2>1, <2>2, <2>3 DEF AppKilled
<1>16. CASE UNCHANGED vars
    BY <1>16 DEF vars
<1> QED BY <1>1, <1>2, <1>3, <1>4, <1>5, <1>6, <1>7, <1>8, <1>9, <1>10, <1>11,
           <1>12, <1>13, <1>14, <1>15, <1>16 DEF Next, TickStep, Receive

LEMMA FetchTypeInit == Init => TypeOK
<1> SUFFICES ASSUME Init PROVE TypeOK
    OBVIOUS
<1>1. wire \in [Tick -> Seq(Frame)] /\ got \in [Tick -> Seq(1..Chunks)]
    BY EmptyType DEF Init
<1>2. /\ pc \in [Tick -> {"idle", "marking", "waiting", "saving", "readying", "failing"}]
      /\ target \in [Tick -> Row \cup {NoRow}] /\ ackSeen \in [Tick -> BOOLEAN]
      /\ \A t \in Tick : target[t] = NoRow <=> pc[t] = "idle"
    BY DEF Init
<1>3. /\ status \in [Row -> {"absent", "pending", "fetching", "failed", "ready"}]
      /\ path \subseteq Row /\ files \subseteq Row /\ due \subseteq Row /\ asked \subseteq Tick
      /\ cleared \in BOOLEAN /\ resetting \in {"none", "files", "rows", "again", "done"}
    BY DEF Init
<1>4. events \in 0..MaxEvents
    BY BoundAssumption DEF Init
<1> QED BY <1>1, <1>2, <1>3, <1>4 DEF TypeOK

\* Rows, ticks, sessions and the wire keep their types, and a tick has a row
\* exactly while it is at work.
THEOREM FetchTypeCorrect == Spec => []TypeOK
<1>1. Init => TypeOK
    BY FetchTypeInit
<1>2. TypeOK /\ [Next]_vars => TypeOK'
    BY FetchTypeStep
<1> QED BY <1>1, <1>2, PTL DEF Spec

-----------------------------------------------------------------------------
(* A ready row has its bytes *)

InReset == resetting \in {"rows", "again"}

\* A row whose bytes a tick is about to declare has them, and after the reset,
\* which only a clear begins, no row is left that could be declared.
BytesInv ==
    /\ ReadyHasBytes
    /\ ~InReset => \A t \in Tick :
          pc[t] = "readying" /\ status[target[t]] # "absent" => target[t] \in files
    /\ resetting = "done" => \A r \in Row : status[r] = "absent"
    /\ ~cleared => resetting = "none"

LEMMA BytesStep ==
    ASSUME TypeOK, BytesInv, [Next]_vars PROVE BytesInv'
<1> USE DEF TypeOK, BytesInv, ReadyHasBytes, InReset, Mark, Disturb, session
<1>1. ASSUME NEW t \in Tick, StartFetch(t) PROVE BytesInv'
    BY <1>1 DEF StartFetch
<1>2. ASSUME NEW t \in Tick, MarkFetching(t) PROVE BytesInv'
    BY <1>2 DEF MarkFetching
<1>3. ASSUME NEW t \in Tick, SaveBytes(t) PROVE BytesInv'
    BY <1>3 DEF SaveBytes
<1>4. ASSUME NEW t \in Tick, MarkReady(t) PROVE BytesInv'
    BY <1>4 DEF MarkReady
<1>5. ASSUME NEW t \in Tick, MarkFailed(t) PROVE BytesInv'
    BY <1>5 DEF MarkFailed
<1>6. ASSUME NEW t \in Tick, Receive(t) \/ SessionTimeout(t) PROVE BytesInv'
    BY <1>6 DEF Receive, ReceiveChunk, ReceiveResponse, ReceiveError, SessionTimeout, End
<1>7. ASSUME NEW t \in Tick, ServeFile(t) \/ Lose(t) PROVE BytesInv'
    BY <1>7 DEF ServeFile, Lose
<1>8. ASSUME NEW r \in Row, BecomeDue(r) PROVE BytesInv'
    BY <1>8 DEF BecomeDue
<1>9. CASE CancelAll
    BY <1>9 DEF CancelAll
<1>10. CASE ServerClears \/ DeleteFiles \/ DeleteRows
    <2>1. CASE ServerClears
        BY <2>1 DEF ServerClears
    <2>2. CASE DeleteFiles
        BY <2>2 DEF DeleteFiles
    <2>3. CASE DeleteRows
        BY <2>3 DEF DeleteRows
    <2> QED BY <1>10, <2>1, <2>2, <2>3
<1>11. CASE AppKilled
    BY <1>11 DEF AppKilled
<1>12. CASE UNCHANGED vars
    BY <1>12 DEF vars
<1> QED BY <1>1, <1>2, <1>3, <1>4, <1>5, <1>6, <1>7, <1>8, <1>9, <1>10, <1>11,
           <1>12 DEF Next, TickStep

\* A row says ready only of bytes that are on disk, outside the deletion of a
\* reset: for any number of rows and of ticks on one row, over restarts,
\* cancellations and resets (attachment_fetch_service.dart _fetchOne).
THEOREM ReadyRowsHaveBytes == Spec => []ReadyHasBytes
<1>1. Init => TypeOK /\ BytesInv
    BY FetchTypeInit DEF Init, BytesInv, ReadyHasBytes, InReset
<1>2. TypeOK /\ BytesInv /\ [Next]_vars => (TypeOK /\ BytesInv)'
    BY FetchTypeStep, BytesStep
<1>3. BytesInv => ReadyHasBytes
    BY DEF BytesInv
<1> QED BY <1>1, <1>2, <1>3, PTL DEF Spec

-----------------------------------------------------------------------------
(* A call is answered once, with the whole file or an error *)

\* Bytes that are being saved have been verified.
VerifiedInv == \A t \in Tick : pc[t] = "saving" => got[t] = Whole

LEMMA VerifiedStep == ASSUME TypeOK, VerifiedInv, [Next]_vars PROVE VerifiedInv'
<1> USE DEF TypeOK, VerifiedInv, Disturb, session
<1>1. ASSUME NEW t \in Tick, ReceiveChunk(t) PROVE VerifiedInv'
    BY <1>1 DEF ReceiveChunk, Arrives
<1>2. ASSUME NEW t \in Tick, ReceiveResponse(t) PROVE VerifiedInv'
    BY <1>2 DEF ReceiveResponse, Verified, End
<1>3. ASSUME NEW t \in Tick, ReceiveError(t) \/ SessionTimeout(t) PROVE VerifiedInv'
    BY <1>3 DEF ReceiveError, SessionTimeout, End
<1>4. ASSUME NEW t \in Tick, StartFetch(t) \/ MarkFetching(t) PROVE VerifiedInv'
    BY <1>4 DEF StartFetch, MarkFetching
<1>5. ASSUME NEW t \in Tick, SaveBytes(t) \/ MarkReady(t) \/ MarkFailed(t) PROVE VerifiedInv'
    BY <1>5 DEF SaveBytes, MarkReady, MarkFailed
<1>6. ASSUME NEW t \in Tick, ServeFile(t) \/ Lose(t) PROVE VerifiedInv'
    BY <1>6 DEF ServeFile, Lose
<1>7. CASE \E r \in Row : BecomeDue(r)
    BY <1>7 DEF BecomeDue
<1>8. CASE CancelAll \/ AppKilled
    BY <1>8 DEF CancelAll, AppKilled
<1>9. CASE ServerClears \/ DeleteFiles \/ DeleteRows
    BY <1>9 DEF ServerClears, DeleteFiles, DeleteRows
<1>10. CASE UNCHANGED vars
    BY <1>10 DEF vars
<1> QED BY <1>1, <1>2, <1>3, <1>4, <1>5, <1>6, <1>7, <1>8, <1>9, <1>10
        DEF Next, TickStep, Receive

\* The caller of the abstract specification that tick t stands for.
calls == [t \in Tick |-> CallOf(t)]

\* A step that leaves pc and the buffers of the calls under way alone is none
\* of the abstract specification.
LEMMA SameCalls ==
    ASSUME UNCHANGED pc, \A t \in Tick : pc[t] = "saving" => got'[t] = got[t]
    PROVE  calls' = calls
<1>1. \A t \in Tick : CallOf(t)' = CallOf(t)
    BY DEF CallOf
<1> QED BY <1>1 DEF calls

LEMMA CallStep ==
    ASSUME TypeOK, VerifiedInv, [Next]_vars PROVE [Call!Next]_(Call!vars)
<1> SUFFICES Call!Next \/ calls' = calls
    BY DEF Call!vars, calls
<1> USE DEF TypeOK, VerifiedInv, Disturb, session
<1>1. ASSUME NEW t \in Tick, StartFetch(t) PROVE calls' = calls
    BY <1>1 DEF StartFetch, CallOf, calls
<1>2. ASSUME NEW t \in Tick, MarkFetching(t) PROVE Call!Ask(t)
    BY <1>2 DEF MarkFetching, Call!Ask, CallOf
<1>3. ASSUME NEW t \in Tick, SaveBytes(t) PROVE Call!Take(t)
    BY <1>3 DEF SaveBytes, Call!Take, CallOf
<1>4. ASSUME NEW t \in Tick, MarkReady(t) PROVE calls' = calls
    BY <1>4 DEF MarkReady, CallOf, calls
<1>5. ASSUME NEW t \in Tick, MarkFailed(t) PROVE Call!Take(t)
    BY <1>5 DEF MarkFailed, Call!Take, CallOf
<1>6. ASSUME NEW t \in Tick, ReceiveChunk(t) PROVE calls' = calls
    BY <1>6, SameCalls DEF ReceiveChunk, Arrives
<1>7. ASSUME NEW t \in Tick, ReceiveResponse(t) PROVE Call!Answer({t}) \/ calls' = calls
    <2>1. CASE ~ackSeen[t]
        BY <1>7, <2>1, SameCalls DEF ReceiveResponse
    <2>2. CASE ackSeen[t]
        <3>1. pc[t] = "waiting" /\ UNCHANGED got
            BY <1>7, <2>2 DEF ReceiveResponse, Arrives
        <3>2. CASE Verified(t)
            <4>1. pc' = [pc EXCEPT ![t] = "saving"] /\ got[t] = Whole
                BY <1>7, <2>2, <3>2 DEF ReceiveResponse, End, Verified
            <4>2. \A c \in Tick : CallOf(c)' = IF c \in {t} THEN "whole" ELSE CallOf(c)
                BY <3>1, <4>1 DEF CallOf, Whole
            <4> QED BY <3>1, <4>2 DEF Call!Answer, CallOf
        <3>3. CASE ~Verified(t)
            <4>1. pc' = [pc EXCEPT ![t] = "failing"]
                BY <1>7, <2>2, <3>3 DEF ReceiveResponse, End
            <4>2. \A c \in Tick : CallOf(c)' = IF c \in {t} THEN "error" ELSE CallOf(c)
                BY <3>1, <4>1 DEF CallOf, Whole
            <4> QED BY <3>1, <4>2 DEF Call!Answer, CallOf
        <3> QED BY <3>2, <3>3
    <2> QED BY <2>1, <2>2
<1>8. ASSUME NEW t \in Tick, ReceiveError(t) \/ SessionTimeout(t) PROVE Call!Answer({t})
    <2>1. /\ pc[t] = "waiting" /\ UNCHANGED got
          /\ pc' = [pc EXCEPT ![t] = "failing"]
        BY <1>8 DEF ReceiveError, SessionTimeout, Arrives, End
    <2>2. \A c \in Tick : CallOf(c)' = IF c \in {t} THEN "error" ELSE CallOf(c)
        BY <2>1 DEF CallOf, Whole
    <2> QED BY <2>1, <2>2 DEF Call!Answer, CallOf
<1>9. ASSUME NEW t \in Tick, ServeFile(t) \/ Lose(t) PROVE calls' = calls
    BY <1>9, SameCalls DEF ServeFile, Lose
<1>10. ASSUME NEW r \in Row, BecomeDue(r) PROVE calls' = calls
    BY <1>10, SameCalls DEF BecomeDue
<1>11. ASSUME CancelAll PROVE Call!Next
    <2> DEFINE S == {t \in Tick : pc[t] = "waiting"}
    <2>1. \A c \in Tick : CallOf(c)' = IF c \in S THEN "error" ELSE CallOf(c)
        BY <1>11 DEF CancelAll, CallOf, Whole
    <2>2. \A c \in S : CallOf(c) = "asking"
        BY DEF CallOf
    <2>3. Call!Answer(S)
        BY <2>1, <2>2 DEF Call!Answer
    <2> QED BY <2>3 DEF Call!Next
<1>12. ASSUME AppKilled PROVE Call!Abandon
    BY <1>12 DEF AppKilled, Call!Abandon, CallOf
<1>13. ASSUME ServerClears \/ DeleteFiles \/ DeleteRows PROVE calls' = calls
    BY <1>13, SameCalls DEF ServerClears, DeleteFiles, DeleteRows
<1>14. ASSUME UNCHANGED vars PROVE calls' = calls
    BY <1>14, SameCalls DEF vars
<1>15. \A t \in Tick : {t} \in SUBSET Tick
    OBVIOUS
<1> QED BY <1>1, <1>2, <1>3, <1>4, <1>5, <1>6, <1>7, <1>8, <1>9, <1>10, <1>11,
           <1>12, <1>13, <1>14, <1>15 DEF Next, TickStep, Receive, Call!Next

\* A call of files.get implements FileCall: it is answered once, with the whole
\* file or an error, whatever is lost, late or cancelled
\* (gateway_request_client.dart filesGet).
THEOREM CallsAreAnsweredOnce == Spec => WholeOrError
<1>1. Init => TypeOK /\ VerifiedInv
    BY FetchTypeInit DEF Init, VerifiedInv
<1>2. TypeOK /\ VerifiedInv /\ [Next]_vars => (TypeOK /\ VerifiedInv)'
    BY FetchTypeStep, VerifiedStep
<1>3. Init => Call!Init
    BY DEF Init, Call!Init, CallOf
<1>4. TypeOK /\ VerifiedInv /\ [Next]_vars => [Call!Next]_(Call!vars)
    BY CallStep
<1> QED BY <1>1, <1>2, <1>3, <1>4, PTL DEF Spec, WholeOrError, Call!Spec
=============================================================================
