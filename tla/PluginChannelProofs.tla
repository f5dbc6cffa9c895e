------------------------- MODULE PluginChannelProofs -------------------------
(***************************************************************************)
(* Proofs about PluginChannel, for any sockets, disturbances and numbers   *)
(* of messages: its types, that the registry names a connection somebody   *)
(* reads, that a plugin is configured before it is sent anything, and that *)
(* it is stopped only with its channel disabled or its server stopping.    *)
(***************************************************************************)
EXTENDS PluginChannel, TLAPS

-----------------------------------------------------------------------------
(* Frames under way *)

HasStop(q) == \E i \in 1..Len(q) : q[i] = "stop"
HasConfigure(q) == \E i \in 1..Len(q) : q[i] = "configure"

\* In front of every message in q there is a configure, unless s.
Guarded(q, s) ==
    \A i \in 1..Len(q) : q[i] = "send" => s \/ \E j \in 1..(i - 1) : q[j] = "configure"

LEMMA AppendFrame ==
    ASSUME NEW q \in Seq(Frame), NEW f \in Frame
    PROVE  /\ HasStop(Append(q, f)) => HasStop(q) \/ f = "stop"
           /\ HasConfigure(q) \/ f = "configure" => HasConfigure(Append(q, f))
           /\ \A s \in BOOLEAN :
                 Guarded(q, s) /\ (f = "send" => s \/ HasConfigure(q)) => Guarded(Append(q, f), s)
<1>1. /\ Len(Append(q, f)) = Len(q) + 1 /\ Len(q) \in Nat
      /\ \A i \in 1..Len(q) : Append(q, f)[i] = q[i]
      /\ Append(q, f)[Len(q) + 1] = f
    OBVIOUS
<1>2. HasStop(Append(q, f)) => HasStop(q) \/ f = "stop"
    BY <1>1 DEF HasStop
<1>3. HasConfigure(q) \/ f = "configure" => HasConfigure(Append(q, f))
    BY <1>1 DEF HasConfigure
<1>4. ASSUME NEW s \in BOOLEAN, Guarded(q, s), f = "send" => s \/ HasConfigure(q)
      PROVE  Guarded(Append(q, f), s)
    BY <1>1, <1>4 DEF Guarded, HasConfigure
<1> QED BY <1>2, <1>3, <1>4

LEMMA TailFrames ==
    ASSUME NEW q \in Seq(Frame), q # <<>>
    PROVE  /\ Tail(q) \in Seq(Frame) /\ Head(q) \in Frame
           /\ HasStop(Tail(q)) \/ Head(q) = "stop" => HasStop(q)
           /\ HasConfigure(q) => Head(q) = "configure" \/ HasConfigure(Tail(q))
           /\ \A s \in BOOLEAN : Guarded(q, s) => Guarded(Tail(q), s \/ Head(q) = "configure")
<1>1. /\ Len(Tail(q)) = Len(q) - 1 /\ Len(q) \in Nat \ {0}
      /\ \A i \in 1..Len(Tail(q)) : Tail(q)[i] = q[i + 1]
      /\ Head(q) = q[1]
    OBVIOUS
<1>2. HasStop(Tail(q)) \/ Head(q) = "stop" => HasStop(q)
    BY <1>1 DEF HasStop
<1>3. HasConfigure(q) => Head(q) = "configure" \/ HasConfigure(Tail(q))
    <2>1. ASSUME NEW i \in 1..Len(q), q[i] = "configure", i # 1
          PROVE  i - 1 \in 1..Len(Tail(q)) /\ Tail(q)[i - 1] = "configure"
        BY <1>1, <2>1
    <2> QED BY <1>1, <2>1 DEF HasConfigure
<1>4. ASSUME NEW s \in BOOLEAN, Guarded(q, s)
      PROVE  Guarded(Tail(q), s \/ Head(q) = "configure")
    <2> SUFFICES ASSUME NEW i \in 1..Len(Tail(q)), Tail(q)[i] = "send", ~s, Head(q) # "configure"
                 PROVE  \E j \in 1..(i - 1) : Tail(q)[j] = "configure"
        BY DEF Guarded
    <2>1. PICK j \in 1..i : q[j] = "configure"
        BY <1>1, <1>4 DEF Guarded
    <2>2. j # 1
        BY <1>1, <2>1
    <2>3. j - 1 \in 1..(i - 1) /\ Tail(q)[j - 1] = "configure"
        BY <1>1, <2>1, <2>2
    <2> QED BY <2>3
<1> QED BY <1>2, <1>3, <1>4

LEMMA SentFrame ==
    ASSUME TypeOK, NEW c \in Conn, NEW f \in Frame, frames' = Sent(c, f)
    PROVE  /\ frames' \in [Conn -> Seq(Frame)]
           /\ \A d \in Conn : d # c => frames'[d] = frames[d]
           /\ sock[c] = "open" => frames'[c] = Append(frames[c], f)
           /\ sock[c] # "open" => frames'[c] = frames[c]
    BY DEF TypeOK, Sent

LEMMA PeerLost ==
    ASSUME TypeOK, LosePeer
    PROVE  /\ peer' = NoConn /\ started' = FALSE
           /\ plugin' \in {"up", "down"}
           /\ frames' \in [Conn -> Seq(Frame)]
           /\ \A c \in Conn : frames[c] = <<>> => frames'[c] = <<>>
    BY DEF TypeOK, LosePeer

-----------------------------------------------------------------------------
(* Types *)

\* The queue holds messages that were counted.
CountInv == queued <= messages

LEMMA TypeStep == ASSUME TypeOK, CountInv, [Next]_vars PROVE TypeOK' /\ CountInv'
<1> USE NoConnAssumption, BoundAssumption
    DEF TypeOK, CountInv, manager, switch, outbound, process
<1>0. \A f \in {"configure", "stop", "send"} : f \in Frame
    BY DEF Frame
<1>e. ASSUME NEW kind, Disturb(kind) PROVE events' \in 0..MaxEvents
    BY <1>e DEF Disturb
<1>n. [c \in Conn |-> <<>>] \in [Conn -> Seq(Frame)]
    OBVIOUS
<1>1. CASE ReadFrame
    <2>1. frames' \in [Conn -> Seq(Frame)]
        BY <1>1, TailFrames DEF ReadFrame
    <2> QED BY <1>1, <2>1 DEF ReadFrame
<1>2. CASE PluginDrops
    <2>1. /\ peer' = NoConn /\ started' = FALSE /\ plugin' \in {"up", "down"}
          /\ frames' \in [Conn -> Seq(Frame)]
        BY <1>2, PeerLost DEF PluginDrops
    <2>9. events' \in 0..MaxEvents
        BY <1>2, <1>e DEF PluginDrops
    <2>3. UNCHANGED <<manager, switch, outbound>>
        BY <1>2 DEF PluginDrops
    <2> QED BY <2>1, <2>3, <2>9, ZenonT(60)
<1>3. CASE PluginAnswersClose
    <2>1. /\ peer' = NoConn /\ started' = FALSE /\ plugin' \in {"up", "down"}
          /\ frames' \in [Conn -> Seq(Frame)]
        BY <1>3, PeerLost DEF PluginAnswersClose
    <2>2. UNCHANGED <<manager, switch, outbound, events>>
        BY <1>3 DEF PluginAnswersClose
    <2> QED BY <2>1, <2>2, ZenonT(60)
<1>4. CASE PluginCrashes
    <2>1. frames' \in [Conn -> Seq(Frame)]
        BY <1>4 DEF PluginCrashes
    <2>9. events' \in 0..MaxEvents
        BY <1>4, <1>e DEF PluginCrashes
    <2> QED BY <1>4, <2>1, <2>9 DEF PluginCrashes
<1>5. ASSUME NEW c \in Conn, Connect(c) PROVE TypeOK' /\ CountInv'
    <2>1. \A e \in Conn : handler'[e] = "replacing" <=> prev'[e] # NoConn
        BY <1>5 DEF Connect
    <2> QED BY <1>5, <2>1 DEF Connect
<1>6. ASSUME NEW c \in Conn, NoticeClosed(c) PROVE TypeOK' /\ CountInv'
    BY <1>6 DEF NoticeClosed
<1>7. ASSUME NEW c \in Conn, Register(c) PROVE TypeOK' /\ CountInv'
    <2>1. frames' \in [Conn -> Seq(Frame)]
        BY <1>7, <1>0, SentFrame DEF Register, Enter
    <2>2. CASE prev' = prev
        <3>1. registry' \in Conn \cup {NoConn} /\ sock' = sock
            BY <1>7, <2>2 DEF Register, Enter
        <3>2. /\ handler' \in [Conn -> {"none", "accepted", "replacing", "reading", "busy", "done"}]
              /\ \A e \in Conn : handler'[e] = "replacing" <=> prev'[e] # NoConn
            BY <1>7, <2>2 DEF Register, Enter
        <3> QED BY <1>7, <2>1, <2>2, <3>1, <3>2 DEF Register
    <2>3. CASE prev' # prev
        <3>1. /\ registry \in Conn /\ registry' = registry
              /\ sock' \in [Conn -> {"unused", "open", "closing", "closed"}]
              /\ prev' = [prev EXCEPT ![c] = registry]
              /\ handler' = [handler EXCEPT ![c] = "replacing"]
            BY <1>7, <2>3 DEF Register, Closing
        <3>2. \A e \in Conn : handler'[e] = "replacing" <=> prev'[e] # NoConn
            BY <3>1
        <3> QED BY <1>7, <2>1, <3>1, <3>2 DEF Register
    <2> QED BY <2>2, <2>3
<1>8. ASSUME NEW c \in Conn, FinishRegister(c) PROVE TypeOK' /\ CountInv'
    <2>1. frames' \in [Conn -> Seq(Frame)]
        BY <1>8, <1>0, SentFrame DEF FinishRegister, Enter
    <2>2. registry' \in Conn \cup {NoConn} /\ prev' = [prev EXCEPT ![c] = NoConn]
        BY <1>8 DEF FinishRegister, Enter
    <2>3. /\ handler' \in [Conn -> {"none", "accepted", "replacing", "reading", "busy", "done"}]
          /\ \A e \in Conn : handler'[e] = "replacing" <=> prev'[e] # NoConn
        <3>1. \E h \in {"reading", "done"} : handler' = [handler EXCEPT ![c] = h]
            BY <1>8 DEF FinishRegister, Enter
        <3> QED BY <2>2, <3>1
    <2>4. UNCHANGED <<sock, switch, outbound, process, events>>
        BY <1>8 DEF FinishRegister
    <2>5. prev' \in [Conn -> Conn \cup {NoConn}]
        BY <2>2
    <2> QED BY <2>1, <2>2, <2>3, <2>4, <2>5
<1>9. ASSUME NEW c \in Conn, Dispatch(c) \/ DispatchEnds(c) \/ HandlerEnds(c)
      PROVE  TypeOK' /\ CountInv'
    <2>1. CASE Dispatch(c)
        BY <2>1, <1>e DEF Dispatch
    <2>2. CASE DispatchEnds(c)
        BY <2>2 DEF DispatchEnds
    <2>3. CASE HandlerEnds(c)
        BY <2>3 DEF HandlerEnds
    <2> QED BY <1>9, <2>1, <2>2, <2>3
<1>10. CASE Enqueue
    BY <1>10 DEF Enqueue
<1>11. CASE WorkerSends
    <2>1. frames' \in [Conn -> Seq(Frame)]
        BY <1>11, <1>0, SentFrame DEF WorkerSends
    <2> QED BY <1>11, <2>1 DEF WorkerSends
<1>12. CASE WorkerDrained
    BY <1>12 DEF WorkerDrained
<1>13. CASE Deactivate
    <2>1. frames' \in [Conn -> Seq(Frame)]
        BY <1>13, <1>0, SentFrame DEF Deactivate
    <2>2. sock' \in [Conn -> {"unused", "open", "closing", "closed"}]
        BY <1>13 DEF Deactivate, Closing
    <2>9. events' \in 0..MaxEvents
        BY <1>13, <1>e DEF Deactivate
    <2> QED BY <1>13, <2>1, <2>2, <2>9 DEF Deactivate
<1>14. CASE Reap
    <2>1. frames' \in [Conn -> Seq(Frame)]
        BY <1>14 DEF Reap, Killed
    <2> QED BY <1>14, <2>1 DEF Reap, Killed
<1>15. CASE Activate
    <2>1. /\ frames' \in [Conn -> Seq(Frame)] /\ plugin' \in {"up", "stopped", "down"}
          /\ peer' \in Conn \cup {NoConn} /\ started' \in BOOLEAN
        <3>1. CASE UNCHANGED <<process, frames>>
            BY <3>1
        <3>2. CASE /\ plugin' = "up" /\ peer' = NoConn /\ started' = FALSE
                   /\ frames' = [c \in Conn |-> <<>>]
            BY <1>n, <3>2
        <3> QED BY <1>15, <3>1, <3>2 DEF Activate
    <2>9. events' \in 0..MaxEvents
        BY <1>15, <1>e DEF Activate
    <2> QED BY <1>15, <2>1, <2>9 DEF Activate
<1>19. CASE ShutdownChannels
    <2>1. frames' \in [Conn -> Seq(Frame)]
        BY <1>19, <1>0, SentFrame DEF ShutdownChannels
    <2>9. events' \in 0..MaxEvents
        BY <1>19, <1>e DEF ShutdownChannels
    <2> QED BY <1>19, <2>1, <2>9 DEF ShutdownChannels
<1>20. CASE CloseServer
    <2>1. /\ frames' \in [Conn -> Seq(Frame)] /\ plugin' \in {"up", "stopped", "down"}
          /\ peer' \in Conn \cup {NoConn} /\ started' \in BOOLEAN
        <3>1. CASE UNCHANGED <<process, frames>>
            BY <3>1
        <3>2. CASE Killed
            BY <1>n, <3>2 DEF Killed
        <3> QED BY <1>20, <3>1, <3>2 DEF CloseServer
    <2>2. sock' \in [Conn -> {"unused", "open", "closing", "closed"}]
        BY <1>20 DEF CloseServer
    <2> QED BY <1>20, <2>1, <2>2 DEF CloseServer
<1>21. CASE ServerExits
    BY <1>21 DEF ServerExits
<1>16. CASE ServerCrashes
    <2>1. frames' \in [Conn -> Seq(Frame)] /\ peer' = NoConn /\ started' = FALSE
          /\ plugin' \in {"up", "down"}
        BY <1>16, PeerLost DEF ServerCrashes
    <2>2. /\ sock' \in [Conn -> {"unused", "open", "closing", "closed"}]
          /\ handler' \in [Conn -> {"none", "done"}]
          /\ prev' = [c \in Conn |-> NoConn]
        BY <1>16 DEF ServerCrashes
    <2>3. \A c \in Conn : handler'[c] = "replacing" <=> prev'[c] # NoConn
        BY <2>2
    <2>4. /\ registry' = NoConn /\ enabled' = enabled /\ admin' = "idle" /\ victim' = NoConn
          /\ server' = "down"
          /\ queued' = 0 /\ worker' = "idle" /\ draining' = NoConn /\ messages' = messages
        BY <1>16 DEF ServerCrashes
    <2>9. events' \in 0..MaxEvents
        BY <1>16, <1>e DEF ServerCrashes
    <2>10. handler' \in [Conn -> {"none", "accepted", "replacing", "reading", "busy", "done"}]
        BY <2>2
    <2>11. /\ registry' \in Conn \cup {NoConn} /\ victim' \in Conn \cup {NoConn}
           /\ draining' \in Conn \cup {NoConn} /\ peer' \in Conn \cup {NoConn}
           /\ prev' \in [Conn -> Conn \cup {NoConn}]
        BY <2>1, <2>2, <2>4
    <2>12. /\ queued' \in 0..MaxMessages /\ messages' \in 0..MaxMessages /\ queued' <= messages'
        BY <2>4
    <2> HIDE DEF CountInv
    <2>13. enabled' \in BOOLEAN /\ started' \in BOOLEAN /\ plugin' \in {"up", "stopped", "down"}
           /\ admin' \in {"idle", "closing"} /\ worker' \in {"idle", "draining", "dead"}
           /\ server' \in {"running", "stopping", "closing", "down"}
        BY <2>1, <2>4
    <2>14. TypeOK'
        BY ONLY <2>1, <2>2, <2>3, <2>9, <2>10, <2>11, <2>12, <2>13 DEF TypeOK
    <2> QED BY <2>12, <2>14 DEF CountInv
<1>17. CASE ServerBoots
    BY <1>17 DEF ServerBoots
<1>18. CASE UNCHANGED vars
    BY <1>18 DEF vars
<1> QED BY <1>1, <1>2, <1>3, <1>4, <1>5, <1>6, <1>7, <1>8, <1>9, <1>10, <1>11, <1>12, <1>13,
           <1>14, <1>15, <1>16, <1>17, <1>18, <1>19, <1>20, <1>21 DEF Next

-----------------------------------------------------------------------------
(* Sockets, handlers and the entry *)

\* An unused socket has carried nothing; a registration is under way only for
\* the socket the plugin has, or for one it has lost without a successor.
HandlerInv ==
    /\ \A c \in Conn : sock[c] = "unused" => frames[c] = <<>> /\ handler[c] = "none"
    /\ \A c \in Conn : handler[c] \in {"accepted", "replacing"} => peer \in {c, NoConn}

\* Deactivate is still waiting to kill the process, or the server is stopping.
Stopping ==
    \/ admin = "closing" /\ ~enabled
    \/ server \in {"stopping", "closing"}

\* A stop on its way to the process, or read by it, comes from one of the two.
StopInv ==
    plugin = "stopped" \/ (peer # NoConn /\ HasStop(frames[peer])) => Stopping

\* The socket the process has is not closed at the server's end, a process that
\* was told to stop ends with it, and a server that is down has none.
SocketInv ==
    /\ peer # NoConn => sock[peer] \in {"open", "closing"}
    /\ plugin = "stopped" => peer # NoConn
    /\ server = "down" => peer = NoConn

\* Every message has a configure in front of it, and the registered process
\* has one, or has read it.
ConfigureInv ==
    peer # NoConn =>
        /\ Guarded(frames[peer], started)
        /\ registry = peer => started \/ HasConfigure(frames[peer])

ChannelInv ==
    /\ TypeOK /\ CountInv /\ HandlerInv /\ EntryIsLive
    /\ SocketInv /\ StopInv /\ ConfigureInv

LEMMA HandlerStep ==
    ASSUME TypeOK, HandlerInv, EntryIsLive, [Next]_vars
    PROVE  HandlerInv' /\ EntryIsLive'
<1> USE NoConnAssumption DEF HandlerInv, EntryIsLive, manager, switch, outbound, process
<1>t. /\ registry \in Conn \cup {NoConn} /\ peer \in Conn \cup {NoConn}
      /\ sock \in [Conn -> {"unused", "open", "closing", "closed"}]
      /\ handler \in [Conn -> {"none", "accepted", "replacing", "reading", "busy", "done"}]
      /\ prev \in [Conn -> Conn \cup {NoConn}] /\ frames \in [Conn -> Seq(Frame)]
    BY DEF TypeOK
<1>f. "configure" \in Frame /\ "stop" \in Frame /\ "send" \in Frame
    BY DEF Frame
<1>1. CASE ReadFrame
    <2>1. \A c \in Conn : frames[c] = <<>> => frames'[c] = <<>>
        BY <1>1, <1>t DEF ReadFrame
    <2> QED BY <1>1, <1>t, <2>1 DEF ReadFrame
<1>2. CASE PluginDrops \/ PluginAnswersClose
    <2>1. peer' = NoConn /\ \A c \in Conn : frames[c] = <<>> => frames'[c] = <<>>
        BY <1>2, PeerLost DEF PluginDrops, PluginAnswersClose
    <2> QED BY <1>2, <1>t, <2>1 DEF PluginDrops, PluginAnswersClose
<1>3. CASE PluginCrashes \/ Reap
    BY <1>3, <1>t DEF PluginCrashes, Reap, Killed
<1>4. ASSUME NEW c \in Conn, Connect(c) PROVE HandlerInv' /\ EntryIsLive'
    BY <1>4, <1>t DEF Connect
<1>5. ASSUME NEW c \in Conn, NoticeClosed(c) PROVE HandlerInv' /\ EntryIsLive'
    BY <1>5, <1>t DEF NoticeClosed
<1>6. ASSUME NEW c \in Conn, Register(c) PROVE HandlerInv' /\ EntryIsLive'
    <2>1. handler[c] = "accepted" /\ sock[c] # "unused" /\ registry # c /\ peer' = peer
        BY <1>6, <1>t DEF Register
    <2>2. CASE registry' = registry /\ handler' = [handler EXCEPT ![c] = "replacing"]
               /\ registry \in Conn /\ frames' = Sent(registry, "stop") /\ sock' = Closing(registry)
        <3>1. \A d \in Conn : sock'[d] = "unused" => sock[d] = "unused" /\ frames'[d] = frames[d]
            BY <2>2, <1>t DEF Sent, Closing
        <3> QED BY <1>t, <2>1, <2>2, <3>1
    <2>3. CASE Enter(c) /\ sock' = sock
        <3>1. \A d \in Conn : d # c => frames'[d] = frames[d]
            BY <2>3, <1>t, <1>f, SentFrame DEF Enter
        <3> QED BY <1>t, <2>1, <2>3, <3>1 DEF Enter
    <2> QED BY <1>6, <1>t, <2>2, <2>3 DEF Register
<1>7. ASSUME NEW c \in Conn, FinishRegister(c) PROVE HandlerInv' /\ EntryIsLive'
    <2>1. handler[c] = "replacing" /\ sock[c] # "unused" /\ registry # c
          /\ peer' = peer /\ sock' = sock /\ Enter(c)
        BY <1>7, <1>t DEF FinishRegister
    <2>2. \A d \in Conn : d # c => frames'[d] = frames[d]
        BY <2>1, <1>t, <1>f, SentFrame DEF Enter
    <2> QED BY <1>t, <2>1, <2>2 DEF Enter
<1>8. ASSUME NEW c \in Conn, Dispatch(c) \/ DispatchEnds(c) \/ HandlerEnds(c)
      PROVE  HandlerInv' /\ EntryIsLive'
    BY <1>8, <1>t DEF Dispatch, DispatchEnds, HandlerEnds
<1>9. CASE Enqueue \/ WorkerDrained \/ Activate \/ ServerBoots \/ ServerExits
    BY <1>9, <1>t DEF Enqueue, WorkerDrained, Activate, ServerBoots, ServerExits
<1>14. CASE ShutdownChannels
    <2>1. \A d \in Conn : sock[d] = "unused" => frames'[d] = frames[d]
        BY <1>14, <1>t DEF ShutdownChannels, Sent
    <2> QED BY <1>14, <1>t, <2>1 DEF ShutdownChannels
<1>15. CASE CloseServer
    <2>1. /\ \A d \in Conn : sock'[d] = "unused" => sock[d] = "unused"
          /\ peer' \in {peer, NoConn}
          /\ \A d \in Conn : frames[d] = <<>> => frames'[d] = <<>>
        BY <1>15, <1>t DEF CloseServer, Killed
    <2> QED BY <1>15, <1>t, <2>1 DEF CloseServer
<1>10. CASE WorkerSends
    <2>1. \A d \in Conn : sock[d] = "unused" => frames'[d] = frames[d]
        BY <1>10, <1>t DEF WorkerSends, Sent
    <2> QED BY <1>10, <1>t, <2>1 DEF WorkerSends
<1>11. CASE Deactivate
    <2>1. \A d \in Conn : sock'[d] = "unused" => sock[d] = "unused" /\ frames'[d] = frames[d]
        BY <1>11, <1>t DEF Deactivate, Sent, Closing
    <2> QED BY <1>11, <1>t, <2>1 DEF Deactivate
<1>12. CASE ServerCrashes
    <2>1. peer' = NoConn /\ \A c \in Conn : frames[c] = <<>> => frames'[c] = <<>>
        BY <1>12, PeerLost DEF ServerCrashes
    <2> QED BY <1>12, <1>t, <2>1 DEF ServerCrashes
<1>13. CASE UNCHANGED vars
    BY <1>13 DEF vars
<1> QED BY <1>1, <1>2, <1>3, <1>4, <1>5, <1>6, <1>7, <1>8, <1>9, <1>10, <1>11, <1>12, <1>13,
           <1>14, <1>15 DEF Next

LEMMA SocketStep ==
    ASSUME TypeOK, HandlerInv, SocketInv, [Next]_vars PROVE SocketInv'
<1> USE NoConnAssumption DEF SocketInv, manager, switch, outbound, process
<1>t. /\ registry \in Conn \cup {NoConn} /\ peer \in Conn \cup {NoConn}
      /\ sock \in [Conn -> {"unused", "open", "closing", "closed"}]
    BY DEF TypeOK
<1>1. CASE ReadFrame
    BY <1>1, <1>t DEF ReadFrame
<1>2. CASE PluginDrops \/ PluginAnswersClose
    BY <1>2, PeerLost DEF PluginDrops, PluginAnswersClose
<1>3. CASE PluginCrashes \/ Reap
    BY <1>3 DEF PluginCrashes, Reap, Killed
<1>4. ASSUME NEW c \in Conn, Connect(c) PROVE SocketInv'
    BY <1>4, <1>t DEF Connect
<1>5. ASSUME NEW c \in Conn, NoticeClosed(c) PROVE SocketInv'
    BY <1>5, <1>t DEF NoticeClosed
<1>6. ASSUME NEW c \in Conn, Register(c) PROVE SocketInv'
    <2>1. \A d \in Conn : sock'[d] = sock[d] \/ (sock[d] = "open" /\ sock'[d] = "closing")
        BY <1>6, <1>t DEF Register, Closing
    <2> QED BY <1>6, <1>t, <2>1 DEF Register
<1>7. ASSUME NEW c \in Conn,
             FinishRegister(c) \/ Dispatch(c) \/ DispatchEnds(c) \/ HandlerEnds(c)
      PROVE  SocketInv'
    BY <1>7 DEF FinishRegister, Dispatch, DispatchEnds, HandlerEnds
<1>8. CASE Enqueue \/ WorkerSends \/ WorkerDrained
    BY <1>8 DEF Enqueue, WorkerSends, WorkerDrained
<1>9. CASE Deactivate
    <2>1. \A d \in Conn : sock'[d] = sock[d] \/ (sock[d] = "open" /\ sock'[d] = "closing")
        BY <1>9, <1>t DEF Deactivate, Closing
    <2> QED BY <1>9, <1>t, <2>1 DEF Deactivate
<1>10. CASE Activate \/ ShutdownChannels
    BY <1>10 DEF Activate, ShutdownChannels
<1>11. CASE CloseServer
    BY <1>11, <1>t DEF CloseServer, Killed
<1>12. CASE ServerExits
    BY <1>12, <1>t DEF ServerExits
<1>13. CASE ServerCrashes
    BY <1>13, PeerLost DEF ServerCrashes
<1>14. CASE ServerBoots
    BY <1>14 DEF ServerBoots
<1>15. CASE UNCHANGED vars
    BY <1>15 DEF vars
<1> QED BY <1>1, <1>2, <1>3, <1>4, <1>5, <1>6, <1>7, <1>8, <1>9, <1>10, <1>11, <1>12, <1>13,
           <1>14, <1>15 DEF Next

-----------------------------------------------------------------------------
(* Frames *)

\* A step that leaves the process, its socket and what is under way to it
\* alone disturbs neither invariant, if it neither names a new socket in the
\* registry nor ends a stop.
LEMMA QuietStep ==
    ASSUME StopInv, ConfigureInv,
           plugin' = plugin \/ plugin' # "stopped", peer' = peer, started' = started,
           peer # NoConn => frames'[peer] = frames[peer],
           registry' \in {registry, NoConn},
           Stopping => Stopping'
    PROVE  StopInv' /\ ConfigureInv'
<1>1. StopInv'
    BY DEF StopInv
<1>2. ConfigureInv'
    BY DEF ConfigureInv
<1> QED BY <1>1, <1>2

\* Without a socket there is nothing under way.
LEMMA AloneStep ==
    ASSUME StopInv, peer' = NoConn, plugin' # "stopped"
    PROVE  StopInv' /\ ConfigureInv'
BY DEF StopInv, ConfigureInv

\* The configure of a registration is the first frame its socket carries; no
\* message precedes it.
LEMMA EnterStep ==
    ASSUME TypeOK, StopInv, ConfigureInv, NEW c \in Conn, Enter(c), peer \in {c, NoConn},
           UNCHANGED <<plugin, peer, started, admin, enabled, server>>
    PROVE  StopInv' /\ ConfigureInv'
<1> USE NoConnAssumption
<1>s. Stopping' = Stopping
    BY DEF Stopping
<1>1. "configure" \in Frame /\ started \in BOOLEAN /\ frames \in [Conn -> Seq(Frame)]
    BY DEF TypeOK, Frame
<1>2. CASE sock[c] = "open" /\ peer = c
    <2>1. frames'[c] = Append(frames[c], "configure")
        BY <1>1, <1>2, SentFrame DEF Enter
    <2>2. /\ HasStop(frames'[c]) => HasStop(frames[c])
          /\ HasConfigure(frames'[c])
          /\ Guarded(frames[c], started) => Guarded(frames'[c], started)
        BY <1>1, <2>1, AppendFrame
    <2>3. StopInv'
        BY <1>2, <1>s, <2>2 DEF StopInv
    <2>4. ConfigureInv'
        BY <1>2, <2>2 DEF ConfigureInv
    <2> QED BY <2>3, <2>4
<1>3. CASE sock[c] # "open"
    BY <1>3, <1>s, QuietStep DEF Enter
<1>4. CASE peer = NoConn
    BY <1>4, <1>s DEF StopInv, ConfigureInv
<1> QED BY <1>2, <1>3, <1>4

LEMMA FrameStep ==
    ASSUME TypeOK, HandlerInv, EntryIsLive, SocketInv, StopInv, ConfigureInv,
           [Next]_vars
    PROVE  StopInv' /\ ConfigureInv'
<1> USE NoConnAssumption DEF manager, switch, outbound, process
<1>t. /\ registry \in Conn \cup {NoConn} /\ peer \in Conn \cup {NoConn}
      /\ handler \in [Conn -> {"none", "accepted", "replacing", "reading", "busy", "done"}]
      /\ frames \in [Conn -> Seq(Frame)] /\ started \in BOOLEAN
      /\ plugin \in {"up", "stopped", "down"}
    BY DEF TypeOK
<1>f. "configure" \in Frame /\ "stop" \in Frame /\ "send" \in Frame
    BY DEF Frame
<1>1. CASE ReadFrame
    <2> DEFINE q == frames[peer]
    <2>1. /\ q \in Seq(Frame) /\ q # <<>> /\ peer \in Conn /\ peer' = peer
          /\ frames'[peer] = Tail(q) /\ registry' = registry
          /\ Stopping' = Stopping
          /\ plugin' = IF Head(q) = "stop" THEN "stopped" ELSE plugin
          /\ started' = (started \/ Head(q) = "configure")
        BY <1>1, <1>t DEF ReadFrame, Stopping
    <2>2. /\ HasStop(Tail(q)) \/ Head(q) = "stop" => HasStop(q)
          /\ HasConfigure(q) => Head(q) = "configure" \/ HasConfigure(Tail(q))
          /\ Guarded(q, started) => Guarded(Tail(q), started \/ Head(q) = "configure")
        BY <1>t, <2>1, TailFrames
    <2> HIDE DEF q
    <2>3. StopInv'
        BY <2>1, <2>2 DEF StopInv, q
    <2>4. ConfigureInv'
        BY <2>1, <2>2, <1>t DEF ConfigureInv, q
    <2> QED BY <2>3, <2>4
<1>2. CASE PluginDrops \/ PluginAnswersClose \/ ServerCrashes
    BY <1>2, PeerLost, AloneStep DEF PluginDrops, PluginAnswersClose, ServerCrashes
<1>3. CASE PluginCrashes \/ Reap
    BY <1>3, AloneStep DEF PluginCrashes, Reap, Killed
<1>4. ASSUME NEW c \in Conn, Connect(c) PROVE StopInv' /\ ConfigureInv'
    <2>1. frames'[c] = <<>> /\ peer' = c /\ registry' # c /\ plugin' # "stopped"
        BY <1>4 DEF Connect, HandlerInv, EntryIsLive
    <2>2. ~HasStop(<<>>) /\ \A s \in BOOLEAN : Guarded(<<>>, s)
        BY DEF HasStop, Guarded
    <2>3. started' \in BOOLEAN
        BY <1>4, <1>t DEF Connect
    <2> QED BY <2>1, <2>2, <2>3 DEF StopInv, ConfigureInv
<1>5. ASSUME NEW c \in Conn, Register(c) PROVE StopInv' /\ ConfigureInv'
    <2>1. handler[c] = "accepted" /\ registry # c /\ peer \in {c, NoConn}
          /\ UNCHANGED <<plugin, peer, started, admin, enabled, server>>
        BY <1>5 DEF Register, HandlerInv, EntryIsLive
    <2>2. CASE registry' = registry /\ registry \in Conn /\ frames' = Sent(registry, "stop")
        <3>1. peer # NoConn => frames'[peer] = frames[peer]
            BY <2>1, <2>2, <1>f, SentFrame
        <3> QED BY <2>1, <2>2, <3>1, QuietStep DEF Stopping
    <2>3. CASE Enter(c)
        BY <2>1, <2>3, EnterStep
    <2> QED BY <1>5, <1>t, <2>2, <2>3 DEF Register
<1>6. ASSUME NEW c \in Conn, FinishRegister(c) PROVE StopInv' /\ ConfigureInv'
    <2>1. peer \in {c, NoConn} /\ Enter(c) /\ UNCHANGED <<plugin, peer, started, admin, enabled, server>>
        BY <1>6 DEF FinishRegister, HandlerInv
    <2> QED BY <2>1, EnterStep
<1>7. ASSUME NEW c \in Conn,
             NoticeClosed(c) \/ Dispatch(c) \/ DispatchEnds(c) \/ HandlerEnds(c)
      PROVE  StopInv' /\ ConfigureInv'
    BY <1>7, QuietStep DEF NoticeClosed, Dispatch, DispatchEnds, HandlerEnds, Stopping
<1>8. CASE Enqueue \/ WorkerDrained
    BY <1>8, QuietStep DEF Enqueue, WorkerDrained, Stopping
<1>9. CASE Activate
    <2>1. CASE enabled /\ plugin # "down"
        BY <1>9, <2>1, QuietStep DEF Activate, Stopping
    <2>2. CASE ~(enabled /\ plugin # "down")
        BY <1>9, <2>2, AloneStep DEF Activate
    <2> QED BY <2>1, <2>2
<1>10. CASE ServerBoots \/ ServerExits
    <2>1. peer' = NoConn /\ plugin' # "stopped"
        BY <1>10, <1>t DEF ServerBoots, ServerExits, SocketInv
    <2> QED BY <2>1, AloneStep
<1>14. CASE CloseServer
    <2>1. CASE Killed
        BY <2>1, AloneStep DEF Killed
    <2>2. CASE UNCHANGED <<process, frames>>
        BY <1>14, <2>2, QuietStep DEF CloseServer, Stopping
    <2> QED BY <1>14, <2>1, <2>2 DEF CloseServer
<1>15. CASE ShutdownChannels
    <2>1. /\ Stopping' /\ registry' = registry
          /\ UNCHANGED <<plugin, peer, started>>
        BY <1>15 DEF ShutdownChannels, Stopping
    <2>2. CASE peer # NoConn /\ frames'[peer] # frames[peer]
        <3>1. /\ peer \in Conn /\ frames[peer] \in Seq(Frame)
              /\ frames'[peer] = Append(frames[peer], "stop")
            BY <1>15, <2>2, <1>t, <1>f, SentFrame DEF ShutdownChannels
        <3>2. /\ Guarded(frames[peer], started) => Guarded(frames'[peer], started)
              /\ HasConfigure(frames[peer]) => HasConfigure(frames'[peer])
            BY <3>1, <1>t, <1>f, AppendFrame
        <3> QED BY <2>1, <3>2 DEF StopInv, ConfigureInv
    <2>3. CASE peer = NoConn \/ frames'[peer] = frames[peer]
        BY <2>1, <2>3 DEF StopInv, ConfigureInv
    <2> QED BY <2>2, <2>3
<1>11. CASE WorkerSends
    <2>1. UNCHANGED <<registry, plugin, peer, started>> /\ Stopping' = Stopping
        BY <1>11 DEF WorkerSends, Stopping
    <2>2. CASE peer # NoConn /\ frames'[peer] # frames[peer]
        <3>1. registry \in Conn /\ peer = registry /\ frames' = Sent(registry, "send")
            BY <1>11, <2>2, <1>t, <1>f, SentFrame DEF WorkerSends
        <3>2. frames'[peer] = Append(frames[peer], "send")
            BY <3>1, <2>2, <1>f, SentFrame
        <3>3. started \/ HasConfigure(frames[peer])
            BY <2>2, <3>1 DEF ConfigureInv
        <3>4. /\ HasStop(frames'[peer]) => HasStop(frames[peer])
              /\ HasConfigure(frames[peer]) => HasConfigure(frames'[peer])
              /\ Guarded(frames[peer], started) => Guarded(frames'[peer], started)
            <4>1. frames[peer] \in Seq(Frame)
                BY <3>1, <1>t
            <4> QED BY <4>1, <3>2, <3>3, <1>t, <1>f, AppendFrame
        <3> QED BY <2>1, <3>4 DEF StopInv, ConfigureInv
    <2> QED BY <2>1, <2>2, QuietStep
<1>12. CASE Deactivate
    <2>1. Stopping' /\ registry' = NoConn /\ UNCHANGED <<plugin, peer, started>>
        BY <1>12 DEF Deactivate, Stopping
    <2>2. StopInv'
        BY <2>1 DEF StopInv
    <2>3. ConfigureInv'
        <3>1. CASE peer # NoConn /\ frames'[peer] # frames[peer]
            <4>1. peer \in Conn /\ frames'[peer] = Append(frames[peer], "stop")
                BY <1>12, <3>1, <1>t, <1>f, SentFrame DEF Deactivate
            <4>2. Guarded(frames[peer], started) => Guarded(frames'[peer], started)
                BY <4>1, <1>t, <1>f, AppendFrame
            <4> QED BY <2>1, <4>2 DEF ConfigureInv
        <3>2. CASE peer = NoConn \/ frames'[peer] = frames[peer]
            BY <2>1, <3>2 DEF ConfigureInv
        <3> QED BY <3>1, <3>2
    <2> QED BY <2>2, <2>3
<1>13. CASE UNCHANGED vars
    BY <1>13, QuietStep DEF vars, Stopping
<1> QED BY <1>1, <1>2, <1>3, <1>4, <1>5, <1>6, <1>7, <1>8, <1>9, <1>10, <1>11, <1>12, <1>13,
           <1>14, <1>15 DEF Next

-----------------------------------------------------------------------------
(* Theorems *)

LEMMA ChannelInit == Init => ChannelInv
<1> SUFFICES ASSUME Init PROVE ChannelInv
    OBVIOUS
<1> USE NoConnAssumption, BoundAssumption DEF Init
<1>1. TypeOK
    <2>1. frames \in [Conn -> Seq(Frame)]
        OBVIOUS
    <2>2. \A c \in Conn : handler[c] = "replacing" <=> prev[c] # NoConn
        OBVIOUS
    <2>3. queued \in 0..MaxMessages /\ messages \in 0..MaxMessages /\ events \in 0..MaxEvents
        OBVIOUS
    <2> QED BY <2>1, <2>2, <2>3 DEF TypeOK
<1>i. CountInv
    BY DEF CountInv
<1>2. HandlerInv /\ EntryIsLive /\ SocketInv /\ StopInv /\ ConfigureInv
    BY DEF HandlerInv, EntryIsLive, SocketInv, StopInv, ConfigureInv
<1> QED BY <1>1, <1>i, <1>2 DEF ChannelInv

LEMMA ChannelStep == ChannelInv /\ [Next]_vars => ChannelInv'
BY TypeStep, HandlerStep, SocketStep, FrameStep DEF ChannelInv

\* Whatever drops, crashes, switches, busy handlers, stops and restarts happen,
\* the invariants hold together.
LEMMA ChannelAlways == Spec => []ChannelInv
BY ChannelInit, ChannelStep, PTL DEF Spec

\* Every variable keeps its type.
THEOREM ChannelTypeCorrect == Spec => []TypeOK
<1>1. ChannelInv => TypeOK
    BY DEF ChannelInv
<1> QED BY <1>1, ChannelAlways, PTL

\* The registry names a socket whose handler still reads it, and will remove
\* the entry with itself.
THEOREM EntriesAreLive == Spec => []EntryIsLive
<1>1. ChannelInv => EntryIsLive
    BY DEF ChannelInv
<1> QED BY <1>1, ChannelAlways, PTL

\* The plugin sees a configure before the first message.
THEOREM PluginsAreConfiguredFirst == Spec => []ConfiguredFirst
<1>1. ChannelInv => ConfiguredFirst
    BY DEF ChannelInv, ConfigureInv, ConfiguredFirst, Guarded
<1> QED BY <1>1, ChannelAlways, PTL

\* The stop of a registration never reaches the process that has redialled: one
\* that leaves its loop belongs to a disabled channel or to a server that is
\* being stopped, for any overlap of replaced handlers, drops, crashes and stops
\* (channel_manager.py _handle_connection, _shutdown_channels).  It rests on the
\* redial delay of transport.py, as Connect has it.
THEOREM StoppedPluginsAreMeant == Spec => []StopsAreMeant
<1>1. ChannelInv => StopsAreMeant
    BY DEF ChannelInv, StopInv, Stopping, StopsAreMeant
<1> QED BY <1>1, ChannelAlways, PTL
=============================================================================
