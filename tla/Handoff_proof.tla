---------------------------- MODULE Handoff_proof ----------------------------
(***************************************************************************)
(* Proofs about Handoff, and that it implements Focus, for every set of    *)
(* devices and keys, every topology and every capacity of the channels.    *)
(***************************************************************************)
EXTENDS HandoffFocus, SequenceTheorems, TLAPS

-----------------------------------------------------------------------------
(* Facts about the messages and the grid.                                  *)

\* Which messages travel on which channel.
LEMMA MessageTypes ==
  /\ EdgeCrossed \in ClientMsg /\ ReturnControl \in ClientMsg
  /\ Ping \in ClientMsg /\ Goodbye \in ClientMsg
  /\ InputMsg \subseteq ClientMsg
  /\ Pong \in OutMsg /\ Other \in OutMsg /\ ReturnMsg \subseteq OutMsg
  /\ OutMsg \subseteq ServerMsg /\ Goodbye \in ServerMsg
  /\ Pong \in Signal /\ Disconnected \in Signal /\ ReturnMsg \subseteq Signal
  /\ \A e \in Edge : ReturnVia(e) \in ReturnMsg
  /\ Broadcasts \subseteq ServerMsg
<1>1. \A e \in Edge : ReturnVia(e) \in ReturnMsg
  BY DEF ReturnMsg
<1>2. Broadcasts \subseteq ServerMsg
  BY <1>1, BroadcastsAssumption DEF ServerMsg, OutMsg, Edge
<1>. QED  BY <1>1, <1>2 DEF ClientMsg, OutMsg, ServerMsg, Signal

\* A step through an edge stays on the grid of cells.
LEMMA StepType ==
  ASSUME NEW c \in Coord, NEW e \in Edge
  PROVE  Step(c, e) \in Coord /\ Delta(e) \in Coord /\ Delta(e) # Origin
BY DEF Coord, Step, Delta, Edge, Origin

\* The opposite of an edge is an edge, and the origin a cell.
LEMMA OriginType == Origin \in Coord
BY DEF Coord, Origin

-----------------------------------------------------------------------------
(* Type correctness.                                                       *)

\* Sending appends to the wire or loses the message.
LEMMA SendType ==
  ASSUME TypeOK, NEW m \in ClientMsg, Send(m)
  PROVE  c2s' \in Seq(ClientMsg)
BY AppendProperties DEF TypeOK, Send

\* Entering, returning and moving on keep the types.
LEMMA EnterType ==
  ASSUME TypeOK, NEW coord \in Coord, Enter(coord)
  PROVE  TypeOK'
<1>1. c2s' \in Seq(ClientMsg)
  BY SendType, MessageTypes DEF Enter, TypeOK
<1>. QED
  BY <1>1 DEF TypeOK, Enter, Break, SetGrab, workerVars, recvVars, serverVars

LEMMA ReclaimType ==
  ASSUME TypeOK, Reclaim
  PROVE  TypeOK'
<1>1. c2s' \in Seq(ClientMsg)
  BY SendType, MessageTypes DEF Reclaim
<1>. QED
  BY <1>1, OriginType
  DEF TypeOK, Reclaim, BackToLocal, SetGrab, workerVars, recvVars, serverVars

LEMMA TraverseType ==
  ASSUME TypeOK, NEW coord \in Coord, Traverse(coord)
  PROVE  TypeOK'
<1>1. c2s' \in Seq(ClientMsg)
  BY SendType, MessageTypes DEF Traverse
<1>. QED
  BY <1>1
  DEF TypeOK, Traverse, grabVars, workerVars, recvVars, serverVars

\* Every input of the user keeps the types.
LEMMA UserInputType ==
  ASSUME TypeOK, UserInput
  PROVE  TypeOK'
<1>. active_coord \in Coord
  BY DEF TypeOK
<1>1. ASSUME NEW e \in Edge, CrossEdge(e) PROVE TypeOK'
  BY <1>1, EnterType, StepType DEF CrossEdge
<1>2. ASSUME NEW e \in Edge, DirectionalJump(e) PROVE TypeOK'
  <2>1. Delta(TargetEdge) \in Coord
    BY StepType, OriginType, TargetEdgeAssumption
  <2>. QED
    BY <1>2, <2>1, EnterType, ReclaimType, TraverseType, StepType
    DEF DirectionalJump
<1>3. ASSUME SwitchScreen PROVE TypeOK'
  BY <1>3, EnterType, ReclaimType, StepType, OriginType, TargetEdgeAssumption
  DEF SwitchScreen
<1>4. ASSUME EmergencyEscape PROVE TypeOK'
  BY <1>4, ReclaimType DEF EmergencyEscape
<1>5. ASSUME NEW ev \in InputMsg, ForwardEvent(ev) PROVE TypeOK'
  <2>1. c2s' \in Seq(ClientMsg)
    BY <1>5, SendType, MessageTypes DEF ForwardEvent, TypeOK
  <2>. QED
    BY <1>5, <2>1
    DEF TypeOK, ForwardEvent, Break, SetGrab, loopVars, grabVars, workerVars,
        recvVars, serverVars
<1>. QED
  BY <1>1, <1>2, <1>3, <1>4, <1>5 DEF UserInput

\* Taking a signal leaves a channel of signals.
LEMMA TakeSignalType ==
  ASSUME TypeOK, NEW m, TakeSignal(m)
  PROVE  inbound' \in Seq(Signal)
BY HeadTailProperties DEF TypeOK, TakeSignal

\* Every step of the event loop keeps the types.
LEMMA ClientLoopType ==
  ASSUME TypeOK, ClientLoop
  PROVE  TypeOK'
<1>. USE DEF Break, SetGrab, loopVars, grabVars, workerVars, recvVars, netVars,
             serverVars
<1>1. ASSUME EventStreamEnded \/ ClipboardSendFails \/ BroadcastSendFails
      PROVE  TypeOK'
  BY <1>1 DEF TypeOK, EventStreamEnded, ClipboardSendFails, BroadcastSendFails
<1>2. ASSUME PingTick PROVE TypeOK'
  <2>1. c2s' \in Seq(ClientMsg)
    BY <1>2, SendType, MessageTypes DEF PingTick, TypeOK
  <2>2. missed_pings' \in Nat
    BY <1>2 DEF TypeOK, PingTick
  <2>. QED
    BY <1>2, <2>1, <2>2 DEF TypeOK, PingTick
<1>3. ASSUME BroadcastReturnControl PROVE TypeOK'
  BY <1>3, ReclaimType DEF BroadcastReturnControl
<1>4. ASSUME BroadcastEdgeCrossed PROVE TypeOK'
  BY <1>4, EnterType, StepType, OriginType, TargetEdgeAssumption
  DEF BroadcastEdgeCrossed
<1>5. ASSUME BroadcastGoodbye PROVE TypeOK'
  <2>1. c2s' \in Seq(ClientMsg)
    BY <1>5, SendType, MessageTypes DEF BroadcastGoodbye
  <2>. QED
    BY <1>5, <2>1 DEF TypeOK, BroadcastGoodbye
<1>6. ASSUME NEW e \in Edge, InboundReturnControl(e) PROVE TypeOK'
  <2>1. c2s' \in Seq(ClientMsg)
    BY <1>6, SendType, MessageTypes DEF InboundReturnControl, TypeOK
  <2>2. inbound' \in Seq(Signal)
    BY <1>6, TakeSignalType DEF InboundReturnControl
  <2>3. Step(active_coord, e) \in Coord
    BY StepType DEF TypeOK
  <2>. QED
    BY <1>6, <2>1, <2>2, <2>3, OriginType
    DEF TypeOK, InboundReturnControl, TakeSignal, BackToLocal
<1>7. ASSUME InboundPong PROVE TypeOK'
  <2>1. inbound' \in Seq(Signal)
    BY <1>7, TakeSignalType DEF InboundPong
  <2>. QED
    BY <1>7, <2>1 DEF TypeOK, InboundPong, TakeSignal
<1>8. ASSUME InboundDisconnected PROVE TypeOK'
  <2>1. inbound' \in Seq(Signal)
    BY <1>8, TakeSignalType DEF InboundDisconnected
  <2>. QED
    BY <1>8, <2>1 DEF TypeOK, InboundDisconnected, TakeSignal
<1>9. ASSUME EndSession PROVE TypeOK'
  <2>1. c2s' \in Seq(ClientMsg)
    BY <1>9, SendType, MessageTypes DEF EndSession
  <2>2. inbound' \in Seq(Signal)
    BY <1>9, EmptySeq DEF EndSession
  <2>. QED
    BY <1>9, <2>1, <2>2 DEF TypeOK, EndSession
<1>. QED
  BY <1>1, <1>2, <1>3, <1>4, <1>5, <1>6, <1>7, <1>8, <1>9
  DEF ClientLoop, InboundSignal

\* The workers and the receiver keep the types.
LEMMA WorkersType ==
  ASSUME TypeOK, NEW d \in Devices, ApplyGrab(d) \/ WorkerEnds(d)
  PROVE  TypeOK'
BY DEF TypeOK, ApplyGrab, WorkerEnds, loopVars, recvVars, netVars, serverVars

LEMMA SignalledType ==
  ASSUME TypeOK, NEW m \in Signal, Signalled(m)
  PROVE  inbound' \in Seq(Signal)
<1>1. Append(inbound, m) \in Seq(Signal)
  BY AppendProperties DEF TypeOK
<1>2. inbound' = inbound \/ inbound' = Append(inbound, m)
  BY DEF Signalled
<1>. QED
  BY <1>1, <1>2 DEF TypeOK

LEMMA ReceiverType ==
  ASSUME TypeOK, ReceiverSteps \/ ReceiveGoodbye \/ ReceiveError
  PROVE  TypeOK'
<1>. USE DEF loopVars, grabVars, workerVars, serverVars, SetGrab
<1>1. ASSUME ReceiverSteps PROVE TypeOK'
  <2>1. s2c' \in Seq(ServerMsg)
    BY <1>1, HeadTailProperties DEF TypeOK, ReceiverSteps
  <2>2. inbound' \in Seq(Signal)
    BY <1>1, SignalledType, MessageTypes DEF TypeOK, ReceiverSteps
  <2>. QED
    BY <1>1, <2>1, <2>2 DEF TypeOK, ReceiverSteps
<1>2. ASSUME ReceiverEnds PROVE TypeOK'
  <2>1. s2c' \in Seq(ServerMsg)
    BY <1>2, EmptySeq DEF ReceiverEnds
  <2>2. inbound' \in Seq(Signal)
    BY <1>2, SignalledType, MessageTypes DEF ReceiverEnds
  <2>. QED
    BY <1>2, <2>1, <2>2 DEF TypeOK, ReceiverEnds
<1>. QED
  BY <1>1, <1>2 DEF ReceiveGoodbye, ReceiveError

\* try_send yields a queue of the same kind.
LEMMA TrySendType ==
  ASSUME NEW q \in Seq(OutMsg), NEW m \in OutMsg
  PROVE  TrySend(q, m) \in Seq(OutMsg)
BY AppendProperties DEF TrySend

\* Every step of the server's message loop keeps the types.
LEMMA ServerType ==
  ASSUME TypeOK, ServerHandles \/ ServerReceiveError
  PROVE  TypeOK'
<1>. USE DEF clientVars, loopVars, grabVars, workerVars, recvVars, Take
<1>1. ASSUME NEW m, Take(m) PROVE c2s' \in Seq(ClientMsg)
  BY <1>1, HeadTailProperties DEF TypeOK
<1>2. ASSUME ServerEdgeCrossed \/ ServerReturnControl \/ ServerMouseMove
      PROVE  TypeOK'
  <2>1. c2s' \in Seq(ClientMsg)
    BY <1>1, <1>2 DEF ServerEdgeCrossed, ServerReturnControl, ServerMouseMove
  <2>. QED
    BY <1>2, <2>1
    DEF TypeOK, ServerEdgeCrossed, ServerReturnControl, ServerMouseMove
<1>3. ASSUME ServerInputIgnored PROVE TypeOK'
  <2>1. c2s' \in Seq(ClientMsg)
    BY <1>1, <1>3 DEF ServerInputIgnored
  <2>. QED
    BY <1>3, <2>1 DEF TypeOK, ServerInputIgnored
<1>4. ASSUME NEW k \in Keys, NEW b \in BOOLEAN, ServerKey(k, b) PROVE TypeOK'
  <2>1. c2s' \in Seq(ClientMsg)
    BY <1>1, <1>4 DEF ServerKey
  <2>. QED
    BY <1>4, <2>1 DEF TypeOK, ServerKey
<1>5. ASSUME NEW e \in ExitEdges, ServerExit(e) PROVE TypeOK'
  <2>1. c2s' \in Seq(ClientMsg)
    BY <1>1, <1>5 DEF ServerExit
  <2>2. ReturnVia(e) \in OutMsg /\ Other \in OutMsg
    BY MessageTypes, ExitEdgesAssumption
  <2>3. outq' \in Seq(OutMsg)
    <3>1. PICK q \in {outq, TrySend(outq, Other)} :
            outq' \in {q, Append(q, ReturnVia(e))}
      BY <1>5 DEF ServerExit
    <3>2. q \in Seq(OutMsg)
      BY <3>1, <2>2, TrySendType DEF TypeOK
    <3>. QED
      BY <3>1, <3>2, <2>2, AppendProperties
  <2>. QED
    BY <1>5, <2>1, <2>3 DEF TypeOK, ServerExit
<1>6. ASSUME ServerPing PROVE TypeOK'
  <2>1. c2s' \in Seq(ClientMsg)
    BY <1>1, <1>6 DEF ServerPing
  <2>2. outq' \in Seq(OutMsg)
    BY <1>6, TrySendType, MessageTypes DEF TypeOK, ServerPing
  <2>. QED
    BY <1>6, <2>1, <2>2 DEF TypeOK, ServerPing
<1>7. ASSUME ServerStops PROVE TypeOK'
  <2>1. c2s' \in Seq(ClientMsg)
    BY <1>7, EmptySeq DEF ServerStops
  <2>. QED
    BY <1>7, <2>1 DEF TypeOK, ServerStops
<1>. QED
  BY <1>2, <1>3, <1>4, <1>5, <1>6, <1>7
  DEF ServerHandles, ServerGoodbye, ServerInjectFails, ServerTimeout,
      ServerReceiveError

\* What the outbound sender puts on the wire.
LEMMA SendToClientType ==
  ASSUME TypeOK, NEW m \in ServerMsg, SendToClient(m)
  PROVE  s2c' \in Seq(ServerMsg)
<1>1. Append(s2c, m) \in Seq(ServerMsg)
  BY AppendProperties DEF TypeOK
<1>2. s2c' = s2c \/ s2c' = Append(s2c, m)
  BY DEF SendToClient
<1>. QED
  BY <1>1, <1>2 DEF TypeOK

LEMMA OutboundType ==
  ASSUME TypeOK, Outbound
  PROVE  TypeOK'
<1>. USE DEF clientVars, loopVars, grabVars, workerVars, recvVars, netVars,
             serverVars
<1>1. ASSUME OutboundSend PROVE TypeOK'
  <2>1. Head(outq) \in ServerMsg /\ outq' \in Seq(OutMsg)
    BY <1>1, HeadTailProperties, MessageTypes DEF TypeOK, OutboundSend
  <2>2. s2c' \in Seq(ServerMsg)
    BY <1>1, <2>1, SendToClientType DEF OutboundSend
  <2>. QED
    BY <1>1, <2>1, <2>2 DEF TypeOK, OutboundSend
<1>2. ASSUME NEW m \in Broadcasts, OutboundBroadcast(m) PROVE TypeOK'
  <2>1. s2c' \in Seq(ServerMsg)
    BY <1>2, SendToClientType, MessageTypes DEF OutboundBroadcast
  <2>. QED
    BY <1>2, <2>1 DEF TypeOK, OutboundBroadcast
<1>3. ASSUME ClipboardWatcher PROVE TypeOK'
  <2>1. outq' \in Seq(OutMsg)
    BY <1>3, AppendProperties, MessageTypes DEF TypeOK, ClipboardWatcher
  <2>. QED
    BY <1>3, <2>1 DEF TypeOK, ClipboardWatcher
<1>. QED
  BY <1>1, <1>2, <1>3 DEF Outbound

LEMMA FailureType ==
  ASSUME TypeOK, Failure
  PROVE  TypeOK'
<1>1. Truncations(c2s) \subseteq Seq(ClientMsg)
  BY SubSeqProperties, LenProperties DEF TypeOK, Truncations
<1>2. Truncations(s2c) \subseteq Seq(ServerMsg)
  BY SubSeqProperties, LenProperties DEF TypeOK, Truncations
<1>3. CASE LinkDown
  BY <1>1, <1>2, <1>3
  DEF TypeOK, LinkDown, clientVars, loopVars, grabVars, workerVars, recvVars,
      serverVars
<1>4. CASE Shutdown
  <2>1. c2s' \in Seq(ClientMsg)
    <3>1. CASE UNCHANGED c2s
      BY <3>1 DEF TypeOK
    <3>2. ASSUME NEW q \in Truncations(c2s), c2s' = Append(q, Goodbye)
          PROVE  c2s' \in Seq(ClientMsg)
      BY <1>1, <3>2, AppendProperties, MessageTypes
    <3>. QED
      BY <1>4, <3>1, <3>2 DEF Shutdown
  <2>2. s2c' \in Seq(ServerMsg) /\ inbound' \in Seq(Signal)
    BY <1>4, EmptySeq DEF Shutdown
  <2>. QED
    BY <1>4, <2>1, <2>2 DEF TypeOK, Shutdown, serverVars
<1>5. CASE PeerShutdown
  <2>1. c2s' \in Seq(ClientMsg) /\ outq' \in Seq(OutMsg)
    BY <1>5, EmptySeq DEF PeerShutdown
  <2>. QED
    BY <1>2, <1>5, <2>1
    DEF TypeOK, PeerShutdown, clientVars, loopVars, grabVars, workerVars,
        recvVars
<1>. QED
  BY <1>3, <1>4, <1>5 DEF Failure

LEMMA StutterType ==
  ASSUME TypeOK, UNCHANGED vars
  PROVE  TypeOK'
BY DEF TypeOK, vars, clientVars, loopVars, grabVars, workerVars, recvVars,
       netVars, serverVars

\* The types of the variables hold in every reachable state.
THEOREM TypeCorrect == Spec => []TypeOK
<1>1. Init => TypeOK
  <2>1. /\ <<>> \in Seq(Signal) /\ <<>> \in Seq(ClientMsg)
        /\ <<>> \in Seq(ServerMsg) /\ <<Other>> \in Seq(OutMsg)
    BY MessageTypes, EmptySeq
  <2>. SUFFICES ASSUME Init PROVE TypeOK
    OBVIOUS
  <2>2. outq \in Seq(OutMsg) /\ inbound \in Seq(Signal)
    BY <2>1 DEF Init
  <2>3. c2s \in Seq(ClientMsg) /\ s2c \in Seq(ServerMsg)
    BY <2>1 DEF Init
  <2>4. /\ is_forwarding \in BOOLEAN /\ grab \in BOOLEAN
        /\ has_control \in BOOLEAN /\ lost_return \in BOOLEAN
    BY DEF Init
  <2>5. /\ unseen \subseteq workers /\ workers \subseteq Devices
        /\ grabbed \subseteq workers /\ held \subseteq Keys
    BY DEF Init
  <2>6. active_coord \in Coord /\ missed_pings \in Nat
    BY OriginType DEF Init
  <2>. QED
    BY <2>2, <2>3, <2>4, <2>5, <2>6 DEF Init, TypeOK
<1>2. TypeOK /\ [Next]_vars => TypeOK'
  <2>. SUFFICES ASSUME TypeOK, [Next]_vars PROVE TypeOK'
    OBVIOUS
  <2>. QED
  BY UserInputType, ClientLoopType, WorkersType, ReceiverType, ServerType,
     OutboundType, FailureType, StutterType
  DEF Next, Workers
<1>. QED
  BY <1>1, <1>2, PTL DEF Spec

-----------------------------------------------------------------------------
(* Keys are held only under control.                                       *)

\* Nothing but the server's own steps touches the server's variables.
LEMMA ServerUntouched ==
  ASSUME \/ UserInput \/ ClientLoop \/ Workers
         \/ ReceiverSteps \/ ReceiveGoodbye \/ ReceiveError \/ LinkDown
         \/ Shutdown
  PROVE  UNCHANGED serverVars
<1>1. ASSUME UserInput PROVE UNCHANGED serverVars
  BY <1>1
  DEF UserInput, CrossEdge, DirectionalJump, SwitchScreen, EmergencyEscape,
      ForwardEvent, Enter, Reclaim, Traverse
<1>2. ASSUME ClientLoop PROVE UNCHANGED serverVars
  BY <1>2
  DEF ClientLoop, InboundSignal, EventStreamEnded, PingTick,
      ClipboardSendFails, BroadcastReturnControl, BroadcastEdgeCrossed,
      BroadcastGoodbye, BroadcastSendFails, InboundReturnControl, InboundPong,
      InboundDisconnected, EndSession, TakeSignal, Enter, Reclaim
<1>3. ASSUME Workers PROVE UNCHANGED serverVars
  BY <1>3 DEF Workers, ApplyGrab, WorkerEnds
<1>4. ASSUME ReceiverSteps \/ ReceiveGoodbye \/ ReceiveError
      PROVE  UNCHANGED serverVars
  BY <1>4 DEF ReceiverSteps, ReceiveGoodbye, ReceiveError, ReceiverEnds
<1>5. ASSUME LinkDown \/ Shutdown PROVE UNCHANGED serverVars
  BY <1>5 DEF LinkDown, Shutdown
<1>. QED
  BY <1>1, <1>2, <1>3, <1>4, <1>5

\* The server and the network do not reach the controller's variables.
LEMMA ClientUntouched ==
  ASSUME \/ ServerHandles \/ ServerReceiveError \/ Outbound
         \/ LinkDown \/ PeerShutdown
  PROVE  UNCHANGED clientVars
BY DEF ServerHandles, ServerEdgeCrossed, ServerReturnControl,
       ServerInputIgnored, ServerKey, ServerMouseMove, ServerExit,
       ServerPing, ServerGoodbye, ServerInjectFails, ServerTimeout,
       ServerReceiveError, ServerStops, Take, Outbound, OutboundSend,
       OutboundBroadcast, ClipboardWatcher, LinkDown, PeerShutdown

\* The server releases every key before it loses control in any way.
THEOREM KeysHeldOnlyWithControl == Spec => []HeldOnlyWithControl
<1>1. Init => HeldOnlyWithControl
  BY DEF Init, HeldOnlyWithControl
<1>2. ASSUME HeldOnlyWithControl, [Next]_vars PROVE HeldOnlyWithControl'
  <2>1. CASE UNCHANGED serverVars
    BY <1>2, <2>1 DEF HeldOnlyWithControl, serverVars
  <2>2. CASE ServerHandles
    <3>. USE DEF HeldOnlyWithControl, Take
    <3>1. CASE \/ ServerEdgeCrossed \/ ServerReturnControl
               \/ ServerInputIgnored \/ ServerMouseMove \/ ServerPing
      BY <1>2, <3>1
      DEF ServerEdgeCrossed, ServerReturnControl, ServerInputIgnored,
          ServerMouseMove, ServerPing
    <3>2. CASE \E k \in Keys, b \in BOOLEAN : ServerKey(k, b)
      BY <1>2, <3>2 DEF ServerKey
    <3>3. CASE \E e \in ExitEdges : ServerExit(e)
      BY <1>2, <3>3 DEF ServerExit
    <3>4. CASE ServerGoodbye \/ ServerInjectFails \/ ServerTimeout
      BY <3>4
      DEF ServerGoodbye, ServerInjectFails, ServerTimeout, ServerStops
    <3>. QED
      BY <2>2, <3>1, <3>2, <3>3, <3>4 DEF ServerHandles
  <2>3. CASE ServerReceiveError
    BY <2>3 DEF HeldOnlyWithControl, ServerReceiveError, ServerStops
  <2>4. CASE Outbound
    BY <1>2, <2>4
    DEF HeldOnlyWithControl, Outbound, OutboundSend, OutboundBroadcast,
        ClipboardWatcher, serverVars
  <2>5. CASE UNCHANGED vars
    BY <2>1, <2>5 DEF vars
  <2>6. CASE PeerShutdown
    BY <2>6 DEF PeerShutdown, HeldOnlyWithControl
  <2>. QED
    BY <1>2, <2>1, <2>2, <2>3, <2>4, <2>5, <2>6, ServerUntouched
    DEF Next, Failure
<1>. QED
  BY <1>1, <1>2, PTL DEF Spec

-----------------------------------------------------------------------------
(* The event loop's state, its cell, its flag and the grabs.               *)

\* The cells the loop may forward to.
Targets == (Grid \cup {Delta(TargetEdge)}) \ {Origin}

LEMMA EnterAgrees ==
  ASSUME LoopStateAgrees, NEW coord \in Targets, Enter(coord)
  PROVE  LoopStateAgrees'
BY DEF LoopStateAgrees, Targets, Looping, Enter, Break, SetGrab, recvVars

LEMMA ReclaimAgrees ==
  ASSUME LoopStateAgrees, Reclaim
  PROVE  LoopStateAgrees'
BY DEF LoopStateAgrees, Looping, Reclaim, BackToLocal, SetGrab

LEMMA TraverseAgrees ==
  ASSUME LoopStateAgrees, NEW coord \in Targets, Traverse(coord)
  PROVE  LoopStateAgrees'
BY DEF LoopStateAgrees, Targets, Looping, Traverse, grabVars, recvVars

\* A broken loop agrees, whatever the flag still says.
LEMMA BreakAgrees ==
  ASSUME NEW flag, Break(flag)
  PROVE  LoopStateAgrees'
BY DEF LoopStateAgrees, Looping, Break, SetGrab

LEMMA UserInputAgrees ==
  ASSUME LoopStateAgrees, UserInput
  PROVE  LoopStateAgrees'
<1>. Delta(TargetEdge) \in Targets
  BY StepType, OriginType, TargetEdgeAssumption DEF Targets
<1>1. ASSUME NEW e \in Edge, CrossEdge(e) PROVE LoopStateAgrees'
  <2>1. active_coord = Origin
    BY <1>1 DEF CrossEdge, Enter, LoopStateAgrees
  <2>2. Step(active_coord, e) = Delta(e) /\ Delta(e) # Origin
    BY <2>1 DEF Step, Delta, Origin, Edge
  <2>3. Step(active_coord, e) \in Targets
    BY <1>1, <2>2 DEF CrossEdge, Targets
  <2>. QED
    BY <1>1, <2>3, EnterAgrees DEF CrossEdge
<1>2. ASSUME NEW e \in Edge, DirectionalJump(e) PROVE LoopStateAgrees'
  BY <1>2, EnterAgrees, ReclaimAgrees, TraverseAgrees
  DEF DirectionalJump, Targets
<1>3. ASSUME SwitchScreen \/ EmergencyEscape PROVE LoopStateAgrees'
  BY <1>3, EnterAgrees, ReclaimAgrees DEF SwitchScreen, EmergencyEscape
<1>4. ASSUME NEW ev \in InputMsg, ForwardEvent(ev) PROVE LoopStateAgrees'
  <2>1. CASE UNCHANGED <<loopVars, grabVars>>
    BY <1>4, <2>1
    DEF ForwardEvent, LoopStateAgrees, Looping, loopVars, grabVars, recvVars
  <2>. QED
    BY <1>4, <2>1, BreakAgrees DEF ForwardEvent
<1>. QED
  BY <1>1, <1>2, <1>3, <1>4 DEF UserInput

LEMMA ClientLoopAgrees ==
  ASSUME LoopStateAgrees, ClientLoop
  PROVE  LoopStateAgrees'
<1>1. ASSUME \/ EventStreamEnded \/ ClipboardSendFails \/ BroadcastSendFails
             \/ BroadcastGoodbye \/ InboundDisconnected
      PROVE  LoopStateAgrees'
  BY <1>1, BreakAgrees
  DEF EventStreamEnded, ClipboardSendFails, BroadcastSendFails,
      BroadcastGoodbye, InboundDisconnected
<1>2. ASSUME PingTick PROVE LoopStateAgrees'
  <2>1. CASE Break(is_forwarding)
    BY <2>1, BreakAgrees
  <2>2. CASE ~Break(is_forwarding)
    BY <1>2, <2>2
    DEF PingTick, LoopStateAgrees, Looping, SetGrab, grabVars, recvVars
  <2>. QED
    BY <2>1, <2>2
<1>3. ASSUME BroadcastReturnControl \/ BroadcastEdgeCrossed
      PROVE  LoopStateAgrees'
  <2>. Delta(TargetEdge) \in Targets
    BY StepType, OriginType, TargetEdgeAssumption DEF Targets
  <2>. QED
    BY <1>3, EnterAgrees, ReclaimAgrees
    DEF BroadcastReturnControl, BroadcastEdgeCrossed
<1>4. ASSUME NEW e \in Edge, InboundReturnControl(e) PROVE LoopStateAgrees'
  <2>. UNCHANGED receiver
    BY <1>4 DEF InboundReturnControl, TakeSignal
  <2>1. CASE UNCHANGED <<loopVars, grabVars>>
    BY <2>1 DEF LoopStateAgrees, Looping, loopVars, grabVars
  <2>2. CASE BackToLocal
    BY <2>2 DEF LoopStateAgrees, Looping, BackToLocal, SetGrab
  <2>3. CASE /\ state = "Forwarding"
             /\ active_coord' \in Grid /\ active_coord' # Origin
             /\ UNCHANGED <<state, is_forwarding, grabVars>>
    BY <2>3 DEF LoopStateAgrees, Looping, grabVars
  <2>. QED
    BY <1>4, <2>1, <2>2, <2>3 DEF InboundReturnControl
<1>5. ASSUME InboundPong PROVE LoopStateAgrees'
  BY <1>5
  DEF InboundPong, TakeSignal, LoopStateAgrees, Looping, grabVars
<1>6. ASSUME EndSession PROVE LoopStateAgrees'
  BY <1>6 DEF EndSession, LoopStateAgrees, Looping, SetGrab
<1>. QED
  BY <1>1, <1>2, <1>3, <1>4, <1>5, <1>6 DEF ClientLoop, InboundSignal

\* On every path the loop's state, cell, flag and grab agree.
THEOREM StateAgrees == Spec => []LoopStateAgrees
<1>1. Init => LoopStateAgrees
  BY DEF Init, LoopStateAgrees, Looping
<1>2. ASSUME LoopStateAgrees, [Next]_vars PROVE LoopStateAgrees'
  <2>1. CASE UNCHANGED <<loopVars, grab, receiver>>
    BY <1>2, <2>1 DEF LoopStateAgrees, Looping, loopVars
  <2>2. CASE ReceiveGoodbye \/ ReceiveError
    BY <1>2, <2>2
    DEF ReceiveGoodbye, ReceiveError, ReceiverEnds, SetGrab, LoopStateAgrees,
        Looping, loopVars
  <2>3. CASE Workers \/ ReceiverSteps
    BY <2>1, <2>3
    DEF Workers, ApplyGrab, WorkerEnds, ReceiverSteps, recvVars, grabVars
  <2>4. CASE \/ ServerHandles \/ ServerReceiveError \/ Outbound
             \/ LinkDown \/ PeerShutdown
    BY <2>1, <2>4, ClientUntouched DEF clientVars, grabVars, recvVars
  <2>5. CASE UNCHANGED vars
    BY <2>1, <2>5 DEF vars, clientVars, grabVars, recvVars
  <2>6. CASE Shutdown
    BY <2>6 DEF Shutdown, LoopStateAgrees, Looping
  <2>. QED
    BY <1>2, <2>2, <2>3, <2>4, <2>5, <2>6, UserInputAgrees, ClientLoopAgrees
    DEF Next, Failure
<1>. QED
  BY <1>1, <1>2, PTL DEF Spec

\* A step of the event loop or of the receiver either speaks to the workers or
\* changes neither the state nor what they have seen.
LEMMA LoopSpeaksToWorkers ==
  ASSUME \/ UserInput \/ ClientLoop
         \/ ReceiverSteps \/ ReceiveGoodbye \/ ReceiveError
  PROVE  /\ UNCHANGED grabbed
         /\ unseen' = workers \/ UNCHANGED <<state, unseen>>
<1>. USE DEF Break, BackToLocal, SetGrab, loopVars, grabVars, workerVars
<1>1. ASSUME UserInput
      PROVE  /\ UNCHANGED grabbed
             /\ unseen' = workers \/ UNCHANGED <<state, unseen>>
  BY <1>1
  DEF UserInput, CrossEdge, DirectionalJump, SwitchScreen, EmergencyEscape,
      ForwardEvent, Enter, Reclaim, Traverse
<1>2. ASSUME ClientLoop
      PROVE  /\ UNCHANGED grabbed
             /\ unseen' = workers \/ UNCHANGED <<state, unseen>>
  BY <1>2
  DEF ClientLoop, InboundSignal, EventStreamEnded, PingTick,
      ClipboardSendFails, BroadcastReturnControl, BroadcastEdgeCrossed,
      BroadcastGoodbye, BroadcastSendFails, InboundReturnControl, InboundPong,
      InboundDisconnected, EndSession, TakeSignal, Enter, Reclaim
<1>3. ASSUME ReceiverSteps \/ ReceiveGoodbye \/ ReceiveError
      PROVE  /\ UNCHANGED grabbed
             /\ unseen' = workers \/ UNCHANGED <<state, unseen>>
  BY <1>3 DEF ReceiverSteps, ReceiveGoodbye, ReceiveError, ReceiverEnds
<1>. QED
  BY <1>1, <1>2, <1>3

\* A device stays grabbed after forwarding only until its worker looks.
THEOREM GrabsFollowState == Spec => []GrabbedOnlyWhileForwarding
<1>1. Init => GrabbedOnlyWhileForwarding
  BY DEF Init, GrabbedOnlyWhileForwarding
<1>2. ASSUME TypeOK, LoopStateAgrees, GrabbedOnlyWhileForwarding, [Next]_vars
      PROVE  GrabbedOnlyWhileForwarding'
  <2>. USE DEF GrabbedOnlyWhileForwarding
  <2>1. CASE \/ UserInput \/ ClientLoop
             \/ ReceiverSteps \/ ReceiveGoodbye \/ ReceiveError
    BY <1>2, <2>1, LoopSpeaksToWorkers DEF TypeOK
  <2>2. CASE Workers
    <3>1. ASSUME NEW d \in Devices, ApplyGrab(d)
          PROVE  GrabbedOnlyWhileForwarding'
      <4>. SUFFICES ASSUME state # "Forwarding" PROVE grabbed' \subseteq unseen'
        BY <3>1 DEF ApplyGrab, loopVars
      <4>1. ~grab
        BY <1>2 DEF LoopStateAgrees
      <4>. QED
        BY <1>2, <3>1, <4>1 DEF ApplyGrab
    <3>2. ASSUME NEW d \in Devices, WorkerEnds(d)
          PROVE  GrabbedOnlyWhileForwarding'
      BY <1>2, <3>2 DEF WorkerEnds, loopVars
    <3>. QED
      BY <2>2, <3>1, <3>2 DEF Workers
  <2>3. CASE UNCHANGED clientVars
    BY <1>2, <2>3 DEF clientVars, loopVars, grabVars, workerVars
  <2>4. CASE UNCHANGED vars
    BY <2>3, <2>4 DEF vars
  <2>5. CASE Shutdown
    BY <2>5 DEF Shutdown
  <2>. QED
    BY <1>2, <2>1, <2>2, <2>3, <2>4, <2>5, ClientUntouched DEF Next, Failure
<1>. QED
  BY <1>1, <1>2, TypeCorrect, StateAgrees, PTL DEF Spec

-----------------------------------------------------------------------------
(* No stranded focus.  First, what sending and receiving do to a queue.    *)

LEMMA HoldsAppend ==
  ASSUME NEW S, NEW q \in Seq(S), NEW m \in S, NEW ms
  PROVE  Holds(Append(q, m), ms) <=> Holds(q, ms) \/ m \in ms
<1>1. /\ DOMAIN Append(q, m) = 1..(Len(q) + 1) /\ DOMAIN q = 1..Len(q)
      /\ Len(q) \in Nat
  BY AppendProperties, LenProperties
<1>2. /\ \A i \in 1..Len(q) : Append(q, m)[i] = q[i]
      /\ Append(q, m)[Len(q) + 1] = m
  BY AppendProperties
<1>3. ASSUME Holds(q, ms) PROVE Holds(Append(q, m), ms)
  BY <1>1, <1>2, <1>3 DEF Holds
<1>4. ASSUME m \in ms PROVE Holds(Append(q, m), ms)
  BY <1>1, <1>2, <1>4 DEF Holds
<1>5. ASSUME Holds(Append(q, m), ms), ~Holds(q, ms) PROVE m \in ms
  BY <1>1, <1>2, <1>5 DEF Holds
<1>. QED
  BY <1>3, <1>4, <1>5

LEMMA HoldsTail ==
  ASSUME NEW S, NEW q \in Seq(S), q # <<>>, NEW ms
  PROVE  Holds(q, ms) <=> Head(q) \in ms \/ Holds(Tail(q), ms)
<1>1. /\ DOMAIN Tail(q) = 1..(Len(q) - 1) /\ DOMAIN q = 1..Len(q)
      /\ Len(q) \in Nat \ {0}
  BY HeadTailProperties, LenProperties, EmptySeq
<1>2. \A i \in 1..(Len(q) - 1) : Tail(q)[i] = q[i + 1]
  BY HeadTailProperties
<1>3. Head(q) = q[1]
  OBVIOUS
<1>4. ASSUME Holds(Tail(q), ms) PROVE Holds(q, ms)
  <2>1. PICK i \in 1..(Len(q) - 1) : Tail(q)[i] \in ms
    BY <1>1, <1>4 DEF Holds
  <2>. QED
    BY <1>1, <1>2, <2>1 DEF Holds
<1>5. ASSUME Holds(q, ms), Head(q) \notin ms PROVE Holds(Tail(q), ms)
  <2>1. PICK i \in 1..Len(q) : q[i] \in ms
    BY <1>1, <1>5 DEF Holds
  <2>2. i # 1
    BY <2>1, <1>3, <1>5
  <2>3. i - 1 \in 1..(Len(q) - 1) /\ Tail(q)[i - 1] = q[i]
    BY <1>1, <1>2, <2>1, <2>2
  <2>. QED
    BY <1>1, <2>1, <2>3 DEF Holds
<1>6. ASSUME Head(q) \in ms PROVE Holds(q, ms)
  BY <1>1, <1>3, <1>6 DEF Holds
<1>. QED
  BY <1>4, <1>5, <1>6

\* Appending an EdgeCrossed ends entering; any message but ReturnControl
\* keeps it.
LEMMA EndsEnteringAppend ==
  ASSUME NEW q \in Seq(ClientMsg), NEW m \in ClientMsg
  PROVE  /\ m = EdgeCrossed => EndsEntering(Append(q, m))
         /\ EndsEntering(q) /\ m # ReturnControl => EndsEntering(Append(q, m))
<1>1. /\ DOMAIN Append(q, m) = 1..(Len(q) + 1) /\ DOMAIN q = 1..Len(q)
      /\ Len(q) \in Nat
  BY AppendProperties, LenProperties
<1>2. /\ \A i \in 1..Len(q) : Append(q, m)[i] = q[i]
      /\ Append(q, m)[Len(q) + 1] = m
  BY AppendProperties
<1>3. ASSUME m = EdgeCrossed PROVE EndsEntering(Append(q, m))
  <2>. DEFINE n == Len(q) + 1
  <2>1. n \in DOMAIN Append(q, m) /\ Append(q, m)[n] = EdgeCrossed
    BY <1>1, <1>2, <1>3
  <2>2. \A j \in DOMAIN Append(q, m) : ~(j > n)
    BY <1>1
  <2>. QED
    BY <2>1, <2>2 DEF EndsEntering
<1>4. ASSUME EndsEntering(q), m # ReturnControl
      PROVE  EndsEntering(Append(q, m))
  <2>1. PICK i \in 1..Len(q) :
          /\ q[i] = EdgeCrossed
          /\ \A j \in 1..Len(q) : j > i => q[j] # ReturnControl
    BY <1>1, <1>4 DEF EndsEntering
  <2>2. i \in 1..(Len(q) + 1) /\ Append(q, m)[i] = EdgeCrossed
    BY <1>1, <1>2, <2>1
  <2>3. \A j \in 1..(Len(q) + 1) : j > i => Append(q, m)[j] # ReturnControl
    BY <1>1, <1>2, <1>4, <2>1
  <2>. QED
    BY <1>1, <2>2, <2>3 DEF EndsEntering
<1>. QED
  BY <1>3, <1>4

\* Taking the oldest message off an entering queue leaves it entering, or has
\* just taken its last EdgeCrossed, with no ReturnControl behind it.
LEMMA EndsEnteringTail ==
  ASSUME NEW q \in Seq(ClientMsg), q # <<>>, EndsEntering(q)
  PROVE  \/ EndsEntering(Tail(q))
         \/ Head(q) = EdgeCrossed /\ ~Holds(Tail(q), {ReturnControl})
<1>1. /\ DOMAIN Tail(q) = 1..(Len(q) - 1) /\ DOMAIN q = 1..Len(q)
      /\ Len(q) \in Nat \ {0}
  BY HeadTailProperties, LenProperties, EmptySeq
<1>2. \A i \in 1..(Len(q) - 1) : Tail(q)[i] = q[i + 1]
  BY HeadTailProperties
<1>3. PICK i \in 1..Len(q) :
        /\ q[i] = EdgeCrossed
        /\ \A j \in 1..Len(q) : j > i => q[j] # ReturnControl
  BY <1>1 DEF EndsEntering
<1>4. CASE i = 1
  <2>1. \A j \in 1..(Len(q) - 1) : Tail(q)[j] # ReturnControl
    BY <1>1, <1>2, <1>3, <1>4
  <2>. QED
    BY <1>1, <1>3, <1>4, <2>1 DEF Holds
<1>5. CASE i # 1
  <2>1. i - 1 \in 1..(Len(q) - 1) /\ Tail(q)[i - 1] = EdgeCrossed
    BY <1>1, <1>2, <1>3, <1>5
  <2>2. \A j \in 1..(Len(q) - 1) : j > i - 1 => Tail(q)[j] # ReturnControl
    BY <1>1, <1>2, <1>3, <1>5
  <2>. QED
    BY <1>1, <2>1, <2>2 DEF EndsEntering
<1>. QED
  BY <1>4, <1>5

-----------------------------------------------------------------------------
(* FocusInv is inductive.                                                  *)

\* Messages that must not be taken for one another.
LEMMA MessagesDiffer ==
  /\ ReturnControl \notin InputMsg \cup {EdgeCrossed, Ping, Goodbye}
  /\ EdgeCrossed \notin InputMsg \cup {ReturnControl, Ping, Goodbye}
  /\ Other \notin ReturnMsg \cup {Goodbye, Disconnected}
  /\ Pong \notin ReturnMsg \cup {Goodbye, Disconnected}
  /\ Disconnected \notin ReturnMsg
<1>1. \A m \in InputMsg : m.type = "MouseMove" \/ m.type = "Key"
  BY DEF InputMsg, MouseMove, KeyEvent
<1>2. \A m \in ReturnMsg : m.type = "ReturnControl"
  BY DEF ReturnMsg, ReturnVia
<1>3. /\ ReturnControl.type = "ReturnControl"
      /\ EdgeCrossed.type = "EdgeCrossed"
      /\ Ping.type = "Ping" /\ Pong.type = "Pong" /\ Goodbye.type = "Goodbye"
      /\ Other.type = "Other" /\ Disconnected.type = "Disconnected"
  BY DEF ReturnControl, EdgeCrossed, Ping, Goodbye, Other, Pong, Disconnected
<1>. QED
  BY <1>1, <1>2, <1>3

\* Sending anything but ReturnControl upsets neither an entry nor the absence
\* of a ReturnControl; sending EdgeCrossed to a live server is an entry.
LEMMA SendKeepsEntry ==
  ASSUME TypeOK, NEW m \in ClientMsg, m # ReturnControl, Send(m)
  PROVE  /\ EntryInFlight => EntryInFlight'
         /\ ~Holds(c2s, {ReturnControl}) => ~Holds(c2s, {ReturnControl})'
<1>. c2s \in Seq(ClientMsg)
  BY DEF TypeOK
<1>1. CASE c2s' = c2s
  BY <1>1 DEF EntryInFlight
<1>2. CASE c2s' = Append(c2s, m)
  BY <1>2, EndsEnteringAppend, HoldsAppend DEF EntryInFlight
<1>. QED
  BY <1>1, <1>2 DEF Send

LEMMA SendEnters ==
  ASSUME TypeOK, Send(EdgeCrossed), link = "Up", server = "Running"
  PROVE  EntryInFlight'
<1>1. c2s' = Append(c2s, EdgeCrossed)
  BY DEF Send
<1>. QED
  BY <1>1, EndsEnteringAppend, MessageTypes DEF TypeOK, EntryInFlight

\* A step that leaves the loop outside Forwarding only has EndSignalled to
\* keep, one that does not touch what FocusInv speaks of has nothing.
LEMMA NotForwardingKeeps ==
  ASSUME EndSignalled', state' # "Forwarding"
  PROVE  FocusInv'
BY DEF FocusInv, ReturnSuperseded, FocusNotStranded, Attached

LEMMA BreakKeeps ==
  ASSUME NEW flag, Break(flag)
  PROVE  FocusInv'
BY NotForwardingKeeps DEF Break, EndSignalled, Looping

\* Entering a screen, from the local one or from another.
LEMMA EnteringKeeps ==
  ASSUME TypeOK, FocusInv, Looping, Send(EdgeCrossed), EndSignalled',
         UNCHANGED <<link, server>>
  PROVE  FocusInv'
BY SendEnters DEF FocusInv, ReturnSuperseded, FocusNotStranded, Attached,
   EntryInFlight

\* Sending a message that is neither.
LEMMA SendKeeps ==
  ASSUME TypeOK, FocusInv, NEW m \in ClientMsg, m # ReturnControl, Send(m),
         UNCHANGED <<state, receiver, inbound, link, s2c, serverVars>>
  PROVE  FocusInv'
<1>. /\ EntryInFlight => EntryInFlight'
     /\ ~Holds(c2s, {ReturnControl}) => ~Holds(c2s, {ReturnControl})'
  BY SendKeepsEntry
<1>. QED
  BY DEF FocusInv, ReturnSuperseded, EndSignalled, FocusNotStranded, Attached,
     Looping, RemoteKeepsControl, ReturnPending, serverVars

\* A step that changes nothing FocusInv speaks of.
LEMMA UntouchedKeeps ==
  ASSUME FocusInv, UNCHANGED <<state, receiver, inbound, netVars, serverVars>>
  PROVE  FocusInv'
BY DEF FocusInv, ReturnSuperseded, EndSignalled, FocusNotStranded, Attached,
   Looping, RemoteKeepsControl, ReturnPending, EntryInFlight, netVars,
   serverVars

LEMMA EnterKeeps ==
  ASSUME TypeOK, FocusInv, NEW coord, Enter(coord)
  PROVE  FocusInv'
<1>1. CASE Send(EdgeCrossed) /\ state' = "Forwarding"
  <2>. EndSignalled' /\ Looping
    BY <1>1 DEF FocusInv, EndSignalled, Looping, Enter, recvVars
  <2>. QED
    BY <1>1, EnteringKeeps DEF Enter, serverVars
<1>2. CASE Break(FALSE)
  BY <1>2, BreakKeeps
<1>. QED
  BY <1>1, <1>2 DEF Enter

LEMMA ReclaimKeeps ==
  ASSUME FocusInv, Reclaim
  PROVE  FocusInv'
<1>. EndSignalled'
  BY DEF FocusInv, EndSignalled, Looping, Reclaim, recvVars
<1>. QED
  BY NotForwardingKeeps DEF Reclaim, BackToLocal

LEMMA TraverseKeeps ==
  ASSUME TypeOK, FocusInv, NEW coord, Traverse(coord)
  PROVE  FocusInv'
<1>. EndSignalled' /\ Looping
  BY DEF FocusInv, EndSignalled, Looping, Traverse, recvVars
<1>. QED
  BY EnteringKeeps DEF Traverse, serverVars

LEMMA UserInputKeeps ==
  ASSUME TypeOK, FocusInv, UserInput
  PROVE  FocusInv'
<1>1. ASSUME NEW ev \in InputMsg, ForwardEvent(ev) PROVE FocusInv'
  <2>1. CASE Break(is_forwarding)
    BY <2>1, BreakKeeps
  <2>2. CASE Send(ev) /\ UNCHANGED <<loopVars, grabVars>>
    <3>. ev \in ClientMsg /\ ev # ReturnControl
      BY MessageTypes, MessagesDiffer
    <3>. QED
      BY <1>1, <2>2, SendKeeps DEF ForwardEvent, loopVars, recvVars
  <2>. QED
    BY <1>1, <2>1, <2>2 DEF ForwardEvent
<1>. QED
  BY <1>1, EnterKeeps, ReclaimKeeps, TraverseKeeps
  DEF UserInput, CrossEdge, DirectionalJump, SwitchScreen, EmergencyEscape
\* Taking a signal other than Disconnected off the inbound channel.
LEMMA TakeSignalKeeps ==
  ASSUME TypeOK, FocusInv, NEW m, m # Disconnected, TakeSignal(m)
  PROVE  EndSignalled'
<1>1. inbound \in Seq(Signal) /\ inbound # <<>>
  BY DEF TypeOK, TakeSignal
<1>2. \A ms : Holds(inbound, ms) <=>
              Head(inbound) \in ms \/ Holds(Tail(inbound), ms)
  BY <1>1, HoldsTail
<1>3. receiver = "Ended" => Holds(inbound, {Disconnected})
  BY DEF FocusInv, EndSignalled, TakeSignal
<1>. QED
  BY <1>2, <1>3 DEF EndSignalled, TakeSignal

LEMMA PingTickKeeps ==
  ASSUME TypeOK, FocusInv, PingTick
  PROVE  FocusInv'
<1>1. CASE Break(is_forwarding)
  BY <1>1, BreakKeeps
<1>2. CASE Send(Ping) /\ UNCHANGED state
  <2>. Ping \in ClientMsg /\ Ping # ReturnControl
    BY MessageTypes, MessagesDiffer
  <2>. QED
    BY <1>2, SendKeeps DEF PingTick, recvVars
<1>3. CASE state' = "Closing"
  BY <1>3, NotForwardingKeeps DEF EndSignalled, Looping
<1>4. CASE UNCHANGED <<state, c2s>>
  BY <1>4, UntouchedKeeps DEF PingTick, recvVars, netVars
<1>. QED
  BY <1>1, <1>2, <1>3, <1>4 DEF PingTick

LEMMA InboundSignalKeeps ==
  ASSUME TypeOK, FocusInv, InboundSignal
  PROVE  FocusInv'
<1>1. ASSUME NEW e \in Edge, InboundReturnControl(e) PROVE FocusInv'
  <2>. ReturnVia(e) # Disconnected
    BY MessagesDiffer DEF ReturnMsg
  <2>1. EndSignalled' /\ UNCHANGED <<link, server>>
    BY <1>1, TakeSignalKeeps DEF InboundReturnControl, TakeSignal, serverVars
  <2>2. CASE state' # "Forwarding"
    BY <2>1, <2>2, NotForwardingKeeps
  <2>3. CASE state = "Forwarding" /\ Send(EdgeCrossed)
    BY <2>1, <2>3, EnteringKeeps DEF Looping
  <2>. QED
    BY <1>1, <2>2, <2>3 DEF InboundReturnControl, BackToLocal, loopVars
<1>2. CASE InboundPong
  <2>. Pong # Disconnected /\ Pong \notin ReturnMsg \cup {Disconnected}
    BY MessagesDiffer
  <2>1. EndSignalled'
    BY <1>2, TakeSignalKeeps DEF InboundPong
  <2>2. inbound \in Seq(Signal) /\ inbound # <<>> /\ Head(inbound) = Pong
        /\ inbound' = Tail(inbound)
    BY <1>2 DEF TypeOK, InboundPong, TakeSignal
  <2>3. Holds(inbound, ReturnMsg \cup {Disconnected}) =>
          Holds(inbound, ReturnMsg \cup {Disconnected})'
    BY <2>2, HoldsTail
  <2>. QED
    BY <1>2, <2>1, <2>3
    DEF InboundPong, TakeSignal, FocusInv, ReturnSuperseded, FocusNotStranded,
        Attached, RemoteKeepsControl, ReturnPending, EntryInFlight, serverVars
<1>3. CASE InboundDisconnected
  BY <1>3, BreakKeeps DEF InboundDisconnected
<1>. QED
  BY <1>1, <1>2, <1>3 DEF InboundSignal

LEMMA ClientLoopKeeps ==
  ASSUME TypeOK, FocusInv, ClientLoop
  PROVE  FocusInv'
<1>1. CASE EndSession
  BY <1>1, NotForwardingKeeps DEF EndSession, EndSignalled, Looping
<1>. QED
  BY <1>1, BreakKeeps, PingTickKeeps, ReclaimKeeps, EnterKeeps,
     InboundSignalKeeps
  DEF ClientLoop, EventStreamEnded, ClipboardSendFails, BroadcastReturnControl,
      BroadcastEdgeCrossed, BroadcastGoodbye, BroadcastSendFails

\* The receiver passes a ReturnControl from the wire on to the loop, and
\* replaces all it will not deliver by a Disconnected.
LEMMA ReceiverKeeps ==
  ASSUME TypeOK, FocusInv, ReceiverSteps \/ ReceiveGoodbye \/ ReceiveError
  PROVE  FocusInv'
<1>. inbound \in Seq(Signal) /\ s2c \in Seq(ServerMsg)
  BY DEF TypeOK
<1>1. CASE ReceiverSteps
  <2>. s2c # <<>> /\ s2c' = Tail(s2c) /\ receiver' # "Ended"
    BY <1>1 DEF ReceiverSteps, TypeOK
  <2>. DEFINE m == Head(s2c)
  <2>1. Holds(s2c, ReturnMsg \cup {Goodbye}) <=>
          m \in ReturnMsg \cup {Goodbye} \/ Holds(s2c', ReturnMsg \cup {Goodbye})
    BY HoldsTail
  <2>2. Attached /\ ReturnPending => ReturnPending'
    <3>1. CASE m = Other /\ UNCHANGED inbound
      BY <1>1, <2>1, <3>1, MessagesDiffer
      DEF ReturnPending, ReceiverSteps, serverVars
    <3>2. CASE m \in {Pong} \cup ReturnMsg /\ Signalled(m)
      <4>. SUFFICES ASSUME Attached, ReturnPending PROVE ReturnPending'
        OBVIOUS
      <4>1. inbound' = Append(inbound, m) /\ m \in Signal
        BY <3>2 DEF Signalled, Attached, Signal
      <4>2. Holds(inbound, ReturnMsg \cup {Disconnected})' <=>
              \/ Holds(inbound, ReturnMsg \cup {Disconnected})
              \/ m \in ReturnMsg \cup {Disconnected}
        BY <4>1, HoldsAppend
      <4>. QED
        BY <1>1, <2>1, <3>2, <4>2, MessagesDiffer
        DEF ReturnPending, ReceiverSteps, serverVars
    <3>. QED
      BY <1>1, <3>1, <3>2 DEF ReceiverSteps
  <2>. QED
    BY <1>1, <2>2
    DEF ReceiverSteps, FocusInv, ReturnSuperseded, EndSignalled,
        FocusNotStranded, Attached, RemoteKeepsControl, EntryInFlight,
        loopVars, serverVars
<1>2. CASE ReceiverEnds
  <2>1. Looping => Holds(inbound, {Disconnected})'
               /\ Holds(inbound, ReturnMsg \cup {Disconnected})'
    <3>. SUFFICES ASSUME Looping
                  PROVE  /\ Holds(inbound, {Disconnected})'
                         /\ Holds(inbound, ReturnMsg \cup {Disconnected})'
      OBVIOUS
    <3>1. inbound' = Append(inbound, Disconnected) /\ Disconnected \in Signal
      BY <1>2 DEF ReceiverEnds, Signalled, Looping, Signal
    <3>. QED
      BY <3>1, HoldsAppend
  <2>. QED
    BY <1>2, <2>1
    DEF ReceiverEnds, FocusInv, ReturnSuperseded, EndSignalled,
        FocusNotStranded, Attached, Looping, ReturnPending, EntryInFlight,
        loopVars, serverVars
<1>. QED
  BY <1>1, <1>2 DEF ReceiveGoodbye, ReceiveError

\* What taking the oldest message off the wire does to an entry on it.
LEMMA TakeEntry ==
  ASSUME TypeOK, NEW m, Take(m)
  PROVE  /\ Holds(c2s, {ReturnControl}) <=>
              m = ReturnControl \/ Holds(c2s, {ReturnControl})'
         /\ EntryInFlight =>
              \/ EntryInFlight'
              \/ m = EdgeCrossed /\ ~Holds(c2s, {ReturnControl})'
<1>. /\ c2s \in Seq(ClientMsg) /\ c2s # <<>>
     /\ Head(c2s) = m /\ c2s' = Tail(c2s)
  BY DEF TypeOK, Take
<1>. QED
  BY HoldsTail, EndsEnteringTail DEF EntryInFlight

\* The server reads a message that leaves control alone.
LEMMA QuietTakeKeeps ==
  ASSUME TypeOK, FocusInv, NEW m, Take(m), m \notin {EdgeCrossed, ReturnControl},
         UNCHANGED <<has_control, lost_return>>,
         Holds(outq, ReturnMsg) => Holds(outq, ReturnMsg)'
  PROVE  FocusInv'
<1>. /\ Holds(c2s, {ReturnControl}) <=> Holds(c2s, {ReturnControl})'
     /\ EntryInFlight => EntryInFlight'
  BY TakeEntry
<1>. QED
  BY DEF FocusInv, ReturnSuperseded, EndSignalled, FocusNotStranded, Attached,
     Looping, RemoteKeepsControl, ReturnPending, Take, clientVars, loopVars,
     recvVars

\* The server reads an EdgeCrossed or a ReturnControl.
LEMMA ControlTakeKeeps ==
  ASSUME TypeOK, FocusInv, ServerEdgeCrossed \/ ServerReturnControl
  PROVE  FocusInv'
<1>0. UNCHANGED <<state, receiver, inbound, link, server>>
  BY DEF ServerEdgeCrossed, ServerReturnControl, Take, clientVars, loopVars,
         recvVars
<1>1. CASE ServerEdgeCrossed
  <2>1. Attached => EntryInFlight' \/ ~Holds(c2s, {ReturnControl})'
    BY <1>1, TakeEntry DEF ServerEdgeCrossed, FocusInv, ReturnSuperseded
  <2>. QED
    BY <1>0, <1>1, <2>1
    DEF ServerEdgeCrossed, FocusInv, ReturnSuperseded, EndSignalled, Attached,
        FocusNotStranded, Looping, RemoteKeepsControl
<1>2. CASE ServerReturnControl
  <2>1. Attached => EntryInFlight'
    BY <1>2, TakeEntry, MessagesDiffer
    DEF ServerReturnControl, FocusInv, ReturnSuperseded
  <2>. QED
    BY <1>0, <1>2, <2>1
    DEF FocusInv, ReturnSuperseded, EndSignalled, Attached, FocusNotStranded,
        Looping
<1>. QED
  BY <1>1, <1>2

\* The remote cursor leaves: the ReturnControl is queued, or lost for good.
LEMMA ServerExitKeeps ==
  ASSUME TypeOK, FocusInv, NEW e \in Edge, ServerExit(e)
  PROVE  FocusInv'
<1>. MouseMove # ReturnControl /\ MouseMove # EdgeCrossed
  BY MessagesDiffer DEF InputMsg
<1>1. /\ Holds(c2s, {ReturnControl}) <=> Holds(c2s, {ReturnControl})'
      /\ EntryInFlight => EntryInFlight'
  BY TakeEntry DEF ServerExit
<1>2. Holds(outq, ReturnMsg)' \/ lost_return'
  <2>1. PICK q \in {outq, TrySend(outq, Other)} :
          outq' = Append(q, ReturnVia(e)) \/ lost_return'
    BY DEF ServerExit
  <2>2. outq \in Seq(OutMsg) /\ ReturnVia(e) \in OutMsg /\ Other \in OutMsg
    BY DEF TypeOK, OutMsg, ReturnMsg
  <2>3. q \in Seq(OutMsg)
    BY <2>2, AppendProperties DEF TrySend
  <2>4. Holds(Append(q, ReturnVia(e)), ReturnMsg)
    BY <2>2, <2>3, HoldsAppend DEF ReturnMsg
  <2>. QED
    BY <2>1, <2>4 DEF Holds
<1>. QED
  BY <1>1, <1>2
  DEF ServerExit, FocusInv, ReturnSuperseded, EndSignalled, FocusNotStranded,
      Attached, Looping, ReturnPending, Take, clientVars, loopVars, recvVars

LEMMA StopKeeps ==
  ASSUME FocusInv, ServerStops
  PROVE  FocusInv'
BY DEF FocusInv, ReturnSuperseded, EndSignalled, FocusNotStranded, Attached,
   Looping, ServerStops, clientVars, loopVars, recvVars

LEMMA ServerKeeps ==
  ASSUME TypeOK, FocusInv, ServerHandles \/ ServerReceiveError
  PROVE  FocusInv'
<1>1. CASE ServerPing
  <2>. Ping \notin {EdgeCrossed, ReturnControl}
    BY MessagesDiffer
  <2>1. outq \in Seq(OutMsg) /\ Pong \in OutMsg
    BY DEF TypeOK, OutMsg
  <2>2. Holds(outq, ReturnMsg) => Holds(outq, ReturnMsg)'
    BY <1>1, <2>1, HoldsAppend DEF ServerPing, TrySend
  <2>. QED
    BY <1>1, <2>2, QuietTakeKeeps DEF ServerPing
<1>2. ASSUME NEW ev \in InputMsg, Take(ev), UNCHANGED <<has_control, outq, lost_return>>
      PROVE  FocusInv'
  <2>. ev \notin {EdgeCrossed, ReturnControl}
    BY MessagesDiffer
  <2>. QED
    BY <1>2, QuietTakeKeeps
<1>3. CASE ServerInputIgnored
  BY <1>2, <1>3 DEF ServerInputIgnored
<1>4. ASSUME NEW k \in Keys, NEW b \in BOOLEAN, ServerKey(k, b) PROVE FocusInv'
  BY <1>2, <1>4 DEF ServerKey, InputMsg
<1>5. CASE ServerMouseMove
  BY <1>2, <1>5 DEF ServerMouseMove, InputMsg
<1>6. ASSUME NEW e \in ExitEdges, ServerExit(e) PROVE FocusInv'
  BY <1>6, ServerExitKeeps, ExitEdgesAssumption
<1>7. CASE ServerStops
  BY <1>7, StopKeeps
<1>. QED
  BY <1>1, <1>3, <1>4, <1>5, <1>6, <1>7, ControlTakeKeeps
  DEF ServerHandles, ServerReceiveError, ServerGoodbye, ServerInjectFails,
      ServerTimeout

\* A message leaves the outbound channel for the wire, or for nowhere when the
\* receiver has ended, which the loop has been told.
LEMMA OutboundKeeps ==
  ASSUME TypeOK, FocusInv, Outbound
  PROVE  FocusInv'
<1>. outq \in Seq(OutMsg) /\ s2c \in Seq(ServerMsg) /\ OutMsg \subseteq ServerMsg
  BY DEF TypeOK, ServerMsg
<1>0. /\ UNCHANGED <<state, receiver, inbound, link, c2s, server, has_control,
                     lost_return>>
  BY DEF Outbound, OutboundSend, OutboundBroadcast, ClipboardWatcher,
         clientVars, loopVars, recvVars, netVars, serverVars
<1>1. ASSUME Attached /\ ReturnPending => ReturnPending' PROVE FocusInv'
  BY <1>0, <1>1
  DEF FocusInv, ReturnSuperseded, EndSignalled, FocusNotStranded, Attached,
      Looping, RemoteKeepsControl, EntryInFlight
<1>2. CASE OutboundSend
  <2>. SUFFICES ASSUME Attached, ReturnPending PROVE ReturnPending'
    BY <1>1
  <2>1. CASE receiver = "Ended"
    <3>1. Holds(inbound, {Disconnected})
      BY <2>1 DEF FocusInv, EndSignalled, Attached, Looping
    <3>. QED
      BY <1>0, <3>1 DEF ReturnPending, Holds
  <2>2. CASE receiver = "Running"
    <3>. DEFINE m == Head(outq)
    <3>1. m \in OutMsg /\ outq # <<>> /\ outq' = Tail(outq)
      BY <1>2, HeadTailProperties DEF OutboundSend
    <3>2. Holds(outq, ReturnMsg) <=> m \in ReturnMsg \/ Holds(outq, ReturnMsg)'
      BY <3>1, HoldsTail
    <3>3. s2c' = Append(s2c, m)
      BY <1>2, <2>2 DEF OutboundSend, SendToClient, Attached
    <3>4. Holds(s2c, ReturnMsg \cup {Goodbye})' <=>
            Holds(s2c, ReturnMsg \cup {Goodbye}) \/ m \in ReturnMsg \cup {Goodbye}
      BY <3>1, <3>3, HoldsAppend
    <3>. QED
      BY <1>0, <3>2, <3>4 DEF ReturnPending
  <2>. QED
    BY <2>1, <2>2 DEF TypeOK
<1>3. ASSUME NEW m \in Broadcasts, OutboundBroadcast(m) PROVE FocusInv'
  <2>1. m \in ServerMsg
    BY BroadcastsAssumption
    DEF ServerMsg, OutMsg, ReturnMsg, Edge
  <2>2. s2c' = Append(s2c, m) /\ UNCHANGED outq
    BY <1>3 DEF OutboundBroadcast, SendToClient, serverVars
  <2>3. Holds(s2c, ReturnMsg \cup {Goodbye}) =>
          Holds(s2c, ReturnMsg \cup {Goodbye})'
    BY <2>1, <2>2, HoldsAppend
  <2>. QED
    BY <1>0, <1>1, <2>2, <2>3 DEF ReturnPending
<1>4. CASE ClipboardWatcher
  <2>1. outq' = Append(outq, Other) /\ Other \in OutMsg /\ UNCHANGED s2c
    BY <1>4 DEF ClipboardWatcher, OutMsg, netVars
  <2>2. Holds(outq, ReturnMsg) => Holds(outq, ReturnMsg)'
    BY <2>1, HoldsAppend
  <2>. QED
    BY <1>0, <1>1, <2>1, <2>2 DEF ReturnPending
<1>. QED
  BY <1>2, <1>3, <1>4 DEF Outbound

\* A ReturnControl on the wire while forwarding is superseded, a receiver that
\* has ended has said so, and the focus is not stranded: together an invariant.
THEOREM FocusInvHolds == Spec => []FocusInv
<1>1. Init => FocusInv
  <2>. SUFFICES ASSUME Init PROVE FocusInv
    OBVIOUS
  <2>. QED
    BY DEF Init, FocusInv, ReturnSuperseded, EndSignalled, FocusNotStranded,
           Attached
<1>2. ASSUME TypeOK, FocusInv, [Next]_vars PROVE FocusInv'
  <2>1. CASE Workers
    BY <1>2, <2>1, UntouchedKeeps
    DEF Workers, ApplyGrab, WorkerEnds, loopVars, recvVars
  <2>2. CASE LinkDown \/ PeerShutdown
    BY <1>2, <2>2
    DEF LinkDown, PeerShutdown, FocusInv, ReturnSuperseded, EndSignalled,
        FocusNotStranded, Attached, Looping, clientVars, loopVars, recvVars
  <2>4. CASE Shutdown
    BY <2>4, NotForwardingKeeps DEF Shutdown, EndSignalled, Looping
  <2>3. CASE UNCHANGED vars
    BY <1>2, <2>3, UntouchedKeeps DEF vars, clientVars, loopVars, recvVars
  <2>. QED
    BY <1>2, <2>1, <2>2, <2>3, <2>4, UserInputKeeps, ClientLoopKeeps,
       ReceiverKeeps, ServerKeeps, OutboundKeeps DEF Next, Failure
<1>. QED
  BY <1>1, <1>2, TypeCorrect, PTL DEF Spec

\* Input is never forwarded to a machine that neither has control, nor is
\* about to, nor has given it back, unless its ReturnControl was dropped.
THEOREM FocusNeverStranded == Spec => []FocusNotStranded
<1>1. FocusInv => FocusNotStranded
  BY DEF FocusInv
<1>. QED
  BY <1>1, FocusInvHolds, PTL

-----------------------------------------------------------------------------
(* One lemma for each action of Focus: what a step of Handoff has to do to *)
(* be that action.                                                         *)

\* What Focus says of the peer and of the connection is a matter of these.
LEMMA PeerUntouched ==
  ASSUME UNCHANGED <<link, server, has_control>>
  PROVE  /\ RemoteState' = RemoteState
         /\ (link = "Down" \/ server = "Ended")' = (link = "Down" \/ server = "Ended")
BY DEF RemoteState

\* Sending appends unless the connection is cut, in the terms of Focus.
LEMMA Says ==
  ASSUME TypeOK, NEW m, Send(m)
  PROVE  c2s' = IF link = "Down" \/ server = "Ended" THEN c2s ELSE Append(c2s, m)
BY DEF TypeOK, Send

LEMMA IsGoOut ==
  ASSUME TypeOK, Looping, Looping', Send(EdgeCrossed),
         active_coord' \in Coord \ {Origin},
         UNCHANGED <<link, server, has_control>>
  PROVE  F!Next
<1>1. F!Say(EdgeCrossed)
  BY Says DEF F!Say
<1>2. F!GoOut
  BY <1>1, PeerUntouched DEF F!GoOut
<1>. QED
  BY <1>2 DEF F!Next

LEMMA IsReclaim ==
  ASSUME TypeOK, Looping, Looping', Send(ReturnControl),
         active_coord # Origin, active_coord' = Origin,
         UNCHANGED <<link, server, has_control>>
  PROVE  F!Next
<1>1. F!Say(ReturnControl)
  BY Says DEF F!Say
<1>2. F!Reclaim
  BY <1>1, PeerUntouched DEF F!Reclaim
<1>. QED
  BY <1>2 DEF F!Next

LEMMA IsComeHome ==
  ASSUME Looping, Looping', active_coord # Origin, active_coord' = Origin,
         UNCHANGED <<link, server, has_control, c2s>>
  PROVE  F!Next
<1>1. F!ComeHome
  BY PeerUntouched DEF F!ComeHome
<1>. QED
  BY <1>1 DEF F!Next

\* Everything that is neither an entry nor a return is traffic.
LEMMA TrafficIs ==
  /\ InputMsg \subseteq ClientMsg \ {EdgeCrossed, ReturnControl}
  /\ Ping \in ClientMsg \ {EdgeCrossed, ReturnControl}
  /\ Goodbye \in ClientMsg \ {EdgeCrossed, ReturnControl}
BY MessagesDiffer, MessageTypes

LEMMA IsTalk ==
  ASSUME TypeOK, NEW m \in ClientMsg \ {EdgeCrossed, ReturnControl}, Send(m),
         Looping' = Looping,
         UNCHANGED <<active_coord, link, server, has_control>>
  PROVE  F!Next
<1>1. F!Say(m)
  BY Says DEF F!Say
<1>2. F!Talk
  BY <1>1, PeerUntouched DEF F!Talk
<1>. QED
  BY <1>2 DEF F!Next

LEMMA IsFinish ==
  ASSUME TypeOK, ~Looping', c2s' = c2s \/ Send(Goodbye),
         UNCHANGED <<active_coord, link, server, has_control>>
  PROVE  F!Next
<1>1. CASE c2s' = c2s
  <2>1. F!Finish
    BY <1>1, PeerUntouched DEF F!Finish
  <2>. QED
    BY <2>1 DEF F!Next
<1>2. CASE Send(Goodbye) /\ c2s' # c2s
  <2>1. ~(link = "Down" \/ server = "Ended") /\ c2s' = Append(c2s, Goodbye)
    BY <1>2, Says
  <2>2. Len(c2s) \in 0..Len(c2s) /\ SubSeq(c2s, 1, Len(c2s)) = c2s
    BY DEF TypeOK
  <2>3. F!Finish
    BY <2>1, <2>2, PeerUntouched, TrafficIs DEF F!Finish
  <2>. QED
    BY <2>3 DEF F!Next
<1>. QED
  BY <1>1, <1>2

\* The death of the controller takes the tail of the wire with it.
LEMMA IsDeath ==
  ASSUME TypeOK, Shutdown
  PROVE  F!Next
<1>0. ~Looping' /\ UNCHANGED <<active_coord, link, server, has_control>>
  BY DEF Shutdown, Looping, serverVars
<1>1. CASE c2s' = c2s
  BY <1>0, <1>1, IsFinish
<1>2. CASE c2s' # c2s
  <2>1. link = "Up" /\ server = "Running"
    BY <1>2 DEF Shutdown
  <2>2. PICK i \in 0..Len(c2s) : c2s' = Append(SubSeq(c2s, 1, i), Goodbye)
    BY <1>2 DEF Shutdown, Truncations
  <2>3. F!Finish
    BY <1>0, <2>1, <2>2, PeerUntouched, TrafficIs DEF F!Finish
  <2>. QED
    BY <2>3 DEF F!Next
<1>. QED
  BY <1>1, <1>2

LEMMA IsObey ==
  ASSUME TypeOK, NEW m, Take(m),
         \/ m = EdgeCrossed /\ has_control'
         \/ m = ReturnControl /\ ~has_control'
         \/ /\ m \in ClientMsg \ {EdgeCrossed, ReturnControl}
            /\ has_control' = has_control \/ ~has_control'
  PROVE  F!Next
<1>1. server = "Running" /\ server' = "Running"
  BY DEF Take
<1>2. UNCHANGED <<active_coord, state, link>>
  BY DEF Take, clientVars, loopVars
<1>3. RemoteState' = IF has_control' THEN "Controlled" ELSE "Idle"
  BY <1>1 DEF RemoteState
<1>4. RemoteState = IF has_control THEN "Controlled" ELSE "Idle"
  BY <1>1 DEF RemoteState
<1>5. Looping' = Looping
  BY <1>2 DEF Looping
<1>6. c2s # <<>> /\ Head(c2s) = m /\ c2s' = Tail(c2s)
  BY DEF Take
<1>7. has_control \in BOOLEAN
  BY DEF TypeOK
<1>8. F!Obey
  BY <1>1, <1>2, <1>3, <1>4, <1>5, <1>6, <1>7 DEF F!Obey
<1>. QED
  BY <1>8 DEF F!Next

LEMMA IsLeave ==
  ASSUME server' = "Ended", c2s' = <<>>, UNCHANGED clientVars
  PROVE  F!Next
<1>1. UNCHANGED active_coord /\ Looping' = Looping
  BY DEF clientVars, loopVars, Looping
<1>2. RemoteState' = "Gone"
  BY DEF RemoteState
<1>3. F!Leave
  BY <1>1, <1>2 DEF F!Leave
<1>. QED
  BY <1>3 DEF F!Next

LEMMA IsCut ==
  ASSUME LinkDown
  PROVE  F!Next
<1>1. UNCHANGED <<active_coord, has_control, server>> /\ Looping' = Looping
  BY DEF LinkDown, clientVars, loopVars, serverVars, Looping
<1>2. RemoteState' = RemoteState
  BY <1>1 DEF RemoteState
<1>3. F!Cut
  BY <1>1, <1>2 DEF F!Cut, LinkDown, Truncations
<1>. QED
  BY <1>3 DEF F!Next

LEMMA IsStutter ==
  ASSUME UNCHANGED <<active_coord, link, server, has_control, c2s>>,
         Looping' = Looping
  PROVE  UNCHANGED F!vars
BY PeerUntouched DEF F!vars

-----------------------------------------------------------------------------
(* The steps of Handoff.                                                   *)

\* What a step of Handoff becomes in Focus.
Simulated == F!Next \/ UNCHANGED F!vars

LEMMA BreakSimulated ==
  ASSUME TypeOK, NEW flag, Break(flag), c2s' = c2s \/ Send(Goodbye),
         UNCHANGED <<link, server, has_control>>
  PROVE  Simulated
<1>1. ~Looping' /\ UNCHANGED active_coord
  BY DEF Break, Looping
<1>. QED
  BY <1>1, IsFinish DEF Simulated

LEMMA EnterSimulated ==
  ASSUME TypeOK, NEW coord \in Coord \ {Origin}, Enter(coord)
  PROVE  Simulated
<1>0. UNCHANGED <<link, server, has_control>>
  BY DEF Enter, serverVars
<1>1. CASE Break(FALSE) /\ UNCHANGED c2s
  BY <1>0, <1>1, BreakSimulated
<1>2. CASE ~(Break(FALSE) /\ UNCHANGED c2s)
  BY <1>0, <1>2, IsGoOut DEF Enter, Looping, Simulated
<1>. QED
  BY <1>1, <1>2

LEMMA ReclaimSimulated ==
  ASSUME TypeOK, LoopStateAgrees, Reclaim
  PROVE  Simulated
<1>1. Looping /\ Looping' /\ active_coord # Origin /\ active_coord' = Origin
  BY DEF Reclaim, BackToLocal, Looping, LoopStateAgrees
<1>. QED
  BY <1>1, IsReclaim DEF Reclaim, serverVars, Simulated

LEMMA TraverseSimulated ==
  ASSUME TypeOK, NEW coord \in Coord \ {Origin}, Traverse(coord)
  PROVE  Simulated
BY IsGoOut DEF Traverse, Looping, serverVars, Simulated

LEMMA UserInputSimulated ==
  ASSUME TypeOK, LoopStateAgrees, UserInput
  PROVE  Simulated
<1>. Delta(TargetEdge) \in Coord \ {Origin}
  BY StepType, OriginType, TargetEdgeAssumption
<1>1. ASSUME NEW e \in Edge, CrossEdge(e) PROVE Simulated
  <2>1. active_coord = Origin
    BY <1>1 DEF CrossEdge, Enter, LoopStateAgrees
  <2>2. Step(active_coord, e) = Delta(e) /\ Delta(e) # Origin
    BY <2>1 DEF Step, Delta, Origin, Edge
  <2>3. Step(active_coord, e) \in Coord \ {Origin}
    BY <2>2, StepType, OriginType
  <2>. QED
    BY <1>1, <2>3, EnterSimulated DEF CrossEdge
<1>2. ASSUME NEW e \in Edge, DirectionalJump(e) PROVE Simulated
  <2>. active_coord \in Coord /\ Step(active_coord, e) \in Coord
    BY StepType DEF TypeOK
  <2>. QED
    BY <1>2, EnterSimulated, ReclaimSimulated, TraverseSimulated
    DEF DirectionalJump
<1>3. ASSUME SwitchScreen \/ EmergencyEscape PROVE Simulated
  BY <1>3, EnterSimulated, ReclaimSimulated DEF SwitchScreen, EmergencyEscape
<1>4. ASSUME NEW ev \in InputMsg, ForwardEvent(ev) PROVE Simulated
  <2>0. UNCHANGED <<link, server, has_control>>
    BY <1>4 DEF ForwardEvent, serverVars
  <2>1. CASE Send(ev) /\ UNCHANGED <<loopVars, grabVars>>
    <3>1. Looping' = Looping /\ UNCHANGED active_coord
      BY <2>1 DEF loopVars, Looping
    <3>. QED
      BY <2>0, <2>1, <3>1, TrafficIs, IsTalk DEF Simulated
  <2>2. CASE Break(is_forwarding) /\ UNCHANGED c2s
    BY <2>0, <2>2, BreakSimulated
  <2>. QED
    BY <1>4, <2>1, <2>2 DEF ForwardEvent
<1>. QED
  BY <1>1, <1>2, <1>3, <1>4 DEF UserInput

LEMMA ClientLoopSimulated ==
  ASSUME TypeOK, LoopStateAgrees, ClientLoop
  PROVE  Simulated
<1>1. ASSUME EventStreamEnded \/ ClipboardSendFails \/ BroadcastSendFails
      PROVE  Simulated
  BY <1>1, BreakSimulated
  DEF EventStreamEnded, ClipboardSendFails, BroadcastSendFails, netVars,
      serverVars
<1>2. ASSUME BroadcastGoodbye PROVE Simulated
  BY <1>2, BreakSimulated DEF BroadcastGoodbye, serverVars
<1>3. ASSUME PingTick PROVE Simulated
  <2>0. UNCHANGED <<active_coord, link, server, has_control>>
    BY <1>3 DEF PingTick, Break, serverVars
  <2>1. CASE ~Looping' /\ UNCHANGED c2s
    BY <2>0, <2>1, IsFinish DEF Simulated
  <2>2. CASE Looping' = Looping /\ Send(Ping)
    BY <2>0, <2>2, IsTalk, TrafficIs DEF Simulated
  <2>3. CASE Looping' = Looping /\ UNCHANGED c2s
    BY <2>0, <2>3, IsStutter DEF Simulated
  <2>. QED
    BY <1>3, <2>1, <2>2, <2>3 DEF PingTick, Break, Looping
<1>4. ASSUME BroadcastReturnControl \/ BroadcastEdgeCrossed PROVE Simulated
  <2>. Delta(TargetEdge) \in Coord \ {Origin}
    BY StepType, OriginType, TargetEdgeAssumption
  <2>. QED
    BY <1>4, EnterSimulated, ReclaimSimulated
    DEF BroadcastReturnControl, BroadcastEdgeCrossed
<1>5. ASSUME NEW e \in Edge, InboundReturnControl(e) PROVE Simulated
  <2>0. Looping /\ UNCHANGED <<link, server, has_control>>
    BY <1>5 DEF InboundReturnControl, TakeSignal, serverVars
  <2>1. CASE UNCHANGED <<loopVars, c2s>>
    <3>1. Looping' = Looping /\ UNCHANGED active_coord
      BY <2>1 DEF loopVars, Looping
    <3>. QED
      BY <2>0, <2>1, <3>1, IsStutter DEF Simulated
  <2>2. CASE state = "Forwarding" /\ BackToLocal /\ UNCHANGED c2s
    <3>1. active_coord # Origin /\ active_coord' = Origin /\ Looping'
      BY <2>2 DEF LoopStateAgrees, BackToLocal, Looping
    <3>. QED
      BY <2>0, <2>2, <3>1, IsComeHome DEF Simulated
  <2>3. CASE /\ active_coord' = Step(active_coord, e) /\ active_coord' # Origin
             /\ Send(EdgeCrossed) /\ state' = state
    <3>1. active_coord' \in Coord \ {Origin} /\ Looping'
      BY <2>0, <2>3, StepType DEF TypeOK, Looping
    <3>. QED
      BY <2>0, <2>3, <3>1, IsGoOut DEF Simulated
  <2>. QED
    BY <1>5, <2>1, <2>2, <2>3 DEF InboundReturnControl
<1>6. ASSUME InboundPong PROVE Simulated
  <2>1. UNCHANGED <<active_coord, link, server, has_control, c2s>>
    BY <1>6 DEF InboundPong, TakeSignal, serverVars
  <2>2. Looping' = Looping
    BY <1>6 DEF InboundPong, Looping
  <2>. QED
    BY <2>1, <2>2, IsStutter DEF Simulated
<1>7. ASSUME InboundDisconnected PROVE Simulated
  BY <1>7, BreakSimulated DEF InboundDisconnected, TakeSignal, serverVars
<1>8. ASSUME EndSession PROVE Simulated
  BY <1>8, IsFinish DEF EndSession, Looping, serverVars, Simulated
<1>. QED
  BY <1>1, <1>2, <1>3, <1>4, <1>5, <1>6, <1>7, <1>8
  DEF ClientLoop, InboundSignal

LEMMA TakeSimulated ==
  ASSUME TypeOK, NEW m, Take(m),
         \/ m = EdgeCrossed /\ has_control'
         \/ m = ReturnControl /\ ~has_control'
         \/ /\ m \in InputMsg \cup {Ping}
            /\ has_control' = has_control \/ ~has_control'
  PROVE  Simulated
BY IsObey, TrafficIs DEF Simulated

LEMMA ServerSimulated ==
  ASSUME TypeOK, ServerHandles \/ ServerReceiveError \/ PeerShutdown
  PROVE  Simulated
<1>1. ASSUME ServerEdgeCrossed \/ ServerReturnControl PROVE Simulated
  BY <1>1, TakeSimulated DEF ServerEdgeCrossed, ServerReturnControl
<1>2. ASSUME ServerInputIgnored PROVE Simulated
  BY <1>2, TakeSimulated DEF ServerInputIgnored
<1>3. ASSUME NEW k \in Keys, NEW b \in BOOLEAN, ServerKey(k, b)
      PROVE  Simulated
  BY <1>3, TakeSimulated DEF ServerKey, InputMsg
<1>4. ASSUME ServerMouseMove PROVE Simulated
  BY <1>4, TakeSimulated DEF ServerMouseMove, InputMsg
<1>5. ASSUME NEW e \in ExitEdges, ServerExit(e) PROVE Simulated
  <2>1. Take(MouseMove) /\ ~has_control' /\ MouseMove \in InputMsg
    BY <1>5 DEF ServerExit, InputMsg
  <2>. QED
    BY <2>1, TakeSimulated
<1>6. ASSUME ServerPing PROVE Simulated
  BY <1>6, TakeSimulated DEF ServerPing
<1>7. ASSUME \/ ServerGoodbye \/ ServerInjectFails \/ ServerTimeout
             \/ ServerReceiveError \/ PeerShutdown
      PROVE  Simulated
  BY <1>7, IsLeave
  DEF ServerGoodbye, ServerInjectFails, ServerTimeout, ServerReceiveError,
      PeerShutdown, ServerStops, Simulated
<1>. QED
  BY <1>1, <1>2, <1>3, <1>4, <1>5, <1>6, <1>7 DEF ServerHandles

\* The workers, the receiver and the outbound sender do nothing that Focus
\* speaks of.
LEMMA OthersSimulated ==
  ASSUME \/ Workers \/ ReceiverSteps \/ ReceiveGoodbye \/ ReceiveError
         \/ Outbound \/ UNCHANGED vars
  PROVE  Simulated
<1>1. UNCHANGED <<loopVars, link, server, has_control, c2s>>
  BY DEF Workers, ApplyGrab, WorkerEnds, ReceiverSteps, ReceiveGoodbye,
         ReceiveError, ReceiverEnds, Outbound, OutboundSend,
         OutboundBroadcast, ClipboardWatcher, vars, clientVars, netVars,
         serverVars
<1>2. UNCHANGED active_coord /\ Looping' = Looping
  BY <1>1 DEF loopVars, Looping
<1>. QED
  BY <1>1, <1>2, IsStutter DEF Simulated

-----------------------------------------------------------------------------
\* Handoff implements Focus.
THEOREM HandoffKeepsFocus == Spec => FocusKept
<1>1. Init => F!Init
  BY DEF Init, F!Init, Looping, RemoteState
<1>2. ASSUME TypeOK, LoopStateAgrees, [Next]_vars PROVE [F!Next]_(F!vars)
  BY <1>2, UserInputSimulated, ClientLoopSimulated, ServerSimulated,
     OthersSimulated, IsCut, IsDeath DEF Next, Failure, Simulated
<1>. QED
  BY <1>1, <1>2, TypeCorrect, StateAgrees, PTL DEF Spec, F!Spec, FocusKept
=============================================================================
