------------------------------ MODULE Handoff -------------------------------
(***************************************************************************)
(* The control hand-off between a controller (the client session of        *)
(* manguesechee-agent/src/client.rs) and the machine it controls (the      *)
(* server session of server.rs), over one established connection.          *)
(*                                                                         *)
(* The controller grabs its input devices and forwards their events while  *)
(* its event loop is "Forwarding"; the controlled side injects them into   *)
(* virtual devices while it has control.  The two sides agree on who has   *)
(* control only through the messages EdgeCrossed (controller -> peer) and  *)
(* ReturnControl (either way), which cross on the wire.                    *)
(*                                                                         *)
(* Four tasks run concurrently and are modelled as such: the controller's  *)
(* event loop, its inbound receiver, one capture worker per input device,  *)
(* and the server's message loop with its outbound sender.                 *)
(***************************************************************************)
EXTENDS Edges, Sequences

CONSTANTS
  Devices,    \* the controller's input devices, one capture worker each
  Keys,       \* keys and mouse buttons the user may press
  Grid,       \* cells of the topology that hold a screen (GridTopology)
  TargetEdge, \* the edge resolve_target_edge gives for this peer
  ExitEdges,  \* edges through which the remote cursor can leave
  Broadcasts, \* what the controlled machine's own IPC server may broadcast
  C2SCap, S2CCap, \* bounds of the model on the messages in flight
  InCap,      \* capacity of the inbound channel (32 in the code)
  OutCap,     \* capacity of the server's outbound channel (16 in the code)
  MaxMissed   \* heartbeats missed before giving up (4 in the code)

ASSUME TargetEdgeAssumption == TargetEdge \in Edge
ASSUME ExitEdgesAssumption == ExitEdges \subseteq Edge
ASSUME GridAssumption == Grid \subseteq Coord
ASSUME BoundsAssumption ==
  /\ C2SCap \in Nat /\ S2CCap \in Nat /\ InCap \in Nat /\ OutCap \in Nat
  /\ MaxMissed \in Nat

-----------------------------------------------------------------------------
(* Messages.  The edge and ratio of an EdgeCrossed, or of a ReturnControl  *)
(* sent by the controller, only place the remote cursor and are left out.  *)

EdgeCrossed   == [type |-> "EdgeCrossed"]
ReturnControl == [type |-> "ReturnControl"]
MouseMove     == [type |-> "MouseMove"]
Ping          == [type |-> "Ping"]
Pong          == [type |-> "Pong"]
Goodbye       == [type |-> "Goodbye"]
Disconnected  == [type |-> "Disconnected"]
Other         == [type |-> "Other"]  \* clipboard, file status, identity
KeyEvent(k, pressed) == [type |-> "Key", key |-> k, pressed |-> pressed]
ReturnVia(e) == [type |-> "ReturnControl", edge |-> e]

InputMsg  == {MouseMove} \cup {KeyEvent(k, b) : k \in Keys, b \in BOOLEAN}
ClientMsg == {EdgeCrossed, ReturnControl, Ping, Goodbye} \cup InputMsg
ReturnMsg == {ReturnVia(e) : e \in Edge}
OutMsg    == {Pong, Other} \cup ReturnMsg
ServerMsg == OutMsg \cup {Goodbye}
Signal    == {Pong, Disconnected} \cup ReturnMsg

\* SwitchScreen's ReturnControl always names the right edge.
ASSUME BroadcastsAssumption ==
  Broadcasts \subseteq {ReturnVia("Right"), Goodbye, Other}

VARIABLES
  \* the controller's event loop
  state,        \* "Local" | "Forwarding", then "Closing" and "Ended"
  active_coord, \* cell the user works on, Origin when local
  missed_pings,
  is_forwarding,\* the flag published in the agent's shared state
  \* grab watch channel and capture workers
  grab,         \* last value sent on grab_mouse_tx / grab_keyboard_tx
  unseen,       \* workers that have not yet observed that value
  workers,      \* workers still running
  grabbed,      \* devices held with EVIOCGRAB
  \* the controller's inbound receiver task
  receiver,     \* "Running" | "Ended"
  inbound,      \* the inbound channel
  \* the connection
  link,         \* "Up" | "Down"
  c2s, s2c,     \* messages on the wire, oldest first
  \* the server
  server,       \* "Running" | "Ended": its message loop
  has_control,
  held,         \* virtual keys and buttons it holds down
  outq,         \* its outbound channel
  \* history
  lost_return   \* a ReturnControl found outq full since the last entry

loopVars   == <<state, active_coord, missed_pings, is_forwarding>>
grabVars   == <<grab, unseen>>
workerVars == <<workers, grabbed>>
recvVars   == <<receiver, inbound>>
clientVars == <<loopVars, grabVars, workerVars, recvVars>>
netVars    == <<link, c2s, s2c>>
serverVars == <<server, has_control, held, outq, lost_return>>
vars       == <<clientVars, netVars, serverVars>>

-----------------------------------------------------------------------------
\* connect_to has just entered run_client_event_loop, handle (server.rs) has
\* queued its FileTransferStatus and entered run_server_event_loop.
Init ==
  /\ state = "Local" /\ active_coord = Origin
  /\ missed_pings = 0 /\ is_forwarding = FALSE
  /\ grab = FALSE /\ unseen = {} /\ workers = Devices /\ grabbed = {}
  /\ receiver = "Running" /\ inbound = <<>>
  /\ link = "Up" /\ c2s = <<>> /\ s2c = <<>>
  /\ server = "Running" /\ has_control = FALSE /\ held = {}
  /\ outq = <<Other>> /\ lost_return = FALSE

Looping == state \in {"Local", "Forwarding"}

-----------------------------------------------------------------------------
(* Sending on the connection.  A message sent on a dead link or to a       *)
(* server that no longer reads is lost; Len(c2s) < C2SCap is a bound of    *)
(* the model only.                                                         *)

CanSend == Len(c2s) < C2SCap

Send(m) ==
  c2s' = IF link = "Up" /\ server = "Running" THEN Append(c2s, m) ELSE c2s

\* tokio::sync::watch: only the latest value is kept, every worker is woken.
SetGrab(b) == grab' = b /\ unseen' = workers

\* Mutant: the error paths leave the ungrabbing to the guard.
BreakStillGrabbed(flag) ==
  /\ state' = "Closing" /\ is_forwarding' = flag
  /\ UNCHANGED <<active_coord, missed_pings, grabVars>>

\* A send returned an error: the event loop ungrabs and breaks.  The arms
\* differ in whether they also clear is_forwarding (GrabGuard does it later).
Break(flag) ==
  /\ SetGrab(FALSE)
  /\ state' = "Closing" /\ is_forwarding' = flag
  /\ UNCHANGED <<active_coord, missed_pings>>

\* grab, send EdgeCrossed, become Forwarding; or the send fails.
Enter(coord) ==
  /\ state = "Local"
  /\ CanSend
  /\ \/ /\ Send(EdgeCrossed)
        /\ SetGrab(TRUE)
        /\ state' = "Forwarding" /\ active_coord' = coord
        /\ is_forwarding' = TRUE
        /\ UNCHANGED missed_pings
     \/ /\ link = "Down"
        /\ Break(FALSE)
        /\ UNCHANGED c2s
  /\ UNCHANGED <<workerVars, recvVars, link, s2c, serverVars>>

\* Mutant: the cell of the topology is forgotten on the way back.
BackToLocalOnOldCell ==
  /\ SetGrab(FALSE)
  /\ state' = "Local"
  /\ is_forwarding' = FALSE
  /\ UNCHANGED <<active_coord, missed_pings>>

\* The state of the loop once control is back on the local screen.
BackToLocal ==
  /\ SetGrab(FALSE)
  /\ state' = "Local" /\ active_coord' = Origin
  /\ is_forwarding' = FALSE
  /\ UNCHANGED missed_pings

\* Mutant: ReturnControl is passed on like any other message.
ReclaimOnlyTellsPeer ==
  /\ state = "Forwarding"
  /\ CanSend
  /\ Send(ReturnControl)
  /\ UNCHANGED <<loopVars, grabVars, workerVars, recvVars, link, s2c,
                 serverVars>>

\* send ReturnControl (its error is ignored), ungrab, become Local.
Reclaim ==
  /\ state = "Forwarding"
  /\ CanSend
  /\ Send(ReturnControl)
  /\ BackToLocal
  /\ UNCHANGED <<workerVars, recvVars, link, s2c, serverVars>>

\* Move on to another screen without going through the local one.
Traverse(coord) ==
  /\ state = "Forwarding"
  /\ CanSend
  /\ Send(EdgeCrossed)
  /\ active_coord' = coord
  /\ UNCHANGED <<state, missed_pings, is_forwarding, grabVars, workerVars,
                 recvVars, link, s2c, serverVars>>

-----------------------------------------------------------------------------
(* Local input events.  Up to 512 of them are queued, so the loop may still *)
(* read some when no worker runs any more.                                  *)

\* A mouse motion for which EdgeDetector::update reports edge e; a crossing
\* that leads nowhere only repositions the tracked cursor.
CrossEdge(e) ==
  /\ Step(active_coord, e) \in Grid \/ e = TargetEdge
  /\ Enter(Step(active_coord, e))

\* HotkeyAction::DirectionalJump(e)
DirectionalJump(e) ==
  LET next == Step(active_coord, e) IN
  /\ \/ next = Origin /\ Reclaim
     \/ next # Origin /\ next \in Grid /\ (Enter(next) \/ Traverse(next))
     \/ /\ next # Origin /\ next \notin Grid
        /\ \/ e = TargetEdge /\ Enter(Delta(TargetEdge))
           \/ e = Opposite(TargetEdge) /\ Reclaim

\* HotkeyAction::SwitchScreen
SwitchScreen == Enter(Delta(TargetEdge)) \/ Reclaim

\* HotkeyAction::EmergencyEscape: without effect unless Forwarding.
EmergencyEscape == Reclaim

\* Any other event while Forwarding goes to the peer.  The send fails on a
\* dead link, or times out after 500 ms when the connection is stalled.
ForwardEvent(ev) ==
  /\ state = "Forwarding"
  /\ \/ CanSend /\ Send(ev) /\ UNCHANGED <<loopVars, grabVars>>
     \/ /\ link = "Down" \/ ~CanSend
        /\ Break(is_forwarding)
        /\ UNCHANGED c2s
  /\ UNCHANGED <<workerVars, recvVars, link, s2c, serverVars>>

\* Every capture worker has gone: the event stream ends.
EventStreamEnded ==
  /\ Looping
  /\ workers = {}
  /\ Break(FALSE)
  /\ UNCHANGED <<workerVars, recvVars, netVars, serverVars>>

-----------------------------------------------------------------------------
(* The other arms of the event loop.                                       *)

\* Mutant: unanswered pings are counted but never looked at.
PingTickNeverGivesUp ==
  /\ Looping
  /\ missed_pings' = 0
  /\ CanSend \/ link = "Down"
  /\ Send(Ping)
  /\ UNCHANGED <<state, active_coord, is_forwarding, grabVars, workerVars,
                 recvVars, link, s2c, serverVars>>

\* The 3 s heartbeat: give up after MaxMissed unanswered pings, else send
\* one; the send may fail, or time out (which only logs a warning).
PingTick ==
  /\ Looping
  /\ \/ /\ missed_pings >= MaxMissed
        /\ Break(is_forwarding)
        /\ UNCHANGED c2s
     \/ /\ missed_pings < MaxMissed
        /\ missed_pings' = missed_pings + 1
        /\ \/ /\ CanSend /\ Send(Ping)
              /\ UNCHANGED <<state, active_coord, is_forwarding, grabVars>>
           \/ /\ link = "Down"
              /\ SetGrab(FALSE) /\ state' = "Closing"
              /\ UNCHANGED <<active_coord, is_forwarding, c2s>>
           \/ /\ link = "Down" \/ ~CanSend
              /\ UNCHANGED <<state, active_coord, is_forwarding, grabVars, c2s>>
  /\ UNCHANGED <<workerVars, recvVars, link, s2c, serverVars>>

\* A clipboard message cannot be sent.  One that is sent does not touch the
\* variables of this module.
ClipboardSendFails ==
  /\ Looping
  /\ link = "Down"
  /\ Break(is_forwarding)
  /\ UNCHANGED <<workerVars, recvVars, netVars, serverVars>>

\* Messages broadcast by the IPC server of the controller's own agent: the
\* two that SwitchScreen sends, the Goodbye of Disconnect, and the rest, which
\* only matters when it cannot be forwarded.
BroadcastReturnControl == Reclaim

BroadcastEdgeCrossed == Enter(Delta(TargetEdge))

BroadcastGoodbye ==
  /\ Looping
  /\ CanSend
  /\ Send(Goodbye)
  /\ Break(FALSE)
  /\ UNCHANGED <<workerVars, recvVars, link, s2c, serverVars>>

BroadcastSendFails ==
  /\ Looping
  /\ link = "Down"
  /\ Break(FALSE)
  /\ UNCHANGED <<workerVars, recvVars, netVars, serverVars>>

\* The loop takes signal m from the inbound channel.
TakeSignal(m) ==
  /\ Looping
  /\ inbound # <<>> /\ Head(inbound) = m
  /\ inbound' = Tail(inbound)
  /\ UNCHANGED <<receiver, workerVars, link, s2c, serverVars>>

\* Mutant: the next screen is not told that it is entered.
InboundReturnControlUnannounced(e) ==
  LET next == Step(active_coord, e) IN
  /\ TakeSignal(ReturnVia(e))
  /\ \/ state = "Local" /\ UNCHANGED <<loopVars, grabVars>>
     \/ /\ state = "Forwarding"
        /\ next = Origin \/ next \notin Grid
        /\ BackToLocal
     \/ /\ state = "Forwarding"
        /\ next # Origin /\ next \in Grid
        /\ active_coord' = next
        /\ UNCHANGED <<state, missed_pings, is_forwarding, grabVars>>
  /\ UNCHANGED c2s

\* InboundSignal::ReturnControl(e): the remote cursor left through edge e.
\* It is ignored unless Forwarding.  An EdgeCrossed that cannot be sent to
\* the next screen is lost.
InboundReturnControl(e) ==
  LET next == Step(active_coord, e) IN
  /\ TakeSignal(ReturnVia(e))
  /\ \/ state = "Local" /\ UNCHANGED <<loopVars, grabVars, c2s>>
     \/ /\ state = "Forwarding"
        /\ next = Origin \/ next \notin Grid
        /\ BackToLocal
        /\ UNCHANGED c2s
     \/ /\ state = "Forwarding"
        /\ next # Origin /\ next \in Grid
        /\ active_coord' = next
        /\ CanSend /\ Send(EdgeCrossed)
        /\ UNCHANGED <<state, missed_pings, is_forwarding, grabVars>>

InboundPong ==
  /\ TakeSignal(Pong)
  /\ missed_pings' = 0
  /\ UNCHANGED <<state, active_coord, is_forwarding, grabVars, c2s>>

\* InboundSignal::Disconnected; the receiver always sends it before it ends,
\* so the loop never meets a closed channel.
InboundDisconnected ==
  /\ TakeSignal(Disconnected)
  /\ Break(is_forwarding)
  /\ UNCHANGED c2s

\* The end of connect_to: send Goodbye, drop the guards, the channels and the
\* sending half.  The server reads the Goodbye, or the end of the stream.
EndSession ==
  /\ state = "Closing"
  /\ Send(Goodbye)
  /\ SetGrab(FALSE)
  /\ state' = "Ended" /\ is_forwarding' = FALSE
  /\ inbound' = <<>>
  /\ UNCHANGED <<active_coord, missed_pings, receiver, workerVars, link, s2c,
                 serverVars>>

-----------------------------------------------------------------------------
(* Capture workers.                                                        *)

\* Mutant: a worker that wakes up grabs its device.
ApplyGrabIgnoresValue(d) ==
  /\ d \in unseen
  /\ unseen' = unseen \ {d}
  /\ grabbed' = grabbed \cup {d}
  /\ UNCHANGED <<loopVars, grab, workers, recvVars, netVars, serverVars>>

\* Worker d observes the watch channel.  EVIOCGRAB fails when another
\* process holds the device; the failure is logged and not retried.
ApplyGrab(d) ==
  /\ d \in unseen
  /\ unseen' = unseen \ {d}
  /\ \/ grab /\ grabbed' = grabbed \cup {d}
     \/ grab /\ d \notin grabbed /\ UNCHANGED grabbed
     \/ ~grab /\ grabbed' = grabbed \ {d}
  /\ UNCHANGED <<loopVars, grab, workers, recvVars, netVars, serverVars>>

\* Mutant: a worker ends without ungrabbing.
WorkerEndsGrabbing(d) ==
  /\ d \in workers
  /\ workers' = workers \ {d}
  /\ unseen' = unseen \ {d}
  /\ UNCHANGED <<loopVars, grabbed, grab, recvVars, netVars, serverVars>>

\* Worker d ends, ungrabbing: its device cannot be read any more, or nobody
\* takes its events.
WorkerEnds(d) ==
  /\ d \in workers
  /\ workers' = workers \ {d} /\ grabbed' = grabbed \ {d}
  /\ unseen' = unseen \ {d}
  /\ UNCHANGED <<loopVars, grab, recvVars, netVars, serverVars>>

-----------------------------------------------------------------------------
(* The controller's inbound receiver.                                      *)

\* Pass m on to the event loop, waiting for room; once connect_to has
\* returned nobody listens.
Signalled(m) ==
  IF state = "Ended" THEN UNCHANGED inbound
  ELSE Len(inbound) < InCap /\ inbound' = Append(inbound, m)

\* Mutant: a ReturnControl is logged and not passed on.
ReceiverDropsReturn ==
  /\ receiver = "Running"
  /\ s2c # <<>>
  /\ s2c' = Tail(s2c)
  /\ \/ Head(s2c) = Pong /\ Signalled(Pong)
     \/ Head(s2c) \in {Other} \cup ReturnMsg /\ UNCHANGED inbound
  /\ UNCHANGED <<loopVars, grabVars, workerVars, receiver, link, c2s,
                 serverVars>>

ReceiverSteps ==
  /\ receiver = "Running"
  /\ s2c # <<>>
  /\ s2c' = Tail(s2c)
  /\ \/ Head(s2c) \in {Pong} \cup ReturnMsg /\ Signalled(Head(s2c))
     \/ Head(s2c) = Other /\ UNCHANGED inbound
  /\ UNCHANGED <<loopVars, grabVars, workerVars, receiver, link, c2s,
                 serverVars>>

\* The receiver tells the loop, releases the grabs itself and ends; nothing
\* reads the connection any more.
ReceiverEnds ==
  /\ receiver = "Running"
  /\ receiver' = "Ended"
  /\ Signalled(Disconnected)
  /\ SetGrab(FALSE)
  /\ s2c' = <<>>
  /\ UNCHANGED <<loopVars, workerVars, link, c2s, serverVars>>

ReceiveGoodbye == s2c # <<>> /\ Head(s2c) = Goodbye /\ ReceiverEnds

ReceiveError == link = "Down" /\ ReceiverEnds

-----------------------------------------------------------------------------
(* The server's message loop (handle_server_message).                      *)

\* The loop takes message m from the wire.
Take(m) ==
  /\ server = "Running"
  /\ c2s # <<>> /\ Head(c2s) = m
  /\ c2s' = Tail(c2s)
  /\ UNCHANGED <<clientVars, link, s2c, server>>

\* try_send on the outbound channel: the message is dropped when it is full.
TrySend(q, m) == IF Len(q) < OutCap THEN Append(q, m) ELSE q

ServerEdgeCrossed ==
  /\ Take(EdgeCrossed)
  /\ has_control' = TRUE
  /\ lost_return' = FALSE
  /\ UNCHANGED <<held, outq>>

\* Mutant: control is reclaimed and the keys stay down.
ServerReturnControlHolding ==
  /\ Take(ReturnControl)
  /\ has_control' = FALSE
  /\ UNCHANGED <<held, outq, lost_return>>

ServerReturnControl ==
  /\ Take(ReturnControl)
  /\ has_control' = FALSE
  /\ held' = {}
  /\ UNCHANGED <<outq, lost_return>>

\* Events that arrive without control are ignored.
ServerInputIgnored ==
  \E ev \in InputMsg :
    /\ ~has_control
    /\ Take(ev)
    /\ UNCHANGED <<has_control, held, outq, lost_return>>

\* Inject a key or button event into the virtual devices.
ServerKey(k, pressed) ==
  /\ has_control
  /\ Take(KeyEvent(k, pressed))
  /\ held' = IF pressed THEN held \cup {k} ELSE held \ {k}
  /\ UNCHANGED <<has_control, outq, lost_return>>

\* A motion that keeps the remote cursor on the screen.
ServerMouseMove ==
  /\ has_control
  /\ Take(MouseMove)
  /\ UNCHANGED <<has_control, held, outq, lost_return>>

\* A motion that takes the remote cursor over edge e: give control up,
\* release everything, queue the clipboard if it is new, then ReturnControl.
ServerExit(e) ==
  /\ has_control
  /\ Take(MouseMove)
  /\ has_control' = FALSE
  /\ held' = {}
  /\ \E q \in {outq, TrySend(outq, Other)} :
       \/ /\ Len(q) < OutCap
          /\ outq' = Append(q, ReturnVia(e)) /\ lost_return' = FALSE
       \/ /\ Len(q) >= OutCap
          /\ outq' = q /\ lost_return' = TRUE

ServerPing ==
  /\ Take(Ping)
  /\ outq' = TrySend(outq, Pong)
  /\ UNCHANGED <<has_control, held, lost_return>>

\* Mutant: the devices are not released when the loop stops.
ServerStopsHolding ==
  /\ server = "Running"
  /\ server' = "Ended"
  /\ c2s' = <<>>
  /\ UNCHANGED <<clientVars, link, s2c, has_control, held, outq, lost_return>>

\* The message loop stops and the virtual devices are released.  The sending
\* half lives on in the outbound sender: the connection is not closed.
ServerStops ==
  /\ server = "Running"
  /\ server' = "Ended"
  /\ held' = {}
  /\ c2s' = <<>>
  /\ UNCHANGED <<clientVars, link, s2c, has_control, outq, lost_return>>

ServerGoodbye == c2s # <<>> /\ Head(c2s) = Goodbye /\ ServerStops

\* A virtual device refuses an event.
ServerInjectFails ==
  has_control /\ c2s # <<>> /\ Head(c2s) \in InputMsg /\ ServerStops

\* Nothing arrived for 5 s while the peer had control.
ServerTimeout == has_control /\ c2s = <<>> /\ ServerStops

ServerReceiveError == link = "Down" /\ c2s = <<>> /\ ServerStops

-----------------------------------------------------------------------------
(* The server's outbound sender, which outlives the message loop.          *)

SendToClient(m) ==
  IF link = "Up" /\ receiver = "Running"
  THEN Len(s2c) < S2CCap /\ s2c' = Append(s2c, m)
  ELSE UNCHANGED s2c

OutboundSend ==
  /\ outq # <<>>
  /\ SendToClient(Head(outq))
  /\ outq' = Tail(outq)
  /\ UNCHANGED <<clientVars, link, c2s, server, has_control, held, lost_return>>

\* What the IPC server of the controlled agent broadcasts goes out on every
\* session, those in which the agent is the controlled side included:
\* SwitchScreen's ReturnControl, Goodbye, and the rest.
OutboundBroadcast(m) ==
  /\ link = "Up" /\ receiver = "Running"
  /\ SendToClient(m)
  /\ UNCHANGED <<clientVars, link, c2s, serverVars>>

\* The clipboard watcher waits for room in the outbound channel.
ClipboardWatcher ==
  /\ server = "Running"
  /\ Len(outq) < OutCap
  /\ outq' = Append(outq, Other)
  /\ UNCHANGED <<clientVars, netVars, server, has_control, held, lost_return>>

-----------------------------------------------------------------------------
(* Failures, and GuiCommand::Shutdown, which exits without a Goodbye.      *)

\* What arrives of q when its tail is lost.
Truncations(q) == {SubSeq(q, 1, i) : i \in 0..Len(q)}

\* The connection breaks: the last messages in flight are lost.
LinkDown ==
  /\ link = "Up"
  /\ link' = "Down"
  /\ c2s' \in Truncations(c2s) /\ s2c' \in Truncations(s2c)
  /\ UNCHANGED <<clientVars, serverVars>>

\* The controller's process exits.  The kernel closes its devices, which
\* ungrabs them, and the connection: the server reads the end of the stream.
Shutdown ==
  /\ state # "Ended"
  /\ state' = "Ended" /\ is_forwarding' = FALSE
  /\ grab' = FALSE /\ unseen' = {} /\ workers' = {} /\ grabbed' = {}
  /\ receiver' = "Ended" /\ inbound' = <<>>
  /\ \/ /\ link = "Up" /\ server = "Running"
        /\ \E q \in Truncations(c2s) : c2s' = Append(q, Goodbye)
     \/ /\ link = "Down" \/ server = "Ended"
        /\ UNCHANGED c2s
  /\ s2c' = <<>>
  /\ UNCHANGED <<active_coord, missed_pings, link, serverVars>>

\* The controlled machine's process exits.  The kernel destroys its virtual
\* devices, which releases them, and closes the connection.
PeerShutdown ==
  /\ server = "Running"
  /\ server' = "Ended"
  /\ held' = {} /\ outq' = <<>> /\ c2s' = <<>>
  /\ link' = "Down"
  /\ s2c' \in Truncations(s2c)
  /\ UNCHANGED <<clientVars, has_control, lost_return>>

-----------------------------------------------------------------------------
UserInput ==
  \/ \E e \in Edge : CrossEdge(e) \/ DirectionalJump(e)
  \/ SwitchScreen
  \/ EmergencyEscape
  \/ \E ev \in InputMsg : ForwardEvent(ev)

InboundSignal ==
  \/ \E e \in Edge : InboundReturnControl(e)
  \/ InboundPong
  \/ InboundDisconnected

ClientLoop ==
  \/ EventStreamEnded
  \/ PingTick
  \/ ClipboardSendFails
  \/ BroadcastReturnControl \/ BroadcastEdgeCrossed \/ BroadcastGoodbye
  \/ BroadcastSendFails
  \/ InboundSignal
  \/ EndSession

Workers == \E d \in Devices : ApplyGrab(d) \/ WorkerEnds(d)

\* What the server does with the messages it reads, and its 5 s timeout.
ServerHandles ==
  \/ ServerEdgeCrossed
  \/ ServerReturnControl
  \/ ServerInputIgnored
  \/ \E k \in Keys, b \in BOOLEAN : ServerKey(k, b)
  \/ ServerMouseMove
  \/ \E e \in ExitEdges : ServerExit(e)
  \/ ServerPing
  \/ ServerGoodbye \/ ServerInjectFails \/ ServerTimeout

Outbound ==
  \/ OutboundSend
  \/ \E m \in Broadcasts : OutboundBroadcast(m)
  \/ ClipboardWatcher

Failure == LinkDown \/ Shutdown \/ PeerShutdown

Next ==
  \/ UserInput
  \/ ClientLoop
  \/ Workers
  \/ ReceiverSteps \/ ReceiveGoodbye \/ ReceiveError
  \/ ServerHandles \/ ServerReceiveError
  \/ Outbound
  \/ Failure

Spec == Init /\ [][Next]_vars

(***************************************************************************)
(* Fairness.  Every arm of the event loop's select! that is ready is       *)
(* eventually taken, the ticker included, and so is every other task's     *)
(* next step.  The user, the IPC clients, the watcher and the network owe  *)
(* nothing; neither does a read error, since a silent link may never give  *)
(* one.  OutboundSend is strongly fair because the bound on s2c, which a   *)
(* broadcast may take first, is the model's and not the connection's.      *)
(***************************************************************************)
Fairness ==
  /\ WF_vars(PingTick)
  /\ WF_vars(InboundSignal)
  /\ WF_vars(EndSession)
  /\ \A d \in Devices : WF_vars(ApplyGrab(d))
  /\ WF_vars(ReceiverSteps)
  /\ WF_vars(ReceiveGoodbye)
  /\ WF_vars(ServerHandles)
  /\ SF_vars(OutboundSend)

FairSpec == Spec /\ Fairness

-----------------------------------------------------------------------------
(* Properties.                                                             *)

\* The types of the variables.
TypeOK ==
  /\ state \in {"Local", "Forwarding", "Closing", "Ended"}
  /\ active_coord \in Coord
  /\ missed_pings \in Nat
  /\ is_forwarding \in BOOLEAN
  /\ grab \in BOOLEAN
  /\ unseen \subseteq workers /\ workers \subseteq Devices
  /\ grabbed \subseteq workers
  /\ receiver \in {"Running", "Ended"}
  /\ inbound \in Seq(Signal)
  /\ link \in {"Up", "Down"}
  /\ c2s \in Seq(ClientMsg) /\ s2c \in Seq(ServerMsg)
  /\ server \in {"Running", "Ended"}
  /\ has_control \in BOOLEAN
  /\ held \subseteq Keys
  /\ outq \in Seq(OutMsg)
  /\ lost_return \in BOOLEAN

\* Virtual keys are held down only by a running server session that has
\* control: whatever takes control away (the controller, the remote cursor, a
\* timeout, the end of the session) releases them (server.rs:453-486, 646).
HeldOnlyWithControl == held # {} => has_control /\ server = "Running"

Holds(q, ms) == \E i \in DOMAIN q : q[i] \in ms

\* q holds an EdgeCrossed, and no ReturnControl after it.
EndsEntering(q) ==
  \E i \in DOMAIN q :
    q[i] = EdgeCrossed /\ \A j \in DOMAIN q : j > i => q[j] # ReturnControl

\* The server has still to read an EdgeCrossed that it will not have to undo.
EntryInFlight == EndsEntering(c2s)

\* The server keeps control once it has read everything sent to it.
RemoteKeepsControl == has_control /\ ~Holds(c2s, {ReturnControl})

\* A ReturnControl, or the end of the session, is on its way to the loop.
ReturnPending ==
  \/ Holds(outq, ReturnMsg)
  \/ Holds(s2c, ReturnMsg \cup {Goodbye})
  \/ Holds(inbound, ReturnMsg \cup {Disconnected})

Attached == state = "Forwarding" /\ link = "Up" /\ server = "Running"

\* While the controller forwards its input the other side has control, or is
\* about to get it, or has told the controller to take it back; else the user
\* types into nothing.  The one exception is a ReturnControl that found the
\* outbound channel full (server.rs:480).
FocusNotStranded ==
  Attached =>
    EntryInFlight \/ RemoteKeepsControl \/ ReturnPending \/ lost_return

\* A ReturnControl still on the wire while forwarding has been superseded by a
\* later EdgeCrossed.
ReturnSuperseded == Attached => EntryInFlight \/ ~Holds(c2s, {ReturnControl})

\* A receiver that has ended has told the loop so.
EndSignalled ==
  receiver = "Ended" /\ Looping => Holds(inbound, {Disconnected})

\* FocusNotStranded is inductive only together with those two.
FocusInv == ReturnSuperseded /\ EndSignalled /\ FocusNotStranded

\* The loop's state, the cell it believes to be on, the flag it publishes and
\* the grab it asks for never disagree, on any of the paths that enter, leave,
\* fail or are disconnected (client.rs:713-1155): it forwards exactly when on
\* a cell that exists, is_forwarding says so, and it wants the grab then and
\* only then, unless the receiver has already withdrawn it.
LoopStateAgrees ==
  /\ state = "Local" => active_coord = Origin
  /\ state = "Forwarding" =>
       /\ active_coord \in (Grid \cup {Delta(TargetEdge)}) \ {Origin}
       /\ grab \/ receiver = "Ended"
  /\ grab => state = "Forwarding"
  /\ Looping => is_forwarding = (state = "Forwarding")
  /\ state = "Ended" => ~is_forwarding

\* A device is grabbed while the user is not forwarding only as long as its
\* worker has not yet looked at the watch channel.
GrabbedOnlyWhileForwarding ==
  state # "Forwarding" => grabbed \subseteq unseen

\* When the connection breaks or the server session stops, even silently, the
\* controller ends its session and gives every device back.
PeerLossFreesDevices ==
  link = "Down" \/ server = "Ended" ~> state = "Ended" /\ grabbed = {}

\* When the connection breaks or the controller's session ends, the server
\* releases the keys it holds down for good.
SessionEndReleasesKeys ==
  (link = "Down" \/ state = "Ended") ~> [](held = {})

\* Input forwarded to a machine without control is a passing state: it gets
\* control, or the controller takes it back, unless the ReturnControl was lost.
StrandedFocusResolves ==
  state = "Forwarding" /\ ~has_control ~>
    state # "Forwarding" \/ has_control \/ lost_return
=============================================================================
