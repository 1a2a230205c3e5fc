-------------------------------- MODULE Desk --------------------------------
(***************************************************************************)
(* The desk of a controller: its tracked cursor (EdgeDetector), the list   *)
(* of peers from which the grid is rebuilt at every look-up (GridTopology) *)
(* and the cell the user works on, while the GUI, the command line and the *)
(* peers rearrange the screens.  It models what the event loop of          *)
(* client.rs, the commands of ipc_server.rs and the receivers do with      *)
(* them; the wire and the grabs are the business of Handoff, so the send   *)
(* of EdgeCrossed succeeds here.                                           *)
(***************************************************************************)
EXTENDS EdgeDetector, GridTopology

CONSTANTS
  Peers,    \* names of machines; a name stands for the address as well
  Peer,     \* the one this session controls
  Local,    \* the id of this machine's own screen
  Motions,  \* relative motions of the mouse, [x |-> dx, y |-> dy]
  Ratios,   \* where on its edge the remote cursor may leave
  Words,    \* the positions an edit may ask for
  GridCells,\* the cells an edit may ask for
  Lockable, \* may the user lock the cursor?
  MaxDrift  \* bound of the model on how far off the screen it is tracked

ASSUME PeerAssumption == Peer \in Peers /\ Local \notin Peers

Word == {"left", "right", "above", "below"}

ASSUME WordsAssumption == Words \subseteq Word

ASSUME InputsAssumption ==
  /\ Motions \subseteq [Axes -> Int] /\ Ratios \subseteq Nat
  /\ GridCells \subseteq Coord /\ MaxDrift \in Nat

VARIABLES
  peers,        \* AgentState.peers: [name, position, cell]
  state,        \* "Local" | "Forwarding"
  active_coord,
  edge,         \* the controller's EdgeDetector
  \* history
  entry,        \* [edge, travel]: the edge the cursor last came in by, and
                \* how far it has been pushed back towards it
  crossing      \* what the last step reported: [edge, speed, entry, locked]

deskVars == <<peers, state, active_coord, edge, entry, crossing>>

NoCrossing == [edge |-> None, speed |-> 0,
               entry |-> [edge |-> None, travel |-> 0], locked |-> FALSE]
NoEntry == [edge |-> None, travel |-> 0]

WordCell(w) ==
  CASE w = "left"  -> <<-1, 0>>
    [] w = "right" -> <<1, 0>>
    [] w = "above" -> <<0, 1>>
    [] w = "below" -> <<0, -1>>

CellWord(c) ==
  CASE c[1] < 0 -> "left"
    [] c[1] > 0 -> "right"
    [] c[1] = 0 /\ c[2] > 0  -> "above"
    [] c[1] = 0 /\ c[2] <= 0 -> "below"

WordEdge(w) ==
  CASE w = "left"  -> "Left"
    [] w = "right" -> "Right"
    [] w = "above" -> "Top"
    [] w = "below" -> "Bottom"

OppositeWord(w) ==
  CASE w = "left"  -> "right"
    [] w = "right" -> "left"
    [] w = "above" -> "below"
    [] w = "below" -> "above"

grid == FromPeerInfos(peers, Local)

\* Entries of the list that a request for address a means; all of them when
\* the address is empty, and the only one whatever its address.
Meant(a, i) == a = "" \/ Len(peers) = 1 \/ peers[i].name = a

\* resolve_target_edge
TargetEdge ==
  LET found == {i \in DOMAIN peers : Meant(Peer, i)}
      first == CHOOSE i \in found : \A j \in found : i <= j
  IN IF found = {} THEN "Right" ELSE WordEdge(peers[first].position)

\* The session's peer is registered on the right (register_peer_in_ipc_...).
Init ==
  /\ peers = <<[name |-> Peer, position |-> "right", cell |-> <<1, 0>>]>>
  /\ state = "Local" /\ active_coord = Origin
  /\ edge = NewDetector(FALSE)
  /\ entry = NoEntry /\ crossing = NoCrossing

-----------------------------------------------------------------------------
(* The cursor.                                                             *)

\* A crossing counts when a screen stands there, or on the peer's own side.
LeadsSomewhere(e) ==
  Step(active_coord, e) \in Cells(grid) \/ e = TargetEdge

Pushed(d) ==
  IF entry.edge = None THEN entry
  ELSE LET v == Speed(d, entry.edge) IN
       [entry EXCEPT !.travel =
          Clamp(IF v > 0 THEN @ + v ELSE @, 0, Margin(entry.edge))]

\* A mouse motion on the local screen.
LocalMotion(d) ==
  LET u == Update(edge, d) IN
  /\ state = "Local"
  /\ \A a \in Axes : u.det.pos[a] \in -MaxDrift..(Size[a] + MaxDrift)
  /\ \/ /\ u.out = None
        /\ edge' = u.det /\ entry' = Pushed(d) /\ crossing' = NoCrossing
        /\ UNCHANGED <<state, active_coord>>
     \/ /\ u.out # None
        /\ crossing' = [edge |-> u.out, speed |-> Speed(d, u.out),
                        entry |-> Pushed(d), locked |-> edge.locked]
        /\ IF LeadsSomewhere(u.out)
           THEN /\ state' = "Forwarding"
                /\ active_coord' = Step(active_coord, u.out)
                /\ edge' = u.det
                /\ UNCHANGED entry
           ELSE /\ edge' = PlaceAtEntry(u.det, u.out, NoRatio)
                /\ entry' = [edge |-> u.out, travel |-> 0]
                /\ UNCHANGED <<state, active_coord>>
  /\ UNCHANGED peers

\* The hotkey or the IPC command takes the user away; the tracked cursor goes
\* to the middle.
GoTo(cell) ==
  /\ state = "Local"
  /\ state' = "Forwarding" /\ active_coord' = cell
  /\ edge' = PlaceAtCenter(edge)
  /\ entry' = NoEntry /\ crossing' = NoCrossing
  /\ UNCHANGED peers

ComeBack ==
  /\ state = "Forwarding"
  /\ state' = "Local" /\ active_coord' = Origin
  /\ edge' = PlaceAtCenter(edge)
  /\ entry' = NoEntry /\ crossing' = NoCrossing
  /\ UNCHANGED peers

MoveOn(cell) ==
  /\ state = "Forwarding"
  /\ active_coord' = cell /\ crossing' = NoCrossing
  /\ UNCHANGED <<peers, state, edge, entry>>

SwitchScreen == GoTo(Delta(TargetEdge)) \/ ComeBack

DirectionalJump(e) ==
  LET next == Step(active_coord, e) IN
  IF next = Origin THEN ComeBack
  ELSE IF next \in Cells(grid) THEN GoTo(next) \/ MoveOn(next)
  ELSE \/ e = TargetEdge /\ GoTo(Delta(TargetEdge))
       \/ e = Opposite(TargetEdge) /\ ComeBack

\* ReturnControl from the peer: its cursor left over edge e at the given
\* ratio; SwitchScreen on its side always says "Right", and gives no ratio.
InboundReturnControl(e, ratio) ==
  LET next == Step(active_coord, e) IN
  /\ state = "Forwarding"
  /\ IF next = Origin \/ next \notin Cells(grid)
     THEN /\ state' = "Local" /\ active_coord' = Origin
          /\ edge' = PlaceAtEntry(edge, Opposite(e), ratio)
          /\ entry' = [edge |-> Opposite(e), travel |-> 0]
          /\ crossing' = NoCrossing
          /\ UNCHANGED peers
     ELSE MoveOn(next)

\* ToggleCursorLock and SetCursorLock; the loop hands it to the detector.
ToggleCursorLock ==
  /\ Lockable
  /\ edge' = SetLocked(edge, ~edge.locked) /\ crossing' = NoCrossing
  /\ UNCHANGED <<peers, state, active_coord, entry>>

TimePasses ==
  /\ edge' \in {Dwell(edge), CoolDown(edge)}
  /\ crossing' = NoCrossing
  /\ UNCHANGED <<peers, state, active_coord, entry>>

-----------------------------------------------------------------------------
(* The list of peers.                                                      *)

Edit(new) ==
  /\ peers' = new /\ crossing' = NoCrossing
  /\ UNCHANGED <<state, active_coord, edge, entry>>

\* Another machine connects or is discovered: on the right, at the end.
RegisterPeer(n) ==
  /\ \A i \in DOMAIN peers : peers[i].name # n
  /\ Edit(Append(peers, [name |-> n, position |-> "right", cell |-> <<1, 0>>]))

\* The peers that are kept keep their order (retain).
ForgetPeer(n) ==
  LET kept == {i \in DOMAIN peers : peers[i].name # n} IN
  \E f \in [1..Cardinality(kept) -> kept] :
    /\ \A j, k \in DOMAIN f : j < k => f[j] < f[k]
    /\ Edit([k \in DOMAIN f |-> peers[f[k]]])

SyncTopology(a, w) ==
  Edit([i \in DOMAIN peers |->
         IF Meant(a, i)
         THEN [peers[i] EXCEPT !.position = w, !.cell = WordCell(w)]
         ELSE peers[i]])

SyncTopologyGrid(a, c) ==
  Edit([i \in DOMAIN peers |->
         IF Meant(a, i)
         THEN [peers[i] EXCEPT !.position = CellWord(c), !.cell = c]
         ELSE peers[i]])

\* TopologySync from peer n: it has put us at w.  Only the word changes.
TopologySync(n, w) ==
  Edit([i \in DOMAIN peers |->
         IF Meant(n, i)
         THEN [peers[i] EXCEPT !.position = OppositeWord(w)] ELSE peers[i]])

-----------------------------------------------------------------------------
Cursor ==
  \/ \E d \in Motions : LocalMotion(d)
  \/ SwitchScreen
  \/ \E e \in Edge : DirectionalJump(e)
  \/ \E e \in Edge, r \in Ratios : InboundReturnControl(e, r)
  \/ InboundReturnControl("Right", NoRatio)
  \/ ToggleCursorLock
  \/ TimePasses

Rearrange ==
  \/ \E n \in Peers : RegisterPeer(n) \/ ForgetPeer(n)
  \/ \E a \in Peers \cup {""}, w \in Words : SyncTopology(a, w)
  \/ \E a \in Peers \cup {""}, c \in GridCells : SyncTopologyGrid(a, c)
  \/ \E n \in Peers, w \in Words : TopologySync(n, w)

Next == Cursor \/ Rearrange

Spec == Init /\ [][Next]_deskVars

-----------------------------------------------------------------------------
(* Properties.                                                             *)

\* However the list was edited, the grid the agent derives from it has every
\* screen once, each on a cell of its own, and this machine at the origin.
OneScreenPerCell ==
  LET g == grid IN
  /\ g[1] = ScreenNode(Local, Origin)
  /\ Len(g) = Len(peers) + 1
  /\ \A i, j \in DOMAIN g :
       i # j => g[i].cell # g[j].cell /\ g[i].id # g[j].id

\* A screen stands on the cell it asks for unless an earlier one holds it,
\* and then next to it as long as there is room there.
PlacedAsAsked ==
  LET g == grid IN
  \A i \in DOMAIN peers :
    LET asked   == peers[i].cell
        got     == g[i + 1].cell
        earlier == {g[j].cell : j \in 1..i}
        around  == {Offset(asked, d) : d \in Ring(1)}
    IN IF asked \notin earlier THEN got = asked
       ELSE around \subseteq earlier \/ got \in around \ earlier

\* "Prevent cursor bounce-back" (edge.rs:113): to leave over the edge it came
\* in by, the cursor must have been pushed the whole margin towards it.
NoBounceBack ==
  crossing.edge # None /\ crossing.edge = crossing.entry.edge
    => crossing.entry.travel >= Margin(crossing.edge)

\* A crossing is reported by a motion towards that edge and with the cursor
\* unlocked, whatever was left over from earlier visits.
CrossedByMotion ==
  crossing.edge # None => crossing.speed > 0 /\ ~crossing.locked

\* The cursor of a user on the local screen is tracked on that screen, with
\* one exception: a SwitchScreen made on the controlled machine brings the
\* user back without a ratio, and the other axis stays where the cursor left.
StrayOnlyAfterRemoteSwitch ==
  state = "Local" =>
    \A a \in Axes :
      edge.pos[a] \in 0..(Size[a] - 1) \/ (entry.edge = "Left" /\ a = "y")
=============================================================================
