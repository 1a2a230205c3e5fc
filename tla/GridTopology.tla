---------------------------- MODULE GridTopology ----------------------------
(***************************************************************************)
(* The spatial grid of manguesechee-core/src/topology.rs.  A grid is the   *)
(* sequence of its screens, each with the id of its machine and the cell   *)
(* it stands on.  The agent rebuilds it from its list of peers whenever it *)
(* looks a neighbour up (get_grid, client.rs), so it has no state of its   *)
(* own: these are the pure operations.                                     *)
(***************************************************************************)
EXTENDS Edges, Sequences, SequencesExt

CONSTANT MaxRing \* rings searched around an occupied cell (50 in the code)

ASSUME MaxRingAssumption == MaxRing \in Nat \ {0}

ScreenNode(id, cell) == [id |-> id, cell |-> cell]

Cells(grid) == {grid[i].cell : i \in DOMAIN grid}

IsFree(grid, cell) == cell \notin Cells(grid)

\* find_at: the first screen on the cell, if any.
FindAt(grid, cell) == SelectSeq(grid, LAMBDA s : s.cell = cell)

Offset(cell, d) == <<cell[1] + d[1], cell[2] + d[2]>>

Cardinals(r) == << <<r, 0>>, <<-r, 0>>, <<0, r>>, <<0, -r>> >>

Ring(r) ==
  {d \in (-r..r) \X (-r..r) : d[1] \in {-r, r} \/ d[2] \in {-r, r}}

\* Mutant: the rings are searched around the origin.
FreeSlotNearOrigin(grid, cell) ==
  IF IsFree(grid, cell) THEN cell
  ELSE Head(SelectSeq(Cardinals(1), LAMBDA d : d # cell))

\* find_free_slot_near: the cell itself, else the nearest ring that has room:
\* right, left, above, below, then the ring column by column.
FreeSlotNear(grid, cell) ==
  LET free(d)  == IsFree(grid, Offset(cell, d))
      room(r)  == \E d \in Ring(r) : free(d)
      before(d, e) == d[1] < e[1] \/ (d[1] = e[1] /\ d[2] <= e[2])
      nearest  == CHOOSE r \in 1..MaxRing :
                    room(r) /\ \A q \in 1..(r - 1) : ~room(q)
      straight == {k \in 1..4 : free(Cardinals(nearest)[k])}
      first    == CHOOSE k \in straight : \A j \in straight : k <= j
      corner   == CHOOSE d \in Ring(nearest) :
                    free(d) /\ \A e \in Ring(nearest) : free(e) => before(d, e)
  IN IF IsFree(grid, cell) THEN cell
     ELSE IF \A r \in 1..MaxRing : ~room(r) THEN Offset(cell, <<100, 0>>)
     ELSE Offset(cell,
                 IF straight # {} THEN Cardinals(nearest)[first] ELSE corner)

\* Mutant: the cell of a screen is not checked against the others.
AddOverOthers(grid, node) ==
  IF \E i \in DOMAIN grid : grid[i].id = node.id
  THEN [i \in DOMAIN grid |-> IF grid[i].id = node.id THEN node ELSE grid[i]]
  ELSE Append(grid, node)

\* add_or_update: a screen that asks for the cell of another one is shifted;
\* the first screen with its id is replaced, else it is added at the end.
AddOrUpdate(grid, node) ==
  LET taken  == \E i \in DOMAIN grid :
                  grid[i].id # node.id /\ grid[i].cell = node.cell
      placed == IF taken
                THEN ScreenNode(node.id, FreeSlotNear(grid, node.cell))
                ELSE node
      same   == {i \in DOMAIN grid : grid[i].id = node.id}
      first  == CHOOSE i \in same : \A j \in same : i <= j
  IN IF same = {} THEN Append(grid, placed)
     ELSE [grid EXCEPT ![first] = placed]

\* from_peer_infos: this machine at the origin, then the peers in the order
\* of the list, each under its name.
FromPeerInfos(peers, local) ==
  LET built[n \in 0..Len(peers)] ==
        IF n = 0 THEN <<ScreenNode(local, Origin)>>
        ELSE AddOrUpdate(built[n - 1],
                         ScreenNode(peers[n].name, peers[n].cell))
  IN built[Len(peers)]
=============================================================================
