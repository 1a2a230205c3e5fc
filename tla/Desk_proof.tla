----------------------------- MODULE Desk_proof -----------------------------
(***************************************************************************)
(* Proofs about Desk, for any screen, settings, motions and peers.         *)
(***************************************************************************)
EXTENDS Desk, FiniteSetTheorems, WellFoundedInduction, TLAPS

-----------------------------------------------------------------------------
(* The tracked cursor (EdgeDetector).                                      *)

Position == [Axes -> Int]

Contact == [edge : Edge \cup {None}, dwelt : BOOLEAN]

Detector ==
  [pos : Position, contact : Contact, cooldown : BOOLEAN, locked : BOOLEAN]

\* Each edge bounds one axis and runs along the other.
LEMMA AxisFacts ==
  /\ \A e \in Edge : Axis(e) \in Axes /\ Cross(e) \in Axes /\ Axis(e) # Cross(e)
  /\ \A e \in Edge, a \in Axes : a = Axis(e) \/ a = Cross(e)
  /\ \A e \in Edge : Opposite(e) \in Edge /\ Axis(Opposite(e)) = Axis(e)
                     /\ Cross(Opposite(e)) = Cross(e) /\ Far(Opposite(e)) # Far(e)
  /\ None \notin Edge
BY DEF Axis, Cross, Axes, Edge, Opposite, Far, None

\* Sizes and margins are positive, and an inset is on the screen.
LEMMA SizeFacts ==
  /\ \A a \in Axes : Size[a] \in Nat \ {0} /\ Size[a] \div 2 \in 0..(Size[a] - 1)
  /\ \A e \in Edge : /\ Margin(e) \in Nat \ {0}
                     /\ Inset(e) \in 0..(Size[Axis(e)] - 1)
                     /\ Border(e) \in 0..(Size[Axis(e)] - 1)
<1>1. \A a \in Axes : Size[a] \in Nat \ {0}
  BY SizeAssumption DEF Axes
<1>2. \A n \in Nat \ {0} : n \div 2 \in 0..(n - 1) /\ n \div 5 \in Nat
  OBVIOUS
<1>3. ASSUME NEW e \in Edge
      PROVE  /\ Margin(e) \in Nat \ {0}
             /\ Inset(e) \in 0..(Size[Axis(e)] - 1)
             /\ Border(e) \in 0..(Size[Axis(e)] - 1)
  <2>1. PICK n \in Nat \ {0} : n = Size[Axis(e)]
    BY <1>1, AxisFacts
  <2>2. Margin(e) \in Nat \ {0}
    BY <1>2, <2>1, SettingsAssumption DEF Margin, Clamp
  <2>. QED
    BY <2>1, <2>2 DEF Inset, Border
<1>. QED
  BY <1>1, <1>2, <1>3

\* What one edge check makes of a cursor.
LEMMA CheckFacts ==
  ASSUME NEW p \in Position, NEW c, NEW e \in Edge
  PROVE  \/ ~Beyond(p, e) /\ Check([pos |-> p, candidate |-> c], e)
                               = [pos |-> p, candidate |-> c]
         \/ /\ Beyond(p, e) /\ InCorner(p, e)
            /\ Check([pos |-> p, candidate |-> c], e)
                 = [pos |-> ClampToEdge(p, e), candidate |-> c]
         \/ /\ Beyond(p, e) /\ ~InCorner(p, e)
            /\ Check([pos |-> p, candidate |-> c], e)
                 = [pos |-> p, candidate |-> e]
BY DEF Check

\* Coordinate q is where coordinate p was, or p was beyond an end of axis a and
\* q has been put back at that end, or to where an entry over it would be.
Brought(p, q, a) ==
  \/ q = p
  \/ \E e \in Edge :
       /\ Axis(e) = a
       /\ IF Far(e) THEN p >= Size[a] ELSE p < 0
       /\ q \in {Border(e), Inset(e)}

\* After the two checks of an axis at most one of its edges is the candidate,
\* and the axis is within the screen otherwise.
AxisChecked(p, c, f, n, s) ==
  \E q \in Position :
    /\ q[Cross(f)] = p[Cross(f)]
    /\ \/ /\ s = [pos |-> q, candidate |-> c]
          /\ q[Axis(f)] \in 0..(Size[Axis(f)] - 1)
          /\ Brought(p[Axis(f)], q[Axis(f)], Axis(f))
       \/ \E e \in {f, n} :
            /\ s = [pos |-> q, candidate |-> e] /\ q = p
            /\ Beyond(p, e) /\ ~InCorner(p, e)

LEMMA AxisCheckFacts ==
  ASSUME NEW p \in Position, NEW c, NEW f \in Edge, Far(f), NEW n \in Edge,
         n = Opposite(f), NEW s, s = Check(Check([pos |-> p, candidate |-> c], f), n)
  PROVE  AxisChecked(p, c, f, n, s)
<1>. DEFINE a == Axis(f)
<1>a. /\ a \in Axes /\ Cross(f) \in Axes /\ a # Cross(f) /\ Size[a] \in Nat \ {0}
      /\ Axis(n) = a /\ Cross(n) = Cross(f) /\ ~Far(n)
      /\ p[a] \in Int
  BY AxisFacts, SizeFacts DEF Position
<1>b. /\ Border(f) = Size[a] - 1 /\ Border(n) = 0
      /\ \A q : /\ Beyond(q, f) <=> q[a] >= Size[a]
                /\ Beyond(q, n) <=> q[a] < 0
  BY <1>a DEF Border, Beyond
<1>c. \A e \in {f, n} :
        /\ ClampToEdge(p, e) \in Position
        /\ ClampToEdge(p, e)[a] = Border(e)
        /\ ClampToEdge(p, e)[Cross(f)] = p[Cross(f)]
        /\ Beyond(p, e) => Brought(p[a], Border(e), a)
  <2>1. ASSUME NEW e \in {f, n}
        PROVE  /\ ClampToEdge(p, e) \in Position
               /\ ClampToEdge(p, e)[a] = Border(e)
               /\ ClampToEdge(p, e)[Cross(f)] = p[Cross(f)]
    <3>1. Border(e) \in Int /\ Axis(e) = a
      BY <1>a, <1>b
    <3>2. ClampToEdge(p, e) = [p EXCEPT ![a] = Border(e)]
      BY <3>1 DEF ClampToEdge
    <3>. HIDE DEF a
    <3>. QED
      BY <1>a, <3>1, <3>2 DEF Position
  <2>2. ASSUME NEW e \in {f, n}, Beyond(p, e) PROVE Brought(p[a], Border(e), a)
    BY <1>a, <1>b, <2>2 DEF Brought
  <2>. QED
    BY <2>1, <2>2
<1>. HIDE DEF a
<1>0. PICK s1 : s1 = Check([pos |-> p, candidate |-> c], f) /\ s = Check(s1, n)
  OBVIOUS
<1>1. CASE Beyond(p, f) /\ InCorner(p, f)
  <2>1. PICK q \in Position : q = ClampToEdge(p, f)
    BY <1>c
  <2>2. s1 = [pos |-> q, candidate |-> c]
    BY <1>0, <1>1, <2>1, CheckFacts
  <2>5. q[a] = Size[a] - 1
    BY <1>b, <1>c, <2>1
  <2>6. ~Beyond(q, n)
    BY <1>a, <1>b, <2>5
  <2>3. s = [pos |-> q, candidate |-> c]
    BY <1>0, <2>2, <2>6, CheckFacts
  <2>4. q[a] \in 0..(Size[a] - 1) /\ q[Cross(f)] = p[Cross(f)]
    BY <1>a, <1>b, <1>c, <2>1
  <2>7. Brought(p[a], q[a], a)
    BY <1>1, <1>b, <1>c, <2>1
  <2>. QED
    BY <2>3, <2>4, <2>7 DEF a, AxisChecked
<1>2. CASE Beyond(p, f) /\ ~InCorner(p, f)
  <2>1. s1 = [pos |-> p, candidate |-> f]
    BY <1>0, <1>2, CheckFacts
  <2>3. ~Beyond(p, n)
    BY <1>2, <1>a, <1>b
  <2>2. s = [pos |-> p, candidate |-> f]
    BY <1>0, <2>1, <2>3, CheckFacts
  <2>. QED
    BY <1>2, <2>2 DEF AxisChecked
<1>3. CASE ~Beyond(p, f)
  <2>1. s1 = [pos |-> p, candidate |-> c]
    BY <1>0, <1>3, CheckFacts
  <2>2. CASE ~Beyond(p, n)
    <3>1. s = [pos |-> p, candidate |-> c]
      BY <1>0, <2>1, <2>2, CheckFacts
    <3>2. p[a] \in 0..(Size[a] - 1) /\ Brought(p[a], p[a], a)
      BY <1>3, <1>a, <1>b, <2>2 DEF Brought
    <3>. QED
      BY <3>1, <3>2 DEF a, AxisChecked
  <2>3. CASE Beyond(p, n) /\ InCorner(p, n)
    <3>1. PICK q \in Position : q = ClampToEdge(p, n)
      BY <1>c
    <3>2. s = [pos |-> q, candidate |-> c]
      BY <1>0, <2>1, <2>3, <3>1, CheckFacts
    <3>3. q[a] \in 0..(Size[a] - 1) /\ q[Cross(f)] = p[Cross(f)]
      BY <1>a, <1>b, <1>c, <3>1
    <3>4. Brought(p[a], q[a], a)
      BY <2>3, <1>b, <1>c, <3>1
    <3>. QED
      BY <3>2, <3>3, <3>4 DEF a, AxisChecked
  <2>4. CASE Beyond(p, n) /\ ~InCorner(p, n)
    <3>1. s = [pos |-> p, candidate |-> n]
      BY <1>0, <2>1, <2>4, CheckFacts
    <3>. QED
      BY <2>4, <3>1 DEF AxisChecked
  <2>. QED
    BY <2>2, <2>3, <2>4
<1>. QED
  BY <1>1, <1>2, <1>3

\* The four checks together: a cursor is beyond the candidate, on its axis
\* where the motion took it; and apart from that on the screen, if corners
\* have a dead zone.
LEMMA CheckedFacts ==
  ASSUME NEW p \in Position
  PROVE  \E q \in Position, c \in Edge \cup {None} :
           /\ Checked(p) = [pos |-> q, candidate |-> c]
           /\ \A a \in Axes : Brought(p[a], q[a], a)
           /\ c # None =>
                /\ Beyond(p, c) /\ q[Axis(c)] = p[Axis(c)]
                /\ Deadzone > 0 => q[Cross(c)] \in 0..(Size[Cross(c)] - 1)
           /\ (c = None /\ Deadzone > 0) => OnScreen(q)
<1>s. /\ Size["x"] \in Nat \ {0} /\ Size["y"] \in Nat \ {0} /\ Deadzone \in Nat
      /\ Axes = {"x", "y"}
  BY SizeAssumption, SettingsAssumption DEF Axes
<1>e. /\ "Right" \in Edge /\ "Left" \in Edge /\ "Bottom" \in Edge /\ "Top" \in Edge
      /\ Axis("Right") = "x" /\ Axis("Left") = "x"
      /\ Axis("Bottom") = "y" /\ Axis("Top") = "y"
      /\ Cross("Right") = "y" /\ Cross("Left") = "y"
      /\ Cross("Bottom") = "x" /\ Cross("Top") = "x"
      /\ Far("Right") /\ Far("Bottom") /\ None \notin Edge
      /\ Opposite("Right") = "Left" /\ Opposite("Bottom") = "Top"
  BY DEF Edge, Axis, Cross, Far, None, Opposite
<1>1. PICK s1, s2 :
        /\ s1 = Check(Check([pos |-> p, candidate |-> None], "Right"), "Left")
        /\ s2 = Check(Check(s1, "Bottom"), "Top")
        /\ s2 = Checked(p)
  BY DEF Checked
<1>2. PICK q1 \in Position :
        /\ q1["y"] = p["y"]
        /\ \/ /\ s1 = [pos |-> q1, candidate |-> None]
              /\ q1["x"] \in 0..(Size["x"] - 1)
              /\ Brought(p["x"], q1["x"], "x")
           \/ \E e \in {"Right", "Left"} :
                /\ s1 = [pos |-> q1, candidate |-> e] /\ q1 = p
                /\ Beyond(p, e) /\ ~InCorner(p, e)
  <2>1. PICK c : c = None
    OBVIOUS
  <2>2. s1 = Check(Check([pos |-> p, candidate |-> c], "Right"), "Left")
    BY <1>1, <2>1
  <2>3. AxisChecked(p, c, "Right", "Left", s1)
    BY <2>2, <1>e, AxisCheckFacts
  <2>. QED
    BY <1>e, <2>1, <2>3 DEF AxisChecked
<1>3. PICK c1 : s1 = [pos |-> q1, candidate |-> c1]
  BY <1>2
<1>4. PICK q \in Position :
        /\ q["x"] = q1["x"]
        /\ \/ /\ s2 = [pos |-> q, candidate |-> c1]
              /\ q["y"] \in 0..(Size["y"] - 1)
              /\ Brought(q1["y"], q["y"], "y")
           \/ \E e \in {"Bottom", "Top"} :
                /\ s2 = [pos |-> q, candidate |-> e] /\ q = q1
                /\ Beyond(q1, e) /\ ~InCorner(q1, e)
  <2>1. s2 = Check(Check([pos |-> q1, candidate |-> c1], "Bottom"), "Top")
    BY <1>1, <1>3
  <2>2. AxisChecked(q1, c1, "Bottom", "Top", s2)
    BY <1>e, <2>1, AxisCheckFacts
  <2>. QED
    BY <1>e, <2>2 DEF AxisChecked
<1>5. \A a \in Axes : Brought(p[a], q[a], a)
  <2>1. \A r : \A a \in Axes : Brought(r, r, a)
    BY DEF Brought
  <2>2. Brought(p["x"], q["x"], "x")
    BY <1>s, <1>2, <1>4, <2>1
  <2>3. Brought(p["y"], q["y"], "y")
    BY <1>s, <1>2, <1>4, <2>1
  <2>. QED
    BY <1>s, <2>2, <2>3
<1>6. ASSUME NEW e \in Edge, NEW r \in Position, ~InCorner(r, e), Deadzone > 0
      PROVE  r[Cross(e)] \in 0..(Size[Cross(e)] - 1)
  BY <1>6, <1>s, AxisFacts, SizeFacts DEF InCorner, Position
<1>7. CASE \E e \in {"Bottom", "Top"} :
             /\ s2 = [pos |-> q, candidate |-> e] /\ q = q1
             /\ Beyond(q1, e) /\ ~InCorner(q1, e)
  <2>1. PICK e \in {"Bottom", "Top"} :
          /\ s2 = [pos |-> q, candidate |-> e] /\ q = q1
          /\ Beyond(q1, e) /\ ~InCorner(q1, e)
    BY <1>7
  <2>2. e \in Edge /\ e # None /\ Axis(e) = "y" /\ Cross(e) = "x"
    BY <1>e
  <2>3. Beyond(p, e) /\ q[Axis(e)] = p[Axis(e)]
    BY <1>2, <2>1, <2>2 DEF Beyond
  <2>4. Deadzone > 0 => q[Cross(e)] \in 0..(Size[Cross(e)] - 1)
    BY <1>6, <2>1, <2>2
  <2>. QED
    BY <1>1, <1>5, <2>1, <2>2, <2>3, <2>4
<1>8. CASE /\ s2 = [pos |-> q, candidate |-> c1]
           /\ q["y"] \in 0..(Size["y"] - 1)
           /\ Brought(q1["y"], q["y"], "y")
  <2>1. CASE s1 = [pos |-> q1, candidate |-> None] /\ q1["x"] \in 0..(Size["x"] - 1)
    <3>1. c1 = None /\ OnScreen(q)
      BY <1>3, <1>4, <1>8, <1>s, <2>1 DEF OnScreen
    <3>. QED
      BY <1>1, <1>5, <1>8, <3>1
  <2>2. CASE \E e \in {"Right", "Left"} :
               /\ s1 = [pos |-> q1, candidate |-> e] /\ q1 = p
               /\ Beyond(p, e) /\ ~InCorner(p, e)
    <3>1. PICK e \in {"Right", "Left"} :
            /\ c1 = e /\ q1 = p /\ Beyond(p, e) /\ ~InCorner(p, e)
      BY <1>3, <2>2
    <3>2. e \in Edge /\ e # None /\ Axis(e) = "x" /\ Cross(e) = "y"
      BY <1>e
    <3>3. q[Axis(e)] = p[Axis(e)]
      BY <1>4, <3>1, <3>2
    <3>4. q[Cross(e)] \in 0..(Size[Cross(e)] - 1)
      BY <1>8, <3>2
    <3>. QED
      BY <1>1, <1>5, <1>8, <3>1, <3>2, <3>3, <3>4
  <2>. QED
    BY <1>2, <2>1, <2>2
<1>. QED
  BY <1>4, <1>7, <1>8

Motion == [Axes -> Int]

Moved(det, d) == [a \in Axes |-> det.pos[a] + d[a]]

\* What a motion makes of the detector: the cursor goes to q, waits at contact
\* k, and crosses o.
Updated(det, d, q, k, o) ==
  /\ \A a \in Axes : Brought(det.pos[a] + d[a], q[a], a)
  /\ Deadzone > 0 =>
       \A a \in Axes : q[a] \in 0..(Size[a] - 1) \/ (o # None /\ a = Axis(o))
  /\ o # None =>
       /\ ~det.locked /\ MayCross(det, d, o)
       /\ Beyond(Moved(det, d), o) /\ q[Axis(o)] = det.pos[Axis(o)] + d[Axis(o)]
  /\ IF det.locked THEN k = det.contact
     ELSE k.edge # None => q[Axis(k.edge)] = Border(k.edge)

\* A cursor put on an edge, or inset from it, that it was taken beyond.
PutBack(p, r, e, v) ==
  /\ r \in Position /\ r[Axis(e)] = v
  /\ \A a \in Axes : Brought(p[a], r[a], a)
  /\ Deadzone > 0 => OnScreen(r)

LEMMA PutBackFacts ==
  ASSUME NEW p \in Position, NEW q \in Position, NEW e \in Edge, Beyond(p, e),
         \A a \in Axes : Brought(p[a], q[a], a),
         Deadzone > 0 => q[Cross(e)] \in 0..(Size[Cross(e)] - 1),
         NEW v, v = Border(e) \/ v = Inset(e),
         NEW r, r = [q EXCEPT ![Axis(e)] = v]
  PROVE  PutBack(p, r, e, v)
<1>1. /\ Axis(e) \in Axes /\ Cross(e) \in Axes
      /\ \A a \in Axes : a = Axis(e) \/ a = Cross(e)
      /\ Axis(e) # Cross(e)
  BY AxisFacts
<1>2. v \in 0..(Size[Axis(e)] - 1) /\ v \in Int
  <2>1. v \in 0..(Size[Axis(e)] - 1)
    BY SizeFacts
  <2>2. Size[Axis(e)] \in Nat
    BY <1>1, SizeFacts
  <2>. QED
    BY <2>1, <2>2
<1>3. r \in Position /\ r[Axis(e)] = v /\ r[Cross(e)] = q[Cross(e)]
  BY <1>1, <1>2 DEF Position
<1>4. Brought(p[Axis(e)], v, Axis(e))
  BY DEF Brought, Beyond
<1>. QED
  BY <1>1, <1>2, <1>3, <1>4 DEF OnScreen, PutBack

\* A locked cursor is held on the screen.
LEMMA ClampedFacts ==
  ASSUME NEW p \in Position, NEW q, q = [a \in Axes |-> Clamp(p[a], 0, Size[a] - 1)]
  PROVE  /\ q \in Position /\ OnScreen(q)
         /\ \A a \in Axes : Brought(p[a], q[a], a)
<1>1. ASSUME NEW a \in Axes
      PROVE  q[a] \in Int /\ q[a] \in 0..(Size[a] - 1) /\ Brought(p[a], q[a], a)
  <2>1. /\ Size[a] \in Nat \ {0} /\ p[a] \in Int
        /\ q[a] = IF p[a] < 0 THEN 0 ELSE IF p[a] > Size[a] - 1 THEN Size[a] - 1 ELSE p[a]
    BY SizeFacts DEF Position, Clamp
  <2>2. PICK n \in Edge, f \in Edge : /\ Axis(n) = a /\ ~Far(n) /\ Border(n) = 0
                                      /\ Axis(f) = a /\ Far(f) /\ Border(f) = Size[a] - 1
    <3>1. CASE a = "x"
      BY <3>1, AxisFacts DEF Edge, Axis, Far, Border
    <3>2. CASE a = "y"
      BY <3>2, AxisFacts DEF Edge, Axis, Far, Border
    <3>. QED
      BY <3>1, <3>2 DEF Axes
  <2>3. q[a] \in Int /\ q[a] \in 0..(Size[a] - 1)
    BY <2>1
  <2>4. CASE p[a] < 0
    BY <2>1, <2>2, <2>4 DEF Brought
  <2>5. CASE p[a] >= Size[a]
    BY <2>1, <2>2, <2>5 DEF Brought
  <2>6. CASE p[a] \in 0..(Size[a] - 1)
    BY <2>1, <2>6 DEF Brought
  <2>. QED
    BY <2>1, <2>3, <2>4, <2>5, <2>6
<1>. QED
  BY <1>1 DEF Position, OnScreen

LEMMA UpdateFacts ==
  ASSUME NEW det \in Detector, NEW d \in Motion
  PROVE  \E q \in Position, k \in Contact, o \in Edge \cup {None} :
           /\ Update(det, d) = [det |-> [det EXCEPT !.pos = q, !.contact = k], out |-> o]
           /\ Updated(det, d, q, k, o)
<1>1. PICK m \in Position : m = Moved(det, d) /\ \A a \in Axes : m[a] = det.pos[a] + d[a]
  <2>1. det.pos \in [Axes -> Int] /\ d \in [Axes -> Int]
    BY DEF Position, Motion, Detector
  <2>2. Moved(det, d) \in Position
    BY <2>1 DEF Moved, Position
  <2>. QED
    BY <2>2 DEF Moved
<1>2. PICK s \in Position, e \in Edge \cup {None} :
        /\ Checked(m) = [pos |-> s, candidate |-> e]
        /\ \A a \in Axes : Brought(m[a], s[a], a)
        /\ e # None => /\ Beyond(m, e) /\ s[Axis(e)] = m[Axis(e)]
                       /\ Deadzone > 0 => s[Cross(e)] \in 0..(Size[Cross(e)] - 1)
        /\ (e = None /\ Deadzone > 0) => OnScreen(s)
  BY CheckedFacts
<1>. DEFINE At(q, k, o) == [det |-> [det EXCEPT !.pos = q, !.contact = k], out |-> o]
<1>3. /\ det.locked => Update(det, d)
           = At([a \in Axes |-> Clamp(m[a], 0, Size[a] - 1)], det.contact, None)
      /\ ~det.locked /\ e = None => Update(det, d) = At(s, NoContact, None)
      /\ ~det.locked /\ e # None /\ det.cooldown =>
           Update(det, d) = At([s EXCEPT ![Axis(e)] = Inset(e)], NoContact, None)
      /\ ~det.locked /\ e # None /\ ~det.cooldown /\ MayCross(det, d, e) =>
           Update(det, d) = At(s, NoContact, e)
      /\ ~det.locked /\ e # None /\ ~det.cooldown /\ ~MayCross(det, d, e) =>
           Update(det, d) = At(ClampToEdge(s, e),
               IF ~SwitchDelay THEN NoContact
               ELSE IF det.contact.edge = e THEN det.contact
               ELSE [edge |-> e, dwelt |-> FALSE],
               None)
  <2>1. PICK c : c = Checked(Moved(det, d)) /\ c.pos = s /\ c.candidate = e
    BY <1>1, <1>2
  <2>2. Update(det, d) =
          CASE det.locked ->
            At([a \in Axes |-> Clamp(Moved(det, d)[a], 0, Size[a] - 1)], det.contact, None)
       [] ~det.locked /\ e = None -> At(s, NoContact, None)
       [] ~det.locked /\ e # None /\ det.cooldown ->
            At([s EXCEPT ![Axis(e)] = Inset(e)], NoContact, None)
       [] ~det.locked /\ e # None /\ ~det.cooldown /\ MayCross(det, d, e) ->
            At(s, NoContact, e)
       [] ~det.locked /\ e # None /\ ~det.cooldown /\ ~MayCross(det, d, e) ->
            At(ClampToEdge(s, e),
               IF ~SwitchDelay THEN NoContact
               ELSE IF det.contact.edge = e THEN det.contact
               ELSE [edge |-> e, dwelt |-> FALSE],
               None)
    BY <2>1 DEF Update, Moved
  <2>. HIDE DEF At
  <2>. QED
    BY <1>1, <2>2
<1>4. det.contact \in Contact /\ NoContact \in Contact /\ NoContact.edge = None
  BY DEF Detector, Contact, NoContact
<1>5. SUFFICES \E q \in Position, k \in Contact, o \in Edge \cup {None} :
                 Update(det, d) = At(q, k, o) /\ Updated(det, d, q, k, o)
  OBVIOUS
<1>. HIDE DEF At
<1>6. CASE det.locked
  <2>1. PICK q \in Position : q = [a \in Axes |-> Clamp(m[a], 0, Size[a] - 1)]
    BY ClampedFacts
  <2>2. OnScreen(q) /\ \A a \in Axes : Brought(m[a], q[a], a)
    BY <2>1, ClampedFacts
  <2>3. Updated(det, d, q, det.contact, None)
    BY <1>1, <1>6, <2>2 DEF Updated, OnScreen
  <2>. QED
    BY <1>3, <1>4, <1>6, <2>1, <2>3
<1>7. CASE ~det.locked /\ e = None
  <2>1. Updated(det, d, s, NoContact, None)
    BY <1>1, <1>2, <1>4, <1>7 DEF Updated, OnScreen
  <2>. QED
    BY <1>3, <1>4, <1>7, <2>1
<1>8. CASE ~det.locked /\ e # None /\ det.cooldown
  <2>1. PICK q : q = [s EXCEPT ![Axis(e)] = Inset(e)]
    OBVIOUS
  <2>2. q \in Position /\ (\A a \in Axes : Brought(m[a], q[a], a))
        /\ (Deadzone > 0 => OnScreen(q))
    <3>1. PutBack(m, q, e, Inset(e))
      BY <1>2, <1>8, <2>1, PutBackFacts
    <3>. QED
      BY <3>1 DEF PutBack
  <2>3. Updated(det, d, q, NoContact, None)
    BY <1>1, <1>4, <1>8, <2>2 DEF Updated, OnScreen
  <2>. QED
    BY <1>3, <1>4, <1>8, <2>1, <2>2, <2>3
<1>9. CASE ~det.locked /\ e # None /\ ~det.cooldown /\ MayCross(det, d, e)
  <2>1. Deadzone > 0 => \A a \in Axes : s[a] \in 0..(Size[a] - 1) \/ (e # None /\ a = Axis(e))
    BY <1>2, <1>9, AxisFacts
  <2>2. Updated(det, d, s, NoContact, e)
    BY <1>1, <1>2, <1>4, <1>9, <2>1, AxisFacts DEF Updated
  <2>. QED
    BY <1>3, <1>4, <1>9, <2>2
<1>10. CASE ~det.locked /\ e # None /\ ~det.cooldown /\ ~MayCross(det, d, e)
  <2>1. PICK q : q = ClampToEdge(s, e)
    OBVIOUS
  <2>2. q = [s EXCEPT ![Axis(e)] = Border(e)]
    BY <2>1 DEF ClampToEdge
  <2>3. q \in Position /\ (\A a \in Axes : Brought(m[a], q[a], a))
        /\ (Deadzone > 0 => OnScreen(q)) /\ q[Axis(e)] = Border(e)
    <3>1. PutBack(m, q, e, Border(e))
      BY <1>2, <1>10, <2>2, PutBackFacts
    <3>. QED
      BY <3>1 DEF PutBack
  <2>4. PICK k : k = IF ~SwitchDelay THEN NoContact
                     ELSE IF det.contact.edge = e THEN det.contact
                     ELSE [edge |-> e, dwelt |-> FALSE]
    OBVIOUS
  <2>5. k \in Contact /\ k.edge \in {None, e}
    BY <1>4, <1>10, <2>4 DEF Contact
  <2>6. Updated(det, d, q, k, None)
    BY <1>1, <1>10, <2>3, <2>5 DEF Updated, OnScreen
  <2>. QED
    BY <1>3, <1>10, <2>1, <2>3, <2>4, <2>5, <2>6
<1>. QED
  BY <1>6, <1>7, <1>8, <1>9, <1>10

\* A cursor that enters over edge e; its place along the edge may be left as
\* it was.
Placed(det, e, r, x) ==
  /\ x \in Detector /\ x.contact = NoContact /\ x.locked = det.locked
  /\ x.pos[Axis(e)] = Inset(e)
  /\ r = NoRatio => x.pos[Cross(e)] = det.pos[Cross(e)]
  /\ r # NoRatio => x.pos[Cross(e)] \in 0..(Size[Cross(e)] - 1)

LEMMA PlaceFacts ==
  ASSUME NEW det \in Detector, NEW e \in Edge, NEW r \in Nat \cup {NoRatio}
  PROVE  Placed(det, e, r, PlaceAtEntry(det, e, r))
<1>1. /\ Axis(e) \in Axes /\ Cross(e) \in Axes /\ Axis(e) # Cross(e)
      /\ Size[Axis(e)] \in Nat \ {0} /\ Size[Cross(e)] \in Nat \ {0}
      /\ Inset(e) \in 0..(Size[Axis(e)] - 1)
  BY AxisFacts, SizeFacts
<1>2. Inset(e) \in Int
  BY <1>1
<1>3. PICK p \in Position : p = [det.pos EXCEPT ![Axis(e)] = Inset(e)]
  BY <1>1, <1>2 DEF Detector, Position
<1>4. p[Axis(e)] = Inset(e) /\ p[Cross(e)] = det.pos[Cross(e)]
  BY <1>1, <1>3 DEF Detector, Position
<1>5. PICK v : v = Clamp(r, 0, Size[Cross(e)] - 1)
  OBVIOUS
<1>6. r # NoRatio => v \in Int /\ v \in 0..(Size[Cross(e)] - 1)
  BY <1>1, <1>5 DEF Clamp, NoRatio
<1>7. PICK q : q = IF r = NoRatio THEN p ELSE [p EXCEPT ![Cross(e)] = v]
  OBVIOUS
<1>8. /\ q \in Position /\ q[Axis(e)] = Inset(e)
      /\ r = NoRatio => q[Cross(e)] = det.pos[Cross(e)]
      /\ r # NoRatio => q[Cross(e)] \in 0..(Size[Cross(e)] - 1)
  BY <1>1, <1>4, <1>6, <1>7 DEF Position
<1>9. PlaceAtEntry(det, e, r) = ArmCooldown([det EXCEPT !.pos = q])
  BY <1>3, <1>5, <1>7 DEF PlaceAtEntry
<1>10. ArmCooldown([det EXCEPT !.pos = q])
         = [det EXCEPT !.pos = q, !.contact = NoContact, !.cooldown = TRUE]
  BY DEF ArmCooldown, Detector
<1>11. NoContact \in Contact
  BY DEF NoContact, Contact
<1>. QED
  BY <1>8, <1>9, <1>10, <1>11 DEF Placed, Detector

LEMMA CentreFacts ==
  ASSUME NEW det \in Detector
  PROVE  /\ PlaceAtCenter(det) \in Detector /\ OnScreen(PlaceAtCenter(det).pos)
         /\ PlaceAtCenter(det).contact = NoContact
         /\ OnScreen(Middle) /\ Middle \in Position
<1>1. OnScreen(Middle) /\ Middle \in Position
  BY SizeFacts DEF OnScreen, Middle, Position
<1>2. PlaceAtCenter(det)
        = [det EXCEPT !.pos = Middle, !.contact = NoContact, !.cooldown = TRUE]
  BY DEF PlaceAtCenter, ArmCooldown, Detector
<1>3. NoContact \in Contact
  BY DEF NoContact, Contact
<1>. QED
  BY <1>1, <1>2, <1>3 DEF Detector

-----------------------------------------------------------------------------
(* The steps of the desk, by what they do to the cursor.                   *)

\* The result of a motion, for q, k and o as in Updated.
MotionOf(d, w, o) ==
  /\ state = "Local"
  /\ \/ /\ o = None
        /\ edge' = w /\ entry' = Pushed(d) /\ crossing' = NoCrossing
     \/ /\ o # None
        /\ crossing' = [edge |-> o, speed |-> Speed(d, o),
                        entry |-> Pushed(d), locked |-> edge.locked]
        /\ \/ state' = "Forwarding" /\ edge' = w /\ entry' = entry
           \/ /\ edge' = PlaceAtEntry(w, o, NoRatio)
              /\ entry' = [edge |-> o, travel |-> 0]

Motioned(d, q, k, o) ==
  /\ q \in Position /\ k \in Contact /\ o \in Edge \cup {None}
  /\ Updated(edge, d, q, k, o)
  /\ MotionOf(d, [edge EXCEPT !.pos = q, !.contact = k], o)

Centred ==
  /\ edge' = PlaceAtCenter(edge) /\ entry' = NoEntry /\ crossing' = NoCrossing

Entered(e, r) ==
  /\ edge' = PlaceAtEntry(edge, e, r)
  /\ entry' = [edge |-> e, travel |-> 0] /\ crossing' = NoCrossing
  /\ r = NoRatio => e = "Left"

Stayed ==
  /\ edge' \in {edge, SetLocked(edge, ~edge.locked), Dwell(edge), CoolDown(edge)}
  /\ entry' = entry /\ state' = state /\ crossing' \in {NoCrossing, crossing}

LEMMA StepForms ==
  ASSUME edge \in Detector, [Next]_deskVars
  PROVE  \/ \E d \in Motion : \E q, k, o : Motioned(d, q, k, o)
         \/ Centred
         \/ \E e \in Edge, r \in Nat \cup {NoRatio} : Entered(e, r)
         \/ Stayed
<1>1. ASSUME NEW d \in Motions, LocalMotion(d)
      PROVE  \E q, k, o : d \in Motion /\ Motioned(d, q, k, o)
  <2>1. d \in Motion
    BY InputsAssumption DEF Motion
  <2>2. PICK q \in Position, k \in Contact, o \in Edge \cup {None} :
          /\ Update(edge, d) = [det |-> [edge EXCEPT !.pos = q, !.contact = k], out |-> o]
          /\ Updated(edge, d, q, k, o)
    BY <2>1, UpdateFacts
  <2>3. PICK u : u = Update(edge, d)
    OBVIOUS
  <2>4. u.det = [edge EXCEPT !.pos = q, !.contact = k] /\ u.out = o
    BY <2>2, <2>3
  <2>5. MotionOf(d, u.det, u.out)
    BY <1>1, <2>3 DEF LocalMotion, MotionOf
  <2>6. Motioned(d, q, k, o)
    BY <2>2, <2>4, <2>5 DEF Motioned
  <2>. QED
    BY <2>1, <2>6
<1>2. ASSUME NEW c, GoTo(c) PROVE Centred
  BY <1>2 DEF GoTo, Centred
<1>3. ASSUME ComeBack PROVE Centred
  BY <1>3 DEF ComeBack, Centred
<1>4. ASSUME NEW c, MoveOn(c) PROVE Stayed
  BY <1>4 DEF MoveOn, Stayed
<1>5. ASSUME SwitchScreen PROVE Centred
  BY <1>2, <1>3, <1>5 DEF SwitchScreen
<1>6. ASSUME NEW e, DirectionalJump(e) PROVE Centred \/ Stayed
  BY <1>2, <1>3, <1>4, <1>6 DEF DirectionalJump
<1>7. ASSUME NEW e \in Edge, NEW r \in Nat \cup {NoRatio}, r = NoRatio => e = "Right",
             InboundReturnControl(e, r)
      PROVE  Stayed \/ \E f \in Edge, s \in Nat \cup {NoRatio} : Entered(f, s)
  <2>1. Opposite(e) \in Edge /\ (r = NoRatio => Opposite(e) = "Left")
    BY <1>7, AxisFacts DEF Opposite
  <2>2. \/ MoveOn(Step(active_coord, e))
        \/ /\ edge' = PlaceAtEntry(edge, Opposite(e), r)
           /\ entry' = [edge |-> Opposite(e), travel |-> 0]
           /\ crossing' = NoCrossing
    BY <1>7 DEF InboundReturnControl
  <2>. QED
    BY <2>1, <2>2, <1>4 DEF Entered
<1>8. ASSUME ToggleCursorLock PROVE Stayed
  BY <1>8 DEF ToggleCursorLock, Stayed
<1>9. ASSUME TimePasses PROVE Stayed
  BY <1>9 DEF TimePasses, Stayed
<1>10. ASSUME NEW new, Edit(new) PROVE Stayed
  BY <1>10 DEF Edit, Stayed
<1>11. ASSUME Cursor
       PROVE  \/ \E d \in Motion : \E q, k, o : Motioned(d, q, k, o)
              \/ Centred
              \/ \E e \in Edge, r \in Nat \cup {NoRatio} : Entered(e, r)
              \/ Stayed
  <2>1. CASE \E e \in Edge, r \in Ratios : InboundReturnControl(e, r)
    BY <2>1, <1>7, InputsAssumption DEF NoRatio
  <2>2. CASE InboundReturnControl("Right", NoRatio)
    BY <2>2, <1>7 DEF Edge
  <2>. QED
    BY <1>11, <1>1, <1>5, <1>6, <1>8, <1>9, <2>1, <2>2 DEF Cursor
<1>12. ASSUME Rearrange PROVE Stayed
  BY <1>10, <1>12 DEF Rearrange, RegisterPeer, ForgetPeer, SyncTopology,
                      SyncTopologyGrid, TopologySync
<1>13. ASSUME UNCHANGED deskVars PROVE Stayed
  BY <1>13 DEF deskVars, Stayed
<1>. QED
  BY <1>11, <1>12, <1>13 DEF Next

-----------------------------------------------------------------------------
(* Type, and what a contact with an edge means.                            *)

\* The shape of the tracked cursor and of the history.
CursorType ==
  edge \in Detector /\ entry \in [edge : Edge \cup {None}, travel : Int]

\* A cursor that dwells at an edge is on it, and it is not locked.
Touching ==
  edge.contact.edge # None =>
    ~edge.locked /\ edge.pos[Axis(edge.contact.edge)] = Border(edge.contact.edge)

LEMMA PushedFacts ==
  ASSUME CursorType, NEW d \in Motion
  PROVE  /\ Pushed(d) \in [edge : Edge \cup {None}, travel : Int]
         /\ Pushed(d).edge = entry.edge
         /\ entry.edge # None =>
              LET v == Speed(d, entry.edge) IN
              Pushed(d).travel = Clamp(IF v > 0 THEN entry.travel + v ELSE entry.travel,
                                       0, Margin(entry.edge))
<1>1. CASE entry.edge = None
  BY <1>1 DEF CursorType, Pushed
<1>2. CASE entry.edge # None
  <2>1. PICK e \in Edge : e = entry.edge
    BY <1>2 DEF CursorType
  <2>2. Axis(e) \in Axes /\ Margin(e) \in Nat
    BY AxisFacts, SizeFacts
  <2>3. PICK v \in Int : v = Speed(d, e)
    BY <2>2 DEF Speed, Motion
  <2>4. PICK w \in Int : w = Clamp(IF v > 0 THEN entry.travel + v ELSE entry.travel, 0, Margin(e))
    BY <2>2, <2>3 DEF Clamp, CursorType
  <2>5. Pushed(d) = [entry EXCEPT !.travel = w]
    BY <1>2, <2>1, <2>3, <2>4 DEF Pushed, CursorType
  <2>. QED
    BY <2>1, <2>3, <2>4, <2>5 DEF CursorType
<1>. QED
  BY <1>1, <1>2

LEMMA StayedFacts ==
  ASSUME CursorType, Stayed
  PROVE  /\ edge' \in Detector /\ edge'.pos = edge.pos
         /\ Touching => (Touching)'
<1>1. edge' = edge \/ edge' = Dwell(edge) \/ edge' = CoolDown(edge)
        \/ edge' = SetLocked(edge, ~edge.locked)
  BY DEF Stayed
<1>2. CASE edge' = edge
  BY <1>2 DEF CursorType, Touching
<1>3. CASE edge' = Dwell(edge)
  <2>1. PICK c \in Contact : /\ edge' = [edge EXCEPT !.contact = c]
                             /\ c.edge = edge.contact.edge
    <3>1. PICK c : c = [edge.contact EXCEPT !.dwelt = edge.contact.edge # None]
      OBVIOUS
    <3>2. c \in Contact /\ c.edge = edge.contact.edge
      BY <3>1 DEF Contact, CursorType, Detector
    <3>3. edge' = [edge EXCEPT !.contact = c]
      BY <1>3, <3>1 DEF Dwell, CursorType, Detector
    <3>. QED
      BY <3>2, <3>3
  <2>. QED
    BY <2>1 DEF CursorType, Detector, Touching
<1>4. CASE edge' = CoolDown(edge)
  BY <1>4 DEF CoolDown, CursorType, Detector, Touching
<1>5. CASE edge' = SetLocked(edge, ~edge.locked)
  <2>1. PICK c : c = IF ~edge.locked THEN NoContact ELSE edge.contact
    OBVIOUS
  <2>2. edge' = [edge EXCEPT !.locked = ~edge.locked, !.contact = c]
    BY <1>5, <2>1 DEF SetLocked, CursorType, Detector
  <2>3. c \in Contact /\ (Touching => c.edge = None)
    BY <2>1 DEF CursorType, Detector, Contact, NoContact, Touching
  <2>. QED
    BY <2>2, <2>3 DEF CursorType, Detector, Touching
<1>. QED
  BY <1>1, <1>2, <1>3, <1>4, <1>5

\* The detector of a motion, before an edge that leads nowhere sends it back.
LEMMA MotionedFacts ==
  ASSUME CursorType, NEW d, NEW q, NEW k, NEW o, Motioned(d, q, k, o)
  PROVE  \E w \in Detector :
           /\ w.pos = q /\ w.contact = k /\ w.locked = edge.locked
           /\ MotionOf(d, w, o)
           /\ o # None => Placed(w, o, NoRatio, PlaceAtEntry(w, o, NoRatio))
<1>0. PICK w : w = [edge EXCEPT !.pos = q, !.contact = k]
  OBVIOUS
<1>1. w \in Detector /\ w.pos = q /\ w.contact = k /\ w.locked = edge.locked
  BY <1>0 DEF CursorType, Detector, Motioned
<1>2. o # None => o \in Edge
  BY DEF Motioned
<1>3. o # None => Placed(w, o, NoRatio, PlaceAtEntry(w, o, NoRatio))
  BY <1>1, <1>2, PlaceFacts
<1>4. MotionOf(d, w, o)
  BY <1>0 DEF Motioned
<1>. QED
  BY <1>1, <1>3, <1>4

LEMMA CursorTypeStep ==
  ASSUME CursorType, Touching, [Next]_deskVars
  PROVE  (CursorType)' /\ (Touching)'
<1>1. ASSUME NEW d \in Motion, NEW q, NEW k, NEW o, Motioned(d, q, k, o)
      PROVE  (CursorType)' /\ (Touching)'
  <2>2. PICK w \in Detector :
          /\ w.pos = q /\ w.contact = k /\ w.locked = edge.locked
          /\ MotionOf(d, w, o)
          /\ o # None => Placed(w, o, NoRatio, PlaceAtEntry(w, o, NoRatio))
    BY <1>1, MotionedFacts
  <2>3. k.edge # None => ~edge.locked /\ q[Axis(k.edge)] = Border(k.edge)
    BY <1>1 DEF Motioned, Updated, Touching
  <2>4. CASE edge' = w
    <3>1. (Touching)'
      BY <2>2, <2>3, <2>4 DEF Touching
    <3>2. entry' = Pushed(d) \/ entry' = entry \/ (o # None /\ entry' = [edge |-> o, travel |-> 0])
      BY <2>2 DEF MotionOf
    <3>. QED
      BY <1>1, <2>2, <2>4, <3>1, <3>2, PushedFacts DEF CursorType, Motioned
  <2>5. CASE /\ o # None /\ edge' = PlaceAtEntry(w, o, NoRatio)
             /\ entry' = [edge |-> o, travel |-> 0]
    BY <1>1, <2>2, <2>5 DEF CursorType, Touching, Placed, NoContact, Motioned
  <2>. QED
    BY <2>2, <2>4, <2>5 DEF MotionOf
<1>2. ASSUME Centred PROVE (CursorType)' /\ (Touching)'
  BY <1>2, CentreFacts DEF Centred, CursorType, Touching, NoContact, NoEntry
<1>3. ASSUME NEW e \in Edge, NEW r \in Nat \cup {NoRatio}, Entered(e, r)
      PROVE  (CursorType)' /\ (Touching)'
  <2>1. Placed(edge, e, r, edge')
    BY <1>3, PlaceFacts DEF CursorType, Entered
  <2>. QED
    BY <1>3, <2>1 DEF Entered, Placed, CursorType, Touching, NoContact
<1>4. ASSUME Stayed PROVE (CursorType)' /\ (Touching)'
  BY <1>4, StayedFacts DEF Stayed, CursorType
<1>. QED
  BY <1>1, <1>2, <1>3, <1>4, StepForms DEF CursorType

LEMMA InitFacts ==
  ASSUME Init
  PROVE  /\ CursorType /\ Touching
         /\ edge.pos = Middle /\ entry.edge = None /\ crossing.edge = None
<1>1. Middle \in Position
  BY SizeFacts DEF Middle, Position
<1>2. edge = [pos |-> Middle, contact |-> NoContact, cooldown |-> FALSE, locked |-> FALSE]
  BY DEF Init, NewDetector
<1>3. NoContact \in Contact /\ NoContact.edge = None
  BY DEF NoContact, Contact
<1>4. edge \in Detector /\ Touching /\ edge.pos = Middle
  BY <1>1, <1>2, <1>3 DEF Detector, Touching
<1>5. /\ entry \in [edge : Edge \cup {None}, travel : Int]
      /\ entry.edge = None /\ crossing.edge = None
  BY DEF Init, NoEntry, NoCrossing
<1>. QED
  BY <1>4, <1>5 DEF CursorType

\* The tracked cursor stays a cursor, and one that dwells at an edge is there.
THEOREM CursorTyped == Spec => [](CursorType /\ Touching)
<1>1. Init => CursorType /\ Touching
  BY InitFacts
<1>2. CursorType /\ Touching /\ [Next]_deskVars => (CursorType /\ Touching)'
  BY CursorTypeStep
<1>. QED
  BY <1>1, <1>2, PTL DEF Spec

-----------------------------------------------------------------------------
(* Crossings.                                                              *)

\* A detector that asks for some speed or some dwell is only crossed towards
\* the edge: a cursor that dwells is on the screen.
LEMMA CrossingFacts ==
  ASSUME Threshold > 0 \/ SwitchDelay, CursorType, Touching,
         NEW d \in Motion, NEW q, NEW k, NEW o, Motioned(d, q, k, o), o # None
  PROVE  Speed(d, o) > 0 /\ ~edge.locked
<1>1. /\ o \in Edge /\ ~edge.locked /\ MayCross(edge, d, o)
      /\ Beyond(Moved(edge, d), o)
  BY DEF Motioned, Updated
<1>2. /\ Axis(o) \in Axes /\ Size[Axis(o)] \in Nat
      /\ edge.pos[Axis(o)] \in Int /\ d[Axis(o)] \in Int
      /\ Threshold \in Nat
  BY <1>1, AxisFacts, SizeFacts, SettingsAssumption
     DEF CursorType, Detector, Position, Motion
<1>3. CASE Threshold > 0 /\ Speed(d, o) >= Threshold
  BY <1>1, <1>2, <1>3 DEF Speed
<1>4. CASE SwitchDelay /\ edge.contact = [edge |-> o, dwelt |-> TRUE]
  <2>1. edge.pos[Axis(o)] = Border(o)
    BY <1>1, <1>4 DEF Touching
  <2>2. Moved(edge, d)[Axis(o)] = edge.pos[Axis(o)] + d[Axis(o)]
    BY <1>2 DEF Moved
  <2>3. CASE Far(o)
    BY <1>1, <1>2, <2>1, <2>2, <2>3 DEF Beyond, Border, Speed
  <2>4. CASE ~Far(o)
    BY <1>1, <1>2, <2>1, <2>2, <2>4 DEF Beyond, Border, Speed
  <2>. QED
    BY <1>1, <2>3, <2>4
<1>. QED
  BY <1>1, <1>3, <1>4, SettingsAssumption DEF MayCross

\* A crossing is made by a motion towards that edge with the cursor unlocked,
\* when a speed or a dwell is asked for (edge.rs, update).
THEOREM CrossingIsMotion ==
  ASSUME Threshold > 0 \/ SwitchDelay
  PROVE  Spec => []CrossedByMotion
<1>1. Init => CursorType /\ Touching /\ CrossedByMotion
  BY InitFacts DEF CrossedByMotion
<1>2. CursorType /\ Touching /\ CrossedByMotion /\ [Next]_deskVars
        => (CursorType /\ Touching /\ CrossedByMotion)'
  <2>. SUFFICES ASSUME CursorType, Touching, CrossedByMotion, [Next]_deskVars
                PROVE  (CrossedByMotion)'
    BY CursorTypeStep
  <2>1. ASSUME NEW d \in Motion, NEW q, NEW k, NEW o, Motioned(d, q, k, o)
        PROVE  (CrossedByMotion)'
    <3>1. CASE o = None
      BY <2>1, <3>1 DEF Motioned, MotionOf, CrossedByMotion, NoCrossing
    <3>2. CASE o # None
      <4>1. Speed(d, o) > 0 /\ ~edge.locked
        BY <2>1, <3>2, CrossingFacts
      <4>2. crossing'.speed = Speed(d, o) /\ crossing'.locked = edge.locked
        BY <2>1, <3>2 DEF Motioned, MotionOf
      <4>. QED
        BY <4>1, <4>2 DEF CrossedByMotion
    <3>. QED
      BY <3>1, <3>2
  <2>2. ASSUME crossing' = NoCrossing PROVE (CrossedByMotion)'
    BY <2>2 DEF CrossedByMotion, NoCrossing
  <2>3. ASSUME crossing' = crossing PROVE (CrossedByMotion)'
    BY <2>3 DEF CrossedByMotion
  <2>. QED
    BY <2>1, <2>2, <2>3, StepForms DEF CursorType, Centred, Entered, Stayed
<1>. QED
  BY <1>1, <1>2, PTL DEF Spec

\* With dead zones at the corners, the cursor of a user on the local screen is
\* tracked on that screen, but for its height after a remote SwitchScreen.
THEOREM OnlyRemoteSwitchStrays ==
  ASSUME Deadzone > 0
  PROVE  Spec => []StrayOnlyAfterRemoteSwitch
<1>. DEFINE Inv == CursorType /\ Touching /\ StrayOnlyAfterRemoteSwitch
<1>1. Init => Inv
  <2>1. \A a \in Axes : Middle[a] \in 0..(Size[a] - 1)
    BY SizeFacts DEF Middle
  <2>. QED
    BY <2>1, InitFacts DEF StrayOnlyAfterRemoteSwitch
<1>2. Inv /\ [Next]_deskVars => Inv'
  <2>. SUFFICES ASSUME CursorType, Touching, StrayOnlyAfterRemoteSwitch, [Next]_deskVars
                PROVE  (StrayOnlyAfterRemoteSwitch)'
    BY CursorTypeStep
  <2>1. ASSUME NEW d \in Motion, NEW q, NEW k, NEW o, Motioned(d, q, k, o)
        PROVE  (StrayOnlyAfterRemoteSwitch)'
    <3>1. PICK w \in Detector :
            /\ w.pos = q /\ w.contact = k /\ w.locked = edge.locked
            /\ MotionOf(d, w, o)
            /\ o # None => Placed(w, o, NoRatio, PlaceAtEntry(w, o, NoRatio))
      BY <2>1, MotionedFacts
    <3>2. \A a \in Axes : q[a] \in 0..(Size[a] - 1) \/ (o # None /\ a = Axis(o))
      BY <2>1 DEF Motioned, Updated
    <3>3. CASE o = None
      BY <3>1, <3>2, <3>3 DEF MotionOf, StrayOnlyAfterRemoteSwitch
    <3>4. CASE o # None /\ state' = "Forwarding"
      BY <3>4 DEF StrayOnlyAfterRemoteSwitch
    <3>5. CASE o # None /\ edge' = PlaceAtEntry(w, o, NoRatio)
      <4>1. o \in Edge
        BY <2>1, <3>5 DEF Motioned
      <4>2. \A a \in Axes : edge'.pos[a] \in 0..(Size[a] - 1)
        BY <3>1, <3>2, <3>5, <4>1, AxisFacts, SizeFacts DEF Placed
      <4>. QED
        BY <4>2 DEF StrayOnlyAfterRemoteSwitch
    <3>. QED
      BY <3>1, <3>3, <3>4, <3>5 DEF MotionOf
  <2>2. ASSUME Centred PROVE (StrayOnlyAfterRemoteSwitch)'
    BY <2>2, CentreFacts DEF Centred, CursorType, StrayOnlyAfterRemoteSwitch, OnScreen
  <2>3. ASSUME NEW e \in Edge, NEW r \in Nat \cup {NoRatio}, Entered(e, r)
        PROVE  (StrayOnlyAfterRemoteSwitch)'
    <3>1. Placed(edge, e, r, edge')
      BY <2>3, PlaceFacts DEF CursorType, Entered
    <3>2. edge'.pos[Axis(e)] \in 0..(Size[Axis(e)] - 1)
      BY <3>1, SizeFacts DEF Placed
    <3>3. CASE r = NoRatio
      <4>1. e = "Left" /\ Axis(e) = "x" /\ Cross(e) = "y" /\ entry'.edge = "Left"
        BY <2>3, <3>3 DEF Entered, Axis, Cross
      <4>. QED
        BY <3>2, <4>1, AxisFacts DEF StrayOnlyAfterRemoteSwitch
    <3>4. CASE r # NoRatio
      BY <3>1, <3>2, <3>4, AxisFacts DEF Placed, StrayOnlyAfterRemoteSwitch
    <3>. QED
      BY <3>3, <3>4
  <2>4. ASSUME Stayed PROVE (StrayOnlyAfterRemoteSwitch)'
    BY <2>4, StayedFacts DEF Stayed, StrayOnlyAfterRemoteSwitch
  <2>. QED
    BY <2>1, <2>2, <2>3, <2>4, StepForms DEF CursorType
<1>. QED
  BY <1>1, <1>2, PTL DEF Spec

-----------------------------------------------------------------------------
(* Bouncing back.                                                          *)

\* How far the cursor is inside the screen, seen from edge e.
Depth(p, e) == IF Far(e) THEN Size[Axis(e)] - 1 - p[Axis(e)] ELSE p[Axis(e)]

\* What the cursor is inside and what it has been pushed back make the margin.
PushedFromInset ==
  state = "Local" /\ entry.edge # None =>
    /\ entry.travel \in 0..Margin(entry.edge)
    /\ \/ entry.travel = Margin(entry.edge)
       \/ Depth(edge.pos, entry.edge) + entry.travel >= Margin(entry.edge) - 1

LEMMA InsetDepth ==
  ASSUME NEW e \in Edge, 2 * Margin(e) <= Size[Axis(e)], NEW p, NEW f \in Edge,
         Axis(f) = Axis(e),
         p[Axis(e)] = Inset(f) \/ (f # e /\ p[Axis(e)] = Border(f))
  PROVE  Depth(p, e) \in Nat /\ Depth(p, e) >= Margin(e) - 1
<1>1. PICK n \in Nat \ {0}, m \in Nat \ {0} : n = Size[Axis(e)] /\ m = Margin(e)
  BY AxisFacts, SizeFacts
<1>2. Margin(f) = m /\ 2 * m <= n
  BY <1>1 DEF Margin
<1>3. f # e => (Far(f) /\ ~Far(e)) \/ (~Far(f) /\ Far(e))
  BY DEF Far, Axis, Edge
<1>4. Inset(f) = IF Far(f) THEN n - m ELSE m
  BY <1>1, <1>2 DEF Inset
<1>5. Border(f) = IF Far(f) THEN n - 1 ELSE 0
  BY <1>1 DEF Border
<1>6. PICK x : x = p[Axis(e)] /\ (x = Inset(f) \/ (f # e /\ x = Border(f)))
  OBVIOUS
<1>7. \/ Far(e) /\ Far(f) /\ x = n - m
      \/ Far(e) /\ ~Far(f) /\ x \in {m, 0}
      \/ ~Far(e) /\ ~Far(f) /\ x = m
      \/ ~Far(e) /\ Far(f) /\ x \in {n - m, n - 1}
  BY <1>3, <1>4, <1>5, <1>6
<1>8. CASE Far(e)
  <2>1. x \in Nat /\ n - 1 - x \in Nat /\ n - 1 - x >= m - 1
    BY <1>2, <1>7, <1>8
  <2>. QED
    BY <1>1, <1>6, <1>8, <2>1 DEF Depth
<1>9. CASE ~Far(e)
  <2>1. x \in Nat /\ x >= m - 1
    BY <1>2, <1>7, <1>9
  <2>. QED
    BY <1>1, <1>6, <1>9, <2>1 DEF Depth
<1>. QED
  BY <1>8, <1>9

\* The screen has room for the margins of two opposite edges.
RoomForMargins == \A e \in Edge : 2 * Margin(e) <= Size[Axis(e)]

\* A motion, before anything is put back: what it takes from the depth is in
\* the travel, unless that is at its limit.
LEMMA PushedEnough ==
  ASSUME CursorType, PushedFromInset, state = "Local", NEW d \in Motion,
         NEW e \in Edge, e = entry.edge
  PROVE  /\ Pushed(d).edge = e /\ Pushed(d).travel \in 0..Margin(e)
         /\ \/ Pushed(d).travel = Margin(e)
            \/ Depth(Moved(edge, d), e) + Pushed(d).travel >= Margin(e) - 1
<1>1. /\ Axis(e) \in Axes /\ Size[Axis(e)] \in Nat /\ Margin(e) \in Nat /\ e # None
  BY AxisFacts, SizeFacts
<1>2. /\ edge.pos[Axis(e)] \in Int /\ d[Axis(e)] \in Int
      /\ Moved(edge, d)[Axis(e)] = edge.pos[Axis(e)] + d[Axis(e)]
  BY <1>1 DEF CursorType, Detector, Position, Motion, Moved
<1>3. PICK v \in Int : v = Speed(d, e)
  BY <1>2 DEF Speed
<1>4. PICK m \in Nat : m = Margin(e)
  BY <1>1
<1>5. PICK t \in 0..m : t = entry.travel
  BY <1>1, <1>4 DEF PushedFromInset
<1>6. PICK h \in Int : h = Depth(edge.pos, e) /\ Depth(Moved(edge, d), e) = h - v
  <2>1. CASE Far(e)
    BY <2>1, <1>1, <1>2, <1>3 DEF Depth, Speed
  <2>2. CASE ~Far(e)
    BY <2>2, <1>1, <1>2, <1>3 DEF Depth, Speed
  <2>. QED
    BY <2>1, <2>2
<1>7. t = m \/ h + t >= m - 1
  BY <1>1, <1>4, <1>5, <1>6 DEF PushedFromInset
<1>8. /\ Pushed(d).edge = e
      /\ Pushed(d).travel = Clamp(IF v > 0 THEN t + v ELSE t, 0, m)
  BY <1>1, <1>3, <1>4, <1>5, PushedFacts
<1>9. PICK u : u = Clamp(IF v > 0 THEN t + v ELSE t, 0, m)
  OBVIOUS
<1>10. u \in 0..m /\ (u = m \/ h - v + u >= m - 1)
  BY <1>7, <1>9 DEF Clamp
<1>. QED
  BY <1>4, <1>6, <1>8, <1>9, <1>10

\* A cursor is beyond an edge when its depth from there is negative.
LEMMA BeyondDepth ==
  ASSUME NEW p \in Position, NEW e \in Edge
  PROVE  Depth(p, e) \in Int /\ (Beyond(p, e) <=> Depth(p, e) <= -1)
<1>1. Axis(e) \in Axes /\ Size[Axis(e)] \in Nat /\ p[Axis(e)] \in Int
  BY AxisFacts, SizeFacts DEF Position
<1>2. CASE Far(e)
  BY <1>1, <1>2 DEF Depth, Beyond
<1>3. CASE ~Far(e)
  BY <1>1, <1>3 DEF Depth, Beyond
<1>. QED
  BY <1>2, <1>3

\* The position of the cursor after the motion is at least as deep, or the
\* whole margin has been pushed.
LEMMA BroughtDepth ==
  ASSUME RoomForMargins, NEW p \in Position, NEW q \in Position, NEW e \in Edge,
         Brought(p[Axis(e)], q[Axis(e)], Axis(e))
  PROVE  \/ Depth(q, e) = Depth(p, e)
         \/ Depth(p, e) <= -1
         \/ Depth(q, e) >= Margin(e) - 1
<1>1. CASE q[Axis(e)] = p[Axis(e)]
  BY <1>1 DEF Depth
<1>2. CASE \E f \in Edge :
             /\ Axis(f) = Axis(e)
             /\ IF Far(f) THEN p[Axis(e)] >= Size[Axis(e)] ELSE p[Axis(e)] < 0
             /\ q[Axis(e)] \in {Border(f), Inset(f)}
  <2>1. PICK f \in Edge :
             /\ Axis(f) = Axis(e)
             /\ IF Far(f) THEN p[Axis(e)] >= Size[Axis(e)] ELSE p[Axis(e)] < 0
             /\ q[Axis(e)] \in {Border(f), Inset(f)}
    BY <1>2
  <2>2. Beyond(p, f)
    BY <2>1 DEF Beyond
  <2>3. CASE f = e
    BY <2>2, <2>3, BeyondDepth
  <2>4. CASE f # e
    <3>1. q[Axis(e)] = Inset(f) \/ (f # e /\ q[Axis(e)] = Border(f))
      BY <2>1, <2>4
    <3>. QED
      BY <2>1, <3>1, InsetDepth DEF RoomForMargins
  <2>. QED
    BY <2>3, <2>4
<1>. QED
  BY <1>1, <1>2 DEF Brought

LEMMA PushedStep ==
  ASSUME RoomForMargins, CursorType, PushedFromInset, [Next]_deskVars
  PROVE  /\ (PushedFromInset)'
         /\ NoBounceBack => (NoBounceBack)'
<1>1. ASSUME NEW e \in Edge, edge'.pos[Axis(e)] = Inset(e),
             entry' = [edge |-> e, travel |-> 0]
      PROVE  (PushedFromInset)'
  <2>1. PICK m \in Nat : m = Margin(e)
    BY SizeFacts
  <2>2. PICK p : p = edge'.pos
    OBVIOUS
  <2>3. Depth(p, e) \in Nat /\ Depth(p, e) >= m - 1
    BY <1>1, <2>1, <2>2, InsetDepth DEF RoomForMargins
  <2>4. Depth(p, e) + 0 >= m - 1
    BY <2>1, <2>3
  <2>5. entry'.edge = e /\ entry'.travel = 0 /\ 0 \in 0..m
    BY <1>1, <2>1
  <2>. QED
    BY <2>1, <2>2, <2>4, <2>5 DEF PushedFromInset
<1>2. ASSUME crossing' = NoCrossing \/ crossing' = crossing
      PROVE  NoBounceBack => (NoBounceBack)'
  BY <1>2 DEF NoBounceBack, NoCrossing
<1>3. ASSUME NEW d \in Motion, NEW q, NEW k, NEW o, Motioned(d, q, k, o)
      PROVE  (PushedFromInset)' /\ (NoBounceBack => (NoBounceBack)')
  <2>1. PICK w \in Detector :
          /\ w.pos = q /\ w.contact = k /\ w.locked = edge.locked
          /\ MotionOf(d, w, o)
          /\ o # None => Placed(w, o, NoRatio, PlaceAtEntry(w, o, NoRatio))
    BY <1>3, MotionedFacts
  <2>2. PICK p \in Position : p = Moved(edge, d) /\ \A a \in Axes : p[a] = edge.pos[a] + d[a]
    <3>1. edge.pos \in [Axes -> Int] /\ d \in [Axes -> Int]
      BY DEF Position, Motion, CursorType, Detector
    <3>2. Moved(edge, d) \in Position
      BY <3>1 DEF Moved, Position
    <3>. QED
      BY <3>2 DEF Moved
  <2>3. /\ state = "Local" /\ q \in Position /\ o \in Edge \cup {None}
        /\ \A a \in Axes : Brought(p[a], q[a], a)
        /\ o # None => Beyond(p, o)
    BY <1>3, <2>2 DEF Motioned, MotionOf, Updated
  <2>4. ASSUME NEW e \in Edge, e = entry.edge
        PROVE  /\ Pushed(d).edge = e /\ Pushed(d).travel \in 0..Margin(e)
               /\ \/ Pushed(d).travel = Margin(e)
                  \/ Depth(p, e) + Pushed(d).travel >= Margin(e) - 1
    BY <2>2, <2>3, <2>4, PushedEnough
  <2>5. (PushedFromInset)'
    <3>1. CASE /\ o = None /\ edge' = w /\ entry' = Pushed(d)
      <4>1. SUFFICES ASSUME entry'.edge # None, state' = "Local"
                     PROVE  /\ entry'.travel \in 0..Margin(entry'.edge)
                            /\ \/ entry'.travel = Margin(entry'.edge)
                               \/ Depth(q, entry'.edge) + entry'.travel >= Margin(entry'.edge) - 1
        BY <2>1, <3>1 DEF PushedFromInset
      <4>2. PICK e \in Edge : e = entry.edge /\ entry'.edge = e
        BY <3>1, <4>1, PushedFacts DEF CursorType
      <4>3. PICK m \in Nat, t \in Nat :
              /\ m = Margin(e) /\ t = entry'.travel /\ t <= m
              /\ t = m \/ Depth(p, e) + t >= m - 1
        <5>1. Margin(e) \in Nat
          BY SizeFacts
        <5>. QED
          BY <2>4, <3>1, <4>2, <5>1
      <4>4. Depth(q, e) \in Int /\ Depth(p, e) \in Int
        BY <2>3, BeyondDepth
      <4>5. \/ Depth(q, e) = Depth(p, e)
            \/ Depth(p, e) <= -1
            \/ Depth(q, e) >= m - 1
        BY <2>3, <4>3, AxisFacts, BroughtDepth
      <4>6. t = m \/ Depth(q, e) + t >= m - 1
        BY <4>3, <4>4, <4>5
      <4>. QED
        BY <4>2, <4>3, <4>6
    <3>2. CASE state' = "Forwarding"
      BY <3>2 DEF PushedFromInset
    <3>3. CASE /\ o # None /\ edge' = PlaceAtEntry(w, o, NoRatio)
               /\ entry' = [edge |-> o, travel |-> 0]
      BY <1>1, <2>1, <2>3, <3>3 DEF Placed
    <3>. QED
      BY <2>1, <3>1, <3>2, <3>3 DEF MotionOf
  <2>6. NoBounceBack => (NoBounceBack)'
    <3>1. CASE o = None
      BY <1>2, <2>1, <3>1 DEF MotionOf
    <3>2. CASE o # None
      <4>1. crossing'.edge = o /\ crossing'.entry = Pushed(d)
        BY <2>1, <3>2 DEF MotionOf
      <4>2. CASE o # Pushed(d).edge
        BY <4>1, <4>2 DEF NoBounceBack
      <4>3. CASE o = Pushed(d).edge
        <5>1. o \in Edge /\ o = entry.edge
          BY <1>3, <2>3, <3>2, <4>3, PushedFacts
        <5>2. Depth(p, o) \in Int /\ Depth(p, o) <= -1
          BY <2>3, <3>2, <5>1, BeyondDepth
        <5>3. PICK m \in Nat, t \in Nat :
                /\ m = Margin(o) /\ t = Pushed(d).travel /\ t <= m
                /\ t = m \/ Depth(p, o) + t >= m - 1
          <6>1. Margin(o) \in Nat
            BY <5>1, SizeFacts
          <6>. QED
            BY <2>4, <5>1, <6>1
        <5>4. t >= m
          BY <5>2, <5>3
        <5>. QED
          BY <4>1, <5>3, <5>4 DEF NoBounceBack
      <4>. QED
        BY <4>2, <4>3
    <3>. QED
      BY <3>1, <3>2
  <2>. QED
    BY <2>5, <2>6
<1>4. ASSUME Centred PROVE (PushedFromInset)'
  BY <1>4 DEF Centred, NoEntry, PushedFromInset
<1>5. ASSUME NEW e \in Edge, NEW r \in Nat \cup {NoRatio}, Entered(e, r)
      PROVE  (PushedFromInset)'
  <2>1. Placed(edge, e, r, edge')
    BY <1>5, PlaceFacts DEF CursorType, Entered
  <2>. QED
    BY <1>1, <1>5, <2>1 DEF Entered, Placed
<1>6. ASSUME Stayed PROVE (PushedFromInset)'
  BY <1>6, StayedFacts DEF Stayed, PushedFromInset
<1>. QED
  BY <1>2, <1>3, <1>4, <1>5, <1>6, StepForms DEF CursorType, Centred, Entered, Stayed

\* To leave over the edge it came in by, the cursor has to be pushed the whole
\* margin towards it (edge.rs, place_at_entry_ratio).
THEOREM NoBounce ==
  ASSUME RoomForMargins
  PROVE  Spec => []NoBounceBack
<1>. DEFINE Inv == CursorType /\ Touching /\ PushedFromInset /\ NoBounceBack
<1>1. Init => Inv
  BY InitFacts DEF PushedFromInset, NoBounceBack
<1>2. Inv /\ [Next]_deskVars => Inv'
  BY CursorTypeStep, PushedStep
<1>. QED
  BY <1>1, <1>2, PTL DEF Spec

-----------------------------------------------------------------------------
(* Least numbers and induction, without an operator parameter.             *)

LEMMA LeastNumber ==
  ASSUME NEW S, S \subseteq Nat, S # {}
  PROVE  \E x \in S : \A y \in S : x <= y
<1>. DEFINE R == OpToRel(<, Nat)
<1>1. \A x, y \in Nat : x < y => <<x, y>> \in R
  BY DEF OpToRel
<1>2. IsWellFoundedOn(R, Nat)
  BY NatLessThanWellFounded
<1>. HIDE DEF R
<1>3. PICK x \in S : \A y \in S : <<y, x>> \notin R
  BY <1>2, WFMin
<1>4. ASSUME NEW y \in S PROVE x <= y
  <2>1. x \in Nat /\ y \in Nat /\ ~(y < x)
    BY <1>1, <1>3
  <2>. QED
    BY <2>1
<1>. QED
  BY <1>4

LEMMA SetInduction ==
  ASSUME NEW S, 0 \in S, \A n \in Nat : n \in S => n + 1 \in S
  PROVE  Nat \subseteq S
<1>1. SUFFICES ASSUME Nat \ S # {} PROVE FALSE
  OBVIOUS
<1>2. PICK x \in Nat \ S : \A y \in Nat \ S : x <= y
  BY <1>1, LeastNumber
<1>3. x - 1 \in Nat /\ x - 1 \in S
  BY <1>2
<1>. QED
  BY <1>2, <1>3

-----------------------------------------------------------------------------
(* Placing a screen (GridTopology).                                        *)

Node == [id : Peers \cup {Local}, cell : Coord]

Room(g, c, r) == \E d \in Ring(r) : IsFree(g, Offset(c, d))

Nearest(g, c) ==
  CHOOSE r \in 1..MaxRing : Room(g, c, r) /\ \A q \in 1..(r - 1) : ~Room(g, c, q)

LEMMA NearestFacts ==
  ASSUME NEW g, NEW c, NEW r \in 1..MaxRing, Room(g, c, r)
  PROVE  /\ Nearest(g, c) \in 1..MaxRing /\ Room(g, c, Nearest(g, c))
         /\ \A q \in 1..(Nearest(g, c) - 1) : ~Room(g, c, q)
<1>. DEFINE S == {q \in 1..MaxRing : Room(g, c, q)}
<1>1. S \subseteq Nat /\ r \in S
  BY MaxRingAssumption
<1>2. PICK x \in S : \A y \in S : x <= y
  <2>. HIDE DEF S
  <2>. QED
    BY <1>1, LeastNumber
<1>3. \A q \in 1..(x - 1) : ~Room(g, c, q)
  BY <1>2, MaxRingAssumption
<1>. QED
  BY <1>2, <1>3 DEF Nearest

\* Lexicographic order on the offsets of a ring.
Before(d, e) == d[1] < e[1] \/ (d[1] = e[1] /\ d[2] <= e[2])

Corner(g, c, r) ==
  CHOOSE d \in Ring(r) :
    IsFree(g, Offset(c, d))
      /\ \A e \in Ring(r) : IsFree(g, Offset(c, e)) => Before(d, e)

LEMMA CornerFacts ==
  ASSUME NEW g, NEW c, NEW r \in Nat, Room(g, c, r)
  PROVE  Corner(g, c, r) \in Ring(r) /\ IsFree(g, Offset(c, Corner(g, c, r)))
<1>. DEFINE D == {d \in Ring(r) : IsFree(g, Offset(c, d))}
            X == {d[1] + r : d \in D}
<1>1. D # {} /\ \A d \in D : d[1] + r \in Nat /\ d[2] + r \in Nat /\ d[1] \in Int /\ d[2] \in Int
  BY DEF Room, Ring
<1>. HIDE DEF D
<1>2. X \subseteq Nat /\ X # {}
  BY <1>1
<1>3. PICK x \in X : \A y \in X : x <= y
  <2>. HIDE DEF X
  <2>. QED
    BY <1>2, LeastNumber
<1>. DEFINE Y == {d[2] + r : d \in {e \in D : e[1] + r = x}}
<1>4. Y \subseteq Nat /\ Y # {}
  BY <1>1, <1>3
<1>5. PICK y \in Y : \A z \in Y : y <= z
  <2>. HIDE DEF Y
  <2>. QED
    BY <1>4, LeastNumber
<1>6. PICK d \in D : d[1] + r = x /\ d[2] + r = y
  BY <1>5
<1>7. ASSUME NEW e \in D PROVE Before(d, e)
  <2>1. x <= e[1] + r
    BY <1>3
  <2>2. e[1] + r = x => y <= e[2] + r
    BY <1>5
  <2>. QED
    BY <1>1, <1>6, <2>1, <2>2 DEF Before
<1>. QED
  BY <1>6, <1>7 DEF Corner, D

\* Where there is room in some ring, the cell found is the first in the nearest.
LEMMA FreeSlotFacts ==
  ASSUME NEW g, NEW c
  PROVE  /\ IsFree(g, c) => FreeSlotNear(g, c) = c
         /\ ~IsFree(g, c) /\ (\A r \in 1..MaxRing : ~Room(g, c, r)) =>
              FreeSlotNear(g, c) = Offset(c, <<100, 0>>)
         /\ ~IsFree(g, c) /\ (\E r \in 1..MaxRing : Room(g, c, r)) =>
              \E d \in Ring(Nearest(g, c)) :
                /\ FreeSlotNear(g, c) = Offset(c, d)
                /\ IsFree(g, FreeSlotNear(g, c))
<1>. DEFINE straight == {k \in 1..4 : IsFree(g, Offset(c, Cardinals(Nearest(g, c))[k]))}
            first    == CHOOSE k \in straight : \A j \in straight : k <= j
<1>1. FreeSlotNear(g, c) =
        IF IsFree(g, c) THEN c
        ELSE IF \A r \in 1..MaxRing : ~Room(g, c, r) THEN Offset(c, <<100, 0>>)
        ELSE Offset(c, IF straight # {} THEN Cardinals(Nearest(g, c))[first]
                       ELSE Corner(g, c, Nearest(g, c)))
  BY DEF FreeSlotNear, Room, Nearest, Corner, Before
<1>2. ASSUME ~IsFree(g, c), NEW r \in 1..MaxRing, Room(g, c, r)
      PROVE  \E d \in Ring(Nearest(g, c)) :
                /\ FreeSlotNear(g, c) = Offset(c, d)
                /\ IsFree(g, FreeSlotNear(g, c))
  <2>1. PICK n \in Nat \ {0} : n = Nearest(g, c) /\ Room(g, c, n)
    BY <1>2, NearestFacts, MaxRingAssumption
  <2>2. CASE straight # {}
    <3>1. straight \subseteq Nat
      OBVIOUS
    <3>2. first \in straight
      <4>. HIDE DEF straight
      <4>. QED
        BY <2>2, <3>1, LeastNumber
    <3>3. \A k \in 1..4 : Cardinals(n)[k] \in Ring(n)
      BY <2>1 DEF Cardinals, Ring
    <3>4. PICK k \in 1..4 : k = first /\ IsFree(g, Offset(c, Cardinals(n)[k]))
      BY <2>1, <3>2
    <3>. QED
      BY <1>1, <1>2, <2>1, <2>2, <3>3, <3>4
  <2>3. CASE straight = {}
    BY <1>1, <1>2, <2>1, <2>3, CornerFacts
  <2>. QED
    BY <2>2, <2>3
<1>. QED
  BY <1>1, <1>2

\* The cells a ring at most MaxRing away can reach, and the cell itself.
Reach == (-MaxRing..MaxRing) \X (-MaxRing..MaxRing)

Places == (2 * MaxRing + 1) * (2 * MaxRing + 1)

LEMMA PlacesFacts == Places \in Nat /\ IsFiniteSet(Reach) /\ Cardinality(Reach) = Places
<1>1. PICK m \in Nat : m = MaxRing
  BY MaxRingAssumption
<1>2. IsFiniteSet(-m..m) /\ Cardinality(-m..m) = 2 * m + 1
  BY FS_Interval
<1>3. /\ IsFiniteSet((-m..m) \X (-m..m))
      /\ Cardinality((-m..m) \X (-m..m)) = (2 * m + 1) * (2 * m + 1)
  BY <1>2, FS_Product
<1>4. (2 * m + 1) * (2 * m + 1) \in Nat
  OBVIOUS
<1>. QED
  BY <1>1, <1>3, <1>4 DEF Reach, Places

\* A grid of fewer screens has room around any of its cells.
LEMMA RoomAround ==
  ASSUME NEW g \in Seq(Node), Len(g) < Places, NEW c \in Coord, ~IsFree(g, c)
  PROVE  \E r \in 1..MaxRing : Room(g, c, r)
<1>1. ASSUME NEW d \in Reach, IsFree(g, Offset(c, d))
      PROVE  \E r \in 1..MaxRing : Room(g, c, r)
  <2>1. PICK m \in Nat : m = MaxRing
    BY MaxRingAssumption
  <2>2. PICK x \in -m..m, y \in -m..m : d = <<x, y>>
    BY <2>1 DEF Reach
  <2>3. d # <<0, 0>>
    <3>1. c = <<c[1], c[2]>> /\ c[1] \in Int /\ c[2] \in Int
      BY DEF Coord
    <3>2. Offset(c, <<0, 0>>) = c
      BY <3>1 DEF Offset
    <3>. QED
      BY <1>1, <3>2
  <2>4. \E r \in 1..m : x \in -r..r /\ y \in -r..r /\ (x \in {-r, r} \/ y \in {-r, r})
    <3>0. \A z \in -m..m : z \in 0..m \/ -z \in 0..m
      OBVIOUS
    <3>1. PICK a \in 0..m : a = x \/ a = -x
      BY <2>2, <3>0
    <3>2. PICK b \in 0..m : b = y \/ b = -y
      BY <2>2, <3>0
    <3>3. a # 0 \/ b # 0
      BY <2>2, <2>3, <3>1, <3>2
    <3>4. CASE a >= b
      <4>1. a \in 1..m /\ x \in -a..a /\ y \in -a..a /\ x \in {-a, a}
        BY <2>2, <3>1, <3>2, <3>3, <3>4
      <4>. QED
        BY <4>1
    <3>5. CASE a < b
      <4>1. b \in 1..m /\ x \in -b..b /\ y \in -b..b /\ y \in {-b, b}
        BY <2>2, <3>1, <3>2, <3>3, <3>5
      <4>. QED
        BY <4>1
    <3>. QED
      BY <3>1, <3>2, <3>4, <3>5
  <2>5. PICK r \in 1..m : d \in Ring(r)
    BY <2>2, <2>4 DEF Ring
  <2>. QED
    BY <1>1, <2>1, <2>5 DEF Room
<1>2. ASSUME \A d \in Reach : ~IsFree(g, Offset(c, d)) PROVE FALSE
  <2>. DEFINE f == [d \in Reach |-> CHOOSE i \in DOMAIN g : g[i].cell = Offset(c, d)]
  <2>1. \A d \in Reach : f[d] \in DOMAIN g /\ g[f[d]].cell = Offset(c, d)
    BY <1>2 DEF IsFree, Cells
  <2>2. f \in [Reach -> 1..Len(g)]
    BY <2>1
  <2>3. IsFiniteSet(1..Len(g)) /\ Cardinality(1..Len(g)) = Len(g)
    <3>1. PICK n \in Nat : n = Len(g)
      OBVIOUS
    <3>2. IsFiniteSet(1..n) /\ Cardinality(1..n) = n
      BY FS_Interval
    <3>. QED
      BY <3>1, <3>2
  <2>. HIDE DEF f
  <2>4. PICK d, e \in Reach : d # e /\ f[d] = f[e]
    BY <2>2, <2>3, PlacesFacts, FS_PigeonHole
  <2>5. Offset(c, d) = Offset(c, e)
    BY <2>1, <2>4
  <2>6. /\ d = <<d[1], d[2]>> /\ d[1] \in Int /\ d[2] \in Int
        /\ e = <<e[1], e[2]>> /\ e[1] \in Int /\ e[2] \in Int
    BY MaxRingAssumption DEF Reach
  <2>7. c[1] \in Int /\ c[2] \in Int
    BY DEF Coord
  <2>8. d[1] = e[1] /\ d[2] = e[2]
    BY <2>5, <2>6, <2>7 DEF Offset
  <2>. QED
    BY <2>4, <2>6, <2>8
<1>. QED
  BY <1>1, <1>2

\* A screen gets a cell of the grid; it is free where there is room, and it is
\* around the cell asked for where there is room around it.
LEMMA SlotFacts ==
  ASSUME NEW g \in Seq(Node), NEW c \in Coord
  PROVE  /\ FreeSlotNear(g, c) \in Coord
         /\ Len(g) < Places => IsFree(g, FreeSlotNear(g, c))
         /\ ~IsFree(g, c) /\ Room(g, c, 1) =>
              /\ \E d \in Ring(1) : FreeSlotNear(g, c) = Offset(c, d)
              /\ IsFree(g, FreeSlotNear(g, c))
<1>1. \A d \in Int \X Int : Offset(c, d) \in Coord
  BY DEF Coord, Offset
<1>2. \A r \in Nat : \A d \in Ring(r) : d \in Int \X Int
  BY DEF Ring
<1>3. CASE IsFree(g, c)
  BY <1>3, FreeSlotFacts
<1>4. CASE ~IsFree(g, c) /\ \A r \in 1..MaxRing : ~Room(g, c, r)
  <2>1. FreeSlotNear(g, c) = Offset(c, <<100, 0>>)
    BY <1>4, FreeSlotFacts
  <2>2. 1 \in 1..MaxRing
    BY MaxRingAssumption
  <2>. QED
    BY <1>1, <1>4, <2>1, <2>2, RoomAround
<1>5. CASE ~IsFree(g, c) /\ \E r \in 1..MaxRing : Room(g, c, r)
  <2>1. PICK n \in 1..MaxRing : n = Nearest(g, c) /\ \A q \in 1..(n - 1) : ~Room(g, c, q)
    BY <1>5, NearestFacts
  <2>2. PICK d \in Ring(n) : FreeSlotNear(g, c) = Offset(c, d) /\ IsFree(g, FreeSlotNear(g, c))
    BY <1>5, <2>1, FreeSlotFacts
  <2>3. n \in Nat /\ (n # 1 => 1 \in 1..(n - 1))
    BY <2>1, MaxRingAssumption
  <2>4. Room(g, c, 1) => n = 1
    BY <2>1, <2>3
  <2>. QED
    BY <1>1, <1>2, <2>2, <2>3, <2>4
<1>. QED
  BY <1>3, <1>4, <1>5

\* A screen whose id is new is added at the end, on the cell found for it.
LEMMA AddFacts ==
  ASSUME NEW g \in Seq(Node), NEW id, \A i \in DOMAIN g : g[i].id # id, NEW c
  PROVE  AddOrUpdate(g, ScreenNode(id, c)) = Append(g, ScreenNode(id, FreeSlotNear(g, c)))
<1>1. ScreenNode(id, c).id = id /\ ScreenNode(id, c).cell = c
  BY DEF ScreenNode
<1>2. {i \in DOMAIN g : g[i].id = ScreenNode(id, c).id} = {}
  BY <1>1
<1>3. (\E i \in DOMAIN g : g[i].id # ScreenNode(id, c).id /\ g[i].cell = ScreenNode(id, c).cell)
        <=> ~IsFree(g, c)
  BY <1>1 DEF IsFree, Cells
<1>4. IsFree(g, c) => FreeSlotNear(g, c) = c
  BY FreeSlotFacts
<1>. QED
  BY <1>1, <1>2, <1>3, <1>4 DEF AddOrUpdate

-----------------------------------------------------------------------------
(* The list of peers, and the grid built from it.                          *)

PeerInfo == [name : Peers, position : Word, cell : Coord]

Listed(ps) ==
  /\ ps \in Seq(PeerInfo)
  /\ \A i, j \in DOMAIN ps : i # j => ps[i].name # ps[j].name

\* The names in the list are names of peers, each at most once.
PeersListed == Listed(peers)

\* Grid g holds this machine and the first n peers, each screen on the cell
\* found for it among the ones before it.
BuiltFrom(ps, g, n) ==
  /\ g \in Seq(Node) /\ Len(g) = n + 1
  /\ g[1] = ScreenNode(Local, Origin)
  /\ \A i \in 1..n :
       /\ g[i + 1].id = ps[i].name
       /\ \E h \in Seq(Node) :
            /\ Len(h) = i /\ \A j \in 1..i : h[j] = g[j]
            /\ g[i + 1].cell = FreeSlotNear(h, ps[i].cell)

LEMMA BuiltFirst ==
  ASSUME NEW ps, NEW g, g = <<ScreenNode(Local, Origin)>>
  PROVE  BuiltFrom(ps, g, 0)
<1>1. ScreenNode(Local, Origin) \in Node
  BY DEF ScreenNode, Node, Origin, Coord
<1>2. g \in Seq(Node) /\ Len(g) = 1 /\ g[1] = ScreenNode(Local, Origin)
  BY <1>1
<1>. QED
  BY <1>2 DEF BuiltFrom

LEMMA BuiltNext ==
  ASSUME NEW ps, Listed(ps), NEW n \in Nat, n < Len(ps), NEW g, BuiltFrom(ps, g, n)
  PROVE  BuiltFrom(ps, AddOrUpdate(g, ScreenNode(ps[n + 1].name, ps[n + 1].cell)), n + 1)
<1>1. g \in Seq(Node) /\ Len(g) = n + 1 /\ g[1] = ScreenNode(Local, Origin)
  BY DEF BuiltFrom
<1>2. PICK p \in PeerInfo : p = ps[n + 1]
  BY DEF Listed
<1>3. p.name \in Peers /\ p.cell \in Coord /\ p.name # Local
  BY <1>2, PeerAssumption DEF PeerInfo
<1>4. ASSUME NEW i \in DOMAIN g PROVE g[i].id # p.name
  <2>1. CASE i = 1
    BY <1>1, <1>3, <2>1 DEF ScreenNode
  <2>2. CASE i # 1
    <3>0. i - 1 \in 1..n /\ i = (i - 1) + 1
      BY <1>1, <1>4, <2>2
    <3>1. PICK k \in 1..n : i = k + 1
      BY <3>0
    <3>2. g[i].id = ps[k].name
      BY <3>1 DEF BuiltFrom
    <3>3. k # n + 1 /\ k \in DOMAIN ps /\ n + 1 \in DOMAIN ps
      BY <3>1 DEF Listed
    <3>. QED
      BY <1>2, <3>2, <3>3 DEF Listed
  <2>. QED
    BY <2>1, <2>2
<1>5. PICK s : s = ScreenNode(p.name, FreeSlotNear(g, p.cell))
  OBVIOUS
<1>6. s \in Node /\ s.id = p.name /\ s.cell = FreeSlotNear(g, p.cell)
  BY <1>1, <1>3, <1>5, SlotFacts DEF Node, ScreenNode
<1>7. AddOrUpdate(g, ScreenNode(p.name, p.cell)) = Append(g, s)
  BY <1>1, <1>4, <1>5, AddFacts
<1>8. PICK a : a = Append(g, s)
  OBVIOUS
<1>9. /\ a \in Seq(Node) /\ Len(a) = n + 2 /\ a[n + 2] = s
      /\ \A j \in 1..(n + 1) : a[j] = g[j]
  BY <1>1, <1>6, <1>8
<1>10. ASSUME NEW i \in 1..(n + 1)
       PROVE  /\ a[i + 1].id = ps[i].name
              /\ \E h \in Seq(Node) :
                   /\ Len(h) = i /\ \A j \in 1..i : h[j] = a[j]
                   /\ a[i + 1].cell = FreeSlotNear(h, ps[i].cell)
  <2>1. CASE i = n + 1
    BY <1>1, <1>2, <1>6, <1>9, <2>1
  <2>2. CASE i \in 1..n
    <3>1. i + 1 \in 1..(n + 1) /\ a[i + 1] = g[i + 1]
      BY <1>9, <2>2
    <3>2. PICK h \in Seq(Node) :
            /\ Len(h) = i /\ \A j \in 1..i : h[j] = g[j]
            /\ g[i + 1].cell = FreeSlotNear(h, ps[i].cell)
      BY <2>2 DEF BuiltFrom
    <3>3. \A j \in 1..i : h[j] = a[j]
      BY <1>9, <2>2, <3>2
    <3>. QED
      BY <2>2, <3>1, <3>2, <3>3 DEF BuiltFrom
  <2>. QED
    BY <2>1, <2>2
<1>11. a[1] = ScreenNode(Local, Origin)
  BY <1>1, <1>9
<1>. QED
  BY <1>2, <1>7, <1>8, <1>9, <1>10, <1>11 DEF BuiltFrom

\* The function that from_peer_infos computes step by step.
Steps(ps, f, n) ==
  f = [k \in 0..n |-> IF k = 0 THEN <<ScreenNode(Local, Origin)>>
                      ELSE AddOrUpdate(f[k - 1], ScreenNode(ps[k].name, ps[k].cell))]

LEMMA StepsExist ==
  ASSUME NEW ps
  PROVE  \A n \in Nat : \E f : Steps(ps, f, n)
<1>. DEFINE S == {n \in Nat : \E f : Steps(ps, f, n)}
<1>1. 0 \in S
  <2>1. PICK f : f = [k \in 0..0 |-> <<ScreenNode(Local, Origin)>>]
    OBVIOUS
  <2>2. f = [k \in 0..0 |-> IF k = 0 THEN <<ScreenNode(Local, Origin)>>
                            ELSE AddOrUpdate(f[k - 1], ScreenNode(ps[k].name, ps[k].cell))]
    BY <2>1
  <2>. QED
    BY <2>2 DEF Steps
<1>2. ASSUME NEW n \in Nat, n \in S PROVE n + 1 \in S
  <2>1. PICK f : Steps(ps, f, n)
    BY <1>2
  <2>2. PICK x : x = AddOrUpdate(f[n], ScreenNode(ps[n + 1].name, ps[n + 1].cell))
    OBVIOUS
  <2>3. PICK h : h = [k \in 0..(n + 1) |-> IF k = n + 1 THEN x ELSE f[k]]
    OBVIOUS
  <2>4. \A k \in 0..n : h[k] = f[k]
    BY <2>3
  <2>5. h[n + 1] = x
    BY <2>3
  <2>6. ASSUME NEW k \in 0..(n + 1)
        PROVE  h[k] = IF k = 0 THEN <<ScreenNode(Local, Origin)>>
                      ELSE AddOrUpdate(h[k - 1], ScreenNode(ps[k].name, ps[k].cell))
    <3>1. CASE k = n + 1
      BY <2>2, <2>4, <2>5, <3>1
    <3>2. CASE k \in 1..n
      <4>1. k - 1 \in 0..n /\ k \in 0..n
        BY <3>2
      <4>2. f[k] = AddOrUpdate(f[k - 1], ScreenNode(ps[k].name, ps[k].cell))
        BY <2>1, <3>2 DEF Steps
      <4>. QED
        BY <2>4, <3>2, <4>1, <4>2
    <3>3. CASE k = 0
      BY <2>1, <2>4, <3>3 DEF Steps
    <3>. QED
      BY <3>1, <3>2, <3>3
  <2>7. Steps(ps, h, n + 1)
    BY <2>3, <2>6 DEF Steps
  <2>. QED
    BY <2>7
<1>3. Nat \subseteq S
  <2>. HIDE DEF S
  <2>. QED
    BY <1>1, <1>2, SetInduction
<1>. QED
  BY <1>3

LEMMA GridBuilt ==
  ASSUME NEW ps, Listed(ps)
  PROVE  BuiltFrom(ps, FromPeerInfos(ps, Local), Len(ps))
<1>1. Len(ps) \in Nat
  BY DEF Listed
<1>. DEFINE built == CHOOSE f : Steps(ps, f, Len(ps))
<1>2. Steps(ps, built, Len(ps))
  BY <1>1, StepsExist
<1>3. FromPeerInfos(ps, Local) = built[Len(ps)]
  BY DEF FromPeerInfos, Steps
<1>. HIDE DEF built
<1>. DEFINE S == {n \in Nat : n <= Len(ps) => BuiltFrom(ps, built[n], n)}
<1>4. 0 \in S
  <2>1. built[0] = <<ScreenNode(Local, Origin)>>
    BY <1>1, <1>2 DEF Steps
  <2>. QED
    BY <2>1, BuiltFirst
<1>5. ASSUME NEW n \in Nat, n \in S PROVE n + 1 \in S
  <2>1. SUFFICES ASSUME n + 1 <= Len(ps) PROVE BuiltFrom(ps, built[n + 1], n + 1)
    OBVIOUS
  <2>2. n < Len(ps) /\ BuiltFrom(ps, built[n], n)
    BY <1>1, <1>5, <2>1
  <2>3. built[n + 1] = AddOrUpdate(built[n], ScreenNode(ps[n + 1].name, ps[n + 1].cell))
    BY <1>1, <1>2, <2>1 DEF Steps
  <2>. QED
    BY <2>2, <2>3, BuiltNext
<1>6. Nat \subseteq S
  <2>. HIDE DEF S
  <2>. QED
    BY <1>4, <1>5, SetInduction
<1>. QED
  BY <1>1, <1>3, <1>6

LEMMA PeersStep ==
  ASSUME PeersListed, [Next]_deskVars
  PROVE  (PeersListed)'
<1>0. peers \in Seq(PeerInfo) /\ Len(peers) \in Nat /\ DOMAIN peers = 1..Len(peers)
      /\ \A i, j \in DOMAIN peers : i # j => peers[i].name # peers[j].name
  BY DEF PeersListed, Listed
<1>1. ASSUME UNCHANGED peers PROVE (PeersListed)'
  BY <1>1 DEF PeersListed
<1>2. ASSUME NEW new, Edit(new), Listed(new) PROVE (PeersListed)'
  BY <1>2 DEF Edit, PeersListed
<1>3. ASSUME NEW n \in Peers, RegisterPeer(n) PROVE (PeersListed)'
  <2>1. PICK p : p = [name |-> n, position |-> "right", cell |-> <<1, 0>>]
    OBVIOUS
  <2>2. p \in PeerInfo /\ p.name = n
    BY <2>1 DEF PeerInfo, Word, Coord
  <2>3. PICK new : new = Append(peers, p)
    OBVIOUS
  <2>4. /\ new \in Seq(PeerInfo) /\ DOMAIN new = 1..(Len(peers) + 1)
        /\ new[Len(peers) + 1] = p /\ \A i \in DOMAIN peers : new[i] = peers[i]
    BY <1>0, <2>2, <2>3
  <2>5. \A i \in DOMAIN peers : peers[i].name # n
    BY <1>3 DEF RegisterPeer
  <2>6. \A i \in DOMAIN new : i \in DOMAIN peers \/ i = Len(peers) + 1
    BY <1>0, <2>4
  <2>7. Listed(new)
    BY <1>0, <2>2, <2>4, <2>5, <2>6 DEF Listed
  <2>8. Edit(new)
    BY <1>3, <2>1, <2>3 DEF RegisterPeer
  <2>. QED
    BY <1>2, <2>7, <2>8
<1>4. ASSUME NEW n \in Peers, ForgetPeer(n) PROVE (PeersListed)'
  <2>1. PICK kept : kept = {i \in DOMAIN peers : peers[i].name # n}
    OBVIOUS
  <2>2. PICK f \in [1..Cardinality(kept) -> kept] :
          /\ \A j, k \in DOMAIN f : j < k => f[j] < f[k]
          /\ Edit([k \in DOMAIN f |-> peers[f[k]]])
    BY <1>4, <2>1 DEF ForgetPeer
  <2>3. PICK m \in Nat : m = Cardinality(kept)
    <3>1. IsFiniteSet(DOMAIN peers)
      BY <1>0, FS_Interval
    <3>2. kept \subseteq DOMAIN peers
      BY <2>1
    <3>3. IsFiniteSet(kept)
      BY <3>1, <3>2, FS_Subset
    <3>. QED
      BY <3>3, FS_CardinalityType
  <2>4. PICK new : new = [k \in 1..m |-> peers[f[k]]]
    OBVIOUS
  <2>5. \A k \in 1..m : f[k] \in DOMAIN peers
    BY <2>1, <2>2, <2>3
  <2>6. new \in Seq(PeerInfo) /\ DOMAIN new = 1..m
    <3>1. \A k \in 1..m : peers[f[k]] \in PeerInfo
      BY <1>0, <2>5
    <3>. QED
      BY <2>3, <2>4, <3>1
  <2>7. ASSUME NEW j \in 1..m, NEW k \in 1..m, j # k PROVE f[j] # f[k]
    <3>1. f[j] < f[k] \/ f[k] < f[j]
      BY <2>2, <2>3, <2>7
    <3>2. f[j] \in Nat /\ f[k] \in Nat
      BY <1>0, <2>5
    <3>. QED
      BY <3>1, <3>2
  <2>8. Listed(new)
    BY <1>0, <2>4, <2>5, <2>6, <2>7 DEF Listed
  <2>9. Edit(new)
    BY <2>2, <2>3, <2>4
  <2>. QED
    BY <1>2, <2>8, <2>9
<1>5. ASSUME NEW new, Edit(new), DOMAIN new = DOMAIN peers,
             new = [i \in DOMAIN peers |-> new[i]],
             \A i \in DOMAIN peers : new[i] \in PeerInfo /\ new[i].name = peers[i].name
      PROVE  (PeersListed)'
  <2>1. new \in Seq(PeerInfo)
    BY <1>0, <1>5
  <2>2. Listed(new)
    BY <1>0, <1>5, <2>1 DEF Listed
  <2>. QED
    BY <1>2, <1>5, <2>2
<1>6. /\ \A w \in Word : WordCell(w) \in Coord /\ OppositeWord(w) \in Word
      /\ \A c \in Coord : CellWord(c) \in Word
  BY DEF WordCell, OppositeWord, CellWord, Word, Coord
<1>7. ASSUME NEW a, NEW w \in Words, SyncTopology(a, w) PROVE (PeersListed)'
  <2>1. PICK new : new = [i \in DOMAIN peers |->
                            IF Meant(a, i)
                            THEN [peers[i] EXCEPT !.position = w, !.cell = WordCell(w)]
                            ELSE peers[i]]
    OBVIOUS
  <2>2. w \in Word /\ WordCell(w) \in Coord
    BY <1>6, WordsAssumption
  <2>3. ASSUME NEW i \in DOMAIN peers
        PROVE  new[i] \in PeerInfo /\ new[i].name = peers[i].name
    <3>1. PICK p \in PeerInfo : p = peers[i]
      BY <1>0
    <3>2. new[i] = p \/ new[i] = [p EXCEPT !.position = w, !.cell = WordCell(w)]
      BY <2>1, <3>1
    <3>. QED
      BY <2>2, <3>1, <3>2 DEF PeerInfo
  <2>4. Edit(new)
    BY <1>7, <2>1 DEF SyncTopology
  <2>. QED
    BY <1>5, <2>1, <2>3, <2>4
<1>8. ASSUME NEW a, NEW c \in GridCells, SyncTopologyGrid(a, c) PROVE (PeersListed)'
  <2>1. PICK new : new = [i \in DOMAIN peers |->
                            IF Meant(a, i)
                            THEN [peers[i] EXCEPT !.position = CellWord(c), !.cell = c]
                            ELSE peers[i]]
    OBVIOUS
  <2>2. c \in Coord /\ CellWord(c) \in Word
    BY <1>6, InputsAssumption
  <2>3. ASSUME NEW i \in DOMAIN peers
        PROVE  new[i] \in PeerInfo /\ new[i].name = peers[i].name
    <3>1. PICK p \in PeerInfo : p = peers[i]
      BY <1>0
    <3>2. new[i] = p \/ new[i] = [p EXCEPT !.position = CellWord(c), !.cell = c]
      BY <2>1, <3>1
    <3>. QED
      BY <2>2, <3>1, <3>2 DEF PeerInfo
  <2>4. Edit(new)
    BY <1>8, <2>1 DEF SyncTopologyGrid
  <2>. QED
    BY <1>5, <2>1, <2>3, <2>4
<1>9. ASSUME NEW n, NEW w \in Words, TopologySync(n, w) PROVE (PeersListed)'
  <2>1. PICK new : new = [i \in DOMAIN peers |->
                            IF Meant(n, i)
                            THEN [peers[i] EXCEPT !.position = OppositeWord(w)]
                            ELSE peers[i]]
    OBVIOUS
  <2>2. OppositeWord(w) \in Word
    BY <1>6, WordsAssumption
  <2>3. ASSUME NEW i \in DOMAIN peers
        PROVE  new[i] \in PeerInfo /\ new[i].name = peers[i].name
    <3>1. PICK p \in PeerInfo : p = peers[i]
      BY <1>0
    <3>2. new[i] = p \/ new[i] = [p EXCEPT !.position = OppositeWord(w)]
      BY <2>1, <3>1
    <3>. QED
      BY <2>2, <3>1, <3>2 DEF PeerInfo
  <2>4. Edit(new)
    BY <1>9, <2>1 DEF TopologySync
  <2>. QED
    BY <1>5, <2>1, <2>3, <2>4
<1>10. ASSUME Cursor PROVE UNCHANGED peers
  <2>1. \A c : GoTo(c) \/ MoveOn(c) \/ ComeBack => UNCHANGED peers
    BY DEF GoTo, MoveOn, ComeBack
  <2>. QED
    BY <1>10, <2>1 DEF Cursor, LocalMotion, SwitchScreen, DirectionalJump,
       InboundReturnControl, ToggleCursorLock, TimePasses
<1>. QED
  BY <1>1, <1>3, <1>4, <1>7, <1>8, <1>9, <1>10 DEF Next, Rearrange, deskVars

\* However it is edited, the list holds peers, each at most once.
THEOREM PeersStayListed == Spec => []PeersListed
<1>1. Init => PeersListed
  <2>1. ASSUME Init PROVE PeersListed
    <3>1. [name |-> Peer, position |-> "right", cell |-> <<1, 0>>] \in PeerInfo
      BY PeerAssumption DEF PeerInfo, Word, Coord
    <3>. QED
      BY <2>1, <3>1 DEF Init, PeersListed, Listed
  <2>. QED
    BY <2>1
<1>2. PeersListed /\ [Next]_deskVars => (PeersListed)'
  BY PeersStep
<1>. QED
  BY <1>1, <1>2, PTL DEF Spec

\* A grid with a cell for each of its screens: in the code, 10201 of them.
RoomForScreens == Len(peers) < Places

LEMMA OneScreenPerCellFacts == PeersListed /\ RoomForScreens => OneScreenPerCell
<1>1. SUFFICES ASSUME PeersListed, RoomForScreens PROVE OneScreenPerCell
  OBVIOUS
<1>2. PICK g : g = grid /\ BuiltFrom(peers, g, Len(peers))
  BY <1>1, GridBuilt DEF PeersListed, grid
<1>3. /\ g \in Seq(Node) /\ Len(g) = Len(peers) + 1 /\ Len(peers) \in Nat
      /\ g[1] = ScreenNode(Local, Origin)
  BY <1>1, <1>2 DEF BuiltFrom, PeersListed, Listed
<1>4. ASSUME NEW i \in 1..Len(peers), NEW j \in 1..i
      PROVE  g[i + 1].cell # g[j].cell /\ g[i + 1].id # g[j].id
  <2>1. PICK h \in Seq(Node) :
          /\ Len(h) = i /\ \A k \in 1..i : h[k] = g[k]
          /\ g[i + 1].cell = FreeSlotNear(h, peers[i].cell)
    BY <1>2 DEF BuiltFrom
  <2>2. peers[i].cell \in Coord /\ peers[i].name \in Peers /\ Len(h) < Places
    <3>1. peers[i] \in PeerInfo
      BY <1>1 DEF PeersListed, Listed
    <3>2. Places \in Nat
      BY PlacesFacts
    <3>. QED
      BY <1>1, <1>3, <2>1, <3>1, <3>2 DEF PeerInfo, RoomForScreens
  <2>3. IsFree(h, g[i + 1].cell)
    BY <2>1, <2>2, SlotFacts
  <2>4. g[i + 1].cell # g[j].cell
    BY <2>1, <2>3 DEF IsFree, Cells
  <2>5. g[i + 1].id = peers[i].name
    BY <1>2 DEF BuiltFrom
  <2>6. CASE j = 1
    BY <1>3, <2>2, <2>4, <2>5, <2>6, PeerAssumption DEF ScreenNode
  <2>7. CASE j # 1
    <3>1. j - 1 \in 1..Len(peers) /\ j - 1 # i /\ (j - 1) + 1 = j
      BY <1>3, <2>7
    <3>2. g[j].id = peers[j - 1].name
      BY <1>2, <3>1 DEF BuiltFrom
    <3>3. peers[i].name # peers[j - 1].name
      BY <1>1, <1>3, <3>1 DEF PeersListed, Listed
    <3>. QED
      BY <2>4, <2>5, <3>2, <3>3
  <2>. QED
    BY <2>6, <2>7
<1>5. ASSUME NEW i \in DOMAIN g, NEW j \in DOMAIN g, j < i
      PROVE  g[i].cell # g[j].cell /\ g[i].id # g[j].id
  <2>1. i - 1 \in 1..Len(peers) /\ j \in 1..(i - 1) /\ (i - 1) + 1 = i
    BY <1>3, <1>5
  <2>. QED
    BY <1>4, <2>1
<1>6. \A i, j \in DOMAIN g : i # j => i < j \/ j < i
  BY <1>3
<1>. QED
  BY <1>2, <1>3, <1>5, <1>6 DEF OneScreenPerCell

\* However the list is edited, its grid has each screen once, on a cell of its
\* own (topology.rs, from_peer_infos and add_or_update).
THEOREM EachScreenHasItsCell == Spec => [](RoomForScreens => OneScreenPerCell)
BY PeersStayListed, OneScreenPerCellFacts, PTL

LEMMA PlacedAsAskedFacts == PeersListed => PlacedAsAsked
<1>1. SUFFICES ASSUME PeersListed PROVE PlacedAsAsked
  OBVIOUS
<1>2. PICK g : g = grid /\ BuiltFrom(peers, g, Len(peers))
  BY <1>1, GridBuilt DEF PeersListed, grid
<1>3. ASSUME NEW i \in DOMAIN peers
      PROVE  LET asked   == peers[i].cell
                 got     == g[i + 1].cell
                 earlier == {g[j].cell : j \in 1..i}
                 around  == {Offset(asked, d) : d \in Ring(1)}
             IN IF asked \notin earlier THEN got = asked
                ELSE around \subseteq earlier \/ got \in around \ earlier
  <2>1. i \in 1..Len(peers) /\ peers[i] \in PeerInfo /\ Len(peers) \in Nat
    BY <1>1 DEF PeersListed, Listed
  <2>2. PICK h \in Seq(Node) :
          /\ Len(h) = i /\ \A k \in 1..i : h[k] = g[k]
          /\ g[i + 1].cell = FreeSlotNear(h, peers[i].cell)
    BY <1>2, <2>1 DEF BuiltFrom
  <2>3. PICK c \in Coord : c = peers[i].cell
    BY <2>1 DEF PeerInfo
  <2>4. Cells(h) = {g[j].cell : j \in 1..i}
    BY <2>2 DEF Cells
  <2>5. CASE c \notin Cells(h)
    <3>1. FreeSlotNear(h, c) = c
      BY <2>5, FreeSlotFacts DEF IsFree
    <3>. QED
      BY <2>2, <2>3, <2>4, <2>5, <3>1
  <2>6. CASE c \in Cells(h)
    <3>1. CASE \A d \in Ring(1) : Offset(c, d) \in Cells(h)
      BY <2>3, <2>4, <2>6, <3>1
    <3>2. CASE \E d \in Ring(1) : Offset(c, d) \notin Cells(h)
      <4>1. Room(h, c, 1) /\ ~IsFree(h, c)
        BY <2>6, <3>2 DEF Room, IsFree
      <4>2. /\ \E d \in Ring(1) : FreeSlotNear(h, c) = Offset(c, d)
            /\ FreeSlotNear(h, c) \notin Cells(h)
        BY <4>1, SlotFacts DEF IsFree
      <4>. QED
        BY <2>2, <2>3, <2>4, <2>6, <4>2
    <3>. QED
      BY <3>1, <3>2
  <2>. QED
    BY <2>5, <2>6
<1>. QED
  BY <1>2, <1>3 DEF PlacedAsAsked

\* A screen stands where it asks to, or as near as there is room
\* (topology.rs, find_free_slot_near).
THEOREM PlacedWhereAsked == Spec => []PlacedAsAsked
BY PeersStayListed, PlacedAsAskedFacts, PTL
=============================================================================
