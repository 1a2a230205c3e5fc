--------------------------- MODULE Touchpad_proof ---------------------------
(***************************************************************************)
(* Proofs about Touchpad, for any pad and scroll unit: its types, that a   *)
(* click that is over holds no button, and, for pads of up to four         *)
(* fingers, that the pointer moves with one finger only and by what the    *)
(* oldest finger moved.                                                    *)
(***************************************************************************)
EXTENDS Touchpad, FiniteSetTheorems, SequenceTheorems, WellFoundedInduction,
        TLAPS

-----------------------------------------------------------------------------
(* What there is in a frame.  F, P, S and C stand for fingers, pointer,      *)
(* slot and clicked, which are those at the end of the frame.                *)

ToolTypes == {"BTN_TOOL_FINGER", "BTN_TOOL_DOUBLETAP", "BTN_TOOL_TRIPLETAP",
              "BTN_TOOL_QUADTAP"}
SlotTypes == {"ABS_MT_SLOT", "ABS_MT_TRACKING_ID", "ABS_MT_POSITION_X",
              "ABS_MT_POSITION_Y"}
Types == SlotTypes \cup {"BTN_TOUCH"} \cup ToolTypes
           \cup {"ABS_X", "ABS_Y", "BTN_LEFT", "SYN"}

Events == [type : Types, value : Int]

\* The order of the types in a frame.
Rank(e) ==
  IF e.type \in SlotTypes THEN 1 ELSE IF e.type = "BTN_TOUCH" THEN 2
  ELSE IF e.type \in ToolTypes THEN 3 ELSE IF e.type = "SYN" THEN 5 ELSE 4

\* An event says what is so at the end of its frame.
Right(e, F, P, S, C) ==
  /\ e \in Events
  /\ e.type = "ABS_MT_SLOT" => e.value \in Slots
  /\ e.type = "ABS_MT_TRACKING_ID" =>
       /\ e.value \in {-1, 0}
       /\ e.value = 0 => {0, S} \subseteq ToSet(F)
  /\ e.type = "BTN_TOUCH" => e.value = IF F = <<>> THEN 0 ELSE 1
  /\ \A k \in 1..4 : e.type = Tools[k] => e.value = IF Len(F) = k THEN 1 ELSE 0
  /\ e.type = "ABS_X" => e.value = P[1]
  /\ e.type = "ABS_Y" => e.value = P[2]
  /\ e.type = "BTN_LEFT" => e.value = IF C THEN 1 ELSE 0

\* The events that make a touch active.
Activating == {Event("ABS_MT_TRACKING_ID", 0), Event("BTN_TOUCH", 1)}

Sorted(q) == \A i, j \in 1..Len(q) : i < j => Rank(q[i]) <= Rank(q[j])

\* A part of a frame, of the types ranked from lo to hi.
Part(q, lo, hi, F, P, S, C) ==
  /\ q \in Seq(Events)
  /\ \A i \in 1..Len(q) : /\ Right(q[i], F, P, S, C)
                          /\ lo <= Rank(q[i]) /\ Rank(q[i]) <= hi
  /\ Sorted(q)

\* What is left of a frame: SYN ends it, a click has nothing else in it, and
\* when a finger has come the tool for the new number follows.
Rest(q, F, P, S, C) ==
  /\ Part(q, 1, 5, F, P, S, C)
  /\ \A i \in 1..Len(q) : Rank(q[i]) = 5 <=> i = Len(q)
  /\ \A i \in 1..Len(q) : q[i].type = "BTN_LEFT" => i = 1 /\ Len(q) = 2
  /\ \A i \in 1..Len(q) :
       q[i] \in Activating =>
         /\ Len(F) > 0
         /\ Len(F) <= 4 => Event(Tools[Len(F)], 1) \in ToSet(q)

\* The slot that each event of q is about: `a` is the slot before, b the one
\* after.  A position is the one of that slot; a tracking id is that of slot S.
Owners(q, o, a, b, S, F, A) ==
  /\ o \in [0..Len(q) -> Slots] /\ o[0] = a /\ o[Len(q)] = b
  /\ \A i \in 1..Len(q) :
       /\ o[i] = IF q[i].type = "ABS_MT_SLOT" THEN q[i].value ELSE o[i - 1]
       /\ q[i].type = "ABS_MT_TRACKING_ID" => o[i] = S
       /\ q[i].type = "ABS_MT_POSITION_X" =>
            o[i] \in ToSet(F) /\ q[i].value = A[o[i]][1]
       /\ q[i].type = "ABS_MT_POSITION_Y" =>
            o[i] \in ToSet(F) /\ q[i].value = A[o[i]][2]

Owned(q, a, b, S, F, A) == \E o : Owners(q, o, a, b, S, F, A)

-----------------------------------------------------------------------------
(* The invariant.                                                            *)

Active == TouchActive(slots, btn_touch)

Pending == ToSet(pipe)

\* The worker has not been told a slot since it was opened, and takes the first
\* for the kernel's.
Lost ==
  /\ active_slot = 0 /\ slots \subseteq {0}
  /\ crossed \/ fingers = <<>>
       \/ (pipe # <<>> /\ Head(pipe).type = "ABS_MT_SLOT")

PadInv ==
  /\ fingers \in Seq(Slots) /\ IsInjective(fingers)
  /\ at \in [Slots -> Points] /\ pointer \in Points
  /\ slot \in Slots /\ clicked \in BOOLEAN
  /\ crossed \in BOOLEAN /\ steady \in BOOLEAN /\ forwarded \in BOOLEAN
  /\ ~crossed /\ fingers # <<>> => pointer = at[fingers[1]]
  /\ ~crossed /\ 0 \in ToSet(fingers) => fingers[1] = 0

PipeInv ==
  /\ Rest(pipe, fingers, pointer, slot, clicked)
  /\ \E k \in Slots : /\ Owned(pipe, k, slot, slot, fingers, at)
                      /\ k = active_slot \/ Lost

TouchType ==
  /\ slots \subseteq Slots /\ active_slot \in Slots /\ btn_touch \in BOOLEAN
  /\ finger_count \in 0..4
  /\ cur \in [1..2 -> Coordinates \cup {None}]
  /\ pending_scroll \in [1..2 -> (1 - Notch)..(Notch - 1)]

\* What the worker holds of a finger is so, or the event that ends it is
\* pending; without a touch it holds nothing.
TouchRest ==
  /\ \A s \in slots :
       s \in ToSet(fingers) \/
       (s = slot /\ Event("ABS_MT_TRACKING_ID", -1) \in Pending)
  /\ btn_touch => fingers # <<>> \/ Event("BTN_TOUCH", 0) \in Pending
  /\ (pipe = <<>> \/ (\E e \in Pending : e.type = "BTN_LEFT")) =>
       Active \/ (cur = NoPoint /\ finger_count = 0)
  /\ last # None =>
       /\ Active /\ last \in [1..2 -> Coordinates]
       /\ None \notin {cur[1], cur[2]}

TouchInv == TouchType /\ TouchRest

Button == IF finger_count = 2 THEN "Right" ELSE "Left"

HeldInv ==
  /\ held_buttons \subseteq {"Left", "Right"}
  /\ steady /\ held_buttons # {} =>
       /\ forwarded /\ held_buttons = {Button}
       /\ \/ clicked /\ \A e \in Pending : e.type # "BTN_LEFT"
          \/ ~clicked /\ Event("BTN_LEFT", 0) \in Pending
       /\ Active \/ finger_count = 0
       /\ \A e \in Pending : e.type \notin {"ABS_MT_TRACKING_ID", "BTN_TOUCH"}
                                             \cup ToolTypes

BaseInv == PadInv /\ PipeInv /\ TouchInv /\ HeldInv

\* The count is that of the fingers, or the tool event that sets it is pending.
Toll ==
  /\ fingers # <<>> /\ Event(Tools[Len(fingers)], 1) \in Pending

CountInv == Active /\ fingers # <<>> => Toll \/ finger_count = Len(fingers)

\* Nothing of this touch is taken.
Deaf == ~Active /\ \A e \in Pending : e \notin Activating

CurInv ==
  ~crossed /\ ~Deaf =>
    /\ cur[1] \in {None, pointer[1]} \/ Event("ABS_X", pointer[1]) \in Pending
    /\ cur[2] \in {None, pointer[2]} \/ Event("ABS_Y", pointer[2]) \in Pending

LastInv ==
  last # None /\ ~crossed =>
    IF pipe = <<>> THEN last[1] = pointer[1] /\ last[2] = pointer[2]
    ELSE \/ fingers = <<>>
         \/ Toll /\ finger_count # Len(fingers)
         \/ last[1] + shift[1] = pointer[1] /\ last[2] + shift[2] = pointer[2]

ShiftType == shift \in [1..2 -> Int]

FingerInv ==
  CountInv /\ CurInv /\ LastInv /\ ShiftType /\ PointerMovesWithOneFinger

-----------------------------------------------------------------------------
(* Lemmas: the names of the tools, ranks, sets of events.                    *)

LEMMA ToolFacts ==
  /\ \A k \in 1..4 : Tools[k] \in ToolTypes
  /\ \A k, l \in 1..4 : Tools[k] = Tools[l] => k = l
<1>1. /\ Tools[1] = "BTN_TOOL_FINGER" /\ Tools[2] = "BTN_TOOL_DOUBLETAP"
      /\ Tools[3] = "BTN_TOOL_TRIPLETAP" /\ Tools[4] = "BTN_TOOL_QUADTAP"
  BY DEF Tools
<1>2. \A k \in 1..4 : k = 1 \/ k = 2 \/ k = 3 \/ k = 4
  OBVIOUS
<1>. QED
  BY <1>1, <1>2 DEF ToolTypes

LEMMA EventFacts ==
  ASSUME NEW t \in Types, NEW v \in Int
  PROVE  /\ Event(t, v) \in Events
         /\ Event(t, v).type = t /\ Event(t, v).value = v
BY DEF Event, Events

LEMMA RankFacts ==
  ASSUME NEW e
  PROVE  /\ Rank(e) \in 1..5
         /\ Rank(e) = 1 <=> e.type \in SlotTypes
         /\ Rank(e) = 2 <=> e.type = "BTN_TOUCH"
         /\ Rank(e) = 3 <=> e.type \in ToolTypes
         /\ Rank(e) = 5 <=> e.type = "SYN"
BY DEF Rank, SlotTypes, ToolTypes

\* What a sequence loses with its head.
LEMMA TailFacts ==
  ASSUME NEW T, NEW q \in Seq(T), q # <<>>
  PROVE  /\ Tail(q) \in Seq(T) /\ Len(Tail(q)) = Len(q) - 1 /\ Len(q) \in Nat \ {0}
         /\ Head(q) = q[1] /\ Head(q) \in T
         /\ \A i \in 1..(Len(q) - 1) : Tail(q)[i] = q[i + 1]
         /\ ToSet(q) = {Head(q)} \cup ToSet(Tail(q))
         /\ Len(q) = 1 <=> Tail(q) = <<>>
<1>1. PICK n \in Nat \ {0} : n = Len(q)
  OBVIOUS
<1>2. PICK r : r = Tail(q)
  OBVIOUS
<1>3. /\ r \in Seq(T) /\ Len(r) = n - 1 /\ q[1] = Head(q) /\ q[1] \in T
      /\ \A i \in 1..(n - 1) : r[i] = q[i + 1]
  BY <1>1, <1>2
<1>4. DOMAIN q = 1..n /\ DOMAIN r = 1..(n - 1)
  BY <1>1, <1>3
<1>5. ASSUME NEW i \in 1..n PROVE q[i] \in {q[1]} \cup ToSet(r)
  <2>1. CASE i = 1
    BY <2>1
  <2>2. CASE i # 1
    <3>1. i - 1 \in 1..(n - 1) /\ (i - 1) + 1 = i
      BY <1>1, <2>2
    <3>2. r[i - 1] = q[i]
      BY <1>3, <3>1
    <3>. QED
      BY <1>4, <3>1, <3>2 DEF ToSet
  <2>. QED
    BY <2>1, <2>2
<1>6. ASSUME NEW i \in 1..(n - 1) PROVE r[i] \in ToSet(q)
  <2>1. i + 1 \in 1..n /\ r[i] = q[i + 1]
    BY <1>1, <1>3
  <2>. QED
    BY <1>4, <2>1 DEF ToSet
<1>7. ToSet(q) = {q[1]} \cup ToSet(r)
  <2>1. q[1] \in ToSet(q)
    <3>1. 1 \in 1..n
      BY <1>1
    <3>. QED
      BY <1>4, <3>1 DEF ToSet
  <2>. QED
    BY <1>4, <1>5, <1>6, <2>1 DEF ToSet
<1>8. n = 1 <=> r = <<>>
  BY <1>1, <1>3, EmptySeq
<1>. QED
  BY <1>1, <1>2, <1>3, <1>7, <1>8

LEMMA ConcatFacts ==
  ASSUME NEW T, NEW a \in Seq(T), NEW b \in Seq(T)
  PROVE  /\ a \o b \in Seq(T) /\ Len(a \o b) = Len(a) + Len(b)
         /\ Len(a) \in Nat /\ Len(b) \in Nat
         /\ \A i \in 1..(Len(a) + Len(b)) :
              (a \o b)[i] = IF i <= Len(a) THEN a[i] ELSE b[i - Len(a)]
         /\ ToSet(a \o b) = ToSet(a) \cup ToSet(b)
<1>1. PICK m \in Nat, n \in Nat : m = Len(a) /\ n = Len(b)
  OBVIOUS
<1>2. PICK c : c = a \o b
  OBVIOUS
<1>3. /\ c \in Seq(T) /\ Len(c) = m + n
      /\ \A i \in 1..(m + n) : c[i] = IF i <= m THEN a[i] ELSE b[i - m]
  BY <1>1, <1>2, ConcatProperties
<1>4. DOMAIN a = 1..m /\ DOMAIN b = 1..n /\ DOMAIN c = 1..(m + n)
  BY <1>1, <1>3
<1>5. ASSUME NEW i \in 1..(m + n) PROVE c[i] \in ToSet(a) \cup ToSet(b)
  <2>1. CASE i <= m
    <3>1. i \in 1..m /\ c[i] = a[i]
      BY <1>3, <2>1
    <3>. QED
      BY <1>4, <3>1 DEF ToSet
  <2>2. CASE ~(i <= m)
    <3>1. i - m \in 1..n /\ c[i] = b[i - m]
      BY <1>3, <2>2
    <3>. QED
      BY <1>4, <3>1 DEF ToSet
  <2>. QED
    BY <2>1, <2>2
<1>6. ASSUME NEW i \in 1..m PROVE a[i] \in ToSet(c)
  <2>1. i \in 1..(m + n) /\ c[i] = a[i]
    BY <1>3
  <2>. QED
    BY <1>4, <2>1 DEF ToSet
<1>7. ASSUME NEW i \in 1..n PROVE b[i] \in ToSet(c)
  <2>1. m + i \in 1..(m + n) /\ ~(m + i <= m) /\ (m + i) - m = i
    OBVIOUS
  <2>2. c[m + i] = b[i]
    BY <1>3, <2>1
  <2>. QED
    BY <1>4, <2>1, <2>2 DEF ToSet
<1>8. ToSet(c) = ToSet(a) \cup ToSet(b)
  <2>1. ToSet(c) \subseteq ToSet(a) \cup ToSet(b)
    BY <1>4, <1>5 DEF ToSet
  <2>2. ToSet(a) \subseteq ToSet(c) /\ ToSet(b) \subseteq ToSet(c)
    BY <1>4, <1>6, <1>7 DEF ToSet
  <2>. QED
    BY <2>1, <2>2
<1>. QED
  BY <1>1, <1>2, <1>3, <1>8

LEMMA NilFacts ==
  /\ \A T : <<>> \in Seq(T)
  /\ Len(<<>>) = 0 /\ ToSet(<<>>) = {}
  /\ \A T : \A q \in Seq(T) : q = <<>> <=> Len(q) = 0
<1>1. DOMAIN <<>> = {}
  OBVIOUS
<1>. QED
  BY <1>1, EmptySeq DEF ToSet

LEMMA OneFacts ==
  ASSUME NEW T, NEW e \in T
  PROVE  /\ <<e>> \in Seq(T) /\ Len(<<e>>) = 1 /\ <<e>>[1] = e /\ ToSet(<<e>>) = {e}
         /\ <<e>> # <<>>
<1>1. DOMAIN <<e>> = {1}
  OBVIOUS
<1>. QED
  BY <1>1, NilFacts DEF ToSet

-----------------------------------------------------------------------------
(* Reading: what is left when the head of a frame has been read.             *)

LEMMA ActivatingRank ==
  ASSUME NEW e \in Activating
  PROVE  Rank(e) <= 2 /\ e \in Events
<1>1. e = Event("ABS_MT_TRACKING_ID", 0) \/ e = Event("BTN_TOUCH", 1)
  BY DEF Activating
<1>2. {"ABS_MT_TRACKING_ID", "BTN_TOUCH"} \subseteq Types
  BY DEF Types, SlotTypes
<1>3. e.type \in {"ABS_MT_TRACKING_ID", "BTN_TOUCH"} /\ e \in Events
  BY <1>1, <1>2, EventFacts
<1>. QED
  BY <1>3 DEF Rank, SlotTypes

LEMMA ToolEvent ==
  ASSUME NEW k \in 1..4
  PROVE  /\ Event(Tools[k], 1) \in Events /\ Event(Tools[k], 0) \in Events
         /\ Event(Tools[k], 1).type = Tools[k] /\ Event(Tools[k], 1).value = 1
         /\ Event(Tools[k], 0).type = Tools[k] /\ Event(Tools[k], 0).value = 0
         /\ Rank(Event(Tools[k], 1)) = 3 /\ Rank(Event(Tools[k], 0)) = 3
<1>1. Tools[k] \in ToolTypes /\ Tools[k] \in Types
  BY ToolFacts DEF Types
<1>. QED
  BY <1>1, EventFacts, RankFacts

LEMMA RestEvents ==
  ASSUME NEW F, NEW P, NEW S, NEW C, NEW q, Rest(q, F, P, S, C)
  PROVE  /\ q \in Seq(Events)
         /\ \A e \in ToSet(q) : Right(e, F, P, S, C)
         /\ (\E e \in ToSet(q) : e \in Activating) =>
              Len(F) > 0 /\ (Len(F) <= 4 => Event(Tools[Len(F)], 1) \in ToSet(q))
<1>1. q \in Seq(Events) /\ DOMAIN q = 1..Len(q)
  BY DEF Rest, Part
<1>2. \A e \in ToSet(q) : \E i \in 1..Len(q) : e = q[i]
  BY <1>1 DEF ToSet
<1>3. \A e \in ToSet(q) : Right(e, F, P, S, C)
  BY <1>2 DEF Rest, Part
<1>4. ASSUME NEW e \in ToSet(q), e \in Activating
      PROVE  Len(F) > 0 /\ (Len(F) <= 4 => Event(Tools[Len(F)], 1) \in ToSet(q))
  BY <1>2, <1>4 DEF Rest
<1>. QED
  BY <1>1, <1>3, <1>4

LEMMA RestTail ==
  ASSUME NEW F \in Seq(Slots), NEW P, NEW S, NEW C, NEW q, Rest(q, F, P, S, C),
         q # <<>>
  PROVE  /\ Rest(Tail(q), F, P, S, C)
         /\ Head(q) \in Events /\ Right(Head(q), F, P, S, C)
         /\ Head(q).type = "SYN" <=> Tail(q) = <<>>
         /\ \A e \in ToSet(Tail(q)) :
              /\ Rank(Head(q)) <= Rank(e) /\ e.type # "BTN_LEFT"
              /\ Head(q).type = "BTN_LEFT" => e.type = "SYN"
<1>1. PICK r : r = Tail(q)
  OBVIOUS
<1>2. PICK n \in Nat \ {0} : n = Len(q)
  BY TailFacts DEF Rest, Part
<1>3. /\ q \in Seq(Events) /\ r \in Seq(Events) /\ Len(r) = n - 1 /\ Len(q) = n
      /\ Head(q) = q[1] /\ q[1] \in Events
      /\ \A i \in 1..(n - 1) : r[i] = q[i + 1]
      /\ ToSet(q) = {q[1]} \cup ToSet(r)
      /\ n = 1 <=> r = <<>>
  <2>1. q \in Seq(Events)
    BY DEF Rest, Part
  <2>. QED
    BY <1>1, <1>2, <2>1, TailFacts
<1>4. /\ \A i \in 1..n : /\ Right(q[i], F, P, S, C) /\ 1 <= Rank(q[i]) /\ Rank(q[i]) <= 5
                         /\ Rank(q[i]) = 5 <=> i = n
                         /\ q[i].type = "BTN_LEFT" => i = 1 /\ n = 2
                         /\ Rank(q[i]) \in Nat
      /\ \A i, j \in 1..n : i < j => Rank(q[i]) <= Rank(q[j])
  <2>1. \A e : Rank(e) \in Nat
    BY RankFacts
  <2>. QED
    BY <1>3, <2>1 DEF Rest, Part, Sorted
<1>5. \A i \in 1..(n - 1) : i + 1 \in 1..n /\ i + 1 # 1 /\ (i + 1 = n <=> i = n - 1)
  OBVIOUS
<1>6. ASSUME NEW e \in ToSet(r)
      PROVE  \E i \in 1..n : i # 1 /\ e = q[i] /\ 1 < i
  <2>1. PICK i \in 1..(n - 1) : e = r[i]
    <3>1. DOMAIN r = 1..(n - 1)
      BY <1>3
    <3>. QED
      BY <3>1 DEF ToSet
  <2>2. PICK j \in 1..n : j = i + 1 /\ j # 1 /\ 1 < j
    BY <1>5
  <2>. QED
    BY <1>3, <2>1, <2>2
<1>7. ASSUME NEW e \in ToSet(r)
      PROVE  /\ Rank(q[1]) <= Rank(e) /\ e.type # "BTN_LEFT"
             /\ q[1].type = "BTN_LEFT" => e.type = "SYN"
  <2>1. PICK i \in 1..n : i # 1 /\ e = q[i] /\ 1 < i
    BY <1>6
  <2>2. 1 \in 1..n
    OBVIOUS
  <2>3. q[1].type = "BTN_LEFT" => i = n
    BY <1>4, <2>1, <2>2
  <2>4. Rank(e) = 5 => e.type = "SYN"
    BY RankFacts
  <2>. QED
    BY <1>4, <2>1, <2>2, <2>3, <2>4
<1>8. q[1].type = "SYN" <=> r = <<>>
  <2>1. Rank(q[1]) = 5 <=> q[1].type = "SYN"
    BY RankFacts
  <2>2. 1 \in 1..n
    OBVIOUS
  <2>3. Rank(q[1]) = 5 <=> 1 = n
    BY <1>4, <2>2
  <2>. QED
    BY <1>3, <2>1, <2>3
<1>9. Part(r, 1, 5, F, P, S, C)
  <2>1. \A i \in 1..(n - 1) : /\ Right(r[i], F, P, S, C)
                              /\ 1 <= Rank(r[i]) /\ Rank(r[i]) <= 5
    BY <1>3, <1>4, <1>5
  <2>2. ASSUME NEW i \in 1..(n - 1), NEW j \in 1..(n - 1), i < j
        PROVE  Rank(r[i]) <= Rank(r[j])
    <3>1. PICK x \in 1..n : x = i + 1
      BY <1>5
    <3>2. PICK y \in 1..n : y = j + 1
      BY <1>5
    <3>3. x < y /\ r[i] = q[x] /\ r[j] = q[y]
      BY <1>3, <2>2, <3>1, <3>2
    <3>. QED
      BY <1>4, <3>3
  <2>. QED
    BY <1>3, <2>1, <2>2 DEF Part, Sorted
<1>10. ASSUME NEW i \in 1..(n - 1)
       PROVE  /\ Rank(r[i]) = 5 <=> i = n - 1
              /\ r[i].type # "BTN_LEFT"
  <2>1. PICK x \in 1..n : x = i + 1 /\ x # 1 /\ (x = n <=> i = n - 1)
    BY <1>5
  <2>2. r[i] = q[x]
    BY <1>3, <2>1
  <2>. QED
    BY <1>4, <2>1, <2>2
<1>11. ASSUME NEW i \in 1..(n - 1), r[i] \in Activating
       PROVE  /\ Len(F) > 0
              /\ Len(F) <= 4 => Event(Tools[Len(F)], 1) \in ToSet(r)
  <2>1. PICK x \in 1..n : x = i + 1 /\ 1 < x
    BY <1>5
  <2>2. r[i] = q[x] /\ q[x] \in Activating
    BY <1>3, <1>11, <2>1
  <2>3. /\ Len(F) > 0
        /\ Len(F) <= 4 => Event(Tools[Len(F)], 1) \in ToSet(q)
    BY <1>3, <2>2 DEF Rest
  <2>4. Rank(q[1]) <= 2
    <3>1. 1 \in 1..n /\ Rank(q[1]) \in Nat /\ Rank(q[x]) \in Nat
      BY <1>4
    <3>2. Rank(q[1]) <= Rank(q[x]) /\ Rank(q[x]) <= 2
      BY <1>4, <2>1, <2>2, <3>1, ActivatingRank
    <3>. QED
      BY <3>1, <3>2
  <2>5. ASSUME Len(F) <= 4 PROVE q[1] # Event(Tools[Len(F)], 1)
    <3>1. PICK m \in Nat : m = Len(F)
      BY LenProperties
    <3>2. m > 0 /\ m <= 4
      BY <2>3, <2>5, <3>1
    <3>3. m \in 1..4
      BY <3>2
    <3>4. Rank(Event(Tools[Len(F)], 1)) = 3
      BY <3>1, <3>3, ToolEvent
    <3>. QED
      BY <2>4, <3>4
  <2>. QED
    BY <1>3, <2>3, <2>5
<1>12. Rest(r, F, P, S, C)
  BY <1>3, <1>9, <1>10, <1>11 DEF Rest
<1>. QED
  BY <1>1, <1>3, <1>4, <1>7, <1>8, <1>12

\* The owner of the head, and those of the tail.
LEMMA OwnedTail ==
  ASSUME NEW q \in Seq(Events), q # <<>>, NEW a \in Slots, NEW b, NEW S, NEW F,
         NEW A, Owned(q, a, b, S, F, A)
  PROVE  \E c \in Slots :
           /\ Owned(Tail(q), c, b, S, F, A)
           /\ c = IF Head(q).type = "ABS_MT_SLOT" THEN Head(q).value ELSE a
           /\ Head(q).type = "ABS_MT_TRACKING_ID" => c = S
           /\ Head(q).type = "ABS_MT_POSITION_X" =>
                c \in ToSet(F) /\ Head(q).value = A[c][1]
           /\ Head(q).type = "ABS_MT_POSITION_Y" =>
                c \in ToSet(F) /\ Head(q).value = A[c][2]
<1>0. PICK r : r = Tail(q)
  OBVIOUS
<1>1. PICK n \in Nat \ {0} : n = Len(q) /\ r = Tail(q)
  BY <1>0, TailFacts
<1>2. /\ r \in Seq(Events) /\ Len(r) = n - 1 /\ Head(q) = q[1]
      /\ \A i \in 1..(n - 1) : r[i] = q[i + 1]
  BY <1>1, TailFacts
<1>3. PICK o : Owners(q, o, a, b, S, F, A)
  BY DEF Owned
<1>4. PICK p : p = [i \in 0..(n - 1) |-> o[i + 1]]
  OBVIOUS
<1>5. /\ o \in [0..n -> Slots] /\ o[0] = a /\ o[n] = b
      /\ \A i \in 1..n :
           /\ o[i] = IF q[i].type = "ABS_MT_SLOT" THEN q[i].value ELSE o[i - 1]
           /\ q[i].type = "ABS_MT_TRACKING_ID" => o[i] = S
           /\ q[i].type = "ABS_MT_POSITION_X" =>
                o[i] \in ToSet(F) /\ q[i].value = A[o[i]][1]
           /\ q[i].type = "ABS_MT_POSITION_Y" =>
                o[i] \in ToSet(F) /\ q[i].value = A[o[i]][2]
  BY <1>1, <1>3 DEF Owners
<1>6. /\ p \in [0..(n - 1) -> Slots] /\ p[0] = o[1] /\ p[n - 1] = b
      /\ \A i \in 0..(n - 1) : p[i] = o[i + 1]
  <2>1. \A i \in 0..(n - 1) : i + 1 \in 0..n
    OBVIOUS
  <2>2. 0 \in 0..(n - 1) /\ 0 + 1 = 1 /\ n - 1 \in 0..(n - 1) /\ (n - 1) + 1 = n
    OBVIOUS
  <2>3. \A i \in 0..(n - 1) : p[i] = o[i + 1]
    BY <1>4
  <2>4. p \in [0..(n - 1) -> Slots]
    BY <1>4, <1>5, <2>1
  <2>5. p[0] = o[1]
    BY <2>2, <2>3
  <2>6. p[n - 1] = o[n]
    BY <2>2, <2>3
  <2>. QED
    BY <1>5, <2>3, <2>4, <2>5, <2>6
<1>7. ASSUME NEW i \in 1..(n - 1)
      PROVE  /\ p[i] = IF r[i].type = "ABS_MT_SLOT" THEN r[i].value ELSE p[i - 1]
             /\ r[i].type = "ABS_MT_TRACKING_ID" => p[i] = S
             /\ r[i].type = "ABS_MT_POSITION_X" =>
                  p[i] \in ToSet(F) /\ r[i].value = A[p[i]][1]
             /\ r[i].type = "ABS_MT_POSITION_Y" =>
                  p[i] \in ToSet(F) /\ r[i].value = A[p[i]][2]
  <2>1. PICK j \in 1..n : j = i + 1 /\ j - 1 = i
    OBVIOUS
  <2>2. r[i] = q[j] /\ p[i] = o[j]
    BY <1>2, <1>6, <2>1
  <2>3. p[i - 1] = o[j - 1]
    <3>1. i - 1 \in 0..(n - 1) /\ (i - 1) + 1 = i
      OBVIOUS
    <3>. QED
      BY <1>6, <2>1, <3>1
  <2>. QED
    BY <1>5, <2>2, <2>3
<1>8. Owned(r, o[1], b, S, F, A)
  <2>1. Owners(r, p, o[1], b, S, F, A)
    BY <1>2, <1>6, <1>7 DEF Owners
  <2>. QED
    BY <2>1 DEF Owned
<1>9. 1 \in 1..n /\ 1 \in 0..n /\ 1 - 1 = 0
  OBVIOUS
<1>10. o[1] \in Slots
  BY <1>5, <1>9
<1>. QED
  BY <1>1, <1>2, <1>5, <1>8, <1>9, <1>10

LEMMA OwnedNil ==
  ASSUME NEW a \in Slots, NEW b, NEW S, NEW F, NEW A
  PROVE  Owned(<<>>, a, b, S, F, A) <=> a = b
<1>1. ASSUME a = b PROVE Owned(<<>>, a, b, S, F, A)
  <2>1. PICK o : o = [i \in 0..0 |-> a]
    OBVIOUS
  <2>2. o \in [0..0 -> Slots] /\ o[0] = a
    BY <2>1
  <2>3. \A i \in 1..0 : FALSE
    OBVIOUS
  <2>. QED
    BY <1>1, <2>2, <2>3, NilFacts DEF Owned, Owners
<1>2. ASSUME Owned(<<>>, a, b, S, F, A) PROVE a = b
  BY <1>2, NilFacts DEF Owned, Owners
<1>. QED
  BY <1>1, <1>2

\* Whole units are taken off a scroll, less than one is left.
LEMMA TruncFacts ==
  ASSUME NEW n \in Int
  PROVE  /\ Trunc(n) \in Int
         /\ n - Notch * Trunc(n) \in (1 - Notch)..(Notch - 1)
         /\ n \in (1 - Notch)..(Notch - 1) => Trunc(n) = 0
<1>1. Notch \in Nat \ {0}
  BY TouchpadAssumption
<1>2. ASSUME NEW m \in Nat
      PROVE  /\ m \div Notch \in Nat /\ Notch * (m \div Notch) \in Nat
             /\ Notch * (m \div Notch) <= m /\ m - Notch * (m \div Notch) < Notch
             /\ m < Notch => m \div Notch = 0
  BY <1>1
<1>3. CASE n < 0
  <2>1. PICK m \in Nat : m = -n
    BY <1>3
  <2>2. PICK d \in Nat : d = m \div Notch
    BY <1>2
  <2>3. PICK x \in Nat : x = Notch * d
    BY <1>1
  <2>4. x <= m /\ m - x < Notch /\ (m < Notch => d = 0)
    BY <1>2, <2>2, <2>3
  <2>5. Trunc(n) = -d
    BY <1>3, <2>1, <2>2 DEF Trunc
  <2>6. Notch * (-d) = -x
    BY <1>1, <2>3
  <2>7. n - Notch * Trunc(n) = x - m
    BY <2>1, <2>5, <2>6
  <2>8. n \in (1 - Notch)..(Notch - 1) => m < Notch
    BY <1>1, <2>1
  <2>9. x - m \in (1 - Notch)..(Notch - 1)
    BY <1>1, <2>4
  <2>. QED
    BY <2>4, <2>5, <2>7, <2>8, <2>9
<1>4. CASE ~(n < 0)
  <2>1. n \in Nat
    BY <1>4
  <2>2. PICK d \in Nat : d = n \div Notch
    BY <1>2, <2>1
  <2>3. PICK x \in Nat : x = Notch * d
    BY <1>1
  <2>4. x <= n /\ n - x < Notch /\ (n < Notch => d = 0)
    BY <1>2, <2>1, <2>2, <2>3
  <2>5. Trunc(n) = d
    BY <1>4, <2>2 DEF Trunc
  <2>6. n \in (1 - Notch)..(Notch - 1) => n < Notch
    BY <1>1
  <2>7. n - x \in (1 - Notch)..(Notch - 1)
    BY <1>1, <2>1, <2>4
  <2>. QED
    BY <2>3, <2>4, <2>5, <2>6, <2>7
<1>. QED
  BY <1>3, <1>4

LEMMA PointFacts ==
  /\ Coordinates \subseteq Int
  /\ \A p \in Points : p[1] \in Coordinates /\ p[2] \in Coordinates
  /\ \A p \in Points : p = <<p[1], p[2]>>
BY TouchpadAssumption DEF Coordinates

\* What the head of the pipe says.
LEMMA HeadFacts ==
  ASSUME PadInv, PipeInv, active_slot \in Slots, pipe # <<>>
  PROVE  /\ Head(pipe) \in Events
         /\ Right(Head(pipe), fingers, pointer, slot, clicked)
         /\ Head(pipe).type = "SYN" <=> Tail(pipe) = <<>>
         /\ Pending = {Head(pipe)} \cup ToSet(Tail(pipe))
         /\ \A e \in ToSet(Tail(pipe)) :
              /\ Rank(Head(pipe)) <= Rank(e) /\ e.type # "BTN_LEFT"
              /\ Head(pipe).type = "BTN_LEFT" => e.type = "SYN"
         /\ Head(pipe).type = "ABS_MT_TRACKING_ID" => active_slot = slot \/ Lost
         /\ Head(pipe).type = "ABS_MT_POSITION_X" =>
              \E c \in ToSet(fingers) :
                Head(pipe).value = at[c][1] /\ (c = active_slot \/ Lost)
         /\ Head(pipe).type = "ABS_MT_POSITION_Y" =>
              \E c \in ToSet(fingers) :
                Head(pipe).value = at[c][2] /\ (c = active_slot \/ Lost)
<1>1. Rest(pipe, fingers, pointer, slot, clicked) /\ fingers \in Seq(Slots)
  BY DEF PadInv, PipeInv
<1>2. pipe \in Seq(Events)
  BY <1>1, RestEvents
<1>3. PICK k \in Slots : Owned(pipe, k, slot, slot, fingers, at)
                         /\ (k = active_slot \/ Lost)
  BY DEF PipeInv
<1>4. PICK c \in Slots :
           /\ c = IF Head(pipe).type = "ABS_MT_SLOT" THEN Head(pipe).value ELSE k
           /\ Head(pipe).type = "ABS_MT_TRACKING_ID" => c = slot
           /\ Head(pipe).type = "ABS_MT_POSITION_X" =>
                c \in ToSet(fingers) /\ Head(pipe).value = at[c][1]
           /\ Head(pipe).type = "ABS_MT_POSITION_Y" =>
                c \in ToSet(fingers) /\ Head(pipe).value = at[c][2]
  BY <1>2, <1>3, OwnedTail
<1>5. Pending = {Head(pipe)} \cup ToSet(Tail(pipe))
  BY <1>2, TailFacts DEF Pending
<1>6. Head(pipe).type = "ABS_MT_TRACKING_ID" => active_slot = slot \/ Lost
  BY <1>3, <1>4
<1>7. Head(pipe).type = "ABS_MT_POSITION_X" =>
        \E d \in ToSet(fingers) :
          Head(pipe).value = at[d][1] /\ (d = active_slot \/ Lost)
  BY <1>3, <1>4
<1>8. Head(pipe).type = "ABS_MT_POSITION_Y" =>
        \E d \in ToSet(fingers) :
          Head(pipe).value = at[d][2] /\ (d = active_slot \/ Lost)
  BY <1>3, <1>4
<1>. QED
  BY <1>1, <1>5, <1>6, <1>7, <1>8, RestTail

LEMMA ReadPipe ==
  ASSUME PadInv, PipeInv, active_slot \in Slots, pipe # <<>>,
         pipe' = Tail(pipe), UNCHANGED <<pad, crossed>>,
         slots' \subseteq slots \cup {active_slot},
         active_slot' = IF Head(pipe).type = "ABS_MT_SLOT" THEN Head(pipe).value
                                                           ELSE active_slot
  PROVE  PipeInv' /\ active_slot' \in Slots
<1>1. Rest(pipe, fingers, pointer, slot, clicked) /\ fingers \in Seq(Slots)
  BY DEF PadInv, PipeInv
<1>2. pipe \in Seq(Events)
  BY <1>1, RestEvents
<1>3. PICK k \in Slots : Owned(pipe, k, slot, slot, fingers, at)
                         /\ (k = active_slot \/ Lost)
  BY DEF PipeInv
<1>4. PICK c \in Slots :
           /\ Owned(Tail(pipe), c, slot, slot, fingers, at)
           /\ c = IF Head(pipe).type = "ABS_MT_SLOT" THEN Head(pipe).value ELSE k
  BY <1>2, <1>3, OwnedTail
<1>5. Rest(Tail(pipe), fingers, pointer, slot, clicked)
  BY <1>1, RestTail
<1>6. active_slot' \in Slots
  BY <1>4
<1>7. c = active_slot' \/ Lost'
  <2>1. CASE Head(pipe).type = "ABS_MT_SLOT"
    BY <1>4, <2>1
  <2>2. CASE Head(pipe).type # "ABS_MT_SLOT" /\ Lost
    <3>1. slots' \subseteq {0} /\ active_slot' = 0
      BY <2>2 DEF Lost
    <3>2. crossed' \/ fingers' = <<>>
      BY <2>2 DEF Lost, pad
    <3>. QED
      BY <3>1, <3>2 DEF Lost
  <2>3. CASE Head(pipe).type # "ABS_MT_SLOT" /\ k = active_slot
    BY <1>4, <2>3
  <2>. QED
    BY <1>3, <2>1, <2>2, <2>3
<1>8. /\ fingers' = fingers /\ pointer' = pointer /\ slot' = slot
      /\ clicked' = clicked /\ at' = at
  BY DEF pad
<1>9. Rest(pipe', fingers', pointer', slot', clicked')
  BY <1>5, <1>8
<1>10. Owned(pipe', c, slot', slot', fingers', at')
  BY <1>4, <1>8
<1>. QED
  BY <1>6, <1>7, <1>9, <1>10 DEF PipeInv

LEMMA StillPad ==
  ASSUME PadInv, UNCHANGED <<pad, crossed, steady, forwarded>>
  PROVE  PadInv'
BY DEF PadInv, pad

-----------------------------------------------------------------------------
(* The worker's steps keep BaseInv.                                          *)

\* What every step that reads has in common.
ReadStep ==
  /\ pipe # <<>> /\ pipe' = Tail(pipe)
  /\ UNCHANGED <<pad, forwarded, history>>

\* The events that are left; those of another type than the head stay.
LEMMA ReadPending ==
  ASSUME PadInv, PipeInv, active_slot \in Slots, ReadStep
  PROVE  /\ Pending = {Head(pipe)} \cup Pending'
         /\ \A e \in Pending' : /\ Rank(Head(pipe)) <= Rank(e)
                                /\ e.type # "BTN_LEFT"
                                /\ Head(pipe).type = "BTN_LEFT" => e.type = "SYN"
         /\ pipe' = <<>> <=> Head(pipe).type = "SYN"
         /\ Head(pipe).type = "SYN" => Pending' = {}
         /\ fingers' = fingers /\ slot' = slot /\ at' = at /\ pointer' = pointer
         /\ clicked' = clicked
<1>1. Pending' = ToSet(Tail(pipe))
  BY DEF ReadStep, Pending
<1>2. ToSet(<<>>) = {}
  BY NilFacts
<1>. QED
  BY <1>1, <1>2, HeadFacts DEF ReadStep, pad

LEMMA OtherEvents ==
  /\ Event("ABS_MT_TRACKING_ID", -1).type = "ABS_MT_TRACKING_ID"
  /\ Event("ABS_MT_TRACKING_ID", -1).value = -1
  /\ Event("BTN_TOUCH", 0).type = "BTN_TOUCH" /\ Event("BTN_TOUCH", 0).value = 0
  /\ Event("BTN_LEFT", 0).type = "BTN_LEFT" /\ Event("BTN_LEFT", 0).value = 0
BY DEF Event

LEMMA SettleFacts ==
  ASSUME NEW S2, NEW b2, Settle(S2, b2)
  PROVE  /\ slots' = S2 /\ btn_touch' = b2
         /\ Active' <=> (S2 # {} \/ b2)
         /\ Active' => cur' = cur /\ last' = last /\ finger_count' = finger_count
         /\ ~Active' => cur' = NoPoint /\ last' = None /\ finger_count' = 0
BY DEF Settle, Active, TouchActive

LEMMA NoPointFacts ==
  /\ NoPoint \in [1..2 -> Coordinates \cup {None}]
  /\ NoPoint[1] = None /\ NoPoint[2] = None
  /\ <<0, 0>> \in [1..2 -> (1 - Notch)..(Notch - 1)]
<1>1. Notch \in Nat \ {0}
  BY TouchpadAssumption
<1>2. 0 \in (1 - Notch)..(Notch - 1)
  BY <1>1
<1>. QED
  BY <1>2 DEF NoPoint

LEMMA ReadTrackingIdTouch ==
  ASSUME PadInv, PipeInv, TouchInv, ReadTrackingId
  PROVE  TouchInv'
<1>. DEFINE h == Head(pipe)
<1>1. ReadStep /\ pipe # <<>> /\ h.type = "ABS_MT_TRACKING_ID" /\ active_slot \in Slots
  BY DEF ReadTrackingId, Next1, Taken, ReadStep, TouchInv, TouchType
<1>2. TouchType /\ TouchRest
  BY DEF TouchInv
<1>3. PICK S2 : /\ S2 = IF h.value >= 0 THEN slots \cup {active_slot}
                                        ELSE slots \ {active_slot}
                /\ Settle(S2, btn_touch)
  BY DEF ReadTrackingId, value
<1>4. /\ slots' = S2 /\ btn_touch' = btn_touch
      /\ Active' <=> (S2 # {} \/ btn_touch)
      /\ Active' => cur' = cur /\ last' = last /\ finger_count' = finger_count
      /\ ~Active' => cur' = NoPoint /\ last' = None /\ finger_count' = 0
  BY <1>3, SettleFacts
<1>5. active_slot' = active_slot /\ pending_scroll' = pending_scroll
  BY DEF ReadTrackingId
<1>6. TouchType'
  BY <1>1, <1>2, <1>3, <1>4, <1>5, NoPointFacts DEF TouchType
<1>7. /\ h \in Events
      /\ h.value \in {-1, 0}
      /\ h.value = 0 => {0, slot} \subseteq ToSet(fingers)
      /\ active_slot = slot \/ Lost
  BY <1>1, HeadFacts DEF Right
<1>8. h.value = -1 => h = Event("ABS_MT_TRACKING_ID", -1)
  BY <1>1, <1>7 DEF Events, Event
<1>9. ASSUME NEW s \in slots'
      PROVE  s \in ToSet(fingers') \/
             (s = slot' /\ Event("ABS_MT_TRACKING_ID", -1) \in Pending')
  <2>1. CASE h.value = 0
    <3>1. s \in slots \/ s = active_slot
      BY <1>3, <1>4, <2>1
    <3>2. active_slot \in ToSet(fingers)
      BY <1>7, <2>1 DEF Lost
    <3>3. Event("ABS_MT_TRACKING_ID", -1) # h
      BY <2>1, OtherEvents
    <3>4. Pending = {h} \cup Pending' /\ fingers' = fingers /\ slot' = slot
      BY <1>1, ReadPending
    <3>. QED
      BY <1>2, <3>1, <3>2, <3>3, <3>4 DEF TouchRest
  <2>2. CASE h.value = -1
    <3>1. s \in slots /\ s # active_slot
      <4>1. ~(h.value >= 0)
        BY <2>2
      <4>. QED
        BY <1>3, <1>4, <4>1
    <3>2. s # slot
      BY <1>7, <3>1 DEF Lost
    <3>3. fingers' = fingers
      BY <1>1, ReadPending
    <3>. QED
      BY <1>2, <3>1, <3>2, <3>3 DEF TouchRest
  <2>. QED
    BY <1>7, <2>1, <2>2
<1>10. btn_touch' => fingers' # <<>> \/ Event("BTN_TOUCH", 0) \in Pending'
  <2>1. Event("BTN_TOUCH", 0) # h
    BY <1>1, OtherEvents
  <2>. QED
    BY <1>1, <1>2, <1>4, <2>1, ReadPending DEF TouchRest
<1>11. ~(pipe' = <<>> \/ (\E e \in Pending' : e.type = "BTN_LEFT"))
  BY <1>1, ReadPending
<1>12. last' # None =>
         /\ Active' /\ last' \in [1..2 -> Coordinates]
         /\ None \notin {cur'[1], cur'[2]}
  BY <1>2, <1>4 DEF TouchRest
<1>13. TouchRest'
  BY <1>9, <1>10, <1>11, <1>12 DEF TouchRest
<1>. QED
  BY <1>6, <1>13 DEF TouchInv

LEMMA ReadTouchTouch ==
  ASSUME PadInv, PipeInv, TouchInv, ReadTouch
  PROVE  TouchInv'
<1>. DEFINE h == Head(pipe)
<1>1. ReadStep /\ pipe # <<>> /\ h.type = "BTN_TOUCH" /\ active_slot \in Slots
  BY DEF ReadTouch, Next1, Taken, ReadStep, TouchInv, TouchType
<1>2. TouchType /\ TouchRest
  BY DEF TouchInv
<1>3. Settle(slots, h.value # 0)
  BY DEF ReadTouch, value
<1>4. /\ slots' = slots /\ btn_touch' = (h.value # 0)
      /\ Active' <=> (slots # {} \/ h.value # 0)
      /\ Active' => cur' = cur /\ last' = last /\ finger_count' = finger_count
      /\ ~Active' => cur' = NoPoint /\ last' = None /\ finger_count' = 0
  BY <1>3, SettleFacts
<1>5. active_slot' = active_slot /\ pending_scroll' = pending_scroll
  BY DEF ReadTouch
<1>6. TouchType'
  BY <1>1, <1>2, <1>4, <1>5, NoPointFacts DEF TouchType
<1>7. h \in Events /\ h.value = IF fingers = <<>> THEN 0 ELSE 1
  BY <1>1, HeadFacts DEF Right
<1>8. Pending = {h} \cup Pending' /\ fingers' = fingers /\ slot' = slot
  BY <1>1, ReadPending
<1>9. ASSUME NEW s \in slots'
      PROVE  s \in ToSet(fingers') \/
             (s = slot' /\ Event("ABS_MT_TRACKING_ID", -1) \in Pending')
  <2>1. Event("ABS_MT_TRACKING_ID", -1) # h
    BY <1>1, OtherEvents
  <2>. QED
    BY <1>2, <1>4, <1>8, <2>1 DEF TouchRest
<1>10. btn_touch' => fingers' # <<>>
  BY <1>4, <1>7, <1>8
<1>11. ~(pipe' = <<>> \/ (\E e \in Pending' : e.type = "BTN_LEFT"))
  BY <1>1, ReadPending
<1>12. last' # None =>
         /\ Active' /\ last' \in [1..2 -> Coordinates]
         /\ None \notin {cur'[1], cur'[2]}
  BY <1>2, <1>4 DEF TouchRest
<1>13. TouchRest'
  BY <1>9, <1>10, <1>11, <1>12 DEF TouchRest
<1>. QED
  BY <1>6, <1>13 DEF TouchInv

\* Steps that leave slots and btn_touch alone, within a frame.
LEMMA ReadKeepsTouch ==
  ASSUME PadInv, PipeInv, TouchInv, ReadStep,
         Head(pipe).type \notin {"ABS_MT_TRACKING_ID", "BTN_TOUCH", "SYN"},
         slots' = slots, btn_touch' = btn_touch,
         last' # None =>
           /\ last' = last /\ None \notin {cur'[1], cur'[2]}
  PROVE  TouchRest'
<1>1. TouchRest /\ active_slot \in Slots
  BY DEF TouchInv, TouchType
<1>2. /\ Pending = {Head(pipe)} \cup Pending' /\ fingers' = fingers
      /\ slot' = slot /\ pipe' # <<>>
      /\ \A e \in Pending' : e.type # "BTN_LEFT"
  BY <1>1, ReadPending
<1>3. /\ Event("ABS_MT_TRACKING_ID", -1) # Head(pipe)
      /\ Event("BTN_TOUCH", 0) # Head(pipe)
  BY OtherEvents
<1>4. Active' = Active
  BY DEF Active, TouchActive
<1>. QED
  BY <1>1, <1>2, <1>3, <1>4 DEF TouchRest

LEMMA ReadSlotTouch ==
  ASSUME PadInv, PipeInv, TouchInv, ReadSlot
  PROVE  TouchInv'
<1>1. ReadStep /\ pipe # <<>> /\ Head(pipe).type = "ABS_MT_SLOT"
  BY DEF ReadSlot, Next1, Taken, ReadStep
<1>2. TouchType /\ TouchRest
  BY DEF TouchInv
<1>3. Head(pipe).value \in Slots
  BY <1>1, <1>2, HeadFacts DEF TouchType, Right
<1>4. TouchType'
  BY <1>2, <1>3 DEF TouchType, ReadSlot, value
<1>5. TouchRest'
  <2>1. slots' = slots /\ btn_touch' = btn_touch /\ cur' = cur /\ last' = last
    BY DEF ReadSlot
  <2>. QED
    BY <1>1, <1>2, <2>1, ReadKeepsTouch DEF TouchRest
<1>. QED
  BY <1>4, <1>5 DEF TouchInv

\* What becomes of cur.
CurStep(axis, v) ==
  cur' = cur \/ (v \in Coordinates /\ cur' = [cur EXCEPT ![axis] = v])

LEMMA CurStepFacts ==
  ASSUME NEW axis \in 1..2, NEW v, CurStep(axis, v),
         cur \in [1..2 -> Coordinates \cup {None}]
  PROVE  /\ cur' \in [1..2 -> Coordinates \cup {None}]
         /\ None \notin {cur[1], cur[2]} => None \notin {cur'[1], cur'[2]}
<1>1. None \notin Coordinates
  BY TouchpadAssumption, PointFacts
<1>2. CASE cur' = cur
  BY <1>2
<1>3. CASE v \in Coordinates /\ cur' = [cur EXCEPT ![axis] = v]
  <2>1. v # None
    BY <1>1, <1>3
  <2>2. cur' \in [1..2 -> Coordinates \cup {None}]
    BY <1>3
  <2>3. /\ cur'[1] = IF axis = 1 THEN v ELSE cur[1]
        /\ cur'[2] = IF axis = 2 THEN v ELSE cur[2]
    BY <1>3
  <2>. QED
    BY <2>1, <2>2, <2>3
<1>. QED
  BY <1>2, <1>3 DEF CurStep

LEMMA ReadPositionCur ==
  ASSUME PadInv, PipeInv, TouchType, ReadPosition
  PROVE  \E axis \in 1..2 : CurStep(axis, Head(pipe).value)
<1>1. pipe # <<>> /\ active_slot \in Slots
  BY DEF ReadPosition, Next1, TouchType
<1>2. at \in [Slots -> Points] /\ pointer \in Points
      /\ ToSet(fingers) \subseteq Slots
  BY DEF PadInv, ToSet
<1>3. CASE Next1({"ABS_MT_POSITION_X", "ABS_MT_POSITION_Y"})
           /\ LET axis == IF Head(pipe).type = "ABS_MT_POSITION_X" THEN 1 ELSE 2 IN
              cur' = IF active_slot = 0 THEN [cur EXCEPT ![axis] = value] ELSE cur
  <2>1. CASE Head(pipe).type = "ABS_MT_POSITION_X"
    <3>1. PICK c \in ToSet(fingers) : Head(pipe).value = at[c][1]
      BY <1>1, <2>1, HeadFacts
    <3>2. Head(pipe).value \in Coordinates
      BY <1>2, <3>1, PointFacts
    <3>3. CurStep(1, Head(pipe).value)
      BY <1>3, <2>1, <3>2 DEF CurStep, value
    <3>. QED
      BY <3>3
  <2>2. CASE Head(pipe).type = "ABS_MT_POSITION_Y"
    <3>1. PICK c \in ToSet(fingers) : Head(pipe).value = at[c][2]
      BY <1>1, <2>2, HeadFacts
    <3>2. Head(pipe).value \in Coordinates
      BY <1>2, <3>1, PointFacts
    <3>3. CurStep(2, Head(pipe).value)
      BY <1>3, <2>2, <3>2 DEF CurStep, value
    <3>. QED
      BY <3>3
  <2>. QED
    BY <1>3, <2>1, <2>2 DEF Next1
<1>4. CASE Next1({"ABS_X", "ABS_Y"})
           /\ LET axis == IF Head(pipe).type = "ABS_X" THEN 1 ELSE 2 IN
              cur' = IF TouchActive(slots, btn_touch)
                     THEN [cur EXCEPT ![axis] = value] ELSE cur
  <2>1. /\ Head(pipe).type = "ABS_X" => Head(pipe).value = pointer[1]
        /\ Head(pipe).type = "ABS_Y" => Head(pipe).value = pointer[2]
    BY <1>1, HeadFacts DEF Right
  <2>2. CASE Head(pipe).type = "ABS_X"
    <3>1. Head(pipe).value \in Coordinates
      BY <1>2, <2>1, <2>2, PointFacts
    <3>2. CurStep(1, Head(pipe).value)
      BY <1>4, <2>2, <3>1 DEF CurStep, value
    <3>. QED
      BY <3>2
  <2>3. CASE Head(pipe).type = "ABS_Y"
    <3>1. Head(pipe).value \in Coordinates
      BY <1>2, <2>1, <2>3, PointFacts
    <3>2. CurStep(2, Head(pipe).value)
      BY <1>4, <2>3, <3>1 DEF CurStep, value
    <3>. QED
      BY <3>2
  <2>. QED
    BY <1>4, <2>2, <2>3 DEF Next1
<1>. QED
  BY <1>3, <1>4 DEF ReadPosition

LEMMA ReadPositionTouch ==
  ASSUME PadInv, PipeInv, TouchInv, ReadPosition
  PROVE  TouchInv'
<1>1. ReadStep /\ pipe # <<>>
      /\ Head(pipe).type \in {"ABS_MT_POSITION_X", "ABS_MT_POSITION_Y",
                              "ABS_X", "ABS_Y"}
  BY DEF ReadPosition, Next1, Taken, ReadStep
<1>2. TouchType /\ TouchRest
  BY DEF TouchInv
<1>3. PICK axis \in 1..2 : CurStep(axis, Head(pipe).value)
  BY <1>2, ReadPositionCur
<1>4. /\ cur' \in [1..2 -> Coordinates \cup {None}]
      /\ None \notin {cur[1], cur[2]} => None \notin {cur'[1], cur'[2]}
  BY <1>2, <1>3, CurStepFacts DEF TouchType
<1>5. /\ slots' = slots /\ btn_touch' = btn_touch /\ last' = last
      /\ active_slot' = active_slot /\ finger_count' = finger_count
      /\ pending_scroll' = pending_scroll
  BY DEF ReadPosition
<1>6. TouchType'
  BY <1>2, <1>4, <1>5 DEF TouchType
<1>7. TouchRest'
  BY <1>1, <1>2, <1>4, <1>5, ReadKeepsTouch DEF TouchRest
<1>. QED
  BY <1>6, <1>7 DEF TouchInv

LEMMA ReadToolTouch ==
  ASSUME PadInv, PipeInv, TouchInv, ReadTool
  PROVE  TouchInv'
<1>1. PICK k \in 1..4 :
        /\ Next1({Tools[k]}) /\ Taken
        /\ finger_count' = NewCount(k)
        /\ last' = IF NewCount(k) # finger_count THEN None ELSE last
        /\ UNCHANGED <<slots, active_slot, btn_touch, cur, pending_scroll>>
  BY DEF ReadTool
<1>2. ReadStep /\ pipe # <<>> /\ Head(pipe).type \in ToolTypes
  BY <1>1, ToolFacts DEF Next1, Taken, ReadStep
<1>3. TouchType /\ TouchRest
  BY DEF TouchInv
<1>4. NewCount(k) \in 0..4
  BY <1>1, <1>3 DEF NewCount, TouchType
<1>5. TouchType'
  BY <1>1, <1>3, <1>4 DEF TouchType
<1>6. TouchRest'
  <2>1. Head(pipe).type \notin {"ABS_MT_TRACKING_ID", "BTN_TOUCH", "SYN"}
    BY <1>2 DEF ToolTypes
  <2>2. last' # None => last' = last /\ None \notin {cur'[1], cur'[2]}
    BY <1>1, <1>3 DEF TouchRest
  <2>. QED
    BY <1>1, <1>2, <2>1, <2>2, ReadKeepsTouch
<1>. QED
  BY <1>5, <1>6 DEF TouchInv

LEMMA ReadLeftTouch ==
  ASSUME PadInv, PipeInv, TouchInv, ReadLeft
  PROVE  TouchInv'
<1>1. ReadStep /\ pipe # <<>> /\ Head(pipe).type = "BTN_LEFT"
  BY DEF ReadLeft, Next1, Taken, ReadStep
<1>2. TouchType /\ TouchRest /\ UNCHANGED <<touch, pending_scroll>>
  BY DEF TouchInv, ReadLeft
<1>3. TouchType'
  BY <1>2 DEF TouchType, touch
<1>4. TouchRest'
  <2>1. slots' = slots /\ btn_touch' = btn_touch /\ last' = last /\ cur' = cur
    BY <1>2 DEF touch
  <2>. QED
    BY <1>1, <1>2, <2>1, ReadKeepsTouch DEF TouchRest
<1>. QED
  BY <1>3, <1>4 DEF TouchInv

LEMMA DeltaFacts ==
  ASSUME TouchInv
  PROVE  /\ Delta = <<Delta[1], Delta[2]>> /\ Delta[1] \in Int /\ Delta[2] \in Int
         /\ Delta # Still => /\ Active /\ last # None
                             /\ Delta[1] = cur[1] - last[1]
                             /\ Delta[2] = cur[2] - last[2]
<1>1. CASE Active /\ None \notin {cur[1], cur[2]} /\ last # None
  <2>1. Delta = <<cur[1] - last[1], cur[2] - last[2]>>
    BY <1>1 DEF Delta, Active
  <2>2. /\ cur[1] \in Coordinates /\ cur[2] \in Coordinates
        /\ last[1] \in Coordinates /\ last[2] \in Coordinates
    BY <1>1 DEF TouchInv, TouchType, TouchRest
  <2>3. cur[1] \in Int /\ cur[2] \in Int /\ last[1] \in Int /\ last[2] \in Int
    BY <2>2, PointFacts
  <2>. QED
    BY <1>1, <2>1, <2>3
<1>2. CASE ~(Active /\ None \notin {cur[1], cur[2]} /\ last # None)
  <2>1. Delta = <<0, 0>> /\ Delta = Still
    BY <1>2 DEF Delta, Active, Still
  <2>. QED
    BY <2>1
<1>. QED
  BY <1>1, <1>2

\* The scroll at the end of a frame.
LEMMA SynScroll ==
  ASSUME TouchInv, ReadSyn
  PROVE  \E x, y \in Int :
           /\ x = IF finger_count >= 2 THEN pending_scroll[1] - Delta[1]
                                       ELSE pending_scroll[1]
           /\ y = IF finger_count >= 2 THEN pending_scroll[2] - Delta[2]
                                       ELSE pending_scroll[2]
           /\ pending_scroll' = <<x - Notch * Trunc(x), y - Notch * Trunc(y)>>
           /\ out' = IF <<Trunc(x), Trunc(y)>> # Still
                     THEN [type |-> "MouseScroll", by |-> <<Trunc(x), Trunc(y)>>]
                     ELSE IF Delta # Still /\ finger_count < 2
                     THEN [type |-> "MouseMove", by |-> <<2 * Delta[1], 2 * Delta[2]>>]
                     ELSE Nothing
<1>1. /\ pending_scroll[1] \in Int /\ pending_scroll[2] \in Int
      /\ pending_scroll = <<pending_scroll[1], pending_scroll[2]>>
  <2>1. Notch \in Nat
    BY TouchpadAssumption
  <2>. QED
    BY <2>1 DEF TouchInv, TouchType
<1>2. PICK s : s = IF finger_count >= 2
                   THEN <<pending_scroll[1] - Delta[1], pending_scroll[2] - Delta[2]>>
                   ELSE pending_scroll
  OBVIOUS
<1>3. /\ s[1] = IF finger_count >= 2 THEN pending_scroll[1] - Delta[1]
                                     ELSE pending_scroll[1]
      /\ s[2] = IF finger_count >= 2 THEN pending_scroll[2] - Delta[2]
                                     ELSE pending_scroll[2]
  BY <1>1, <1>2
<1>4. s[1] \in Int /\ s[2] \in Int
  BY <1>1, <1>3, DeltaFacts
<1>5. pending_scroll' = <<s[1] - Notch * Trunc(s[1]), s[2] - Notch * Trunc(s[2])>>
  BY <1>2 DEF ReadSyn
<1>6. out' = IF <<Trunc(s[1]), Trunc(s[2])>> # Still
             THEN [type |-> "MouseScroll", by |-> <<Trunc(s[1]), Trunc(s[2])>>]
             ELSE IF Delta # Still /\ finger_count < 2
             THEN [type |-> "MouseMove", by |-> <<2 * Delta[1], 2 * Delta[2]>>]
             ELSE Nothing
  BY <1>2 DEF ReadSyn, Return
<1>. QED
  BY <1>3, <1>4, <1>5, <1>6

LEMMA ReadSynTouch ==
  ASSUME PadInv, PipeInv, TouchInv, ReadSyn
  PROVE  TouchInv'
<1>1. ReadStep /\ pipe # <<>> /\ Head(pipe).type = "SYN"
  BY DEF ReadSyn, Next1, Taken, ReadStep
<1>2. TouchType /\ TouchRest
  BY DEF TouchInv
<1>3. /\ slots' = slots /\ btn_touch' = btn_touch /\ active_slot' = active_slot
      /\ last' = IF Active THEN IF None \notin {cur[1], cur[2]} THEN cur ELSE last
                           ELSE None
      /\ IF Active THEN cur' = cur /\ finger_count' = finger_count
                   ELSE cur' = NoPoint /\ finger_count' = 0
  BY DEF ReadSyn, Active
<1>4. Active' = Active
  BY <1>3 DEF Active, TouchActive
<1>5. pending_scroll' \in [1..2 -> (1 - Notch)..(Notch - 1)]
  <2>1. PICK x, y \in Int :
          pending_scroll' = <<x - Notch * Trunc(x), y - Notch * Trunc(y)>>
    BY SynScroll
  <2>2. /\ x - Notch * Trunc(x) \in (1 - Notch)..(Notch - 1)
        /\ y - Notch * Trunc(y) \in (1 - Notch)..(Notch - 1)
    BY TruncFacts
  <2>3. PICK u, v \in (1 - Notch)..(Notch - 1) : pending_scroll' = <<u, v>>
    BY <2>1, <2>2
  <2>. QED
    BY <2>3
<1>6. TouchType'
  <2>1. cur' \in [1..2 -> Coordinates \cup {None}]
    BY <1>2, <1>3, NoPointFacts DEF TouchType
  <2>2. finger_count' \in 0..4
    BY <1>2, <1>3 DEF TouchType
  <2>. QED
    BY <1>2, <1>3, <1>5, <2>1, <2>2 DEF TouchType
<1>7. /\ Pending = {Head(pipe)} \cup Pending' /\ fingers' = fingers
      /\ slot' = slot /\ Pending' = {}
  BY <1>1, <1>2, ReadPending DEF TouchType
<1>8. /\ Event("ABS_MT_TRACKING_ID", -1) # Head(pipe)
      /\ Event("BTN_TOUCH", 0) # Head(pipe)
  BY <1>1, OtherEvents
<1>9. \A s \in slots' : s \in ToSet(fingers')
  BY <1>2, <1>3, <1>7, <1>8 DEF TouchRest
<1>10. btn_touch' => fingers' # <<>>
  BY <1>2, <1>3, <1>7, <1>8 DEF TouchRest
<1>11. Active' \/ (cur' = NoPoint /\ finger_count' = 0)
  BY <1>3, <1>4
<1>12. ASSUME last' # None
       PROVE  /\ Active' /\ last' \in [1..2 -> Coordinates]
              /\ None \notin {cur'[1], cur'[2]}
  <2>1. Active /\ cur' = cur
    BY <1>3, <1>12
  <2>2. CASE None \notin {cur[1], cur[2]}
    <3>1. last' = cur
      BY <1>3, <2>1, <2>2
    <3>2. cur \in [1..2 -> Coordinates]
      <4>1. cur[1] \in Coordinates /\ cur[2] \in Coordinates
        BY <1>2, <2>2 DEF TouchType
      <4>2. \A a \in 1..2 : a = 1 \/ a = 2
        OBVIOUS
      <4>. QED
        BY <1>2, <4>1, <4>2 DEF TouchType
    <3>. QED
      BY <1>4, <2>1, <2>2, <3>1, <3>2
  <2>3. CASE ~(None \notin {cur[1], cur[2]})
    <3>1. last' = last
      BY <1>3, <2>1, <2>3
    <3>. QED
      BY <1>2, <1>4, <1>12, <2>1, <3>1 DEF TouchRest
  <2>. QED
    BY <2>2, <2>3
<1>13. TouchRest'
  BY <1>9, <1>10, <1>11, <1>12 DEF TouchRest
<1>. QED
  BY <1>6, <1>13 DEF TouchInv

\* Reading and the buttons held.
LEMMA ReadHeld ==
  ASSUME BaseInv, Read
  PROVE  HeldInv'
<1>1. PadInv /\ PipeInv /\ TouchInv /\ TouchType /\ TouchRest /\ HeldInv
      /\ active_slot \in Slots
  BY DEF BaseInv, TouchInv, TouchType
<1>2. ReadStep /\ pipe # <<>>
  BY DEF Read, ReadSlot, ReadTrackingId, ReadPosition, ReadTouch, ReadTool,
         ReadLeft, ReadSyn, Next1, Taken, ReadStep
<1>3. /\ Pending = {Head(pipe)} \cup Pending'
      /\ clicked' = clicked /\ forwarded' = forwarded /\ steady' = steady
  BY <1>1, <1>2, ReadPending DEF ReadStep, history
<1>4. CASE ReadSlot \/ ReadPosition
  <2>1. /\ held_buttons' = held_buttons /\ finger_count' = finger_count
        /\ slots' = slots /\ btn_touch' = btn_touch
        /\ Head(pipe).type # "BTN_LEFT"
    BY <1>4 DEF ReadSlot, ReadPosition, Return, Next1
  <2>2. Event("BTN_LEFT", 0) # Head(pipe)
    BY <2>1, OtherEvents
  <2>3. Active' = Active /\ Button' = Button
    BY <2>1 DEF Active, TouchActive, Button
  <2>. QED
    BY <1>1, <1>3, <2>1, <2>2, <2>3 DEF HeldInv
<1>5. CASE ReadTrackingId \/ ReadTouch \/ ReadTool
  <2>1. held_buttons' = held_buttons
    BY <1>5 DEF ReadTrackingId, ReadTouch, ReadTool, Return
  <2>2. Head(pipe).type \in {"ABS_MT_TRACKING_ID", "BTN_TOUCH"} \cup ToolTypes
    BY <1>5, ToolFacts DEF ReadTrackingId, ReadTouch, ReadTool, Next1
  <2>3. ~(steady /\ held_buttons # {})
    BY <1>1, <1>3, <2>2 DEF HeldInv
  <2>. QED
    BY <1>1, <1>3, <2>1, <2>3 DEF HeldInv
<1>6. CASE ReadSyn
  <2>1. /\ held_buttons' = held_buttons /\ slots' = slots /\ btn_touch' = btn_touch
        /\ finger_count' = IF Active THEN finger_count ELSE 0
        /\ Head(pipe).type = "SYN"
    BY <1>6 DEF ReadSyn, Return, Next1, Active
  <2>2. Event("BTN_LEFT", 0) # Head(pipe)
    BY <2>1, OtherEvents
  <2>3. Active' = Active
    BY <2>1 DEF Active, TouchActive
  <2>4. ASSUME steady, held_buttons # {} PROVE finger_count' = finger_count
    BY <1>1, <2>1, <2>4 DEF HeldInv
  <2>5. ASSUME finger_count' = finger_count PROVE Button' = Button
    BY <2>5 DEF Button
  <2>. QED
    BY <1>1, <1>3, <2>1, <2>2, <2>3, <2>4, <2>5 DEF HeldInv
<1>7. CASE ReadLeft
  <2>1. /\ Head(pipe).type = "BTN_LEFT"
        /\ Inject(Button, Head(pipe).value # 0)
        /\ finger_count' = finger_count /\ slots' = slots /\ btn_touch' = btn_touch
    BY <1>7 DEF ReadLeft, Next1, Button, value, touch
  <2>2. /\ Head(pipe) \in Events
        /\ Head(pipe).value = IF clicked THEN 1 ELSE 0
    BY <1>1, <1>2, <2>1, HeadFacts DEF Right
  <2>3. Active' = Active /\ Button' = Button
    BY <2>1 DEF Active, TouchActive, Button
  <2>4. \A e \in Pending' : e.type = "SYN"
    BY <1>1, <1>2, <2>1, ReadPending
  <2>5. Active \/ finger_count = 0
    <3>1. Head(pipe) \in Pending
      BY <1>3
    <3>. QED
      BY <1>1, <2>1, <3>1 DEF TouchRest
  <2>6. \A e \in Pending' : e.type \notin {"ABS_MT_TRACKING_ID", "BTN_TOUCH"}
                                           \cup ToolTypes \cup {"BTN_LEFT"}
    BY <2>4 DEF ToolTypes
  <2>7. Button \in {"Left", "Right"}
    BY DEF Button
  <2>8. CASE ~forwarded
    <3>1. held_buttons' = held_buttons
      BY <2>1, <2>8 DEF Inject
    <3>2. steady => held_buttons = {}
      BY <1>1, <2>8 DEF HeldInv
    <3>. QED
      BY <1>1, <1>3, <3>1, <3>2 DEF HeldInv
  <2>9. CASE forwarded /\ clicked
    <3>1. held_buttons' = held_buttons \cup {Button}
      BY <2>1, <2>2, <2>9 DEF Inject
    <3>2. ASSUME steady PROVE held_buttons' = {Button}
      <4>1. CASE held_buttons = {}
        BY <3>1, <4>1
      <4>2. CASE held_buttons # {}
        BY <1>1, <3>1, <3>2, <4>2 DEF HeldInv
      <4>. QED
        BY <4>1, <4>2
    <3>3. held_buttons' \subseteq {"Left", "Right"}
      BY <1>1, <2>7, <3>1 DEF HeldInv
    <3>. QED
      BY <1>3, <2>3, <2>1, <2>5, <2>6, <2>9, <3>2, <3>3 DEF HeldInv
  <2>10. CASE forwarded /\ ~clicked
    <3>1. held_buttons' = held_buttons \ {Button}
      BY <2>1, <2>2, <2>10 DEF Inject
    <3>2. steady => held_buttons' = {}
      BY <1>1, <3>1 DEF HeldInv
    <3>3. held_buttons' \subseteq {"Left", "Right"}
      BY <1>1, <3>1 DEF HeldInv
    <3>. QED
      BY <1>3, <2>10, <3>2, <3>3 DEF HeldInv
  <2>. QED
    BY <2>8, <2>9, <2>10
<1>. QED
  BY <1>4, <1>5, <1>6, <1>7 DEF Read

LEMMA ReadBase ==
  ASSUME BaseInv, Read
  PROVE  BaseInv'
<1>1. PadInv /\ PipeInv /\ TouchInv /\ active_slot \in Slots
  BY DEF BaseInv, TouchInv, TouchType
<1>2. /\ pipe # <<>> /\ pipe' = Tail(pipe)
      /\ UNCHANGED <<pad, forwarded, history>>
  BY DEF Read, ReadSlot, ReadTrackingId, ReadPosition, ReadTouch, ReadTool,
         ReadLeft, ReadSyn, Next1, Taken
<1>3. PadInv'
  BY <1>1, <1>2, StillPad DEF history
<1>4. TouchInv'
  BY <1>1, ReadSlotTouch, ReadTrackingIdTouch, ReadPositionTouch, ReadTouchTouch,
     ReadToolTouch, ReadLeftTouch, ReadSynTouch DEF Read
<1>5. HeldInv'
  BY ReadHeld
<1>6. /\ slots' \subseteq slots \cup {active_slot}
      /\ active_slot' = IF Head(pipe).type = "ABS_MT_SLOT" THEN Head(pipe).value
                                                           ELSE active_slot
  <2>1. CASE ReadSlot
    BY <2>1 DEF ReadSlot, Next1, value
  <2>2. CASE ReadTrackingId
    <3>1. slots' = IF Head(pipe).value >= 0 THEN slots \cup {active_slot}
                                            ELSE slots \ {active_slot}
      BY <2>2 DEF ReadTrackingId, Settle, value
    <3>2. Head(pipe).type = "ABS_MT_TRACKING_ID" /\ active_slot' = active_slot
      BY <2>2 DEF ReadTrackingId, Next1
    <3>. QED
      BY <3>1, <3>2
  <2>3. CASE ReadPosition \/ ReadTouch \/ ReadTool \/ ReadLeft \/ ReadSyn
    <3>1. slots' = slots /\ active_slot' = active_slot
      BY <2>3 DEF ReadPosition, ReadTouch, ReadTool, ReadLeft, ReadSyn, Settle, touch
    <3>2. Head(pipe).type # "ABS_MT_SLOT"
      BY <2>3, ToolFacts
      DEF ReadPosition, ReadTouch, ReadTool, ReadLeft, ReadSyn, Next1, ToolTypes
    <3>. QED
      BY <3>1, <3>2
  <2>. QED
    BY <2>1, <2>2, <2>3 DEF Read
<1>7. PipeInv'
  BY <1>1, <1>2, <1>6, ReadPipe DEF history
<1>. QED
  BY <1>3, <1>4, <1>5, <1>7 DEF BaseInv

LEMMA GrabBase ==
  ASSUME BaseInv, Grab
  PROVE  BaseInv'
<1>1. PadInv /\ PipeInv /\ TouchInv /\ HeldInv
  BY DEF BaseInv
<1>2. /\ slots' = {} /\ btn_touch' = FALSE /\ finger_count' = 0
      /\ cur' = NoPoint /\ last' = None /\ pending_scroll' = <<0, 0>>
      /\ steady' = (held_buttons' = {})
      /\ UNCHANGED <<pad, pipe, active_slot, forwarded, held_buttons, shift,
                     crossed>>
  BY DEF Grab
<1>3. PadInv'
  <2>1. clicked \in BOOLEAN /\ forwarded \in BOOLEAN /\ steady' \in BOOLEAN
    BY <1>1, <1>2 DEF PadInv
  <2>. QED
    BY <1>1, <1>2, <2>1 DEF PadInv, pad
<1>4. PipeInv'
  <2>1. Lost => Lost'
    BY <1>2 DEF Lost, pad
  <2>. QED
    BY <1>1, <1>2, <2>1 DEF PipeInv, pad
<1>5. TouchInv'
  <2>0. /\ cur' \in [1..2 -> Coordinates \cup {None}]
        /\ pending_scroll' \in [1..2 -> (1 - Notch)..(Notch - 1)]
    BY <1>2, NoPointFacts
  <2>1. TouchType'
    <3>1. active_slot' \in Slots
      BY <1>1, <1>2 DEF TouchInv, TouchType
    <3>2. slots' = {} /\ btn_touch' = FALSE /\ finger_count' = 0
      BY <1>2
    <3>3. slots' \subseteq Slots /\ btn_touch' \in BOOLEAN
      BY <3>2
    <3>4. finger_count' \in 0..4
      BY <3>2
    <3>. QED
      BY <2>0, <3>1, <3>3, <3>4 DEF TouchType
  <2>2. TouchRest'
    BY <1>2 DEF TouchRest
  <2>. QED
    BY <2>1, <2>2 DEF TouchInv
<1>6. HeldInv'
  BY <1>1, <1>2 DEF HeldInv
<1>. QED
  BY <1>3, <1>4, <1>5, <1>6 DEF BaseInv

\* The focus leaves the pad and the worker alone.
LEMMA ForwardingBase ==
  ASSUME BaseInv, ForwardingBegins \/ ForwardingEnds
  PROVE  BaseInv'
<1>1. PadInv /\ PipeInv /\ TouchInv /\ HeldInv
  BY DEF BaseInv
<1>2. /\ forwarded' \in BOOLEAN /\ held_buttons' \in {held_buttons, {}}
      /\ steady' = (held_buttons' = {})
      /\ UNCHANGED <<fingers, at, pointer, slot, clicked>>
      /\ UNCHANGED <<slots, active_slot, btn_touch, finger_count, cur, last>>
      /\ UNCHANGED <<pipe, pending_scroll, crossed>>
  BY DEF ForwardingBegins, ForwardingEnds, pad, touch
<1>3. PadInv'
  <2>1. steady' \in BOOLEAN
    BY <1>2
  <2>. QED
    BY <1>1, <1>2, <2>1 DEF PadInv
<1>4. PipeInv'
  BY <1>1, <1>2 DEF PipeInv, Lost
<1>5. TouchInv'
  BY <1>1, <1>2 DEF TouchInv, TouchType, TouchRest, Active, TouchActive, Pending
<1>6. HeldInv'
  BY <1>1, <1>2 DEF HeldInv
<1>. QED
  BY <1>3, <1>4, <1>5, <1>6 DEF BaseInv

-----------------------------------------------------------------------------
(* Frames: their parts, and how they are put together.                       *)

LEMMA PartNil ==
  ASSUME NEW lo, NEW hi, NEW F, NEW P, NEW S, NEW C
  PROVE  Part(<<>>, lo, hi, F, P, S, C)
<1>1. \A i \in 1..Len(<<>>) : FALSE
  BY NilFacts
<1>. QED
  BY <1>1, NilFacts DEF Part, Sorted

LEMMA PartOne ==
  ASSUME NEW e, NEW F, NEW P, NEW S, NEW C, Right(e, F, P, S, C)
  PROVE  Part(<<e>>, Rank(e), Rank(e), F, P, S, C)
<1>1. e \in Events
  BY DEF Right
<1>2. /\ <<e>> \in Seq(Events) /\ Len(<<e>>) = 1 /\ <<e>>[1] = e
  BY <1>1, OneFacts
<1>3. \A i \in 1..1 : i = 1
  OBVIOUS
<1>4. Rank(e) \in 1..5
  BY RankFacts
<1>5. \A i \in 1..Len(<<e>>) : <<e>>[i] = e
  BY <1>2, <1>3
<1>6. Sorted(<<e>>)
  BY <1>2, <1>3, <1>4, <1>5 DEF Sorted
<1>. QED
  BY <1>2, <1>4, <1>5, <1>6 DEF Part

LEMMA PartConcat ==
  ASSUME NEW F, NEW P, NEW S, NEW C, NEW a, NEW b,
         NEW lo \in Int, NEW mid \in Int, NEW mid2 \in Int, NEW hi \in Int,
         lo <= mid2, mid <= mid2, mid <= hi,
         Part(a, lo, mid, F, P, S, C), Part(b, mid2, hi, F, P, S, C)
  PROVE  Part(a \o b, lo, hi, F, P, S, C)
<1>1. a \in Seq(Events) /\ b \in Seq(Events)
  BY DEF Part
<1>0. PICK c : c = a \o b
  OBVIOUS
<1>2. PICK m \in Nat, n \in Nat : m = Len(a) /\ n = Len(b) /\ c = a \o b
  BY <1>0, <1>1, ConcatFacts
<1>3. /\ c \in Seq(Events) /\ Len(c) = m + n
      /\ \A i \in 1..(m + n) : c[i] = IF i <= m THEN a[i] ELSE b[i - m]
  BY <1>1, <1>2, ConcatFacts
<1>4. /\ \A i \in 1..m : /\ Right(a[i], F, P, S, C)
                         /\ lo <= Rank(a[i]) /\ Rank(a[i]) <= mid
      /\ \A i \in 1..n : /\ Right(b[i], F, P, S, C)
                         /\ mid2 <= Rank(b[i]) /\ Rank(b[i]) <= hi
      /\ \A i, j \in 1..m : i < j => Rank(a[i]) <= Rank(a[j])
      /\ \A i, j \in 1..n : i < j => Rank(b[i]) <= Rank(b[j])
  BY <1>2 DEF Part, Sorted
<1>5. \A e : Rank(e) \in Int
  BY RankFacts
<1>6. ASSUME NEW i \in 1..(m + n)
      PROVE  /\ Right(c[i], F, P, S, C) /\ lo <= Rank(c[i]) /\ Rank(c[i]) <= hi
  <2>1. CASE i <= m
    <3>1. i \in 1..m /\ c[i] = a[i]
      BY <1>3, <2>1
    <3>2. Right(a[i], F, P, S, C) /\ lo <= Rank(a[i]) /\ Rank(a[i]) <= mid
      BY <1>4, <3>1
    <3>3. Rank(a[i]) <= hi
      BY <1>5, <3>2
    <3>. QED
      BY <3>1, <3>2, <3>3
  <2>2. CASE ~(i <= m)
    <3>1. i - m \in 1..n /\ c[i] = b[i - m]
      BY <1>3, <2>2
    <3>2. Right(b[i - m], F, P, S, C) /\ mid2 <= Rank(b[i - m])
          /\ Rank(b[i - m]) <= hi
      BY <1>4, <3>1
    <3>3. lo <= Rank(b[i - m])
      BY <1>5, <3>2
    <3>. QED
      BY <3>1, <3>2, <3>3
  <2>. QED
    BY <2>1, <2>2
<1>7. ASSUME NEW i \in 1..(m + n), NEW j \in 1..(m + n), i < j
      PROVE  Rank(c[i]) <= Rank(c[j])
  <2>1. CASE j <= m
    <3>1. i \in 1..m /\ j \in 1..m /\ c[i] = a[i] /\ c[j] = a[j]
      BY <1>3, <1>7, <2>1
    <3>. QED
      BY <1>4, <1>7, <3>1
  <2>2. CASE i <= m /\ ~(j <= m)
    <3>1. i \in 1..m /\ j - m \in 1..n /\ c[i] = a[i] /\ c[j] = b[j - m]
      BY <1>3, <2>2
    <3>2. Rank(a[i]) <= mid /\ mid2 <= Rank(b[j - m])
      BY <1>4, <3>1
    <3>3. Rank(a[i]) <= Rank(b[j - m])
      BY <1>5, <3>2
    <3>. QED
      BY <3>1, <3>3
  <2>3. CASE ~(i <= m)
    <3>1. i - m \in 1..n /\ j - m \in 1..n /\ i - m < j - m
          /\ c[i] = b[i - m] /\ c[j] = b[j - m]
      BY <1>3, <1>7, <2>3
    <3>. QED
      BY <1>4, <3>1
  <2>. QED
    BY <2>1, <2>2, <2>3
<1>8. Part(c, lo, hi, F, P, S, C)
  BY <1>3, <1>6, <1>7 DEF Part, Sorted
<1>. QED
  BY <1>2, <1>8

LEMMA PartWider ==
  ASSUME NEW F, NEW P, NEW S, NEW C, NEW a, NEW lo \in Int, NEW hi \in Int,
         NEW lo2 \in Int, NEW hi2 \in Int, lo2 <= lo, hi <= hi2,
         Part(a, lo, hi, F, P, S, C)
  PROVE  Part(a, lo2, hi2, F, P, S, C)
<1>1. \A e : Rank(e) \in Int
  BY RankFacts
<1>2. ASSUME NEW i \in 1..Len(a)
      PROVE  lo2 <= Rank(a[i]) /\ Rank(a[i]) <= hi2
  <2>1. lo <= Rank(a[i]) /\ Rank(a[i]) <= hi /\ Rank(a[i]) \in Int
    BY <1>1 DEF Part
  <2>. QED
    BY <2>1
<1>. QED
  BY <1>2 DEF Part

LEMMA OwnedConst ==
  ASSUME NEW q \in Seq(Events), NEW s \in Slots, NEW S, NEW F, NEW A,
         \A e \in ToSet(q) :
           /\ e.type # "ABS_MT_SLOT"
           /\ e.type = "ABS_MT_TRACKING_ID" => s = S
           /\ e.type = "ABS_MT_POSITION_X" => s \in ToSet(F) /\ e.value = A[s][1]
           /\ e.type = "ABS_MT_POSITION_Y" => s \in ToSet(F) /\ e.value = A[s][2]
  PROVE  Owned(q, s, s, S, F, A)
<1>1. PICK n \in Nat : n = Len(q) /\ DOMAIN q = 1..n
  OBVIOUS
<1>2. PICK o : o = [i \in 0..n |-> s]
  OBVIOUS
<1>3. o \in [0..n -> Slots] /\ \A i \in 0..n : o[i] = s
  BY <1>2
<1>4. 0 \in 0..n /\ n \in 0..n /\ \A i \in 1..n : i \in 0..n /\ i - 1 \in 0..n
  OBVIOUS
<1>5. \A i \in 1..n : q[i] \in ToSet(q)
  BY <1>1 DEF ToSet
<1>6. o[0] = s /\ o[n] = s /\ \A i \in 1..n : o[i] = s /\ o[i - 1] = s
  BY <1>3, <1>4
<1>7. ASSUME NEW i \in 1..n
      PROVE  /\ o[i] = IF q[i].type = "ABS_MT_SLOT" THEN q[i].value ELSE o[i - 1]
             /\ q[i].type = "ABS_MT_TRACKING_ID" => o[i] = S
             /\ q[i].type = "ABS_MT_POSITION_X" =>
                  o[i] \in ToSet(F) /\ q[i].value = A[o[i]][1]
             /\ q[i].type = "ABS_MT_POSITION_Y" =>
                  o[i] \in ToSet(F) /\ q[i].value = A[o[i]][2]
  <2>1. o[i] = s /\ o[i - 1] = s /\ q[i] \in ToSet(q)
    BY <1>5, <1>6
  <2>. QED
    BY <2>1
<1>8. Owners(q, o, s, s, S, F, A)
  BY <1>1, <1>3, <1>6, <1>7 DEF Owners
<1>. QED
  BY <1>8 DEF Owned

LEMMA OwnedConcat ==
  ASSUME NEW p \in Seq(Events), NEW q \in Seq(Events), NEW a, NEW b, NEW c,
         NEW S, NEW F, NEW A, Owned(p, a, b, S, F, A), Owned(q, b, c, S, F, A)
  PROVE  Owned(p \o q, a, c, S, F, A)
<1>0. PICK r : r = p \o q
  OBVIOUS
<1>1. PICK m \in Nat, n \in Nat : m = Len(p) /\ n = Len(q) /\ r = p \o q
  BY <1>0, ConcatFacts
<1>2. /\ r \in Seq(Events) /\ Len(r) = m + n
      /\ \A i \in 1..(m + n) : r[i] = IF i <= m THEN p[i] ELSE q[i - m]
  BY <1>1, ConcatFacts
<1>3. PICK u : Owners(p, u, a, b, S, F, A)
  BY DEF Owned
<1>4. PICK v : Owners(q, v, b, c, S, F, A)
  BY DEF Owned
<1>5. /\ u \in [0..m -> Slots] /\ u[0] = a /\ u[m] = b
      /\ \A i \in 1..m :
           /\ u[i] = IF p[i].type = "ABS_MT_SLOT" THEN p[i].value ELSE u[i - 1]
           /\ p[i].type = "ABS_MT_TRACKING_ID" => u[i] = S
           /\ p[i].type = "ABS_MT_POSITION_X" =>
                u[i] \in ToSet(F) /\ p[i].value = A[u[i]][1]
           /\ p[i].type = "ABS_MT_POSITION_Y" =>
                u[i] \in ToSet(F) /\ p[i].value = A[u[i]][2]
  BY <1>1, <1>3 DEF Owners
<1>6. /\ v \in [0..n -> Slots] /\ v[0] = b /\ v[n] = c
      /\ \A i \in 1..n :
           /\ v[i] = IF q[i].type = "ABS_MT_SLOT" THEN q[i].value ELSE v[i - 1]
           /\ q[i].type = "ABS_MT_TRACKING_ID" => v[i] = S
           /\ q[i].type = "ABS_MT_POSITION_X" =>
                v[i] \in ToSet(F) /\ q[i].value = A[v[i]][1]
           /\ q[i].type = "ABS_MT_POSITION_Y" =>
                v[i] \in ToSet(F) /\ q[i].value = A[v[i]][2]
  BY <1>1, <1>4 DEF Owners
<1>7. PICK o : o = [i \in 0..(m + n) |-> IF i <= m THEN u[i] ELSE v[i - m]]
  OBVIOUS
<1>8. \A i \in 0..(m + n) : o[i] = IF i <= m THEN u[i] ELSE v[i - m]
  BY <1>7
<1>9. /\ \A i \in 0..m : o[i] = u[i]
      /\ \A i \in 0..n : i + m \in 0..(m + n) /\ o[i + m] = v[i]
  <2>1. ASSUME NEW i \in 0..m PROVE o[i] = u[i]
    <3>1. i \in 0..(m + n) /\ i <= m
      OBVIOUS
    <3>. QED
      BY <1>8, <3>1
  <2>2. ASSUME NEW i \in 0..n PROVE i + m \in 0..(m + n) /\ o[i + m] = v[i]
    <3>1. i + m \in 0..(m + n) /\ (i + m) - m = i
      OBVIOUS
    <3>2. CASE i = 0
      <4>1. i + m = m /\ m \in 0..m
        BY <3>2
      <4>. QED
        BY <1>5, <1>6, <2>1, <3>1, <3>2, <4>1
    <3>3. CASE i # 0
      <4>1. ~(i + m <= m)
        BY <3>3
      <4>. QED
        BY <1>8, <3>1, <4>1
    <3>. QED
      BY <3>2, <3>3
  <2>. QED
    BY <2>1, <2>2
<1>10. o \in [0..(m + n) -> Slots]
  <2>1. ASSUME NEW i \in 0..(m + n) PROVE o[i] \in Slots
    <3>1. CASE i <= m
      <4>1. i \in 0..m
        BY <3>1
      <4>. QED
        BY <1>5, <1>9, <4>1
    <3>2. CASE ~(i <= m)
      <4>1. i - m \in 0..n /\ o[i] = v[i - m]
        BY <1>8, <3>2
      <4>. QED
        BY <1>6, <4>1
    <3>. QED
      BY <3>1, <3>2
  <2>. QED
    BY <1>7, <2>1
<1>11. o[0] = a /\ o[m + n] = c
  <2>1. 0 \in 0..m /\ n \in 0..n /\ n + m = m + n
    OBVIOUS
  <2>. QED
    BY <1>5, <1>6, <1>9, <2>1
<1>12. ASSUME NEW i \in 1..(m + n)
       PROVE  /\ o[i] = IF r[i].type = "ABS_MT_SLOT" THEN r[i].value ELSE o[i - 1]
              /\ r[i].type = "ABS_MT_TRACKING_ID" => o[i] = S
              /\ r[i].type = "ABS_MT_POSITION_X" =>
                   o[i] \in ToSet(F) /\ r[i].value = A[o[i]][1]
              /\ r[i].type = "ABS_MT_POSITION_Y" =>
                   o[i] \in ToSet(F) /\ r[i].value = A[o[i]][2]
  <2>1. CASE i <= m
    <3>1. i \in 1..m /\ i \in 0..m /\ i - 1 \in 0..m
      BY <2>1
    <3>2. o[i] = u[i] /\ o[i - 1] = u[i - 1]
      BY <1>9, <3>1
    <3>3. r[i] = p[i]
      BY <1>2, <2>1
    <3>. QED
      BY <1>5, <3>1, <3>2, <3>3
  <2>2. CASE ~(i <= m)
    <3>1. PICK j \in 1..n : j = i - m
      BY <2>2
    <3>2. j \in 0..n /\ j - 1 \in 0..n /\ j + m = i /\ (j - 1) + m = i - 1
      BY <3>1
    <3>3. o[i] = v[j] /\ o[i - 1] = v[j - 1]
      BY <1>9, <3>2
    <3>4. r[i] = q[j]
      BY <1>2, <2>2, <3>1
    <3>. QED
      BY <1>6, <3>1, <3>3, <3>4
  <2>. QED
    BY <2>1, <2>2
<1>13. Owners(r, o, a, c, S, F, A)
  BY <1>2, <1>10, <1>11, <1>12 DEF Owners
<1>. QED
  BY <1>1, <1>13 DEF Owned

\* A sequence of at most one event.
LEMMA WhenFacts ==
  ASSUME NEW e \in Events, NEW b \in BOOLEAN
  PROVE  /\ When(b, <<e>>) \in Seq(Events)
         /\ ToSet(When(b, <<e>>)) = IF b THEN {e} ELSE {}
         /\ b => When(b, <<e>>) = <<e>>
         /\ ~b => When(b, <<e>>) = <<>>
BY NilFacts, OneFacts DEF When

LEMMA WhenPart ==
  ASSUME NEW e, NEW b \in BOOLEAN, NEW F, NEW P, NEW S, NEW C,
         b => Right(e, F, P, S, C), NEW lo, lo = Rank(e)
  PROVE  Part(When(b, <<e>>), lo, lo, F, P, S, C)
BY PartNil, PartOne DEF When

\* The position in a slot's part of a frame.
LEMMA SlotAxes ==
  ASSUME NEW F, NEW P, NEW S, NEW C, NEW s \in Slots, NEW old \in Points,
         NEW A \in [Slots -> Points], s \in ToSet(F) \/ old = A[s],
         NEW q, q = Axes(old, A[s], "ABS_MT_POSITION_X", "ABS_MT_POSITION_Y")
  PROVE  /\ Part(q, 1, 1, F, P, S, C)
         /\ Owned(q, s, s, S, F, A)
         /\ \A e \in ToSet(q) : e.type \in {"ABS_MT_POSITION_X", "ABS_MT_POSITION_Y"}
<1>1. A[s][1] \in Int /\ A[s][2] \in Int
  BY PointFacts
<1>2. PICK x, y : /\ x = Event("ABS_MT_POSITION_X", A[s][1])
                  /\ y = Event("ABS_MT_POSITION_Y", A[s][2])
  OBVIOUS
<1>3. /\ x \in Events /\ x.type = "ABS_MT_POSITION_X" /\ x.value = A[s][1]
      /\ y \in Events /\ y.type = "ABS_MT_POSITION_Y" /\ y.value = A[s][2]
  <2>1. {"ABS_MT_POSITION_X", "ABS_MT_POSITION_Y"} \subseteq Types
    BY DEF Types, SlotTypes
  <2>. QED
    BY <1>1, <1>2, <2>1, EventFacts
<1>4. PICK b1, b2 \in BOOLEAN : /\ b1 = (old[1] # A[s][1])
                                /\ b2 = (old[2] # A[s][2])
  OBVIOUS
<1>5. PICK p, r : p = When(b1, <<x>>) /\ r = When(b2, <<y>>)
  OBVIOUS
<1>6. q = p \o r
  BY <1>2, <1>4, <1>5 DEF Axes
<1>7. Rank(x) = 1 /\ Rank(y) = 1
  BY <1>3, RankFacts DEF SlotTypes
<1>8. Right(x, F, P, S, C) /\ Right(y, F, P, S, C)
  <2>1. \A k \in 1..4 : x.type # Tools[k] /\ y.type # Tools[k]
    BY <1>3, ToolFacts DEF ToolTypes
  <2>. QED
    BY <1>3, <2>1 DEF Right
<1>9. Part(p, 1, 1, F, P, S, C) /\ Part(r, 1, 1, F, P, S, C)
  BY <1>5, <1>7, <1>8, WhenPart
<1>10. /\ p \in Seq(Events) /\ ToSet(p) = IF b1 THEN {x} ELSE {}
       /\ r \in Seq(Events) /\ ToSet(r) = IF b2 THEN {y} ELSE {}
  BY <1>3, <1>5, WhenFacts
<1>11. q \in Seq(Events) /\ ToSet(q) = ToSet(p) \cup ToSet(r)
  <2>1. p \o r \in Seq(Events) /\ ToSet(p \o r) = ToSet(p) \cup ToSet(r)
    BY <1>10, ConcatFacts
  <2>. QED
    BY <1>6, <2>1, Zenon
<1>12. Part(q, 1, 1, F, P, S, C)
  <2>1. Part(p \o r, 1, 1, F, P, S, C)
    BY <1>9, PartConcat
  <2>. QED
    BY <1>6, <2>1, Zenon
<1>13. ASSUME NEW e \in ToSet(q)
       PROVE  /\ e.type \in {"ABS_MT_POSITION_X", "ABS_MT_POSITION_Y"}
              /\ e.type = "ABS_MT_POSITION_X" => s \in ToSet(F) /\ e.value = A[s][1]
              /\ e.type = "ABS_MT_POSITION_Y" => s \in ToSet(F) /\ e.value = A[s][2]
  <2>1. (b1 /\ e = x) \/ (b2 /\ e = y)
    BY <1>10, <1>11
  <2>2. s \in ToSet(F)
    BY <1>4, <2>1
  <2>. QED
    BY <1>3, <2>1, <2>2
<1>14. Owned(q, s, s, S, F, A)
  BY <1>11, <1>13, OwnedConst
<1>. QED
  BY <1>12, <1>13, <1>14

NamesSlot(q) == q # <<>> /\ Head(q).type = "ABS_MT_SLOT"

\* The part of a frame about slot s, after that of slot `before`.
SlotIs(q, s, before, id, F, P, S, C, A) ==
  /\ q = SlotEvents(s, before, id, A[s])
  /\ s \in Slots /\ before \in Slots /\ A \in [Slots -> Points]
  /\ s \in ToSet(F) \/ at[s] = A[s]
  /\ id = <<>> \/
       \E e : /\ id = <<e>> /\ Right(e, F, P, S, C)
              /\ e.type = "ABS_MT_TRACKING_ID" /\ s = S

SlotSays(q, s, before, id, F, P, S, C, A) ==
  /\ Part(q, 1, 1, F, P, S, C)
  /\ Owned(q, before, s, S, F, A)
  /\ \A e \in ToSet(q) : e.type = "ABS_MT_TRACKING_ID" => e \in ToSet(id)
  /\ ToSet(id) \subseteq ToSet(q)
  /\ s # before => NamesSlot(q)

LEMMA SlotSaid ==
  ASSUME at \in [Slots -> Points],
         NEW q, NEW s, NEW before, NEW id, NEW F, NEW P, NEW S, NEW C, NEW A,
         SlotIs(q, s, before, id, F, P, S, C, A)
  PROVE  SlotSays(q, s, before, id, F, P, S, C, A)
<1>0. /\ q = SlotEvents(s, before, id, A[s])
      /\ s \in Slots /\ before \in Slots /\ A \in [Slots -> Points]
      /\ s \in ToSet(F) \/ at[s] = A[s]
      /\ id = <<>> \/
           \E e : /\ id = <<e>> /\ Right(e, F, P, S, C)
                  /\ e.type = "ABS_MT_TRACKING_ID" /\ s = S
  BY DEF SlotIs
<1>. USE <1>0
<1>1. PICK x : x = Event("ABS_MT_SLOT", s)
  OBVIOUS
<1>2. /\ x \in Events /\ x.type = "ABS_MT_SLOT" /\ x.value = s
      /\ Rank(x) = 1 /\ Right(x, F, P, S, C)
  <2>1. s \in Int /\ "ABS_MT_SLOT" \in Types /\ "ABS_MT_SLOT" \in SlotTypes
    BY DEF Slots, Types, SlotTypes
  <2>2. x \in Events /\ x.type = "ABS_MT_SLOT" /\ x.value = s
    BY <1>1, <2>1, EventFacts
  <2>3. \A k \in 1..4 : x.type # Tools[k]
    BY <2>2, ToolFacts DEF ToolTypes
  <2>. QED
    BY <2>1, <2>2, <2>3, RankFacts DEF Right
<1>3. PICK b \in BOOLEAN : b = (s # before)
  OBVIOUS
<1>4. PICK p, r : /\ p = When(b, <<x>>)
                  /\ r = Axes(at[s], A[s], "ABS_MT_POSITION_X", "ABS_MT_POSITION_Y")
  OBVIOUS
<1>5. q = (p \o id) \o r
  BY <1>1, <1>3, <1>4 DEF SlotEvents
<1>6. /\ p \in Seq(Events) /\ ToSet(p) = IF b THEN {x} ELSE {}
      /\ Part(p, 1, 1, F, P, S, C)
  BY <1>2, <1>4, WhenFacts, WhenPart
<1>7. Owned(p, before, s, S, F, A)
  <2>1. CASE ~b
    <3>1. p = <<>> /\ before = s
      BY <1>2, <1>3, <1>4, <2>1, WhenFacts
    <3>. QED
      BY <3>1, OwnedNil
  <2>2. CASE b
    <3>1. p = <<x>> /\ Len(p) = 1 /\ p[1] = x
      BY <1>2, <1>4, <2>2, WhenFacts, OneFacts
    <3>2. PICK o : o = [i \in 0..1 |-> IF i = 0 THEN before ELSE s]
      OBVIOUS
    <3>3. o \in [0..1 -> Slots] /\ o[0] = before /\ o[1] = s
      BY <3>2
    <3>4. \A i \in 1..1 : i = 1 /\ p[i] = x /\ o[i] = s
      BY <3>1, <3>3
    <3>5. Owners(p, o, before, s, S, F, A)
      BY <1>2, <3>1, <3>3, <3>4 DEF Owners
    <3>. QED
      BY <3>5 DEF Owned
  <2>. QED
    BY <2>1, <2>2
<1>8. /\ id \in Seq(Events) /\ Part(id, 1, 1, F, P, S, C)
      /\ \A e \in ToSet(id) : e.type = "ABS_MT_TRACKING_ID" /\ s = S
  <2>1. CASE id = <<>>
    BY <2>1, NilFacts, PartNil
  <2>2. CASE id # <<>>
    <3>1. PICK e : /\ id = <<e>> /\ Right(e, F, P, S, C)
                   /\ e.type = "ABS_MT_TRACKING_ID" /\ s = S
      BY <2>2
    <3>2. Rank(e) = 1 /\ e \in Events
      BY <3>1, RankFacts DEF SlotTypes, Right
    <3>3. Part(id, 1, 1, F, P, S, C)
      BY <3>1, <3>2, PartOne
    <3>. QED
      BY <3>1, <3>2, <3>3, OneFacts
  <2>. QED
    BY <2>1, <2>2
<1>9. Owned(id, s, s, S, F, A)
  BY <1>8, OwnedConst
<1>10. /\ r \in Seq(Events) /\ Part(r, 1, 1, F, P, S, C) /\ Owned(r, s, s, S, F, A)
       /\ \A e \in ToSet(r) : e.type \in {"ABS_MT_POSITION_X", "ABS_MT_POSITION_Y"}
  <2>1. at[s] \in Points
    OBVIOUS
  <2>2. Part(r, 1, 1, F, P, S, C) /\ Owned(r, s, s, S, F, A)
        /\ \A e \in ToSet(r) : e.type \in {"ABS_MT_POSITION_X", "ABS_MT_POSITION_Y"}
    BY <1>4, <2>1, SlotAxes
  <2>. QED
    BY <2>2 DEF Part
<1>11. /\ p \o id \in Seq(Events) /\ ToSet(p \o id) = ToSet(p) \cup ToSet(id)
       /\ Part(p \o id, 1, 1, F, P, S, C)
       /\ Owned(p \o id, before, s, S, F, A)
  <2>1. p \o id \in Seq(Events) /\ ToSet(p \o id) = ToSet(p) \cup ToSet(id)
    BY <1>6, <1>8, ConcatFacts
  <2>2. Part(p \o id, 1, 1, F, P, S, C)
    BY <1>6, <1>8, PartConcat
  <2>3. Owned(p \o id, before, s, S, F, A)
    BY <1>6, <1>7, <1>8, <1>9, OwnedConcat
  <2>. QED
    BY <2>1, <2>2, <2>3
<1>12. Part(q, 1, 1, F, P, S, C) /\ Owned(q, before, s, S, F, A)
  <2>1. PICK t : t = p \o id
    OBVIOUS
  <2>2. /\ t \in Seq(Events) /\ Part(t, 1, 1, F, P, S, C)
        /\ Owned(t, before, s, S, F, A)
    BY <1>11, <2>1, Zenon
  <2>3. Part(t \o r, 1, 1, F, P, S, C)
    BY <1>10, <2>2, PartConcat
  <2>4. Owned(t \o r, before, s, S, F, A)
    BY <1>10, <2>2, OwnedConcat
  <2>. QED
    BY <1>5, <2>1, <2>3, <2>4, Zenon
<1>13. /\ q \in Seq(Events) /\ ToSet(q) = (ToSet(p) \cup ToSet(id)) \cup ToSet(r)
       /\ Len(q) = (Len(p) + Len(id)) + Len(r)
       /\ Len(p) \in Nat /\ Len(id) \in Nat /\ Len(r) \in Nat
       /\ Len(p) > 0 => q[1] = p[1]
  <2>1. PICK t : t = p \o id
    OBVIOUS
  <2>2. /\ t \in Seq(Events) /\ Len(t) = Len(p) + Len(id)
        /\ Len(p) \in Nat /\ Len(id) \in Nat
        /\ \A i \in 1..(Len(p) + Len(id)) :
              t[i] = IF i <= Len(p) THEN p[i] ELSE id[i - Len(p)]
    BY <1>6, <1>8, <2>1, ConcatFacts
  <2>3. /\ q \in Seq(Events) /\ Len(q) = Len(t) + Len(r) /\ Len(r) \in Nat
        /\ \A i \in 1..(Len(t) + Len(r)) :
              q[i] = IF i <= Len(t) THEN t[i] ELSE r[i - Len(t)]
        /\ ToSet(q) = ToSet(t) \cup ToSet(r)
    <3>1. PICK u : u = t \o r
      OBVIOUS
    <3>2. /\ u \in Seq(Events) /\ Len(u) = Len(t) + Len(r) /\ Len(r) \in Nat
          /\ \A i \in 1..(Len(t) + Len(r)) :
                u[i] = IF i <= Len(t) THEN t[i] ELSE r[i - Len(t)]
          /\ ToSet(u) = ToSet(t) \cup ToSet(r)
      BY <1>10, <2>2, <3>1, ConcatFacts
    <3>3. q = u
      BY <1>5, <2>1, <3>1, Zenon
    <3>. QED
      BY <3>2, <3>3
  <2>4. Len(p) > 0 => q[1] = p[1]
    BY <2>2, <2>3
  <2>. QED
    BY <1>11, <2>1, <2>2, <2>3, <2>4
<1>14. \A e \in ToSet(q) : e.type = "ABS_MT_TRACKING_ID" => e \in ToSet(id)
  BY <1>2, <1>6, <1>10, <1>13
<1>15. ASSUME s # before PROVE NamesSlot(q)
  <2>1. p = <<x>> /\ Len(p) = 1 /\ p[1] = x
    BY <1>2, <1>3, <1>4, <1>15, WhenFacts, OneFacts
  <2>2. Len(q) # 0 /\ q[1] = x
    BY <1>13, <2>1
  <2>3. q # <<>>
    BY <1>13, <2>2, NilFacts
  <2>. QED
    BY <1>2, <1>13, <2>2, <2>3, TailFacts DEF NamesSlot
<1>. QED
  BY <1>12, <1>13, <1>14, <1>15 DEF SlotSays

\* Two parts of a frame, one after the other.
Ranks(lo, mid, mid2, hi) ==
  /\ lo \in Int /\ mid \in Int /\ mid2 \in Int /\ hi \in Int
  /\ lo <= mid2 /\ mid <= mid2 /\ mid <= hi

Joined(c, a, b) == ToSet(c) = ToSet(a) \cup ToSet(b)

LEMMA FrameRanks ==
  /\ Ranks(2, 2, 3, 3) /\ Ranks(2, 3, 3, 3) /\ Ranks(1, 1, 2, 3)
  /\ Ranks(1, 3, 4, 4) /\ Ranks(1, 4, 5, 5) /\ Ranks(4, 4, 4, 4)
BY DEF Ranks

LEMMA TwoParts ==
  ASSUME NEW F, NEW P, NEW S, NEW C, NEW a, NEW b,
         NEW lo, NEW mid, NEW mid2, NEW hi, Ranks(lo, mid, mid2, hi),
         Part(a, lo, mid, F, P, S, C), Part(b, mid2, hi, F, P, S, C)
  PROVE  Part(a \o b, lo, hi, F, P, S, C)
BY PartConcat DEF Ranks

LEMMA AddTools ==
  ASSUME NEW F, NEW P, NEW S, NEW C, NEW a, NEW b,
         Part(a, 2, 3, F, P, S, C), Part(b, 3, 3, F, P, S, C)
  PROVE  Part(a \o b, 2, 3, F, P, S, C)
<1>1. Ranks(2, 3, 3, 3)
  BY FrameRanks
<1>. QED
  BY <1>1, TwoParts

\* What both parts hold.
LEMMA JoinedSets ==
  ASSUME NEW F, NEW P, NEW S, NEW C, NEW a, NEW b,
         NEW lo, NEW mid, NEW mid2, NEW hi,
         Part(a, lo, mid, F, P, S, C), Part(b, mid2, hi, F, P, S, C)
  PROVE  Joined(a \o b, a, b)
<1>1. a \in Seq(Events) /\ b \in Seq(Events)
  BY DEF Part
<1>2. ToSet(a \o b) = ToSet(a) \cup ToSet(b)
  BY <1>1, ConcatFacts
<1>. QED
  BY <1>2 DEF Joined

LEMMA ToolPart ==
  ASSUME NEW F \in Seq(Slots), NEW P, NEW S, NEW C, NEW m \in Nat,
         NEW k \in 1..4
  PROVE  /\ Part(ToolEvents(k, m, Len(F)), 3, 3, F, P, S, C)
         /\ ToSet(ToolEvents(k, m, Len(F))) =
              IF (m = k) # (Len(F) = k)
              THEN {Event(Tools[k], IF Len(F) = k THEN 1 ELSE 0)} ELSE {}
<1>1. PICK n \in Nat : n = Len(F)
  BY LenProperties
<1>2. PICK v \in {0, 1} : v = IF n = k THEN 1 ELSE 0
  OBVIOUS
<1>3. PICK x : x = Event(Tools[k], v)
  OBVIOUS
<1>4. Tools[k] \in ToolTypes /\ Tools[k] \in Types
  BY ToolFacts DEF Types
<1>5. x \in Events /\ x.type = Tools[k] /\ x.value = v /\ Rank(x) = 3
  <2>1. x \in Events /\ x.type = Tools[k] /\ x.value = v
    BY <1>2, <1>3, <1>4, EventFacts
  <2>. QED
    BY <1>4, <2>1, RankFacts
<1>6. Right(x, F, P, S, C)
  <2>1. \A j \in 1..4 : x.type = Tools[j] => j = k
    BY <1>5, ToolFacts
  <2>2. x.type \notin {"ABS_MT_SLOT", "ABS_MT_TRACKING_ID", "BTN_TOUCH", "ABS_X",
                       "ABS_Y", "BTN_LEFT"}
    BY <1>4, <1>5 DEF ToolTypes
  <2>. QED
    BY <1>1, <1>2, <1>5, <2>1, <2>2 DEF Right
<1>7. PICK b \in BOOLEAN : b = ((m = k) # (n = k))
  OBVIOUS
<1>8. ToolEvents(k, m, Len(F)) = When(b, <<x>>)
  BY <1>1, <1>2, <1>3, <1>7 DEF ToolEvents
<1>9. Part(When(b, <<x>>), 3, 3, F, P, S, C)
  BY <1>5, <1>6, WhenPart
<1>10. ToSet(When(b, <<x>>)) = IF b THEN {x} ELSE {}
  BY <1>5, WhenFacts
<1>. QED
  BY <1>1, <1>2, <1>3, <1>7, <1>8, <1>9, <1>10

\* The events for the number of fingers, which was m.
LEMMA CountPart ==
  ASSUME NEW F \in Seq(Slots), NEW P, NEW S, NEW C, NEW m \in Nat,
         NEW q, q = CountEvents(m, Len(F))
  PROVE  /\ Part(q, 2, 3, F, P, S, C)
         /\ \A e \in ToSet(q) : e.type \in {"BTN_TOUCH"} \cup ToolTypes
         /\ m = Len(F) => ToSet(q) = {}
         /\ m # Len(F) /\ Len(F) \in 1..4 => Event(Tools[Len(F)], 1) \in ToSet(q)
         /\ m # 0 /\ Len(F) = 0 => Event("BTN_TOUCH", 0) \in ToSet(q)
         /\ \A e \in ToSet(q) : e \in Activating => m = 0 /\ Len(F) # 0
<1>1. PICK n \in Nat : n = Len(F)
  BY LenProperties
<1>2. PICK v \in {0, 1} : v = IF n = 0 THEN 0 ELSE 1
  OBVIOUS
<1>3. PICK x : x = Event("BTN_TOUCH", v)
  OBVIOUS
<1>4. x \in Events /\ x.type = "BTN_TOUCH" /\ x.value = v /\ Rank(x) = 2
  <2>1. "BTN_TOUCH" \in Types
    BY DEF Types
  <2>2. x \in Events /\ x.type = "BTN_TOUCH" /\ x.value = v
    BY <1>2, <1>3, <2>1, EventFacts
  <2>. QED
    BY <2>2, RankFacts
<1>5. Right(x, F, P, S, C)
  <2>1. \A j \in 1..4 : x.type # Tools[j]
    BY <1>4, ToolFacts DEF ToolTypes
  <2>2. n = 0 <=> F = <<>>
    BY <1>1, EmptySeq
  <2>. QED
    BY <1>2, <1>4, <2>1, <2>2 DEF Right
<1>6. PICK b \in BOOLEAN : b = ((m = 0) # (n = 0))
  OBVIOUS
<1>7. PICK p, t1, t2, t3, t4 :
        /\ p = When(b, <<x>>)
        /\ t1 = ToolEvents(1, m, n) /\ t2 = ToolEvents(2, m, n)
        /\ t3 = ToolEvents(3, m, n) /\ t4 = ToolEvents(4, m, n)
  OBVIOUS
<1>8. CountEvents(m, n) = (((p \o t1) \o t2) \o t3) \o t4
  BY <1>2, <1>3, <1>6, <1>7 DEF CountEvents
<1>9. Part(p, 2, 3, F, P, S, C) /\ ToSet(p) = IF b THEN {x} ELSE {}
  <2>1. Part(p, 2, 2, F, P, S, C) /\ ToSet(p) = IF b THEN {x} ELSE {}
    BY <1>4, <1>5, <1>7, WhenPart, WhenFacts
  <2>2. Part(p, 2, 3, F, P, S, C)
    BY <2>1, PartWider
  <2>. QED
    BY <2>1, <2>2
<1>10. /\ Part(t1, 3, 3, F, P, S, C) /\ Part(t2, 3, 3, F, P, S, C)
       /\ Part(t3, 3, 3, F, P, S, C) /\ Part(t4, 3, 3, F, P, S, C)
  <2>1. \A k \in 1..4 : Part(ToolEvents(k, m, n), 3, 3, F, P, S, C)
    BY <1>1, ToolPart
  <2>2. 1 \in 1..4 /\ 2 \in 1..4 /\ 3 \in 1..4 /\ 4 \in 1..4
    OBVIOUS
  <2>. QED
    BY <1>7, <2>1, <2>2
<1>11. Part(p \o t1, 2, 3, F, P, S, C) /\ ToSet(p \o t1) = ToSet(p) \cup ToSet(t1)
  <2>1. Part(p \o t1, 2, 3, F, P, S, C)
    BY <1>9, <1>10, AddTools
  <2>2. Joined(p \o t1, p, t1)
    BY <1>9, <1>10, JoinedSets
  <2>. QED
    BY <2>1, <2>2 DEF Joined
<1>12. /\ Part((p \o t1) \o t2, 2, 3, F, P, S, C)
       /\ ToSet((p \o t1) \o t2) = ToSet(p) \cup ToSet(t1) \cup ToSet(t2)
  <2>1. PICK r : r = p \o t1
    OBVIOUS
  <2>2. Part(r, 2, 3, F, P, S, C) /\ ToSet(r) = ToSet(p) \cup ToSet(t1)
    BY <1>11, <2>1, Zenon
  <2>3. Part(r \o t2, 2, 3, F, P, S, C) /\ ToSet(r \o t2) = ToSet(r) \cup ToSet(t2)
    <3>1. Part(r \o t2, 2, 3, F, P, S, C)
      BY <1>10, <2>2, AddTools
    <3>2. Joined(r \o t2, r, t2)
      BY <1>10, <2>2, JoinedSets
    <3>. QED
      BY <3>1, <3>2 DEF Joined
  <2>. QED
    BY <2>1, <2>2, <2>3, Zenon
<1>13. /\ Part(((p \o t1) \o t2) \o t3, 2, 3, F, P, S, C)
       /\ ToSet(((p \o t1) \o t2) \o t3) =
            ToSet(p) \cup ToSet(t1) \cup ToSet(t2) \cup ToSet(t3)
  <2>1. PICK r : r = (p \o t1) \o t2
    OBVIOUS
  <2>2. Part(r, 2, 3, F, P, S, C)
        /\ ToSet(r) = ToSet(p) \cup ToSet(t1) \cup ToSet(t2)
    BY <1>12, <2>1, Zenon
  <2>3. Part(r \o t3, 2, 3, F, P, S, C) /\ ToSet(r \o t3) = ToSet(r) \cup ToSet(t3)
    <3>1. Part(r \o t3, 2, 3, F, P, S, C)
      BY <1>10, <2>2, AddTools
    <3>2. Joined(r \o t3, r, t3)
      BY <1>10, <2>2, JoinedSets
    <3>. QED
      BY <3>1, <3>2 DEF Joined
  <2>. QED
    BY <2>1, <2>2, <2>3, Zenon
<1>14. /\ Part(q, 2, 3, F, P, S, C)
       /\ ToSet(q) = ToSet(p) \cup ToSet(t1) \cup ToSet(t2) \cup ToSet(t3)
                        \cup ToSet(t4)
  <2>1. PICK r : r = ((p \o t1) \o t2) \o t3
    OBVIOUS
  <2>2. /\ Part(r, 2, 3, F, P, S, C)
        /\ ToSet(r) = ToSet(p) \cup ToSet(t1) \cup ToSet(t2) \cup ToSet(t3)
    BY <1>13, <2>1, Zenon
  <2>3. Part(r \o t4, 2, 3, F, P, S, C) /\ ToSet(r \o t4) = ToSet(r) \cup ToSet(t4)
    <3>1. Part(r \o t4, 2, 3, F, P, S, C)
      BY <1>10, <2>2, AddTools
    <3>2. Joined(r \o t4, r, t4)
      BY <1>10, <2>2, JoinedSets
    <3>. QED
      BY <3>1, <3>2 DEF Joined
  <2>4. q = r \o t4
    BY <1>1, <1>8, <2>1, Zenon
  <2>. QED
    BY <2>2, <2>3, <2>4, Zenon
<1>15. PICK T : T = [k \in 1..4 |-> ToSet(ToolEvents(k, m, n))]
  OBVIOUS
<1>16. \A k \in 1..4 : T[k] = IF (m = k) # (n = k)
                             THEN {Event(Tools[k], IF n = k THEN 1 ELSE 0)} ELSE {}
  <2>1. ASSUME NEW k \in 1..4
        PROVE  T[k] = IF (m = k) # (n = k)
                      THEN {Event(Tools[k], IF n = k THEN 1 ELSE 0)} ELSE {}
    <3>1. ToSet(ToolEvents(k, m, Len(F))) =
            IF (m = k) # (Len(F) = k)
            THEN {Event(Tools[k], IF Len(F) = k THEN 1 ELSE 0)} ELSE {}
      BY ToolPart, Zenon
    <3>2. T[k] = ToSet(ToolEvents(k, m, n))
      BY <1>15
    <3>. QED
      BY <1>1, <3>1, <3>2, Zenon
  <2>. QED
    BY <2>1
<1>17. ToSet(t1) = T[1] /\ ToSet(t2) = T[2] /\ ToSet(t3) = T[3] /\ ToSet(t4) = T[4]
  BY <1>7, <1>15
<1>18. ToSet(q) = ToSet(p) \cup UNION {T[k] : k \in 1..4}
  <2>1. \A k \in 1..4 : k = 1 \/ k = 2 \/ k = 3 \/ k = 4
    OBVIOUS
  <2>2. 1 \in 1..4 /\ 2 \in 1..4 /\ 3 \in 1..4 /\ 4 \in 1..4
    OBVIOUS
  <2>. QED
    BY <1>14, <1>17, <2>1, <2>2
<1>19. ASSUME NEW e \in ToSet(q)
       PROVE  (b /\ e = x) \/
              \E k \in 1..4 : /\ (m = k) # (n = k)
                              /\ e = Event(Tools[k], IF n = k THEN 1 ELSE 0)
  <2>1. CASE e \in ToSet(p)
    BY <1>9, <2>1
  <2>2. CASE e \notin ToSet(p)
    <3>1. PICK k \in 1..4 : e \in T[k]
      BY <1>18, <2>2
    <3>. QED
      BY <1>16, <3>1
  <2>. QED
    BY <2>1, <2>2
<1>20. \A k \in 1..4 : \A w \in Int :
         Event(Tools[k], w).type \in ToolTypes
  BY ToolFacts DEF Event
<1>21. ASSUME NEW e \in ToSet(q)
       PROVE  /\ e.type \in {"BTN_TOUCH"} \cup ToolTypes
              /\ m # n
              /\ e \in Activating => m = 0 /\ n # 0
  <2>1. CASE b /\ e = x
    <3>1. m # n /\ (n # 0 => m = 0)
      BY <1>6, <2>1
    <3>2. n = 0 => e.type = "BTN_TOUCH" /\ e.value = 0
      BY <1>2, <1>4, <2>1
    <3>3. e \in Activating => n # 0
      BY <3>2 DEF Activating, Event
    <3>. QED
      BY <1>4, <2>1, <3>1, <3>3
  <2>2. CASE ~(b /\ e = x)
    <3>1. PICK k \in 1..4 : /\ (m = k) # (n = k)
                            /\ e = Event(Tools[k], IF n = k THEN 1 ELSE 0)
      BY <1>19, <2>2
    <3>2. e.type \in ToolTypes
      BY <1>20, <3>1
    <3>3. e \notin Activating
      BY <3>2 DEF Activating, Event, ToolTypes
    <3>. QED
      BY <3>1, <3>2, <3>3
  <2>. QED
    BY <2>1, <2>2
<1>22. ASSUME m # n, n \in 1..4 PROVE Event(Tools[n], 1) \in ToSet(q)
  <2>1. T[n] = {Event(Tools[n], 1)}
    BY <1>16, <1>22
  <2>. QED
    BY <1>18, <1>22, <2>1
<1>23. ASSUME m # 0, n = 0 PROVE Event("BTN_TOUCH", 0) \in ToSet(q)
  <2>1. b /\ x = Event("BTN_TOUCH", 0)
    BY <1>2, <1>3, <1>6, <1>23
  <2>. QED
    BY <1>9, <1>18, <2>1
<1>24. m = n => ToSet(q) = {}
  BY <1>21
<1>. QED
  BY <1>1, <1>14, <1>21, <1>22, <1>23, <1>24

\* The position of the pointer.
LEMMA AbsPart ==
  ASSUME NEW F, NEW P \in Points, NEW S, NEW C, NEW old \in Points,
         NEW q, q = Axes(old, P, "ABS_X", "ABS_Y")
  PROVE  /\ Part(q, 4, 4, F, P, S, C)
         /\ \A e \in ToSet(q) : e.type \in {"ABS_X", "ABS_Y"}
         /\ old[1] # P[1] => Event("ABS_X", P[1]) \in ToSet(q)
         /\ old[2] # P[2] => Event("ABS_Y", P[2]) \in ToSet(q)
<1>1. P[1] \in Int /\ P[2] \in Int
  BY PointFacts
<1>2. PICK x, y : x = Event("ABS_X", P[1]) /\ y = Event("ABS_Y", P[2])
  OBVIOUS
<1>3. /\ x \in Events /\ x.type = "ABS_X" /\ x.value = P[1]
      /\ y \in Events /\ y.type = "ABS_Y" /\ y.value = P[2]
  <2>1. {"ABS_X", "ABS_Y"} \subseteq Types
    BY DEF Types
  <2>. QED
    BY <1>1, <1>2, <2>1, EventFacts
<1>4. PICK b1, b2 \in BOOLEAN : b1 = (old[1] # P[1]) /\ b2 = (old[2] # P[2])
  OBVIOUS
<1>5. PICK p, r : p = When(b1, <<x>>) /\ r = When(b2, <<y>>)
  OBVIOUS
<1>6. q = p \o r
  BY <1>2, <1>4, <1>5 DEF Axes
<1>7. Rank(x) = 4 /\ Rank(y) = 4
  BY <1>3 DEF Rank, SlotTypes, ToolTypes
<1>8. Right(x, F, P, S, C) /\ Right(y, F, P, S, C)
  <2>1. \A k \in 1..4 : x.type # Tools[k] /\ y.type # Tools[k]
    BY <1>3, ToolFacts DEF ToolTypes
  <2>. QED
    BY <1>3, <2>1 DEF Right
<1>9. Part(p, 4, 4, F, P, S, C) /\ Part(r, 4, 4, F, P, S, C)
  BY <1>5, <1>7, <1>8, WhenPart
<1>10. /\ ToSet(p) = IF b1 THEN {x} ELSE {}
       /\ ToSet(r) = IF b2 THEN {y} ELSE {}
  BY <1>3, <1>5, WhenFacts
<1>11. Joined(p \o r, p, r)
  BY <1>9, JoinedSets
<1>12. Part(p \o r, 4, 4, F, P, S, C)
  <2>1. Ranks(4, 4, 4, 4)
    BY FrameRanks
  <2>. QED
    BY <1>9, <2>1, TwoParts
<1>13. ToSet(q) = ToSet(p) \cup ToSet(r) /\ Part(q, 4, 4, F, P, S, C)
  <2>1. PICK t : t = p \o r
    OBVIOUS
  <2>2. Joined(t, p, r) /\ Part(t, 4, 4, F, P, S, C)
    BY <1>11, <1>12, <2>1, Zenon
  <2>3. ToSet(t) = ToSet(p) \cup ToSet(r)
    BY <2>2 DEF Joined
  <2>. QED
    BY <1>6, <2>1, <2>2, <2>3, Zenon
<1>. QED
  BY <1>2, <1>3, <1>4, <1>10, <1>13

\* Parts of a frame that are about no slot.
LEMMA OwnedRest ==
  ASSUME NEW F, NEW P, NEW S, NEW C, NEW lo, NEW hi, NEW A, NEW s \in Slots,
         NEW q, Part(q, lo, hi, F, P, S, C),
         \A e \in ToSet(q) : e.type \notin SlotTypes
  PROVE  Owned(q, s, s, S, F, A)
<1>1. q \in Seq(Events)
  BY DEF Part
<1>2. ASSUME NEW e \in ToSet(q)
      PROVE  e.type \notin {"ABS_MT_SLOT", "ABS_MT_TRACKING_ID",
                            "ABS_MT_POSITION_X", "ABS_MT_POSITION_Y"}
  BY DEF SlotTypes
<1>. QED
  BY <1>1, <1>2, OwnedConst

LEMMA SynFacts ==
  ASSUME NEW F, NEW P, NEW S, NEW C
  PROVE  /\ Part(Syn, 5, 5, F, P, S, C) /\ Len(Syn) = 1 /\ Syn[1].type = "SYN"
         /\ \A e \in ToSet(Syn) : e.type = "SYN"
<1>1. PICK x : x = Event("SYN", 0)
  OBVIOUS
<1>2. x \in Events /\ x.type = "SYN"
  <2>1. "SYN" \in Types
    BY DEF Types
  <2>. QED
    BY <1>1, <2>1, EventFacts
<1>3. Rank(x) = 5
  BY <1>2, RankFacts
<1>4. Right(x, F, P, S, C)
  <2>1. \A k \in 1..4 : x.type # Tools[k]
    BY <1>2, ToolFacts DEF ToolTypes
  <2>. QED
    BY <1>2, <2>1 DEF Right
<1>5. Syn = <<x>>
  BY <1>1 DEF Syn
<1>6. Part(<<x>>, 5, 5, F, P, S, C)
  BY <1>3, <1>4, PartOne
<1>7. Len(<<x>>) = 1 /\ <<x>>[1] = x /\ ToSet(<<x>>) = {x}
  BY <1>2, OneFacts
<1>. QED
  BY <1>2, <1>5, <1>6, <1>7

\* The end of a frame.
LEMMA SynEnds ==
  ASSUME NEW F, NEW P, NEW S, NEW C, NEW p, Part(p, 1, 4, F, P, S, C)
  PROVE  /\ Part(p \o Syn, 1, 5, F, P, S, C)
         /\ \A i \in 1..Len(p \o Syn) :
              Rank((p \o Syn)[i]) = 5 <=> i = Len(p \o Syn)
         /\ Len(p \o Syn) = Len(p) + 1 /\ Len(p) \in Nat
         /\ Len(p) > 0 => (p \o Syn)[1] = p[1]
         /\ Joined(p \o Syn, p, Syn)
<1>1. p \in Seq(Events) /\ Syn \in Seq(Events)
  BY SynFacts DEF Part
<1>0. PICK r : r = p \o Syn
  OBVIOUS
<1>2. PICK n \in Nat : n = Len(p) /\ r = p \o Syn
  BY <1>0, <1>1, ConcatFacts
<1>3. /\ r \in Seq(Events) /\ Len(r) = n + 1
      /\ \A i \in 1..(n + 1) : r[i] = IF i <= n THEN p[i] ELSE Syn[i - n]
  <2>1. /\ r \in Seq(Events) /\ Len(r) = Len(p) + Len(Syn)
        /\ \A i \in 1..(Len(p) + Len(Syn)) :
             r[i] = IF i <= Len(p) THEN p[i] ELSE Syn[i - Len(p)]
    BY <1>1, <1>2, ConcatFacts
  <2>2. Len(Syn) = 1
    BY SynFacts
  <2>. QED
    BY <1>2, <2>1, <2>2
<1>4. Part(p \o Syn, 1, 5, F, P, S, C)
  <2>1. Ranks(1, 4, 5, 5)
    BY FrameRanks
  <2>. QED
    BY <2>1, TwoParts, SynFacts
<1>5. ASSUME NEW i \in 1..(n + 1)
      PROVE  Rank(r[i]) = 5 <=> i = n + 1
  <2>1. CASE i <= n
    <3>1. i \in 1..n /\ r[i] = p[i]
      BY <1>3, <2>1
    <3>2. Rank(p[i]) <= 4 /\ Rank(p[i]) \in Int
      BY <1>2, <3>1, RankFacts DEF Part
    <3>. QED
      BY <2>1, <3>1, <3>2
  <2>2. CASE ~(i <= n)
    <3>1. i = n + 1 /\ i - n = 1
      BY <2>2
    <3>2. r[i] = Syn[1]
      BY <1>3, <2>2, <3>1
    <3>3. Rank(Syn[1]) = 5
      BY SynFacts, RankFacts
    <3>. QED
      BY <3>1, <3>2, <3>3
  <2>. QED
    BY <2>1, <2>2
<1>6. n > 0 => r[1] = p[1]
  BY <1>3
<1>7. Joined(p \o Syn, p, Syn)
  BY <1>1, ConcatFacts DEF Joined
<1>8. \A i \in 1..Len(r) : Rank(r[i]) = 5 <=> i = Len(r)
  BY <1>3, <1>5
<1>. QED
  BY <1>2, <1>3, <1>4, <1>6, <1>7, <1>8

\* A frame for fingers F, pointer P, that were m fingers and `old`.
FrameIs(q, se, m, F, P, old) ==
  q = ((se \o CountEvents(m, Len(F))) \o Axes(old, P, "ABS_X", "ABS_Y")) \o Syn

\* Its slots' part, that goes from slot a to slot b.
SlotsPart(se, a, b, m, F, P, S, C, A) ==
  /\ Len(F) <= m + 1 /\ Part(se, 1, 1, F, P, S, C)
  /\ b \in Slots /\ Owned(se, a, b, S, F, A)
  /\ \A e \in ToSet(se) : e \in Activating => Len(F) = m + 1

Framed(q, se, m, F, P, old) ==
  /\ q # <<>> /\ ToSet(se) \subseteq ToSet(q)
  /\ \A e \in ToSet(q) : /\ e \in ToSet(se) \/ e.type \notin SlotTypes
                         /\ e.type # "BTN_LEFT"
                         /\ e \in Activating => Len(F) = m + 1
  /\ m = Len(F) => \A e \in ToSet(q) : e.type \notin {"BTN_TOUCH"} \cup ToolTypes
  /\ m # Len(F) /\ Len(F) \in 1..4 => Event(Tools[Len(F)], 1) \in ToSet(q)
  /\ m # 0 /\ Len(F) = 0 => Event("BTN_TOUCH", 0) \in ToSet(q)
  /\ old[1] # P[1] => Event("ABS_X", P[1]) \in ToSet(q)
  /\ old[2] # P[2] => Event("ABS_Y", P[2]) \in ToSet(q)
  /\ se # <<>> => Head(q) = Head(se)

\* What its slots' part says of them is all a frame says.
LEMMA FramePart ==
  ASSUME NEW F \in Seq(Slots), NEW P \in Points, NEW old \in Points,
         NEW S, NEW C, NEW A, NEW m \in Nat, NEW a, NEW b, NEW se, NEW q,
         SlotsPart(se, a, b, m, F, P, S, C, A), FrameIs(q, se, m, F, P, old)
  PROVE  /\ Rest(q, F, P, S, C) /\ Owned(q, a, b, S, F, A)
         /\ Framed(q, se, m, F, P, old)
<1>0. /\ Len(F) <= m + 1 /\ Part(se, 1, 1, F, P, S, C)
      /\ b \in Slots /\ Owned(se, a, b, S, F, A)
      /\ \A e \in ToSet(se) : e \in Activating => Len(F) = m + 1
  BY DEF SlotsPart
<1>1. PICK n \in Nat : n = Len(F)
  BY LenProperties
<1>2. PICK c, x : /\ c = CountEvents(m, n)
                  /\ x = Axes(old, P, "ABS_X", "ABS_Y")
  OBVIOUS
<1>3. /\ Part(c, 2, 3, F, P, S, C)
      /\ \A e \in ToSet(c) : e.type \in {"BTN_TOUCH"} \cup ToolTypes
      /\ m = n => ToSet(c) = {}
      /\ m # n /\ n \in 1..4 => Event(Tools[n], 1) \in ToSet(c)
      /\ m # 0 /\ n = 0 => Event("BTN_TOUCH", 0) \in ToSet(c)
      /\ \A e \in ToSet(c) : e \in Activating => m = 0 /\ n # 0
  BY <1>1, <1>2, CountPart
<1>4. /\ Part(x, 4, 4, F, P, S, C)
      /\ \A e \in ToSet(x) : e.type \in {"ABS_X", "ABS_Y"}
      /\ old[1] # P[1] => Event("ABS_X", P[1]) \in ToSet(x)
      /\ old[2] # P[2] => Event("ABS_Y", P[2]) \in ToSet(x)
  BY <1>2, AbsPart
<1>5. PICK p : p = se \o c
  OBVIOUS
<1>6. PICK r : r = p \o x
  OBVIOUS
<1>7. q = r \o Syn
  BY <1>1, <1>2, <1>5, <1>6 DEF FrameIs
<1>8. Part(p, 1, 3, F, P, S, C) /\ Joined(p, se, c)
  <2>1. Ranks(1, 1, 2, 3)
    BY FrameRanks
  <2>2. Part(se \o c, 1, 3, F, P, S, C) /\ Joined(se \o c, se, c)
    BY <1>0, <1>3, <2>1, TwoParts, JoinedSets
  <2>. QED
    BY <1>5, <2>2, Zenon
<1>9. Part(r, 1, 4, F, P, S, C) /\ Joined(r, p, x)
  <2>1. Ranks(1, 3, 4, 4)
    BY FrameRanks
  <2>2. Part(p \o x, 1, 4, F, P, S, C) /\ Joined(p \o x, p, x)
    BY <1>4, <1>8, <2>1, TwoParts, JoinedSets
  <2>. QED
    BY <1>6, <2>2, Zenon
<1>10. /\ Part(q, 1, 5, F, P, S, C)
       /\ \A i \in 1..Len(q) : Rank(q[i]) = 5 <=> i = Len(q)
       /\ Len(q) = Len(r) + 1 /\ Len(r) \in Nat
       /\ Len(r) > 0 => q[1] = r[1]
       /\ Joined(q, r, Syn)
  <2>1. PICK t : t = r \o Syn
    OBVIOUS
  <2>2. /\ Part(t, 1, 5, F, P, S, C)
        /\ \A i \in 1..Len(t) : Rank(t[i]) = 5 <=> i = Len(t)
        /\ Len(t) = Len(r) + 1 /\ Len(r) \in Nat
        /\ Len(r) > 0 => t[1] = r[1]
        /\ Joined(t, r, Syn)
    BY <1>9, <2>1, SynEnds
  <2>3. q = t
    BY <1>7, <2>1, Zenon
  <2>. QED
    BY <2>2, <2>3
<1>11. ToSet(q) = ((ToSet(se) \cup ToSet(c)) \cup ToSet(x)) \cup ToSet(Syn)
  BY <1>8, <1>9, <1>10 DEF Joined
<1>12. /\ se \in Seq(Events) /\ c \in Seq(Events) /\ p \in Seq(Events)
       /\ x \in Seq(Events) /\ r \in Seq(Events) /\ q \in Seq(Events)
       /\ Syn \in Seq(Events)
  BY <1>0, <1>3, <1>4, <1>8, <1>9, <1>10, SynFacts DEF Part
<1>13. \A e \in ToSet(c) \cup ToSet(x) \cup ToSet(Syn) :
         e.type \in {"BTN_TOUCH", "ABS_X", "ABS_Y", "SYN"} \cup ToolTypes
  BY <1>3, <1>4, SynFacts
<1>14. \A e \in ToSet(c) \cup ToSet(x) \cup ToSet(Syn) :
         e.type \notin SlotTypes /\ e.type # "BTN_LEFT"
  BY <1>13 DEF SlotTypes, ToolTypes
<1>15. \A e \in ToSet(se) : Rank(e) = 1
  <2>1. DOMAIN se = 1..Len(se)
    BY <1>12
  <2>2. ASSUME NEW e \in ToSet(se) PROVE Rank(e) = 1
    <3>1. PICK i \in 1..Len(se) : e = se[i]
      BY <2>1 DEF ToSet
    <3>2. 1 <= Rank(e) /\ Rank(e) <= 1 /\ Rank(e) \in 1..5
      BY <1>0, <3>1, RankFacts DEF Part
    <3>. QED
      BY <3>2
  <2>. QED
    BY <2>2
<1>16. \A e \in ToSet(se) : e.type \in SlotTypes
  BY <1>15, RankFacts
<1>17. \A e \in ToSet(se) : e.type # "BTN_LEFT"
                           /\ e.type \notin {"BTN_TOUCH"} \cup ToolTypes
  BY <1>16 DEF SlotTypes, ToolTypes
<1>18. ASSUME NEW e \in ToSet(q), e \in Activating PROVE n = m + 1
  <2>1. CASE e \in ToSet(se)
    BY <1>0, <1>1, <1>18, <2>1
  <2>2. CASE e \in ToSet(c)
    BY <1>0, <1>1, <1>3, <1>18, <2>2
  <2>3. CASE e \in ToSet(x) \cup ToSet(Syn)
    <3>1. e.type \in {"ABS_X", "ABS_Y", "SYN"}
      BY <1>4, <2>3, SynFacts
    <3>. QED
      BY <1>18, <3>1 DEF Activating, Event
  <2>. QED
    BY <1>11, <2>1, <2>2, <2>3
<1>19. \A e \in ToSet(q) : e.type # "BTN_LEFT"
  BY <1>11, <1>14, <1>17
<1>20. Rest(q, F, P, S, C)
  <2>1. DOMAIN q = 1..Len(q)
    BY <1>12
  <2>2. \A i \in 1..Len(q) : q[i] \in ToSet(q)
    BY <2>1 DEF ToSet
  <2>3. \A i \in 1..Len(q) : q[i].type # "BTN_LEFT"
    BY <1>19, <2>2
  <2>4. ASSUME NEW i \in 1..Len(q), q[i] \in Activating
        PROVE  n > 0 /\ (n <= 4 => Event(Tools[n], 1) \in ToSet(q))
    <3>1. n = m + 1
      BY <1>18, <2>2, <2>4
    <3>2. n # m /\ n > 0 /\ (n <= 4 => n \in 1..4)
      BY <3>1
    <3>. QED
      BY <1>3, <1>11, <3>2
  <2>. QED
    BY <1>1, <1>10, <2>3, <2>4 DEF Rest
<1>21. Owned(q, a, b, S, F, A)
  <2>1. /\ Owned(c, b, b, S, F, A) /\ Owned(x, b, b, S, F, A)
        /\ Owned(Syn, b, b, S, F, A)
    BY <1>0, <1>3, <1>4, <1>14, SynFacts, OwnedRest
  <2>2. Owned(p, a, b, S, F, A)
    <3>1. Owned(se \o c, a, b, S, F, A)
      BY <1>0, <1>12, <2>1, OwnedConcat
    <3>. QED
      BY <1>5, <3>1, Zenon
  <2>3. Owned(r, a, b, S, F, A)
    <3>1. Owned(p \o x, a, b, S, F, A)
      BY <1>12, <2>1, <2>2, OwnedConcat
    <3>. QED
      BY <1>6, <3>1, Zenon
  <2>4. Owned(r \o Syn, a, b, S, F, A)
    BY <1>12, <2>1, <2>3, OwnedConcat
  <2>. QED
    BY <1>7, <2>4, Zenon
<1>22. ASSUME se # <<>> PROVE Head(q) = Head(se)
  <2>1. PICK i \in Nat, j \in Nat, k \in Nat : i = Len(se) /\ j = Len(c) /\ k = Len(x)
    BY <1>12
  <2>2. i # 0
    BY <1>12, <1>22, <2>1, NilFacts
  <2>3. Len(p) = i + j /\ p[1] = se[1]
    BY <1>5, <1>12, <2>1, <2>2, ConcatFacts
  <2>4. Len(r) = (i + j) + k /\ r[1] = p[1]
    <3>1. PICK t : t = p \o x
      OBVIOUS
    <3>2. /\ Len(t) = Len(p) + Len(x)
          /\ \A l \in 1..(Len(p) + Len(x)) :
               t[l] = IF l <= Len(p) THEN p[l] ELSE x[l - Len(p)]
      BY <1>12, <3>1, ConcatFacts
    <3>3. 1 \in 1..(Len(p) + Len(x)) /\ 1 <= Len(p)
      BY <2>1, <2>2, <2>3
    <3>4. t[1] = p[1]
      BY <3>2, <3>3
    <3>5. r = t
      BY <1>6, <3>1, Zenon
    <3>. QED
      BY <2>1, <2>3, <3>2, <3>4, <3>5
  <2>5. q[1] = se[1] /\ Len(q) # 0
    BY <1>10, <2>1, <2>2, <2>3, <2>4
  <2>6. q # <<>>
    BY <1>12, <2>5, NilFacts
  <2>. QED
    BY <1>12, <1>22, <2>5, <2>6, TailFacts
<1>23. q # <<>>
  <2>1. Len(q) # 0
    BY <1>10
  <2>. QED
    BY <1>12, <2>1, NilFacts
<1>24. m = n => \A e \in ToSet(q) : e.type \notin {"BTN_TOUCH"} \cup ToolTypes
  <2>1. \A e \in ToSet(x) \cup ToSet(Syn) : e.type \in {"ABS_X", "ABS_Y", "SYN"}
    BY <1>4, SynFacts
  <2>2. \A e \in ToSet(x) \cup ToSet(Syn) :
          e.type \notin {"BTN_TOUCH"} \cup ToolTypes
    BY <2>1 DEF ToolTypes
  <2>. QED
    BY <1>3, <1>11, <1>17, <2>2
<1>25. /\ ToSet(se) \subseteq ToSet(q)
       /\ \A e \in ToSet(q) : e \in ToSet(se) \/ e.type \notin SlotTypes
  BY <1>11, <1>14
<1>26. \A e \in ToSet(q) : e \in Activating => n = m + 1
  BY <1>18
<1>27. /\ m # n /\ n \in 1..4 => Event(Tools[n], 1) \in ToSet(q)
       /\ m # 0 /\ n = 0 => Event("BTN_TOUCH", 0) \in ToSet(q)
       /\ old[1] # P[1] => Event("ABS_X", P[1]) \in ToSet(q)
       /\ old[2] # P[2] => Event("ABS_Y", P[2]) \in ToSet(q)
  BY <1>3, <1>4, <1>11
<1>28. Framed(q, se, m, F, P, old)
  BY <1>1, <1>19, <1>22, <1>23, <1>24, <1>25, <1>26, <1>27 DEF Framed
<1>. QED
  BY <1>20, <1>21, <1>28

-----------------------------------------------------------------------------
(* The kernel's steps keep BaseInv.                                          *)

Pointed(F2, at2) == IF F2 = <<>> THEN pointer ELSE at2[F2[1]]

\* What is asked of the slots' part of a frame.
Says(se, F2, at2, s2) ==
  /\ F2 \in Seq(Slots) /\ IsInjective(F2) /\ Len(F2) <= Len(fingers) + 1
  /\ at2 \in [Slots -> Points] /\ s2 \in Slots
  /\ Part(se, 1, 1, F2, Pointed(F2, at2), s2, clicked)
  /\ Owned(se, slot, s2, s2, F2, at2)
  /\ \A e \in ToSet(se) : e \in Activating => Len(F2) = Len(fingers) + 1
  /\ \A s \in ToSet(fingers) :
       s \in ToSet(F2) \/
       (s = s2 /\ Event("ABS_MT_TRACKING_ID", -1) \in ToSet(se))

\* At rest the kernel and the worker mean the same slot, unless it is lost.
LEMMA AtRest ==
  ASSUME BaseInv, pipe = <<>>
  PROVE  /\ slot = active_slot \/ Lost
         /\ Pending = {} /\ slots \subseteq ToSet(fingers)
         /\ btn_touch => fingers # <<>>
         /\ Active \/ (cur = NoPoint /\ finger_count = 0)
         /\ fingers \in Seq(Slots) /\ IsInjective(fingers)
<1>1. Pending = {}
  BY NilFacts DEF Pending
<1>2. PICK k \in Slots : Owned(<<>>, k, slot, slot, fingers, at)
                         /\ (k = active_slot \/ Lost)
  BY DEF BaseInv, PipeInv
<1>3. slot \in Slots
  BY DEF BaseInv, PadInv
<1>4. k = slot
  BY <1>2, <1>3, OwnedNil
<1>5. TouchRest
  BY DEF BaseInv, TouchInv
<1>6. /\ \A s \in slots : s \in ToSet(fingers)
      /\ btn_touch => fingers # <<>>
      /\ Active \/ (cur = NoPoint /\ finger_count = 0)
  BY <1>1, <1>5 DEF TouchRest
<1>. QED
  BY <1>1, <1>2, <1>4, <1>6 DEF BaseInv, PadInv

\* What is pending after a frame.
LEMMA FrameSays ==
  ASSUME BaseInv, pipe = <<>>, NEW se, NEW F2, NEW at2, NEW s2,
         Frame(se, F2, at2), slot' = s2, Says(se, F2, at2, s2)
  PROVE  /\ Rest(pipe', F2, pointer', s2, clicked')
         /\ Owned(pipe', slot, s2, s2, F2, at2) /\ pipe' # <<>>
         /\ fingers' = F2 /\ at' = at2 /\ pointer' = Pointed(F2, at2)
         /\ pointer' \in Points /\ clicked' = clicked
         /\ ToSet(se) \subseteq Pending'
         /\ \A e \in Pending' : /\ e \in ToSet(se) \/ e.type \notin SlotTypes
                                /\ e.type # "BTN_LEFT"
                                /\ e \in Activating => Len(F2) = Len(fingers) + 1
         /\ Len(fingers) = Len(F2) =>
              \A e \in Pending' : e.type \notin {"BTN_TOUCH"} \cup ToolTypes
         /\ Len(fingers) # Len(F2) /\ Len(F2) \in 1..4 =>
              Event(Tools[Len(F2)], 1) \in Pending'
         /\ fingers # <<>> /\ F2 = <<>> => Event("BTN_TOUCH", 0) \in Pending'
         /\ pointer[1] # pointer'[1] => Event("ABS_X", pointer'[1]) \in Pending'
         /\ pointer[2] # pointer'[2] => Event("ABS_Y", pointer'[2]) \in Pending'
         /\ se # <<>> => Head(pipe') = Head(se)
<1>1. /\ fingers' = F2 /\ at' = at2 /\ pointer' = Pointed(F2, at2)
      /\ clicked' = clicked
      /\ pipe' = ((se \o CountEvents(Len(fingers), Len(F2)))
                    \o Axes(pointer, pointer', "ABS_X", "ABS_Y")) \o Syn
  BY DEF Frame, Pointed
<1>2. /\ F2 \in Seq(Slots) /\ at2 \in [Slots -> Points] /\ s2 \in Slots
      /\ Len(F2) <= Len(fingers) + 1
      /\ Part(se, 1, 1, F2, pointer', s2, clicked)
      /\ Owned(se, slot, s2, s2, F2, at2)
      /\ \A e \in ToSet(se) : e \in Activating => Len(F2) = Len(fingers) + 1
  BY <1>1 DEF Says
<1>3. pointer \in Points /\ fingers \in Seq(Slots)
  BY DEF BaseInv, PadInv
<1>4. pointer' \in Points
  <2>1. CASE F2 = <<>>
    BY <1>1, <1>3, <2>1 DEF Pointed
  <2>2. CASE F2 # <<>>
    <3>1. F2[1] \in Slots
      BY <1>2, <2>2, TailFacts
    <3>. QED
      BY <1>1, <1>2, <2>2, <3>1 DEF Pointed
  <2>. QED
    BY <2>1, <2>2
<1>5. PICK m \in Nat : m = Len(fingers)
  BY <1>3
<1>0. PICK q : q = pipe'
  OBVIOUS
<1>6. PICK P \in Points, old \in Points :
        P = pointer' /\ old = pointer /\ q = pipe'
  BY <1>0, <1>3, <1>4
<1>7. FrameIs(q, se, m, F2, P, old)
  BY <1>1, <1>5, <1>6 DEF FrameIs
<1>8. /\ Rest(q, F2, P, s2, clicked) /\ Owned(q, slot, s2, s2, F2, at2)
      /\ Framed(q, se, m, F2, P, old)
  <2>1. SlotsPart(se, slot, s2, m, F2, P, s2, clicked, at2)
    BY <1>2, <1>5, <1>6 DEF SlotsPart
  <2>. QED
    BY <1>2, <1>7, <2>1, FramePart
<1>9. ToSet(q) = Pending'
  BY <1>6 DEF Pending
<1>10. (F2 = <<>> <=> Len(F2) = 0) /\ (fingers = <<>> <=> m = 0)
  BY <1>2, <1>3, <1>5, NilFacts
<1>. QED
  BY <1>1, <1>4, <1>5, <1>6, <1>8, <1>9, <1>10 DEF Framed

LEMMA FrameBase ==
  ASSUME BaseInv, pipe = <<>>, NEW se, NEW F2, NEW at2, NEW s2,
         Frame(se, F2, at2), slot' = s2, Says(se, F2, at2, s2),
         crossed' \in BOOLEAN, steady' \in BOOLEAN,
         ~crossed' /\ 0 \in ToSet(F2) => F2[1] = 0,
         Lost => slot = active_slot \/ crossed' \/ F2 = <<>> \/
                   NamesSlot(se),
         steady' => steady,
         clicked /\ steady' =>
           /\ Len(F2) = Len(fingers)
           /\ \A e \in ToSet(se) : e.type # "ABS_MT_TRACKING_ID"
  PROVE  BaseInv'
<1>1. /\ Rest(pipe', F2, pointer', s2, clicked')
      /\ Owned(pipe', slot, s2, s2, F2, at2) /\ pipe' # <<>>
      /\ fingers' = F2 /\ at' = at2 /\ pointer' = Pointed(F2, at2)
      /\ pointer' \in Points /\ clicked' = clicked
      /\ ToSet(se) \subseteq Pending'
      /\ \A e \in Pending' : /\ e \in ToSet(se) \/ e.type \notin SlotTypes
                             /\ e.type # "BTN_LEFT"
      /\ Len(fingers) = Len(F2) =>
           \A e \in Pending' : e.type \notin {"BTN_TOUCH"} \cup ToolTypes
      /\ fingers # <<>> /\ F2 = <<>> => Event("BTN_TOUCH", 0) \in Pending'
      /\ se # <<>> => Head(pipe') = Head(se)
  BY FrameSays
<1>2. UNCHANGED <<clicked, touch, pending_scroll, forwarded, held_buttons>>
  BY DEF Frame
<1>3. /\ F2 \in Seq(Slots) /\ IsInjective(F2) /\ at2 \in [Slots -> Points]
      /\ s2 \in Slots
      /\ \A s \in ToSet(fingers) :
           s \in ToSet(F2) \/
           (s = s2 /\ Event("ABS_MT_TRACKING_ID", -1) \in ToSet(se))
  BY DEF Says
<1>4. /\ slot = active_slot \/ Lost
      /\ Pending = {} /\ slots \subseteq ToSet(fingers)
      /\ btn_touch => fingers # <<>>
      /\ Active \/ (cur = NoPoint /\ finger_count = 0)
  BY AtRest
<1>5. PadInv /\ TouchType /\ TouchRest /\ HeldInv
  BY DEF BaseInv, TouchInv
<1>6. PadInv'
  <2>1. clicked' \in BOOLEAN /\ forwarded' \in BOOLEAN
    BY <1>2, <1>5 DEF PadInv
  <2>2. fingers' # <<>> => pointer' = at'[fingers'[1]]
    BY <1>1 DEF Pointed
  <2>. QED
    BY <1>1, <1>3, <2>1, <2>2 DEF PadInv
<1>7. PipeInv'
  <2>1. slot \in Slots
    BY <1>5 DEF PadInv
  <2>2. active_slot' = active_slot /\ slots' = slots
    BY <1>2 DEF touch
  <2>3. slot = active_slot' \/ Lost'
    <3>1. CASE slot = active_slot
      BY <2>2, <3>1
    <3>2. CASE Lost /\ slot # active_slot
      <4>1. active_slot' = 0 /\ slots' \subseteq {0}
        BY <2>2, <3>2 DEF Lost
      <4>2. crossed' \/ fingers' = <<>>
              \/ (pipe' # <<>> /\ Head(pipe').type = "ABS_MT_SLOT")
        BY <1>1, <3>2 DEF NamesSlot
      <4>. QED
        BY <4>1, <4>2 DEF Lost
    <3>. QED
      BY <1>4, <3>1, <3>2
  <2>4. Rest(pipe', fingers', pointer', slot', clicked')
    BY <1>1
  <2>5. Owned(pipe', slot, slot', slot', fingers', at')
    BY <1>1
  <2>. QED
    BY <2>1, <2>3, <2>4, <2>5 DEF PipeInv
<1>8. TouchInv'
  <2>1. TouchType'
    BY <1>2, <1>5 DEF TouchType, touch
  <2>2. /\ slots' = slots /\ btn_touch' = btn_touch /\ cur' = cur /\ last' = last
        /\ (Active' <=> Active)
    BY <1>2 DEF touch, Active, TouchActive
  <2>3. \A s \in slots' :
          s \in ToSet(fingers') \/
          (s = slot' /\ Event("ABS_MT_TRACKING_ID", -1) \in Pending')
    BY <1>1, <1>3, <1>4, <2>2
  <2>4. btn_touch' => fingers' # <<>> \/ Event("BTN_TOUCH", 0) \in Pending'
    BY <1>1, <1>4, <2>2
  <2>5. ~(pipe' = <<>> \/ (\E e \in Pending' : e.type = "BTN_LEFT"))
    BY <1>1
  <2>6. last' # None => /\ Active' /\ last' \in [1..2 -> Coordinates]
                        /\ None \notin {cur'[1], cur'[2]}
    BY <1>5, <2>2 DEF TouchRest
  <2>7. TouchRest'
    BY <2>3, <2>4, <2>5, <2>6 DEF TouchRest
  <2>. QED
    BY <2>1, <2>7 DEF TouchInv
<1>9. HeldInv'
  <2>1. /\ held_buttons' = held_buttons /\ forwarded' = forwarded
        /\ Button' = Button /\ finger_count' = finger_count
        /\ (Active' <=> Active) /\ clicked' = clicked
    BY <1>2 DEF touch, Button, Active, TouchActive
  <2>2. ASSUME steady', held_buttons' # {}
        PROVE  /\ forwarded' /\ held_buttons' = {Button'} /\ clicked'
               /\ \A e \in Pending' : e.type # "BTN_LEFT"
               /\ Active' \/ finger_count' = 0
               /\ \A e \in Pending' :
                    e.type \notin {"ABS_MT_TRACKING_ID", "BTN_TOUCH"} \cup ToolTypes
    <3>1. steady /\ held_buttons = {Button} /\ clicked /\ forwarded
      BY <1>4, <1>5, <2>1, <2>2 DEF HeldInv
    <3>2. Len(F2) = Len(fingers)
      BY <2>2, <3>1
    <3>3. \A e \in Pending' : e.type # "ABS_MT_TRACKING_ID"
      BY <1>1, <2>2, <3>1 DEF SlotTypes
    <3>4. \A e \in Pending' : e.type \notin {"BTN_TOUCH"} \cup ToolTypes
      BY <1>1, <3>2
    <3>5. \A e \in Pending' : e.type # "BTN_LEFT"
      BY <1>1
    <3>. QED
      BY <1>4, <2>1, <3>1, <3>3, <3>4, <3>5
  <2>3. held_buttons' \subseteq {"Left", "Right"}
    BY <1>5, <2>1 DEF HeldInv
  <2>. QED
    BY <2>2, <2>3 DEF HeldInv
<1>. QED
  BY <1>6, <1>7, <1>8, <1>9 DEF BaseInv

\* A set of numbers has a least one.
LEMMA LeastNumber ==
  ASSUME NEW S, S \subseteq Nat, S # {}
  PROVE  \E x \in S : \A y \in S : x <= y
<1>. DEFINE R == OpToRel(<, Nat)
<1>1. \A x, y \in Nat : x < y => <<x, y>> \in R
  BY DEF OpToRel
<1>2. IsWellFoundedOn(R, Nat)
  BY NatLessThanWellFounded
<1>. HIDE DEF R
<1>3. PICK x \in S : \A y \in S : <<y, x>> \notin R
  BY <1>2, WFMin
<1>4. ASSUME NEW y \in S PROVE x <= y
  <2>1. x \in Nat /\ y \in Nat /\ ~(y < x)
    BY <1>1, <1>3
  <2>. QED
    BY <2>1
<1>. QED
  BY <1>4

LEMMA SetInduction ==
  ASSUME NEW S, 0 \in S, \A n \in Nat : n \in S => n + 1 \in S
  PROVE  Nat \subseteq S
<1>1. SUFFICES ASSUME Nat \ S # {} PROVE FALSE
  OBVIOUS
<1>2. PICK x \in Nat \ S : \A y \in Nat \ S : x <= y
  BY <1>1, LeastNumber
<1>3. x - 1 \in Nat /\ x - 1 \in S
  BY <1>2
<1>. QED
  BY <1>2, <1>3

\* The fingers when one has landed.
LEMMA AddedFinger ==
  ASSUME NEW d \in Seq(Slots), IsInjective(d), NEW s \in Slots, s \notin ToSet(d)
  PROVE  LET e == Append(d, s) IN
         /\ e \in Seq(Slots) /\ IsInjective(e)
         /\ ToSet(e) = ToSet(d) \cup {s} /\ Len(e) = Len(d) + 1
         /\ e[1] = IF d = <<>> THEN s ELSE d[1]
<1>1. PICK n \in Nat : n = Len(d) /\ DOMAIN d = 1..n
  OBVIOUS
<1>2. PICK e : e = Append(d, s)
  OBVIOUS
<1>3. /\ e \in Seq(Slots) /\ Len(e) = n + 1 /\ DOMAIN e = 1..(n + 1)
      /\ \A i \in 1..n : e[i] = d[i]
      /\ e[n + 1] = s
  BY <1>1, <1>2, AppendProperties
<1>4. \A i \in 1..(n + 1) : i \in 1..n \/ i = n + 1
  BY <1>1
<1>5. \A i \in 1..n : d[i] \in ToSet(d)
  BY <1>1 DEF ToSet
<1>6. IsInjective(e)
  <2>1. ASSUME NEW i \in 1..(n + 1), NEW j \in 1..(n + 1), e[i] = e[j]
        PROVE  i = j
    <3>1. CASE i \in 1..n /\ j \in 1..n
      BY <1>1, <1>3, <2>1, <3>1 DEF IsInjective
    <3>2. CASE i = n + 1 /\ j \in 1..n
      BY <1>3, <1>5, <2>1, <3>2
    <3>3. CASE i \in 1..n /\ j = n + 1
      BY <1>3, <1>5, <2>1, <3>3
    <3>. QED
      BY <1>4, <3>1, <3>2, <3>3
  <2>. QED
    BY <1>3, <2>1 DEF IsInjective
<1>7. ToSet(e) = ToSet(d) \cup {s}
  <2>1. ASSUME NEW i \in 1..(n + 1) PROVE e[i] \in ToSet(d) \cup {s}
    BY <1>3, <1>4, <1>5
  <2>2. ASSUME NEW i \in 1..n PROVE d[i] \in ToSet(e)
    <3>1. i \in 1..(n + 1) /\ e[i] = d[i]
      BY <1>1, <1>3
    <3>. QED
      BY <1>3, <3>1 DEF ToSet
  <2>3. s \in ToSet(e)
    <3>1. n + 1 \in 1..(n + 1)
      BY <1>1
    <3>. QED
      BY <1>3, <3>1 DEF ToSet
  <2>. QED
    BY <1>1, <1>3, <2>1, <2>2, <2>3 DEF ToSet
<1>8. e[1] = IF d = <<>> THEN s ELSE d[1]
  <2>1. d = <<>> <=> n = 0
    BY <1>1, NilFacts
  <2>2. n # 0 => 1 \in 1..n
    BY <1>1
  <2>. QED
    BY <1>3, <2>1, <2>2
<1>. QED
  BY <1>1, <1>2, <1>3, <1>6, <1>7, <1>8

\* ... and when the i-th has been lifted.
LEMMA RemovedFinger ==
  ASSUME NEW d \in Seq(Slots), IsInjective(d), NEW i \in DOMAIN d
  PROVE  LET e == RemoveAt(d, i) IN
         /\ e \in Seq(Slots) /\ IsInjective(e)
         /\ ToSet(e) = ToSet(d) \ {d[i]} /\ Len(e) = Len(d) - 1
         /\ e # <<>> => e[1] = IF i = 1 THEN d[2] ELSE d[1]
<1>1. PICK n \in Nat : n = Len(d) /\ DOMAIN d = 1..n /\ i \in 1..n
  OBVIOUS
<1>2. PICK a, b, e : /\ a = SubSeq(d, 1, i - 1) /\ b = SubSeq(d, i + 1, n)
                     /\ e = a \o b
  OBVIOUS
<1>3. /\ a \in Seq(Slots) /\ Len(a) = i - 1
      /\ \A j \in 1..(i - 1) : a[j] = d[j]
      /\ b \in Seq(Slots) /\ Len(b) = n - i
      /\ \A j \in 1..(n - i) : b[j] = d[i + j]
  <2>1. i - 1 \in 0..n /\ n - i \in Nat /\ 1 + (i - 1) = i /\ i + 1 \in 1..(n + 1)
    BY <1>1
  <2>2. a \in Seq(Slots) /\ Len(a) = i - 1 /\ \A j \in 1..(i - 1) : a[j] = d[j]
    <3>1. a = SubSeq(d, 1, i - 1) /\ i - 1 \in Nat /\ i - 1 <= Len(d)
      BY <1>1, <1>2
    <3>2. Len(a) = i - 1 /\ \A j \in 1..(i - 1) : a[j] = d[j]
      BY <3>1
    <3>3. a \in Seq(Slots)
      BY <3>1, SubSeqProperties
    <3>. QED
      BY <3>2, <3>3
  <2>3. b \in Seq(Slots) /\ Len(b) = n - i
    BY <1>1, <1>2, <2>1
  <2>4. ASSUME NEW j \in 1..(n - i) PROVE b[j] = d[i + j]
    <3>1. i + 1 + j - 1 = i + j /\ j \in 1..(n - (i + 1) + 1)
      BY <1>1
    <3>2. \A k \in 1..(n - (i + 1) + 1) : b[k] = d[i + 1 + k - 1]
      <4>1. PICK m \in Int : m = i + 1
        BY <1>1
      <4>2. b = SubSeq(d, m, n) /\ n \in Int /\ \A k \in m..n : d[k] \in Slots
        BY <1>1, <1>2, <4>1
      <4>3. \A k \in 1..(n - m + 1) : b[k] = d[m + k - 1]
        BY <4>2, SubSeqProperties
      <4>. QED
        BY <4>1, <4>3
    <3>. QED
      BY <3>1, <3>2
  <2>. QED
    BY <2>2, <2>3, <2>4
<1>4. /\ e \in Seq(Slots) /\ Len(e) = n - 1 /\ DOMAIN e = 1..(n - 1)
      /\ \A j \in 1..(n - 1) : e[j] = IF j <= i - 1 THEN a[j] ELSE b[j - (i - 1)]
  <2>0. a \in Seq(Slots) /\ b \in Seq(Slots) /\ e = a \o b
    BY <1>2, <1>3
  <2>1. /\ e \in Seq(Slots) /\ Len(e) = Len(a) + Len(b)
        /\ \A j \in 1..(Len(a) + Len(b)) :
             e[j] = IF j <= Len(a) THEN a[j] ELSE b[j - Len(a)]
    BY <2>0, ConcatProperties
  <2>2. Len(a) = i - 1 /\ Len(a) + Len(b) = n - 1
    <3>1. Len(a) = i - 1 /\ Len(b) = n - i
      BY <1>3
    <3>2. (i - 1) + (n - i) = n - 1
      BY <1>1
    <3>. QED
      BY <3>1, <3>2
  <2>. QED
    BY <2>1, <2>2
<1>5. ASSUME NEW j \in 1..(n - 1)
      PROVE  e[j] = IF j < i THEN d[j] ELSE d[j + 1]
  <2>1. CASE j < i
    <3>1. j \in 1..(i - 1) /\ j <= i - 1
      BY <1>1, <2>1
    <3>. QED
      BY <1>3, <1>4, <2>1, <3>1
  <2>2. CASE ~(j < i)
    <3>1. j - (i - 1) \in 1..(n - i) /\ ~(j <= i - 1) /\ i + (j - (i - 1)) = j + 1
      BY <1>1, <2>2
    <3>. QED
      BY <1>3, <1>4, <2>2, <3>1
  <2>. QED
    BY <2>1, <2>2
<1>6. ASSUME NEW j \in 1..(n - 1)
      PROVE  \E k \in 1..n : k # i /\ e[j] = d[k] /\ k = IF j < i THEN j ELSE j + 1
  BY <1>1, <1>5
<1>7. IsInjective(e)
  <2>1. ASSUME NEW j \in 1..(n - 1), NEW k \in 1..(n - 1), e[j] = e[k]
        PROVE  j = k
    <3>1. PICK x \in 1..n : e[j] = d[x] /\ x = IF j < i THEN j ELSE j + 1
      BY <1>6
    <3>2. PICK y \in 1..n : e[k] = d[y] /\ y = IF k < i THEN k ELSE k + 1
      BY <1>6
    <3>3. x = y
      BY <1>1, <2>1, <3>1, <3>2 DEF IsInjective
    <3>. QED
      BY <1>1, <3>1, <3>2, <3>3
  <2>. QED
    BY <1>4, <2>1 DEF IsInjective
<1>8. ToSet(e) = ToSet(d) \ {d[i]}
  <2>1. \A k \in 1..n : k # i => d[k] # d[i]
    BY <1>1 DEF IsInjective
  <2>2. ToSet(e) \subseteq ToSet(d) \ {d[i]}
    <3>1. ASSUME NEW j \in 1..(n - 1) PROVE e[j] \in ToSet(d) \ {d[i]}
      <4>1. PICK k \in 1..n : k # i /\ e[j] = d[k]
        BY <1>6
      <4>2. d[k] \in ToSet(d)
        BY <1>1 DEF ToSet
      <4>. QED
        BY <2>1, <4>1, <4>2
    <3>. QED
      BY <1>4, <3>1 DEF ToSet
  <2>3. ASSUME NEW k \in 1..n, d[k] # d[i] PROVE d[k] \in ToSet(e)
    <3>1. PICK j \in 1..(n - 1) : IF j < i THEN k = j ELSE k = j + 1
      <4>1. CASE k < i
        <5>1. k \in 1..(n - 1)
          BY <1>1, <4>1
        <5>. QED
          BY <4>1, <5>1
      <4>2. CASE i < k
        <5>1. k - 1 \in 1..(n - 1) /\ ~(k - 1 < i) /\ k = (k - 1) + 1
          BY <1>1, <4>2
        <5>. QED
          BY <5>1
      <4>3. k # i
        BY <2>3
      <4>. QED
        BY <1>1, <4>1, <4>2, <4>3
    <3>2. e[j] = d[k]
      BY <1>5, <3>1
    <3>. QED
      BY <1>4, <3>2 DEF ToSet
  <2>. QED
    BY <1>1, <2>2, <2>3 DEF ToSet
<1>9. e # <<>> => e[1] = IF i = 1 THEN d[2] ELSE d[1]
  <2>1. e # <<>> => 1 \in 1..(n - 1)
    BY <1>1, <1>4, NilFacts
  <2>. QED
    BY <1>1, <1>5, <2>1
<1>. QED
  BY <1>1, <1>2, <1>4, <1>7, <1>8, <1>9 DEF RemoveAt

\* A finger takes the lowest free slot.
LEMMA LandSlot ==
  ASSUME NEW F \in Seq(Slots), NEW free, free = Slots \ ToSet(F), free # {},
         NEW s, s = CHOOSE t \in free : \A u \in free : t <= u
  PROVE  s \in Slots /\ s \notin ToSet(F) /\ (s = 0 \/ 0 \in ToSet(F))
<1>1. free \subseteq Nat /\ 0 \in Slots
  BY TouchpadAssumption DEF Slots
<1>2. \E t \in free : \A u \in free : t <= u
  BY <1>1, LeastNumber
<1>3. s \in free /\ \A u \in free : s <= u
  BY <1>2
<1>4. 0 \in free => s = 0
  BY <1>1, <1>3
<1>. QED
  BY <1>1, <1>3, <1>4

LEMMA LandFrame ==
  ASSUME BaseInv, NEW p \in Points, Land(p)
  PROVE  \E se, F2, at2 : \E s \in Slots :
           /\ Frame(se, F2, at2) /\ slot' = s /\ Says(se, F2, at2, s)
           /\ s = 0 \/ 0 \in ToSet(fingers)
           /\ s # slot => NamesSlot(se)
           /\ F2 # <<>> /\ F2[1] = IF fingers = <<>> THEN s ELSE fingers[1]
           /\ ToSet(F2) = ToSet(fingers) \cup {s} /\ Len(F2) = Len(fingers) + 1
           /\ s \notin ToSet(fingers) /\ at2 = [at EXCEPT ![s] = p]
           /\ crossed' = IF fingers = <<>> THEN FALSE ELSE crossed \/ s = 0
<1>1. /\ fingers \in Seq(Slots) /\ IsInjective(fingers) /\ slot \in Slots
      /\ at \in [Slots -> Points] /\ pointer \in Points
  BY DEF BaseInv, PadInv
<1>2. PICK free : free = Slots \ ToSet(fingers)
  OBVIOUS
<1>3. PICK s : s = CHOOSE t \in free : \A u \in free : t <= u
  OBVIOUS
<1>4. PICK x : x = Event("ABS_MT_TRACKING_ID", 0)
  OBVIOUS
<1>5. PICK F2, at2 : F2 = Append(fingers, s) /\ at2 = [at EXCEPT ![s] = p]
  OBVIOUS
<1>6. PICK se : se = SlotEvents(s, slot, <<x>>, p)
  OBVIOUS
<1>7. /\ pipe = <<>> /\ free # {} /\ Frame(se, F2, at2) /\ slot' = s
      /\ crossed' = IF fingers = <<>> THEN FALSE ELSE crossed \/ s = 0
  BY <1>2, <1>3, <1>4, <1>5, <1>6 DEF Land
<1>8. s \in Slots /\ s \notin ToSet(fingers) /\ (s = 0 \/ 0 \in ToSet(fingers))
  BY <1>1, <1>2, <1>3, <1>7, LandSlot
<1>9. /\ F2 \in Seq(Slots) /\ IsInjective(F2)
      /\ ToSet(F2) = ToSet(fingers) \cup {s} /\ Len(F2) = Len(fingers) + 1
      /\ F2[1] = IF fingers = <<>> THEN s ELSE fingers[1]
  BY <1>1, <1>5, <1>8, AddedFinger
<1>10. at2 \in [Slots -> Points] /\ at2[s] = p
  BY <1>1, <1>5, <1>8
<1>11. PICK P : P = Pointed(F2, at2)
  OBVIOUS
<1>12. Right(x, F2, P, s, clicked) /\ x.type = "ABS_MT_TRACKING_ID"
  <2>1. "ABS_MT_TRACKING_ID" \in Types
    BY DEF Types, SlotTypes
  <2>2. x \in Events /\ x.type = "ABS_MT_TRACKING_ID" /\ x.value = 0
    BY <1>4, <2>1, EventFacts
  <2>3. \A k \in 1..4 : x.type # Tools[k]
    BY <2>2, ToolFacts DEF ToolTypes
  <2>4. {0, s} \subseteq ToSet(F2)
    BY <1>8, <1>9
  <2>. QED
    BY <2>2, <2>3, <2>4 DEF Right
<1>13. /\ Part(se, 1, 1, F2, P, s, clicked)
       /\ Owned(se, slot, s, s, F2, at2)
       /\ s # slot => NamesSlot(se)
  <2>1. s \in ToSet(F2) /\ se = SlotEvents(s, slot, <<x>>, at2[s])
    BY <1>6, <1>9, <1>10
  <2>2. SlotIs(se, s, slot, <<x>>, F2, P, s, clicked, at2)
    BY <1>1, <1>8, <1>10, <1>12, <2>1 DEF SlotIs
  <2>3. SlotSays(se, s, slot, <<x>>, F2, P, s, clicked, at2)
    BY <1>1, <2>2, SlotSaid
  <2>. QED
    BY <2>3 DEF SlotSays
<1>14. F2 # <<>>
  <2>1. Len(F2) # 0
    BY <1>1, <1>9
  <2>. QED
    BY <2>1, NilFacts
<1>15. Says(se, F2, at2, s)
  <2>1. PICK m \in Nat : m = Len(fingers)
    BY <1>1
  <2>2. Len(F2) <= Len(fingers) + 1
    BY <1>9, <2>1
  <2>. QED
    BY <1>8, <1>9, <1>10, <1>11, <1>13, <2>2 DEF Says
<1>. QED
  BY <1>5, <1>7, <1>8, <1>9, <1>13, <1>14, <1>15

LEMMA LandBase ==
  ASSUME BaseInv, NEW p \in Points, Land(p)
  PROVE  BaseInv'
<1>1. PICK se, F2, at2 : \E s \in Slots :
           /\ Frame(se, F2, at2) /\ slot' = s /\ Says(se, F2, at2, s)
           /\ s = 0 \/ 0 \in ToSet(fingers)
           /\ s # slot => NamesSlot(se)
           /\ F2 # <<>> /\ F2[1] = IF fingers = <<>> THEN s ELSE fingers[1]
           /\ ToSet(F2) = ToSet(fingers) \cup {s}
           /\ crossed' = IF fingers = <<>> THEN FALSE ELSE crossed \/ s = 0
  BY LandFrame
<1>2. PICK s \in Slots :
           /\ Frame(se, F2, at2) /\ slot' = s /\ Says(se, F2, at2, s)
           /\ s = 0 \/ 0 \in ToSet(fingers)
           /\ s # slot => NamesSlot(se)
           /\ F2 # <<>> /\ F2[1] = IF fingers = <<>> THEN s ELSE fingers[1]
           /\ ToSet(F2) = ToSet(fingers) \cup {s}
           /\ crossed' = IF fingers = <<>> THEN FALSE ELSE crossed \/ s = 0
  BY <1>1
<1>3. pipe = <<>> /\ steady' = (steady /\ ~clicked)
  BY DEF Land
<1>4. /\ crossed \in BOOLEAN /\ steady \in BOOLEAN /\ clicked \in BOOLEAN
      /\ ~crossed /\ 0 \in ToSet(fingers) => fingers[1] = 0
  BY DEF BaseInv, PadInv
<1>5. crossed' \in BOOLEAN /\ steady' \in BOOLEAN
  BY <1>2, <1>3, <1>4
<1>6. ASSUME ~crossed', 0 \in ToSet(F2) PROVE F2[1] = 0
  <2>1. CASE fingers = <<>>
    <3>1. s = 0
      BY <1>2, <2>1, NilFacts
    <3>. QED
      BY <1>2, <2>1, <3>1
  <2>2. CASE fingers # <<>>
    <3>1. ~crossed /\ s # 0 /\ 0 \in ToSet(fingers)
      BY <1>2, <1>6, <2>2
    <3>. QED
      BY <1>2, <1>4, <2>2, <3>1
  <2>. QED
    BY <2>1, <2>2
<1>7. ASSUME Lost
      PROVE  slot = active_slot \/ crossed' \/ F2 = <<>> \/
                NamesSlot(se)
  <2>1. active_slot = 0 /\ (crossed \/ fingers = <<>>)
    BY <1>3, <1>7 DEF Lost
  <2>2. CASE fingers = <<>>
    <3>1. s = 0
      BY <1>2, <2>2, NilFacts
    <3>. QED
      BY <1>2, <2>1, <3>1
  <2>3. CASE fingers # <<>>
    BY <1>2, <2>1, <2>3
  <2>. QED
    BY <2>2, <2>3
<1>. QED
  BY <1>2, <1>3, <1>4, <1>5, <1>6, <1>7, FrameBase

LEMMA LiftFrame ==
  ASSUME BaseInv, NEW i \in DOMAIN fingers, Lift(i)
  PROVE  \E se, F2 : \E s \in Slots :
           /\ Frame(se, F2, at) /\ slot' = s /\ Says(se, F2, at, s)
           /\ s = fingers[i] /\ Len(F2) = Len(fingers) - 1
           /\ ToSet(F2) = ToSet(fingers) \ {s} /\ fingers # <<>>
           /\ F2 # <<>> => F2[1] = IF i = 1 THEN fingers[2] ELSE fingers[1]
           /\ F2 # <<>> /\ i = 1 => F2[1] # fingers[1]
           /\ \A e \in ToSet(se) : e \notin Activating
<1>1. /\ fingers \in Seq(Slots) /\ IsInjective(fingers) /\ slot \in Slots
      /\ at \in [Slots -> Points] /\ pointer \in Points
  BY DEF BaseInv, PadInv
<1>2. PICK n \in Nat : n = Len(fingers) /\ DOMAIN fingers = 1..n /\ i \in 1..n
  BY <1>1
<1>3. PICK s : s = fingers[i]
  OBVIOUS
<1>4. PICK x : x = Event("ABS_MT_TRACKING_ID", -1)
  OBVIOUS
<1>5. PICK F2 : F2 = RemoveAt(fingers, i)
  OBVIOUS
<1>6. PICK se : se = SlotEvents(s, slot, <<x>>, at[s])
  OBVIOUS
<1>7. pipe = <<>> /\ Frame(se, F2, at) /\ slot' = s
  BY <1>3, <1>4, <1>5, <1>6 DEF Lift
<1>8. s \in Slots /\ s \in ToSet(fingers)
  BY <1>1, <1>2, <1>3 DEF ToSet
<1>9. /\ F2 \in Seq(Slots) /\ IsInjective(F2)
      /\ ToSet(F2) = ToSet(fingers) \ {s} /\ Len(F2) = Len(fingers) - 1
      /\ F2 # <<>> => F2[1] = IF i = 1 THEN fingers[2] ELSE fingers[1]
  BY <1>1, <1>3, <1>5, RemovedFinger
<1>10. PICK P : P = Pointed(F2, at)
  OBVIOUS
<1>11. /\ Right(x, F2, P, s, clicked) /\ x.type = "ABS_MT_TRACKING_ID"
       /\ x \in Events /\ x \notin Activating
  <2>1. "ABS_MT_TRACKING_ID" \in Types
    BY DEF Types, SlotTypes
  <2>2. x \in Events /\ x.type = "ABS_MT_TRACKING_ID" /\ x.value = -1
    BY <1>4, <2>1, EventFacts
  <2>3. \A k \in 1..4 : x.type # Tools[k]
    BY <2>2, ToolFacts DEF ToolTypes
  <2>4. x \notin Activating
    BY <2>2 DEF Activating, Event
  <2>. QED
    BY <2>2, <2>3, <2>4 DEF Right
<1>12. /\ Part(se, 1, 1, F2, P, s, clicked)
       /\ Owned(se, slot, s, s, F2, at)
       /\ \A e \in ToSet(se) : e.type = "ABS_MT_TRACKING_ID" => e = x
       /\ x \in ToSet(se)
  <2>1. ToSet(<<x>>) = {x}
    BY <1>11, OneFacts
  <2>2. SlotIs(se, s, slot, <<x>>, F2, P, s, clicked, at)
    BY <1>1, <1>6, <1>8, <1>11 DEF SlotIs
  <2>3. SlotSays(se, s, slot, <<x>>, F2, P, s, clicked, at)
    BY <1>1, <2>2, SlotSaid
  <2>. QED
    BY <2>1, <2>3 DEF SlotSays
<1>13. ASSUME NEW e \in ToSet(se) PROVE e \notin Activating
  <2>1. SUFFICES ASSUME e \in Activating PROVE FALSE
    OBVIOUS
  <2>2. e.type = "ABS_MT_TRACKING_ID" \/ e.type = "BTN_TOUCH"
    BY <2>1 DEF Activating, Event
  <2>3. CASE e.type = "BTN_TOUCH"
    <3>1. se \in Seq(Events) /\ DOMAIN se = 1..Len(se)
      BY <1>12 DEF Part
    <3>2. PICK j \in 1..Len(se) : e = se[j]
      BY <3>1 DEF ToSet
    <3>3. Rank(e) <= 1 /\ Rank(e) = 2
      BY <1>12, <2>3, <3>2, RankFacts DEF Part
    <3>. QED
      BY <3>3
  <2>. QED
    BY <1>11, <1>12, <2>1, <2>2, <2>3
<1>14. Says(se, F2, at, s)
  <2>1. Len(F2) <= Len(fingers) + 1
    BY <1>2, <1>9
  <2>. QED
    BY <1>1, <1>4, <1>8, <1>9, <1>10, <1>12, <1>13, <2>1 DEF Says
<1>15. fingers # <<>> /\ (F2 # <<>> /\ i = 1 => F2[1] # fingers[1])
  <2>1. n # 0
    BY <1>2
  <2>2. fingers # <<>>
    BY <1>1, <1>2, <2>1, NilFacts
  <2>3. ASSUME F2 # <<>>, i = 1 PROVE F2[1] # fingers[1]
    <3>1. F2[1] \in ToSet(F2)
      <4>1. Len(F2) \in Nat \ {0} /\ DOMAIN F2 = 1..Len(F2)
        BY <1>9, <2>3, TailFacts
      <4>2. 1 \in 1..Len(F2)
        BY <4>1
      <4>. QED
        BY <4>1, <4>2 DEF ToSet
    <3>. QED
      BY <1>3, <1>9, <2>3, <3>1
  <2>. QED
    BY <2>2, <2>3
<1>. QED
  BY <1>3, <1>7, <1>8, <1>9, <1>13, <1>14, <1>15

LEMMA LiftBase ==
  ASSUME BaseInv, NEW i \in DOMAIN fingers, Lift(i)
  PROVE  BaseInv'
<1>1. PICK se, F2 : \E s \in Slots :
           /\ Frame(se, F2, at) /\ slot' = s /\ Says(se, F2, at, s)
           /\ s = fingers[i]
           /\ ToSet(F2) = ToSet(fingers) \ {s} /\ fingers # <<>>
           /\ F2 # <<>> => F2[1] = IF i = 1 THEN fingers[2] ELSE fingers[1]
  BY LiftFrame
<1>2. PICK s \in Slots :
           /\ Frame(se, F2, at) /\ slot' = s /\ Says(se, F2, at, s)
           /\ s = fingers[i]
           /\ ToSet(F2) = ToSet(fingers) \ {s} /\ fingers # <<>>
           /\ F2 # <<>> => F2[1] = IF i = 1 THEN fingers[2] ELSE fingers[1]
  BY <1>1
<1>3. pipe = <<>> /\ steady' = (steady /\ ~clicked) /\ crossed' = crossed
  BY DEF Lift
<1>4. /\ crossed \in BOOLEAN /\ steady \in BOOLEAN /\ clicked \in BOOLEAN
      /\ ~crossed /\ 0 \in ToSet(fingers) => fingers[1] = 0
  BY DEF BaseInv, PadInv
<1>5. crossed' \in BOOLEAN /\ steady' \in BOOLEAN
  BY <1>3, <1>4
<1>6. ASSUME ~crossed', 0 \in ToSet(F2) PROVE F2[1] = 0
  <2>1. fingers[1] = 0 /\ s # 0
    BY <1>2, <1>3, <1>4, <1>6
  <2>2. i # 1
    BY <1>2, <2>1
  <2>3. F2 # <<>>
    BY <1>6, NilFacts
  <2>. QED
    BY <1>2, <2>1, <2>2, <2>3
<1>7. Lost => crossed'
  BY <1>2, <1>3 DEF Lost
<1>. QED
  BY <1>2, <1>3, <1>4, <1>5, <1>6, <1>7, FrameBase

\* The recursive function of FlattenSeq, and that there is one.
Flattens(s, g, n) ==
  g = [i \in 1..n |-> IF i = 1 THEN s[i] ELSE g[i - 1] \o s[i]]

LEMMA FlattensExists ==
  ASSUME NEW s
  PROVE  \A n \in Nat : \E g : Flattens(s, g, n)
<1>. DEFINE S == {n \in Nat : \E g : Flattens(s, g, n)}
<1>1. 0 \in S
  <2>1. PICK g : g = [i \in 1..0 |-> s[i]]
    OBVIOUS
  <2>2. g = [i \in 1..0 |-> IF i = 1 THEN s[i] ELSE g[i - 1] \o s[i]]
    BY <2>1
  <2>. QED
    BY <2>2 DEF Flattens
<1>2. ASSUME NEW n \in Nat, n \in S PROVE n + 1 \in S
  <2>1. PICK g : Flattens(s, g, n)
    BY <1>2
  <2>2. PICK x : x = IF n + 1 = 1 THEN s[n + 1] ELSE g[n] \o s[n + 1]
    OBVIOUS
  <2>3. PICK h : h = [i \in 1..(n + 1) |-> IF i = n + 1 THEN x ELSE g[i]]
    OBVIOUS
  <2>4. \A i \in 1..n : h[i] = g[i]
    BY <2>3
  <2>5. h[n + 1] = x
    BY <2>3
  <2>6. ASSUME NEW i \in 1..(n + 1)
        PROVE  h[i] = IF i = 1 THEN s[i] ELSE h[i - 1] \o s[i]
    <3>1. CASE i = n + 1 /\ i = 1
      BY <2>2, <2>5, <3>1
    <3>2. CASE i = n + 1 /\ i # 1
      <4>1. n \in 1..n /\ i - 1 = n
        BY <3>2
      <4>2. h[n] = g[n]
        BY <2>4, <4>1
      <4>. QED
        BY <2>2, <2>5, <3>2, <4>1, <4>2
    <3>3. CASE i \in 1..n
      <4>1. g[i] = IF i = 1 THEN s[i] ELSE g[i - 1] \o s[i]
        BY <2>1, <3>3 DEF Flattens
      <4>2. i # 1 => i - 1 \in 1..n
        BY <3>3
      <4>3. h[i] = g[i] /\ (i # 1 => h[i - 1] = g[i - 1])
        BY <2>4, <3>3, <4>2
      <4>. QED
        BY <4>1, <4>3
    <3>. QED
      BY <3>1, <3>2, <3>3
  <2>7. Flattens(s, h, n + 1)
    BY <2>3, <2>6 DEF Flattens
  <2>. QED
    BY <2>7
<1>. QED
  <2>1. Nat \subseteq S
    <3>. HIDE DEF S
    <3>. QED
      BY <1>1, <1>2, SetInduction
  <2>. QED
    BY <2>1

\* The slots' part of a frame in which fingers move, up to that of slot c.
Moving(q, c, P, S, at2) ==
  /\ Part(q, 1, 1, fingers, P, S, clicked)
  /\ Owned(q, slot, c, S, fingers, at2)
  /\ \A e \in ToSet(q) : e.type # "ABS_MT_TRACKING_ID"

LEMMA MoveOne ==
  ASSUME BaseInv, NEW P, NEW S, NEW at2 \in [Slots -> Points],
         NEW s \in ToSet(fingers), NEW before \in Slots,
         NEW q, q = SlotEvents(s, before, <<>>, at2[s])
  PROVE  /\ Part(q, 1, 1, fingers, P, S, clicked)
         /\ Owned(q, before, s, S, fingers, at2)
         /\ \A e \in ToSet(q) : e.type # "ABS_MT_TRACKING_ID"
<1>1. fingers \in Seq(Slots) /\ at \in [Slots -> Points]
  BY DEF BaseInv, PadInv
<1>2. s \in Slots
  BY <1>1 DEF ToSet
<1>3. SlotIs(q, s, before, <<>>, fingers, P, S, clicked, at2)
  BY <1>2 DEF SlotIs
<1>4. SlotSays(q, s, before, <<>>, fingers, P, S, clicked, at2)
  BY <1>1, <1>3, SlotSaid
<1>5. ToSet(<<>>) = {}
  BY NilFacts
<1>. QED
  BY <1>4, <1>5 DEF SlotSays

LEMMA MoveMore ==
  ASSUME NEW q, NEW p, NEW c, NEW d, NEW P, NEW S, NEW at2,
         Moving(q, c, P, S, at2), Part(p, 1, 1, fingers, P, S, clicked),
         Owned(p, c, d, S, fingers, at2),
         \A e \in ToSet(p) : e.type # "ABS_MT_TRACKING_ID"
  PROVE  Moving(q \o p, d, P, S, at2)
<1>1. Ranks(1, 1, 1, 1)
  BY DEF Ranks
<1>2. Part(q, 1, 1, fingers, P, S, clicked) /\ Owned(q, slot, c, S, fingers, at2)
  BY DEF Moving
<1>3. q \in Seq(Events) /\ p \in Seq(Events)
  BY <1>2 DEF Part
<1>4. PICK r : r = q \o p
  OBVIOUS
<1>5. Part(r, 1, 1, fingers, P, S, clicked)
  <2>1. Part(q \o p, 1, 1, fingers, P, S, clicked)
    BY <1>1, <1>2, TwoParts
  <2>. QED
    BY <1>4, <2>1, Zenon
<1>6. Owned(r, slot, d, S, fingers, at2)
  <2>1. Owned(q \o p, slot, d, S, fingers, at2)
    BY <1>2, <1>3, OwnedConcat
  <2>. QED
    BY <1>4, <2>1, Zenon
<1>7. ToSet(r) = ToSet(q) \cup ToSet(p)
  BY <1>3, <1>4, ConcatFacts
<1>8. \A e \in ToSet(r) : e.type # "ABS_MT_TRACKING_ID"
  BY <1>7 DEF Moving
<1>9. Moving(r, d, P, S, at2)
  BY <1>5, <1>6, <1>8 DEF Moving
<1>. QED
  BY <1>4, <1>9, Zenon

LEMMA MoveParts ==
  ASSUME BaseInv, NEW P, NEW S, NEW at2 \in [Slots -> Points],
         NEW n \in Nat \ {0}, NEW order \in [1..n -> ToSet(fingers)]
  PROVE  Moving(MoveEvents(order, at2), order[n], P, S, at2)
<1>0. /\ fingers \in Seq(Slots) /\ slot \in Slots
      /\ \A t \in ToSet(fingers) : t \in Slots
  BY DEF BaseInv, PadInv, ToSet
<1>1. Len(order) = n
  BY LenProperties
<1>2. PICK s : s = [i \in 1..n |->
           SlotEvents(order[i], IF i = 1 THEN slot ELSE order[i - 1], <<>>,
                      at2[order[i]])]
  OBVIOUS
<1>3. Len(s) = n /\ MoveEvents(order, at2) = FlattenSeq(s)
  <2>1. DOMAIN s = 1..n
    BY <1>2
  <2>2. Len(s) = n
    BY <2>1, LenProperties
  <2>. QED
    BY <1>1, <1>2, <2>2 DEF MoveEvents
<1>4. ASSUME NEW i \in 1..n, NEW before \in Slots,
             before = IF i = 1 THEN slot ELSE order[i - 1]
      PROVE  /\ Part(s[i], 1, 1, fingers, P, S, clicked)
             /\ Owned(s[i], before, order[i], S, fingers, at2)
             /\ \A e \in ToSet(s[i]) : e.type # "ABS_MT_TRACKING_ID"
  <2>1. order[i] \in ToSet(fingers)
    OBVIOUS
  <2>2. s[i] = SlotEvents(order[i], before, <<>>, at2[order[i]])
    BY <1>2, <1>4
  <2>. QED
    BY <2>1, <2>2, MoveOne
<1>. DEFINE g == CHOOSE h : Flattens(s, h, n)
<1>5. Flattens(s, g, n)
  BY FlattensExists
<1>6. MoveEvents(order, at2) = g[n]
  BY <1>3 DEF FlattenSeq, Flattens
<1>. HIDE DEF g
<1>. DEFINE T == {k \in Nat : k \in 1..n => Moving(g[k], order[k], P, S, at2)}
<1>7. 0 \in T
  OBVIOUS
<1>8. ASSUME NEW k \in Nat, k \in T PROVE k + 1 \in T
  <2>1. SUFFICES ASSUME k + 1 \in 1..n
                 PROVE  Moving(g[k + 1], order[k + 1], P, S, at2)
    OBVIOUS
  <2>2. PICK j \in 1..n : j = k + 1
    BY <2>1
  <2>3. g[j] = IF j = 1 THEN s[j] ELSE g[j - 1] \o s[j]
    BY <1>5 DEF Flattens
  <2>4. CASE k = 0
    <3>1. j = 1 /\ g[j] = s[j]
      BY <2>2, <2>3, <2>4
    <3>2. /\ Part(s[j], 1, 1, fingers, P, S, clicked)
          /\ Owned(s[j], slot, order[j], S, fingers, at2)
          /\ \A e \in ToSet(s[j]) : e.type # "ABS_MT_TRACKING_ID"
      BY <1>0, <1>4, <3>1
    <3>3. Moving(g[j], order[j], P, S, at2)
      BY <3>1, <3>2 DEF Moving
    <3>. QED
      BY <2>2, <3>3
  <2>5. CASE k # 0
    <3>1. k \in 1..n /\ j # 1 /\ j - 1 = k
      BY <2>2, <2>5
    <3>2. Moving(g[k], order[k], P, S, at2)
      BY <1>8, <3>1
    <3>3. order[k] \in Slots
      BY <1>0, <3>1
    <3>4. /\ Part(s[j], 1, 1, fingers, P, S, clicked)
          /\ Owned(s[j], order[k], order[j], S, fingers, at2)
          /\ \A e \in ToSet(s[j]) : e.type # "ABS_MT_TRACKING_ID"
      BY <1>4, <3>1, <3>3
    <3>5. Moving(g[k] \o s[j], order[j], P, S, at2)
      BY <3>2, <3>4, MoveMore
    <3>6. g[j] = g[k] \o s[j]
      BY <2>3, <3>1
    <3>7. Moving(g[j], order[j], P, S, at2)
      BY <3>5, <3>6, Zenon
    <3>. QED
      BY <2>2, <3>7
  <2>. QED
    BY <2>4, <2>5
<1>9. Nat \subseteq T
  <2>. HIDE DEF T
  <2>. QED
    BY <1>7, <1>8, SetInduction
<1>10. Moving(g[n], order[n], P, S, at2)
  BY <1>9
<1>. QED
  BY <1>6, <1>10

LEMMA MoveFrame ==
  ASSUME BaseInv, NEW at2 \in [Slots -> Points], Move(at2)
  PROVE  \E se : \E s \in Slots :
           /\ Frame(se, fingers, at2) /\ slot' = s /\ Says(se, fingers, at2, s)
           /\ \A e \in ToSet(se) : e.type # "ABS_MT_TRACKING_ID"
           /\ fingers # <<>>
<1>1. /\ fingers \in Seq(Slots) /\ IsInjective(fingers) /\ slot \in Slots
      /\ \A t \in ToSet(fingers) : t \in Slots
  BY DEF BaseInv, PadInv, ToSet
<1>2. PICK M : M = Moved(at2)
  OBVIOUS
<1>3. M # {} /\ M \subseteq ToSet(fingers) /\ M \subseteq Slots
  BY <1>2 DEF Move, Moved
<1>4. PICK order \in SetToSeqs(M) :
           Frame(MoveEvents(order, at2), fingers, at2) /\ slot' = order[Len(order)]
  BY <1>2 DEF Move
<1>5. PICK n : n = Cardinality(M)
  OBVIOUS
<1>6. n \in Nat \ {0}
  <2>1. LastSlot \in Nat
    BY TouchpadAssumption
  <2>2. IsFiniteSet(Slots)
    BY <2>1, FS_Interval DEF Slots
  <2>3. IsFiniteSet(M)
    BY <1>3, <2>2, FS_Subset
  <2>. QED
    BY <1>3, <1>5, <2>3, FS_CardinalityType, FS_EmptySet
<1>7. order \in [1..n -> M]
  BY <1>4, <1>5 DEF SetToSeqs
<1>8. order \in [1..n -> ToSet(fingers)]
  BY <1>3, <1>7
<1>9. PICK s : s = order[n]
  OBVIOUS
<1>10. s \in ToSet(fingers) /\ s \in Slots /\ slot' = s
  <2>1. Len(order) = n
    BY <1>6, <1>7, LenProperties
  <2>2. n \in 1..n
    BY <1>6
  <2>3. s \in ToSet(fingers)
    BY <1>8, <1>9, <2>2
  <2>. QED
    BY <1>1, <1>4, <1>9, <2>1, <2>3
<1>11. PICK se, P : se = MoveEvents(order, at2) /\ P = Pointed(fingers, at2)
  OBVIOUS
<1>12. Moving(se, s, P, s, at2)
  BY <1>6, <1>8, <1>9, <1>11, MoveParts
<1>13. /\ Part(se, 1, 1, fingers, P, s, clicked)
       /\ Owned(se, slot, s, s, fingers, at2)
       /\ \A e \in ToSet(se) : e.type # "ABS_MT_TRACKING_ID"
  BY <1>12 DEF Moving
<1>14. ASSUME NEW e \in ToSet(se) PROVE e \notin Activating
  <2>1. SUFFICES ASSUME e \in Activating PROVE FALSE
    OBVIOUS
  <2>2. e.type = "ABS_MT_TRACKING_ID" \/ e.type = "BTN_TOUCH"
    BY <2>1 DEF Activating, Event
  <2>3. e.type = "BTN_TOUCH"
    BY <1>13, <2>2
  <2>4. se \in Seq(Events) /\ DOMAIN se = 1..Len(se)
    BY <1>13 DEF Part
  <2>5. PICK j \in 1..Len(se) : e = se[j]
    BY <2>4 DEF ToSet
  <2>6. Rank(e) <= 1 /\ Rank(e) = 2
    BY <1>13, <2>3, <2>5, RankFacts DEF Part
  <2>. QED
    BY <2>6
<1>15. Says(se, fingers, at2, s)
  <2>1. PICK m \in Nat : m = Len(fingers)
    BY <1>1
  <2>2. Len(fingers) <= Len(fingers) + 1
    BY <2>1
  <2>. QED
    BY <1>1, <1>10, <1>11, <1>13, <1>14, <2>2 DEF Says
<1>16. fingers # <<>>
  BY <1>3, NilFacts
<1>. QED
  BY <1>4, <1>10, <1>11, <1>13, <1>15, <1>16

LEMMA MoveBase ==
  ASSUME BaseInv, NEW at2 \in [Slots -> Points], Move(at2)
  PROVE  BaseInv'
<1>1. PICK se : \E s \in Slots :
           /\ Frame(se, fingers, at2) /\ slot' = s /\ Says(se, fingers, at2, s)
           /\ \A e \in ToSet(se) : e.type # "ABS_MT_TRACKING_ID"
           /\ fingers # <<>>
  BY MoveFrame
<1>2. PICK s \in Slots :
           /\ Frame(se, fingers, at2) /\ slot' = s /\ Says(se, fingers, at2, s)
           /\ \A e \in ToSet(se) : e.type # "ABS_MT_TRACKING_ID"
           /\ fingers # <<>>
  BY <1>1
<1>3. pipe = <<>> /\ steady' = steady /\ crossed' = crossed
  BY DEF Move
<1>4. /\ crossed \in BOOLEAN /\ steady \in BOOLEAN
      /\ ~crossed /\ 0 \in ToSet(fingers) => fingers[1] = 0
  BY DEF BaseInv, PadInv
<1>5. Lost => crossed'
  BY <1>2, <1>3 DEF Lost
<1>. QED
  BY <1>2, <1>3, <1>4, <1>5, FrameBase

LEMMA ClickFrame ==
  ASSUME BaseInv, Click
  PROVE  /\ Rest(pipe', fingers, pointer, slot, clicked')
         /\ Owned(pipe', slot, slot, slot, fingers, at) /\ pipe' # <<>>
         /\ Event("BTN_LEFT", IF clicked THEN 0 ELSE 1) \in Pending'
         /\ \A e \in Pending' : e.type \in {"BTN_LEFT", "SYN"}
         /\ \A e \in Pending' : e \notin Activating
<1>1. /\ clicked \in BOOLEAN /\ slot \in Slots /\ clicked' = ~clicked
  BY DEF BaseInv, PadInv, Click
<1>2. PICK x : x = Event("BTN_LEFT", IF clicked THEN 0 ELSE 1)
  OBVIOUS
<1>3. pipe' = <<x>> \o Syn
  BY <1>2 DEF Click
<1>4. x \in Events /\ x.type = "BTN_LEFT" /\ x.value = IF clicked' THEN 1 ELSE 0
  <2>1. "BTN_LEFT" \in Types
    BY DEF Types
  <2>2. (IF clicked THEN 0 ELSE 1) \in Int
    OBVIOUS
  <2>3. x \in Events /\ x.type = "BTN_LEFT" /\ x.value = IF clicked THEN 0 ELSE 1
    BY <1>2, <2>1, <2>2, EventFacts
  <2>. QED
    BY <1>1, <2>3
<1>5. Rank(x) = 4
  BY <1>4 DEF Rank, SlotTypes, ToolTypes
<1>6. Right(x, fingers, pointer, slot, clicked')
  <2>1. \A k \in 1..4 : x.type # Tools[k]
    BY <1>4, ToolFacts DEF ToolTypes
  <2>. QED
    BY <1>4, <2>1 DEF Right
<1>7. PICK p : p = <<x>>
  OBVIOUS
<1>8. /\ p \in Seq(Events) /\ Len(p) = 1 /\ p[1] = x /\ ToSet(p) = {x}
  BY <1>4, <1>7, OneFacts
<1>9. Part(p, 1, 4, fingers, pointer, slot, clicked')
  <2>1. Part(p, 4, 4, fingers, pointer, slot, clicked')
    BY <1>5, <1>6, <1>7, PartOne
  <2>2. 1 \in Int /\ 4 \in Int /\ 1 <= 4 /\ 4 <= 4
    OBVIOUS
  <2>. QED
    BY <2>1, <2>2, PartWider
<1>10. PICK q : q = p \o Syn
  OBVIOUS
<1>11. /\ Part(q, 1, 5, fingers, pointer, slot, clicked')
       /\ \A i \in 1..Len(q) : Rank(q[i]) = 5 <=> i = Len(q)
       /\ Len(q) = 2 /\ q[1] = x /\ ToSet(q) = {x} \cup ToSet(Syn)
  <2>1. /\ Part(q, 1, 5, fingers, pointer, slot, clicked')
        /\ \A i \in 1..Len(q) : Rank(q[i]) = 5 <=> i = Len(q)
        /\ Len(q) = Len(p) + 1
        /\ Len(p) > 0 => q[1] = p[1]
        /\ Joined(q, p, Syn)
    BY <1>9, <1>10, SynEnds
  <2>2. 1 > 0 /\ 1 + 1 = 2
    OBVIOUS
  <2>. QED
    BY <1>8, <2>1, <2>2 DEF Joined
<1>12. q \in Seq(Events) /\ DOMAIN q = 1..Len(q)
  BY <1>11 DEF Part
<1>13. \A e \in ToSet(q) : e.type \in {"BTN_LEFT", "SYN"}
  BY <1>4, <1>11, SynFacts
<1>14. \A e \in ToSet(q) : e.type \notin SlotTypes /\ e \notin Activating
  BY <1>13 DEF SlotTypes, Activating, Event
<1>15. \A i \in 1..Len(q) : q[i] \in ToSet(q)
  BY <1>12 DEF ToSet
<1>16. ASSUME NEW i \in 1..Len(q), q[i].type = "BTN_LEFT" PROVE i = 1
  <2>1. i = 1 \/ i = Len(q)
    BY <1>11
  <2>2. Rank(q[i]) = 4
    BY <1>16 DEF Rank, SlotTypes, ToolTypes
  <2>3. i # Len(q)
    BY <1>11, <2>2
  <2>. QED
    BY <2>1, <2>3
<1>17. Rest(q, fingers, pointer, slot, clicked')
  <2>1. \A i \in 1..Len(q) : q[i] \notin Activating
    BY <1>14, <1>15
  <2>2. \A i \in 1..Len(q) : q[i].type = "BTN_LEFT" => i = 1 /\ Len(q) = 2
    BY <1>11, <1>16
  <2>. QED
    BY <1>11, <2>1, <2>2 DEF Rest
<1>18. Owned(q, slot, slot, slot, fingers, at)
  BY <1>1, <1>11, <1>14, OwnedRest
<1>19. q # <<>>
  BY <1>11, NilFacts
<1>20. q = pipe'
  BY <1>3, <1>7, <1>10
<1>21. ToSet(q) = Pending'
  BY <1>20 DEF Pending
<1>. QED
  BY <1>2, <1>11, <1>13, <1>14, <1>17, <1>18, <1>19, <1>20, <1>21

LEMMA ClickBase ==
  ASSUME BaseInv, Click
  PROVE  BaseInv'
<1>1. /\ Rest(pipe', fingers, pointer, slot, clicked')
      /\ Owned(pipe', slot, slot, slot, fingers, at) /\ pipe' # <<>>
      /\ Event("BTN_LEFT", IF clicked THEN 0 ELSE 1) \in Pending'
      /\ \A e \in Pending' : e.type \in {"BTN_LEFT", "SYN"}
  BY ClickFrame
<1>2. /\ pipe = <<>> /\ clicked' = ~clicked
      /\ UNCHANGED <<fingers, at, pointer, slot, touch, pending_scroll,
                     forwarded, held_buttons, crossed, steady>>
  BY DEF Click
<1>3. /\ slot = active_slot \/ Lost
      /\ Pending = {} /\ slots \subseteq ToSet(fingers)
      /\ btn_touch => fingers # <<>>
      /\ Active \/ (cur = NoPoint /\ finger_count = 0)
  BY <1>2, AtRest
<1>4. PadInv /\ TouchType /\ TouchRest /\ HeldInv
  BY DEF BaseInv, TouchInv
<1>5. PadInv'
  <2>1. clicked' \in BOOLEAN
    BY <1>2
  <2>. QED
    BY <1>2, <1>4, <2>1 DEF PadInv
<1>6. PipeInv'
  <2>1. active_slot' = active_slot /\ slots' = slots
    BY <1>2 DEF touch
  <2>2. Lost => Lost'
    BY <1>2, <2>1 DEF Lost
  <2>3. slot \in Slots /\ (slot = active_slot' \/ Lost')
    BY <1>3, <1>4, <2>1, <2>2 DEF PadInv
  <2>. QED
    BY <1>1, <1>2, <2>3 DEF PipeInv
<1>7. TouchInv'
  <2>1. TouchType'
    BY <1>2, <1>4 DEF TouchType, touch
  <2>2. /\ slots' = slots /\ btn_touch' = btn_touch /\ cur' = cur /\ last' = last
        /\ finger_count' = finger_count /\ (Active' <=> Active)
    BY <1>2 DEF touch, Active, TouchActive
  <2>3. last' # None => /\ Active' /\ last' \in [1..2 -> Coordinates]
                        /\ None \notin {cur'[1], cur'[2]}
    BY <1>4, <2>2 DEF TouchRest
  <2>4. TouchRest'
    BY <1>2, <1>3, <2>2, <2>3 DEF TouchRest
  <2>. QED
    BY <2>1, <2>4 DEF TouchInv
<1>8. HeldInv'
  <2>1. /\ held_buttons' = held_buttons /\ forwarded' = forwarded
        /\ Button' = Button /\ finger_count' = finger_count
        /\ (Active' <=> Active) /\ steady' = steady
    BY <1>2 DEF touch, Button, Active, TouchActive
  <2>2. ASSUME steady', held_buttons' # {}
        PROVE  /\ forwarded' /\ held_buttons' = {Button'}
               /\ ~clicked' /\ Event("BTN_LEFT", 0) \in Pending'
               /\ Active' \/ finger_count' = 0
               /\ \A e \in Pending' :
                    e.type \notin {"ABS_MT_TRACKING_ID", "BTN_TOUCH"} \cup ToolTypes
    <3>1. held_buttons = {Button} /\ clicked /\ forwarded
      BY <1>3, <1>4, <2>1, <2>2 DEF HeldInv
    <3>2. \A e \in Pending' :
            e.type \notin {"ABS_MT_TRACKING_ID", "BTN_TOUCH"} \cup ToolTypes
      BY <1>1 DEF ToolTypes
    <3>3. ~clicked' /\ Event("BTN_LEFT", 0) \in Pending'
      BY <1>1, <1>2, <1>3, <3>1
    <3>4. /\ forwarded' /\ held_buttons' = {Button'}
          /\ Active' \/ finger_count' = 0
      BY <1>3, <2>1, <3>1
    <3>. QED
      BY <3>2, <3>3, <3>4
  <2>3. held_buttons' \subseteq {"Left", "Right"}
    BY <1>4, <2>1 DEF HeldInv
  <2>. QED
    BY <2>2, <2>3 DEF HeldInv
<1>. QED
  BY <1>5, <1>6, <1>7, <1>8 DEF BaseInv

LEMMA InitBase ==
  ASSUME Init
  PROVE  BaseInv
<1>1. 0 \in Slots
  BY TouchpadAssumption DEF Slots
<1>2. /\ fingers \in Seq(Slots) /\ IsInjective(fingers)
      /\ fingers # <<>> => fingers[1] = 0
  <2>1. CASE fingers = <<>>
    <3>1. DOMAIN <<>> = {}
      OBVIOUS
    <3>. QED
      BY <2>1, <3>1 DEF IsInjective
  <2>2. CASE fingers = <<0>>
    <3>1. DOMAIN <<0>> = {1}
      OBVIOUS
    <3>2. IsInjective(<<0>>)
      BY <3>1 DEF IsInjective
    <3>. QED
      BY <1>1, <2>2, <3>2, OneFacts
  <2>. QED
    BY <2>1, <2>2 DEF Init
<1>3. PadInv
  <2>1. ~crossed => fingers = <<>>
    BY DEF Init
  <2>2. 0 \in ToSet(fingers) => fingers # <<>>
    BY NilFacts
  <2>. QED
    BY <1>2, <2>1, <2>2 DEF Init, PadInv
<1>4. PipeInv
  <2>1. pipe = <<>> /\ slot \in Slots
    BY DEF Init
  <2>2. Rest(<<>>, fingers, pointer, slot, clicked)
    <3>1. \A i \in 1..Len(<<>>) : FALSE
      BY NilFacts
    <3>. QED
      BY <3>1, PartNil DEF Rest
  <2>3. Owned(<<>>, slot, slot, slot, fingers, at)
    BY <2>1, OwnedNil
  <2>4. Lost
    BY DEF Init, Lost
  <2>. QED
    BY <2>1, <2>2, <2>3, <2>4 DEF PipeInv
<1>5. TouchInv
  <2>1. TouchType
    <3>1. slots \subseteq Slots /\ active_slot \in Slots /\ btn_touch \in BOOLEAN
      BY <1>1 DEF Init
    <3>2. finger_count \in 0..4
      BY DEF Init
    <3>3. /\ cur \in [1..2 -> Coordinates \cup {None}]
          /\ pending_scroll \in [1..2 -> (1 - Notch)..(Notch - 1)]
      BY NoPointFacts DEF Init
    <3>. QED
      BY <3>1, <3>2, <3>3 DEF TouchType
  <2>2. TouchRest
    BY DEF Init, TouchRest
  <2>. QED
    BY <2>1, <2>2 DEF TouchInv
<1>6. HeldInv
  BY DEF Init, HeldInv
<1>. QED
  BY <1>3, <1>4, <1>5, <1>6 DEF BaseInv

LEMMA StutterBase ==
  ASSUME BaseInv, UNCHANGED vars
  PROVE  BaseInv'
<1>1. /\ UNCHANGED <<fingers, at, pointer, slot, clicked>>
      /\ UNCHANGED <<slots, active_slot, btn_touch, finger_count, cur, last>>
      /\ UNCHANGED <<pipe, pending_scroll, forwarded, held_buttons>>
      /\ UNCHANGED <<crossed, steady>>
  BY DEF vars, pad, touch, history
<1>2. PadInv'
  BY <1>1 DEF BaseInv, PadInv
<1>3. PipeInv'
  BY <1>1 DEF BaseInv, PipeInv, Lost
<1>4. TouchInv'
  BY <1>1 DEF BaseInv, TouchInv, TouchType, TouchRest, Active, TouchActive, Pending
<1>5. HeldInv'
  BY <1>1 DEF BaseInv, HeldInv, Button, Active, TouchActive, Pending
<1>. QED
  BY <1>2, <1>3, <1>4, <1>5 DEF BaseInv

-----------------------------------------------------------------------------
(* The theorems for any pad.                                                 *)

\* In every reachable state what is left of a frame, and what the worker holds
\* of the touch and of the buttons, agree with the pad.
THEOREM BaseInvHolds == Spec => []BaseInv
<1>1. Init => BaseInv
  BY InitBase
<1>2. BaseInv /\ [Next]_vars => BaseInv'
  BY LandBase, LiftBase, MoveBase, ClickBase, ReadBase, GrabBase,
     ForwardingBase, StutterBase DEF Next
<1>. QED
  BY <1>1, <1>2, PTL DEF Spec

\* Every variable keeps its type, and less than one unit of scroll is kept
\* pending, whatever the pad, the fingers and the moments of the grabs.
THEOREM TypeCorrect == Spec => []TypeOK
<1>1. BaseInv => TypeOK
  <2>1. SUFFICES ASSUME BaseInv PROVE TypeOK
    OBVIOUS
  <2>2. PadInv /\ TouchType /\ TouchRest /\ HeldInv
    BY <2>1 DEF BaseInv, TouchInv
  <2>3. ToSet(fingers) \subseteq Slots
    BY <2>2 DEF PadInv, ToSet
  <2>4. \A axis \in 1..2 :
          /\ cur[axis] = None \/ cur[axis] \in Coordinates
          /\ pending_scroll[axis] \in (1 - Notch)..(Notch - 1)
    BY <2>2 DEF TouchType
  <2>5. last # None => \A axis \in 1..2 : last[axis] \in Coordinates
    BY <2>2 DEF TouchRest
  <2>. QED
    BY <2>2, <2>3, <2>4, <2>5 DEF PadInv, TouchType, HeldInv, TypeOK
<1>. QED
  BY <1>1, BaseInvHolds, PTL

\* A click that is over holds no button of the peer down, unless in the middle
\* of it a finger came or went, a grab was applied, or the focus left a peer
\* that kept control.
THEOREM ClicksAreReleased == Spec => []ClickReleased
<1>1. BaseInv => ClickReleased
  <2>1. SUFFICES ASSUME BaseInv, pipe = <<>>, ~clicked, steady
                 PROVE  held_buttons = {}
    BY DEF ClickReleased
  <2>2. Pending = {} /\ HeldInv
    BY <2>1, AtRest DEF BaseInv
  <2>. QED
    BY <2>1, <2>2 DEF HeldInv
<1>. QED
  BY <1>1, BaseInvHolds, PTL

-----------------------------------------------------------------------------
(* With at most four fingers on the pad, all that the code counts: the count *)
(* and the positions.                                                        *)

LEMMA Fits ==
  ASSUME LastSlot <= 3, NEW F \in Seq(Slots), IsInjective(F)
  PROVE  Len(F) \in 0..4 /\ (F # <<>> => Len(F) \in 1..4)
<1>1. LastSlot \in Nat
  BY TouchpadAssumption
<1>2. PICK n \in Nat : n = Len(F) /\ DOMAIN F = 1..n
  OBVIOUS
<1>3. F \in [1..n -> Slots]
  BY <1>2
<1>4. F \in Injection(1..n, Slots)
  BY <1>3 DEF Injection
<1>5. IsFiniteSet(Slots) /\ Cardinality(Slots) = LastSlot + 1
  <2>1. IsFiniteSet(0..LastSlot)
        /\ Cardinality(0..LastSlot) = IF 0 > LastSlot THEN 0 ELSE LastSlot - 0 + 1
    BY <1>1, FS_Interval
  <2>. QED
    BY <1>1, <2>1 DEF Slots
<1>6. Cardinality(1..n) <= Cardinality(Slots)
  BY <1>4, <1>5, FS_Injection
<1>7. Cardinality(1..n) = n
  <2>1. Cardinality(1..n) = IF 1 > n THEN 0 ELSE n - 1 + 1
    BY FS_Interval
  <2>. QED
    BY <2>1
<1>8. n <= 4
  BY <1>1, <1>5, <1>6, <1>7
<1>9. F # <<>> => n # 0
  BY <1>2, NilFacts
<1>. QED
  BY <1>2, <1>8, <1>9

\* An event that makes the touch active is one that does.
LEMMA Activated ==
  ASSUME BaseInv, Read, ~Active, Active'
  PROVE  Head(pipe) \in Activating /\ Head(pipe).type \notin ToolTypes
<1>1. PadInv /\ PipeInv /\ active_slot \in Slots
  BY DEF BaseInv, TouchInv, TouchType
<1>2. slots = {} /\ ~btn_touch
  BY DEF Active, TouchActive
<1>3. CASE ReadTrackingId
  <2>1. pipe # <<>> /\ Head(pipe).type = "ABS_MT_TRACKING_ID"
    BY <1>3 DEF ReadTrackingId, Next1
  <2>2. Settle(IF Head(pipe).value >= 0 THEN slots \cup {active_slot}
                                        ELSE slots \ {active_slot}, btn_touch)
    BY <1>3 DEF ReadTrackingId, value
  <2>3. Head(pipe).value >= 0
    BY <1>2, <2>2, SettleFacts
  <2>4. Head(pipe) \in Events /\ Head(pipe).value \in {-1, 0}
    BY <1>1, <2>1, HeadFacts DEF Right
  <2>5. Head(pipe).value = 0
    BY <2>3, <2>4
  <2>6. Head(pipe) = Event("ABS_MT_TRACKING_ID", 0)
    BY <2>1, <2>4, <2>5 DEF Events, Event
  <2>. QED
    BY <2>1, <2>6 DEF Activating, ToolTypes
<1>4. CASE ReadTouch
  <2>1. pipe # <<>> /\ Head(pipe).type = "BTN_TOUCH"
    BY <1>4 DEF ReadTouch, Next1
  <2>2. Settle(slots, Head(pipe).value # 0)
    BY <1>4 DEF ReadTouch, value
  <2>3. Head(pipe).value # 0
    BY <1>2, <2>2, SettleFacts
  <2>4. Head(pipe) \in Events /\ Head(pipe).value = 1
    <3>1. /\ Head(pipe) \in Events
          /\ Head(pipe).value = IF fingers = <<>> THEN 0 ELSE 1
      BY <1>1, <2>1, HeadFacts DEF Right
    <3>. QED
      BY <2>3, <3>1
  <2>5. Head(pipe) = Event("BTN_TOUCH", 1)
    BY <2>1, <2>4 DEF Events, Event
  <2>. QED
    BY <2>1, <2>5 DEF Activating, ToolTypes
<1>5. CASE ReadSlot \/ ReadPosition \/ ReadTool \/ ReadLeft \/ ReadSyn
  <2>1. slots' = slots /\ btn_touch' = btn_touch
    BY <1>5 DEF ReadSlot, ReadPosition, ReadTool, ReadLeft, ReadSyn, touch
  <2>. QED
    BY <2>1 DEF Active, TouchActive
<1>. QED
  BY <1>3, <1>4, <1>5 DEF Read

\* What a read leaves of the touch, of the count and of the last position.
LEMMA ReadKeeps ==
  ASSUME BaseInv, Read
  PROVE  /\ ReadStep /\ pipe # <<>> /\ active_slot \in Slots
         /\ ReadTool \/ Head(pipe).type \notin ToolTypes
         /\ Active /\ Active' /\ ~ReadTool => finger_count' = finger_count
         /\ last' # None /\ ~ReadSyn => last' = last
         /\ ~ReadPosition => cur' \in {cur, NoPoint}
         /\ Head(pipe).type = "SYN" <=> ReadSyn
         /\ crossed' = crossed /\ shift' = shift
<1>1. ReadStep /\ pipe # <<>> /\ active_slot \in Slots
  BY DEF Read, ReadSlot, ReadTrackingId, ReadPosition, ReadTouch, ReadTool,
         ReadLeft, ReadSyn, Next1, Taken, ReadStep, BaseInv, TouchInv, TouchType
<1>2. crossed' = crossed /\ shift' = shift
  BY <1>1 DEF ReadStep, history
<1>3. CASE ReadSlot \/ ReadPosition \/ ReadLeft
  <2>1. finger_count' = finger_count /\ last' = last /\ (~ReadPosition => cur' = cur)
    BY <1>3 DEF ReadSlot, ReadPosition, ReadLeft, touch
  <2>2. Head(pipe).type \in {"ABS_MT_SLOT", "ABS_MT_POSITION_X",
                             "ABS_MT_POSITION_Y", "ABS_X", "ABS_Y", "BTN_LEFT"}
    BY <1>3 DEF ReadSlot, ReadPosition, ReadLeft, Next1
  <2>3. ~ReadSyn
    BY <2>2 DEF ReadSyn, Next1
  <2>. QED
    BY <1>1, <1>2, <2>1, <2>2, <2>3 DEF ToolTypes
<1>4. CASE ReadTrackingId \/ ReadTouch
  <2>1. PICK S2, b2 : Settle(S2, b2)
    BY <1>4 DEF ReadTrackingId, ReadTouch
  <2>2. /\ Active' => cur' = cur /\ last' = last /\ finger_count' = finger_count
        /\ ~Active' => cur' = NoPoint /\ last' = None /\ finger_count' = 0
    BY <2>1, SettleFacts
  <2>3. Head(pipe).type \in {"ABS_MT_TRACKING_ID", "BTN_TOUCH"}
    BY <1>4 DEF ReadTrackingId, ReadTouch, Next1
  <2>4. ~ReadSyn
    BY <2>3 DEF ReadSyn, Next1
  <2>. QED
    BY <1>1, <1>2, <2>2, <2>3, <2>4 DEF ToolTypes
<1>5. CASE ReadTool
  <2>1. PICK k \in 1..4 :
          /\ Next1({Tools[k]})
          /\ last' = IF NewCount(k) # finger_count THEN None ELSE last
          /\ cur' = cur
    BY <1>5 DEF ReadTool
  <2>2. Head(pipe).type \in ToolTypes
    BY <2>1, ToolFacts DEF Next1
  <2>3. Head(pipe).type # "SYN"
    BY <2>2 DEF ToolTypes
  <2>4. ~ReadSyn
    BY <2>3 DEF ReadSyn, Next1
  <2>. QED
    BY <1>1, <1>2, <1>5, <2>1, <2>3, <2>4
<1>6. CASE ReadSyn
  <2>1. Head(pipe).type = "SYN"
    BY <1>6 DEF ReadSyn, Next1
  <2>2. /\ Active => cur' = cur /\ finger_count' = finger_count
        /\ ~Active => cur' = NoPoint
    BY <1>6 DEF ReadSyn, Active
  <2>. QED
    BY <1>1, <1>2, <1>6, <2>1, <2>2 DEF ToolTypes
<1>. QED
  BY <1>3, <1>4, <1>5, <1>6 DEF Read

\* Reading the event of a tool.
LEMMA ReadToolCount ==
  ASSUME LastSlot <= 3, BaseInv, ReadTool, fingers # <<>>
  PROVE  /\ finger_count = Len(fingers) => finger_count' = Len(fingers)
         /\ Toll => Toll' \/ finger_count' = Len(fingers)
         /\ Toll /\ finger_count # Len(fingers) /\ last' # None =>
              Toll' /\ finger_count' # Len(fingers)
<1>1. PadInv /\ PipeInv /\ active_slot \in Slots /\ finger_count \in 0..4
  BY DEF BaseInv, TouchInv, TouchType
<1>2. PICK k \in 1..4 :
        /\ Next1({Tools[k]}) /\ Taken
        /\ finger_count' = NewCount(k)
        /\ last' = IF NewCount(k) # finger_count THEN None ELSE last
  BY DEF ReadTool
<1>3. ReadStep /\ pipe # <<>> /\ Head(pipe).type = Tools[k]
  BY <1>2 DEF Next1, Taken, ReadStep
<1>4. PICK n \in 1..4 : n = Len(fingers)
  BY <1>1, Fits DEF PadInv
<1>5. Head(pipe).value = IF n = k THEN 1 ELSE 0
  BY <1>1, <1>3, <1>4, HeadFacts DEF Right
<1>6. finger_count' = IF n = k THEN k
                      ELSE IF finger_count = k THEN k - 1 ELSE finger_count
  <2>1. NewCount(k) = IF Head(pipe).value # 0 THEN k
                      ELSE IF finger_count = k THEN k - 1 ELSE finger_count
    BY Zenon DEF NewCount, value
  <2>2. n = k => Head(pipe).value # 0
    BY <1>5
  <2>3. n # k => ~(Head(pipe).value # 0)
    BY <1>5
  <2>. QED
    BY <1>2, <2>1, <2>2, <2>3, Zenon
<1>7. Pending = {Head(pipe)} \cup Pending' /\ fingers' = fingers
  BY <1>1, <1>3, ReadPending
<1>8. Event(Tools[n], 1).type = Tools[n]
  BY DEF Event
<1>9. ASSUME Toll, n # k PROVE Toll'
  <2>1. Tools[n] # Tools[k]
    BY <1>9, ToolFacts
  <2>2. Event(Tools[n], 1) \in Pending'
    BY <1>3, <1>4, <1>7, <1>8, <1>9, <2>1 DEF Toll
  <2>. QED
    BY <1>4, <1>7, <2>2 DEF Toll
<1>10. ASSUME Toll, finger_count # n, last' # None
       PROVE  n # k /\ finger_count' = finger_count
  BY <1>2, <1>6, <1>10
<1>. QED
  BY <1>4, <1>6, <1>9, <1>10

\* A pending tool event stays pending until it is read.
LEMMA TollStays ==
  ASSUME BaseInv, Read, ~ReadTool, LastSlot <= 3, Toll
  PROVE  Toll'
<1>1. PadInv /\ PipeInv /\ active_slot \in Slots
  BY DEF BaseInv, TouchInv, TouchType
<1>2. ReadStep /\ Head(pipe).type \notin ToolTypes
  BY ReadKeeps
<1>3. Pending = {Head(pipe)} \cup Pending' /\ fingers' = fingers
  BY <1>1, <1>2, ReadPending
<1>4. PICK n \in 1..4 : n = Len(fingers)
  BY <1>1, Fits DEF PadInv, Toll
<1>5. Event(Tools[n], 1).type \in ToolTypes
  BY ToolFacts DEF Event
<1>6. Event(Tools[n], 1) \in Pending'
  BY <1>2, <1>3, <1>4, <1>5 DEF Toll
<1>. QED
  BY <1>3, <1>4, <1>6 DEF Toll

LEMMA ReadCount ==
  ASSUME LastSlot <= 3, BaseInv, CountInv, Read
  PROVE  CountInv'
<1>1. PadInv /\ PipeInv /\ active_slot \in Slots
  BY DEF BaseInv, TouchInv, TouchType
<1>2. /\ ReadStep /\ pipe # <<>>
      /\ Active /\ Active' /\ ~ReadTool => finger_count' = finger_count
  BY ReadKeeps
<1>3. Pending = {Head(pipe)} \cup Pending' /\ fingers' = fingers
  BY <1>1, <1>2, ReadPending
<1>4. SUFFICES ASSUME Active', fingers # <<>>
               PROVE  Toll' \/ finger_count' = Len(fingers)
  BY <1>3 DEF CountInv
<1>5. CASE Active /\ ReadTool
  <2>1. Toll \/ finger_count = Len(fingers)
    BY <1>4, <1>5 DEF CountInv
  <2>. QED
    BY <1>4, <1>5, <2>1, ReadToolCount
<1>6. CASE Active /\ ~ReadTool
  <2>1. Toll \/ finger_count = Len(fingers)
    BY <1>4, <1>6 DEF CountInv
  <2>2. finger_count' = finger_count
    BY <1>2, <1>4, <1>6
  <2>. QED
    BY <1>6, <2>1, <2>2, TollStays
<1>7. CASE ~Active
  <2>1. Head(pipe) \in Activating /\ Head(pipe).type \notin ToolTypes
    BY <1>4, <1>7, Activated
  <2>2. Rest(pipe, fingers, pointer, slot, clicked)
    BY <1>1 DEF PipeInv
  <2>3. Head(pipe) \in ToSet(pipe)
    BY <1>3 DEF Pending
  <2>4. Len(fingers) <= 4 => Event(Tools[Len(fingers)], 1) \in Pending
    BY <2>1, <2>2, <2>3, RestEvents DEF Pending
  <2>5. PICK n \in 1..4 : n = Len(fingers)
    BY <1>1, <1>4, Fits DEF PadInv
  <2>6. Toll
    BY <1>4, <2>4, <2>5 DEF Toll
  <2>7. ~ReadTool
    <3>1. ReadTool => Head(pipe).type \in ToolTypes
      BY ToolFacts DEF ReadTool, Next1
    <3>. QED
      BY <2>1, <3>1
  <2>. QED
    BY <2>6, <2>7, TollStays
<1>. QED
  BY <1>5, <1>6, <1>7

\* Between two frames, and at the end of one, an active touch is counted.
LEMMA RestCount ==
  ASSUME LastSlot <= 3, BaseInv, CountInv, \A e \in Pending : e.type = "SYN"
  PROVE  /\ ~Toll
         /\ Active => fingers # <<>> /\ finger_count = Len(fingers)
<1>1. PadInv /\ TouchRest
  BY DEF BaseInv, TouchInv
<1>2. ~Toll
  <2>1. SUFFICES ASSUME Toll PROVE FALSE
    OBVIOUS
  <2>2. PICK n \in 1..4 : n = Len(fingers)
    BY <1>1, <2>1, Fits DEF PadInv, Toll
  <2>3. Event(Tools[n], 1) \in Pending /\ Event(Tools[n], 1).type \in ToolTypes
    BY <2>1, <2>2, ToolFacts DEF Toll, Event
  <2>. QED
    BY <2>3 DEF ToolTypes
<1>3. ASSUME Active PROVE fingers # <<>>
  <2>1. slots # {} \/ btn_touch
    BY <1>3 DEF Active, TouchActive
  <2>2. \A s \in slots : s \in ToSet(fingers)
    BY <1>1, OtherEvents DEF TouchRest
  <2>3. btn_touch => fingers # <<>>
    BY <1>1, OtherEvents DEF TouchRest
  <2>. QED
    BY <2>1, <2>2, <2>3, NilFacts
<1>. QED
  BY <1>2, <1>3 DEF CountInv

\* ... and its position is the pointer's.
LEMMA RestCur ==
  ASSUME BaseInv, CurInv, Active, ~crossed, \A e \in Pending : e.type = "SYN"
  PROVE  cur[1] \in {None, pointer[1]} /\ cur[2] \in {None, pointer[2]}
<1>1. ~Deaf
  BY DEF Deaf
<1>2. /\ Event("ABS_X", pointer[1]) \notin Pending
      /\ Event("ABS_Y", pointer[2]) \notin Pending
  BY DEF Event
<1>. QED
  BY <1>1, <1>2 DEF CurInv

LEMMA FrameFinger ==
  ASSUME LastSlot <= 3, BaseInv, CountInv, CurInv, pipe = <<>>,
         NEW se, NEW F2, NEW at2, NEW s2,
         Frame(se, F2, at2), slot' = s2, Says(se, F2, at2, s2),
         fingers # <<>> /\ crossed => crossed'
  PROVE  /\ CountInv' /\ CurInv'
         /\ last' # None => last' = last /\ fingers # <<>>
         /\ last' # None /\ Len(F2) # Len(fingers) =>
              F2 = <<>> \/ (Toll' /\ finger_count' # Len(F2))
<1>1. /\ fingers' = F2 /\ pointer' = Pointed(F2, at2) /\ pipe' # <<>>
      /\ Len(fingers) # Len(F2) /\ Len(F2) \in 1..4 =>
           Event(Tools[Len(F2)], 1) \in Pending'
      /\ pointer[1] # pointer'[1] => Event("ABS_X", pointer'[1]) \in Pending'
      /\ pointer[2] # pointer'[2] => Event("ABS_Y", pointer'[2]) \in Pending'
  BY FrameSays
<1>2. UNCHANGED <<clicked, touch, pending_scroll, forwarded, held_buttons>>
  BY DEF Frame
<1>3. /\ slots' = slots /\ btn_touch' = btn_touch /\ cur' = cur /\ last' = last
      /\ finger_count' = finger_count /\ (Active' <=> Active)
  BY <1>2 DEF touch, Active, TouchActive
<1>4. Pending = {} /\ (Active \/ cur = NoPoint)
  BY AtRest
<1>5. Active => fingers # <<>> /\ finger_count = Len(fingers)
  BY <1>4, RestCount
<1>6. F2 # <<>> => Len(F2) \in 1..4
  BY Fits DEF Says
<1>7. last' # None => last' = last /\ fingers # <<>> /\ Active
  BY <1>3, <1>5 DEF BaseInv, TouchInv, TouchRest
<1>8. Len(F2) # Len(fingers) => F2 = <<>> \/ Toll'
  BY <1>1, <1>6 DEF Toll
<1>9. CountInv'
  <2>1. SUFFICES ASSUME Active', F2 # <<>>
                 PROVE  Toll' \/ finger_count' = Len(F2)
    BY <1>1 DEF CountInv
  <2>. QED
    BY <1>3, <1>5, <1>8, <2>1
<1>10. CurInv'
  <2>1. SUFFICES ASSUME ~crossed'
                 PROVE  /\ cur[1] \in {None, pointer[1]}
                        /\ cur[2] \in {None, pointer[2]}
    BY <1>1, <1>3 DEF CurInv
  <2>2. CASE Active
    <3>1. ~crossed
      BY <1>5, <2>1, <2>2
    <3>. QED
      BY <1>4, <2>2, <3>1, RestCur
  <2>3. CASE ~Active
    <3>1. cur[1] = None /\ cur[2] = None
      BY <1>4, <2>3, NoPointFacts
    <3>. QED
      BY <3>1
  <2>. QED
    BY <2>2, <2>3
<1>11. last' # None /\ Len(F2) # Len(fingers) =>
         F2 = <<>> \/ (Toll' /\ finger_count' # Len(F2))
  BY <1>3, <1>5, <1>7, <1>8
<1>. QED
  BY <1>7, <1>9, <1>10, <1>11

\* What was reported before is not reported again.
LEMMA Quiet ==
  ASSUME out' = Nothing \/ out'.type = "MouseButton"
  PROVE  PointerMovesWithOneFinger' /\ out'.type # "MouseMove"
         /\ out'.type # "MouseScroll"
<1>1. Nothing.type = "None"
  BY DEF Nothing
<1>. QED
  BY <1>1 DEF PointerMovesWithOneFinger

LEMMA LandFinger ==
  ASSUME LastSlot <= 3, BaseInv, FingerInv, NEW p \in Points, Land(p)
  PROVE  FingerInv'
<1>1. PICK se, F2, at2 : \E s \in Slots :
           /\ Frame(se, F2, at2) /\ slot' = s /\ Says(se, F2, at2, s)
           /\ F2 # <<>> /\ Len(F2) = Len(fingers) + 1
           /\ crossed' = IF fingers = <<>> THEN FALSE ELSE crossed \/ s = 0
  BY LandFrame
<1>2. PICK s \in Slots :
           /\ Frame(se, F2, at2) /\ slot' = s /\ Says(se, F2, at2, s)
           /\ F2 # <<>> /\ Len(F2) = Len(fingers) + 1
           /\ crossed' = IF fingers = <<>> THEN FALSE ELSE crossed \/ s = 0
  BY <1>1
<1>3. pipe = <<>> /\ shift' = Still /\ out' = Nothing
  BY DEF Land, Frame
<1>4. CountInv /\ CurInv
  BY DEF FingerInv
<1>5. fingers' = F2 /\ pipe' # <<>>
  BY <1>2, <1>3, FrameSays
<1>6. fingers # <<>> /\ crossed => crossed'
  BY <1>2
<1>7. PICK m \in Nat : m = Len(fingers)
  BY DEF BaseInv, PadInv
<1>8. Len(F2) # Len(fingers)
  BY <1>2, <1>7
<1>9. /\ CountInv' /\ CurInv'
      /\ last' # None => F2 = <<>> \/ (Toll' /\ finger_count' # Len(F2))
  BY <1>2, <1>3, <1>4, <1>6, <1>8, FrameFinger
<1>10. LastInv'
  BY <1>5, <1>9 DEF LastInv
<1>11. ShiftType'
  BY <1>3 DEF ShiftType, Still
<1>. QED
  BY <1>3, <1>9, <1>10, <1>11, Quiet DEF FingerInv

LEMMA LiftFinger ==
  ASSUME LastSlot <= 3, BaseInv, FingerInv, NEW i \in DOMAIN fingers, Lift(i)
  PROVE  FingerInv'
<1>1. PICK se, F2 : \E s \in Slots :
           /\ Frame(se, F2, at) /\ slot' = s /\ Says(se, F2, at, s)
           /\ Len(F2) = Len(fingers) - 1
  BY LiftFrame
<1>2. PICK s \in Slots :
           /\ Frame(se, F2, at) /\ slot' = s /\ Says(se, F2, at, s)
           /\ Len(F2) = Len(fingers) - 1
  BY <1>1
<1>3. pipe = <<>> /\ shift' = Still /\ out' = Nothing /\ crossed' = crossed
  BY DEF Lift, Frame
<1>4. CountInv /\ CurInv
  BY DEF FingerInv
<1>5. fingers' = F2 /\ pipe' # <<>>
  BY <1>2, <1>3, FrameSays
<1>7. PICK m \in Nat : m = Len(fingers)
  BY DEF BaseInv, PadInv
<1>8. Len(F2) # Len(fingers)
  BY <1>2, <1>7
<1>9. /\ CountInv' /\ CurInv'
      /\ last' # None => F2 = <<>> \/ (Toll' /\ finger_count' # Len(F2))
  BY <1>2, <1>3, <1>4, <1>8, FrameFinger
<1>10. LastInv'
  BY <1>5, <1>9 DEF LastInv
<1>11. ShiftType'
  BY <1>3 DEF ShiftType, Still
<1>. QED
  BY <1>3, <1>9, <1>10, <1>11, Quiet DEF FingerInv

LEMMA MoveFinger ==
  ASSUME LastSlot <= 3, BaseInv, FingerInv, NEW at2 \in [Slots -> Points],
         Move(at2)
  PROVE  FingerInv'
<1>1. PICK se : \E s \in Slots :
           /\ Frame(se, fingers, at2) /\ slot' = s /\ Says(se, fingers, at2, s)
           /\ fingers # <<>>
  BY MoveFrame
<1>2. PICK s \in Slots :
           /\ Frame(se, fingers, at2) /\ slot' = s /\ Says(se, fingers, at2, s)
           /\ fingers # <<>>
  BY <1>1
<1>3. pipe = <<>> /\ out' = Nothing /\ crossed' = crossed
  BY DEF Move, Frame
<1>4. CountInv /\ CurInv /\ LastInv
  BY DEF FingerInv
<1>5. /\ fingers' = fingers /\ pipe' # <<>> /\ pointer' = Pointed(fingers, at2)
  BY <1>2, <1>3, FrameSays
<1>6. /\ CountInv' /\ CurInv'
      /\ last' # None => last' = last
  BY <1>2, <1>3, <1>4, FrameFinger
<1>7. PICK f \in Slots : f = fingers[1]
  <2>1. fingers \in Seq(Slots)
    BY DEF BaseInv, PadInv
  <2>. QED
    BY <1>2, <2>1, TailFacts
<1>8. /\ pointer' = at2[f]
      /\ shift' = <<at2[f][1] - at[f][1], at2[f][2] - at[f][2]>>
  BY <1>2, <1>5, <1>7 DEF Move, Pointed
<1>9. /\ at2[f][1] \in Int /\ at2[f][2] \in Int
      /\ at[f][1] \in Int /\ at[f][2] \in Int
  <2>1. at \in [Slots -> Points]
    BY DEF BaseInv, PadInv
  <2>2. at2[f] \in Points /\ at[f] \in Points
    BY <2>1
  <2>. QED
    BY <2>2, PointFacts
<1>10. ShiftType'
  BY <1>8, <1>9 DEF ShiftType
<1>11. ASSUME last' # None, ~crossed'
       PROVE  /\ last'[1] + shift'[1] = pointer'[1]
              /\ last'[2] + shift'[2] = pointer'[2]
  <2>1. last # None /\ last' = last /\ ~crossed
    BY <1>3, <1>6, <1>11
  <2>2. last[1] = pointer[1] /\ last[2] = pointer[2]
    BY <1>3, <1>4, <2>1 DEF LastInv
  <2>3. pointer = at[f]
    BY <1>2, <1>7, <2>1 DEF BaseInv, PadInv
  <2>4. shift'[1] = at2[f][1] - at[f][1] /\ shift'[2] = at2[f][2] - at[f][2]
    BY <1>8
  <2>. QED
    BY <1>8, <1>9, <2>1, <2>2, <2>3, <2>4
<1>12. LastInv'
  BY <1>5, <1>11 DEF LastInv
<1>. QED
  BY <1>3, <1>6, <1>10, <1>12, Quiet DEF FingerInv

LEMMA ClickFinger ==
  ASSUME LastSlot <= 3, BaseInv, FingerInv, Click
  PROVE  FingerInv'
<1>1. /\ pipe' # <<>> /\ \A e \in Pending' : e \notin Activating
  BY ClickFrame
<1>2. /\ pipe = <<>> /\ out' = Nothing /\ shift' = Still
      /\ UNCHANGED <<fingers, pointer, touch, crossed>>
  BY DEF Click
<1>3. CountInv /\ CurInv /\ LastInv
  BY DEF FingerInv
<1>4. /\ slots' = slots /\ btn_touch' = btn_touch /\ cur' = cur /\ last' = last
      /\ finger_count' = finger_count /\ (Active' <=> Active)
  BY <1>2 DEF touch, Active, TouchActive
<1>5. Pending = {}
  BY <1>2, AtRest
<1>6. Active => fingers # <<>> /\ finger_count = Len(fingers)
  BY <1>3, <1>5, RestCount
<1>7. CountInv'
  BY <1>2, <1>4, <1>6 DEF CountInv
<1>8. CurInv'
  <2>1. SUFFICES ASSUME ~crossed', ~Deaf'
                 PROVE  /\ cur[1] \in {None, pointer[1]}
                        /\ cur[2] \in {None, pointer[2]}
    BY <1>2, <1>4 DEF CurInv
  <2>2. Active /\ ~crossed
    BY <1>1, <1>2, <1>4, <2>1 DEF Deaf
  <2>. QED
    BY <1>3, <1>5, <2>2, RestCur
<1>9. ShiftType'
  BY <1>2 DEF ShiftType, Still
<1>10. LastInv'
  <2>1. SUFFICES ASSUME last # None, ~crossed
                 PROVE  /\ last[1] + shift'[1] = pointer[1]
                        /\ last[2] + shift'[2] = pointer[2]
    BY <1>1, <1>2, <1>4 DEF LastInv
  <2>2. last[1] = pointer[1] /\ last[2] = pointer[2]
    BY <1>2, <1>3, <2>1 DEF LastInv
  <2>3. pointer[1] \in Int /\ pointer[2] \in Int
    BY PointFacts DEF BaseInv, PadInv
  <2>4. shift'[1] = 0 /\ shift'[2] = 0
    BY <1>2 DEF Still
  <2>. QED
    BY <2>2, <2>3, <2>4
<1>. QED
  BY <1>2, <1>7, <1>8, <1>9, <1>10, Quiet DEF FingerInv

LEMMA GrabFinger ==
  ASSUME FingerInv, Grab
  PROVE  FingerInv'
<1>1. /\ slots' = {} /\ btn_touch' = FALSE /\ cur' = NoPoint /\ last' = None
      /\ out' = Nothing /\ shift' = shift
  BY DEF Grab
<1>2. ~Active'
  BY <1>1 DEF Active, TouchActive
<1>3. CountInv'
  BY <1>2 DEF CountInv
<1>4. CurInv'
  <2>1. cur'[1] = None /\ cur'[2] = None
    BY <1>1, NoPointFacts
  <2>. QED
    BY <2>1 DEF CurInv
<1>5. LastInv'
  BY <1>1 DEF LastInv
<1>6. ShiftType'
  BY <1>1 DEF FingerInv, ShiftType
<1>. QED
  BY <1>1, <1>3, <1>4, <1>5, <1>6, Quiet DEF FingerInv

LEMMA ForwardingFinger ==
  ASSUME FingerInv, ForwardingBegins \/ ForwardingEnds
  PROVE  FingerInv'
<1>1. /\ UNCHANGED <<fingers, at, pointer, slot, clicked>>
      /\ UNCHANGED <<slots, active_slot, btn_touch, finger_count, cur, last>>
      /\ UNCHANGED <<pipe, shift, crossed>> /\ out' = Nothing
  BY DEF ForwardingBegins, ForwardingEnds, pad, touch
<1>2. CountInv' /\ CurInv'
  BY <1>1 DEF FingerInv, CountInv, Toll, CurInv, Deaf, Active, TouchActive, Pending
<1>3. LastInv'
  BY <1>1 DEF FingerInv, LastInv, Toll, Pending
<1>4. ShiftType'
  BY <1>1 DEF FingerInv, ShiftType
<1>. QED
  BY <1>1, <1>2, <1>3, <1>4, Quiet DEF FingerInv

\* A read position is the pointer's, or the touch is not taken.
LEMMA ReadPositionPointer ==
  ASSUME BaseInv, ReadPosition, ~crossed
  PROVE  /\ Head(pipe).type \in {"ABS_MT_POSITION_X", "ABS_MT_POSITION_Y",
                                 "ABS_X", "ABS_Y"}
         /\ \/ cur' = cur /\ Head(pipe).type \notin {"ABS_X", "ABS_Y"}
            \/ cur' = cur /\ ~Active /\ Head(pipe).type \in {"ABS_X", "ABS_Y"}
            \/ /\ cur' = [cur EXCEPT ![1] = pointer[1]]
               /\ Head(pipe).type # "ABS_Y"
            \/ /\ cur' = [cur EXCEPT ![2] = pointer[2]]
               /\ Head(pipe).type # "ABS_X"
<1>1. PadInv /\ PipeInv /\ active_slot \in Slots
  BY DEF BaseInv, TouchInv, TouchType
<1>2. CASE Next1({"ABS_MT_POSITION_X", "ABS_MT_POSITION_Y"})
           /\ LET axis == IF Head(pipe).type = "ABS_MT_POSITION_X" THEN 1 ELSE 2 IN
              cur' = IF active_slot = 0 THEN [cur EXCEPT ![axis] = value] ELSE cur
  <2>1. pipe # <<>> /\ Head(pipe).type \in {"ABS_MT_POSITION_X", "ABS_MT_POSITION_Y"}
    BY <1>2 DEF Next1
  <2>2. CASE active_slot # 0
    <3>1. cur' = cur
      BY <1>2, <2>2
    <3>. QED
      BY <2>1, <3>1
  <2>3. ASSUME active_slot = 0, NEW c \in ToSet(fingers), c = active_slot \/ Lost
        PROVE  pointer = at[c]
    <3>1. fingers # <<>>
      BY <2>3, NilFacts
    <3>2. ~Lost
      BY <2>1, <3>1 DEF Lost
    <3>3. c = 0 /\ 0 \in ToSet(fingers)
      BY <2>3, <3>2
    <3>. QED
      BY <1>1, <3>1, <3>3 DEF PadInv
  <2>4. CASE active_slot = 0 /\ Head(pipe).type = "ABS_MT_POSITION_X"
    <3>1. PICK c \in ToSet(fingers) :
            Head(pipe).value = at[c][1] /\ (c = active_slot \/ Lost)
      BY <1>1, <2>1, <2>4, HeadFacts
    <3>2. Head(pipe).value = pointer[1]
      BY <2>3, <2>4, <3>1
    <3>3. cur' = [cur EXCEPT ![1] = pointer[1]]
      BY <1>2, <2>4, <3>2 DEF value
    <3>. QED
      BY <2>4, <3>3
  <2>5. CASE active_slot = 0 /\ Head(pipe).type = "ABS_MT_POSITION_Y"
    <3>1. PICK c \in ToSet(fingers) :
            Head(pipe).value = at[c][2] /\ (c = active_slot \/ Lost)
      BY <1>1, <2>1, <2>5, HeadFacts
    <3>2. Head(pipe).value = pointer[2]
      BY <2>3, <2>5, <3>1
    <3>3. cur' = [cur EXCEPT ![2] = pointer[2]]
      BY <1>2, <2>5, <3>2 DEF value
    <3>. QED
      BY <2>5, <3>3
  <2>. QED
    BY <2>1, <2>2, <2>4, <2>5
<1>3. CASE Next1({"ABS_X", "ABS_Y"})
           /\ LET axis == IF Head(pipe).type = "ABS_X" THEN 1 ELSE 2 IN
              cur' = IF TouchActive(slots, btn_touch)
                     THEN [cur EXCEPT ![axis] = value] ELSE cur
  <2>1. pipe # <<>> /\ Head(pipe).type \in {"ABS_X", "ABS_Y"}
    BY <1>3 DEF Next1
  <2>2. /\ Head(pipe).type = "ABS_X" => Head(pipe).value = pointer[1]
        /\ Head(pipe).type = "ABS_Y" => Head(pipe).value = pointer[2]
    BY <1>1, <2>1, HeadFacts DEF Right
  <2>3. CASE ~Active
    <3>1. cur' = cur
      BY <1>3, <2>3 DEF Active
    <3>. QED
      BY <2>1, <2>3, <3>1
  <2>4. CASE Active /\ Head(pipe).type = "ABS_X"
    <3>1. cur' = [cur EXCEPT ![1] = pointer[1]]
      BY <1>3, <2>2, <2>4 DEF Active, value
    <3>. QED
      BY <2>4, <3>1
  <2>5. CASE Active /\ Head(pipe).type = "ABS_Y"
    <3>1. cur' = [cur EXCEPT ![2] = pointer[2]]
      BY <1>3, <2>2, <2>5 DEF Active, value
    <3>. QED
      BY <2>5, <3>1
  <2>. QED
    BY <2>1, <2>3, <2>4, <2>5
<1>. QED
  BY <1>2, <1>3 DEF ReadPosition

LEMMA ReadCur ==
  ASSUME BaseInv, CurInv, Read
  PROVE  CurInv'
<1>1. PadInv /\ PipeInv /\ active_slot \in Slots /\ cur \in [1..2 -> Coordinates \cup {None}]
  BY DEF BaseInv, TouchInv, TouchType
<1>2. /\ ReadStep /\ pipe # <<>> /\ crossed' = crossed
      /\ ~ReadPosition => cur' \in {cur, NoPoint}
  BY ReadKeeps
<1>3. /\ Pending = {Head(pipe)} \cup Pending' /\ pointer' = pointer
      /\ \A e \in Pending' : Rank(Head(pipe)) <= Rank(e)
  BY <1>1, <1>2, ReadPending
<1>4. SUFFICES ASSUME ~crossed, ~Deaf'
               PROVE  /\ cur'[1] \in {None, pointer[1]}
                           \/ Event("ABS_X", pointer[1]) \in Pending'
                      /\ cur'[2] \in {None, pointer[2]}
                           \/ Event("ABS_Y", pointer[2]) \in Pending'
  BY <1>2, <1>3 DEF CurInv
<1>5. ~Deaf
  <2>1. SUFFICES ASSUME Deaf PROVE FALSE
    OBVIOUS
  <2>2. Active'
    BY <1>3, <1>4, <2>1 DEF Deaf
  <2>3. Head(pipe) \in Activating
    BY <2>1, <2>2, Activated DEF Deaf
  <2>. QED
    BY <1>3, <2>1, <2>3 DEF Deaf
<1>6. /\ cur[1] \in {None, pointer[1]} \/ Event("ABS_X", pointer[1]) \in Pending
      /\ cur[2] \in {None, pointer[2]} \/ Event("ABS_Y", pointer[2]) \in Pending
  BY <1>4, <1>5 DEF CurInv
<1>7. /\ Head(pipe).type # "ABS_X" /\ Event("ABS_X", pointer[1]) \in Pending =>
           Event("ABS_X", pointer[1]) \in Pending'
      /\ Head(pipe).type # "ABS_Y" /\ Event("ABS_Y", pointer[2]) \in Pending =>
           Event("ABS_Y", pointer[2]) \in Pending'
  BY <1>3 DEF Event
<1>8. CASE ~ReadPosition
  <2>1. Head(pipe).type \notin {"ABS_X", "ABS_Y"}
    BY <1>8, ToolFacts
    DEF Read, ReadSlot, ReadTrackingId, ReadTouch, ReadTool, ReadLeft, ReadSyn,
        Next1, ToolTypes
  <2>2. cur'[1] \in {cur[1], None} /\ cur'[2] \in {cur[2], None}
    BY <1>2, <1>8, NoPointFacts
  <2>. QED
    BY <1>6, <1>7, <2>1, <2>2
<1>9. CASE ReadPosition /\ ~Active /\ Head(pipe).type \in {"ABS_X", "ABS_Y"}
  <2>1. ~Active'
    <3>1. Active' <=> Active
      BY <1>9 DEF ReadPosition, Active, TouchActive
    <3>. QED
      BY <1>9, <3>1
  <2>2. PICK e \in Pending' : e \in Activating
    BY <1>4, <2>1 DEF Deaf
  <2>3. Rank(Head(pipe)) = 4
    BY <1>9 DEF Rank, SlotTypes, ToolTypes
  <2>4. Rank(e) <= 2 /\ Rank(e) \in 1..5 /\ 4 <= Rank(e)
    BY <1>3, <2>2, <2>3, ActivatingRank, RankFacts
  <2>. QED
    BY <2>4
<1>10. CASE ReadPosition /\ ~(~Active /\ Head(pipe).type \in {"ABS_X", "ABS_Y"})
  <2>1. \/ cur' = cur /\ Head(pipe).type \notin {"ABS_X", "ABS_Y"}
        \/ cur' = [cur EXCEPT ![1] = pointer[1]] /\ Head(pipe).type # "ABS_Y"
        \/ cur' = [cur EXCEPT ![2] = pointer[2]] /\ Head(pipe).type # "ABS_X"
    BY <1>4, <1>10, ReadPositionPointer
  <2>2. CASE cur' = cur /\ Head(pipe).type \notin {"ABS_X", "ABS_Y"}
    BY <1>6, <1>7, <2>2
  <2>3. CASE cur' = [cur EXCEPT ![1] = pointer[1]] /\ Head(pipe).type # "ABS_Y"
    <3>1. cur'[1] = pointer[1] /\ cur'[2] = cur[2]
      BY <1>1, <2>3
    <3>. QED
      BY <1>6, <1>7, <2>3, <3>1
  <2>4. CASE cur' = [cur EXCEPT ![2] = pointer[2]] /\ Head(pipe).type # "ABS_X"
    <3>1. cur'[2] = pointer[2] /\ cur'[1] = cur[1]
      BY <1>1, <2>4
    <3>. QED
      BY <1>6, <1>7, <2>4, <3>1
  <2>. QED
    BY <2>1, <2>2, <2>3, <2>4
<1>. QED
  BY <1>8, <1>9, <1>10

\* At the end of a frame only SYN is left.
LEMMA SynPending ==
  ASSUME BaseInv, ReadSyn
  PROVE  /\ \A e \in Pending : e.type = "SYN"
         /\ pipe # <<>> /\ pipe' = <<>> /\ pointer' = pointer /\ fingers' = fingers
         /\ crossed' = crossed /\ shift' = shift
<1>1. PadInv /\ PipeInv /\ active_slot \in Slots
  BY DEF BaseInv, TouchInv, TouchType
<1>2. ReadStep /\ Head(pipe).type = "SYN" /\ pipe # <<>>
  BY DEF ReadSyn, Next1, Taken, ReadStep
<1>3. /\ Pending = {Head(pipe)} \cup Pending' /\ Pending' = {} /\ pipe' = <<>>
      /\ pointer' = pointer /\ fingers' = fingers
  BY <1>1, <1>2, ReadPending
<1>. QED
  BY <1>2, <1>3 DEF ReadStep, history

LEMMA ReadLast ==
  ASSUME LastSlot <= 3, BaseInv, FingerInv, Read
  PROVE  LastInv'
<1>1. PadInv /\ PipeInv /\ active_slot \in Slots /\ TouchRest
  BY DEF BaseInv, TouchInv, TouchType
<1>2. /\ ReadStep /\ pipe # <<>> /\ crossed' = crossed /\ shift' = shift
      /\ Active /\ Active' /\ ~ReadTool => finger_count' = finger_count
      /\ last' # None /\ ~ReadSyn => last' = last
      /\ Head(pipe).type = "SYN" <=> ReadSyn
  BY ReadKeeps
<1>3. /\ Pending = {Head(pipe)} \cup Pending' /\ fingers' = fingers
      /\ pointer' = pointer /\ (pipe' = <<>> <=> Head(pipe).type = "SYN")
  BY <1>1, <1>2, ReadPending
<1>4. CountInv /\ CurInv /\ LastInv
  BY DEF FingerInv
<1>5. CASE ReadSyn
  <2>1. last' = IF Active THEN IF None \notin {cur[1], cur[2]} THEN cur ELSE last
                          ELSE None
    BY <1>5 DEF ReadSyn, Active
  <2>2. ASSUME last' # None, ~crossed
        PROVE  last'[1] = pointer[1] /\ last'[2] = pointer[2]
    <3>1. Active
      BY <2>1, <2>2
    <3>2. None \notin {cur[1], cur[2]} /\ last' = cur
      BY <1>1, <2>1, <2>2, <3>1 DEF TouchRest
    <3>3. cur[1] \in {None, pointer[1]} /\ cur[2] \in {None, pointer[2]}
      BY <1>4, <1>5, <2>2, <3>1, RestCur, SynPending
    <3>. QED
      BY <3>2, <3>3
  <2>3. pipe' = <<>>
    BY <1>2, <1>3, <1>5
  <2>. QED
    BY <1>2, <1>3, <2>2, <2>3 DEF LastInv
<1>6. CASE ~ReadSyn
  <2>1. pipe' # <<>>
    BY <1>2, <1>3, <1>6
  <2>2. SUFFICES ASSUME last' # None, ~crossed, fingers # <<>>,
                        Toll, finger_count # Len(fingers)
                 PROVE  Toll' /\ finger_count' # Len(fingers)
    <3>1. last' # None => last' = last
      BY <1>2, <1>6
    <3>. QED
      BY <1>2, <1>3, <1>4, <2>1, <2>2, <3>1 DEF LastInv
  <2>3. CASE ReadTool
    BY <2>2, <2>3, ReadToolCount
  <2>4. CASE ~ReadTool
    <3>1. Active
      BY <1>1, <1>2, <1>6, <2>2 DEF TouchRest
    <3>2. Active'
      <4>1. BaseInv'
        BY ReadBase
      <4>. QED
        BY <2>2, <4>1 DEF BaseInv, TouchInv, TouchRest
    <3>. QED
      BY <1>2, <2>2, <2>4, <3>1, <3>2, TollStays
  <2>. QED
    BY <2>3, <2>4
<1>. QED
  BY <1>5, <1>6

\* What the end of a frame returns.
LEMMA SynReturns ==
  ASSUME LastSlot <= 3, BaseInv, FingerInv, ReadSyn
  PROVE  /\ PointerMovesWithOneFinger'
         /\ Delta # Still /\ ~crossed => Delta = <<shift[1], shift[2]>>
<1>1. TouchInv /\ CountInv /\ CurInv /\ LastInv /\ TouchRest /\ TouchType
  BY DEF BaseInv, FingerInv, TouchInv
<1>2. /\ \A e \in Pending : e.type = "SYN"
      /\ pipe # <<>> /\ fingers' = fingers
  BY SynPending
<1>3. /\ ~Toll
      /\ Active => fingers # <<>> /\ finger_count = Len(fingers)
  BY <1>1, <1>2, RestCount
<1>4. PICK x, y \in Int :
           /\ x = IF finger_count >= 2 THEN pending_scroll[1] - Delta[1]
                                       ELSE pending_scroll[1]
           /\ y = IF finger_count >= 2 THEN pending_scroll[2] - Delta[2]
                                       ELSE pending_scroll[2]
           /\ out' = IF <<Trunc(x), Trunc(y)>> # Still
                     THEN [type |-> "MouseScroll", by |-> <<Trunc(x), Trunc(y)>>]
                     ELSE IF Delta # Still /\ finger_count < 2
                     THEN [type |-> "MouseMove", by |-> <<2 * Delta[1], 2 * Delta[2]>>]
                     ELSE Nothing
  BY <1>1, SynScroll
<1>5. /\ Delta[1] \in Int /\ Delta[2] \in Int
      /\ Delta # Still => /\ Active /\ last # None
                          /\ Delta = <<cur[1] - last[1], cur[2] - last[2]>>
  BY <1>1, DeltaFacts
<1>6. /\ pending_scroll[1] \in (1 - Notch)..(Notch - 1)
      /\ pending_scroll[2] \in (1 - Notch)..(Notch - 1)
  BY <1>1 DEF TouchType
<1>7. ASSUME <<Trunc(x), Trunc(y)>> # Still
      PROVE  finger_count >= 2 /\ Delta # Still
  <2>1. ~(x = pending_scroll[1] /\ y = pending_scroll[2])
    <3>1. SUFFICES ASSUME x = pending_scroll[1], y = pending_scroll[2] PROVE FALSE
      OBVIOUS
    <3>2. Trunc(x) = 0 /\ Trunc(y) = 0
      BY <1>6, <3>1, TruncFacts
    <3>. QED
      BY <1>7, <3>2 DEF Still
  <2>2. finger_count >= 2
    BY <1>4, <2>1
  <2>3. Delta # Still
    <3>1. SUFFICES ASSUME Delta = Still PROVE FALSE
      OBVIOUS
    <3>2. Delta[1] = 0 /\ Delta[2] = 0
      BY <3>1 DEF Still
    <3>3. x = pending_scroll[1] - 0 /\ y = pending_scroll[2] - 0
      BY <1>4, <2>2, <3>2
    <3>4. Notch \in Nat
      BY TouchpadAssumption
    <3>. QED
      BY <1>6, <2>1, <3>3, <3>4
  <2>. QED
    BY <2>2, <2>3
<1>8. PICK n \in Nat : n = Len(fingers) /\ (fingers # <<>> => n # 0)
  <2>1. fingers \in Seq(Slots)
    BY DEF BaseInv, PadInv
  <2>. QED
    BY <2>1, NilFacts
<1>9. PointerMovesWithOneFinger'
  <2>1. CASE out' = [type |-> "MouseScroll", by |-> <<Trunc(x), Trunc(y)>>]
             /\ <<Trunc(x), Trunc(y)>> # Still
    <3>1. out'.type = "MouseScroll"
      BY <2>1
    <3>2. Len(fingers') >= 2
      BY <1>2, <1>3, <1>5, <1>7, <2>1
    <3>. QED
      BY <3>1, <3>2 DEF PointerMovesWithOneFinger
  <2>2. CASE /\ out' = [type |-> "MouseMove", by |-> <<2 * Delta[1], 2 * Delta[2]>>]
             /\ Delta # Still /\ finger_count < 2
    <3>1. out'.type = "MouseMove"
      BY <2>2
    <3>2. Len(fingers') = 1
      BY <1>2, <1>3, <1>5, <1>8, <2>2
    <3>. QED
      BY <3>1, <3>2 DEF PointerMovesWithOneFinger
  <2>3. CASE out' = Nothing
    BY <2>3, Quiet
  <2>. QED
    BY <1>4, <2>1, <2>2, <2>3
<1>10. ASSUME Delta # Still, ~crossed PROVE Delta = <<shift[1], shift[2]>>
  <2>1. Active /\ last # None
    BY <1>5, <1>10
  <2>2. cur[1] = pointer[1] /\ cur[2] = pointer[2]
    <3>1. cur[1] \in {None, pointer[1]} /\ cur[2] \in {None, pointer[2]}
      BY <1>1, <1>2, <1>10, <2>1, RestCur
    <3>. QED
      BY <1>1, <2>1, <3>1 DEF TouchRest
  <2>3. last[1] + shift[1] = pointer[1] /\ last[2] + shift[2] = pointer[2]
    BY <1>1, <1>2, <1>3, <1>10, <2>1 DEF LastInv
  <2>4. last[1] \in Int /\ last[2] \in Int
    BY <1>1, <2>1, PointFacts DEF TouchRest
  <2>5. shift[1] \in Int /\ shift[2] \in Int
    BY DEF FingerInv, ShiftType
  <2>6. cur[1] - last[1] = shift[1] /\ cur[2] - last[2] = shift[2]
    BY <2>2, <2>3, <2>4, <2>5
  <2>. QED
    BY <1>5, <1>10, <2>6
<1>. QED
  BY <1>9, <1>10

LEMMA ReadFinger ==
  ASSUME LastSlot <= 3, BaseInv, FingerInv, Read
  PROVE  FingerInv'
<1>1. CountInv' /\ CurInv' /\ LastInv'
  BY ReadCount, ReadCur, ReadLast DEF FingerInv
<1>2. ShiftType'
  BY ReadKeeps DEF FingerInv, ShiftType
<1>3. PointerMovesWithOneFinger'
  <2>1. CASE ReadSyn
    BY <2>1, SynReturns
  <2>2. CASE ~ReadSyn
    <3>1. out' = Nothing \/ out'.type = "MouseButton"
      BY <2>2 DEF Read, ReadSlot, ReadTrackingId, ReadPosition, ReadTouch,
                  ReadTool, ReadLeft, Return
    <3>. QED
      BY <3>1, Quiet
  <2>. QED
    BY <2>1, <2>2
<1>. QED
  BY <1>1, <1>2, <1>3 DEF FingerInv

LEMMA InitFinger ==
  ASSUME Init
  PROVE  FingerInv
<1>1. /\ slots = {} /\ btn_touch = FALSE /\ cur = NoPoint /\ last = None
      /\ out = Nothing /\ shift = Still
  BY DEF Init
<1>2. CountInv
  BY <1>1 DEF CountInv, Active, TouchActive
<1>3. CurInv
  <2>1. cur[1] = None /\ cur[2] = None
    BY <1>1, NoPointFacts
  <2>. QED
    BY <2>1 DEF CurInv
<1>4. LastInv
  BY <1>1 DEF LastInv
<1>5. ShiftType
  BY <1>1 DEF ShiftType, Still
<1>6. PointerMovesWithOneFinger
  BY <1>1 DEF PointerMovesWithOneFinger, Nothing
<1>. QED
  BY <1>2, <1>3, <1>4, <1>5, <1>6 DEF FingerInv

LEMMA StutterFinger ==
  ASSUME FingerInv, UNCHANGED vars
  PROVE  FingerInv'
<1>1. /\ UNCHANGED <<fingers, at, pointer, slot, clicked>>
      /\ UNCHANGED <<slots, active_slot, btn_touch, finger_count, cur, last>>
      /\ UNCHANGED <<pipe, out, shift, crossed>>
  BY DEF vars, pad, touch, history
<1>2. CountInv' /\ CurInv'
  BY <1>1 DEF FingerInv, CountInv, Toll, CurInv, Deaf, Active, TouchActive, Pending
<1>3. LastInv'
  BY <1>1 DEF FingerInv, LastInv, Toll, Pending
<1>4. ShiftType' /\ PointerMovesWithOneFinger'
  BY <1>1 DEF FingerInv, ShiftType, PointerMovesWithOneFinger
<1>. QED
  BY <1>2, <1>3, <1>4 DEF FingerInv

LEMMA FingerStep ==
  ASSUME LastSlot <= 3, BaseInv, FingerInv, [Next]_vars
  PROVE  FingerInv'
BY LandFinger, LiftFinger, MoveFinger, ClickFinger, ReadFinger, GrabFinger,
   ForwardingFinger, StutterFinger DEF Next

\* The amount scrolled by a step is what its two pending scrolls and its units
\* say; at the end of a frame it is the opposite of the move.
LEMMA SynScrolled ==
  ASSUME TouchInv, ReadSyn, NEW units,
         units = IF out'.type = "MouseScroll" THEN out'.by ELSE Still
  PROVE  \/ \A axis \in 1..2 :
              Notch * units[axis] + pending_scroll'[axis] - pending_scroll[axis] = 0
         \/ /\ Delta # Still
            /\ \A axis \in 1..2 :
                 Notch * units[axis] + pending_scroll'[axis] - pending_scroll[axis]
                   = -Delta[axis]
<1>1. PICK x, y \in Int :
           /\ x = IF finger_count >= 2 THEN pending_scroll[1] - Delta[1]
                                       ELSE pending_scroll[1]
           /\ y = IF finger_count >= 2 THEN pending_scroll[2] - Delta[2]
                                       ELSE pending_scroll[2]
           /\ pending_scroll' = <<x - Notch * Trunc(x), y - Notch * Trunc(y)>>
           /\ out' = IF <<Trunc(x), Trunc(y)>> # Still
                     THEN [type |-> "MouseScroll", by |-> <<Trunc(x), Trunc(y)>>]
                     ELSE IF Delta # Still /\ finger_count < 2
                     THEN [type |-> "MouseMove", by |-> <<2 * Delta[1], 2 * Delta[2]>>]
                     ELSE Nothing
  BY SynScroll
<1>2. PICK u \in Int, v \in Int : u = Trunc(x) /\ v = Trunc(y)
  BY TruncFacts
<1>3. units[1] = u /\ units[2] = v
  <2>1. CASE <<u, v>> # Still
    <3>1. out' = [type |-> "MouseScroll", by |-> <<u, v>>]
      BY <1>1, <1>2, <2>1
    <3>. QED
      BY <3>1
  <2>2. CASE <<u, v>> = Still
    <3>1. u = 0 /\ v = 0
      BY <2>2 DEF Still
    <3>2. \/ out' = [type |-> "MouseMove", by |-> <<2 * Delta[1], 2 * Delta[2]>>]
          \/ out' = Nothing
      BY <1>1, <1>2, <2>2
    <3>3. out'.type # "MouseScroll"
      BY <3>2 DEF Nothing
    <3>. QED
      BY <3>1, <3>3 DEF Still
  <2>. QED
    BY <2>1, <2>2
<1>4. PICK i \in Int, j \in Int : i = Notch * u /\ j = Notch * v
  BY <1>2, TouchpadAssumption
<1>5. pending_scroll'[1] = x - i /\ pending_scroll'[2] = y - j
  BY <1>1, <1>2, <1>4
<1>6. /\ pending_scroll[1] \in Int /\ pending_scroll[2] \in Int
      /\ Delta[1] \in Int /\ Delta[2] \in Int
  <2>1. Notch \in Nat
    BY TouchpadAssumption
  <2>. QED
    BY <2>1, DeltaFacts DEF TouchInv, TouchType
<1>7. /\ Notch * units[1] + pending_scroll'[1] - pending_scroll[1]
           = x - pending_scroll[1]
      /\ Notch * units[2] + pending_scroll'[2] - pending_scroll[2]
           = y - pending_scroll[2]
  <2>1. i + (x - i) - pending_scroll[1] = x - pending_scroll[1]
    BY <1>6
  <2>2. j + (y - j) - pending_scroll[2] = y - pending_scroll[2]
    BY <1>6
  <2>. QED
    BY <1>3, <1>4, <1>5, <2>1, <2>2
<1>8. \A axis \in 1..2 : axis = 1 \/ axis = 2
  OBVIOUS
<1>9. CASE finger_count >= 2
  <2>1. /\ x - pending_scroll[1] = -Delta[1]
        /\ y - pending_scroll[2] = -Delta[2]
    BY <1>1, <1>6, <1>9
  <2>2. CASE Delta = Still
    <3>1. Delta[1] = 0 /\ Delta[2] = 0
      BY <2>2 DEF Still
    <3>2. /\ pending_scroll[1] - Delta[1] = pending_scroll[1]
          /\ pending_scroll[2] - Delta[2] = pending_scroll[2]
      BY <1>6, <3>1
    <3>3. x - pending_scroll[1] = 0 /\ y - pending_scroll[2] = 0
      BY <1>1, <1>6, <1>9, <3>2
    <3>. QED
      BY <1>7, <1>8, <3>3
  <2>3. CASE Delta # Still
    BY <1>7, <1>8, <2>1, <2>3
  <2>. QED
    BY <2>2, <2>3
<1>10. CASE ~(finger_count >= 2)
  <2>1. x - pending_scroll[1] = 0 /\ y - pending_scroll[2] = 0
    BY <1>1, <1>6, <1>10
  <2>. QED
    BY <1>7, <1>8, <2>1
<1>. QED
  BY <1>9, <1>10

\* The action of MotionIsTheFingers.
Scrolled ==
  LET units == IF out'.type = "MouseScroll" THEN out'.by ELSE Still IN
  [axis \in 1..2 |-> Notch * units[axis]
                       + pending_scroll'[axis] - pending_scroll[axis]]

Motion ==
  ~crossed =>
    /\ out'.type = "MouseMove" => out'.by = <<2 * shift[1], 2 * shift[2]>>
    /\ (pipe' # pipe /\ Scrolled # Still) => Scrolled = <<-shift[1], -shift[2]>>

LEMMA SynMotion ==
  ASSUME LastSlot <= 3, BaseInv, FingerInv, ReadSyn
  PROVE  Motion
<1>0. SUFFICES ASSUME ~crossed
               PROVE  /\ out'.type = "MouseMove" =>
                           out'.by = <<2 * shift[1], 2 * shift[2]>>
                      /\ Scrolled # Still => Scrolled = <<-shift[1], -shift[2]>>
  BY DEF Motion
<1>1. TouchInv /\ (Delta # Still => Delta = <<shift[1], shift[2]>>)
  BY <1>0, SynReturns DEF BaseInv
<1>2. Delta # Still => Delta[1] = shift[1] /\ Delta[2] = shift[2]
  BY <1>1
<1>3. ASSUME out'.type = "MouseMove"
      PROVE  out'.by = <<2 * shift[1], 2 * shift[2]>>
  <2>1. PICK x, y \in Int :
          out' = IF <<Trunc(x), Trunc(y)>> # Still
                 THEN [type |-> "MouseScroll", by |-> <<Trunc(x), Trunc(y)>>]
                 ELSE IF Delta # Still /\ finger_count < 2
                 THEN [type |-> "MouseMove", by |-> <<2 * Delta[1], 2 * Delta[2]>>]
                 ELSE Nothing
    BY <1>1, SynScroll
  <2>2. /\ out' = [type |-> "MouseMove", by |-> <<2 * Delta[1], 2 * Delta[2]>>]
        /\ Delta # Still
    BY <1>3, <2>1 DEF Nothing
  <2>. QED
    BY <1>2, <2>2
<1>4. PICK units : units = IF out'.type = "MouseScroll" THEN out'.by ELSE Still
  OBVIOUS
<1>5. Scrolled = [axis \in 1..2 |-> Notch * units[axis]
                    + pending_scroll'[axis] - pending_scroll[axis]]
  BY <1>4 DEF Scrolled
<1>6. CASE \A axis \in 1..2 :
             Notch * units[axis] + pending_scroll'[axis] - pending_scroll[axis] = 0
  <2>1. Scrolled = [axis \in 1..2 |-> 0]
    BY <1>5, <1>6
  <2>2. Scrolled = Still
    BY <2>1 DEF Still
  <2>. QED
    BY <1>3, <2>2
<1>7. CASE /\ Delta # Still
           /\ \A axis \in 1..2 :
                Notch * units[axis] + pending_scroll'[axis] - pending_scroll[axis]
                  = -Delta[axis]
  <2>1. Scrolled = [axis \in 1..2 |-> -Delta[axis]]
    BY <1>5, <1>7
  <2>2. [axis \in 1..2 |-> -Delta[axis]] = <<-Delta[1], -Delta[2]>>
    OBVIOUS
  <2>3. Scrolled = <<-shift[1], -shift[2]>>
    BY <1>2, <1>7, <2>1, <2>2
  <2>. QED
    BY <1>3, <2>3
<1>. QED
  BY <1>1, <1>4, <1>6, <1>7, SynScrolled

\* A step that returns no motion scrolls nothing.
LEMMA NoMotion ==
  ASSUME TouchInv, out' = Nothing \/ out'.type = "MouseButton",
         pending_scroll' = pending_scroll \/ pipe' = pipe
  PROVE  Motion
<1>1. out'.type # "MouseMove" /\ out'.type # "MouseScroll"
  BY Quiet
<1>2. ASSUME pending_scroll' = pending_scroll PROVE Scrolled = Still
  <2>1. Notch \in Nat /\ \A axis \in 1..2 : axis = 1 \/ axis = 2
    BY TouchpadAssumption
  <2>2. \A axis \in 1..2 : pending_scroll[axis] \in Int
    BY <2>1 DEF TouchInv, TouchType
  <2>3. Notch * 0 = 0
    BY <2>1
  <2>4. \A axis \in 1..2 : Still[axis] = 0
    BY <2>1 DEF Still
  <2>5. \A axis \in 1..2 :
          Notch * Still[axis] + pending_scroll'[axis] - pending_scroll[axis] = 0
    BY <1>2, <2>2, <2>3, <2>4
  <2>6. Scrolled = [axis \in 1..2 |-> Notch * Still[axis]
                      + pending_scroll'[axis] - pending_scroll[axis]]
    BY <1>1 DEF Scrolled
  <2>7. Scrolled = [axis \in 1..2 |-> 0]
    BY <2>5, <2>6
  <2>. QED
    BY <2>7 DEF Still
<1>. QED
  BY <1>1, <1>2 DEF Motion

LEMMA MotionStep ==
  ASSUME LastSlot <= 3, BaseInv, FingerInv, Next
  PROVE  Motion
<1>1. TouchInv
  BY DEF BaseInv
<1>2. CASE ReadSyn
  BY <1>2, SynMotion
<1>3. CASE Read /\ ~ReadSyn
  <2>1. out' = Nothing \/ out'.type = "MouseButton"
    BY <1>3 DEF Read, ReadSlot, ReadTrackingId, ReadPosition, ReadTouch,
                ReadTool, ReadLeft, Return
  <2>2. pending_scroll' = pending_scroll
    BY <1>3 DEF Read, ReadSlot, ReadTrackingId, ReadPosition, ReadTouch,
                ReadTool, ReadLeft
  <2>. QED
    BY <1>1, <2>1, <2>2, NoMotion
<1>4. CASE Grab \/ ForwardingBegins \/ ForwardingEnds
  <2>1. out' = Nothing /\ pipe' = pipe
    BY <1>4 DEF Grab, ForwardingBegins, ForwardingEnds
  <2>. QED
    BY <1>1, <2>1, NoMotion
<1>5. CASE \/ \E p \in Points : Land(p)
           \/ \E i \in DOMAIN fingers : Lift(i)
           \/ \E at2 \in [Slots -> Points] : Move(at2)
           \/ Click
  <2>1. out' = Nothing /\ pending_scroll' = pending_scroll
    BY <1>5 DEF Land, Lift, Move, Click, Frame
  <2>. QED
    BY <1>1, <2>1, NoMotion
<1>. QED
  BY <1>2, <1>3, <1>4, <1>5 DEF Next

-----------------------------------------------------------------------------
(* The theorems for pads of at most four fingers.                            *)

\* In every reachable state the count, the positions and the move under way
\* agree with the fingers, or the events that make them so are pending.
THEOREM FingerInvHolds ==
  ASSUME LastSlot <= 3
  PROVE  Spec => []FingerInv
<1>1. Init => FingerInv
  BY InitFinger
<1>2. BaseInv /\ FingerInv /\ [Next]_vars => FingerInv'
  BY FingerStep
<1>. QED
  BY <1>1, <1>2, BaseInvHolds, PTL DEF Spec

\* The pointer moves with one finger on the pad and scrolls with more, although
\* the count is kept apart from the slots and a grab forgets both at any event.
THEOREM OneFingerMoves ==
  ASSUME LastSlot <= 3
  PROVE  Spec => []PointerMovesWithOneFinger
<1>1. FingerInv => PointerMovesWithOneFinger
  BY DEF FingerInv
<1>. QED
  BY <1>1, FingerInvHolds, PTL

\* What is returned, and what is left to scroll, is how far the oldest finger
\* moved in the frame, as long as no finger took slot 0 with an older one down.
THEOREM OldestFingerLeads ==
  ASSUME LastSlot <= 3
  PROVE  Spec => MotionIsTheFingers
<1>1. BaseInv /\ FingerInv /\ [Next]_vars => [Motion]_vars
  BY MotionStep
<1>2. Spec => [][Motion]_vars
  BY <1>1, BaseInvHolds, FingerInvHolds, PTL DEF Spec
<1>3. [][Motion]_vars <=> MotionIsTheFingers
  BY DEF MotionIsTheFingers, Motion, Scrolled
<1>. QED
  BY <1>2, <1>3

=============================================================================
