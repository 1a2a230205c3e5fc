------------------------- MODULE FileTransfer_proof -------------------------
(***************************************************************************)
(* Proofs that the types of FileTransfer are right, that what it shows as  *)
(* under way is, and that what it publishes is whole, for any transfers,   *)
(* files and bounds.                                                       *)
(***************************************************************************)
EXTENDS FileTransfer, SequenceTheorems, WellFoundedInduction, TLAPS

-----------------------------------------------------------------------------
(* The inductive invariant.  A transfer cannot be shown by the receiver      *)
(* before its connection is opened, since nothing of it is on a wire until   *)
(* then: opening would otherwise revive an entry that nothing looks after.   *)

Begun(t) == pc[t] \notin {"Idle", "Init", "Tls"}

\* Only a background transfer opens a connection.
OpeningInv == \A t \in Fast : pc[t] \notin {"Init", "Tls"}

\* A message of connection c belongs to a transfer of c that has begun.
Belongs(m, c) ==
  m.transfer \in Transfers /\ Conn(m.transfer) = c /\ Begun(m.transfer)

Carries(q, c) == \E T : q \in Seq(T) /\ \A m \in T : Belongs(m, c)

WireInv ==
  /\ wire = [c \in Conns |-> wire[c]]
  /\ \A c \in Conns : Carries(wire[c], c)

ShownType ==
  /\ pc \in [Transfers -> {"Idle", "Init", "Tls", "Offer", "Stream", "Over"}]
  /\ open \in [Conns -> BOOLEAN]
  /\ outgoing \subseteq Transfers /\ incoming \subseteq Transfers
  /\ receiving \subseteq Transfers

ShownInv ==
  /\ ShownType /\ OpeningInv /\ WireInv
  /\ \A t \in incoming : Begun(t)
  /\ ShownIsUnderWay

-----------------------------------------------------------------------------
(* Facts about connections and wires.                                      *)

\* Every transfer has a connection, of its own if it is a background one.
LEMMA ConnFacts ==
  ASSUME NEW t \in Transfers
  PROVE  /\ Conn(t) \in Conns
         /\ t \notin Fast => Conn(t) = t /\ t \in Background
BY DEF Conn, Conns, Background

\* What begins stays begun.
LEMMA BegunGrows ==
  ASSUME ShownType, [Next]_vars, NEW t \in Transfers, Begun(t)
  PROVE  Begun(t)'
<1>1. ASSUME NEW u \in Transfers, Start(u) \/ Sender(u) PROVE Begun(t)'
  BY <1>1
  DEF Begun, ShownType, Start, Sender, Connect, OpenChannel, SendOffer, SendChunk,
      SendDone, SendFails, GiveUp
<1>2. ASSUME NEW c \in Conns, Receiver(c) PROVE Begun(t)'
  BY <1>2
  DEF Begun, Receiver, FileChannelInit, HandleOffer, HandleChunk, HandleDone,
      ReceiverEnds, senderVars
<1>3. CASE SetFileTransfer
  BY <1>3 DEF Begun, SetFileTransfer, senderVars
<1>4. CASE Fault
  BY <1>4
  DEF Begun, ShownType, Fault, SourceShrinks, ConnectFails, SourceFails, GiveUp,
      LinkDown, WriteFails, senderVars
<1>5. CASE UNCHANGED vars
  BY <1>5 DEF Begun, vars, senderVars
<1>. QED
  BY <1>1, <1>2, <1>3, <1>4, <1>5 DEF Next

\* A wire still carries its own messages when the first is read or the last
\* are lost, ...
LEMMA ShorterCarries ==
  ASSUME NEW c, NEW q, Carries(q, c)
  PROVE  /\ q # <<>> => Carries(Tail(q), c) /\ Belongs(Head(q), c)
         /\ \A n \in 0..Len(q) : Carries(SubSeq(q, 1, n), c)
         /\ Carries(<<>>, c)
<1>1. PICK T : q \in Seq(T) /\ \A m \in T : Belongs(m, c)
  BY DEF Carries
<1>2. ASSUME q # <<>> PROVE Tail(q) \in Seq(T) /\ Head(q) \in T
  BY <1>1, <1>2, HeadTailProperties
<1>3. ASSUME NEW n \in 0..Len(q) PROVE SubSeq(q, 1, n) \in Seq(T)
  BY <1>1
<1>4. <<>> \in Seq(T)
  BY EmptySeq
<1>. QED
  BY <1>1, <1>2, <1>3, <1>4 DEF Carries

\* ... and when another of its own is sent.
LEMMA LongerCarries ==
  ASSUME NEW c, NEW q, Carries(q, c), NEW m, Belongs(m, c)
  PROVE  Carries(Append(q, m), c) /\ Carries(<<m>>, c)
<1>1. PICK T : q \in Seq(T) /\ \A x \in T : Belongs(x, c)
  BY DEF Carries
<1>2. q \in Seq(T \cup {m}) /\ m \in T \cup {m}
  BY <1>1, SeqMonotonic
<1>3. Append(q, m) \in Seq(T \cup {m}) /\ <<m>> \in Seq(T \cup {m})
  BY <1>2, AppendProperties
<1>. QED
  BY <1>1, <1>3 DEF Carries

-----------------------------------------------------------------------------
(* The parts of the invariant, one after the other.                        *)

\* Only an offer that is read makes a transfer incoming.
LEMMA NextShownType ==
  ASSUME ShownInv, [Next]_vars
  PROVE  ShownType'
<1>. USE DEF ShownInv, ShownType
<1>1. ASSUME NEW t \in Transfers, Start(t) \/ Sender(t) PROVE ShownType'
  <2>1. CASE OpenChannel(t)
    BY <2>1 DEF OpenChannel, receiverVars
  <2>2. CASE ~OpenChannel(t)
    BY <1>1, <2>2
    DEF Start, Sender, Connect, SendOffer, SendChunk, SendDone, SendFails, GiveUp,
        receiverVars, linkVars
  <2>. QED
    BY <2>1, <2>2
<1>2. ASSUME NEW c \in Conns, Receiver(c) PROVE ShownType'
  <2>1. CASE HandleOffer(c)
    <3>1. Head(wire[c]).transfer \in Transfers
      BY <2>1, ShorterCarries DEF HandleOffer, Reads, WireInv, Belongs
    <3>. QED
      BY <2>1, <3>1 DEF HandleOffer, Offered, NotStaged, Cleaned, Newer, senderVars
  <2>2. CASE FileChannelInit(c) \/ HandleChunk(c)
    BY <2>2 DEF FileChannelInit, HandleChunk, senderVars, receiverVars
  <2>3. CASE HandleDone(c) \/ ReceiverEnds(c)
    BY <2>3 DEF HandleDone, ReceiverEnds, senderVars
  <2>. QED
    BY <1>2, <2>1, <2>2, <2>3 DEF Receiver
<1>3. CASE SetFileTransfer
  BY <1>3 DEF SetFileTransfer, senderVars, linkVars
<1>4. CASE Fault
  BY <1>4
  DEF Fault, SourceShrinks, ConnectFails, SourceFails, GiveUp, LinkDown,
      WriteFails, senderVars, linkVars, receiverVars
<1>5. CASE UNCHANGED vars
  BY <1>5 DEF vars, senderVars, linkVars, receiverVars
<1>. QED
  BY <1>1, <1>2, <1>3, <1>4, <1>5 DEF Next

\* A fast transfer goes from Idle to Offer.
LEMMA NextOpening ==
  ASSUME ShownType, OpeningInv, [Next]_vars
  PROVE  OpeningInv'
<1>. SUFFICES ASSUME NEW f \in Transfers, f \in Fast PROVE pc'[f] \notin {"Init", "Tls"}
  BY TransfersAssumption DEF OpeningInv
<1>. pc[f] \notin {"Init", "Tls"}
  BY DEF OpeningInv
<1>. USE DEF ShownType
<1>1. ASSUME NEW t \in Transfers, Start(t) \/ Sender(t) PROVE pc'[f] \notin {"Init", "Tls"}
  BY <1>1
  DEF Start, Sender, Connect, OpenChannel, SendOffer, SendChunk,
      SendDone, SendFails, GiveUp
<1>2. ASSUME NEW c \in Conns, Receiver(c) PROVE pc'[f] \notin {"Init", "Tls"}
  BY <1>2
  DEF Receiver, FileChannelInit, HandleOffer, HandleChunk, HandleDone,
      ReceiverEnds, senderVars
<1>3. CASE SetFileTransfer
  BY <1>3 DEF SetFileTransfer, senderVars
<1>4. CASE Fault
  BY <1>4
  DEF Fault, SourceShrinks, ConnectFails, SourceFails, GiveUp, LinkDown,
      WriteFails, senderVars
<1>5. CASE UNCHANGED vars
  BY <1>5 DEF vars, senderVars
<1>. QED
  BY <1>1, <1>2, <1>3, <1>4, <1>5 DEF Next

\* What a sender puts on a wire is of its own transfer and connection.
LEMMA NextWire ==
  ASSUME ShownInv, [Next]_vars
  PROVE  WireInv'
<1>. DEFINE Fits(w) == /\ w = [c \in Conns |-> w[c]]
                       /\ \A c \in Conns : Carries(w[c], c)
<1>0. Fits(wire) /\ ShownType
  BY DEF ShownInv, WireInv
<1>g. ASSUME NEW c, NEW q, Carries(q, c)
      PROVE  \E T : q \in Seq(T) /\ \A m \in T : Belongs(m, c)'
  <2>1. ASSUME NEW m, Belongs(m, c) PROVE Belongs(m, c)'
    BY <1>0, <2>1, BegunGrows DEF Belongs
  <2>. QED
    BY <1>g, <2>1 DEF Carries
<1>w. ASSUME Fits(wire') PROVE WireInv'
  BY <1>g, <1>w DEF WireInv, Carries
<1>r. ASSUME NEW c \in Conns
      PROVE  /\ wire[c] # <<>> => Fits([wire EXCEPT ![c] = Tail(@)])
             /\ Fits([wire EXCEPT ![c] = <<>>])
             /\ \A n \in 0..Len(wire[c]) :
                  Fits([wire EXCEPT ![c] = SubSeq(@, 1, n)])
  BY <1>0, ShorterCarries
<1>s. ASSUME NEW t \in Transfers, NEW kind, NEW x, Begun(t),
             Send(Conn(t), Msg(kind, t, x))
      PROVE  Fits(wire')
  <2>1. Belongs(Msg(kind, t, x), Conn(t))
    BY <1>s DEF Belongs, Msg
  <2>2. Carries(Append(wire[Conn(t)], Msg(kind, t, x)), Conn(t))
    BY <1>0, <2>1, ConnFacts, LongerCarries
  <2>. QED
    BY <1>0, <1>s, <2>2 DEF Send
<1>1. ASSUME NEW t \in Transfers, OpenChannel(t) PROVE WireInv'
  <2>0. PICK m : m = Msg("Init", t, NoChunk)
    OBVIOUS
  <2>1. Conn(t) = t /\ Begun(t)'
    BY <1>0, <1>1, ConnFacts DEF ShownInv, OpeningInv, ShownType, OpenChannel, Begun
  <2>2. Belongs(m, t)'
    BY <2>0, <2>1 DEF Belongs, Msg
  <2>3. <<m>> \in Seq({m})
    OBVIOUS
  <2>4. PICK I : I = {m}
    OBVIOUS
  <2>5. wire' = [wire EXCEPT ![t] = <<m>>]
    BY <1>1, <2>0 DEF OpenChannel
  <2>6. /\ wire' = [c \in Conns |-> wire'[c]]
        /\ \A c \in Conns : wire'[c] = IF c = t THEN <<m>> ELSE wire[c]
    BY <1>0, <2>5
  <2>7. ASSUME NEW c \in Conns
        PROVE  \E T : wire'[c] \in Seq(T) /\ \A x \in T : Belongs(x, c)'
    <3>1. CASE c = t
      <4>1. wire'[c] \in Seq(I)
        BY <2>3, <2>4, <2>6, <3>1
      <4>2. \A x \in I : Belongs(x, c)'
        BY <2>2, <2>4, <3>1 DEF Belongs
      <4>. QED
        BY <4>1, <4>2
    <3>2. CASE c # t
      <4>1. wire'[c] = wire[c] /\ Carries(wire[c], c)
        BY <1>0, <2>6, <3>2
      <4>. QED
        BY <1>g, <4>1
    <3>. QED
      BY <3>1, <3>2
  <2>. QED
    BY <2>6, <2>7 DEF WireInv, Carries
<1>2. ASSUME NEW t \in Transfers, Start(t) \/ (Sender(t) /\ ~OpenChannel(t))
      PROVE  WireInv'
  <2>1. CASE SendOffer(t) \/ SendChunk(t) \/ SendDone(t)
    <3>1. Begun(t)
      BY <2>1 DEF SendOffer, SendChunk, SendDone, Begun
    <3>2. CASE SendOffer(t)
      BY <1>s, <1>w, <3>1, <3>2 DEF SendOffer
    <3>3. CASE SendChunk(t)
      BY <1>s, <1>w, <3>1, <3>3 DEF SendChunk
    <3>4. CASE SendDone(t)
      BY <1>s, <1>w, <3>1, <3>4 DEF SendDone
    <3>. QED
      BY <2>1, <3>2, <3>3, <3>4
  <2>2. CASE Start(t) \/ Connect(t) \/ SendFails(t)
    BY <1>0, <1>w, <2>2 DEF Start, Connect, SendFails, GiveUp, linkVars
  <2>. QED
    BY <1>2, <2>1, <2>2 DEF Sender
<1>. HIDE DEF Fits
<1>3. ASSUME NEW c \in Conns, Receiver(c) PROVE WireInv'
  <2>1. CASE \/ HandleOffer(c) \/ HandleChunk(c) \/ HandleDone(c)
    BY <1>r, <1>w, <2>1 DEF HandleOffer, HandleChunk, HandleDone, Reads, Read
  <2>2. CASE c \in Background /\ FileChannelInit(c)
    BY <1>r, <1>w, <2>2 DEF FileChannelInit, Reads, Read
  <2>3. CASE ReceiverEnds(c)
    BY <1>0, <1>w, <2>3 DEF ReceiverEnds
  <2>. QED
    BY <1>3, <2>1, <2>2, <2>3 DEF Receiver
<1>4. CASE SetFileTransfer
  BY <1>0, <1>w, <1>4 DEF SetFileTransfer, linkVars
<1>5. CASE Fault
  <2>1. ASSUME NEW t \in Transfers,
               SourceShrinks(t) \/ ConnectFails(t) \/ SourceFails(t)
        PROVE  WireInv'
    BY <1>0, <1>w, <2>1
    DEF SourceShrinks, ConnectFails, SourceFails, GiveUp, linkVars
  <2>2. ASSUME NEW c \in Conns, LinkDown(c) \/ WriteFails(c) PROVE WireInv'
    BY <1>r, <1>w, <2>2 DEF LinkDown, WriteFails, Reads, Read
  <2>. QED
    BY <1>5, <2>1, <2>2 DEF Fault
<1>6. CASE UNCHANGED vars
  BY <1>0, <1>w, <1>6 DEF vars, linkVars
<1>. QED
  BY <1>1, <1>2, <1>3, <1>4, <1>5, <1>6 DEF Next

\* What the receiver shows has begun, since an offer of it was read.
LEMMA NextIncoming ==
  ASSUME ShownInv, [Next]_vars
  PROVE  \A t \in incoming' : Begun(t)'
<1>. SUFFICES ASSUME NEW t \in incoming' PROVE Begun(t)'
  OBVIOUS
<1>0. ShownType /\ WireInv /\ \A u \in incoming : Begun(u) /\ u \in Transfers
  BY DEF ShownInv, ShownType
<1>1. CASE t \in incoming
  BY <1>0, <1>1, BegunGrows
<1>2. CASE t \notin incoming
  <2>1. PICK c \in Conns : HandleOffer(c)
    <3>1. ASSUME NEW u \in Transfers, Start(u) \/ Sender(u) PROVE FALSE
      BY <1>2, <3>1
      DEF Start, Sender, Connect, OpenChannel, SendOffer, SendChunk, SendDone, SendFails,
          GiveUp, receiverVars
    <3>2. ASSUME NEW c \in Conns,
                 FileChannelInit(c) \/ HandleChunk(c) \/ HandleDone(c)
                   \/ ReceiverEnds(c)
          PROVE  FALSE
      BY <1>2, <3>2
      DEF FileChannelInit, HandleChunk, HandleDone, ReceiverEnds, receiverVars
    <3>3. CASE SetFileTransfer
      BY <1>2, <3>3 DEF SetFileTransfer
    <3>4. CASE Fault
      BY <1>2, <3>4
      DEF Fault, SourceShrinks, ConnectFails, SourceFails, GiveUp, LinkDown,
          WriteFails, receiverVars
    <3>5. CASE UNCHANGED vars
      BY <1>2, <3>5 DEF vars, receiverVars
    <3>. QED
      BY <3>1, <3>2, <3>3, <3>4, <3>5 DEF Next, Receiver
  <2>2. t = Head(wire[c]).transfer /\ wire[c] # <<>>
    BY <1>2, <2>1 DEF HandleOffer, Offered, NotStaged, Cleaned, Newer, Reads
  <2>3. Belongs(Head(wire[c]), c)
    BY <1>0, <2>2, ShorterCarries DEF WireInv
  <2>4. t \in Transfers /\ Begun(t)
    BY <2>2, <2>3 DEF Belongs
  <2>. QED
    BY <1>0, <2>4, BegunGrows
<1>. QED
  BY <1>1, <1>2

\* An outgoing entry goes when its transfer is over, or stays with a fast one
\* that failed.
LEMMA NextOutgoing ==
  ASSUME ShownType, \A t \in outgoing : Running(t) \/ (t \in Fast /\ t \in failed),
         [Next]_vars
  PROVE  \A t \in outgoing' : (Running(t) \/ (t \in Fast /\ t \in failed))'
<1>. USE DEF ShownType, Running
<1>1. ASSUME NEW u \in Transfers, Start(u) \/ Sender(u)
      PROVE  \A t \in outgoing' : (Running(t) \/ (t \in Fast /\ t \in failed))'
  <2>1. CASE Start(u) \/ Connect(u) \/ OpenChannel(u)
    BY <2>1 DEF Start, Connect, OpenChannel, histVars
  <2>2. CASE SendOffer(u) \/ SendChunk(u) \/ SendDone(u)
    BY <2>2 DEF SendOffer, SendChunk, SendDone, histVars
  <2>3. CASE SendFails(u)
    BY <2>3 DEF SendFails, GiveUp
  <2>. QED
    BY <1>1, <2>1, <2>2, <2>3 DEF Sender
<1>2. ASSUME NEW c \in Conns, Receiver(c) PROVE UNCHANGED <<pc, outgoing, failed>>
  BY <1>2
  DEF Receiver, FileChannelInit, HandleOffer, HandleChunk, HandleDone,
      ReceiverEnds, senderVars, histVars
<1>3. CASE SetFileTransfer
  BY <1>3 DEF SetFileTransfer, senderVars, histVars
<1>4. CASE Fault
  <2>1. ASSUME NEW u \in Transfers, ConnectFails(u) \/ SourceFails(u)
        PROVE  \A t \in outgoing' : (Running(t) \/ (t \in Fast /\ t \in failed))'
    BY <2>1 DEF ConnectFails, SourceFails, GiveUp
  <2>2. ASSUME \/ \E u \in Transfers : SourceShrinks(u)
               \/ \E c \in Conns : LinkDown(c) \/ WriteFails(c)
        PROVE  UNCHANGED <<pc, outgoing, failed>>
    BY <2>2 DEF SourceShrinks, LinkDown, WriteFails, senderVars
  <2>. QED
    BY <1>4, <2>1, <2>2 DEF Fault
<1>5. CASE UNCHANGED vars
  BY <1>5 DEF vars, senderVars, histVars
<1>. QED
  BY <1>1, <1>2, <1>3, <1>4, <1>5 DEF Next

\* An incoming entry has a receiver, until the connection ends.
LEMMA NextReceived ==
  ASSUME ShownInv, [Next]_vars
  PROVE  \A t \in incoming' : t \in receiving' \/ ~open'[Conn(t)]
<1>0. /\ ShownType /\ OpeningInv
      /\ \A t \in incoming : Begun(t) /\ (t \in receiving \/ ~open[Conn(t)])
  BY DEF ShownInv, ShownIsUnderWay
<1>. USE DEF ShownType
<1>1. ASSUME NEW u \in Transfers, Start(u) \/ Sender(u)
      PROVE  \A t \in incoming' : t \in receiving' \/ ~open'[Conn(t)]
  <2>1. CASE OpenChannel(u)
    <3>1. u \notin Fast /\ u # "main" /\ ~Begun(u)
      BY <1>0, <2>1, TransfersAssumption DEF OpeningInv, OpenChannel, Begun
    <3>2. ASSUME NEW t \in incoming PROVE Conn(t) # u
      BY <1>0, <3>1, <3>2 DEF Conn, Main
    <3>. QED
      BY <1>0, <2>1, <3>2 DEF OpenChannel, receiverVars
  <2>2. CASE ~OpenChannel(u)
    BY <1>0, <1>1, <2>2
    DEF Start, Sender, Connect, SendOffer, SendChunk, SendDone, SendFails, GiveUp,
        linkVars, receiverVars
  <2>. QED
    BY <2>1, <2>2
<1>2. ASSUME NEW c \in Conns, Receiver(c)
      PROVE  \A t \in incoming' : t \in receiving' \/ ~open'[Conn(t)]
  <2>1. CASE FileChannelInit(c)
    BY <1>0, <2>1, ConnFacts DEF FileChannelInit, receiverVars
  <2>2. CASE HandleOffer(c)
    BY <1>0, <2>2 DEF HandleOffer, Offered, NotStaged, Cleaned, Newer
  <2>3. CASE HandleChunk(c)
    BY <1>0, <2>3 DEF HandleChunk
  <2>4. CASE HandleDone(c)
    BY <1>0, <2>4 DEF HandleDone
  <2>5. CASE ReceiverEnds(c)
    BY <1>0, <2>5, ConnFacts DEF ReceiverEnds
  <2>. QED
    BY <1>2, <2>1, <2>2, <2>3, <2>4, <2>5 DEF Receiver
<1>3. CASE SetFileTransfer
  BY <1>0, <1>3 DEF SetFileTransfer, linkVars
<1>4. CASE Fault
  BY <1>0, <1>4
  DEF Fault, SourceShrinks, ConnectFails, SourceFails, GiveUp, LinkDown,
      WriteFails, linkVars, receiverVars
<1>5. CASE UNCHANGED vars
  BY <1>0, <1>5 DEF vars, linkVars, receiverVars
<1>. QED
  BY <1>1, <1>2, <1>3, <1>4, <1>5 DEF Next

-----------------------------------------------------------------------------
(* The theorem.                                                            *)

\* Nothing is shown and nothing is on a wire before the first transfer.
LEMMA InitShownInv == Init => ShownInv
<1>. SUFFICES ASSUME Init PROVE ShownInv
  OBVIOUS
<1>1. \A c \in Conns : Carries(wire[c], c)
  <2>1. \A c : <<>> \in Seq({})
    BY EmptySeq
  <2>. QED
    BY <2>1 DEF Init, Carries
<1>. QED
  BY <1>1, TransfersAssumption
  DEF Init, ShownInv, ShownType, OpeningInv, WireInv, ShownIsUnderWay

\* The invariant holds in every state.
THEOREM ShownInvHolds == Spec => []ShownInv
<1>1. ASSUME ShownInv, [Next]_vars PROVE ShownInv'
  <2>1. ShownType' /\ OpeningInv' /\ WireInv' /\ \A t \in incoming' : Begun(t)'
    BY <1>1, NextShownType, NextOpening, NextWire, NextIncoming DEF ShownInv
  <2>2. \A t \in outgoing' : (Running(t) \/ (t \in Fast /\ t \in failed))'
    BY <1>1, NextOutgoing DEF ShownInv, ShownIsUnderWay
  <2>3. \A t \in incoming' : t \in receiving' \/ ~open'[Conn(t)]
    BY <1>1, NextReceived
  <2>4. ShownIsUnderWay'
    BY <2>2, <2>3 DEF ShownIsUnderWay
  <2>. QED
    BY <2>1, <2>4 DEF ShownInv
<1>. QED
  BY <1>1, InitShownInv, PTL DEF Spec

\* What the user is shown as under way is being sent or received, but for the
\* two leaks of the code that the property names (file_transfer.rs:308, and an
\* incoming transfer whose connection has ended).
THEOREM ShownAreUnderWay == Spec => []ShownIsUnderWay
<1>1. ShownInv => ShownIsUnderWay
  BY DEF ShownInv
<1>. QED
  BY <1>1, ShownInvHolds, PTL

-----------------------------------------------------------------------------
(* Induction, without an operator parameter.                               *)

LEMMA LeastNumber ==
  ASSUME NEW S, S \subseteq Nat, S # {}
  PROVE  \E x \in S : \A y \in S : x <= y
<1>. DEFINE R == OpToRel(<, Nat)
<1>1. \A x, y \in Nat : x < y => <<x, y>> \in R
  BY DEF OpToRel
<1>2. IsWellFoundedOn(R, Nat)
  BY NatLessThanWellFounded
<1>. HIDE DEF R
<1>3. PICK x \in S : \A y \in S : <<y, x>> \notin R
  BY <1>2, WFMin
<1>4. ASSUME NEW y \in S PROVE x <= y
  <2>1. x \in Nat /\ y \in Nat /\ ~(y < x)
    BY <1>1, <1>3
  <2>. QED
    BY <2>1
<1>. QED
  BY <1>4

LEMMA SetInduction ==
  ASSUME NEW S, 0 \in S, \A n \in Nat : n \in S => n + 1 \in S
  PROVE  Nat \subseteq S
<1>1. SUFFICES ASSUME Nat \ S # {} PROVE FALSE
  OBVIOUS
<1>2. PICK x \in Nat \ S : \A y \in Nat \ S : x <= y
  BY <1>1, LeastNumber
<1>3. x - 1 \in Nat /\ x - 1 \in S
  BY <1>2
<1>. QED
  BY <1>2, <1>3

-----------------------------------------------------------------------------
(* The order of the chunks: by file, then by number.                       *)

Chunk == Nat \X (Nat \ {0})

Before(x, y) == x[1] < y[1] \/ (x[1] = y[1] /\ x[2] < y[2])

\* q holds chunks of the files up to f, each once and in order.
InOrder(q, f) ==
  /\ q \in Seq(Chunk)
  /\ \A i \in 1..Len(q) : q[i][1] <= f
  /\ \A i, j \in 1..Len(q) : i < j => Before(q[i], q[j])

\* The chunks of one file.
LEMMA FileInOrder ==
  ASSUME NEW f \in Nat, NEW n \in Nat, NEW q, q = [k \in 1..n |-> <<f, k>>]
  PROVE  InOrder(q, f) /\ \A k \in 1..Len(q) : q[k][1] = f
<1>2. \A k \in 1..n : q[k] = <<f, k>> /\ q[k] \in Chunk
  BY DEF Chunk
<1>3. q \in Seq(Chunk) /\ Len(q) = n
  <2>1. q \in [1..n -> Chunk]
    BY <1>2
  <2>. QED
    BY <2>1
<1>4. \A i, j \in 1..n : i < j => Before(q[i], q[j])
  BY <1>2 DEF Before
<1>. QED
  BY <1>2, <1>3, <1>4 DEF InOrder

\* Those of the next file follow.
LEMMA AppendedInOrder ==
  ASSUME NEW f \in Nat, NEW q, NEW p, InOrder(q, f), InOrder(p, f + 1),
         \A i \in 1..Len(p) : p[i][1] = f + 1
  PROVE  InOrder(q \o p, f + 1)
<1>1. /\ q \in Seq(Chunk) /\ p \in Seq(Chunk) /\ Len(q) \in Nat /\ Len(p) \in Nat
  BY DEF InOrder
<1>2. PICK r : r = q \o p
  OBVIOUS
<1>3. /\ r \in Seq(Chunk) /\ Len(r) = Len(q) + Len(p)
      /\ \A i \in 1..Len(r) : r[i] = IF i <= Len(q) THEN q[i] ELSE p[i - Len(q)]
  BY <1>1, <1>2, ConcatProperties
<1>4. \A i \in 1..Len(q) : q[i] \in Chunk /\ q[i][1] \in Nat /\ q[i][1] <= f
  BY <1>1 DEF InOrder, Chunk
<1>5. ASSUME NEW i \in 1..Len(r) PROVE r[i][1] <= f + 1
  <2>1. CASE i <= Len(q)
    <3>1. i \in 1..Len(q) /\ r[i] = q[i]
      BY <1>1, <1>3, <2>1
    <3>2. r[i][1] \in Nat /\ r[i][1] <= f
      BY <1>4, <3>1
    <3>. QED
      BY <3>2
  <2>2. CASE ~(i <= Len(q))
    <3>1. i - Len(q) \in 1..Len(p) /\ r[i] = p[i - Len(q)]
      BY <1>1, <1>3, <2>2
    <3>2. r[i][1] = f + 1
      BY <3>1
    <3>. QED
      BY <3>2
  <2>. QED
    BY <2>1, <2>2
<1>6. ASSUME NEW i \in 1..Len(r), NEW j \in 1..Len(r), i < j
      PROVE  Before(r[i], r[j])
  <2>1. CASE j <= Len(q)
    <3>1. i \in 1..Len(q) /\ j \in 1..Len(q) /\ r[i] = q[i] /\ r[j] = q[j]
      BY <1>1, <1>3, <1>6, <2>1
    <3>. QED
      BY <1>6, <3>1 DEF InOrder
  <2>2. CASE i <= Len(q) /\ ~(j <= Len(q))
    <3>1. i \in 1..Len(q) /\ j - Len(q) \in 1..Len(p)
          /\ r[i] = q[i] /\ r[j] = p[j - Len(q)]
      BY <1>1, <1>3, <2>2
    <3>2. r[j][1] = f + 1 /\ r[i][1] \in Nat /\ r[i][1] <= f
      BY <1>4, <3>1
    <3>. QED
      BY <3>2 DEF Before
  <2>3. CASE ~(i <= Len(q))
    <3>1. /\ i - Len(q) \in 1..Len(p) /\ j - Len(q) \in 1..Len(p)
          /\ i - Len(q) < j - Len(q)
          /\ r[i] = p[i - Len(q)] /\ r[j] = p[j - Len(q)]
      BY <1>1, <1>3, <1>6, <2>3
    <3>. QED
      BY <3>1 DEF InOrder
  <2>. QED
    BY <2>1, <2>2, <2>3
<1>. QED
  BY <1>2, <1>3, <1>5, <1>6 DEF InOrder

\* The recursive function of FlattenSeq, and that there is one.
Flattens(s, g, n) ==
  g = [i \in 1..n |-> IF i = 1 THEN s[i] ELSE g[i - 1] \o s[i]]

LEMMA FlattensExists ==
  ASSUME NEW s
  PROVE  \A n \in Nat : \E g : Flattens(s, g, n)
<1>. DEFINE S == {n \in Nat : \E g : Flattens(s, g, n)}
<1>1. 0 \in S
  <2>1. PICK g : g = [i \in 1..0 |-> s[i]]
    OBVIOUS
  <2>2. g = [i \in 1..0 |-> IF i = 1 THEN s[i] ELSE g[i - 1] \o s[i]]
    BY <2>1
  <2>. QED
    BY <2>2 DEF Flattens
<1>2. ASSUME NEW n \in Nat, n \in S PROVE n + 1 \in S
  <2>1. PICK g : Flattens(s, g, n)
    BY <1>2
  <2>2. PICK x : x = IF n + 1 = 1 THEN s[n + 1] ELSE g[n] \o s[n + 1]
    OBVIOUS
  <2>3. PICK h : h = [i \in 1..(n + 1) |-> IF i = n + 1 THEN x ELSE g[i]]
    OBVIOUS
  <2>4. \A i \in 1..n : h[i] = g[i]
    BY <2>3
  <2>5. h[n + 1] = x
    BY <2>3
  <2>6. ASSUME NEW i \in 1..(n + 1)
        PROVE  h[i] = IF i = 1 THEN s[i] ELSE h[i - 1] \o s[i]
    <3>1. CASE i = n + 1 /\ i = 1
      BY <2>2, <2>5, <3>1
    <3>2. CASE i = n + 1 /\ i # 1
      <4>1. n \in 1..n /\ i - 1 = n
        BY <3>2
      <4>2. h[n] = g[n]
        BY <2>4, <4>1
      <4>. QED
        BY <2>2, <2>5, <3>2, <4>1, <4>2
    <3>3. CASE i \in 1..n
      <4>1. g[i] = IF i = 1 THEN s[i] ELSE g[i - 1] \o s[i]
        BY <2>1, <3>3 DEF Flattens
      <4>2. i # 1 => i - 1 \in 1..n
        BY <3>3
      <4>3. h[i] = g[i] /\ (i # 1 => h[i - 1] = g[i - 1])
        BY <2>4, <3>3, <4>2
      <4>. QED
        BY <4>1, <4>3
    <3>. QED
      BY <3>1, <3>2, <3>3
  <2>7. Flattens(s, h, n + 1)
    BY <2>3, <2>6 DEF Flattens
  <2>. QED
    BY <2>7
<1>. QED
  <2>1. Nat \subseteq S
    <3>. HIDE DEF S
    <3>. QED
      BY <1>1, <1>2, SetInduction
  <2>. QED
    BY <2>1

\* The chunks of a transfer are in order.
LEMMA ChunkListInOrder ==
  ASSUME NEW t \in Transfers
  PROVE  InOrder(ChunkList[t], Len(Chunks[t]))
<1>1. PICK m : m = Chunks[t]
  OBVIOUS
<1>2. m \in Seq(Nat) /\ Len(m) \in Nat /\ DOMAIN m = 1..Len(m)
  BY <1>1, TransfersAssumption
<1>3. PICK s : s = [f \in DOMAIN m |-> [n \in 1..m[f] |-> <<f, n>>]]
  OBVIOUS
<1>4. Len(s) = Len(m)
  <2>1. DOMAIN s = 1..Len(m)
    BY <1>2, <1>3
  <2>. QED
    BY <1>2, <2>1, LenProperties
<1>5. ChunkList[t] = FlattenSeq(s)
  BY <1>1, <1>3 DEF ChunkList
<1>6. ASSUME NEW f \in 1..Len(m)
      PROVE  InOrder(s[f], f) /\ \A k \in 1..Len(s[f]) : s[f][k][1] = f
  <2>1. s[f] = [n \in 1..m[f] |-> <<f, n>>] /\ m[f] \in Nat /\ f \in Nat
    BY <1>2, <1>3
  <2>. QED
    BY <2>1, FileInOrder
<1>7. CASE Len(m) = 0
  <2>1. ChunkList[t] = s
    BY <1>4, <1>5, <1>7 DEF FlattenSeq
  <2>2. s \in Seq(Chunk) /\ Len(s) = 0
    BY <1>2, <1>3, <1>4, <1>7
  <2>3. InOrder(s, 0)
    BY <2>2 DEF InOrder
  <2>. QED
    BY <1>1, <1>7, <2>1, <2>3
<1>8. CASE Len(m) # 0
  <2>. DEFINE g == CHOOSE h : Flattens(s, h, Len(m))
  <2>1. Flattens(s, g, Len(m))
    BY <1>2, FlattensExists
  <2>2. ChunkList[t] = g[Len(m)]
    BY <1>4, <1>5, <1>8 DEF FlattenSeq, Flattens
  <2>. HIDE DEF g
  <2>. DEFINE S == {n \in Nat : n \in 1..Len(m) => InOrder(g[n], n)}
  <2>3. 0 \in S
    OBVIOUS
  <2>4. ASSUME NEW n \in Nat, n \in S PROVE n + 1 \in S
    <3>1. SUFFICES ASSUME n + 1 \in 1..Len(m) PROVE InOrder(g[n + 1], n + 1)
      OBVIOUS
    <3>2. /\ n = 0 => g[n + 1] = s[n + 1]
          /\ n # 0 => g[n + 1] = g[n] \o s[n + 1]
      <4>1. PICK k \in 1..Len(m) : k = n + 1
        BY <3>1
      <4>2. g[k] = IF k = 1 THEN s[k] ELSE g[k - 1] \o s[k]
        BY <2>1 DEF Flattens
      <4>3. k - 1 = n /\ (k = 1 <=> n = 0)
        BY <4>1
      <4>. QED
        BY <4>1, <4>2, <4>3
    <3>3. InOrder(s[n + 1], n + 1) /\ \A k \in 1..Len(s[n + 1]) : s[n + 1][k][1] = n + 1
      BY <1>6, <3>1
    <3>4. CASE n = 0
      BY <3>2, <3>3, <3>4
    <3>5. CASE n # 0
      <4>1. InOrder(g[n], n)
        BY <1>2, <2>4, <3>1, <3>5
      <4>2. g[n + 1] = g[n] \o s[n + 1]
        BY <3>2, <3>5
      <4>3. InOrder(g[n] \o s[n + 1], n + 1)
        BY <3>3, <4>1, AppendedInOrder
      <4>. QED
        BY <4>2, <4>3
    <3>. QED
      BY <3>4, <3>5
  <2>5. Nat \subseteq S
    <3>. HIDE DEF S
    <3>. QED
      BY <2>3, <2>4, SetInduction
  <2>6. InOrder(g[Len(m)], Len(m))
    BY <1>2, <1>8, <2>5
  <2>. QED
    BY <1>1, <2>2, <2>6
<1>. QED
  BY <1>7, <1>8

\* Their order is the order of sending.
LEMMA ChunkFacts ==
  ASSUME NEW t \in Transfers
  PROVE  /\ ChunkList[t] \in Seq(Chunk) /\ Len(ChunkList[t]) \in Nat
         /\ AllChunks(t) = {ChunkList[t][i] : i \in 1..Len(ChunkList[t])}
         /\ AllChunks(t) \subseteq Chunk
         /\ \A x \in AllChunks(t) : x[1] \in 0..Len(Chunks[t])
         /\ \A i, j \in 1..Len(ChunkList[t]) :
              i < j => Before(ChunkList[t][i], ChunkList[t][j])
<1>1. PICK q : q = ChunkList[t]
  OBVIOUS
<1>2. /\ q \in Seq(Chunk) /\ Len(q) \in Nat /\ DOMAIN q = 1..Len(q)
      /\ \A i, j \in 1..Len(q) : i < j => Before(q[i], q[j])
      /\ \A i \in 1..Len(q) : q[i][1] <= Len(Chunks[t])
  BY <1>1, ChunkListInOrder DEF InOrder
<1>3. AllChunks(t) = {q[i] : i \in 1..Len(q)}
  BY <1>1, <1>2 DEF AllChunks, ToSet
<1>4. \A i \in 1..Len(q) : q[i] \in Chunk /\ q[i][1] \in Nat
  BY <1>2 DEF Chunk
<1>5. Len(Chunks[t]) \in Nat
  BY TransfersAssumption
<1>6. \A x \in AllChunks(t) : x[1] \in 0..Len(Chunks[t])
  BY <1>2, <1>3, <1>4, <1>5
<1>. QED
  BY <1>1, <1>2, <1>3, <1>4, <1>6

\* The order is strict, and a file begins with its first chunk.
LEMMA BeforeFacts ==
  ASSUME NEW x \in Chunk, NEW y \in Chunk
  PROVE  /\ ~Before(x, x) /\ ~(Before(x, y) /\ Before(y, x))
         /\ \A z \in Chunk : Before(x, y) /\ Before(y, z) => Before(x, z)
         /\ Before(x, y) /\ y[2] = 1 => x[1] # y[1]
BY DEF Chunk, Before

\* The chunks of t that were sent when s were.
SentChunks(t, s) == {ChunkList[t][n] : n \in 1..s}

LEMMA SentFacts ==
  ASSUME NEW t \in Transfers
  PROVE  /\ SentChunks(t, 0) = {}
         /\ SentChunks(t, Len(ChunkList[t])) = AllChunks(t)
BY ChunkFacts DEF SentChunks

LEMMA NextChunk ==
  ASSUME NEW t \in Transfers, NEW s \in 0..Len(ChunkList[t]),
         s < Len(ChunkList[t]), NEW x, x = ChunkList[t][s + 1]
  PROVE  /\ x \in AllChunks(t) /\ x \in Chunk
         /\ s + 1 \in 0..Len(ChunkList[t])
         /\ \A y \in AllChunks(t) : Before(y, x) => y \in SentChunks(t, s)
         /\ \A y \in SentChunks(t, s) : Before(y, x)
         /\ SentChunks(t, s + 1) = SentChunks(t, s) \cup {x}
<1>1. PICK q : q = ChunkList[t]
  OBVIOUS
<1>2. /\ q \in Seq(Chunk) /\ Len(q) \in Nat
      /\ AllChunks(t) = {q[i] : i \in 1..Len(q)}
      /\ \A i, j \in 1..Len(q) : i < j => Before(q[i], q[j])
  BY <1>1, ChunkFacts
<1>3. PICK n \in 1..Len(q) : n = s + 1 /\ x = q[n]
  BY <1>1, <1>2
<1>4. x \in AllChunks(t) /\ x \in Chunk
  BY <1>2, <1>3
<1>5. SentChunks(t, s) = {q[i] : i \in 1..s}
      /\ SentChunks(t, s + 1) = {q[i] : i \in 1..(s + 1)}
  BY <1>1 DEF SentChunks
<1>6. \A y \in SentChunks(t, s) : Before(y, x)
  <2>1. \A i \in 1..s : i \in 1..Len(q) /\ i < n
    BY <1>2, <1>3
  <2>. QED
    BY <1>2, <1>3, <1>5, <2>1
<1>7. ASSUME NEW y \in AllChunks(t), Before(y, x) PROVE y \in SentChunks(t, s)
  <2>1. PICK i \in 1..Len(q) : y = q[i]
    BY <1>2
  <2>2. CASE i <= s
    <3>1. i \in 1..s
      BY <2>2
    <3>. QED
      BY <1>5, <2>1, <3>1
  <2>3. CASE i = n
    BY <1>3, <1>4, <1>7, <2>1, <2>3, BeforeFacts
  <2>4. CASE n < i
    <3>1. Before(x, y) /\ y \in Chunk
      BY <1>2, <1>3, <2>1, <2>4
    <3>. QED
      BY <1>4, <1>7, <3>1, BeforeFacts
  <2>. QED
    BY <1>2, <1>3, <2>2, <2>3, <2>4
<1>8. SentChunks(t, s + 1) = SentChunks(t, s) \cup {x}
  <2>1. 1..(s + 1) = (1..s) \cup {n}
    BY <1>3
  <2>. QED
    BY <1>3, <1>5, <2>1
<1>. QED
  BY <1>1, <1>2, <1>3, <1>4, <1>6, <1>7, <1>8

-----------------------------------------------------------------------------
(* What a wire q says of transfer t, of which st is stored.                *)

IsMsg(m, kind, t) == m.kind = kind /\ m.transfer = t

IsChunk(m, t, x) == IsMsg(m, "Chunk", t) /\ m.chunk = x

\* Each chunk of S is stored, or comes before place i.
Had(S, st, q, t, i) ==
  \A x \in S : x \in st \/ \E j \in 1..(i - 1) : IsChunk(q[j], t, x)

\* Neither a chunk nor Done comes before what was sent before it, and no chunk
\* comes a second time.
ChunksInOrder(q, t, st) ==
  \A i \in 1..Len(q) :
    IsMsg(q[i], "Chunk", t) =>
      /\ q[i].chunk \in AllChunks(t)
      /\ Had({x \in AllChunks(t) : Before(x, q[i].chunk)}, st, q, t, i)
      /\ \A x \in st : Before(x, q[i].chunk)
      /\ \A j \in 1..Len(q) :
           i < j /\ IsMsg(q[j], "Chunk", t) => Before(q[i].chunk, q[j].chunk)

DoneIsLast(q, t, st) ==
  \A i \in 1..Len(q) : IsMsg(q[i], "Done", t) => Had(AllChunks(t), st, q, t, i)

Orderly(q, t, st) == ChunksInOrder(q, t, st) /\ DoneIsLast(q, t, st)

Speaks(m, t) == \E kind \in {"Offer", "Chunk", "Done"} : IsMsg(m, kind, t)

Silent(q, t) == \A i \in 1..Len(q) : ~Speaks(q[i], t)

Offering(q, t) == \E i \in 1..Len(q) : IsMsg(q[i], "Offer", t)

OfferFirst(q, t) ==
  \A i, j \in 1..Len(q) : IsMsg(q[i], "Offer", t) /\ j < i => ~Speaks(q[j], t)

ChunksIn(q, t, S) ==
  \A i \in 1..Len(q) : IsMsg(q[i], "Chunk", t) => q[i].chunk \in S

\* Reading a message that is no chunk of t.
LEMMA TailFacts ==
  ASSUME NEW T, NEW q \in Seq(T), q # <<>>
  PROVE  /\ Len(q) \in Nat \ {0} /\ Head(q) = q[1]
         /\ Len(Tail(q)) = Len(q) - 1
         /\ \A i \in 1..(Len(q) - 1) : Tail(q)[i] = q[i + 1]
BY HeadTailProperties, EmptySeq

LEMMA TailKeeps ==
  ASSUME NEW T, NEW q \in Seq(T), q # <<>>, NEW t
  PROVE  /\ OfferFirst(q, t) => OfferFirst(Tail(q), t)
         /\ Offering(Tail(q), t) => Offering(q, t)
         /\ Silent(q, t) => Silent(Tail(q), t)
         /\ \A S : ChunksIn(q, t, S) => ChunksIn(Tail(q), t, S)
<1>1. PICK r : r = Tail(q)
  OBVIOUS
<1>2. PICK n \in Nat : n = Len(q) /\ n > 0
  BY TailFacts
<1>3. Len(r) = n - 1 /\ \A i \in 1..(n - 1) : r[i] = q[i + 1] /\ i + 1 \in 1..n
  BY <1>1, <1>2, TailFacts
<1>4. OfferFirst(q, t) => OfferFirst(r, t)
  BY <1>2, <1>3 DEF OfferFirst
<1>5. Offering(r, t) => Offering(q, t)
  BY <1>2, <1>3 DEF Offering
<1>6. Silent(q, t) => Silent(r, t)
  BY <1>2, <1>3 DEF Silent
<1>7. \A S : ChunksIn(q, t, S) => ChunksIn(r, t, S)
  BY <1>2, <1>3 DEF ChunksIn
<1>. QED
  BY <1>1, <1>4, <1>5, <1>6, <1>7

\* When the first message is read, and stored if it is a chunk of t.
LEMMA ReadKeepsHad ==
  ASSUME NEW T, NEW q \in Seq(T), q # <<>>, NEW t, NEW st, NEW st2, NEW S,
         NEW i \in 2..(Len(q) + 1), Had(S, st, q, t, i),
         st \subseteq st2, IsMsg(Head(q), "Chunk", t) => Head(q).chunk \in st2
  PROVE  Had(S, st2, Tail(q), t, i - 1)
<1>1. PICK r : r = Tail(q)
  OBVIOUS
<1>2. PICK n \in Nat : n = Len(q) /\ n > 0
  BY TailFacts
<1>3. /\ Len(r) = n - 1 /\ Head(q) = q[1]
      /\ \A j \in 1..(n - 1) : r[j] = q[j + 1]
  BY <1>1, <1>2, TailFacts
<1>4. ASSUME NEW x \in S, x \notin st2
      PROVE  \E j \in 1..(i - 1 - 1) : IsChunk(r[j], t, x)
  <2>1. PICK j \in 1..(i - 1) : IsChunk(q[j], t, x)
    BY <1>4 DEF Had
  <2>2. j # 1
    BY <1>3, <1>4, <2>1 DEF IsChunk
  <2>3. j - 1 \in 1..(i - 1 - 1) /\ j - 1 \in 1..(n - 1) /\ (j - 1) + 1 = j
    BY <1>2, <2>2
  <2>4. r[j - 1] = q[j]
    BY <1>3, <2>3
  <2>. QED
    BY <2>1, <2>3, <2>4
<1>. QED
  BY <1>1, <1>4 DEF Had

LEMMA ReadKeepsOrder ==
  ASSUME NEW T, NEW q \in Seq(T), q # <<>>, NEW t, NEW st, NEW st2,
         Orderly(q, t, st),
         IF IsMsg(Head(q), "Chunk", t) THEN st2 = st \cup {Head(q).chunk}
                                       ELSE st2 = st
  PROVE  Orderly(Tail(q), t, st2)
<1>1. PICK r : r = Tail(q)
  OBVIOUS
<1>2. PICK n \in Nat : n = Len(q) /\ n > 0
  BY TailFacts
<1>3. /\ Len(r) = n - 1 /\ Head(q) = q[1]
      /\ \A j \in 1..(n - 1) : r[j] = q[j + 1] /\ j + 1 \in 1..n /\ j + 1 \in 2..n
  BY <1>1, <1>2, TailFacts
<1>4. st \subseteq st2 /\ (IsMsg(Head(q), "Chunk", t) => Head(q).chunk \in st2)
  OBVIOUS
<1>5. ASSUME NEW i \in 1..(n - 1), NEW S, Had(S, st, q, t, i + 1)
      PROVE  Had(S, st2, r, t, i)
  <2>1. PICK k \in 2..(Len(q) + 1) : k = i + 1
    BY <1>2
  <2>2. Had(S, st2, Tail(q), t, k - 1)
    BY <1>4, <1>5, <2>1, ReadKeepsHad
  <2>. QED
    BY <1>1, <2>1, <2>2
<1>6. ASSUME NEW i \in 1..(n - 1), IsMsg(r[i], "Chunk", t)
      PROVE  /\ r[i].chunk \in AllChunks(t)
             /\ Had({x \in AllChunks(t) : Before(x, r[i].chunk)}, st2, r, t, i)
             /\ \A x \in st2 : Before(x, r[i].chunk)
             /\ \A j \in 1..(n - 1) :
                  i < j /\ IsMsg(r[j], "Chunk", t) => Before(r[i].chunk, r[j].chunk)
  <2>1. PICK k \in 1..n : k = i + 1 /\ r[i] = q[k] /\ 1 < k
    BY <1>3
  <2>2. /\ q[k].chunk \in AllChunks(t)
        /\ Had({x \in AllChunks(t) : Before(x, q[k].chunk)}, st, q, t, k)
        /\ \A x \in st : Before(x, q[k].chunk)
        /\ \A j \in 1..n :
             k < j /\ IsMsg(q[j], "Chunk", t) => Before(q[k].chunk, q[j].chunk)
    BY <1>2, <1>6, <2>1 DEF Orderly, ChunksInOrder
  <2>3. Had({x \in AllChunks(t) : Before(x, r[i].chunk)}, st2, r, t, i)
    BY <1>5, <2>1, <2>2
  <2>4. IsMsg(Head(q), "Chunk", t) => Before(Head(q).chunk, q[k].chunk)
    <3>1. 1 \in 1..Len(q) /\ k \in 1..Len(q) /\ Head(q) = q[1] /\ IsMsg(q[k], "Chunk", t)
      BY <1>2, <1>3, <1>6, <2>1
    <3>2. ChunksInOrder(q, t, st)
      BY DEF Orderly
    <3>. QED
      BY <2>1, <3>1, <3>2 DEF ChunksInOrder
  <2>5. \A x \in st2 : Before(x, r[i].chunk)
    BY <2>1, <2>2, <2>4
  <2>6. ASSUME NEW j \in 1..(n - 1), i < j, IsMsg(r[j], "Chunk", t)
        PROVE  Before(r[i].chunk, r[j].chunk)
    <3>1. r[j] = q[j + 1] /\ j + 1 \in 1..n /\ k < j + 1
      BY <1>3, <2>1, <2>6
    <3>. QED
      BY <2>1, <2>2, <2>6, <3>1
  <2>. QED
    BY <2>1, <2>2, <2>3, <2>5, <2>6
<1>7. ASSUME NEW i \in 1..(n - 1), IsMsg(r[i], "Done", t)
      PROVE  Had(AllChunks(t), st2, r, t, i)
  <2>1. PICK k \in 1..n : k = i + 1 /\ r[i] = q[k]
    BY <1>3
  <2>2. Had(AllChunks(t), st, q, t, k)
    BY <1>2, <1>7, <2>1 DEF Orderly, DoneIsLast
  <2>. QED
    BY <1>5, <2>1, <2>2
<1>. QED
  BY <1>1, <1>3, <1>6, <1>7 DEF Orderly, ChunksInOrder, DoneIsLast

\* A chunk that is read comes after all that are stored; Done after all there
\* are.
LEMMA HeadInOrder ==
  ASSUME NEW T, NEW q \in Seq(T), q # <<>>, NEW t, NEW st, Orderly(q, t, st)
  PROVE  /\ IsMsg(Head(q), "Chunk", t) =>
              Head(q).chunk \in AllChunks(t) /\ \A x \in st : Before(x, Head(q).chunk)
         /\ IsMsg(Head(q), "Done", t) => AllChunks(t) \subseteq st
<1>1. 1 \in 1..Len(q) /\ Head(q) = q[1]
  BY TailFacts
<1>2. ASSUME IsMsg(Head(q), "Done", t), NEW x \in AllChunks(t) PROVE x \in st
  BY <1>1, <1>2 DEF Orderly, DoneIsLast, Had
<1>. QED
  BY <1>1, <1>2 DEF Orderly, ChunksInOrder

\* When a connection breaks and loses the last messages.
LEMMA PrefixKeeps ==
  ASSUME NEW T, NEW q \in Seq(T), NEW n \in 0..Len(q), NEW t
  PROVE  /\ OfferFirst(q, t) => OfferFirst(SubSeq(q, 1, n), t)
         /\ Offering(SubSeq(q, 1, n), t) => Offering(q, t)
         /\ Silent(q, t) => Silent(SubSeq(q, 1, n), t)
         /\ \A S : ChunksIn(q, t, S) => ChunksIn(SubSeq(q, 1, n), t, S)
         /\ \A st : Orderly(q, t, st) => Orderly(SubSeq(q, 1, n), t, st)
<1>1. PICK r : r = SubSeq(q, 1, n)
  OBVIOUS
<1>2. /\ n \in Nat /\ Len(q) \in Nat /\ n <= Len(q) /\ Len(r) = n
      /\ \A i \in 1..n : r[i] = q[i] /\ i \in 1..Len(q)
  BY <1>1
<1>3. OfferFirst(q, t) => OfferFirst(r, t)
  BY <1>2 DEF OfferFirst
<1>4. Offering(r, t) => Offering(q, t)
  BY <1>2 DEF Offering
<1>5. Silent(q, t) => Silent(r, t)
  BY <1>2 DEF Silent
<1>6. \A S : ChunksIn(q, t, S) => ChunksIn(r, t, S)
  BY <1>2 DEF ChunksIn
<1>7. ASSUME NEW st, NEW S, NEW i \in 1..n, Had(S, st, q, t, i)
      PROVE  Had(S, st, r, t, i)
  <2>1. \A j \in 1..(i - 1) : j \in 1..n
    BY <1>2
  <2>. QED
    BY <1>2, <1>7, <2>1 DEF Had
<1>8. ASSUME NEW st, Orderly(q, t, st) PROVE Orderly(r, t, st)
  <2>1. ASSUME NEW i \in 1..n, IsMsg(r[i], "Chunk", t)
        PROVE  /\ r[i].chunk \in AllChunks(t)
               /\ Had({x \in AllChunks(t) : Before(x, r[i].chunk)}, st, r, t, i)
               /\ \A x \in st : Before(x, r[i].chunk)
               /\ \A j \in 1..n :
                    i < j /\ IsMsg(r[j], "Chunk", t) => Before(r[i].chunk, r[j].chunk)
    <3>1. i \in 1..Len(q) /\ r[i] = q[i]
      BY <1>2
    <3>2. /\ q[i].chunk \in AllChunks(t)
          /\ Had({x \in AllChunks(t) : Before(x, q[i].chunk)}, st, q, t, i)
          /\ \A x \in st : Before(x, q[i].chunk)
          /\ \A j \in 1..Len(q) :
               i < j /\ IsMsg(q[j], "Chunk", t) => Before(q[i].chunk, q[j].chunk)
      BY <1>8, <2>1, <3>1 DEF Orderly, ChunksInOrder
    <3>3. Had({x \in AllChunks(t) : Before(x, r[i].chunk)}, st, r, t, i)
      BY <1>7, <3>1, <3>2
    <3>. QED
      BY <1>2, <3>1, <3>2, <3>3
  <2>2. ASSUME NEW i \in 1..n, IsMsg(r[i], "Done", t)
        PROVE  Had(AllChunks(t), st, r, t, i)
    BY <1>2, <1>7, <1>8, <2>2 DEF Orderly, DoneIsLast
  <2>. QED
    BY <1>2, <2>1, <2>2 DEF Orderly, ChunksInOrder, DoneIsLast
<1>. QED
  BY <1>1, <1>3, <1>4, <1>5, <1>6, <1>8

\* When a message is sent.
LEMMA AppendKeeps ==
  ASSUME NEW T, NEW q \in Seq(T), NEW m \in T, NEW t
  PROVE  /\ OfferFirst(q, t) /\ (IsMsg(m, "Offer", t) => Silent(q, t))
              => OfferFirst(Append(q, m), t)
         /\ Offering(Append(q, m), t) => Offering(q, t) \/ IsMsg(m, "Offer", t)
         /\ Silent(q, t) /\ ~Speaks(m, t) => Silent(Append(q, m), t)
         /\ \A S : /\ ChunksIn(q, t, S)
                   /\ IsMsg(m, "Chunk", t) => m.chunk \in S
                   => ChunksIn(Append(q, m), t, S)
<1>1. PICK r : r = Append(q, m)
  OBVIOUS
<1>2. PICK n \in Nat : n = Len(q)
  OBVIOUS
<1>3. /\ Len(r) = n + 1 /\ r[n + 1] = m
      /\ \A i \in 1..(n + 1) : i = n + 1 \/ (i \in 1..n /\ r[i] = q[i])
  BY <1>1, <1>2, AppendProperties
<1>4. ASSUME OfferFirst(q, t), IsMsg(m, "Offer", t) => Silent(q, t)
      PROVE  OfferFirst(r, t)
  <2>1. SUFFICES ASSUME NEW i \in 1..(n + 1), NEW j \in 1..(n + 1),
                        IsMsg(r[i], "Offer", t), j < i
                 PROVE  ~Speaks(r[j], t)
    BY <1>3 DEF OfferFirst
  <2>2. j \in 1..n /\ r[j] = q[j]
    BY <1>3, <2>1
  <2>3. CASE i = n + 1
    BY <1>2, <1>3, <1>4, <2>1, <2>2, <2>3 DEF Silent
  <2>4. CASE i \in 1..n /\ r[i] = q[i]
    BY <1>2, <1>4, <2>1, <2>2, <2>4 DEF OfferFirst
  <2>. QED
    BY <1>3, <2>3, <2>4
<1>5. Offering(r, t) => Offering(q, t) \/ IsMsg(m, "Offer", t)
  BY <1>2, <1>3 DEF Offering
<1>6. Silent(q, t) /\ ~Speaks(m, t) => Silent(r, t)
  BY <1>2, <1>3 DEF Silent
<1>7. ASSUME NEW S, ChunksIn(q, t, S), IsMsg(m, "Chunk", t) => m.chunk \in S
      PROVE  ChunksIn(r, t, S)
  BY <1>2, <1>3, <1>7 DEF ChunksIn
<1>. QED
  BY <1>1, <1>4, <1>5, <1>6, <1>7

LEMMA AppendKeepsHad ==
  ASSUME NEW T, NEW q \in Seq(T), NEW m \in T, NEW t, NEW st, NEW S
  PROVE  /\ \A i \in 1..(Len(q) + 1) :
              Had(S, st, q, t, i) => Had(S, st, Append(q, m), t, i)
         /\ Had(S, st, q, t, Len(q) + 1) =>
              Had(S, st, Append(q, m), t, Len(Append(q, m)) + 1)
         /\ \A x : Had(S, st, q, t, Len(q) + 1) /\ IsChunk(m, t, x) =>
              Had(S \cup {x}, st, Append(q, m), t, Len(Append(q, m)) + 1)
<1>1. PICK r : r = Append(q, m)
  OBVIOUS
<1>2. PICK n \in Nat : n = Len(q)
  OBVIOUS
<1>3. Len(r) = n + 1 /\ r[n + 1] = m /\ \A i \in 1..n : r[i] = q[i]
  BY <1>1, <1>2, AppendProperties
<1>4. ASSUME NEW i \in 1..(n + 1), Had(S, st, q, t, i) PROVE Had(S, st, r, t, i)
  <2>1. \A j \in 1..(i - 1) : j \in 1..n
    BY <1>2
  <2>. QED
    BY <1>3, <1>4, <2>1 DEF Had
<1>5. ASSUME NEW U, Had(U, st, r, t, n + 1) PROVE Had(U, st, r, t, n + 1 + 1)
  <2>1. \A j \in 1..(n + 1 - 1) : j \in 1..(n + 1 + 1 - 1)
    OBVIOUS
  <2>. QED
    BY <1>5, <2>1 DEF Had
<1>6. ASSUME NEW x, Had(S, st, r, t, n + 1 + 1), IsChunk(m, t, x)
      PROVE  Had(S \cup {x}, st, r, t, n + 1 + 1)
  <2>1. n + 1 \in 1..(n + 1 + 1 - 1) /\ IsChunk(r[n + 1], t, x)
    BY <1>3, <1>6
  <2>. QED
    BY <1>6, <2>1 DEF Had
<1>7. n + 1 \in 1..(n + 1)
  OBVIOUS
<1>. QED
  BY <1>1, <1>2, <1>3, <1>4, <1>5, <1>6, <1>7

LEMMA AppendKeepsOrder ==
  ASSUME NEW T, NEW q \in Seq(T), NEW m \in T, NEW t, NEW st, Orderly(q, t, st),
         IsMsg(m, "Chunk", t) =>
           /\ m.chunk \in AllChunks(t)
           /\ Had({x \in AllChunks(t) : Before(x, m.chunk)}, st, q, t, Len(q) + 1)
           /\ \A x \in st : Before(x, m.chunk)
           /\ ChunksIn(q, t, {x \in AllChunks(t) : Before(x, m.chunk)}),
         IsMsg(m, "Done", t) => Had(AllChunks(t), st, q, t, Len(q) + 1)
  PROVE  Orderly(Append(q, m), t, st)
<1>1. PICK r : r = Append(q, m)
  OBVIOUS
<1>2. PICK n \in Nat : n = Len(q)
  OBVIOUS
<1>3. /\ Len(r) = n + 1 /\ r[n + 1] = m
      /\ \A i \in 1..(n + 1) : i = n + 1 \/ (i \in 1..n /\ r[i] = q[i])
  BY <1>1, <1>2, AppendProperties
<1>4. ASSUME NEW S, NEW i \in 1..(n + 1), Had(S, st, q, t, i)
      PROVE  Had(S, st, r, t, i)
  BY <1>1, <1>2, <1>4, AppendKeepsHad
<1>5. ASSUME NEW i \in 1..n, IsMsg(r[i], "Chunk", t)
      PROVE  /\ r[i].chunk \in AllChunks(t)
             /\ Had({x \in AllChunks(t) : Before(x, r[i].chunk)}, st, r, t, i)
             /\ \A x \in st : Before(x, r[i].chunk)
             /\ \A j \in 1..(n + 1) :
                  i < j /\ IsMsg(r[j], "Chunk", t) => Before(r[i].chunk, r[j].chunk)
  <2>1. i \in 1..Len(q) /\ r[i] = q[i] /\ i \in 1..(n + 1)
    BY <1>2, <1>3
  <2>2. /\ q[i].chunk \in AllChunks(t)
        /\ Had({x \in AllChunks(t) : Before(x, q[i].chunk)}, st, q, t, i)
        /\ \A x \in st : Before(x, q[i].chunk)
        /\ \A j \in 1..Len(q) :
             i < j /\ IsMsg(q[j], "Chunk", t) => Before(q[i].chunk, q[j].chunk)
    BY <1>5, <2>1 DEF Orderly, ChunksInOrder
  <2>3. Had({x \in AllChunks(t) : Before(x, r[i].chunk)}, st, r, t, i)
    BY <1>4, <2>1, <2>2
  <2>4. IsMsg(m, "Chunk", t) => Before(q[i].chunk, m.chunk)
    BY <1>5, <2>1 DEF ChunksIn
  <2>5. ASSUME NEW j \in 1..(n + 1), i < j, IsMsg(r[j], "Chunk", t)
        PROVE  Before(r[i].chunk, r[j].chunk)
    BY <1>2, <1>3, <2>1, <2>2, <2>4, <2>5
  <2>. QED
    BY <2>1, <2>2, <2>3, <2>5
<1>6. ASSUME IsMsg(m, "Chunk", t)
      PROVE  /\ m.chunk \in AllChunks(t)
             /\ Had({x \in AllChunks(t) : Before(x, m.chunk)}, st, r, t, n + 1)
             /\ \A x \in st : Before(x, m.chunk)
  <2>1. n + 1 \in 1..(n + 1)
    OBVIOUS
  <2>. QED
    BY <1>2, <1>4, <1>6, <2>1
<1>7. ASSUME NEW i \in 1..(n + 1), IsMsg(r[i], "Done", t)
      PROVE  Had(AllChunks(t), st, r, t, i)
  <2>1. CASE i = n + 1
    BY <1>2, <1>3, <1>4, <1>7, <2>1
  <2>2. CASE i \in 1..n /\ r[i] = q[i]
    <3>1. Had(AllChunks(t), st, q, t, i)
      BY <1>2, <1>7, <2>2 DEF Orderly, DoneIsLast
    <3>. QED
      BY <1>4, <3>1
  <2>. QED
    BY <1>3, <2>1, <2>2
<1>8. \A j \in 1..(n + 1) : ~(n + 1 < j)
  OBVIOUS
<1>. QED
  BY <1>1, <1>3, <1>5, <1>6, <1>7, <1>8 DEF Orderly, ChunksInOrder, DoneIsLast

\* Nothing is said on an empty wire.
LEMMA EmptyKeeps ==
  ASSUME NEW t
  PROVE  /\ OfferFirst(<<>>, t) /\ ~Offering(<<>>, t) /\ Silent(<<>>, t)
         /\ \A S : ChunksIn(<<>>, t, S)
         /\ \A st : Orderly(<<>>, t, st)
<1>1. PICK q : q = <<>>
  OBVIOUS
<1>2. 1..Len(q) = {}
  BY <1>1
<1>3. /\ OfferFirst(q, t) /\ ~Offering(q, t) /\ Silent(q, t)
      /\ \A S : ChunksIn(q, t, S)
      /\ \A st : Orderly(q, t, st)
  BY <1>2
  DEF OfferFirst, Offering, Silent, ChunksIn, Orderly, ChunksInOrder, DoneIsLast
<1>. QED
  BY <1>1, <1>3

-----------------------------------------------------------------------------
(* The account of one transfer t: p and s are pc and sent of it, q is the    *)
(* wire of its connection and u whether that is up, st what is stored of it, *)
(* R and L are receiving and received_log.                                   *)

\* Nothing of it has come.
Blank(t, st, R, L) == t \notin R /\ t \notin L /\ st = {}

\* What comes of it will be stored.
Expects(t, q, R) == t \in R \/ Offering(q, t)

\* While it is sent, what was sent is stored or on its way.
Tracks(t, s, q, u, st) ==
  /\ st \subseteq SentChunks(t, s)
  /\ ChunksIn(q, t, SentChunks(t, s))
  /\ u = TRUE => Had(SentChunks(t, s), st, q, t, Len(q) + 1)

Early == {"Idle", "Init", "Tls", "Offer"}

Account(t, p, s, q, u, st, R, L) ==
  /\ st \subseteq AllChunks(t) /\ s \in 0..Len(ChunkList[t])
  /\ p \in Early => Blank(t, st, R, L) /\ s = 0 /\ Silent(q, t)
  /\ Offering(q, t) => Blank(t, st, R, L)
  /\ OfferFirst(q, t)
  /\ Expects(t, q, R) => Orderly(q, t, st)
  /\ Expects(t, q, R) /\ p = "Stream" => Tracks(t, s, q, u, st)
  /\ t \in L => t \notin R /\ st = AllChunks(t)

\* Of the sets only the place of t matters, of the time before the offer
\* nothing, and what is given up is not followed any more.
LEMMA AccountSame ==
  ASSUME NEW t, NEW p, NEW s, NEW q, NEW u, NEW st, NEW R, NEW L,
         Account(t, p, s, q, u, st, R, L), NEW p2, NEW R2, NEW L2,
         t \in R2 <=> t \in R, t \in L2 <=> t \in L,
         p2 = p \/ p2 = "Over" \/ {p, p2} \subseteq Early
  PROVE  Account(t, p2, s, q, u, st, R2, L2)
BY DEF Account, Expects, Blank, Early

LEMMA HeadSpeaks ==
  ASSUME NEW T, NEW q \in Seq(T), q # <<>>, NEW t, OfferFirst(q, t),
         Speaks(Head(q), t)
  PROVE  /\ ~Silent(q, t) /\ ~Offering(Tail(q), t)
         /\ ~IsMsg(Head(q), "Offer", t) => ~Offering(q, t)
<1>1. PICK n \in Nat : n = Len(q) /\ n > 0 /\ Head(q) = q[1] /\ 1 \in 1..Len(q)
  BY TailFacts
<1>2. ASSUME NEW i \in 2..n PROVE ~IsMsg(q[i], "Offer", t)
  BY <1>1, <1>2 DEF OfferFirst
<1>3. ~Offering(Tail(q), t)
  <2>1. PICK r : r = Tail(q)
    OBVIOUS
  <2>2. Len(r) = n - 1 /\ \A i \in 1..(n - 1) : r[i] = q[i + 1] /\ i + 1 \in 2..n
    BY <1>1, <2>1, TailFacts
  <2>3. ~Offering(r, t)
    BY <1>1, <1>2, <2>2 DEF Offering
  <2>. QED
    BY <2>1, <2>3
<1>4. ~IsMsg(Head(q), "Offer", t) => ~Offering(q, t)
  <2>1. \A i \in 1..n : i = 1 \/ i \in 2..n
    OBVIOUS
  <2>. QED
    BY <1>1, <1>2, <2>1 DEF Offering
<1>. QED
  BY <1>1, <1>3, <1>4 DEF Silent

\* A message is read that says nothing of t, ...
LEMMA AccountPassed ==
  ASSUME NEW T, NEW q \in Seq(T), q # <<>>, NEW t, NEW p, NEW s, NEW u, NEW st,
         NEW R, NEW L, Account(t, p, s, q, u, st, R, L), ~Speaks(Head(q), t)
  PROVE  Account(t, p, s, Tail(q), u, st, R, L)
<1>1. PICK r : r = Tail(q)
  OBVIOUS
<1>2. ~IsMsg(Head(q), "Chunk", t)
  BY DEF Speaks
<1>3. /\ OfferFirst(r, t) /\ (Offering(r, t) => Offering(q, t))
      /\ Silent(q, t) => Silent(r, t)
      /\ \A S : ChunksIn(q, t, S) => ChunksIn(r, t, S)
  BY <1>1, TailKeeps DEF Account
<1>4. Orderly(q, t, st) => Orderly(r, t, st)
  BY <1>1, <1>2, ReadKeepsOrder
<1>5. Had(SentChunks(t, s), st, q, t, Len(q) + 1) =>
        Had(SentChunks(t, s), st, r, t, Len(r) + 1)
  <2>1. PICK i \in 2..(Len(q) + 1) : i = Len(q) + 1 /\ i - 1 = Len(r) + 1
    BY <1>1, TailFacts
  <2>. QED
    BY <1>1, <1>2, <2>1, ReadKeepsHad
<1>6. Expects(t, r, R) => Expects(t, q, R)
  BY <1>3 DEF Expects
<1>7. Tracks(t, s, q, u, st) => Tracks(t, s, r, u, st)
  BY <1>3, <1>5 DEF Tracks
<1>8. Account(t, p, s, r, u, st, R, L)
  BY <1>3, <1>4, <1>6, <1>7 DEF Account
<1>. QED
  BY <1>1, <1>8

\* ... or its offer, which is accepted or not, ...
LEMMA AccountOffered ==
  ASSUME NEW T, NEW q \in Seq(T), q # <<>>, NEW t, NEW p, NEW s, NEW u, NEW st,
         NEW R, NEW L, Account(t, p, s, q, u, st, R, L),
         IsMsg(Head(q), "Offer", t), NEW R2
  PROVE  Account(t, p, s, Tail(q), u, st, R2, L)
<1>1. PICK r : r = Tail(q)
  OBVIOUS
<1>2. ~IsMsg(Head(q), "Chunk", t) /\ Speaks(Head(q), t)
  BY DEF Speaks, IsMsg
<1>3. /\ OfferFirst(r, t) /\ ~Offering(r, t) /\ ~Silent(q, t)
      /\ \A S : ChunksIn(q, t, S) => ChunksIn(r, t, S)
  BY <1>1, <1>2, TailKeeps, HeadSpeaks DEF Account
<1>4. Offering(q, t)
  <2>1. 1 \in 1..Len(q) /\ Head(q) = q[1]
    BY TailFacts
  <2>. QED
    BY <2>1 DEF Offering
<1>5. /\ Blank(t, st, R, L) /\ Orderly(q, t, st)
      /\ p \notin Early /\ (p = "Stream" => Tracks(t, s, q, u, st))
  BY <1>3, <1>4 DEF Account, Expects
<1>6. Orderly(r, t, st)
  BY <1>1, <1>2, <1>5, ReadKeepsOrder
<1>7. Had(SentChunks(t, s), st, q, t, Len(q) + 1) =>
        Had(SentChunks(t, s), st, r, t, Len(r) + 1)
  <2>1. PICK i \in 2..(Len(q) + 1) : i = Len(q) + 1 /\ i - 1 = Len(r) + 1
    BY <1>1, TailFacts
  <2>. QED
    BY <1>1, <1>2, <2>1, ReadKeepsHad
<1>8. Tracks(t, s, q, u, st) => Tracks(t, s, r, u, st)
  BY <1>3, <1>7 DEF Tracks
<1>9. Account(t, p, s, r, u, st, R2, L)
  BY <1>3, <1>5, <1>6, <1>8 DEF Account, Blank
<1>. QED
  BY <1>1, <1>9

\* ... or a chunk of it, which is stored if it is expected, ...
LEMMA AccountStored ==
  ASSUME NEW T, NEW q \in Seq(T), q # <<>>, NEW t, NEW p, NEW s, NEW u, NEW st,
         NEW R, NEW L, Account(t, p, s, q, u, st, R, L),
         IsMsg(Head(q), "Chunk", t), t \in R
  PROVE  /\ Head(q).chunk \in AllChunks(t)
         /\ \A x \in st : Before(x, Head(q).chunk)
         /\ Account(t, p, s, Tail(q), u, st \cup {Head(q).chunk}, R, L)
<1>1. PICK r : r = Tail(q)
  OBVIOUS
<1>0. PICK st2 : st2 = st \cup {Head(q).chunk}
  OBVIOUS
<1>2. Speaks(Head(q), t)
  BY DEF Speaks
<1>3. /\ OfferFirst(r, t) /\ ~Offering(r, t) /\ ~Silent(q, t)
      /\ \A S : ChunksIn(q, t, S) => ChunksIn(r, t, S)
  BY <1>1, <1>2, TailKeeps, HeadSpeaks DEF Account
<1>4. /\ Orderly(q, t, st) /\ t \notin L
      /\ p \notin Early /\ (p = "Stream" => Tracks(t, s, q, u, st))
  BY <1>3 DEF Account, Expects
<1>5. /\ Head(q).chunk \in AllChunks(t)
      /\ \A x \in st : Before(x, Head(q).chunk)
  BY <1>4, HeadInOrder
<1>6. Orderly(r, t, st2)
  BY <1>0, <1>1, <1>4, ReadKeepsOrder
<1>7. Had(SentChunks(t, s), st, q, t, Len(q) + 1) =>
        Had(SentChunks(t, s), st2, r, t, Len(r) + 1)
  <2>1. PICK i \in 2..(Len(q) + 1) : i = Len(q) + 1 /\ i - 1 = Len(r) + 1
    BY <1>1, TailFacts
  <2>2. st \subseteq st2 /\ Head(q).chunk \in st2
    BY <1>0
  <2>. QED
    BY <1>1, <2>1, <2>2, ReadKeepsHad
<1>8. ASSUME Tracks(t, s, q, u, st) PROVE Tracks(t, s, r, u, st2)
  <2>1. Head(q).chunk \in SentChunks(t, s)
    <3>1. 1 \in 1..Len(q) /\ Head(q) = q[1]
      BY TailFacts
    <3>. QED
      BY <1>8, <3>1 DEF Tracks, ChunksIn
  <2>. QED
    BY <1>0, <1>3, <1>7, <1>8, <2>1 DEF Tracks
<1>9. st2 \subseteq AllChunks(t) /\ s \in 0..Len(ChunkList[t])
  BY <1>0, <1>5 DEF Account
<1>10. Account(t, p, s, r, u, st2, R, L)
  BY <1>3, <1>4, <1>6, <1>8, <1>9 DEF Account, Expects
<1>. QED
  BY <1>0, <1>1, <1>5, <1>10

\* ... or a chunk or Done of it when it is not expected (any more), ...
LEMMA AccountIgnored ==
  ASSUME NEW T, NEW q \in Seq(T), q # <<>>, NEW t, NEW p, NEW s, NEW u, NEW st,
         NEW R, NEW L, Account(t, p, s, q, u, st, R, L),
         Speaks(Head(q), t), ~IsMsg(Head(q), "Offer", t), NEW R2, t \notin R2,
         NEW L2, t \in L2 => st = AllChunks(t)
  PROVE  Account(t, p, s, Tail(q), u, st, R2, L2)
<1>1. PICK r : r = Tail(q)
  OBVIOUS
<1>2. OfferFirst(r, t) /\ ~Offering(r, t) /\ ~Silent(q, t)
  BY <1>1, TailKeeps, HeadSpeaks DEF Account
<1>3. Account(t, p, s, r, u, st, R2, L2)
  BY <1>2 DEF Account, Expects
<1>. QED
  BY <1>1, <1>3

\* ... or its Done.
LEMMA AccountDone ==
  ASSUME NEW T, NEW q \in Seq(T), q # <<>>, NEW t, NEW p, NEW s, NEW u, NEW st,
         NEW R, NEW L, Account(t, p, s, q, u, st, R, L),
         IsMsg(Head(q), "Done", t), t \in R
  PROVE  st = AllChunks(t)
<1>1. Orderly(q, t, st) /\ st \subseteq AllChunks(t)
  BY DEF Account, Expects
<1>. QED
  BY <1>1, HeadInOrder

\* The connection loses the last messages, ...
LEMMA AccountCut ==
  ASSUME NEW T, NEW q \in Seq(T), NEW n \in 0..Len(q), NEW t, NEW p, NEW s,
         NEW u, NEW st, NEW R, NEW L, Account(t, p, s, q, u, st, R, L)
  PROVE  Account(t, p, s, SubSeq(q, 1, n), FALSE, st, R, L)
<1>1. PICK r : r = SubSeq(q, 1, n)
  OBVIOUS
<1>2. /\ OfferFirst(q, t) => OfferFirst(r, t)
      /\ Offering(r, t) => Offering(q, t)
      /\ Silent(q, t) => Silent(r, t)
      /\ \A S : ChunksIn(q, t, S) => ChunksIn(r, t, S)
      /\ Orderly(q, t, st) => Orderly(r, t, st)
  BY <1>1, PrefixKeeps
<1>3. Tracks(t, s, q, u, st) => Tracks(t, s, r, FALSE, st)
  BY <1>2 DEF Tracks
<1>4. Account(t, p, s, r, FALSE, st, R, L)
  BY <1>2, <1>3 DEF Account, Expects
<1>. QED
  BY <1>1, <1>4

\* ... or ends, and its receiver may forget the transfer.
LEMMA AccountClosed ==
  ASSUME NEW q, NEW t, NEW p, NEW s, NEW u, NEW st, NEW R, NEW L,
         Account(t, p, s, q, u, st, R, L), NEW R2, t \in R2 => t \in R
  PROVE  Account(t, p, s, <<>>, FALSE, st, R2, L)
<1>1. Tracks(t, s, q, u, st) => Tracks(t, s, <<>>, FALSE, st)
  BY EmptyKeeps DEF Tracks
<1>. QED
  BY <1>1, EmptyKeeps DEF Account, Expects, Blank

\* A message is sent that says nothing of t, ...
LEMMA AccountBeside ==
  ASSUME NEW T, NEW q \in Seq(T), NEW m \in T, NEW t, NEW p, NEW s, NEW u,
         NEW st, NEW R, NEW L, Account(t, p, s, q, u, st, R, L), ~Speaks(m, t)
  PROVE  Account(t, p, s, Append(q, m), u, st, R, L)
<1>1. PICK r : r = Append(q, m)
  OBVIOUS
<1>2. ~IsMsg(m, "Offer", t) /\ ~IsMsg(m, "Chunk", t) /\ ~IsMsg(m, "Done", t)
  BY DEF Speaks
<1>3. /\ OfferFirst(q, t) => OfferFirst(r, t)
      /\ Offering(r, t) => Offering(q, t)
      /\ Silent(q, t) => Silent(r, t)
      /\ \A S : ChunksIn(q, t, S) => ChunksIn(r, t, S)
  BY <1>1, <1>2, AppendKeeps
<1>4. Orderly(q, t, st) => Orderly(r, t, st)
  BY <1>1, <1>2, AppendKeepsOrder
<1>5. Had(SentChunks(t, s), st, q, t, Len(q) + 1) =>
        Had(SentChunks(t, s), st, r, t, Len(r) + 1)
  BY <1>1, AppendKeepsHad
<1>6. Tracks(t, s, q, u, st) => Tracks(t, s, r, u, st)
  BY <1>3, <1>5 DEF Tracks
<1>7. Account(t, p, s, r, u, st, R, L)
  BY <1>3, <1>4, <1>6 DEF Account, Expects
<1>. QED
  BY <1>1, <1>7

\* ... or its offer, ...
LEMMA AccountOffer ==
  ASSUME NEW T, NEW q \in Seq(T), NEW m \in T, NEW t \in Transfers, NEW s,
         NEW u, NEW st, NEW R, NEW L, Account(t, "Offer", s, q, u, st, R, L),
         IsMsg(m, "Offer", t)
  PROVE  Account(t, "Stream", s, Append(q, m), u, st, R, L)
<1>1. PICK r : r = Append(q, m)
  OBVIOUS
<1>2. ~IsMsg(m, "Chunk", t) /\ ~IsMsg(m, "Done", t)
  BY DEF IsMsg
<1>3. Blank(t, st, R, L) /\ s = 0 /\ Silent(q, t) /\ OfferFirst(q, t)
  BY DEF Account, Early
<1>4. \A i \in 1..Len(q) : ~IsMsg(q[i], "Chunk", t) /\ ~IsMsg(q[i], "Done", t)
  BY <1>3 DEF Silent, Speaks
<1>5. OfferFirst(r, t) /\ ChunksIn(r, t, SentChunks(t, s))
  <2>1. ChunksIn(q, t, SentChunks(t, s))
    BY <1>4 DEF ChunksIn
  <2>. QED
    BY <1>1, <1>2, <1>3, <2>1, AppendKeeps
<1>6. Orderly(r, t, st)
  <2>1. Orderly(q, t, st)
    BY <1>4 DEF Orderly, ChunksInOrder, DoneIsLast
  <2>. QED
    BY <1>1, <1>2, <2>1, AppendKeepsOrder
<1>7. Tracks(t, s, r, u, st)
  <2>1. SentChunks(t, s) = {}
    BY <1>3, SentFacts
  <2>. QED
    BY <1>3, <1>5, <2>1 DEF Tracks, Had, Blank
<1>8. Account(t, "Stream", s, r, u, st, R, L)
  BY <1>3, <1>5, <1>6, <1>7 DEF Account, Blank, Early
<1>. QED
  BY <1>1, <1>8

\* ... or its next chunk, ...
LEMMA AccountChunk ==
  ASSUME NEW T, NEW q \in Seq(T), NEW m \in T, NEW t \in Transfers, NEW s,
         NEW st, NEW R, NEW L, Account(t, "Stream", s, q, TRUE, st, R, L),
         s < Len(ChunkList[t]), IsChunk(m, t, ChunkList[t][s + 1])
  PROVE  Account(t, "Stream", s + 1, Append(q, m), TRUE, st, R, L)
<1>1. PICK r : r = Append(q, m)
  OBVIOUS
<1>2. PICK x : x = ChunkList[t][s + 1]
  OBVIOUS
<1>3. IsMsg(m, "Chunk", t) /\ m.chunk = x /\ ~IsMsg(m, "Offer", t) /\ ~IsMsg(m, "Done", t)
  BY <1>2 DEF IsChunk, IsMsg
<1>4. s \in 0..Len(ChunkList[t]) /\ OfferFirst(q, t) /\ st \subseteq AllChunks(t)
  BY DEF Account
<1>5. /\ x \in AllChunks(t) /\ x \in Chunk /\ s + 1 \in 0..Len(ChunkList[t])
      /\ \A y \in AllChunks(t) : Before(y, x) => y \in SentChunks(t, s)
      /\ \A y \in SentChunks(t, s) : Before(y, x)
      /\ SentChunks(t, s + 1) = SentChunks(t, s) \cup {x}
  BY <1>2, <1>4, NextChunk
<1>6. OfferFirst(r, t) /\ (Offering(r, t) => Offering(q, t))
  BY <1>1, <1>3, <1>4, AppendKeeps
<1>7. ASSUME Expects(t, q, R)
      PROVE  Orderly(r, t, st) /\ Tracks(t, s + 1, r, TRUE, st)
  <2>1. /\ Orderly(q, t, st) /\ st \subseteq SentChunks(t, s)
        /\ ChunksIn(q, t, SentChunks(t, s))
        /\ Had(SentChunks(t, s), st, q, t, Len(q) + 1)
    BY <1>7 DEF Account, Tracks
  <2>2. PICK B : B = {y \in AllChunks(t) : Before(y, x)}
    OBVIOUS
  <2>3. Had(B, st, q, t, Len(q) + 1)
    BY <1>5, <2>1, <2>2 DEF Had
  <2>4. ChunksIn(q, t, B)
    <3>1. \A i \in 1..Len(q) : IsMsg(q[i], "Chunk", t) => q[i].chunk \in AllChunks(t)
      BY <2>1 DEF Orderly, ChunksInOrder
    <3>. QED
      BY <1>5, <2>1, <2>2, <3>1 DEF ChunksIn
  <2>5. Orderly(r, t, st)
    <3>1. \A y \in st : Before(y, x)
      BY <1>5, <2>1
    <3>. QED
      BY <1>1, <1>3, <1>5, <2>1, <2>2, <2>3, <2>4, <3>1, AppendKeepsOrder
  <2>6. Had(SentChunks(t, s + 1), st, r, t, Len(r) + 1)
    BY <1>1, <1>2, <1>5, <2>1, AppendKeepsHad
  <2>7. ChunksIn(r, t, SentChunks(t, s + 1))
    <3>1. ChunksIn(q, t, SentChunks(t, s + 1)) /\ m.chunk \in SentChunks(t, s + 1)
      BY <1>3, <1>5, <2>1 DEF ChunksIn
    <3>. QED
      BY <1>1, <3>1, AppendKeeps
  <2>. QED
    BY <1>5, <2>1, <2>5, <2>6, <2>7 DEF Tracks
<1>8. Account(t, "Stream", s + 1, r, TRUE, st, R, L)
  BY <1>4, <1>5, <1>6, <1>7 DEF Account, Expects, Early
<1>. QED
  BY <1>1, <1>8

\* ... or its Done.
LEMMA AccountOver ==
  ASSUME NEW T, NEW q \in Seq(T), NEW m \in T, NEW t \in Transfers, NEW s,
         NEW st, NEW R, NEW L, Account(t, "Stream", s, q, TRUE, st, R, L),
         s = Len(ChunkList[t]), IsMsg(m, "Done", t)
  PROVE  Account(t, "Over", s, Append(q, m), TRUE, st, R, L)
<1>1. PICK r : r = Append(q, m)
  OBVIOUS
<1>2. ~IsMsg(m, "Chunk", t) /\ ~IsMsg(m, "Offer", t)
  BY DEF IsMsg
<1>3. OfferFirst(r, t) /\ (Offering(r, t) => Offering(q, t))
  BY <1>1, <1>2, AppendKeeps DEF Account
<1>4. ASSUME Expects(t, q, R) PROVE Orderly(r, t, st)
  <2>1. Orderly(q, t, st) /\ Had(AllChunks(t), st, q, t, Len(q) + 1)
    BY <1>4, SentFacts DEF Account, Tracks
  <2>. QED
    BY <1>1, <1>2, <2>1, AppendKeepsOrder
<1>5. Account(t, "Over", s, r, TRUE, st, R, L)
  BY <1>3, <1>4 DEF Account, Expects, Early
<1>. QED
  BY <1>1, <1>5

\* A connection is opened.
LEMMA AccountOpened ==
  ASSUME NEW m, NEW q, NEW t, NEW s, NEW u, NEW u2, NEW st, NEW R, NEW L,
         Account(t, "Tls", s, q, u, st, R, L), ~Speaks(m, t)
  PROVE  Account(t, "Offer", s, <<m>>, u2, st, R, L)
<1>1. PICK r : r = <<m>>
  OBVIOUS
<1>2. Len(r) = 1 /\ \A i \in 1..Len(r) : r[i] = m
  BY <1>1
<1>3. Silent(r, t) /\ OfferFirst(r, t) /\ ~Offering(r, t)
  BY <1>2 DEF Silent, OfferFirst, Offering, Speaks
<1>4. Account(t, "Offer", s, r, u2, st, R, L)
  BY <1>3 DEF Account, Expects, Blank, Early
<1>. QED
  BY <1>1, <1>4

-----------------------------------------------------------------------------
(* The invariant: the account of every transfer of which nothing was lost in *)
(* writing or reading, and whose directory was not cleaned.                  *)

AccountOf(t) ==
  Account(t, pc[t], sent[t], wire[Conn(t)], up[Conn(t)], stored[t], receiving,
          received_log)

WholeType ==
  /\ sent = [t \in Transfers |-> sent[t]]
  /\ stored = [t \in Transfers |-> stored[t]]
  /\ up \in [Conns -> BOOLEAN]
  /\ unlinked \subseteq swept /\ received_log \subseteq Transfers

WholeInv ==
  /\ WholeType
  /\ \A t \in Transfers : t \notin damaged \cup swept => AccountOf(t)

LEMMA NextWholeType ==
  ASSUME ShownInv, WholeType, [Next]_vars
  PROVE  WholeType'
<1>. USE DEF WholeType
<1>1. ASSUME NEW t \in Transfers, Start(t) \/ Sender(t) PROVE WholeType'
  BY <1>1
  DEF Start, Sender, Connect, OpenChannel, SendOffer, SendChunk,
      SendDone, SendFails, GiveUp, Send, receiverVars, linkVars, histVars
<1>2. ASSUME NEW c \in Conns, Receiver(c) PROVE WholeType'
  <2>1. CASE FileChannelInit(c)
    BY <2>1 DEF FileChannelInit, senderVars, receiverVars
  <2>2. CASE HandleOffer(c)
    <3>1. sent' = sent /\ up' = up /\ received_log' = received_log
      BY <2>2 DEF HandleOffer, senderVars
    <3>2. stored' = [t \in Transfers |-> stored'[t]] /\ unlinked' \subseteq swept'
      BY <2>2 DEF HandleOffer, Offered, NotStaged, Cleaned, Newer
    <3>. QED
      BY <3>1, <3>2
  <2>3. CASE HandleChunk(c)
    <3>1. /\ sent' = sent /\ up' = up /\ swept' = swept
          /\ received_log' = received_log
      BY <2>3 DEF HandleChunk, senderVars, histVars
    <3>2. stored' = [t \in Transfers |-> stored'[t]] /\ unlinked' \subseteq unlinked
      <4>1. CASE Head(wire[c]).transfer \in receiving
        <5>1. PICK t, x, k : Written(t, x, k)
          BY <2>3, <4>1 DEF HandleChunk
        <5>. QED
          BY <5>1 DEF Written
      <4>2. CASE Head(wire[c]).transfer \notin receiving
        BY <2>3, <4>2 DEF HandleChunk
      <4>. QED
        BY <4>1, <4>2
    <3>. QED
      BY <3>1, <3>2
  <2>4. CASE HandleDone(c) \/ ReceiverEnds(c)
    <3>1. receiving \subseteq Transfers
      BY DEF ShownInv, ShownType
    <3>. QED
      BY <2>4, <3>1 DEF HandleDone, ReceiverEnds, senderVars, histVars
  <2>. QED
    BY <1>2, <2>1, <2>2, <2>3, <2>4 DEF Receiver
<1>3. CASE SetFileTransfer
  BY <1>3 DEF SetFileTransfer, senderVars, linkVars, histVars
<1>4. CASE Fault
  <2>1. ASSUME NEW t \in Transfers,
               SourceShrinks(t) \/ ConnectFails(t) \/ SourceFails(t)
        PROVE  WholeType'
    BY <2>1
    DEF SourceShrinks, ConnectFails, SourceFails, GiveUp, linkVars, receiverVars
  <2>2. ASSUME NEW c \in Conns, LinkDown(c) \/ WriteFails(c) PROVE WholeType'
    BY <2>2 DEF LinkDown, WriteFails, senderVars, receiverVars
  <2>. QED
    BY <1>4, <2>1, <2>2 DEF Fault
<1>5. CASE UNCHANGED vars
  BY <1>5 DEF vars, senderVars, linkVars, receiverVars, histVars
<1>. QED
  BY <1>1, <1>2, <1>3, <1>4, <1>5 DEF Next

\* What is given up for lost stays so.
LEMMA LossesStay ==
  ASSUME [Next]_vars
  PROVE  damaged \subseteq damaged' /\ swept \subseteq swept'
<1>1. ASSUME NEW t \in Transfers, Start(t) \/ Sender(t)
      PROVE  damaged' = damaged /\ swept' = swept
  BY <1>1
  DEF Start, Sender, Connect, OpenChannel, SendOffer, SendChunk,
      SendDone, SendFails, GiveUp, histVars
<1>2. ASSUME NEW c \in Conns, Receiver(c)
      PROVE  damaged' = damaged /\ swept \subseteq swept'
  BY <1>2
  DEF Receiver, FileChannelInit, HandleOffer, Offered, NotStaged, Cleaned,
      HandleChunk, HandleDone,
      ReceiverEnds, histVars
<1>3. CASE SetFileTransfer
  BY <1>3 DEF SetFileTransfer, histVars
<1>4. CASE Fault
  BY <1>4
  DEF Fault, SourceShrinks, ConnectFails, SourceFails, GiveUp, LinkDown,
      WriteFails
<1>5. CASE UNCHANGED vars
  BY <1>5 DEF vars, histVars
<1>. QED
  BY <1>1, <1>2, <1>3, <1>4, <1>5 DEF Next

\* A wire is a sequence, of anything that includes what is sent on it.
LEMMA WireIsSeq ==
  ASSUME WireInv, NEW c \in Conns, NEW m
  PROVE  \E T : wire[c] \in Seq(T) /\ m \in T
<1>1. PICK T : wire[c] \in Seq(T)
  BY DEF WireInv, Carries
<1>2. wire[c] \in Seq(T \cup {m}) /\ m \in T \cup {m}
  BY <1>1, SeqMonotonic
<1>. QED
  BY <1>2

\* Writing a chunk that comes in order keeps what was written before.
LEMMA WrittenFacts ==
  ASSUME WholeType, NEW t \in Transfers, t \notin swept, NEW x \in AllChunks(t),
         stored[t] \subseteq AllChunks(t), \A y \in stored[t] : Before(y, x),
         Written(t, x[1], x[2])
  PROVE  stored' = [stored EXCEPT ![t] = stored[t] \cup {x}]
<1>1. t \notin unlinked
  BY DEF WholeType
<1>2. x \in Chunk /\ x = <<x[1], x[2]>> /\ stored[t] \subseteq Chunk
  BY ChunkFacts DEF Chunk
<1>3. x[2] = 1 => {y \in stored[t] : y[1] # x[1]} = stored[t]
  BY <1>2, BeforeFacts
<1>. QED
  BY <1>1, <1>2, <1>3 DEF Written

LEMMA NextSent ==
  ASSUME ShownInv, WholeInv, NEW u \in Transfers, Start(u) \/ Sender(u),
         NEW t \in Transfers, t \notin damaged \cup swept
  PROVE  AccountOf(t)'
<1>0. /\ ShownType /\ OpeningInv /\ WireInv /\ WholeType
      /\ Conn(t) \in Conns /\ Conn(u) \in Conns
      /\ Account(t, pc[t], sent[t], wire[Conn(t)], up[Conn(t)], stored[t],
                 receiving, received_log)
  BY ConnFacts DEF ShownInv, WholeInv, AccountOf
<1>. DEFINE New(p, s, q, u2) ==
       Account(t, p, s, q, u2, stored[t], receiving, received_log)
<1>1. stored' = stored /\ receiving' = receiving /\ received_log' = received_log
  BY DEF Start, Sender, Connect, OpenChannel, SendOffer, SendChunk,
         SendDone, SendFails, GiveUp, receiverVars
<1>2. ASSUME New(pc'[t], sent'[t], wire'[Conn(t)], up'[Conn(t)])
      PROVE  AccountOf(t)'
  BY <1>1, <1>2 DEF AccountOf
<1>3. CASE Start(u) \/ Connect(u)
  <2>1. /\ wire' = wire /\ up' = up /\ sent' = sent
        /\ pc'[t] = pc[t] \/ {pc[t], pc'[t]} \subseteq Early
    BY <1>0, <1>3 DEF Start, Connect, linkVars, ShownType, Early
  <2>2. New(pc'[t], sent[t], wire[Conn(t)], up[Conn(t)])
    BY <1>0, <2>1, AccountSame
  <2>. QED
    BY <1>2, <2>1, <2>2
<1>4. CASE SendFails(u)
  <2>1. /\ wire' = wire /\ up' = up /\ sent' = sent
        /\ pc'[t] = pc[t] \/ pc'[t] = "Over"
    BY <1>0, <1>4 DEF SendFails, GiveUp, linkVars, ShownType
  <2>2. New(pc'[t], sent[t], wire[Conn(t)], up[Conn(t)])
    BY <1>0, <2>1, AccountSame
  <2>. QED
    BY <1>2, <2>1, <2>2
<1>5. CASE OpenChannel(u)
  <2>1. u \notin Fast /\ u # "main" /\ pc[u] = "Tls" /\ sent' = sent
    BY <1>0, <1>5, TransfersAssumption DEF OpeningInv, OpenChannel
  <2>2. Conn(u) = u /\ (t # u => Conn(t) # u)
    BY <2>1 DEF Conn, Main
  <2>3. PICK m : m = Msg("Init", u, NoChunk)
    OBVIOUS
  <2>4. ~Speaks(m, t)
    BY <2>3 DEF Msg, Speaks, IsMsg
  <2>5. /\ \A c \in Conns : wire'[c] = IF c = u THEN <<m>> ELSE wire[c]
        /\ \A c \in Conns : c # u => up'[c] = up[c]
        /\ \A x \in Transfers : pc'[x] = IF x = u THEN "Offer" ELSE pc[x]
    BY <1>0, <1>5, <2>3 DEF OpenChannel, WireInv, WholeType, ShownType
  <2>6. CASE t = u
    <3>1. New("Offer", sent[t], <<m>>, up'[Conn(t)])
      BY <1>0, <2>1, <2>4, <2>6, AccountOpened
    <3>2. wire'[Conn(t)] = <<m>> /\ pc'[t] = "Offer"
      BY <1>0, <2>2, <2>5, <2>6
    <3>. QED
      BY <1>2, <2>1, <3>1, <3>2
  <2>7. CASE t # u
    BY <1>0, <1>2, <2>1, <2>2, <2>5, <2>7
  <2>. QED
    BY <2>6, <2>7
<1>6. ASSUME NEW kind, NEW x, Send(Conn(u), Msg(kind, u, x))
      PROVE  \E T : \E m \in T :
               /\ wire[Conn(u)] \in Seq(T) /\ m = Msg(kind, u, x)
               /\ up[Conn(u)] = TRUE
               /\ \A c \in Conns : wire'[c] = IF c = Conn(u)
                                              THEN Append(wire[c], m) ELSE wire[c]
  <2>1. PICK m : m = Msg(kind, u, x)
    OBVIOUS
  <2>2. PICK T : wire[Conn(u)] \in Seq(T) /\ m \in T
    BY <1>0, WireIsSeq
  <2>3. up[Conn(u)] = TRUE
    BY <1>0, <1>6 DEF Send, WholeType
  <2>4. \A c \in Conns : wire'[c] = IF c = Conn(u)
                                    THEN Append(wire[c], m) ELSE wire[c]
    BY <1>0, <1>6, <2>1 DEF Send, WireInv
  <2>. QED
    BY <2>1, <2>2, <2>3, <2>4
<1>7. ASSUME t # u, NEW kind, NEW x, Send(Conn(u), Msg(kind, u, x)),
             up' = up, sent'[t] = sent[t], pc'[t] = pc[t]
      PROVE  AccountOf(t)'
  <2>1. PICK T : \E m \in T :
               /\ wire[Conn(u)] \in Seq(T) /\ m = Msg(kind, u, x)
               /\ up[Conn(u)] = TRUE
               /\ \A c \in Conns : wire'[c] = IF c = Conn(u)
                                              THEN Append(wire[c], m) ELSE wire[c]
    BY <1>6, <1>7
  <2>2. PICK m \in T :
               /\ wire[Conn(u)] \in Seq(T) /\ m = Msg(kind, u, x)
               /\ \A c \in Conns : wire'[c] = IF c = Conn(u)
                                              THEN Append(wire[c], m) ELSE wire[c]
    BY <2>1
  <2>3. ~Speaks(m, t)
    BY <1>7, <2>2 DEF Msg, Speaks, IsMsg
  <2>4. CASE Conn(t) = Conn(u)
    <3>1. New(pc[t], sent[t], Append(wire[Conn(t)], m), up[Conn(t)])
      BY <1>0, <2>2, <2>3, <2>4, AccountBeside
    <3>. QED
      BY <1>0, <1>2, <1>7, <2>2, <2>4, <3>1
  <2>5. CASE Conn(t) # Conn(u)
    BY <1>0, <1>2, <1>7, <2>2, <2>5
  <2>. QED
    BY <2>4, <2>5
<1>8. CASE SendOffer(u)
  <2>1. /\ Send(Conn(u), Msg("Offer", u, NoChunk)) /\ up' = up /\ sent' = sent
        /\ pc[u] = "Offer" /\ pc'[u] = "Stream" /\ (t # u => pc'[t] = pc[t])
    BY <1>0, <1>8 DEF SendOffer, ShownType
  <2>2. CASE t = u
    <3>1. PICK T : \E m \in T :
            /\ wire[Conn(u)] \in Seq(T) /\ m = Msg("Offer", u, NoChunk)
            /\ up[Conn(u)] = TRUE
            /\ \A c \in Conns : wire'[c] = IF c = Conn(u)
                                           THEN Append(wire[c], m) ELSE wire[c]
      BY <1>6, <2>1
    <3>2. PICK m \in T :
            /\ wire[Conn(u)] \in Seq(T) /\ m = Msg("Offer", u, NoChunk)
            /\ wire'[Conn(u)] = Append(wire[Conn(u)], m)
      BY <1>0, <3>1
    <3>3. IsMsg(m, "Offer", t)
      BY <2>2, <3>2 DEF Msg, IsMsg
    <3>4. New("Stream", sent[t], Append(wire[Conn(t)], m), up[Conn(t)])
      BY <1>0, <2>1, <2>2, <3>2, <3>3, AccountOffer
    <3>. QED
      BY <1>2, <2>1, <2>2, <3>2, <3>4
  <2>. QED
    BY <1>7, <2>1, <2>2
<1>9. CASE SendChunk(u)
  <2>0. PICK x : x = ChunkList[u][sent[u] + 1]
    OBVIOUS
  <2>1. /\ Send(Conn(u), Msg("Chunk", u, x)) /\ up' = up /\ pc' = pc
        /\ pc[u] = "Stream" /\ sent[u] < Len(ChunkList[u])
        /\ sent'[u] = sent[u] + 1 /\ (t # u => sent'[t] = sent[t])
    BY <1>0, <1>9, <2>0 DEF SendChunk, WholeType
  <2>2. CASE t = u
    <3>1. PICK T : \E m \in T :
            /\ wire[Conn(u)] \in Seq(T) /\ m = Msg("Chunk", u, x)
            /\ up[Conn(u)] = TRUE
            /\ \A c \in Conns : wire'[c] = IF c = Conn(u)
                                           THEN Append(wire[c], m) ELSE wire[c]
      BY <1>6, <2>1
    <3>2. PICK m \in T :
            /\ wire[Conn(u)] \in Seq(T) /\ m = Msg("Chunk", u, x)
            /\ up[Conn(u)] = TRUE
            /\ wire'[Conn(u)] = Append(wire[Conn(u)], m)
      BY <1>0, <3>1
    <3>3. IsChunk(m, t, ChunkList[t][sent[t] + 1])
      <4>1. m.kind = "Chunk" /\ m.transfer = u /\ m.chunk = x
        BY <3>2 DEF Msg
      <4>2. IsChunk(m, u, x)
        BY <4>1 DEF IsChunk, IsMsg
      <4>. QED
        BY <2>0, <2>2, <4>2, Zenon
    <3>4. New("Stream", sent[t] + 1, Append(wire[Conn(t)], m), TRUE)
      <4>1. PICK n : n = sent[t]
        OBVIOUS
      <4>2. /\ New("Stream", n, wire[Conn(t)], TRUE) /\ wire[Conn(t)] \in Seq(T)
            /\ n < Len(ChunkList[t]) /\ IsChunk(m, t, ChunkList[t][n + 1])
        BY <1>0, <2>1, <2>2, <3>2, <3>3, <4>1, Zenon
      <4>3. New("Stream", n + 1, Append(wire[Conn(t)], m), TRUE)
        BY <4>2, AccountChunk
      <4>. QED
        BY <4>1, <4>3, Zenon
    <3>. QED
      BY <1>2, <2>1, <2>2, <3>2, <3>4
  <2>. QED
    BY <1>7, <2>1, <2>2
<1>10. CASE SendDone(u)
  <2>1. /\ Send(Conn(u), Msg("Done", u, NoChunk)) /\ up' = up /\ sent' = sent
        /\ pc[u] = "Stream" /\ sent[u] = Len(ChunkList[u])
        /\ pc'[u] = "Over" /\ (t # u => pc'[t] = pc[t])
    BY <1>0, <1>10 DEF SendDone, ShownType
  <2>2. CASE t = u
    <3>1. PICK T : \E m \in T :
            /\ wire[Conn(u)] \in Seq(T) /\ m = Msg("Done", u, NoChunk)
            /\ up[Conn(u)] = TRUE
            /\ \A c \in Conns : wire'[c] = IF c = Conn(u)
                                           THEN Append(wire[c], m) ELSE wire[c]
      BY <1>6, <2>1
    <3>2. PICK m \in T :
            /\ wire[Conn(u)] \in Seq(T) /\ m = Msg("Done", u, NoChunk)
            /\ up[Conn(u)] = TRUE
            /\ wire'[Conn(u)] = Append(wire[Conn(u)], m)
      BY <1>0, <3>1
    <3>3. IsMsg(m, "Done", t)
      BY <2>2, <3>2 DEF Msg, IsMsg
    <3>4. New("Over", sent[t], Append(wire[Conn(t)], m), TRUE)
      BY <1>0, <2>1, <2>2, <3>2, <3>3, AccountOver
    <3>. QED
      BY <1>2, <2>1, <2>2, <3>2, <3>4
  <2>. QED
    BY <1>7, <2>1, <2>2
<1>. QED
  BY <1>3, <1>4, <1>5, <1>8, <1>9, <1>10 DEF Sender

LEMMA NextHeard ==
  ASSUME ShownInv, WholeInv, NEW c \in Conns, Receiver(c),
         NEW t \in Transfers, t \notin damaged' \cup swept'
  PROVE  AccountOf(t)'
<1>0. /\ ShownType /\ OpeningInv /\ WireInv /\ WholeType /\ Conn(t) \in Conns
      /\ t \notin damaged \cup swept
      /\ Account(t, pc[t], sent[t], wire[Conn(t)], up[Conn(t)], stored[t],
                 receiving, received_log)
  <2>1. t \notin damaged \cup swept
    BY LossesStay DEF Next
  <2>. QED
    BY <2>1, ConnFacts DEF ShownInv, WholeInv, AccountOf
<1>. DEFINE Now(q, u, st, R, L) == Account(t, pc[t], sent[t], q, u, st, R, L)
<1>1. pc' = pc /\ sent' = sent
  BY DEF Receiver, FileChannelInit, HandleOffer, HandleChunk, HandleDone,
         ReceiverEnds, senderVars
<1>2. ASSUME Now(wire'[Conn(t)], up'[Conn(t)], stored'[t], receiving', received_log')
      PROVE  AccountOf(t)'
  BY <1>1, <1>2 DEF AccountOf
<1>3. ASSUME Conn(t) # c, up'[Conn(t)] = up[Conn(t)], wire'[Conn(t)] = wire[Conn(t)],
             stored'[t] = stored[t], t \in receiving' <=> t \in receiving,
             t \in received_log' <=> t \in received_log
      PROVE  AccountOf(t)'
  <2>1. Now(wire[Conn(t)], up[Conn(t)], stored[t], receiving', received_log')
    BY <1>0, <1>3, AccountSame
  <2>. QED
    BY <1>2, <1>3, <2>1
<1>4. ASSUME wire[c] # <<>>
      PROVE  /\ \E T : wire[c] \in Seq(T)
             /\ Head(wire[c]).transfer \in Transfers
             /\ Conn(Head(wire[c]).transfer) = c
  BY <1>0, <1>4, WireIsSeq, ShorterCarries DEF WireInv, Belongs
<1>5. ASSUME Read(c) PROVE wire'[c] = Tail(wire[c]) /\ (Conn(t) # c => wire'[Conn(t)] = wire[Conn(t)])
  BY <1>0, <1>5 DEF Read, WireInv
\* What is not about t is passed over.
<1>6. ASSUME Conn(t) = c, wire[c] # <<>>, ~Speaks(Head(wire[c]), t), Read(c),
             up' = up, stored'[t] = stored[t], t \in receiving' <=> t \in receiving,
             t \in received_log' <=> t \in received_log
      PROVE  AccountOf(t)'
  <2>1. PICK T : wire[c] \in Seq(T)
    BY <1>4, <1>6
  <2>2. Now(Tail(wire[c]), up[c], stored[t], receiving, received_log)
    BY <1>0, <1>6, <2>1, AccountPassed
  <2>3. Now(Tail(wire[c]), up[c], stored[t], receiving', received_log')
    BY <1>6, <2>2, AccountSame
  <2>. QED
    BY <1>2, <1>5, <1>6, <2>3
<1>7. CASE c \in Background /\ FileChannelInit(c)
  <2>1. /\ wire[c] # <<>> /\ ~Speaks(Head(wire[c]), t) /\ stored' = stored
        /\ receiving' = receiving /\ received_log' = received_log
    BY <1>7 DEF FileChannelInit, Reads, Speaks, IsMsg, receiverVars
  <2>2. CASE file_transfer_enabled
    <3>1. Read(c) /\ up' = up
      BY <1>7, <2>2 DEF FileChannelInit
    <3>. QED
      BY <1>3, <1>5, <1>6, <2>1, <3>1
  <2>3. CASE ~file_transfer_enabled
    <3>1. /\ wire'[c] = <<>> /\ up'[c] = FALSE
          /\ Conn(t) # c => wire'[Conn(t)] = wire[Conn(t)] /\ up'[Conn(t)] = up[Conn(t)]
      BY <1>0, <1>7, <2>3 DEF FileChannelInit, WireInv, WholeType
    <3>2. CASE Conn(t) = c
      <4>1. Now(<<>>, FALSE, stored[t], receiving, received_log)
        BY <1>0, AccountClosed
      <4>. QED
        BY <1>2, <2>1, <3>1, <3>2, <4>1
    <3>3. CASE Conn(t) # c
      BY <1>3, <2>1, <3>1, <3>3
    <3>. QED
      BY <3>2, <3>3
  <2>. QED
    BY <2>2, <2>3
<1>8. CASE HandleOffer(c)
  <2>1. PICK u : u = Head(wire[c]).transfer
    OBVIOUS
  <2>2. /\ wire[c] # <<>> /\ IsMsg(Head(wire[c]), "Offer", u) /\ Read(c)
        /\ up' = up /\ received_log' = received_log
    BY <1>8, <2>1 DEF HandleOffer, Reads, IsMsg
  <2>3. stored'[t] = stored[t] /\ (t # u => (t \in receiving' <=> t \in receiving))
    <3>1. CASE c = Main /\ ~file_transfer_enabled
      BY <1>8, <3>1 DEF HandleOffer
    <3>2. CASE ~(c = Main /\ ~file_transfer_enabled)
      <4>1. Offered(u) \/ NotStaged(u)
        BY <1>8, <2>1, <3>2 DEF HandleOffer
      <4>2. t \notin ToSet(Old)
        BY <4>1 DEF Offered, NotStaged, Cleaned
      <4>. QED
        BY <4>1, <4>2 DEF Offered, NotStaged, Cleaned
    <3>. QED
      BY <3>1, <3>2
  <2>4. CASE t = u
    <3>1. PICK T : wire[c] \in Seq(T)
      BY <1>4, <2>2
    <3>2. Conn(t) = c
      BY <1>4, <2>1, <2>2, <2>4
    <3>3. Now(Tail(wire[c]), up[c], stored[t], receiving', received_log)
      BY <1>0, <2>2, <2>4, <3>1, <3>2, AccountOffered
    <3>. QED
      BY <1>2, <1>5, <2>2, <2>3, <3>2, <3>3
  <2>5. CASE t # u
    <3>1. ~Speaks(Head(wire[c]), t)
      BY <2>1, <2>5 DEF Speaks, IsMsg
    <3>. QED
      BY <1>3, <1>5, <1>6, <2>2, <2>3, <2>5, <3>1
  <2>. QED
    BY <2>4, <2>5
<1>9. CASE HandleChunk(c)
  <2>1. PICK u, x : u = Head(wire[c]).transfer /\ x = Head(wire[c]).chunk
    OBVIOUS
  <2>2. /\ wire[c] # <<>> /\ IsMsg(Head(wire[c]), "Chunk", u) /\ Read(c)
        /\ up' = up /\ received_log' = received_log /\ receiving' = receiving
        /\ Speaks(Head(wire[c]), u) /\ ~IsMsg(Head(wire[c]), "Offer", u)
    BY <1>9, <2>1 DEF HandleChunk, Reads, IsMsg, Speaks
  <2>3. PICK T : wire[c] \in Seq(T)
    BY <1>4, <2>2
  <2>4. CASE t = u
    <3>1. Conn(t) = c
      BY <1>4, <2>1, <2>2, <2>4
    <3>2. CASE t \in receiving
      <4>1. /\ x \in AllChunks(t) /\ \A y \in stored[t] : Before(y, x)
            /\ Now(Tail(wire[c]), up[c], stored[t] \cup {x}, receiving, received_log)
        BY <1>0, <2>1, <2>2, <2>3, <2>4, <3>1, <3>2, AccountStored
      <4>2. Written(t, x[1], x[2])
        BY <1>9, <2>1, <2>4, <3>2 DEF HandleChunk
      <4>3. stored[t] \subseteq AllChunks(t)
        BY <1>0 DEF Account
      <4>4. stored' = [stored EXCEPT ![t] = stored[t] \cup {x}]
        BY <1>0, <4>1, <4>2, <4>3, WrittenFacts
      <4>5. stored'[t] = stored[t] \cup {x}
        BY <1>0, <4>4 DEF WholeType
      <4>. QED
        BY <1>2, <1>5, <2>2, <3>1, <4>1, <4>5
    <3>3. CASE t \notin receiving
      <4>1. stored' = stored
        BY <1>9, <2>1, <2>4, <3>3 DEF HandleChunk
      <4>2. t \in received_log => stored[t] = AllChunks(t)
        BY <1>0 DEF Account
      <4>3. Now(Tail(wire[c]), up[c], stored[t], receiving, received_log)
        BY <1>0, <2>2, <2>3, <2>4, <3>1, <3>3, <4>2, AccountIgnored
      <4>. QED
        BY <1>2, <1>5, <2>2, <3>1, <4>1, <4>3
    <3>. QED
      BY <3>2, <3>3
  <2>5. CASE t # u
    <3>1. ~Speaks(Head(wire[c]), t)
      BY <2>1, <2>5 DEF Speaks, IsMsg
    <3>2. stored'[t] = stored[t]
      <4>1. CASE u \in receiving
        <5>1. Written(u, x[1], x[2])
          BY <1>9, <2>1, <4>1 DEF HandleChunk
        <5>. QED
          BY <1>0, <2>5, <5>1 DEF Written, WholeType
      <4>2. CASE u \notin receiving
        BY <1>9, <2>1, <4>2 DEF HandleChunk
      <4>. QED
        BY <4>1, <4>2
    <3>. QED
      BY <1>3, <1>5, <1>6, <2>2, <3>1, <3>2
  <2>. QED
    BY <2>4, <2>5
<1>10. CASE HandleDone(c)
  <2>1. PICK u : u = Head(wire[c]).transfer
    OBVIOUS
  <2>2. /\ wire[c] # <<>> /\ IsMsg(Head(wire[c]), "Done", u) /\ Read(c)
        /\ up' = up /\ stored' = stored /\ receiving' = receiving \ {u}
        /\ received_log' = IF u \in receiving THEN received_log \cup {u} ELSE received_log
        /\ Speaks(Head(wire[c]), u) /\ ~IsMsg(Head(wire[c]), "Offer", u)
    BY <1>10, <2>1 DEF HandleDone, Reads, IsMsg, Speaks
  <2>3. CASE t = u
    <3>1. PICK T : wire[c] \in Seq(T)
      BY <1>4, <2>2
    <3>2. Conn(t) = c
      BY <1>4, <2>1, <2>2, <2>3
    <3>3. t \in received_log' => stored[t] = AllChunks(t)
      <4>1. CASE t \in receiving
        BY <1>0, <2>2, <2>3, <3>1, <3>2, <4>1, AccountDone
      <4>2. CASE t \notin receiving
        BY <1>0, <2>2, <2>3, <4>2 DEF Account
      <4>. QED
        BY <4>1, <4>2
    <3>4. Now(Tail(wire[c]), up[c], stored[t], receiving', received_log')
      BY <1>0, <2>2, <2>3, <3>1, <3>2, <3>3, AccountIgnored
    <3>. QED
      BY <1>2, <1>5, <2>2, <3>2, <3>4
  <2>4. CASE t # u
    <3>1. ~Speaks(Head(wire[c]), t)
      BY <2>1, <2>4 DEF Speaks, IsMsg
    <3>. QED
      BY <1>3, <1>5, <1>6, <2>2, <2>4, <3>1
  <2>. QED
    BY <2>3, <2>4
<1>11. CASE ReceiverEnds(c)
  <2>1. /\ wire[c] = <<>> /\ wire' = wire /\ stored' = stored
        /\ received_log' = received_log
        /\ receiving' = {x \in receiving : Conn(x) # c}
        /\ up'[c] = FALSE /\ (Conn(t) # c => up'[Conn(t)] = up[Conn(t)])
    BY <1>0, <1>11 DEF ReceiverEnds, WholeType
  <2>2. CASE Conn(t) = c
    <3>1. t \in receiving' => t \in receiving
      BY <2>1
    <3>2. Now(<<>>, FALSE, stored[t], receiving', received_log)
      BY <1>0, <3>1, AccountClosed
    <3>. QED
      BY <1>2, <2>1, <2>2, <3>2
  <2>3. CASE Conn(t) # c
    BY <1>3, <2>1, <2>3
  <2>. QED
    BY <2>2, <2>3
<1>. QED
  BY <1>7, <1>8, <1>9, <1>10, <1>11 DEF Receiver

LEMMA NextFault ==
  ASSUME ShownInv, WholeInv, Fault, NEW t \in Transfers,
         t \notin damaged' \cup swept'
  PROVE  AccountOf(t)'
<1>0. /\ ShownType /\ WireInv /\ WholeType /\ Conn(t) \in Conns
      /\ t \notin damaged \cup swept
      /\ Account(t, pc[t], sent[t], wire[Conn(t)], up[Conn(t)], stored[t],
                 receiving, received_log)
  <2>1. t \notin damaged \cup swept
    BY LossesStay DEF Next
  <2>. QED
    BY <2>1, ConnFacts DEF ShownInv, WholeInv, AccountOf
<1>1. stored' = stored /\ receiving' = receiving /\ received_log' = received_log
  BY DEF Fault, SourceShrinks, ConnectFails, SourceFails, GiveUp, LinkDown,
         WriteFails, receiverVars
<1>2. ASSUME Account(t, pc'[t], sent'[t], wire'[Conn(t)], up'[Conn(t)], stored[t],
                     receiving, received_log)
      PROVE  AccountOf(t)'
  BY <1>1, <1>2 DEF AccountOf
<1>3. ASSUME NEW u \in Transfers, SourceShrinks(u) PROVE AccountOf(t)'
  <2>1. t # u
    BY <1>3 DEF SourceShrinks
  <2>2. sent'[t] = sent[t] /\ pc' = pc /\ wire' = wire /\ up' = up
    BY <1>0, <1>3, <2>1 DEF SourceShrinks, linkVars, WholeType
  <2>. QED
    BY <1>0, <1>2, <2>2
<1>4. ASSUME NEW u \in Transfers, ConnectFails(u) \/ SourceFails(u)
      PROVE  AccountOf(t)'
  <2>1. /\ wire' = wire /\ up' = up /\ sent' = sent
        /\ pc'[t] = pc[t] \/ pc'[t] = "Over"
    BY <1>0, <1>4 DEF ConnectFails, SourceFails, GiveUp, linkVars, ShownType
  <2>2. Account(t, pc'[t], sent[t], wire[Conn(t)], up[Conn(t)], stored[t],
                receiving, received_log)
    BY <1>0, <2>1, AccountSame
  <2>. QED
    BY <1>2, <2>1, <2>2
<1>5. ASSUME NEW c \in Conns, LinkDown(c) PROVE AccountOf(t)'
  <2>1. PICK n \in 0..Len(wire[c]) :
          wire' = [wire EXCEPT ![c] = SubSeq(wire[c], 1, n)]
    BY <1>5 DEF LinkDown
  <2>2. /\ pc' = pc /\ sent' = sent /\ up'[c] = FALSE
        /\ wire'[c] = SubSeq(wire[c], 1, n)
        /\ Conn(t) # c => up'[Conn(t)] = up[Conn(t)] /\ wire'[Conn(t)] = wire[Conn(t)]
    BY <1>0, <1>5, <2>1 DEF LinkDown, senderVars, WireInv, WholeType
  <2>3. CASE Conn(t) = c
    <3>1. PICK T : wire[c] \in Seq(T)
      BY <1>0, WireIsSeq
    <3>2. Account(t, pc[t], sent[t], SubSeq(wire[c], 1, n), FALSE, stored[t],
                  receiving, received_log)
      BY <1>0, <2>3, <3>1, AccountCut
    <3>. QED
      BY <1>2, <2>2, <2>3, <3>2
  <2>4. CASE Conn(t) # c
    BY <1>0, <1>2, <2>2, <2>4
  <2>. QED
    BY <2>3, <2>4
<1>6. ASSUME NEW c \in Conns, WriteFails(c) PROVE AccountOf(t)'
  <2>1. /\ pc' = pc /\ sent' = sent /\ up' = up /\ wire[c] # <<>>
        /\ wire'[c] = Tail(wire[c])
        /\ Conn(t) # c => wire'[Conn(t)] = wire[Conn(t)]
        /\ Head(wire[c]).transfer # t
    BY <1>0, <1>6 DEF WriteFails, Reads, Read, senderVars, WireInv
  <2>2. CASE Conn(t) = c
    <3>1. PICK T : wire[c] \in Seq(T)
      BY <1>0, WireIsSeq
    <3>2. ~Speaks(Head(wire[c]), t)
      BY <2>1 DEF Speaks, IsMsg
    <3>3. Account(t, pc[t], sent[t], Tail(wire[c]), up[c], stored[t],
                  receiving, received_log)
      BY <1>0, <2>1, <2>2, <3>1, <3>2, AccountPassed
    <3>. QED
      BY <1>2, <2>1, <2>2, <3>3
  <2>3. CASE Conn(t) # c
    BY <1>0, <1>2, <2>1, <2>3
  <2>. QED
    BY <2>2, <2>3
<1>. QED
  BY <1>3, <1>4, <1>5, <1>6 DEF Fault

LEMMA InitWholeInv == Init => WholeInv
<1>. SUFFICES ASSUME Init PROVE WholeInv
  OBVIOUS
<1>1. WholeType
  BY DEF Init, WholeType
<1>2. ASSUME NEW t \in Transfers PROVE AccountOf(t)
  <2>1. /\ pc[t] = "Idle" /\ sent[t] = 0 /\ wire[Conn(t)] = <<>>
        /\ stored[t] = {} /\ receiving = {} /\ received_log = {}
    BY ConnFacts DEF Init
  <2>2. 0 \in 0..Len(ChunkList[t])
    BY ChunkFacts
  <2>. QED
    BY <2>1, <2>2, EmptyKeeps DEF AccountOf, Account, Blank, Expects
<1>. QED
  BY <1>1, <1>2 DEF WholeInv

\* What comes of a transfer is in order, and what was published is whole.
THEOREM WholeInvHolds == Spec => [](ShownInv /\ WholeInv)
<1>1. ASSUME ShownInv, WholeInv, [Next]_vars PROVE WholeInv'
  <2>1. ASSUME NEW t \in Transfers, t \notin damaged' \cup swept'
        PROVE  AccountOf(t)'
    <3>1. t \notin damaged \cup swept /\ AccountOf(t)
      BY <1>1, <2>1, LossesStay DEF WholeInv
    <3>2. ASSUME NEW u \in Transfers, Start(u) \/ Sender(u) PROVE AccountOf(t)'
      BY <1>1, <3>1, <3>2, NextSent
    <3>3. ASSUME NEW c \in Conns, Receiver(c) PROVE AccountOf(t)'
      BY <1>1, <2>1, <3>3, NextHeard
    <3>4. CASE Fault
      BY <1>1, <2>1, <3>4, NextFault
    <3>5. CASE SetFileTransfer \/ UNCHANGED vars
      BY <3>1, <3>5
      DEF AccountOf, SetFileTransfer, vars, senderVars, linkVars, receiverVars
    <3>. QED
      BY <1>1, <3>2, <3>3, <3>4, <3>5 DEF Next
  <2>2. WholeType'
    BY <1>1, NextWholeType DEF WholeInv
  <2>. QED
    BY <2>1, <2>2 DEF WholeInv
<1>. QED
  BY <1>1, InitWholeInv, ShownInvHolds, PTL DEF Spec

\* A transfer that is offered for pasting is on the disk to the last chunk, if
\* none could not be written, its source had not shrunk and its directory was
\* not cleaned (file_transfer.rs, handle_chunk and handle_done).
THEOREM PublishedAreWhole == Spec => []PublishedIsWhole
<1>1. ShownInv /\ WholeInv => PublishedIsWhole
  <2>1. SUFFICES ASSUME ShownInv, WholeInv, NEW t \in received_log,
                        t \notin damaged \cup swept
                 PROVE  stored[t] = AllChunks(t)
    BY DEF PublishedIsWhole
  <2>. QED
    BY <2>1 DEF WholeInv, WholeType, AccountOf, Account
<1>. QED
  BY <1>1, WholeInvHolds, PTL

-----------------------------------------------------------------------------
(* Types.  That the chunks on a wire are chunks of their transfer, and that  *)
(* a transfer gets a directory only once, also holds of the damaged ones.    *)

\* What is known of t from p, s, q, R (as in Account) and D, the transfers
\* that have a directory.
Once(t, p, s, q, R, D) ==
  /\ s \in 0..Len(ChunkList[t])
  /\ ChunksIn(q, t, AllChunks(t)) /\ OfferFirst(q, t)
  /\ p \in Early => t \notin R /\ t \notin D /\ Silent(q, t)
  /\ Offering(q, t) => t \notin R /\ t \notin D

LEMMA OnceSame ==
  ASSUME NEW t, NEW p, NEW s, NEW q, NEW R, NEW D, Once(t, p, s, q, R, D),
         NEW p2, p2 = p \/ p2 = "Over" \/ {p, p2} \subseteq Early,
         NEW R2, t \in R2 => t \in R, NEW D2, t \in D2 => t \in D
  PROVE  Once(t, p2, s, q, R2, D2)
BY DEF Once, Early

LEMMA OnceRead ==
  ASSUME NEW T, NEW q \in Seq(T), q # <<>>, NEW t, NEW p, NEW s, NEW R, NEW D,
         Once(t, p, s, q, R, D)
  PROVE  /\ Once(t, p, s, Tail(q), R, D)
         /\ \A R2, D2 : Speaks(Head(q), t) => Once(t, p, s, Tail(q), R2, D2)
         /\ IsMsg(Head(q), "Chunk", t) => Head(q).chunk \in AllChunks(t)
<1>1. PICK r : r = Tail(q)
  OBVIOUS
<1>2. /\ OfferFirst(r, t) /\ (Offering(r, t) => Offering(q, t))
      /\ Silent(q, t) => Silent(r, t)
      /\ ChunksIn(r, t, AllChunks(t))
  BY <1>1, TailKeeps DEF Once
<1>3. Speaks(Head(q), t) => ~Silent(q, t) /\ ~Offering(r, t)
  BY <1>1, HeadSpeaks DEF Once
<1>4. IsMsg(Head(q), "Chunk", t) => Head(q).chunk \in AllChunks(t)
  <2>1. 1 \in 1..Len(q) /\ Head(q) = q[1]
    BY TailFacts
  <2>. QED
    BY <2>1 DEF Once, ChunksIn
<1>5. /\ Once(t, p, s, r, R, D)
      /\ \A R2, D2 : Speaks(Head(q), t) => Once(t, p, s, r, R2, D2)
  BY <1>2, <1>3 DEF Once
<1>. QED
  BY <1>1, <1>4, <1>5

LEMMA OnceCut ==
  ASSUME NEW T, NEW q \in Seq(T), NEW n \in 0..Len(q), NEW t, NEW p, NEW s,
         NEW R, NEW D, Once(t, p, s, q, R, D)
  PROVE  Once(t, p, s, SubSeq(q, 1, n), R, D)
<1>1. PICK r : r = SubSeq(q, 1, n)
  OBVIOUS
<1>2. /\ OfferFirst(q, t) => OfferFirst(r, t)
      /\ Offering(r, t) => Offering(q, t)
      /\ Silent(q, t) => Silent(r, t)
      /\ ChunksIn(q, t, AllChunks(t)) => ChunksIn(r, t, AllChunks(t))
  BY <1>1, PrefixKeeps
<1>3. Once(t, p, s, r, R, D)
  BY <1>2 DEF Once
<1>. QED
  BY <1>1, <1>3

LEMMA OnceFresh ==
  ASSUME NEW t, NEW p, NEW s, NEW q, NEW R, NEW D, Once(t, p, s, q, R, D), NEW m,
         ~Speaks(m, t)
  PROVE  Once(t, p, s, <<>>, R, D) /\ Once(t, p, s, <<m>>, R, D)
<1>1. PICK r : r = <<m>>
  OBVIOUS
<1>2. Len(r) = 1 /\ \A i \in 1..Len(r) : r[i] = m
  BY <1>1
<1>3. /\ Silent(r, t) /\ OfferFirst(r, t) /\ ~Offering(r, t)
      /\ ChunksIn(r, t, AllChunks(t))
  BY <1>2 DEF Silent, OfferFirst, Offering, ChunksIn, Speaks
<1>4. Once(t, p, s, r, R, D)
  BY <1>3 DEF Once
<1>. QED
  BY <1>1, <1>4, EmptyKeeps DEF Once

\* t sends m, or another transfer does; when it offers itself it has not yet.
LEMMA OnceSent ==
  ASSUME NEW T, NEW q \in Seq(T), NEW m \in T, NEW t, NEW p, NEW s, NEW R,
         NEW D, Once(t, p, s, q, R, D), NEW p2, NEW s2,
         s2 \in 0..Len(ChunkList[t]),
         IsMsg(m, "Chunk", t) => m.chunk \in AllChunks(t),
         IsMsg(m, "Offer", t) => p \in Early,
         p2 \in Early => p = p2 /\ ~Speaks(m, t)
  PROVE  Once(t, p2, s2, Append(q, m), R, D)
<1>1. PICK r : r = Append(q, m)
  OBVIOUS
<1>2. /\ OfferFirst(q, t) /\ (IsMsg(m, "Offer", t) => Silent(q, t))
      /\ ChunksIn(q, t, AllChunks(t))
  BY DEF Once
<1>3. /\ OfferFirst(r, t) /\ ChunksIn(r, t, AllChunks(t))
      /\ Offering(r, t) => Offering(q, t) \/ IsMsg(m, "Offer", t)
      /\ Silent(q, t) /\ ~Speaks(m, t) => Silent(r, t)
  BY <1>1, <1>2, AppendKeeps
<1>4. Once(t, p2, s2, r, R, D)
  BY <1>3 DEF Once
<1>. QED
  BY <1>1, <1>4

OtherTypes ==
  /\ sent_log \cup unlinked \cup failed \cup refused \cup damaged \cup swept
       \subseteq Transfers
  /\ lost \subseteq Conns
  /\ \A c \in Conns : Len(wire[c]) <= WireCap
  /\ file_transfer_enabled \in BOOLEAN
  /\ current = [t \in Transfers |-> current[t]]
  /\ \A t \in Transfers :
       current[t] \in 0..Len(Chunks[t]) /\ stored[t] \subseteq AllChunks(t)
  /\ dirs \in Seq(Transfers) /\ IsInjective(dirs)
  /\ clipboard \in Transfers \cup {None}

\* Without its first ones the directories are still different, ...
LEMMA NewerDirs ==
  ASSUME NEW d \in Seq(Transfers), IsInjective(d), NEW k \in 0..Len(d)
  PROVE  LET e == SubSeq(d, k + 1, Len(d)) IN
         e \in Seq(Transfers) /\ IsInjective(e) /\ ToSet(e) \subseteq ToSet(d)
<1>1. PICK n \in Nat : n = Len(d) /\ DOMAIN d = 1..n /\ k \in 0..n
  OBVIOUS
<1>2. PICK e : e = SubSeq(d, k + 1, n)
  OBVIOUS
<1>3. /\ e \in Seq(Transfers) /\ DOMAIN e = 1..(n - k)
      /\ \A i \in 1..(n - k) : e[i] = d[i + k] /\ i + k \in 1..n
  BY <1>1, <1>2
<1>4. IsInjective(e)
  <2>1. ASSUME NEW i \in 1..(n - k), NEW j \in 1..(n - k), e[i] = e[j]
        PROVE  i = j
    <3>1. d[i + k] = d[j + k] /\ i + k \in 1..n /\ j + k \in 1..n
      BY <1>3, <2>1
    <3>2. i + k = j + k
      BY <1>1, <3>1 DEF IsInjective
    <3>. QED
      BY <1>1, <3>2
  <2>. QED
    BY <1>3, <2>1 DEF IsInjective
<1>5. ToSet(e) \subseteq ToSet(d)
  BY <1>1, <1>3 DEF ToSet
<1>. QED
  BY <1>1, <1>2, <1>3, <1>4, <1>5

LEMMA AppendedSet ==
  ASSUME NEW T, NEW d \in Seq(T), NEW t
  PROVE  ToSet(Append(d, t)) \subseteq ToSet(d) \cup {t}
<1>1. PICK n \in Nat : n = Len(d) /\ DOMAIN d = 1..n
  OBVIOUS
<1>2. PICK e : e = Append(d, t)
  OBVIOUS
<1>3. /\ DOMAIN e = 1..(n + 1) /\ e[n + 1] = t
      /\ \A i \in 1..(n + 1) : i = n + 1 \/ (i \in 1..n /\ e[i] = d[i])
  BY <1>1, <1>2
<1>4. ToSet(e) \subseteq ToSet(d) \cup {t}
  BY <1>1, <1>3 DEF ToSet
<1>. QED
  BY <1>2, <1>4

\* ... with a new one too, ...
LEMMA AddedDir ==
  ASSUME NEW d \in Seq(Transfers), IsInjective(d), NEW t \in Transfers,
         t \notin ToSet(d)
  PROVE  /\ Append(d, t) \in Seq(Transfers) /\ IsInjective(Append(d, t))
         /\ ToSet(Append(d, t)) \subseteq ToSet(d) \cup {t}
<1>1. PICK n \in Nat : n = Len(d) /\ DOMAIN d = 1..n
  OBVIOUS
<1>2. PICK e : e = Append(d, t)
  OBVIOUS
<1>3. /\ e \in Seq(Transfers) /\ DOMAIN e = 1..(n + 1) /\ e[n + 1] = t
      /\ \A i \in 1..(n + 1) : i = n + 1 \/ (i \in 1..n /\ e[i] = d[i])
  BY <1>1, <1>2
<1>4. \A i \in 1..n : d[i] # t
  BY <1>1 DEF ToSet
<1>5. IsInjective(e)
  BY <1>1, <1>3, <1>4 DEF IsInjective
<1>6. ToSet(e) \subseteq ToSet(d) \cup {t}
  BY <1>1, <1>3 DEF ToSet
<1>. QED
  BY <1>2, <1>3, <1>5, <1>6

\* ... and with one taken out.
LEMMA RemovedDir ==
  ASSUME NEW d \in Seq(Transfers), IsInjective(d), NEW i \in DOMAIN d
  PROVE  LET e == RemoveAt(d, i) IN
         /\ e \in Seq(Transfers) /\ IsInjective(e)
         /\ ToSet(e) \subseteq ToSet(d) \ {d[i]}
<1>1. PICK n \in Nat : n = Len(d) /\ DOMAIN d = 1..n /\ i \in 1..n
  OBVIOUS
<1>2. PICK a, b, e : /\ a = SubSeq(d, 1, i - 1) /\ b = SubSeq(d, i + 1, n)
                     /\ e = a \o b
  OBVIOUS
<1>3. /\ a \in Seq(Transfers) /\ Len(a) = i - 1
      /\ \A j \in 1..(i - 1) : a[j] = d[j]
      /\ b \in Seq(Transfers) /\ Len(b) = n - i
      /\ \A j \in 1..(n - i) : b[j] = d[i + j]
  <2>1. i - 1 \in 0..n /\ n - i \in Nat /\ 1 + (i - 1) = i /\ i + 1 \in 1..(n + 1)
    BY <1>1
  <2>2. a \in Seq(Transfers) /\ Len(a) = i - 1 /\ \A j \in 1..(i - 1) : a[j] = d[j]
    BY <1>1, <1>2, <2>1
  <2>3. b \in Seq(Transfers) /\ Len(b) = n - i
    BY <1>1, <1>2, <2>1
  <2>4. ASSUME NEW j \in 1..(n - i) PROVE b[j] = d[i + j]
    <3>1. i + 1 + j - 1 = i + j /\ j \in 1..(n - (i + 1) + 1)
      BY <1>1
    <3>2. \A k \in 1..(n - (i + 1) + 1) : b[k] = d[i + 1 + k - 1]
      <4>1. PICK m \in Int : m = i + 1
        BY <1>1
      <4>2. b = SubSeq(d, m, n) /\ n \in Int /\ \A k \in m..n : d[k] \in Transfers
        BY <1>1, <1>2, <4>1
      <4>3. \A k \in 1..(n - m + 1) : b[k] = d[m + k - 1]
        BY <4>2, SubSeqProperties
      <4>. QED
        BY <4>1, <4>3
    <3>. QED
      BY <3>1, <3>2
  <2>. QED
    BY <2>2, <2>3, <2>4
<1>4. /\ e \in Seq(Transfers) /\ Len(e) = n - 1 /\ DOMAIN e = 1..(n - 1)
      /\ \A j \in 1..(n - 1) : e[j] = IF j <= i - 1 THEN a[j] ELSE b[j - (i - 1)]
  <2>0. a \in Seq(Transfers) /\ b \in Seq(Transfers) /\ e = a \o b
    BY <1>2, <1>3
  <2>1. /\ e \in Seq(Transfers) /\ Len(e) = Len(a) + Len(b)
        /\ \A j \in 1..(Len(a) + Len(b)) :
             e[j] = IF j <= Len(a) THEN a[j] ELSE b[j - Len(a)]
    BY <2>0, ConcatProperties
  <2>2. Len(a) = i - 1 /\ Len(a) + Len(b) = n - 1
    <3>1. Len(a) = i - 1 /\ Len(b) = n - i
      BY <1>3
    <3>2. (i - 1) + (n - i) = n - 1
      BY <1>1
    <3>. QED
      BY <3>1, <3>2
  <2>. QED
    BY <2>1, <2>2
<1>5. ASSUME NEW j \in 1..(n - 1)
      PROVE  e[j] = IF j < i THEN d[j] ELSE d[j + 1]
  <2>1. CASE j < i
    <3>1. j \in 1..(i - 1) /\ j <= i - 1
      BY <1>1, <2>1
    <3>. QED
      BY <1>3, <1>4, <2>1, <3>1
  <2>2. CASE ~(j < i)
    <3>1. j - (i - 1) \in 1..(n - i) /\ ~(j <= i - 1) /\ i + (j - (i - 1)) = j + 1
      BY <1>1, <2>2
    <3>. QED
      BY <1>3, <1>4, <2>2, <3>1
  <2>. QED
    BY <2>1, <2>2
<1>6. ASSUME NEW j \in 1..(n - 1)
      PROVE  \E k \in 1..n : k # i /\ e[j] = d[k] /\ k = IF j < i THEN j ELSE j + 1
  BY <1>1, <1>5
<1>7. IsInjective(e)
  <2>1. ASSUME NEW j \in 1..(n - 1), NEW k \in 1..(n - 1), e[j] = e[k]
        PROVE  j = k
    <3>1. PICK x \in 1..n : e[j] = d[x] /\ x = IF j < i THEN j ELSE j + 1
      BY <1>6
    <3>2. PICK y \in 1..n : e[k] = d[y] /\ y = IF k < i THEN k ELSE k + 1
      BY <1>6
    <3>3. x = y
      BY <1>1, <2>1, <3>1, <3>2 DEF IsInjective
    <3>. QED
      BY <1>1, <3>1, <3>2, <3>3
  <2>. QED
    BY <1>4, <2>1 DEF IsInjective
<1>8. ToSet(e) \subseteq ToSet(d) \ {d[i]}
  <2>1. \A k \in 1..n : k # i => d[k] # d[i]
    BY <1>1 DEF IsInjective
  <2>. QED
    BY <1>1, <1>4, <1>6, <2>1 DEF ToSet
<1>. QED
  BY <1>1, <1>2, <1>4, <1>7, <1>8 DEF RemoveAt

LEMMA OldFacts ==
  ASSUME dirs \in Seq(Transfers)
  PROVE  Len(Old) \in 0..Len(dirs) /\ ToSet(Old) \subseteq Transfers
<1>1. PICK k : k = IF Len(dirs) > KeepDirs THEN Len(dirs) - KeepDirs ELSE 0
  OBVIOUS
<1>2. k \in 0..Len(dirs) /\ Old = SubSeq(dirs, 1, k)
  BY <1>1, TransfersAssumption DEF Old
<1>3. PICK e : e = SubSeq(dirs, 1, k)
  OBVIOUS
<1>4. e \in Seq(Transfers) /\ Len(e) = k
  BY <1>2, <1>3
<1>5. ToSet(e) \subseteq Transfers
  BY <1>4 DEF ToSet
<1>. QED
  BY <1>2, <1>3, <1>4, <1>5

\* d is a list of directories like that, with no transfer but those of D and t.
DirsOf(d, D, t) ==
  d \in Seq(Transfers) /\ IsInjective(d) /\ ToSet(d) \subseteq D \cup {t}

LEMMA OfferedDirs ==
  ASSUME dirs \in Seq(Transfers), IsInjective(dirs), NEW t \in Transfers,
         t \notin ToSet(dirs)
  PROVE  LET d == SubSeq(dirs, Len(Old) + 1, Len(dirs)) IN
         DirsOf(d, ToSet(dirs), t) /\ DirsOf(Append(d, t), ToSet(dirs), t)
<1>1. PICK e : e = SubSeq(dirs, Len(Old) + 1, Len(dirs))
  OBVIOUS
<1>2. e \in Seq(Transfers) /\ IsInjective(e) /\ ToSet(e) \subseteq ToSet(dirs)
  BY <1>1, OldFacts, NewerDirs
<1>3. DirsOf(Append(e, t), ToSet(e), t)
  BY <1>2, AddedDir DEF DirsOf
<1>. QED
  BY <1>1, <1>2, <1>3 DEF DirsOf

LEMMA TouchedDirs ==
  ASSUME dirs \in Seq(Transfers), IsInjective(dirs), NEW t \in Transfers
  PROVE  DirsOf(Touched(t), ToSet(dirs), t)
<1>1. CASE t \in ToSet(dirs)
  <2>1. PICK i : i = CHOOSE j \in DOMAIN dirs : dirs[j] = t
    OBVIOUS
  <2>2. i \in DOMAIN dirs /\ dirs[i] = t
    BY <1>1, <2>1 DEF ToSet
  <2>3. PICK e : e = RemoveAt(dirs, i)
    OBVIOUS
  <2>4. /\ e \in Seq(Transfers) /\ IsInjective(e)
        /\ ToSet(e) \subseteq ToSet(dirs) \ {t}
    BY <2>2, <2>3, RemovedDir
  <2>5. DirsOf(Append(e, t), ToSet(e), t)
    BY <2>4, AddedDir DEF DirsOf
  <2>6. Touched(t) = Append(e, t)
    BY <1>1, <2>1, <2>3 DEF Touched
  <2>. QED
    BY <2>4, <2>5, <2>6 DEF DirsOf
<1>2. CASE t \notin ToSet(dirs)
  <2>1. Touched(t) = Append(dirs, t)
    BY <1>2 DEF Touched
  <2>. QED
    BY <1>2, <2>1, AddedDir DEF DirsOf
<1>. QED
  BY <1>1, <1>2

OnceOf(t) == Once(t, pc[t], sent[t], wire[Conn(t)], receiving, ToSet(dirs))

LEMMA OnceNextSent ==
  ASSUME ShownInv, WholeType, NEW u \in Transfers, Start(u) \/ Sender(u),
         NEW t \in Transfers, OnceOf(t)
  PROVE  OnceOf(t)'
<1>0. /\ ShownType /\ OpeningInv /\ WireInv /\ WholeType
      /\ Conn(t) \in Conns /\ Conn(u) \in Conns
      /\ Once(t, pc[t], sent[t], wire[Conn(t)], receiving, ToSet(dirs))
      /\ sent[t] \in 0..Len(ChunkList[t])
  BY ConnFacts DEF ShownInv, OnceOf, Once
<1>. DEFINE New(p, s, q) == Once(t, p, s, q, receiving, ToSet(dirs))
<1>1. receiving' = receiving /\ dirs' = dirs
  BY DEF Start, Sender, Connect, OpenChannel, SendOffer, SendChunk,
         SendDone, SendFails, GiveUp, receiverVars
<1>2. ASSUME New(pc'[t], sent'[t], wire'[Conn(t)]) PROVE OnceOf(t)'
  BY <1>1, <1>2 DEF OnceOf
<1>3. CASE Start(u) \/ Connect(u) \/ SendFails(u)
  <2>1. /\ wire' = wire /\ sent' = sent
        /\ pc'[t] = pc[t] \/ pc'[t] = "Over" \/ {pc[t], pc'[t]} \subseteq Early
    BY <1>0, <1>3
    DEF Start, Connect, SendFails, GiveUp, linkVars, ShownType, Early
  <2>2. New(pc'[t], sent[t], wire[Conn(t)])
    BY <1>0, <2>1, OnceSame
  <2>. QED
    BY <1>2, <2>1, <2>2
<1>5. CASE OpenChannel(u)
  <2>1. u \notin Fast /\ u # "main" /\ pc[u] = "Tls" /\ sent' = sent
    BY <1>0, <1>5, TransfersAssumption DEF OpeningInv, OpenChannel
  <2>2. Conn(u) = u /\ (t # u => Conn(t) # u)
    BY <2>1 DEF Conn, Main
  <2>3. PICK m : m = Msg("Init", u, NoChunk)
    OBVIOUS
  <2>4. ~Speaks(m, t)
    BY <2>3 DEF Msg, Speaks, IsMsg
  <2>5. /\ \A c \in Conns : wire'[c] = IF c = u THEN <<m>> ELSE wire[c]
        /\ \A x \in Transfers : pc'[x] = IF x = u THEN "Offer" ELSE pc[x]
    BY <1>0, <1>5, <2>3 DEF OpenChannel, WireInv, ShownType
  <2>6. CASE t = u
    <3>1. New(pc[t], sent[t], <<m>>)
      BY <1>0, <2>4, OnceFresh
    <3>2. New("Offer", sent[t], <<m>>)
      BY <2>1, <2>6, <3>1, OnceSame DEF Early
    <3>3. wire'[Conn(t)] = <<m>> /\ pc'[t] = "Offer"
      BY <1>0, <2>2, <2>5, <2>6
    <3>. QED
      BY <1>2, <2>1, <3>2, <3>3
  <2>7. CASE t # u
    BY <1>0, <1>2, <2>1, <2>2, <2>5, <2>7
  <2>. QED
    BY <2>6, <2>7
<1>6. ASSUME NEW kind, NEW x, Send(Conn(u), Msg(kind, u, x)),
             sent'[t] \in 0..Len(ChunkList[t]),
             t = u /\ kind = "Chunk" => x \in AllChunks(t),
             t = u /\ kind = "Offer" => pc[t] \in Early,
             t = u => pc'[t] \notin Early,
             t # u => pc'[t] = pc[t] /\ sent'[t] = sent[t]
      PROVE  OnceOf(t)'
  <2>1. PICK m : m = Msg(kind, u, x)
    OBVIOUS
  <2>2. PICK T : wire[Conn(u)] \in Seq(T) /\ m \in T
    BY <1>0, WireIsSeq
  <2>3. \A c \in Conns : wire'[c] = IF c = Conn(u)
                                    THEN Append(wire[c], m) ELSE wire[c]
    BY <1>0, <1>6, <2>1 DEF Send, WireInv
  <2>4. m.kind = kind /\ m.transfer = u /\ m.chunk = x
    BY <2>1 DEF Msg
  <2>5. /\ IsMsg(m, "Chunk", t) => m.chunk \in AllChunks(t)
        /\ IsMsg(m, "Offer", t) => pc[t] \in Early
        /\ pc'[t] \in Early => pc[t] = pc'[t] /\ ~Speaks(m, t)
    BY <1>6, <2>4 DEF IsMsg, Speaks
  <2>6. CASE Conn(t) = Conn(u)
    <3>1. New(pc'[t], sent'[t], Append(wire[Conn(t)], m))
      BY <1>0, <1>6, <2>2, <2>5, <2>6, OnceSent
    <3>. QED
      BY <1>0, <1>2, <2>3, <2>6, <3>1
  <2>7. CASE Conn(t) # Conn(u)
    BY <1>0, <1>2, <1>6, <2>3, <2>7
  <2>. QED
    BY <2>6, <2>7
<1>8. CASE SendOffer(u)
  <2>1. /\ Send(Conn(u), Msg("Offer", u, NoChunk)) /\ sent' = sent
        /\ pc[u] \in Early /\ pc'[u] \notin Early /\ (t # u => pc'[t] = pc[t])
    BY <1>0, <1>8 DEF SendOffer, ShownType, Early
  <2>. QED
    BY <1>0, <1>6, <2>1
<1>9. CASE SendChunk(u)
  <2>0. PICK x : x = ChunkList[u][sent[u] + 1]
    OBVIOUS
  <2>1. /\ Send(Conn(u), Msg("Chunk", u, x)) /\ pc' = pc
        /\ pc[u] \notin Early /\ sent[u] < Len(ChunkList[u])
        /\ sent'[u] = sent[u] + 1 /\ (t # u => sent'[t] = sent[t])
    BY <1>0, <1>9, <2>0 DEF SendChunk, WholeType, Early
  <2>2. CASE t = u
    <3>1. PICK n : n = sent[t]
      OBVIOUS
    <3>2. /\ n \in 0..Len(ChunkList[t]) /\ n < Len(ChunkList[t])
          /\ x = ChunkList[t][n + 1] /\ sent'[t] = n + 1
      BY <1>0, <2>0, <2>1, <2>2, <3>1, Zenon
    <3>3. x \in AllChunks(t) /\ sent'[t] \in 0..Len(ChunkList[t])
      BY <3>2, NextChunk
    <3>. QED
      BY <1>6, <2>1, <2>2, <3>3
  <2>3. CASE t # u
    BY <1>0, <1>6, <2>1, <2>3
  <2>. QED
    BY <2>2, <2>3
<1>10. CASE SendDone(u)
  <2>1. /\ Send(Conn(u), Msg("Done", u, NoChunk)) /\ sent' = sent
        /\ pc'[u] \notin Early /\ (t # u => pc'[t] = pc[t])
    BY <1>0, <1>10 DEF SendDone, ShownType, Early
  <2>. QED
    BY <1>0, <1>6, <2>1
<1>. QED
  BY <1>3, <1>5, <1>8, <1>9, <1>10 DEF Sender

LEMMA OnceNextHeard ==
  ASSUME ShownInv, WholeType, OtherTypes, NEW c \in Conns, Receiver(c),
         NEW t \in Transfers, OnceOf(t)
  PROVE  OnceOf(t)'
<1>0. /\ ShownType /\ WireInv /\ Conn(t) \in Conns
      /\ Once(t, pc[t], sent[t], wire[Conn(t)], receiving, ToSet(dirs))
      /\ dirs \in Seq(Transfers) /\ IsInjective(dirs)
  BY ConnFacts DEF ShownInv, OnceOf, OtherTypes
<1>. DEFINE Now(q, R, D) == Once(t, pc[t], sent[t], q, R, D)
<1>1. pc' = pc /\ sent' = sent
  BY DEF Receiver, FileChannelInit, HandleOffer, HandleChunk, HandleDone,
         ReceiverEnds, senderVars
<1>2. ASSUME NEW D, ToSet(dirs') = D, Now(wire'[Conn(t)], receiving', D)
      PROVE  OnceOf(t)'
  BY <1>1, <1>2 DEF OnceOf
<1>3. ASSUME wire[c] # <<>>
      PROVE  /\ \E T : wire[c] \in Seq(T)
             /\ Head(wire[c]).transfer \in Transfers
  BY <1>0, <1>3, WireIsSeq, ShorterCarries DEF WireInv, Belongs
\* The first message is read; only what is of its transfer can get longer.
<1>4. ASSUME wire[c] # <<>>, Read(c), NEW R, receiving' = R,
             NEW D, ToSet(dirs') = D,
             \/ Conn(t) = c /\ Speaks(Head(wire[c]), t)
             \/ (t \in R => t \in receiving) /\ (t \in D => t \in ToSet(dirs))
      PROVE  OnceOf(t)'
  <2>1. /\ wire'[c] = Tail(wire[c])
        /\ Conn(t) # c => wire'[Conn(t)] = wire[Conn(t)]
    BY <1>0, <1>4 DEF Read, WireInv
  <2>2. CASE Conn(t) = c
    <3>1. PICK T : wire[c] \in Seq(T)
      BY <1>3, <1>4
    <3>2. /\ Now(Tail(wire[c]), receiving, ToSet(dirs))
          /\ Speaks(Head(wire[c]), t) => Now(Tail(wire[c]), R, D)
      BY <1>0, <1>4, <2>2, <3>1, OnceRead
    <3>3. Now(Tail(wire[c]), R, D)
      BY <1>4, <3>2, OnceSame
    <3>. QED
      BY <1>2, <1>4, <2>1, <2>2, <3>3
  <2>3. CASE Conn(t) # c
    <3>1. Now(wire[Conn(t)], R, D)
      BY <1>0, <1>4, <2>3, OnceSame
    <3>. QED
      BY <1>2, <1>4, <2>1, <2>3, <3>1
  <2>. QED
    BY <2>2, <2>3
<1>7. CASE c \in Background /\ FileChannelInit(c)
  <2>1. wire[c] # <<>> /\ receiving' = receiving /\ dirs' = dirs
    BY <1>7 DEF FileChannelInit, Reads, receiverVars
  <2>2. CASE file_transfer_enabled
    <3>1. Read(c)
      BY <1>7, <2>2 DEF FileChannelInit
    <3>. QED
      BY <1>4, <2>1, <3>1
  <2>3. CASE ~file_transfer_enabled
    <3>1. /\ wire'[c] = <<>>
          /\ Conn(t) # c => wire'[Conn(t)] = wire[Conn(t)]
      BY <1>0, <1>7, <2>3 DEF FileChannelInit, WireInv
    <3>2. CASE Conn(t) = c
      <4>1. PICK m : ~Speaks(m, t)
        <5>1. PICK m : m = Msg("Init", t, NoChunk)
          OBVIOUS
        <5>2. ~Speaks(m, t)
          BY <5>1 DEF Msg, Speaks, IsMsg
        <5>. QED
          BY <5>2
      <4>2. Now(<<>>, receiving, ToSet(dirs))
        BY <1>0, <4>1, OnceFresh
      <4>. QED
        BY <1>2, <2>1, <3>1, <3>2, <4>2
    <3>3. CASE Conn(t) # c
      BY <1>0, <1>2, <2>1, <3>1, <3>3
    <3>. QED
      BY <3>2, <3>3
  <2>. QED
    BY <2>2, <2>3
<1>8. CASE HandleOffer(c)
  <2>1. PICK u : u = Head(wire[c]).transfer
    OBVIOUS
  <2>2. wire[c] # <<>> /\ IsMsg(Head(wire[c]), "Offer", u) /\ Read(c)
    BY <1>8, <2>1 DEF HandleOffer, Reads, IsMsg
  <2>3. u \in Transfers /\ Conn(u) = c
    BY <1>0, <2>1, <2>2, ShorterCarries DEF WireInv, Belongs
  <2>4. PICK R, D : receiving' = R /\ ToSet(dirs') = D
    OBVIOUS
  <2>5. CASE t = u
    <3>1. Speaks(Head(wire[c]), t) /\ Conn(t) = c
      BY <2>2, <2>3, <2>5 DEF Speaks
    <3>. QED
      BY <1>4, <2>2, <2>4, <3>1
  <2>6. CASE t # u
    <3>1. (t \in R => t \in receiving) /\ (t \in D => t \in ToSet(dirs))
      <4>1. CASE c = Main /\ ~file_transfer_enabled
        BY <1>8, <2>4, <4>1 DEF HandleOffer
      <4>2. CASE ~(c = Main /\ ~file_transfer_enabled)
        <5>1. PICK d : d = SubSeq(dirs, Len(Old) + 1, Len(dirs))
          OBVIOUS
        <5>2. /\ receiving' \subseteq receiving \cup {u}
              /\ dirs' = Append(d, u) \/ dirs' = d
          BY <1>8, <2>1, <4>2, <5>1 DEF HandleOffer, Offered, NotStaged, Cleaned, Newer
        <5>3. d \in Seq(Transfers) /\ ToSet(d) \subseteq ToSet(dirs)
          BY <1>0, <5>1, OldFacts, NewerDirs
        <5>4. ToSet(Append(d, u)) \subseteq ToSet(d) \cup {u}
          BY <2>3, <5>3, AppendedSet
        <5>. QED
          <6>1. ToSet(dirs') \subseteq ToSet(dirs) \cup {u}
            <7>1. CASE dirs' = d
              BY <5>3, <7>1
            <7>2. CASE dirs' = Append(d, u)
              BY <5>3, <5>4, <7>2
            <7>. QED
              BY <5>2, <7>1, <7>2
          <6>. QED
            BY <2>4, <2>6, <5>2, <6>1
      <4>. QED
        BY <4>1, <4>2
    <3>. QED
      BY <1>4, <2>2, <2>4, <3>1
  <2>. QED
    BY <2>5, <2>6
<1>9. CASE HandleChunk(c)
  <2>1. PICK u : u = Head(wire[c]).transfer
    OBVIOUS
  <2>2. /\ wire[c] # <<>> /\ IsMsg(Head(wire[c]), "Chunk", u) /\ Read(c)
        /\ receiving' = receiving
    BY <1>9, <2>1 DEF HandleChunk, Reads, IsMsg
  <2>3. u \in Transfers /\ Conn(u) = c
    BY <1>0, <2>1, <2>2, ShorterCarries DEF WireInv, Belongs
  <2>4. PICK D : ToSet(dirs') = D
    OBVIOUS
  <2>5. CASE t = u
    <3>1. Speaks(Head(wire[c]), t) /\ Conn(t) = c
      BY <2>2, <2>3, <2>5 DEF Speaks
    <3>. QED
      BY <1>4, <2>2, <2>4, <3>1
  <2>6. CASE t # u
    <3>1. D \subseteq ToSet(dirs) \cup {u}
      <4>1. CASE dirs' = dirs
        BY <2>4, <4>1
      <4>2. CASE dirs' # dirs
        <5>1. dirs' = Touched(u)
          BY <1>9, <2>1, <4>2 DEF HandleChunk, Written
        <5>2. DirsOf(Touched(u), ToSet(dirs), u)
          BY <1>0, <2>3, TouchedDirs
        <5>. QED
          BY <2>4, <5>1, <5>2 DEF DirsOf
      <4>. QED
        BY <4>1, <4>2
    <3>. QED
      BY <1>4, <2>2, <2>4, <2>6, <3>1
  <2>. QED
    BY <2>5, <2>6
<1>10. CASE HandleDone(c)
  <2>1. PICK R : receiving' = R
    OBVIOUS
  <2>2. wire[c] # <<>> /\ Read(c) /\ dirs' = dirs /\ (t \in R => t \in receiving)
    BY <1>10, <2>1 DEF HandleDone, Reads
  <2>. QED
    BY <1>4, <2>1, <2>2
<1>11. CASE ReceiverEnds(c)
  <2>1. PICK R : receiving' = R
    OBVIOUS
  <2>2. wire' = wire /\ dirs' = dirs /\ (t \in R => t \in receiving)
    BY <1>11, <2>1 DEF ReceiverEnds
  <2>3. Now(wire[Conn(t)], R, ToSet(dirs))
    BY <1>0, <2>2, OnceSame
  <2>. QED
    BY <1>2, <2>1, <2>2, <2>3
<1>. QED
  BY <1>7, <1>8, <1>9, <1>10, <1>11 DEF Receiver

\* Where the source has shrunk, the sender goes on with the next file.
LEMMA ShrunkSent ==
  ASSUME WholeType, NEW t \in Transfers, sent[t] \in 0..Len(ChunkList[t]),
         SourceShrinks(t)
  PROVE  sent'[t] \in 0..Len(ChunkList[t])
<1>1. PICK q, s, n : /\ q = ChunkList[t] /\ s = sent[t] /\ n = Len(q)
                     /\ s \in 0..n /\ n \in Nat /\ s < n
  BY ChunkFacts DEF SourceShrinks
<1>2. PICK f : f = q[s + 1][1]
  OBVIOUS
<1>. DEFINE Skips(k) == /\ \A i \in (s + 1)..k : q[i][1] = f
                        /\ k < n => q[k + 1][1] # f
<1>3. sent'[t] = CHOOSE k \in s..n : Skips(k)
  BY <1>1, <1>2 DEF SourceShrinks, WholeType
<1>4. \E k \in s..n : Skips(k)
  <2>. DEFINE S == {k \in s..n : k = n \/ q[k + 1][1] # f}
  <2>1. n \in S /\ S \subseteq Nat
    BY <1>1
  <2>2. PICK k \in S : \A y \in S : k <= y
    BY <2>1, LeastNumber
  <2>3. ASSUME NEW i \in (s + 1)..k PROVE q[i][1] = f
    <3>1. i - 1 \in s..n /\ ~(k <= i - 1) /\ i - 1 # n /\ (i - 1) + 1 = i
      BY <1>1, <2>2, <2>3
    <3>. QED
      BY <2>2, <3>1
  <2>. QED
    BY <1>1, <2>2, <2>3
<1>5. sent'[t] \in s..n
  BY <1>3, <1>4
<1>. QED
  BY <1>1, <1>5

LEMMA OnceNextFault ==
  ASSUME ShownInv, WholeType, Fault, NEW t \in Transfers, OnceOf(t)
  PROVE  OnceOf(t)'
<1>0. /\ ShownType /\ WireInv /\ Conn(t) \in Conns
      /\ Once(t, pc[t], sent[t], wire[Conn(t)], receiving, ToSet(dirs))
      /\ sent[t] \in 0..Len(ChunkList[t])
  BY ConnFacts DEF ShownInv, OnceOf, Once
<1>1. receiving' = receiving /\ dirs' = dirs
  BY DEF Fault, SourceShrinks, ConnectFails, SourceFails, GiveUp, LinkDown,
         WriteFails, receiverVars
<1>2. ASSUME Once(t, pc'[t], sent'[t], wire'[Conn(t)], receiving, ToSet(dirs))
      PROVE  OnceOf(t)'
  BY <1>1, <1>2 DEF OnceOf
<1>3. ASSUME NEW u \in Transfers, SourceShrinks(u) PROVE OnceOf(t)'
  <2>1. pc' = pc /\ wire' = wire /\ (t # u => sent'[t] = sent[t])
    BY <1>0, <1>3 DEF SourceShrinks, linkVars, WholeType
  <2>2. sent'[t] \in 0..Len(ChunkList[t])
    BY <1>0, <1>3, <2>1, ShrunkSent
  <2>3. Once(t, pc[t], sent'[t], wire[Conn(t)], receiving, ToSet(dirs))
    BY <1>0, <2>2 DEF Once
  <2>. QED
    BY <1>2, <2>1, <2>3
<1>4. ASSUME NEW u \in Transfers, ConnectFails(u) \/ SourceFails(u)
      PROVE  OnceOf(t)'
  <2>1. /\ wire' = wire /\ sent' = sent
        /\ pc'[t] = pc[t] \/ pc'[t] = "Over"
    BY <1>0, <1>4 DEF ConnectFails, SourceFails, GiveUp, linkVars, ShownType
  <2>2. Once(t, pc'[t], sent[t], wire[Conn(t)], receiving, ToSet(dirs))
    BY <1>0, <2>1, OnceSame
  <2>. QED
    BY <1>2, <2>1, <2>2
<1>5. ASSUME NEW c \in Conns, LinkDown(c) PROVE OnceOf(t)'
  <2>1. PICK n \in 0..Len(wire[c]) :
          wire' = [wire EXCEPT ![c] = SubSeq(wire[c], 1, n)]
    BY <1>5 DEF LinkDown
  <2>2. /\ pc' = pc /\ sent' = sent /\ wire'[c] = SubSeq(wire[c], 1, n)
        /\ Conn(t) # c => wire'[Conn(t)] = wire[Conn(t)]
    BY <1>0, <1>5, <2>1 DEF LinkDown, senderVars, WireInv
  <2>3. CASE Conn(t) = c
    <3>1. PICK T : wire[c] \in Seq(T)
      BY <1>0, WireIsSeq
    <3>2. Once(t, pc[t], sent[t], SubSeq(wire[c], 1, n), receiving, ToSet(dirs))
      BY <1>0, <2>3, <3>1, OnceCut
    <3>. QED
      BY <1>2, <2>2, <2>3, <3>2
  <2>4. CASE Conn(t) # c
    BY <1>0, <1>2, <2>2, <2>4
  <2>. QED
    BY <2>3, <2>4
<1>6. ASSUME NEW c \in Conns, WriteFails(c) PROVE OnceOf(t)'
  <2>1. /\ pc' = pc /\ sent' = sent /\ wire[c] # <<>>
        /\ wire'[c] = Tail(wire[c])
        /\ Conn(t) # c => wire'[Conn(t)] = wire[Conn(t)]
    BY <1>0, <1>6 DEF WriteFails, Reads, Read, senderVars, WireInv
  <2>2. CASE Conn(t) = c
    <3>1. PICK T : wire[c] \in Seq(T)
      BY <1>0, WireIsSeq
    <3>2. Once(t, pc[t], sent[t], Tail(wire[c]), receiving, ToSet(dirs))
      BY <1>0, <2>1, <2>2, <3>1, OnceRead
    <3>. QED
      BY <1>2, <2>1, <2>2, <3>2
  <2>3. CASE Conn(t) # c
    BY <1>0, <1>2, <2>1, <2>3
  <2>. QED
    BY <2>2, <2>3
<1>. QED
  BY <1>3, <1>4, <1>5, <1>6 DEF Fault

TypeInv == (\A t \in Transfers : OnceOf(t)) /\ OtherTypes

SetsType ==
  /\ sent_log \cup unlinked \cup failed \cup refused \cup damaged \cup swept
       \subseteq Transfers
  /\ lost \subseteq Conns
  /\ file_transfer_enabled \in BOOLEAN
  /\ clipboard \in Transfers \cup {None}

DiskType ==
  /\ current = [t \in Transfers |-> current[t]]
  /\ \A t \in Transfers :
       current[t] \in 0..Len(Chunks[t]) /\ stored[t] \subseteq AllChunks(t)
  /\ dirs \in Seq(Transfers) /\ IsInjective(dirs)

WireFits == \A c \in Conns : Len(wire[c]) <= WireCap

\* The transfer of the message that is read, and what is known of it.
LEMMA HeadFacts ==
  ASSUME ShownInv, TypeInv, NEW c \in Conns, wire[c] # <<>>,
         NEW m, m = Head(wire[c])
  PROVE  /\ m.transfer \in Transfers /\ Conn(m.transfer) = c
         /\ m.kind = "Chunk" => m.chunk \in AllChunks(m.transfer)
         /\ m.kind = "Offer" => m.transfer \notin ToSet(dirs)
<1>1. PICK t : t = m.transfer
  OBVIOUS
<1>2. t \in Transfers /\ Conn(t) = c
  BY <1>1, ShorterCarries DEF ShownInv, WireInv, Belongs
<1>3. PICK T : wire[c] \in Seq(T)
  BY WireIsSeq DEF ShownInv
<1>4. Once(t, pc[t], sent[t], wire[c], receiving, ToSet(dirs))
  BY <1>2 DEF TypeInv, OnceOf
<1>5. IsMsg(m, "Chunk", t) => m.chunk \in AllChunks(t)
  BY <1>3, <1>4, OnceRead
<1>6. IsMsg(m, "Offer", t) => t \notin ToSet(dirs)
  <2>1. 1 \in 1..Len(wire[c]) /\ m = wire[c][1]
    BY <1>3, TailFacts
  <2>. QED
    BY <1>4, <2>1 DEF Once, Offering
<1>. QED
  BY <1>1, <1>2, <1>5, <1>6 DEF IsMsg

LEMMA NextSetsType ==
  ASSUME ShownInv, TypeInv, [Next]_vars
  PROVE  SetsType'
<1>0. /\ SetsType /\ dirs \in Seq(Transfers) /\ ToSet(Old) \subseteq Transfers
      /\ Background \subseteq Transfers
  BY OldFacts DEF TypeInv, OtherTypes, SetsType, Background
<1>h. ASSUME NEW c \in Conns, wire[c] # <<>>
      PROVE  Head(wire[c]).transfer \in Transfers
  BY <1>h, HeadFacts
<1>. USE DEF SetsType
<1>1. ASSUME NEW t \in Transfers, Start(t) \/ Sender(t) PROVE SetsType'
  <2>1. CASE Start(t) \/ Connect(t) \/ OpenChannel(t) \/ SendOffer(t) \/ SendChunk(t)
    BY <1>0, <2>1
    DEF Start, Connect, OpenChannel, SendOffer, SendChunk, receiverVars, histVars
  <2>2. CASE SendDone(t) \/ SendFails(t)
    BY <1>0, <2>2 DEF SendDone, SendFails, GiveUp, receiverVars, histVars
  <2>. QED
    BY <1>1, <2>1, <2>2 DEF Sender
<1>2. ASSUME NEW c \in Conns, Receiver(c) PROVE SetsType'
  <2>1. CASE c \in Background /\ FileChannelInit(c)
    BY <1>0, <2>1 DEF FileChannelInit, senderVars, receiverVars
  <2>2. CASE HandleOffer(c)
    <3>1. PICK t \in Transfers : t = Head(wire[c]).transfer
      BY <1>h, <2>2 DEF HandleOffer, Reads
    <3>2. /\ sent_log' = sent_log /\ failed' = failed /\ damaged' = damaged
          /\ lost' = lost /\ file_transfer_enabled' = file_transfer_enabled
          /\ clipboard' = clipboard
      BY <2>2 DEF HandleOffer, senderVars
    <3>3. refused' \cup unlinked' \cup swept' \subseteq Transfers
      BY <1>0, <2>2, <3>1 DEF HandleOffer, Offered, NotStaged, Cleaned, Newer
    <3>. QED
      BY <1>0, <3>2, <3>3
  <2>3. CASE HandleChunk(c)
    <3>1. /\ sent_log' = sent_log /\ failed' = failed /\ damaged' = damaged
          /\ lost' = lost /\ file_transfer_enabled' = file_transfer_enabled
          /\ clipboard' = clipboard /\ refused' = refused /\ swept' = swept
      BY <2>3 DEF HandleChunk, senderVars, histVars
    <3>2. unlinked' \subseteq unlinked
      BY <2>3 DEF HandleChunk, Written
    <3>. QED
      BY <1>0, <3>1, <3>2
  <2>4. CASE HandleDone(c)
    <3>1. PICK t \in Transfers : t = Head(wire[c]).transfer
      BY <1>h, <2>4 DEF HandleDone, Reads
    <3>. QED
      BY <1>0, <2>4, <3>1 DEF HandleDone, senderVars, histVars
  <2>5. CASE ReceiverEnds(c)
    BY <1>0, <2>5 DEF ReceiverEnds, senderVars, histVars
  <2>. QED
    BY <1>2, <2>1, <2>2, <2>3, <2>4, <2>5 DEF Receiver
<1>3. CASE SetFileTransfer
  BY <1>0, <1>3 DEF SetFileTransfer, senderVars, histVars
<1>4. CASE Fault
  <2>1. ASSUME NEW t \in Transfers,
               SourceShrinks(t) \/ ConnectFails(t) \/ SourceFails(t)
        PROVE  SetsType'
    BY <1>0, <2>1
    DEF SourceShrinks, ConnectFails, SourceFails, GiveUp, receiverVars
  <2>2. ASSUME NEW c \in Conns, LinkDown(c) PROVE SetsType'
    BY <1>0, <2>2 DEF LinkDown, senderVars, receiverVars
  <2>3. ASSUME NEW c \in Conns, WriteFails(c) PROVE SetsType'
    <3>1. Head(wire[c]).transfer \in Transfers
      BY <1>h, <2>3 DEF WriteFails, Reads
    <3>. QED
      BY <1>0, <2>3, <3>1 DEF WriteFails, senderVars, receiverVars
  <2>. QED
    BY <1>4, <2>1, <2>2, <2>3 DEF Fault
<1>5. CASE UNCHANGED vars
  BY <1>0, <1>5 DEF vars, senderVars, receiverVars, histVars
<1>. QED
  BY <1>1, <1>2, <1>3, <1>4, <1>5 DEF Next

LEMMA NextWireFits ==
  ASSUME ShownInv, WireFits, [Next]_vars
  PROVE  WireFits'
<1>0. /\ wire = [c \in Conns |-> wire[c]] /\ WireCap \in Nat \ {0}
      /\ \A c \in Conns : \E T : wire[c] \in Seq(T)
      /\ WireFits
  BY TransfersAssumption DEF ShownInv, WireInv, Carries
<1>s. ASSUME NEW c, NEW x, Len(x) <= WireCap, wire' = [wire EXCEPT ![c] = x]
      PROVE  WireFits'
  BY <1>0, <1>s DEF WireFits
<1>r. ASSUME NEW c \in Conns, wire[c] # <<>>, Read(c)
      PROVE  WireFits'
  <2>1. PICK T : wire[c] \in Seq(T)
    BY <1>0
  <2>2. Len(Tail(wire[c])) = Len(wire[c]) - 1 /\ Len(wire[c]) \in Nat
    BY <1>r, <2>1, TailFacts
  <2>3. Len(Tail(wire[c])) <= WireCap
    BY <1>0, <2>2 DEF WireFits
  <2>. QED
    BY <1>r, <1>s, <2>3 DEF Read
<1>p. ASSUME NEW c \in Conns, NEW m, Send(c, m) PROVE WireFits'
  <2>1. PICK T : wire[c] \in Seq(T) /\ m \in T
    BY WireIsSeq DEF ShownInv
  <2>2. Len(Append(wire[c], m)) = Len(wire[c]) + 1 /\ Len(wire[c]) \in Nat
    BY <2>1
  <2>3. Len(Append(wire[c], m)) <= WireCap
    BY <1>0, <1>p, <2>2 DEF Send
  <2>. QED
    BY <1>p, <1>s, <2>3 DEF Send
<1>1. ASSUME NEW t \in Transfers, Start(t) \/ Sender(t) PROVE WireFits'
  <2>1. CASE Start(t) \/ Connect(t) \/ SendFails(t)
    BY <1>0, <2>1 DEF Start, Connect, SendFails, GiveUp, linkVars, WireFits
  <2>2. CASE OpenChannel(t)
    <3>1. PICK m : m = Msg("Init", t, NoChunk)
      OBVIOUS
    <3>2. Len(<<m>>) <= WireCap
      BY <1>0
    <3>. QED
      BY <1>s, <2>2, <3>1, <3>2 DEF OpenChannel
  <2>3. CASE SendOffer(t)
    BY <1>p, <2>3, ConnFacts DEF SendOffer
  <2>4. CASE SendChunk(t)
    BY <1>p, <2>4, ConnFacts DEF SendChunk
  <2>5. CASE SendDone(t)
    BY <1>p, <2>5, ConnFacts DEF SendDone
  <2>. QED
    BY <1>1, <2>1, <2>2, <2>3, <2>4, <2>5 DEF Sender
<1>2. ASSUME NEW c \in Conns, Receiver(c) PROVE WireFits'
  <2>1. CASE HandleOffer(c) \/ HandleChunk(c) \/ HandleDone(c)
    BY <1>r, <2>1 DEF HandleOffer, HandleChunk, HandleDone, Reads
  <2>2. CASE FileChannelInit(c)
    <3>1. Len(<<>>) <= WireCap
      BY <1>0
    <3>. QED
      BY <1>r, <1>s, <2>2, <3>1 DEF FileChannelInit, Reads
  <2>3. CASE ReceiverEnds(c)
    BY <1>0, <2>3 DEF ReceiverEnds, WireFits
  <2>. QED
    BY <1>2, <2>1, <2>2, <2>3 DEF Receiver
<1>3. CASE SetFileTransfer
  BY <1>0, <1>3 DEF SetFileTransfer, linkVars, WireFits
<1>4. CASE Fault
  <2>1. ASSUME NEW t \in Transfers,
               SourceShrinks(t) \/ ConnectFails(t) \/ SourceFails(t)
        PROVE  WireFits'
    BY <1>0, <2>1
    DEF SourceShrinks, ConnectFails, SourceFails, GiveUp, linkVars, WireFits
  <2>2. ASSUME NEW c \in Conns, LinkDown(c) PROVE WireFits'
    <3>1. PICK n \in 0..Len(wire[c]) :
            wire' = [wire EXCEPT ![c] = SubSeq(wire[c], 1, n)]
      BY <2>2 DEF LinkDown
    <3>2. PICK T : wire[c] \in Seq(T)
      BY <1>0
    <3>3. Len(SubSeq(wire[c], 1, n)) = n /\ n <= Len(wire[c]) /\ Len(wire[c]) \in Nat
      BY <3>2
    <3>4. Len(SubSeq(wire[c], 1, n)) <= WireCap
      BY <1>0, <3>3 DEF WireFits
    <3>. QED
      BY <1>s, <3>1, <3>4
  <2>3. ASSUME NEW c \in Conns, WriteFails(c) PROVE WireFits'
    BY <1>r, <2>3 DEF WriteFails, Reads
  <2>. QED
    BY <1>4, <2>1, <2>2, <2>3 DEF Fault
<1>5. CASE UNCHANGED vars
  BY <1>0, <1>5 DEF vars, linkVars, WireFits
<1>. QED
  BY <1>1, <1>2, <1>3, <1>4, <1>5 DEF Next

LEMMA NextDiskType ==
  ASSUME ShownInv, TypeInv, WholeType, [Next]_vars
  PROVE  DiskType'
<1>0. DiskType /\ WholeType
  BY DEF TypeInv, OtherTypes, DiskType
<1>z. \A t \in Transfers : 0 \in 0..Len(Chunks[t])
  BY TransfersAssumption
<1>s. ASSUME current' = current, stored' = stored, dirs' = dirs
      PROVE  DiskType'
  BY <1>0, <1>s DEF DiskType
<1>1. ASSUME NEW t \in Transfers, Start(t) \/ Sender(t) PROVE DiskType'
  BY <1>1, <1>s
  DEF Start, Sender, Connect, OpenChannel, SendOffer, SendChunk,
      SendDone, SendFails, GiveUp, receiverVars
<1>2. ASSUME NEW c \in Conns, Receiver(c) PROVE DiskType'
  <2>1. CASE FileChannelInit(c)
    BY <1>s, <2>1 DEF FileChannelInit, receiverVars
  <2>2. CASE HandleOffer(c)
    <3>1. CASE c = Main /\ ~file_transfer_enabled
      BY <1>s, <2>2, <3>1 DEF HandleOffer
    <3>2. CASE ~(c = Main /\ ~file_transfer_enabled)
      <4>1. PICK t : t = Head(wire[c]).transfer
        OBVIOUS
      <4>2. (Offered(t) \/ NotStaged(t)) /\ wire[c] # <<>> /\ Head(wire[c]).kind = "Offer"
        BY <2>2, <3>2, <4>1 DEF HandleOffer, Reads
      <4>3. t \in Transfers /\ t \notin ToSet(dirs)
        BY <4>1, <4>2, HeadFacts
      <4>4. DirsOf(dirs', ToSet(dirs), t)
        BY <1>0, <4>2, <4>3, OfferedDirs
           DEF Offered, NotStaged, Cleaned, Newer, DiskType
      <4>5. current' = current /\ \A u \in Transfers : stored'[u] \subseteq stored[u]
        BY <4>2 DEF Offered, NotStaged, Cleaned
      <4>. QED
        BY <1>0, <4>4, <4>5 DEF DiskType, DirsOf
    <3>. QED
      BY <3>1, <3>2
  <2>3. CASE HandleChunk(c)
    <3>1. PICK t, x : t = Head(wire[c]).transfer /\ x = Head(wire[c]).chunk
      OBVIOUS
    <3>2. CASE t \in receiving
      <4>1. Written(t, x[1], x[2])
        BY <2>3, <3>1, <3>2 DEF HandleChunk
      <4>2. t \in Transfers /\ x \in AllChunks(t)
        BY <2>3, <3>1, HeadFacts DEF HandleChunk, Reads
      <4>3. x[1] \in 0..Len(Chunks[t]) /\ <<x[1], x[2]>> = x
        BY <4>2, ChunkFacts DEF Chunk
      <4>4. /\ current' = [u \in Transfers |-> current'[u]]
            /\ \A u \in Transfers : current'[u] \in 0..Len(Chunks[u])
        BY <1>0, <4>1, <4>2, <4>3 DEF Written, DiskType
      <4>5. \A u \in Transfers : stored'[u] \subseteq AllChunks(u)
        <5>1. PICK S : /\ S \subseteq stored[t] \cup {x}
                       /\ stored' = [stored EXCEPT ![t] = S]
          BY <4>1, <4>3 DEF Written
        <5>. QED
          BY <1>0, <4>2, <5>1 DEF DiskType, WholeType
      <4>6. dirs' \in Seq(Transfers) /\ IsInjective(dirs')
        <5>1. dirs' = dirs \/ dirs' = Touched(t)
          BY <4>1 DEF Written
        <5>. QED
          BY <1>0, <4>2, <5>1, TouchedDirs DEF DiskType, DirsOf
      <4>. QED
        BY <4>4, <4>5, <4>6 DEF DiskType
    <3>3. CASE t \notin receiving
      BY <1>s, <2>3, <3>1, <3>3 DEF HandleChunk
    <3>. QED
      BY <3>2, <3>3
  <2>4. CASE HandleDone(c) \/ ReceiverEnds(c)
    BY <1>0, <1>z, <2>4 DEF HandleDone, ReceiverEnds, DiskType
  <2>. QED
    BY <1>2, <2>1, <2>2, <2>3, <2>4 DEF Receiver
<1>3. CASE SetFileTransfer
  BY <1>3, <1>s DEF SetFileTransfer
<1>4. CASE Fault
  BY <1>4, <1>s
  DEF Fault, SourceShrinks, ConnectFails, SourceFails, GiveUp, LinkDown,
      WriteFails, receiverVars
<1>5. CASE UNCHANGED vars
  BY <1>5, <1>s DEF vars, receiverVars
<1>. QED
  BY <1>1, <1>2, <1>3, <1>4, <1>5 DEF Next

LEMMA InitTypeInv == Init => TypeInv
<1>. SUFFICES ASSUME Init PROVE TypeInv
  OBVIOUS
<1>1. ToSet(<<>>) = {} /\ <<>> \in Seq(Transfers) /\ IsInjective(<<>>)
  BY DEF ToSet, IsInjective
<1>2. ASSUME NEW t \in Transfers PROVE OnceOf(t)
  <2>1. /\ pc[t] = "Idle" /\ sent[t] = 0 /\ wire[Conn(t)] = <<>>
        /\ receiving = {} /\ ToSet(dirs) = {}
    BY <1>1, ConnFacts DEF Init
  <2>2. 0 \in 0..Len(ChunkList[t])
    BY ChunkFacts
  <2>. QED
    BY <2>1, <2>2, EmptyKeeps DEF OnceOf, Once
<1>3. OtherTypes
  <2>1. /\ sent_log \cup unlinked \cup failed \cup refused \cup damaged \cup swept
             \subseteq Transfers
        /\ lost \subseteq Conns /\ file_transfer_enabled \in BOOLEAN
        /\ clipboard \in Transfers \cup {None}
    BY DEF Init
  <2>2. \A c \in Conns : Len(wire[c]) <= WireCap
    <3>1. Len(<<>>) <= WireCap
      BY TransfersAssumption
    <3>. QED
      BY <3>1 DEF Init
  <2>3. \A t \in Transfers :
          current[t] \in 0..Len(Chunks[t]) /\ stored[t] \subseteq AllChunks(t)
    BY TransfersAssumption DEF Init
  <2>4. current = [t \in Transfers |-> current[t]]
    BY DEF Init
  <2>5. dirs \in Seq(Transfers) /\ IsInjective(dirs)
    BY <1>1 DEF Init
  <2>. QED
    BY <2>1, <2>2, <2>3, <2>4, <2>5 DEF OtherTypes
<1>. QED
  BY <1>2, <1>3 DEF TypeInv

\* The types, and that each transfer gets its directory once, are kept by every
\* step.
THEOREM TypeInvHolds == Spec => []TypeInv
<1>1. ASSUME ShownInv, WholeType, TypeInv, [Next]_vars PROVE TypeInv'
  <2>1. ASSUME NEW t \in Transfers PROVE OnceOf(t)'
    <3>1. OnceOf(t) /\ OtherTypes
      BY <1>1 DEF TypeInv
    <3>2. ASSUME NEW u \in Transfers, Start(u) \/ Sender(u) PROVE OnceOf(t)'
      BY <1>1, <3>1, <3>2, OnceNextSent
    <3>3. ASSUME NEW c \in Conns, Receiver(c) PROVE OnceOf(t)'
      BY <1>1, <3>1, <3>3, OnceNextHeard
    <3>4. CASE Fault
      BY <1>1, <3>1, <3>4, OnceNextFault
    <3>5. CASE SetFileTransfer \/ UNCHANGED vars
      BY <3>1, <3>5
      DEF OnceOf, SetFileTransfer, vars, senderVars, linkVars, receiverVars
    <3>. QED
      BY <1>1, <3>2, <3>3, <3>4, <3>5 DEF Next
  <2>2. SetsType' /\ DiskType'
    BY <1>1, NextSetsType, NextDiskType
  <2>3. WireFits'
    <3>1. WireFits
      BY <1>1 DEF TypeInv, OtherTypes, WireFits
    <3>. QED
      BY <1>1, <3>1, NextWireFits
  <2>4. OtherTypes'
    BY <2>2, <2>3 DEF OtherTypes, SetsType, DiskType, WireFits
  <2>. QED
    BY <2>1, <2>4 DEF TypeInv
<1>2. ShownInv /\ WholeInv => ShownInv /\ WholeType
  BY DEF WholeInv
<1>. QED
  BY <1>1, <1>2, InitTypeInv, WholeInvHolds, PTL DEF Spec

\* The variables have their types: what is sent stays within the transfer,
\* what is on the disk within its chunks, and no directory is listed twice
\* (file_transfer.rs and the staging directories of file_clipboard.rs).
THEOREM TypeCorrect == Spec => []TypeOK
<1>1. ShownInv /\ WholeInv /\ TypeInv => TypeOK
  <2>. SUFFICES ASSUME ShownInv, WholeInv, TypeInv PROVE TypeOK
    OBVIOUS
  <2>1. ShownType /\ WholeType /\ OtherTypes
    BY DEF ShownInv, WholeInv, TypeInv
  <2>2. \A t \in Transfers : sent[t] \in 0..Len(ChunkList[t])
    BY DEF TypeInv, OnceOf, Once
  <2>3. ToSet(dirs) \subseteq Transfers
    BY <2>1 DEF OtherTypes, ToSet
  <2>. QED
    BY <2>1, <2>2, <2>3 DEF TypeOK, ShownType, WholeType, OtherTypes
<1>. QED
  BY <1>1, WholeInvHolds, TypeInvHolds, PTL
=============================================================================
