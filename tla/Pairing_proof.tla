--------------------------- MODULE Pairing_proof ----------------------------
(***************************************************************************)
(* Proofs about Pairing, for any agents, any connections between them, any *)
(* settings and any number of faults.                                      *)
(***************************************************************************)
EXTENDS Pairing, SequenceTheorems, TLAPS

-----------------------------------------------------------------------------
(* The inductive invariant.  Some messages are proof of an acceptance:     *)
(* only an agent that accepted, or knows the other, sends them.            *)

Accepted == consent \cup unasked

Agreed(d) == {C(d), S(d)} \in Accepted

Proofs == {"PairAccepted", "FileTransferStatus"}

\* What may be under way on each connection.
allowed ==
  [d \in Dials |-> IF Agreed(d) THEN Messages
                   ELSE {m \in Messages : m.kind \notin Proofs}]

Queues(q, A) ==
  /\ q \in [Dials -> Seq(Messages)]
  /\ \A d \in Dials : q[d] \in Seq(A[d])

WiresInv ==
  Queues(toServer, allowed) /\ Queues(toClient, allowed) /\ Queues(queue, allowed)

\* Whom an agent stores it, or the other, accepted.
Trusted == \A a \in Agents : \A b \in known[a] : {a, b} \in Accepted

\* Where both have a terminal, nobody accepts unasked.
UnaskedInv == \A p \in unasked : ~(p \subseteq Asks)

EndsType ==
  /\ client \in [Dials -> ClientSteps] /\ server \in [Dials -> ServerSteps]
  /\ clientTls \in [Dials -> BOOLEAN] /\ serverTls \in [Dials -> BOOLEAN]
  /\ link \subseteq Dials /\ renamed \subseteq Dials
  /\ clientSaw \subseteq Dials /\ serverSaw \subseteq Dials

StoresType ==
  /\ known \in [Agents -> SUBSET Agents]
  /\ clientCopy \in [Dials -> SUBSET Agents]
  /\ serverCopy \in [Dials -> SUBSET Agents]
  /\ consent \subseteq SUBSET Agents /\ unasked \subseteq SUBSET Agents

\* What an agent stores, what a pairing function loaded, and how far an end
\* has come, all rest on an agreement.
StoresInv ==
  /\ Trusted
  /\ \A d \in Dials : \A b \in clientCopy[d] : {C(d), b} \in Accepted
  /\ \A d \in Dials : \A b \in serverCopy[d] : {S(d), b} \in Accepted

EndsInv ==
  \A d \in Dials :
    (client[d] = "Session" \/ server[d] \in {"Save", "Session"}) => Agreed(d)

ConsentInv ==
  /\ EndsType /\ StoresType /\ faults \in 0..MaxFaults
  /\ WiresInv /\ StoresInv /\ EndsInv /\ UnaskedInv

-----------------------------------------------------------------------------
(* Facts about messages and queues.                                        *)

\* The ends of a connection are two agents, in either order.
LEMMA EndsAreAgents ==
  ASSUME NEW d \in Dials
  PROVE  C(d) \in Agents /\ S(d) \in Agents /\ {S(d), C(d)} = {C(d), S(d)}
<1>1. {S(d), C(d)} = {C(d), S(d)}
  OBVIOUS
<1>. QED
  BY <1>1, PairingAssumption DEF C, S

\* Every message that is sent is one.
LEMMA MessagesType ==
  /\ \A k \in Kinds : Plain(k) \in Messages /\ Plain(k).kind = k
  /\ \A f \in BOOLEAN :
       /\ Msg("StartTls", f) \in Messages /\ Msg("StartTls", f).kind = "StartTls"
       /\ Msg("StartTlsAck", f) \in Messages
       /\ Msg("StartTlsAck", f).kind = "StartTlsAck"
  /\ Status = Plain("FileTransferStatus")
BY DEF Plain, Msg, Status, Kinds, Messages

\* What may be sent on a connection, and what a message of it proves.
LEMMA AllowedFacts ==
  ASSUME NEW d \in Dials
  PROVE  /\ allowed[d] \subseteq Messages
         /\ \A m \in Messages : m.kind \notin Proofs => m \in allowed[d]
         /\ Agreed(d) => allowed[d] = Messages
         /\ \A m \in allowed[d] : m.kind \in Proofs => Agreed(d)
BY DEF allowed

\* A queue of one message.
LEMMA OneMessage ==
  ASSUME NEW T, NEW m \in T
  PROVE  <<m>> \in Seq(T)
OBVIOUS

\* Queues stay within what is allowed when an allowed message is sent, queued
\* or alone on a new connection, ...
LEMMA SentIsAllowed ==
  ASSUME NEW A, NEW q, Queues(q, A), NEW d \in Dials,
         NEW m \in A[d], m \in Messages
  PROVE  /\ Queues([q EXCEPT ![d] = IF d \in link THEN @ \o <<m>> ELSE @], A)
         /\ Queues([q EXCEPT ![d] = <<m>>], A)
         /\ Queues([q EXCEPT ![d] = Append(@, m)], A)
<1>1. <<m>> \in Seq(Messages) /\ <<m>> \in Seq(A[d])
  BY OneMessage
<1>2. q[d] \o <<m>> \in Seq(Messages) /\ q[d] \o <<m>> \in Seq(A[d])
  BY <1>1, ConcatProperties DEF Queues
<1>3. Append(q[d], m) \in Seq(Messages) /\ Append(q[d], m) \in Seq(A[d])
  BY AppendProperties DEF Queues
<1>. QED
  BY <1>1, <1>2, <1>3 DEF Queues

\* ... when one is taken, ...
LEMMA TakenIsAllowed ==
  ASSUME NEW A, NEW q, Queues(q, A), NEW d \in Dials, q[d] # <<>>
  PROVE  /\ Queues([q EXCEPT ![d] = Tail(@)], A)
         /\ Head(q[d]) \in A[d] /\ Head(q[d]) \in Messages
<1>1. /\ Tail(q[d]) \in Seq(Messages) /\ Head(q[d]) \in Messages
      /\ Tail(q[d]) \in Seq(A[d]) /\ Head(q[d]) \in A[d]
  BY HeadTailProperties DEF Queues
<1>. QED
  BY <1>1 DEF Queues

\* ... when some are emptied, ...
LEMMA EmptiedIsAllowed ==
  ASSUME NEW A, NEW q, Queues(q, A), NEW ds
  PROVE  /\ Queues([d \in Dials |-> IF d \in ds THEN <<>> ELSE q[d]], A)
         /\ \A d \in Dials : Queues([q EXCEPT ![d] = <<>>], A)
<1>1. \A T : <<>> \in Seq(T)
  BY EmptySeq
<1>. QED
  BY <1>1 DEF Queues

\* ... and when more is allowed.
LEMMA AllowedGrows ==
  ASSUME NEW A, NEW B, \A d \in Dials : A[d] \subseteq B[d],
         NEW q, Queues(q, A)
  PROVE  Queues(q, B)
BY SeqMonotonic DEF Queues

\* The invariant gives the type invariant, and what the head of a queue is.
LEMMA InvTypes ==
  ASSUME ConsentInv
  PROVE  /\ TypeOK
         /\ \A d \in Dials : toServer[d] # <<>> => Head(toServer[d]) \in Messages
         /\ \A d \in Dials : toClient[d] # <<>> => Head(toClient[d]) \in Messages
<1>1. TypeOK
  BY DEF ConsentInv, EndsType, StoresType, WiresInv, Queues, TypeOK
<1>. QED
  BY <1>1, TakenIsAllowed DEF ConsentInv, WiresInv

\* Where the ends are.
LEMMA NextEndsType ==
  ASSUME ConsentInv, [Next]_vars
  PROVE  EndsType'
<1>. USE InvTypes DEF EndsType, ClientSteps, ServerSteps
<1>1. ASSUME NEW d \in Dials, ClientStep(d) PROVE EndsType'
  <2>1. CASE Dial(d)
    BY <2>1 DEF TypeOK, Dial
  <2>2. CASE ReceiveTlsAnswer(d)
    <3>. Head(toClient[d]).flag \in BOOLEAN
      BY <2>2 DEF ReceiveTlsAnswer, AtClient, Messages
    <3>. QED
      BY <2>2 DEF TypeOK, ReceiveTlsAnswer, history
  <2>3. CASE ClientIdentifies(d)
    BY <2>3 DEF TypeOK, ClientIdentifies, ClientEnters, history
  <2>4. CASE ClientPaired(d) \/ ClientTrusts(d)
    BY <2>4 DEF TypeOK, ClientPaired, ClientTrusts, ClientEnters, history
  <2>5. CASE ClientRefused(d) \/ ClientBails(d) \/ ClientEnds(d)
    BY <2>5 DEF TypeOK, ClientRefused, ClientBails, ClientEnds, ClientCloses,
                history
  <2>6. CASE ClientHandles(d)
    BY <2>6 DEF TypeOK, ClientHandles, ends
  <2>. QED
    BY <1>1, <2>1, <2>2, <2>3, <2>4, <2>5, <2>6 DEF ClientStep
<1>2. ASSUME NEW d \in Dials, ServerStep(d) PROVE EndsType'
  <2>1. CASE AnswerTls(d)
    <3>. Head(toServer[d]).flag \in BOOLEAN
      BY <2>1 DEF AnswerTls, AtServer, Messages
    <3>. QED
      BY <2>1 DEF TypeOK, AnswerTls, history
  <2>2. CASE ServerIdentifies(d)
    BY <2>2 DEF TypeOK, ServerIdentifies, ServerEnters, history
  <2>3. CASE Ask(d) \/ Accept(d)
    BY <2>3 DEF TypeOK, Ask, Accept, history
  <2>4. CASE ServerSaves(d) \/ ServerTrusts(d)
    BY <2>4 DEF TypeOK, ServerSaves, ServerTrusts, ServerEnters, history
  <2>5. CASE Refuse(d) \/ ServerEnds(d)
    BY <2>5 DEF TypeOK, Refuse, ServerEnds, ServerCloses, history
  <2>6. CASE ServerHandles(d)
    BY <2>6 DEF TypeOK, ServerHandles, ends
  <2>. QED
    BY <1>2, <2>1, <2>2, <2>3, <2>4, <2>5, <2>6 DEF ServerStep
<1>3. ASSUME NEW d \in Dials, ServerSends(d) PROVE EndsType'
  BY <1>3 DEF TypeOK, ServerSends, ends, history
<1>4. ASSUME NEW d \in Dials, ClientCannotSave(d) \/ LinkBreaks(d)
      PROVE  EndsType'
  BY <1>4 DEF TypeOK, ClientCannotSave, LinkBreaks, ClientCloses, ends, history
<1>5. ASSUME NEW a \in Agents, Rename(a) \/ Crash(a) PROVE EndsType'
  BY <1>5 DEF TypeOK, Rename, Crash, ends, history
<1>6. CASE UNCHANGED vars
  BY <1>6 DEF TypeOK, vars, ends, wires, history
<1>. QED
  BY <1>1, <1>2, <1>3, <1>4, <1>5, <1>6 DEF Next

\* The store, its copies and the agreements.
LEMMA NextStoresType ==
  ASSUME ConsentInv, [Next]_vars
  PROVE  StoresType'
<1>. USE InvTypes DEF StoresType
<1>1. ASSUME NEW d \in Dials, ClientStep(d) PROVE StoresType'
  <2>. C(d) \in Agents /\ S(d) \in Agents
    BY EndsAreAgents
  <2>1. CASE Dial(d) \/ ReceiveTlsAnswer(d)
    BY <2>1 DEF TypeOK, Dial, ReceiveTlsAnswer, history
  <2>2. CASE ClientIdentifies(d)
    BY <2>2 DEF TypeOK, ClientIdentifies, ClientEnters, history
  <2>3. CASE ClientPaired(d) \/ ClientTrusts(d)
    <3>1. clientCopy[d] \cup {S(d)} \in SUBSET Agents
      BY DEF TypeOK
    <3>2. \/ known' = [known EXCEPT ![C(d)] = clientCopy[d] \cup {S(d)}]
          \/ known' = known
      BY <2>3 DEF ClientPaired, ClientTrusts
    <3>3. known' \in [Agents -> SUBSET Agents]
      BY <3>1, <3>2 DEF TypeOK
    <3>. QED
      BY <2>3, <3>3 DEF TypeOK, ClientPaired, ClientTrusts, ClientEnters, history
  <2>4. CASE ClientRefused(d) \/ ClientBails(d) \/ ClientEnds(d)
    BY <2>4 DEF TypeOK, ClientRefused, ClientBails, ClientEnds, ClientCloses,
                history
  <2>5. CASE ClientHandles(d)
    BY <2>5 DEF TypeOK, ClientHandles, ends
  <2>. QED
    BY <1>1, <2>1, <2>2, <2>3, <2>4, <2>5 DEF ClientStep
<1>2. ASSUME NEW d \in Dials, ServerStep(d) PROVE StoresType'
  <2>. C(d) \in Agents /\ S(d) \in Agents
    BY EndsAreAgents
  <2>1. CASE AnswerTls(d) \/ Ask(d)
    BY <2>1 DEF TypeOK, AnswerTls, Ask, history
  <2>2. CASE ServerIdentifies(d)
    BY <2>2 DEF TypeOK, ServerIdentifies, ServerEnters, history
  <2>3. CASE Accept(d)
    BY <2>3 DEF TypeOK, Accept, PromptAccept
  <2>4. CASE ServerSaves(d) \/ ServerTrusts(d)
    <3>1. serverCopy[d] \cup {C(d)} \in SUBSET Agents
      BY DEF TypeOK
    <3>2. \/ known' = [known EXCEPT ![S(d)] = serverCopy[d] \cup {C(d)}]
          \/ known' = known
      BY <2>4 DEF ServerSaves, ServerTrusts, SaveServer
    <3>3. known' \in [Agents -> SUBSET Agents]
      BY <3>1, <3>2 DEF TypeOK
    <3>. QED
      BY <2>4, <3>3 DEF TypeOK, ServerSaves, ServerTrusts, ServerEnters, history
  <2>5. CASE Refuse(d) \/ ServerEnds(d)
    BY <2>5 DEF TypeOK, Refuse, ServerEnds, ServerCloses, history
  <2>6. CASE ServerHandles(d)
    BY <2>6 DEF TypeOK, ServerHandles, ends
  <2>. QED
    BY <1>2, <2>1, <2>2, <2>3, <2>4, <2>5, <2>6 DEF ServerStep
<1>3. ASSUME NEW d \in Dials, ServerSends(d) PROVE StoresType'
  BY <1>3 DEF TypeOK, ServerSends, ends, history
<1>4. ASSUME NEW d \in Dials, ClientCannotSave(d) \/ LinkBreaks(d)
      PROVE  StoresType'
  BY <1>4 DEF TypeOK, ClientCannotSave, LinkBreaks, ClientCloses, ends, history
<1>5. ASSUME NEW a \in Agents, Rename(a) \/ Crash(a) PROVE StoresType'
  BY <1>5 DEF TypeOK, Rename, Crash, ends, history
<1>6. CASE UNCHANGED vars
  BY <1>6 DEF TypeOK, vars, ends, wires, history
<1>. QED
  BY <1>1, <1>2, <1>3, <1>4, <1>5, <1>6 DEF Next

\* An acceptance is never undone.
LEMMA ConsentGrows ==
  ASSUME [Next]_vars
  PROVE  Accepted \subseteq Accepted'
BY DEF Accepted, PromptAccept, vars, Next, ClientStep, ServerStep, ServerSends,
       Dial, history, ReceiveTlsAnswer, ClientIdentifies, ClientPaired, ClientTrusts,
       ClientRefused, ClientBails, ClientHandles, ClientEnds, AnswerTls,
       ServerIdentifies, Ask, Accept, ServerSaves, Refuse, ServerTrusts,
       ServerHandles, ServerEnds, ClientCannotSave, LinkBreaks, Rename, Crash

\* What is sent proves an agreement only when there is one.
LEMMA NextWires ==
  ASSUME ConsentInv, [Next]_vars
  PROVE  WiresInv'
<1>. DEFINE Good(q) == Queues(q, allowed)
<1>0. Good(toServer) /\ Good(toClient) /\ Good(queue)
  BY DEF ConsentInv, WiresInv
<1>g. ASSUME NEW q, Good(q) PROVE Queues(q, allowed')
  <2>1. \A d \in Dials : allowed[d] \subseteq allowed'[d]
    BY ConsentGrows DEF allowed, Agreed
  <2>. QED
    BY <1>g, <2>1, AllowedGrows
<1>k. ASSUME NEW d \in Dials, NEW k \in Kinds, k \notin Proofs \/ Agreed(d)
      PROVE  Plain(k) \in allowed[d] /\ Plain(k) \in Messages
  BY <1>k, MessagesType, AllowedFacts
<1>s. ASSUME NEW d \in Dials, NEW m \in Messages, m \in allowed[d]
      PROVE  /\ Good(SendToServer(d, <<m>>)) /\ Good(SendToClient(d, <<m>>))
             /\ Good([queue EXCEPT ![d] = <<m>>])
             /\ Good([queue EXCEPT ![d] = Append(@, m)])
  BY <1>0, <1>s, SentIsAllowed DEF SendToServer, SendToClient
<1>t. ASSUME NEW d \in Dials
      PROVE  /\ (toServer[d] # <<>> /\ TakenAtServer(d)) => Good(toServer')
             /\ (toClient[d] # <<>> /\ TakenAtClient(d)) => Good(toClient')
  <2>1. ASSUME toServer[d] # <<>> PROVE Good([toServer EXCEPT ![d] = Tail(@)])
    BY <1>0, <2>1, TakenIsAllowed
  <2>2. ASSUME toClient[d] # <<>> PROVE Good([toClient EXCEPT ![d] = Tail(@)])
    BY <1>0, <2>2, TakenIsAllowed
  <2>. HIDE DEF Good
  <2>. QED
    BY <2>1, <2>2 DEF TakenAtServer, TakenAtClient
<1>w. ASSUME Good(toServer'), Good(toClient'), Good(queue') PROVE WiresInv'
  <2>1. Queues(toServer', allowed')
    BY <1>g, <1>w
  <2>2. Queues(toClient', allowed')
    BY <1>g, <1>w
  <2>3. Queues(queue', allowed')
    BY <1>g, <1>w
  <2>. QED
    BY <2>1, <2>2, <2>3 DEF WiresInv, Queues
<1>. HIDE DEF Good
<1>1. ASSUME NEW d \in Dials, ClientStep(d) PROVE WiresInv'
  <2>1. CASE Dial(d)
    <3>1. /\ Msg("StartTls", C(d) \in TlsOn) \in Messages
          /\ Msg("StartTls", C(d) \in TlsOn).kind = "StartTls"
      BY DEF Msg, Messages, Kinds
    <3>2. Msg("StartTls", C(d) \in TlsOn) \in allowed[d]
      BY <3>1, AllowedFacts DEF Proofs
    <3>3. /\ Good([toServer EXCEPT ![d] = <<Msg("StartTls", C(d) \in TlsOn)>>])
          /\ Good([toClient EXCEPT ![d] = <<>>])
      BY <1>0, <3>1, <3>2, SentIsAllowed, EmptiedIsAllowed DEF Good
    <3>. QED
      BY <1>0, <1>w, <2>1, <3>3 DEF Dial
  <2>2. CASE ReceiveTlsAnswer(d)
    <3>1. Good(SendToServer(d, <<Plain("Identity")>>))
      BY <1>k, <1>s DEF Kinds, Proofs
    <3>2. Good(toClient')
      BY <1>t, <2>2 DEF ReceiveTlsAnswer, AtClient
    <3>. QED
      BY <1>0, <1>w, <2>2, <3>1, <3>2 DEF ReceiveTlsAnswer
  <2>3. CASE ClientIdentifies(d)
    <3>1. Good(SendToServer(d, <<Plain("PairRequest")>>))
      BY <1>k, <1>s DEF Kinds, Proofs
    <3>2. ASSUME S(d) \in known[C(d)] PROVE Good(SendToServer(d, <<Status>>))
      <4>1. Agreed(d)
        BY <3>2, EndsAreAgents DEF ConsentInv, StoresInv, Trusted, Agreed
      <4>. QED
        BY <4>1, <1>k, <1>s, MessagesType DEF Kinds
    <3>3. Good(toClient')
      BY <1>t, <2>3 DEF ClientIdentifies, AtClient
    <3>. QED
      BY <1>0, <1>w, <2>3, <3>1, <3>2, <3>3 DEF ClientIdentifies, ClientEnters
  <2>4. CASE ClientPaired(d) \/ ClientTrusts(d)
    <3>1. Head(toClient[d]) \in allowed[d] /\ Head(toClient[d]).kind \in Proofs
      BY <1>0, <2>4, TakenIsAllowed
      DEF ClientPaired, ClientTrusts, AtClient, Proofs, Good
    <3>2. Good(SendToServer(d, <<Status>>))
      BY <3>1, <1>k, <1>s, AllowedFacts, MessagesType DEF Kinds
    <3>3. Good(toClient')
      BY <1>t, <2>4 DEF ClientPaired, ClientTrusts, AtClient
    <3>. QED
      BY <1>0, <1>w, <2>4, <3>2, <3>3 DEF ClientPaired, ClientTrusts, ClientEnters
  <2>5. CASE ClientRefused(d) \/ ClientBails(d)
    <3>1. Good(toClient')
      BY <1>t, <2>5 DEF ClientRefused, ClientBails, AtClient
    <3>. QED
      BY <1>0, <1>w, <2>5, <3>1 DEF ClientRefused, ClientBails
  <2>6. CASE ClientHandles(d) \/ ClientEnds(d)
    <3>1. Good(toClient')
      BY <1>0, <1>t, <2>6 DEF ClientHandles, ClientEnds
    <3>. QED
      BY <1>0, <1>w, <2>6, <3>1 DEF ClientHandles, ClientEnds
  <2>. QED
    BY <1>1, <2>1, <2>2, <2>3, <2>4, <2>5, <2>6 DEF ClientStep
<1>2. ASSUME NEW d \in Dials, ServerStep(d) PROVE WiresInv'
  <2>1. CASE AnswerTls(d)
    <3>. DEFINE m == Msg("StartTlsAck", Head(toServer[d]).flag /\ S(d) \in TlsOn)
    <3>1. m \in Messages /\ m.kind = "StartTlsAck"
      BY DEF Msg, Messages, Kinds
    <3>2. m \in allowed[d]
      BY <3>1, AllowedFacts DEF Proofs
    <3>. HIDE DEF m
    <3>3. Good(SendToClient(d, <<m>>))
      BY <1>s, <3>1, <3>2
    <3>4. Good(toServer')
      BY <1>t, <2>1 DEF AnswerTls, AtServer
    <3>. QED
      BY <1>0, <1>w, <2>1, <3>3, <3>4 DEF AnswerTls, m
  <2>2. CASE ServerIdentifies(d)
    <3>1. Good(SendToClient(d, <<Plain("Identity")>>))
      BY <1>k, <1>s DEF Kinds, Proofs
    <3>2. ASSUME C(d) \in known[S(d)]
          PROVE  Good([queue EXCEPT ![d] = <<Status>>])
      <4>1. Agreed(d)
        BY <3>2, EndsAreAgents DEF ConsentInv, StoresInv, Trusted, Agreed
      <4>. QED
        BY <4>1, <1>k, <1>s, MessagesType DEF Kinds
    <3>3. Good(toServer')
      BY <1>t, <2>2 DEF ServerIdentifies, AtServer
    <3>. QED
      BY <1>0, <1>w, <2>2, <3>1, <3>2, <3>3 DEF ServerIdentifies, ServerEnters
  <2>3. CASE Accept(d)
    <3>1. Agreed(d)'
      BY <2>3 DEF Accept, PromptAccept, Agreed, Accepted
    <3>2. Plain("PairAccepted") \in Messages
      BY MessagesType DEF Kinds
    <3>3. Plain("PairAccepted") \in allowed'[d]
      BY <3>1, <3>2 DEF allowed
    <3>4. Queues(toClient, allowed')
      BY <1>0, <1>g
    <3>5. Queues(SendToClient(d, <<Plain("PairAccepted")>>), allowed')
      BY <3>2, <3>3, <3>4, SentIsAllowed DEF SendToClient
    <3>6. Queues(toServer, allowed') /\ Queues(queue, allowed')
      BY <1>0, <1>g
    <3>. QED
      BY <2>3, <3>5, <3>6 DEF Accept, WiresInv, Queues
  <2>4. CASE Refuse(d)
    <3>1. Good(SendToClient(d, <<Plain("PairRejected")>>))
      BY <1>k, <1>s DEF Kinds, Proofs
    <3>2. Good(queue')
      BY <1>0, <2>4, EmptiedIsAllowed DEF Refuse, ServerCloses, Good
    <3>. QED
      BY <1>0, <1>w, <2>4, <3>1, <3>2 DEF Refuse
  <2>5. CASE Ask(d)
    <3>1. Good(toServer')
      BY <1>t, <2>5 DEF Ask, AtServer
    <3>. QED
      BY <1>0, <1>w, <2>5, <3>1 DEF Ask
  <2>6. CASE ServerSaves(d)
    <3>1. Good([queue EXCEPT ![d] = <<Status>>])
      BY <2>6, <1>k, <1>s, MessagesType
      DEF ServerSaves, Kinds, ConsentInv, EndsInv
    <3>. QED
      BY <1>0, <1>w, <2>6, <3>1 DEF ServerSaves, ServerEnters
  <2>7. CASE ServerTrusts(d)
    <3>1. Head(toServer[d]) \in allowed[d] /\ Head(toServer[d]).kind \in Proofs
      BY <1>0, <2>7, TakenIsAllowed DEF ServerTrusts, AtServer, Proofs, Good
    <3>2. Good([queue EXCEPT ![d] = <<Status>>])
      BY <3>1, <1>k, <1>s, AllowedFacts, MessagesType DEF Kinds
    <3>3. Good(toServer')
      BY <1>t, <2>7 DEF ServerTrusts, AtServer
    <3>. QED
      BY <1>0, <1>w, <2>7, <3>2, <3>3 DEF ServerTrusts, ServerEnters
  <2>8. CASE ServerHandles(d)
    <3>1. Good([queue EXCEPT ![d] = Append(@, Plain("PairAccepted"))])
      BY <2>8, <1>k, <1>s DEF ServerHandles, Kinds, ConsentInv, EndsInv
    <3>2. Good(toServer')
      BY <1>t, <2>8 DEF ServerHandles
    <3>. QED
      BY <1>0, <1>w, <2>8, <3>1, <3>2 DEF ServerHandles
  <2>9. CASE ServerEnds(d)
    <3>1. Good(queue')
      BY <1>0, <2>9, EmptiedIsAllowed DEF ServerEnds, ServerCloses, Good
    <3>. QED
      BY <1>0, <1>w, <2>9, <3>1 DEF ServerEnds
  <2>. QED
    BY <1>2, <2>1, <2>2, <2>3, <2>4, <2>5, <2>6, <2>7, <2>8, <2>9 DEF ServerStep
<1>3. ASSUME NEW d \in Dials, ServerSends(d) PROVE WiresInv'
  <2>1. CASE /\ queue[d] # <<>>
             /\ toClient' = SendToClient(d, <<Head(queue[d])>>)
             /\ queue' = [queue EXCEPT ![d] = Tail(@)]
             /\ UNCHANGED toServer
    <3>1. /\ Good([queue EXCEPT ![d] = Tail(@)])
          /\ Head(queue[d]) \in allowed[d] /\ Head(queue[d]) \in Messages
      BY <1>0, <2>1, TakenIsAllowed DEF Good
    <3>2. Good(SendToClient(d, <<Head(queue[d])>>))
      BY <1>s, <3>1
    <3>. QED
      BY <1>0, <1>w, <2>1, <3>1, <3>2
  <2>2. CASE /\ toClient' = SendToClient(d, <<Plain("IdentityUpdate")>>)
             /\ UNCHANGED <<toServer, queue>>
    <3>1. Good(SendToClient(d, <<Plain("IdentityUpdate")>>))
      BY <1>k, <1>s DEF Kinds, Proofs
    <3>. QED
      BY <1>0, <1>w, <2>2, <3>1
  <2>. QED
    BY <1>3, <2>1, <2>2 DEF ServerSends
<1>4. ASSUME NEW d \in Dials, ClientCannotSave(d) \/ LinkBreaks(d)
      PROVE  WiresInv'
  <2>1. Good(toClient')
    BY <1>0, <1>t, <1>4 DEF ClientCannotSave, LinkBreaks, AtClient
  <2>. QED
    BY <1>0, <1>w, <1>4, <2>1 DEF ClientCannotSave, LinkBreaks
<1>5. ASSUME NEW a \in Agents, Rename(a) PROVE WiresInv'
  <2>. DEFINE m == Plain("IdentityUpdate")
  <2>1. \A d \in Dials : m \in allowed[d] /\ m \in Messages
    BY <1>k DEF Kinds, Proofs
  <2>. HIDE DEF m
  <2>2. ASSUME NEW d \in Dials
        PROVE  /\ Append(toServer[d], m) \in Seq(Messages)
               /\ Append(toServer[d], m) \in Seq(allowed[d])
    BY <1>0, <2>1, AppendProperties DEF Good, Queues
  <2>3. Good(toServer')
    BY <1>0, <1>5, <2>2 DEF Rename, Good, Queues, m
  <2>. QED
    BY <1>0, <1>w, <1>5, <2>3 DEF Rename
<1>6. ASSUME NEW a \in Agents, Crash(a) PROVE WiresInv'
  <2>1. queue' = [d \in Dials |->
                   IF d \in {e \in Dials : S(e) = a} THEN <<>> ELSE queue[d]]
    BY <1>6 DEF Crash
  <2>2. Good(queue')
    BY <1>0, <2>1, EmptiedIsAllowed DEF Good
  <2>. QED
    BY <1>0, <1>w, <1>6, <2>2 DEF Crash
<1>7. CASE UNCHANGED vars
  BY <1>0, <1>w, <1>7 DEF vars, wires
<1>. QED
  BY <1>1, <1>2, <1>3, <1>4, <1>5, <1>6, <1>7 DEF Next

\* Stores and copies rest on agreements.
LEMMA NextStores ==
  ASSUME ConsentInv, [Next]_vars
  PROVE  StoresInv'
<1>. USE DEF StoresInv, Accepted
<1>0. TypeOK /\ StoresInv
  BY InvTypes DEF ConsentInv
<1>1. ASSUME NEW d \in Dials,
             \/ toServer[d] # <<>> /\ Head(toServer[d]).kind \in Proofs
             \/ toClient[d] # <<>> /\ Head(toClient[d]).kind \in Proofs
             \/ server[d] = "Save"
      PROVE  Agreed(d)
  BY <1>1, TakenIsAllowed, AllowedFacts DEF ConsentInv, WiresInv, EndsInv
<1>2. CASE /\ UNCHANGED <<known, consent, unasked>>
           /\ \A d \in Dials : /\ clientCopy'[d] \in {{}, clientCopy[d]}
                              /\ serverCopy'[d] \in {{}, serverCopy[d]}
  BY <1>0, <1>2 DEF Trusted
<1>3. ASSUME NEW d \in Dials, ClientStep(d) PROVE StoresInv'
  <2>1. CASE \/ Dial(d) \/ ReceiveTlsAnswer(d) \/ ClientHandles(d)
             \/ ClientRefused(d) \/ ClientBails(d) \/ ClientEnds(d)
    BY <1>0, <1>2, <2>1
    DEF Dial, ReceiveTlsAnswer, ClientHandles, ClientRefused, ClientBails,
        ClientEnds, ClientCloses, ends, history, TypeOK
  <2>2. CASE ClientIdentifies(d)
    <3>1. /\ UNCHANGED <<known, serverCopy, consent, unasked>>
          /\ \/ clientCopy' = [clientCopy EXCEPT ![d] = {}]
             \/ clientCopy' = [clientCopy EXCEPT ![d] = known[C(d)]]
      BY <2>2 DEF ClientIdentifies, ClientEnters, history
    <3>2. \A b \in known[C(d)] : {C(d), b} \in Accepted
      BY <1>0, EndsAreAgents DEF Trusted
    <3>. QED
      BY <1>0, <3>1, <3>2 DEF Trusted, TypeOK
  <2>3. CASE ClientPaired(d) \/ ClientTrusts(d)
    <3>1. Agreed(d)
      BY <1>1, <2>3 DEF ClientPaired, ClientTrusts, AtClient, Proofs
    <3>2. /\ UNCHANGED <<serverCopy, consent, unasked>>
          /\ clientCopy' = [clientCopy EXCEPT ![d] = {}]
          /\ \/ known' = [known EXCEPT ![C(d)] = clientCopy[d] \cup {S(d)}]
             \/ known' = known
      BY <2>3 DEF ClientPaired, ClientTrusts, ClientEnters, history
    <3>3. \A b \in clientCopy[d] \cup {S(d)} : {C(d), b} \in Accepted
      BY <1>0, <3>1 DEF Agreed
    <3>4. Trusted'
      BY <1>0, <3>2, <3>3 DEF Trusted, TypeOK
    <3>. QED
      BY <1>0, <3>2, <3>4 DEF TypeOK
  <2>. QED
    BY <1>3, <2>1, <2>2, <2>3 DEF ClientStep
<1>4. ASSUME NEW d \in Dials, ServerStep(d) PROVE StoresInv'
  <2>1. CASE \/ AnswerTls(d) \/ Ask(d) \/ ServerHandles(d) \/ Refuse(d)
             \/ ServerEnds(d)
    BY <1>0, <1>2, <2>1
    DEF AnswerTls, Ask, ServerHandles, Refuse, ServerEnds, ServerCloses, ends,
        history, TypeOK
  <2>2. CASE ServerIdentifies(d)
    <3>1. /\ UNCHANGED <<known, clientCopy, consent, unasked>>
          /\ \/ serverCopy' = [serverCopy EXCEPT ![d] = {}]
             \/ serverCopy' = [serverCopy EXCEPT ![d] = known[S(d)]]
      BY <2>2 DEF ServerIdentifies, ServerEnters, history
    <3>2. \A b \in known[S(d)] : {S(d), b} \in Accepted
      BY <1>0, EndsAreAgents DEF Trusted
    <3>. QED
      BY <1>0, <3>1, <3>2 DEF Trusted, TypeOK
  <2>3. CASE Accept(d)
    <3>1. /\ UNCHANGED <<known, clientCopy, serverCopy>>
          /\ Accepted \subseteq Accepted'
      BY <2>3 DEF Accept, PromptAccept
    <3>. QED
      BY <1>0, <3>1 DEF Trusted
  <2>4. CASE ServerSaves(d) \/ ServerTrusts(d)
    <3>1. Agreed(d)
      <4>1. CASE ServerSaves(d)
        BY <1>1, <4>1 DEF ServerSaves
      <4>2. CASE ServerTrusts(d)
        BY <1>1, <4>2 DEF ServerTrusts, AtServer, Proofs
      <4>. QED
        BY <2>4, <4>1, <4>2
    <3>2. /\ UNCHANGED <<clientCopy, consent, unasked>>
          /\ serverCopy' = [serverCopy EXCEPT ![d] = {}]
          /\ \/ known' = [known EXCEPT ![S(d)] = serverCopy[d] \cup {C(d)}]
             \/ known' = known
      BY <2>4 DEF ServerSaves, ServerTrusts, ServerEnters, SaveServer, history
    <3>3. \A b \in serverCopy[d] \cup {C(d)} : {S(d), b} \in Accepted
      BY <1>0, <3>1, EndsAreAgents DEF Agreed
    <3>4. Trusted'
      BY <1>0, <3>2, <3>3 DEF Trusted, TypeOK
    <3>. QED
      BY <1>0, <3>2, <3>4 DEF TypeOK
  <2>. QED
    BY <1>4, <2>1, <2>2, <2>3, <2>4 DEF ServerStep
<1>5. ASSUME NEW d \in Dials,
             ServerSends(d) \/ ClientCannotSave(d) \/ LinkBreaks(d)
      PROVE  StoresInv'
  BY <1>0, <1>2, <1>5
  DEF ServerSends, ClientCannotSave, LinkBreaks, ClientCloses, ends, history,
      TypeOK
<1>6. ASSUME NEW a \in Agents, Rename(a) PROVE StoresInv'
  BY <1>0, <1>2, <1>6 DEF Rename, ends, history
<1>7. ASSUME NEW a \in Agents, Crash(a) PROVE StoresInv'
  <2>1. /\ UNCHANGED <<consent, unasked>>
        /\ known' = known \/ known' = [known EXCEPT ![a] = {}]
        /\ \A d \in Dials : /\ clientCopy'[d] \in {{}, clientCopy[d]}
                           /\ serverCopy'[d] \in {{}, serverCopy[d]}
    BY <1>7 DEF Crash, history
  <2>. QED
    BY <1>0, <2>1 DEF Trusted, TypeOK
<1>8. CASE UNCHANGED vars
  BY <1>0, <1>2, <1>8 DEF vars, ends, history
<1>. QED
  BY <1>3, <1>4, <1>5, <1>6, <1>7, <1>8 DEF Next

\* A session is entered on an agreement only.
LEMMA NextEnds ==
  ASSUME ConsentInv, [Next]_vars
  PROVE  EndsInv'
<1>0. TypeOK /\ EndsInv
  BY InvTypes DEF ConsentInv
<1>1. SUFFICES ASSUME NEW d \in Dials,
                      client'[d] = "Session" \/ server'[d] \in {"Save", "Session"}
               PROVE  Agreed(d)'
  BY DEF EndsInv
<1>2. Agreed(d) => Agreed(d)'
  BY ConsentGrows DEF Agreed
<1>3. CASE client[d] = "Session" \/ server[d] \in {"Save", "Session"}
  BY <1>0, <1>2, <1>3 DEF EndsInv
<1>4. CASE client[d] # "Session" /\ client'[d] = "Session"
  <2>1. ClientIdentifies(d) \/ ClientPaired(d) \/ ClientTrusts(d)
    <3>1. ASSUME NEW e \in Dials,
                 \/ Dial(e) \/ ReceiveTlsAnswer(e) \/ ClientHandles(e)
                 \/ ClientRefused(e) \/ ClientBails(e) \/ ClientEnds(e)
          PROVE  FALSE
      BY <1>0, <1>4, <3>1
      DEF Dial, ReceiveTlsAnswer, ClientHandles, ClientRefused, ClientBails,
          ClientEnds, ClientCloses, ends, TypeOK
    <3>2. ASSUME NEW e \in Dials,
                 ClientIdentifies(e) \/ ClientPaired(e) \/ ClientTrusts(e)
          PROVE  e = d
      BY <1>0, <1>4, <3>2
      DEF ClientIdentifies, ClientPaired, ClientTrusts, ClientEnters, TypeOK
    <3>3. ASSUME NEW e \in Dials, ServerStep(e) PROVE UNCHANGED client
      BY <3>3
      DEF ServerStep, AnswerTls, ServerIdentifies, Ask, Accept, ServerSaves,
          Refuse, ServerTrusts, ServerHandles, ServerEnds, ends
    <3>4. ASSUME NEW e \in Dials,
                 ServerSends(e) \/ ClientCannotSave(e) \/ LinkBreaks(e)
          PROVE  FALSE
      BY <1>4, <3>4
      DEF ServerSends, ClientCannotSave, LinkBreaks, ClientCloses, ends
    <3>5. ASSUME NEW a \in Agents, Rename(a) \/ Crash(a) PROVE FALSE
      BY <1>4, <3>5 DEF Rename, Crash, ends
    <3>6. CASE UNCHANGED vars
      BY <1>4, <3>6 DEF vars, ends
    <3>. QED
      BY <1>4, <3>1, <3>2, <3>3, <3>4, <3>5, <3>6 DEF Next, ClientStep
  <2>2. CASE ClientIdentifies(d)
    <3>1. S(d) \in known[C(d)]
      BY <1>0, <1>4, <2>2 DEF ClientIdentifies, TypeOK
    <3>. QED
      BY <1>2, <3>1, EndsAreAgents
      DEF ConsentInv, StoresInv, Trusted, Agreed
  <2>3. CASE ClientPaired(d) \/ ClientTrusts(d)
    <3>1. toClient[d] # <<>> /\ Head(toClient[d]).kind \in Proofs
      BY <2>3 DEF ClientPaired, ClientTrusts, AtClient, Proofs
    <3>2. Head(toClient[d]) \in allowed[d]
      BY <3>1, TakenIsAllowed DEF ConsentInv, WiresInv
    <3>. QED
      BY <1>2, <3>1, <3>2, AllowedFacts
  <2>. QED
    BY <2>1, <2>2, <2>3
<1>5. CASE server[d] \notin {"Save", "Session"} /\ server'[d] \in {"Save", "Session"}
  <2>1. ServerIdentifies(d) \/ Accept(d) \/ ServerTrusts(d)
    <3>1. ASSUME NEW e \in Dials,
                 \/ AnswerTls(e) \/ Ask(e) \/ Refuse(e) \/ ServerHandles(e)
                 \/ ServerEnds(e) \/ Dial(e)
          PROVE  FALSE
      BY <1>0, <1>5, <3>1
      DEF AnswerTls, Ask, Refuse, ServerHandles, ServerEnds, Dial, ServerCloses,
          ends, TypeOK
    <3>2. ASSUME NEW e \in Dials, ServerSaves(e) PROVE FALSE
      BY <1>0, <1>5, <3>2 DEF ServerSaves, ServerEnters, TypeOK
    <3>3. ASSUME NEW e \in Dials,
                 ServerIdentifies(e) \/ Accept(e) \/ ServerTrusts(e)
          PROVE  e = d
      BY <1>0, <1>5, <3>3
      DEF ServerIdentifies, Accept, ServerTrusts, ServerEnters, TypeOK
    <3>4. ASSUME NEW e \in Dials, ClientStep(e) PROVE UNCHANGED server
      BY <3>1, <3>4
      DEF ClientStep, ReceiveTlsAnswer, ClientIdentifies, ClientPaired,
          ClientTrusts, ClientRefused, ClientBails, ClientHandles, ClientEnds,
          ends
    <3>5. ASSUME NEW e \in Dials,
                 ServerSends(e) \/ ClientCannotSave(e) \/ LinkBreaks(e)
          PROVE  FALSE
      BY <1>5, <3>5 DEF ServerSends, ClientCannotSave, LinkBreaks, ends
    <3>6. ASSUME NEW a \in Agents, Rename(a) \/ Crash(a) PROVE FALSE
      BY <1>5, <3>6 DEF Rename, Crash, ends
    <3>7. CASE UNCHANGED vars
      BY <1>5, <3>7 DEF vars, ends
    <3>. QED
      BY <1>5, <3>1, <3>2, <3>3, <3>4, <3>5, <3>6, <3>7 DEF Next, ServerStep
  <2>2. CASE ServerIdentifies(d)
    <3>1. C(d) \in known[S(d)]
      BY <1>0, <1>5, <2>2 DEF ServerIdentifies, TypeOK
    <3>. QED
      BY <1>2, <3>1, EndsAreAgents
      DEF ConsentInv, StoresInv, Trusted, Agreed
  <2>3. CASE Accept(d)
    BY <2>3 DEF Accept, PromptAccept, Agreed, Accepted
  <2>4. CASE ServerTrusts(d)
    <3>1. toServer[d] # <<>> /\ Head(toServer[d]).kind \in Proofs
      BY <2>4 DEF ServerTrusts, AtServer, Proofs
    <3>2. Head(toServer[d]) \in allowed[d]
      BY <3>1, TakenIsAllowed DEF ConsentInv, WiresInv
    <3>. QED
      BY <1>2, <3>1, <3>2, AllowedFacts
  <2>. QED
    BY <2>1, <2>2, <2>3, <2>4
<1>. QED
  BY <1>1, <1>3, <1>4, <1>5

\* Only an agent without a terminal accepts by itself.
LEMMA NextUnasked ==
  ASSUME UnaskedInv, [Next]_vars
  PROVE  UnaskedInv'
<1>1. \/ UNCHANGED unasked
      \/ \E d \in Dials : /\ S(d) \notin Asks
                          /\ unasked' = unasked \cup {{C(d), S(d)}}
  BY DEF PromptAccept, vars, Next, ClientStep, ServerStep, ServerSends, Dial,
         history, ReceiveTlsAnswer, ClientIdentifies, ClientPaired, ClientTrusts,
         ClientRefused, ClientBails, ClientHandles, ClientEnds, AnswerTls,
         ServerIdentifies, Ask, Accept, ServerSaves, Refuse, ServerTrusts,
         ServerHandles, ServerEnds, ClientCannotSave, LinkBreaks, Rename, Crash
<1>. QED
  BY <1>1 DEF UnaskedInv

\* The bound on faults.
LEMMA NextFaults ==
  ASSUME faults \in 0..MaxFaults, [Next]_vars
  PROVE  faults' \in 0..MaxFaults
<1>1. faults' = faults \/ (faults < MaxFaults /\ faults' = faults + 1)
  BY DEF vars, Next, ClientStep, ServerStep, ServerSends, Dial,
         ReceiveTlsAnswer, ClientIdentifies, ClientPaired, ClientTrusts,
         ClientRefused, ClientBails, ClientHandles, ClientEnds, AnswerTls,
         ServerIdentifies, Ask, Accept, ServerSaves, Refuse, ServerTrusts,
         ServerHandles, ServerEnds, SaveServer, ClientCannotSave, LinkBreaks,
         Rename, Crash
<1>. QED
  BY <1>1, PairingAssumption

-----------------------------------------------------------------------------
(* The theorems.                                                           *)

\* The invariant holds at the start, where the only agreements are those of
\* the peers that know each other.
LEMMA InitConsentInv == Init => ConsentInv
<1>. SUFFICES ASSUME Init PROVE ConsentInv
  OBVIOUS
<1>1. StoresType
  BY PairingAssumption DEF Init, StoresType
<1>2. EndsType /\ faults \in 0..MaxFaults
  BY PairingAssumption DEF Init, EndsType, ClientSteps, ServerSteps
<1>3. WiresInv
  BY EmptySeq DEF Init, WiresInv, Queues
<1>4. Trusted
  <2>1. SUFFICES ASSUME NEW a \in Agents, NEW b \in Agents, <<a, b>> \in Paired
                 PROVE  {a, b} \in Accepted
    BY DEF Init, Trusted
  <2>. QED
    BY <2>1 DEF Init, Accepted
<1>5. StoresInv /\ EndsInv
  BY <1>4 DEF Init, StoresInv, EndsInv
<1>6. UnaskedInv
  BY DEF Init, UnaskedInv
<1>. QED
  BY <1>1, <1>2, <1>3, <1>5, <1>6 DEF ConsentInv

\* Every message, store, copy and end rests on an agreement, in every state.
THEOREM ConsentInvHolds == Spec => []ConsentInv
<1>1. ASSUME ConsentInv, [Next]_vars PROVE ConsentInv'
  BY <1>1, NextEndsType, NextStoresType, NextWires, NextStores, NextEnds,
     NextFaults, NextUnasked DEF ConsentInv
<1>. QED
  BY <1>1, InitConsentInv, PTL DEF Spec

\* Pairing is type correct.
THEOREM TypeCorrect == Spec => []TypeOK
<1>1. ConsentInv => TypeOK
  BY InvTypes
<1>. QED
  BY <1>1, ConsentInvHolds, PTL

\* An agent stores a peer only if the user of one of the two was asked and
\* accepted, or one of the two has no terminal and accepted by itself,
\* whatever connections, crashes and failed saves came in between: the two
\* functions that trust a peer without asking (client.rs:191, server.rs:252)
\* never trust one that no side accepted.
THEOREM TrustIsConsented == Spec => []TrustHasConsent
<1>1. ConsentInv => TrustHasConsent
  BY DEF ConsentInv, StoresInv, Trusted, Accepted, UnaskedInv, TrustHasConsent
<1>. QED
  BY <1>1, ConsentInvHolds, PTL

-----------------------------------------------------------------------------
(* Encryption.  Both ends decide by the same rule, each from its own        *)
(* setting and one message: StartTls tells the setting of the client,       *)
(* StartTlsAck the decision; and there is no StartTlsAck before the server  *)
(* has decided.                                                             *)

Both(d) == {C(d), S(d)} \subseteq TlsOn

\* What may be under way to the server, to the client and in the queue.
requests ==
  [d \in Dials |->
    {m \in Messages : m.kind = "StartTls" => (m.flag <=> C(d) \in TlsOn)}]

answers ==
  [d \in Dials |->
    {m \in Messages :
      m.kind = "StartTlsAck" => (server[d] # "Tls" /\ (m.flag <=> Both(d)))}]

sessionMessages == [d \in Dials |-> {m \in Messages : m.kind # "StartTlsAck"}]

\* An end that has left the negotiation has the common decision, and the client
\* does not leave it before the server.
DecidedInv ==
  \A d \in Dials :
    /\ client[d] \notin {"Closed", "Tls"} =>
         server[d] # "Tls" /\ (clientTls[d] <=> Both(d))
    /\ server[d] \notin {"Closed", "Tls"} => (serverTls[d] <=> Both(d))

RequestsInv == Queues(toServer, requests)
AnswersInv == Queues(toClient, answers)
QueueInv == Queues(queue, sessionMessages)

TlsInv == RequestsInv /\ AnswersInv /\ QueueInv /\ DecidedInv

-----------------------------------------------------------------------------
(* What a step does to each queue.                                         *)

Opening == {"StartTls", "StartTlsAck"}

\* A step takes one message at a server, or sends one of a client, at most; ...
ToServerStep ==
  \/ UNCHANGED toServer
  \/ \E d \in Dials : toServer[d] # <<>> /\ TakenAtServer(d)
  \/ \E d \in Dials, k \in Kinds \ Opening :
       toServer' = SendToServer(d, <<Plain(k)>>)
  \/ \E d \in Dials : Dial(d)
  \/ \E a \in Agents : Rename(a)

\* ... takes one message at a client, or sends one of a server, at most; ...
ToClientStep ==
  \/ UNCHANGED toClient
  \/ \E d \in Dials : toClient[d] # <<>> /\ TakenAtClient(d)
  \/ \E d \in Dials, k \in Kinds \ Opening :
       toClient' = SendToClient(d, <<Plain(k)>>)
  \/ \E d \in Dials : /\ queue[d] # <<>>
                      /\ toClient' = SendToClient(d, <<Head(queue[d])>>)
  \/ \E d \in Dials : AnswerTls(d) \/ Dial(d)

\* ... and an end that is past the negotiation was so before, with the same
\* decision, or decides now.
ClientPast(d) ==
  \/ client[d] \notin {"Closed", "Tls"} /\ clientTls'[d] = clientTls[d]
  \/ ReceiveTlsAnswer(d)

ServerPast(d) ==
  \/ server[d] \notin {"Closed", "Tls"} /\ serverTls'[d] = serverTls[d]
  \/ AnswerTls(d)

\* Messages other than those of the negotiation may be anywhere.
LEMMA PlainIsAllowed ==
  ASSUME NEW d \in Dials, NEW k \in Kinds \ Opening
  PROVE  /\ Plain(k) \in Messages /\ Plain(k) \in requests[d]
         /\ Plain(k) \in answers[d] /\ Plain(k) \in sessionMessages[d]
BY MessagesType DEF Opening, requests, answers, sessionMessages

\* A step takes one message at a server, or sends one of a client, at most.
LEMMA ToServerSteps ==
  ASSUME [Next]_vars
  PROVE  ToServerStep
<1>. USE DEF ToServerStep
<1>1. ASSUME NEW d \in Dials, ServerStep(d) PROVE ToServerStep
  BY <1>1
  DEF ServerStep, AnswerTls, ServerIdentifies, Ask, Accept, ServerSaves, Refuse,
      ServerTrusts, ServerHandles, ServerEnds, AtServer
<1>2. ASSUME NEW d \in Dials, ClientStep(d) PROVE ToServerStep
  <2>1. CASE ReceiveTlsAnswer(d)
    <3>1. toServer' = SendToServer(d, <<Plain("Identity")>>)
      BY <2>1 DEF ReceiveTlsAnswer
    <3>2. "Identity" \in Kinds \ Opening
      BY DEF Kinds, Opening
    <3>. QED
      BY <3>1, <3>2
  <2>2. CASE ClientIdentifies(d) \/ ClientPaired(d) \/ ClientTrusts(d)
    <3>1. \/ toServer' = SendToServer(d, <<Plain("PairRequest")>>)
          \/ toServer' = SendToServer(d, <<Plain("FileTransferStatus")>>)
      BY <2>2 DEF ClientIdentifies, ClientPaired, ClientTrusts, ClientEnters, Status
    <3>2. "PairRequest" \in Kinds \ Opening
          /\ "FileTransferStatus" \in Kinds \ Opening
      BY DEF Kinds, Opening
    <3>. QED
      BY <3>1, <3>2
  <2>3. CASE Dial(d)
    BY <2>3
  <2>4. CASE \/ ClientRefused(d) \/ ClientBails(d) \/ ClientHandles(d)
             \/ ClientEnds(d)
    BY <2>4 DEF ClientRefused, ClientBails, ClientHandles, ClientEnds
  <2>. QED
    BY <1>2, <2>1, <2>2, <2>3, <2>4 DEF ClientStep
<1>3. ASSUME NEW d \in Dials,
             ServerSends(d) \/ ClientCannotSave(d) \/ LinkBreaks(d)
      PROVE  ToServerStep
  BY <1>3 DEF ServerSends, ClientCannotSave, LinkBreaks
<1>4. ASSUME NEW a \in Agents, Rename(a) \/ Crash(a) PROVE ToServerStep
  BY <1>4 DEF Crash
<1>5. CASE UNCHANGED vars
  BY <1>5 DEF vars, wires
<1>. HIDE DEF ToServerStep
<1>. QED
  BY <1>1, <1>2, <1>3, <1>4, <1>5 DEF Next

\* A step takes one message at a client, or sends one of a server, at most.
LEMMA ToClientSteps ==
  ASSUME [Next]_vars
  PROVE  ToClientStep
<1>. USE DEF ToClientStep
<1>1. ASSUME NEW d \in Dials, ClientStep(d) PROVE ToClientStep
  BY <1>1
  DEF ClientStep, ReceiveTlsAnswer, ClientIdentifies, ClientPaired, ClientTrusts,
      ClientRefused, ClientBails, ClientHandles, ClientEnds, AtClient
<1>2. ASSUME NEW d \in Dials, NEW k \in Kinds \ Opening,
             toClient' = SendToClient(d, <<Plain(k)>>)
      PROVE  ToClientStep
  BY <1>2
<1>3. {"Identity", "PairAccepted", "PairRejected", "IdentityUpdate"}
        \subseteq Kinds \ Opening
  BY DEF Kinds, Opening
<1>4. ASSUME NEW d \in Dials, ServerStep(d) PROVE ToClientStep
  <2>1. CASE ServerIdentifies(d)
    BY <1>2, <1>3, <2>1 DEF ServerIdentifies
  <2>2. CASE Accept(d)
    BY <1>2, <1>3, <2>2 DEF Accept
  <2>3. CASE Refuse(d)
    BY <1>2, <1>3, <2>3 DEF Refuse
  <2>4. CASE AnswerTls(d)
    BY <2>4
  <2>5. CASE \/ Ask(d) \/ ServerSaves(d) \/ ServerTrusts(d) \/ ServerHandles(d)
             \/ ServerEnds(d)
    BY <2>5 DEF Ask, ServerSaves, ServerTrusts, ServerHandles, ServerEnds
  <2>. QED
    BY <1>4, <2>1, <2>2, <2>3, <2>4, <2>5 DEF ServerStep
<1>5. ASSUME NEW d \in Dials, ServerSends(d) PROVE ToClientStep
  BY <1>2, <1>3, <1>5 DEF ServerSends
<1>6. ASSUME NEW d \in Dials, ClientCannotSave(d) \/ LinkBreaks(d) PROVE ToClientStep
  BY <1>6 DEF ClientCannotSave, LinkBreaks, AtClient
<1>7. ASSUME NEW a \in Agents, Rename(a) \/ Crash(a) PROVE ToClientStep
  BY <1>7 DEF Rename, Crash
<1>8. CASE UNCHANGED vars
  BY <1>8 DEF vars, wires
<1>. HIDE DEF ToClientStep
<1>. QED
  BY <1>1, <1>4, <1>5, <1>6, <1>7, <1>8 DEF Next

-----------------------------------------------------------------------------
(* The parts of the invariant, one after the other.                        *)

\* Only Dial sends a StartTls, with the setting of the client.
LEMMA NextRequests ==
  ASSUME RequestsInv, [Next]_vars
  PROVE  RequestsInv'
<1>1. ASSUME NEW d \in Dials, toServer[d] # <<>>, TakenAtServer(d)
      PROVE  RequestsInv'
  BY <1>1, TakenIsAllowed DEF RequestsInv, TakenAtServer, requests
<1>2. ASSUME NEW d \in Dials, NEW k \in Kinds \ Opening,
             toServer' = SendToServer(d, <<Plain(k)>>)
      PROVE  RequestsInv'
  BY <1>2, PlainIsAllowed, SentIsAllowed DEF RequestsInv, SendToServer, requests
<1>3. ASSUME NEW d \in Dials, Dial(d) PROVE RequestsInv'
  <2>. DEFINE m == Msg("StartTls", C(d) \in TlsOn)
  <2>1. m \in Messages /\ m.flag = (C(d) \in TlsOn)
    BY DEF Msg, Messages, Kinds
  <2>2. m \in requests[d]
    BY <2>1, Zenon DEF requests
  <2>. HIDE DEF m
  <2>3. Queues([toServer EXCEPT ![d] = <<m>>], requests)
    BY <2>1, <2>2, SentIsAllowed DEF RequestsInv
  <2>. QED
    BY <1>3, <2>3 DEF Dial, RequestsInv, m, requests
<1>4. ASSUME NEW a \in Agents, Rename(a) PROVE RequestsInv'
  <2>. DEFINE m == Plain("IdentityUpdate")
  <2>1. \A d \in Dials : m \in requests[d] /\ m \in Messages
    BY PlainIsAllowed DEF Kinds, Opening
  <2>. HIDE DEF m
  <2>2. ASSUME NEW d \in Dials
        PROVE  /\ Append(toServer[d], m) \in Seq(Messages)
               /\ Append(toServer[d], m) \in Seq(requests[d])
    BY <2>1, AppendProperties DEF RequestsInv, Queues
  <2>3. Queues(toServer', requests)
    BY <1>4, <2>2 DEF Rename, Queues, RequestsInv, m
  <2>. QED
    BY <2>3 DEF RequestsInv, requests
<1>5. CASE UNCHANGED toServer
  BY <1>5 DEF RequestsInv, requests
<1>. QED
  BY <1>1, <1>2, <1>3, <1>4, <1>5, ToServerSteps DEF ToServerStep

\* No StartTlsAck is ever queued in a session.
LEMMA NextQueue ==
  ASSUME QueueInv, [Next]_vars
  PROVE  QueueInv'
<1>. DEFINE Good(q) == Queues(q, sessionMessages)
<1>0. Good(queue)
  BY DEF QueueInv
<1>a. {"FileTransferStatus", "PairAccepted"} \subseteq Kinds \ Opening
  BY DEF Kinds, Opening
<1>b. ASSUME NEW d \in Dials
      PROVE  /\ Good([queue EXCEPT ![d] = <<Status>>])
             /\ Good([queue EXCEPT ![d] = Append(@, Plain("PairAccepted"))])
             /\ queue[d] # <<>> => Good([queue EXCEPT ![d] = Tail(@)])
  BY <1>0, <1>a, PlainIsAllowed, SentIsAllowed, TakenIsAllowed DEF Status
<1>c. ASSUME NEW ds
      PROVE  Good([d \in Dials |-> IF d \in ds THEN <<>> ELSE queue[d]])
  BY <1>0, EmptiedIsAllowed
<1>w. ASSUME Good(queue') PROVE QueueInv'
  BY <1>w DEF QueueInv, sessionMessages
<1>. HIDE DEF Good
<1>1. ASSUME NEW d \in Dials, ClientStep(d) PROVE QueueInv'
  BY <1>0, <1>w, <1>1
  DEF ClientStep, Dial, ReceiveTlsAnswer, ClientIdentifies, ClientPaired,
      ClientTrusts, ClientRefused, ClientBails, ClientHandles, ClientEnds
<1>2. ASSUME NEW d \in Dials, ServerStep(d) PROVE QueueInv'
  <2>1. CASE AnswerTls(d) \/ Ask(d) \/ Accept(d)
    BY <1>0, <1>w, <2>1 DEF AnswerTls, Ask, Accept
  <2>2. CASE ServerIdentifies(d) \/ ServerSaves(d) \/ ServerTrusts(d)
    BY <1>0, <1>b, <1>w, <2>2
    DEF ServerIdentifies, ServerSaves, ServerTrusts, ServerEnters
  <2>3. CASE Refuse(d) \/ ServerEnds(d)
    <3>1. queue' = [e \in Dials |-> IF e \in {d} THEN <<>> ELSE queue[e]]
      BY <2>3 DEF Refuse, ServerEnds, ServerCloses
    <3>. QED
      BY <1>c, <1>w, <3>1
  <2>4. CASE ServerHandles(d)
    BY <1>0, <1>b, <1>w, <2>4 DEF ServerHandles
  <2>. QED
    BY <1>2, <2>1, <2>2, <2>3, <2>4 DEF ServerStep
<1>3. ASSUME NEW d \in Dials, ServerSends(d) PROVE QueueInv'
  BY <1>0, <1>b, <1>w, <1>3 DEF ServerSends
<1>4. ASSUME NEW d \in Dials, ClientCannotSave(d) \/ LinkBreaks(d)
      PROVE  QueueInv'
  BY <1>0, <1>w, <1>4 DEF ClientCannotSave, LinkBreaks
<1>5. ASSUME NEW a \in Agents, Rename(a) \/ Crash(a) PROVE QueueInv'
  <2>1. CASE Rename(a)
    BY <1>0, <1>w, <2>1 DEF Rename
  <2>2. CASE Crash(a)
    <3>1. queue' = [d \in Dials |->
                     IF d \in {e \in Dials : S(e) = a} THEN <<>> ELSE queue[d]]
      BY <2>2 DEF Crash
    <3>. QED
      BY <1>c, <1>w, <3>1
  <2>. QED
    BY <1>5, <2>1, <2>2
<1>6. CASE UNCHANGED vars
  BY <1>0, <1>w, <1>6 DEF vars, wires
<1>. QED
  BY <1>1, <1>2, <1>3, <1>4, <1>5, <1>6 DEF Next

\* A server comes to the negotiation by Dial only.
LEMMA ServerNegotiates ==
  ASSUME TypeOK, [Next]_vars, NEW d \in Dials, server'[d] = "Tls"
  PROVE  server[d] = "Tls" \/ Dial(d)
<1>1. ASSUME NEW e \in Dials, ClientStep(e) PROVE server[d] = "Tls" \/ Dial(d)
  BY <1>1
  DEF TypeOK, ClientStep, Dial, ReceiveTlsAnswer, ClientIdentifies, ClientPaired,
      ClientTrusts, ClientRefused, ClientBails, ClientHandles, ClientEnds, ends
<1>2. ASSUME NEW e \in Dials, ServerStep(e) PROVE server[d] = "Tls"
  BY <1>2
  DEF TypeOK, ServerStep, AnswerTls, ServerIdentifies, Ask, Accept, ServerSaves,
      Refuse, ServerTrusts, ServerHandles, ServerEnds, ServerEnters,
      ServerCloses, ends
<1>3. ASSUME NEW e \in Dials,
             ServerSends(e) \/ ClientCannotSave(e) \/ LinkBreaks(e)
      PROVE  server[d] = "Tls"
  BY <1>3 DEF ServerSends, ClientCannotSave, LinkBreaks, ends
<1>4. ASSUME NEW a \in Agents, Rename(a) \/ Crash(a) PROVE server[d] = "Tls"
  BY <1>4 DEF Rename, Crash, ends
<1>5. CASE UNCHANGED vars
  BY <1>5 DEF vars, ends
<1>. QED
  BY <1>1, <1>2, <1>3, <1>4, <1>5 DEF Next

\* A StartTlsAck is sent by AnswerTls only, with the common decision, and the
\* server has then left the negotiation.
LEMMA NextAnswers ==
  ASSUME TypeOK, TlsInv, [Next]_vars
  PROVE  AnswersInv'
<1>0. Queues(toClient, answers)
  BY DEF TlsInv, AnswersInv
<1>1. ASSUME NEW d \in Dials, Dial(d) PROVE AnswersInv'
  <2>1. \A e \in Dials : e # d => answers'[e] = answers[e]
    BY <1>1 DEF Dial, answers, TypeOK
  <2>2. toClient' = [toClient EXCEPT ![d] = <<>>]
    BY <1>1 DEF Dial
  <2>3. \A T : <<>> \in Seq(T)
    BY EmptySeq
  <2>. QED
    BY <1>0, <2>1, <2>2, <2>3 DEF AnswersInv, Queues
<1>2. SUFFICES ASSUME ~ \E d \in Dials : Dial(d) PROVE AnswersInv'
  BY <1>1
<1>3. \A d \in Dials : answers[d] \subseteq answers'[d]
  BY <1>2, ServerNegotiates DEF answers
<1>4. ASSUME Queues(toClient', answers) PROVE AnswersInv'
  <2>1. Queues(toClient', answers')
    BY <1>3, <1>4, AllowedGrows
  <2>. QED
    BY <2>1 DEF AnswersInv
<1>5. ASSUME NEW d \in Dials, toClient[d] # <<>>, TakenAtClient(d)
      PROVE  AnswersInv'
  BY <1>0, <1>4, <1>5, TakenIsAllowed DEF TakenAtClient
<1>6. ASSUME NEW d \in Dials, NEW m \in Messages, m \in answers[d],
             toClient' = SendToClient(d, <<m>>)
      PROVE  AnswersInv'
  BY <1>0, <1>4, <1>6, SentIsAllowed DEF SendToClient
<1>7. ASSUME NEW d \in Dials, queue[d] # <<>>,
             toClient' = SendToClient(d, <<Head(queue[d])>>)
      PROVE  AnswersInv'
  <2>1. Head(queue[d]) \in sessionMessages[d] /\ Head(queue[d]) \in Messages
    BY <1>7, TakenIsAllowed DEF TlsInv, QueueInv
  <2>2. Head(queue[d]) \in answers[d]
    BY <2>1 DEF sessionMessages, answers
  <2>. QED
    BY <1>6, <1>7, <2>1, <2>2
<1>8. ASSUME NEW d \in Dials, AnswerTls(d) PROVE AnswersInv'
  <2>. DEFINE m == Msg("StartTlsAck", Head(toServer[d]).flag /\ S(d) \in TlsOn)
  <2>1. Head(toServer[d]) \in requests[d] /\ Head(toServer[d]).kind = "StartTls"
    BY <1>8, TakenIsAllowed DEF AnswerTls, AtServer, TlsInv, RequestsInv
  <2>2. (Head(toServer[d]).flag /\ S(d) \in TlsOn) <=> Both(d)
    BY <2>1 DEF requests, Both
  <2>3. server'[d] # "Tls"
    BY <1>8 DEF AnswerTls, TypeOK
  <2>4. m \in Messages /\ m \in answers'[d]
    BY <2>2, <2>3 DEF Msg, Messages, Kinds, answers
  <2>. HIDE DEF m
  <2>5. Queues(toClient, answers')
    BY <1>0, <1>3, AllowedGrows
  <2>6. Queues(SendToClient(d, <<m>>), answers')
    BY <2>4, <2>5, SentIsAllowed DEF SendToClient
  <2>. QED
    BY <1>8, <2>6 DEF AnswerTls, AnswersInv, m
<1>9. CASE UNCHANGED toClient
  BY <1>0, <1>4, <1>9
<1>10. ASSUME NEW d \in Dials, NEW k \in Kinds \ Opening,
              toClient' = SendToClient(d, <<Plain(k)>>)
       PROVE  AnswersInv'
  BY <1>6, <1>10, PlainIsAllowed
<1>. QED
  BY <1>2, <1>5, <1>7, <1>8, <1>9, <1>10, ToClientSteps DEF ToClientStep

\* Where the client is: it leaves the negotiation by ReceiveTlsAnswer only.
LEMMA ClientDecides ==
  ASSUME TypeOK, [Next]_vars, NEW d \in Dials,
         client'[d] \notin {"Closed", "Tls"}
  PROVE  ClientPast(d)
<1>. USE DEF ClientPast
<1>1. ASSUME NEW e \in Dials, ClientStep(e) PROVE ClientPast(d)
  <2>1. CASE Dial(e)
    BY <2>1 DEF TypeOK, Dial
  <2>2. CASE ReceiveTlsAnswer(e)
    BY <2>2 DEF TypeOK, ReceiveTlsAnswer
  <2>3. CASE ClientIdentifies(e) \/ ClientPaired(e) \/ ClientTrusts(e)
    BY <2>3 DEF TypeOK, ClientIdentifies, ClientPaired, ClientTrusts,
                ClientEnters, AtClient
  <2>4. CASE ClientRefused(e) \/ ClientBails(e) \/ ClientEnds(e)
    BY <2>4 DEF TypeOK, ClientRefused, ClientBails, ClientEnds, ClientCloses
  <2>5. CASE ClientHandles(e)
    BY <2>5 DEF ClientHandles, ends
  <2>. QED
    BY <1>1, <2>1, <2>2, <2>3, <2>4, <2>5 DEF ClientStep
<1>2. ASSUME NEW e \in Dials, ServerStep(e) PROVE ClientPast(d)
  BY <1>2
  DEF ServerStep, AnswerTls, ServerIdentifies, Ask, Accept, ServerSaves, Refuse,
      ServerTrusts, ServerHandles, ServerEnds, ends
<1>3. ASSUME NEW e \in Dials,
             ServerSends(e) \/ ClientCannotSave(e) \/ LinkBreaks(e)
      PROVE  ClientPast(d)
  BY <1>3
  DEF TypeOK, ServerSends, ClientCannotSave, LinkBreaks, ClientCloses, ends
<1>4. ASSUME NEW a \in Agents, Rename(a) \/ Crash(a) PROVE ClientPast(d)
  BY <1>4 DEF Rename, Crash, ends
<1>5. CASE UNCHANGED vars
  BY <1>5 DEF vars, ends
<1>. HIDE DEF ClientPast
<1>. QED
  BY <1>1, <1>2, <1>3, <1>4, <1>5 DEF Next

\* ... and the server by AnswerTls only.
LEMMA ServerDecides ==
  ASSUME TypeOK, [Next]_vars, NEW d \in Dials,
         server'[d] \notin {"Closed", "Tls"}
  PROVE  ServerPast(d)
<1>. USE DEF ServerPast
<1>1. ASSUME NEW e \in Dials, ServerStep(e) PROVE ServerPast(d)
  <2>1. CASE AnswerTls(e)
    BY <2>1 DEF TypeOK, AnswerTls
  <2>2. CASE ServerIdentifies(e) \/ ServerSaves(e) \/ ServerTrusts(e)
    BY <2>2 DEF TypeOK, ServerIdentifies, ServerSaves, ServerTrusts,
                ServerEnters, AtServer
  <2>3. CASE Ask(e) \/ Accept(e)
    BY <2>3 DEF TypeOK, Ask, Accept, AtServer
  <2>4. CASE Refuse(e) \/ ServerEnds(e)
    BY <2>4 DEF TypeOK, Refuse, ServerEnds, ServerCloses
  <2>5. CASE ServerHandles(e)
    BY <2>5 DEF ServerHandles, ends
  <2>. QED
    BY <1>1, <2>1, <2>2, <2>3, <2>4, <2>5 DEF ServerStep
<1>2. ASSUME NEW e \in Dials, ClientStep(e) PROVE ServerPast(d)
  <2>1. CASE Dial(e)
    BY <2>1 DEF TypeOK, Dial
  <2>2. CASE ~Dial(e)
    BY <1>2, <2>2
    DEF ClientStep, ReceiveTlsAnswer, ClientIdentifies, ClientPaired,
        ClientTrusts, ClientRefused, ClientBails, ClientHandles, ClientEnds, ends
  <2>. QED
    BY <2>1, <2>2
<1>3. ASSUME NEW e \in Dials,
             ServerSends(e) \/ ClientCannotSave(e) \/ LinkBreaks(e)
      PROVE  ServerPast(d)
  BY <1>3 DEF ServerSends, ClientCannotSave, LinkBreaks, ends
<1>4. ASSUME NEW a \in Agents, Rename(a) \/ Crash(a) PROVE ServerPast(d)
  BY <1>4 DEF Rename, Crash, ends
<1>5. CASE UNCHANGED vars
  BY <1>5 DEF vars, ends
<1>. HIDE DEF ServerPast
<1>. QED
  BY <1>1, <1>2, <1>3, <1>4, <1>5 DEF Next

\* Both ends have the common decision once they have one.
LEMMA NextDecided ==
  ASSUME TypeOK, TlsInv, [Next]_vars
  PROVE  DecidedInv'
<1>0. DecidedInv
  BY DEF TlsInv
<1>1. SUFFICES ASSUME NEW d \in Dials
               PROVE  /\ client'[d] \notin {"Closed", "Tls"} =>
                           server'[d] # "Tls" /\ (clientTls'[d] <=> Both(d))
                      /\ server'[d] \notin {"Closed", "Tls"} =>
                           (serverTls'[d] <=> Both(d))
  BY DEF DecidedInv, Both
<1>2. ASSUME client'[d] \notin {"Closed", "Tls"}
      PROVE  server'[d] # "Tls" /\ (clientTls'[d] <=> Both(d))
  <2>1. server[d] # "Tls" /\ (clientTls'[d] <=> Both(d))
    <3>1. CASE client[d] \notin {"Closed", "Tls"} /\ clientTls'[d] = clientTls[d]
      BY <1>0, <3>1 DEF DecidedInv
    <3>2. CASE ReceiveTlsAnswer(d)
      <4>1. toClient[d] # <<>> /\ Head(toClient[d]).kind = "StartTlsAck"
        BY <3>2 DEF ReceiveTlsAnswer, AtClient
      <4>2. Head(toClient[d]) \in answers[d]
        BY <4>1, TakenIsAllowed DEF TlsInv, AnswersInv
      <4>3. server[d] # "Tls" /\ (Head(toClient[d]).flag <=> Both(d))
        BY <4>1, <4>2 DEF answers
      <4>4. clientTls'[d] = Head(toClient[d]).flag
        BY <3>2 DEF ReceiveTlsAnswer, TypeOK
      <4>. QED
        BY <4>3, <4>4
    <3>. QED
      BY <1>2, <3>1, <3>2, ClientDecides DEF ClientPast
  <2>2. ~Dial(d)
    BY <1>2 DEF Dial, TypeOK
  <2>. QED
    BY <2>1, <2>2, ServerNegotiates
<1>3. ASSUME server'[d] \notin {"Closed", "Tls"}
      PROVE  serverTls'[d] <=> Both(d)
  <2>1. CASE server[d] \notin {"Closed", "Tls"} /\ serverTls'[d] = serverTls[d]
    BY <1>0, <2>1 DEF DecidedInv
  <2>2. CASE AnswerTls(d)
    <3>1. toServer[d] # <<>> /\ Head(toServer[d]).kind = "StartTls"
      BY <2>2 DEF AnswerTls, AtServer
    <3>2. Head(toServer[d]) \in requests[d]
      BY <3>1, TakenIsAllowed DEF TlsInv, RequestsInv
    <3>3. (Head(toServer[d]).flag /\ S(d) \in TlsOn) <=> Both(d)
      BY <3>1, <3>2 DEF requests, Both
    <3>4. serverTls'[d] = (Head(toServer[d]).flag /\ S(d) \in TlsOn)
      BY <2>2 DEF AnswerTls, TypeOK
    <3>. QED
      BY <3>3, <3>4
  <2>. QED
    BY <1>3, <2>1, <2>2, ServerDecides DEF ServerPast
<1>. QED
  BY <1>2, <1>3

-----------------------------------------------------------------------------
(* The theorem.                                                            *)

\* The invariant holds before any connection is dialled.
LEMMA InitTlsInv == Init => TlsInv
<1>1. \A T : <<>> \in Seq(T)
  BY EmptySeq
<1>. QED
  BY <1>1 DEF Init, TlsInv, RequestsInv, AnswersInv, QueueInv, DecidedInv, Queues

\* Every message and end of a negotiation is as the settings of the two agents
\* have it, in every state.
THEOREM TlsInvHolds == Spec => []TlsInv
<1>1. ASSUME TypeOK, TlsInv, [Next]_vars PROVE TlsInv'
  BY <1>1, NextRequests, NextAnswers, NextQueue, NextDecided DEF TlsInv
<1>. QED
  BY <1>1, InitTlsInv, TypeCorrect, PTL DEF Spec

\* The two ends never disagree on whether the bytes between them are
\* encrypted (negotiate_tls, client.rs:89 and server.rs:100), whatever breaks and
\* however often the connection is dialled again.
THEOREM EndsAgreeOnTls == Spec => []EncryptionAgrees
<1>1. TypeOK /\ TlsInv => EncryptionAgrees
  <2>1. SUFFICES ASSUME TypeOK, TlsInv, NEW d \in Dials, server[d] # "Closed",
                        client[d] \notin {"Closed", "Tls"}
                 PROVE  /\ clientTls[d] = serverTls[d]
                        /\ clientTls[d] <=> Both(d)
    BY DEF EncryptionAgrees, Both
  <2>2. (clientTls[d] <=> Both(d)) /\ (serverTls[d] <=> Both(d))
    BY <2>1 DEF TlsInv, DecidedInv
  <2>3. clientTls[d] \in BOOLEAN /\ serverTls[d] \in BOOLEAN
    BY <2>1 DEF TypeOK
  <2>. QED
    BY <2>2, <2>3
<1>. QED
  BY <1>1, TlsInvHolds, TypeCorrect, PTL

-----------------------------------------------------------------------------
(* The status of file transfers.  Once an end is in its session, its status *)
(* is in its queue, under way or handled.                                   *)

Held(s) == \E i \in DOMAIN s : s[i] = Status

ServerTold(d) == d \in serverSaw \/ Held(toServer[d])
ClientTold(d) == d \in clientSaw \/ Held(queue[d]) \/ Held(toClient[d])

StatusInv ==
  \A d \in Dials : d \in link =>
    /\ client[d] = "Session" => ServerTold(d)
    /\ server[d] = "Session" => ClientTold(d)

\* What is held stays held when something is sent, and is the head or stays
\* when the head is taken.
LEMMA HeldFacts ==
  ASSUME NEW s \in Seq(Messages)
  PROVE  /\ \A m \in Messages : Held(s) => Held(s \o <<m>>)
         /\ Held(s \o <<Status>>) /\ Held(<<Status>>)
         /\ s # <<>> /\ Held(s) => Head(s) = Status \/ Held(Tail(s))
<1>0. Status \in Messages
  BY DEF Status, Plain, Msg, Messages, Kinds
<1>1. ASSUME NEW m \in Messages
      PROVE  /\ DOMAIN (s \o <<m>>) = 1..(Len(s) + 1)
             /\ (s \o <<m>>)[Len(s) + 1] = m
             /\ \A i \in DOMAIN s : i \in 1..(Len(s) + 1) /\ (s \o <<m>>)[i] = s[i]
  OBVIOUS
<1>2. \A m \in Messages : Held(s) => Held(s \o <<m>>)
  BY <1>1 DEF Held
<1>3. Held(s \o <<Status>>)
  <2>1. Len(s) + 1 \in 1..(Len(s) + 1)
    OBVIOUS
  <2>. QED
    BY <1>0, <1>1, <2>1 DEF Held
<1>4. Held(<<Status>>)
  BY DEF Held
<1>5. ASSUME s # <<>>, NEW i \in DOMAIN s, s[i] = Status
      PROVE  Head(s) = Status \/ Held(Tail(s))
  <2>1. CASE i = 1
    BY <1>5, <2>1
  <2>2. CASE i # 1
    <3>1. /\ i - 1 \in DOMAIN Tail(s) /\ Tail(s)[i - 1] = s[i]
      BY <1>5, <2>2
    <3>. QED
      BY <1>5, <3>1 DEF Held
  <2>. QED
    BY <2>1, <2>2
<1>. QED
  BY <1>2, <1>3, <1>4, <1>5 DEF Held

\* Only a new connection makes the server forget what the client has told it.
LEMMA ServerStaysTold ==
  ASSUME TypeOK, [Next]_vars, NEW d \in Dials, ~Dial(d), ServerTold(d)
  PROVE  ServerTold(d)'
<1>0. /\ toServer[d] \in Seq(Messages) /\ Status.kind = "FileTransferStatus"
      /\ \A k \in Kinds : Plain(k) \in Messages
  BY DEF TypeOK, Status, Plain, Msg, Messages
<1>1. ASSUME d \in serverSaw => d \in serverSaw', toServer'[d] = toServer[d]
      PROVE  ServerTold(d)'
  BY <1>1 DEF ServerTold
<1>2. ASSUME d \in serverSaw => d \in serverSaw',
             toServer[d] # <<>>, toServer'[d] = Tail(toServer[d]),
             Head(toServer[d]) = Status => d \in serverSaw'
      PROVE  ServerTold(d)'
  BY <1>0, <1>2, HeldFacts DEF ServerTold
<1>3. ASSUME d \in serverSaw => d \in serverSaw', NEW k \in Kinds,
             toServer'[d] = toServer[d] \o <<Plain(k)>>
      PROVE  ServerTold(d)'
  BY <1>0, <1>3, HeldFacts DEF ServerTold
<1>4. ASSUME NEW e \in Dials, ClientStep(e) PROVE ServerTold(d)'
  <2>1. CASE Dial(e)
    BY <1>1, <2>1 DEF Dial, TypeOK
  <2>2. CASE ReceiveTlsAnswer(e)
    <3>1. toServer'[d] \in {toServer[d], toServer[d] \o <<Plain("Identity")>>}
      BY <2>2 DEF ReceiveTlsAnswer, SendToServer, TypeOK
    <3>2. serverSaw' = serverSaw /\ "Identity" \in Kinds
      BY <2>2 DEF ReceiveTlsAnswer, history, Kinds
    <3>. QED
      BY <1>1, <1>3, <3>1, <3>2
  <2>3. CASE ClientIdentifies(e) \/ ClientPaired(e) \/ ClientTrusts(e)
    <3>1. toServer'[d] \in {toServer[d], toServer[d] \o <<Plain("PairRequest")>>,
                            toServer[d] \o <<Plain("FileTransferStatus")>>}
      BY <2>3 DEF ClientIdentifies, ClientPaired, ClientTrusts, ClientEnters,
                  SendToServer, Status, TypeOK
    <3>2. /\ serverSaw' = serverSaw
          /\ "PairRequest" \in Kinds /\ "FileTransferStatus" \in Kinds
      BY <2>3 DEF ClientIdentifies, ClientPaired, ClientTrusts, history, Kinds
    <3>. QED
      BY <1>1, <1>3, <3>1, <3>2
  <2>4. CASE ClientRefused(e) \/ ClientBails(e) \/ ClientHandles(e) \/ ClientEnds(e)
    BY <1>1, <2>4 DEF ClientRefused, ClientBails, ClientHandles, ClientEnds, history
  <2>. QED
    BY <1>4, <2>1, <2>2, <2>3, <2>4 DEF ClientStep
<1>5. ASSUME NEW e \in Dials, ServerStep(e) PROVE ServerTold(d)'
  <2>1. CASE AnswerTls(e) \/ ServerIdentifies(e) \/ Ask(e)
    <3>1. /\ serverSaw' = serverSaw
          /\ \/ toServer'[d] = toServer[d]
             \/ /\ toServer[d] # <<>> /\ toServer'[d] = Tail(toServer[d])
                /\ Head(toServer[d]) # Status
      BY <1>0, <2>1 DEF AnswerTls, ServerIdentifies, Ask, AtServer, TakenAtServer,
                        history, TypeOK
    <3>. QED
      BY <1>1, <1>2, <3>1
  <2>2. CASE Accept(e) \/ ServerSaves(e) \/ Refuse(e) \/ ServerEnds(e)
    BY <1>1, <2>2 DEF Accept, ServerSaves, Refuse, ServerEnds, history
  <2>3. CASE ServerTrusts(e) \/ ServerHandles(e)
    <3>1. /\ serverSaw \subseteq serverSaw'
          /\ \/ toServer'[d] = toServer[d]
             \/ /\ toServer[d] # <<>> /\ toServer'[d] = Tail(toServer[d])
                /\ Head(toServer[d]) = Status => d \in serverSaw'
      BY <1>0, <2>3 DEF ServerTrusts, ServerHandles, AtServer, TakenAtServer, TypeOK
    <3>. QED
      BY <1>1, <1>2, <3>1
  <2>. QED
    BY <1>5, <2>1, <2>2, <2>3 DEF ServerStep
<1>6. ASSUME NEW e \in Dials, ServerSends(e) \/ ClientCannotSave(e) \/ LinkBreaks(e)
      PROVE  ServerTold(d)'
  BY <1>1, <1>6 DEF ServerSends, ClientCannotSave, LinkBreaks, history
<1>7. ASSUME NEW a \in Agents, Rename(a) PROVE ServerTold(d)'
  <2>1. Append(toServer[d], Plain("IdentityUpdate")) = toServer[d] \o <<Plain("IdentityUpdate")>>
    BY <1>0
  <2>2. /\ serverSaw' = serverSaw /\ "IdentityUpdate" \in Kinds
        /\ toServer'[d] \in {toServer[d], toServer[d] \o <<Plain("IdentityUpdate")>>}
    BY <1>7, <2>1 DEF Rename, history, Kinds
  <2>. QED
    BY <1>1, <1>3, <2>2
<1>8. ASSUME NEW a \in Agents, Crash(a) PROVE ServerTold(d)'
  BY <1>1, <1>8 DEF Crash, history
<1>9. CASE UNCHANGED vars
  BY <1>1, <1>9 DEF vars, wires, history
<1>. QED
  BY <1>4, <1>5, <1>6, <1>7, <1>8, <1>9 DEF Next

\* A session of the server stays told while it lasts; only its end or a new
\* connection empties its queue.
LEMMA ClientStaysTold ==
  ASSUME TypeOK, [Next]_vars, NEW d \in Dials, ~Dial(d), ClientTold(d), d \in link,
         d \in link', server[d] = "Session"
  PROVE  ClientTold(d)'
<1>0. /\ toClient[d] \in Seq(Messages) /\ queue[d] \in Seq(Messages)
      /\ Status.kind = "FileTransferStatus"
      /\ \A k \in Kinds : Plain(k) \in Messages
  BY DEF TypeOK, Status, Plain, Msg, Messages
<1>1. ASSUME d \in clientSaw => d \in clientSaw', toClient'[d] = toClient[d],
             queue'[d] = queue[d]
      PROVE  ClientTold(d)'
  BY <1>1 DEF ClientTold
<1>2. ASSUME d \in clientSaw => d \in clientSaw', queue'[d] = queue[d],
             toClient[d] # <<>>, toClient'[d] = Tail(toClient[d]),
             Head(toClient[d]) = Status => d \in clientSaw'
      PROVE  ClientTold(d)'
  BY <1>0, <1>2, HeldFacts DEF ClientTold
<1>3. ASSUME clientSaw' = clientSaw, queue'[d] = queue[d], NEW k \in Kinds,
             toClient'[d] = toClient[d] \o <<Plain(k)>>
      PROVE  ClientTold(d)'
  BY <1>0, <1>3, HeldFacts DEF ClientTold
<1>4. ASSUME NEW e \in Dials, ClientStep(e) PROVE ClientTold(d)'
  <2>1. CASE Dial(e)
    BY <1>1, <2>1 DEF Dial, TypeOK
  <2>2. CASE \/ ReceiveTlsAnswer(e) \/ ClientIdentifies(e) \/ ClientPaired(e)
             \/ ClientRefused(e) \/ ClientBails(e)
    <3>1. /\ clientSaw' = clientSaw /\ queue' = queue
          /\ \/ toClient'[d] = toClient[d]
             \/ /\ toClient[d] # <<>> /\ toClient'[d] = Tail(toClient[d])
                /\ Head(toClient[d]) # Status
      BY <1>0, <2>2 DEF ReceiveTlsAnswer, ClientIdentifies, ClientPaired,
         ClientRefused, ClientBails, AtClient, TakenAtClient, history, TypeOK
    <3>. QED
      BY <1>1, <1>2, <3>1
  <2>3. CASE ClientTrusts(e) \/ ClientHandles(e)
    <3>1. /\ clientSaw \subseteq clientSaw' /\ queue' = queue
          /\ \/ toClient'[d] = toClient[d]
             \/ /\ toClient[d] # <<>> /\ toClient'[d] = Tail(toClient[d])
                /\ Head(toClient[d]) = Status => d \in clientSaw'
      BY <1>0, <2>3 DEF ClientTrusts, ClientHandles, AtClient, TakenAtClient, TypeOK
    <3>. QED
      BY <1>1, <1>2, <3>1
  <2>4. CASE ClientEnds(e)
    BY <1>1, <2>4 DEF ClientEnds, history
  <2>. QED
    BY <1>4, <2>1, <2>2, <2>3, <2>4 DEF ClientStep
<1>5. ASSUME NEW e \in Dials, ServerStep(e) PROVE ClientTold(d)'
  <2>1. CASE AnswerTls(e) \/ ServerIdentifies(e) \/ Ask(e) \/ Accept(e) \/ ServerSaves(e)
             \/ ServerTrusts(e)
    <3>1. e # d
      BY <2>1 DEF AnswerTls, ServerIdentifies, Ask, Accept, ServerSaves, ServerTrusts,
                  AtServer
    <3>2. clientSaw' = clientSaw /\ toClient'[d] = toClient[d] /\ queue'[d] = queue[d]
      BY <2>1, <3>1 DEF AnswerTls, ServerIdentifies, Ask, Accept, ServerSaves,
         ServerTrusts, ServerEnters, SendToClient, history, TypeOK
    <3>. QED
      BY <1>1, <3>2
  <2>2. CASE Refuse(e) \/ ServerEnds(e)
    <3>1. e # d
      BY <2>2 DEF Refuse, ServerEnds
    <3>2. clientSaw' = clientSaw /\ toClient'[d] = toClient[d] /\ queue'[d] = queue[d]
      BY <2>2, <3>1 DEF Refuse, ServerEnds, ServerCloses, SendToClient, history, TypeOK
    <3>. QED
      BY <1>1, <3>2
  <2>3. CASE ServerHandles(e)
    <3>1. PICK m \in Messages : m = Plain("PairAccepted")
      BY <1>0 DEF Kinds
    <3>a. queue'[d] \in {queue[d], Append(queue[d], m)}
      <4>1. CASE queue' = queue
        BY <4>1
      <4>2. CASE queue' = [queue EXCEPT ![e] = Append(@, m)]
        BY <4>2 DEF TypeOK
      <4>. QED
        BY <2>3, <3>1, <4>1, <4>2 DEF ServerHandles
    <3>b. Append(queue[d], m) = queue[d] \o <<m>>
      BY <1>0
    <3>2. /\ clientSaw' = clientSaw /\ toClient' = toClient
          /\ queue'[d] \in {queue[d], queue[d] \o <<m>>}
      BY <2>3, <3>a, <3>b DEF ServerHandles
    <3>3. Held(queue[d]) => Held(queue'[d])
      BY <1>0, <3>2, HeldFacts
    <3>. QED
      BY <3>2, <3>3 DEF ClientTold
  <2>. QED
    BY <1>5, <2>1, <2>2, <2>3 DEF ServerStep
<1>6. ASSUME NEW e \in Dials, ServerSends(e) PROVE ClientTold(d)'
  <2>0. clientSaw' = clientSaw
    BY <1>6 DEF ServerSends, history
  <2>1. CASE e # d
    <3>1. toClient'[d] = toClient[d] /\ queue'[d] = queue[d]
      BY <1>6, <2>1 DEF ServerSends, SendToClient, TypeOK
    <3>. QED
      BY <1>1, <2>0, <3>1
  <2>2. CASE /\ e = d /\ queue[d] # <<>>
             /\ toClient' = SendToClient(d, <<Head(queue[d])>>)
             /\ queue' = [queue EXCEPT ![d] = Tail(@)]
    <3>1. PICK m \in Messages : m = Head(queue[d])
      BY <1>0, <2>2
    <3>2. toClient'[d] = toClient[d] \o <<m>> /\ queue'[d] = Tail(queue[d])
      BY <2>2, <3>1 DEF SendToClient, TypeOK
    <3>3. Held(queue[d]) => Held(toClient'[d]) \/ Held(queue'[d])
      BY <1>0, <2>2, <3>1, <3>2, HeldFacts
    <3>4. Held(toClient[d]) => Held(toClient'[d])
      BY <1>0, <3>1, <3>2, HeldFacts
    <3>. QED
      BY <2>0, <3>3, <3>4 DEF ClientTold
  <2>3. CASE /\ e = d /\ queue' = queue
             /\ toClient' = SendToClient(d, <<Plain("IdentityUpdate")>>)
    <3>1. toClient'[d] = toClient[d] \o <<Plain("IdentityUpdate")>> /\ "IdentityUpdate" \in Kinds
      BY <2>3 DEF SendToClient, TypeOK, Kinds
    <3>. QED
      BY <1>3, <2>0, <2>3, <3>1
  <2>. QED
    BY <1>6, <2>1, <2>2, <2>3 DEF ServerSends
<1>7. ASSUME NEW e \in Dials, ClientCannotSave(e) PROVE ClientTold(d)'
  <2>1. e # d
    BY <1>7 DEF ClientCannotSave, ClientCloses
  <2>2. clientSaw' = clientSaw /\ toClient'[d] = toClient[d] /\ queue' = queue
    BY <1>7, <2>1 DEF ClientCannotSave, TakenAtClient, history, TypeOK
  <2>. QED
    BY <1>1, <2>2
<1>8. ASSUME NEW e \in Dials, LinkBreaks(e) PROVE ClientTold(d)'
  BY <1>1, <1>8 DEF LinkBreaks, history
<1>9. ASSUME NEW a \in Agents, Rename(a) PROVE ClientTold(d)'
  BY <1>1, <1>9 DEF Rename, history
<1>10. ASSUME NEW a \in Agents, Crash(a) PROVE ClientTold(d)'
  <2>1. S(d) # a
    BY <1>10 DEF Crash
  <2>. QED
    BY <1>1, <1>10, <2>1 DEF Crash, history
<1>11. CASE UNCHANGED vars
  BY <1>1, <1>11 DEF vars, wires, history
<1>. QED
  BY <1>4, <1>5, <1>6, <1>7, <1>8, <1>9, <1>10, <1>11 DEF Next

\* A client that comes to its session on an open connection sends its status.
LEMMA ClientEntersTelling ==
  ASSUME TypeOK, [Next]_vars, NEW d \in Dials, d \in link, client'[d] = "Session",
         client[d] # "Session"
  PROVE  Held(toServer'[d])
<1>0. toServer[d] \in Seq(Messages)
  BY DEF TypeOK
<1>1. ASSUME ClientEnters(d) PROVE Held(toServer'[d])
  <2>1. toServer'[d] = toServer[d] \o <<Status>>
    BY <1>1 DEF ClientEnters, SendToServer, TypeOK
  <2>. QED
    BY <1>0, <2>1, HeldFacts
<1>2. ASSUME NEW e \in Dials, ClientStep(e) PROVE Held(toServer'[d])
  <2>1. CASE ClientIdentifies(e) \/ ClientPaired(e) \/ ClientTrusts(e)
    <3>1. CASE ClientEnters(e)
      <4>1. e = d
        BY <3>1 DEF ClientEnters, TypeOK
      <4>. QED
        BY <1>1, <3>1, <4>1
    <3>2. CASE client' = [client EXCEPT ![e] = "Pair"]
      BY <3>2 DEF TypeOK
    <3>. QED
      BY <2>1, <3>1, <3>2 DEF ClientIdentifies, ClientPaired, ClientTrusts
  <2>2. CASE Dial(e) \/ ReceiveTlsAnswer(e)
    BY <2>2 DEF Dial, ReceiveTlsAnswer, TypeOK
  <2>3. CASE ClientRefused(e) \/ ClientBails(e) \/ ClientHandles(e) \/ ClientEnds(e)
    BY <2>3 DEF ClientRefused, ClientBails, ClientHandles, ClientEnds, ClientCloses,
                ends, TypeOK
  <2>. QED
    BY <1>2, <2>1, <2>2, <2>3 DEF ClientStep
<1>3. ASSUME NEW e \in Dials, ServerStep(e) PROVE Held(toServer'[d])
  BY <1>3 DEF ServerStep, AnswerTls, ServerIdentifies, Ask, Accept, ServerSaves, Refuse,
      ServerTrusts, ServerHandles, ServerEnds, ends
<1>4. ASSUME NEW e \in Dials, ServerSends(e) \/ ClientCannotSave(e) \/ LinkBreaks(e)
      PROVE  Held(toServer'[d])
  BY <1>4 DEF ServerSends, ClientCannotSave, LinkBreaks, ClientCloses, ends
<1>5. ASSUME NEW a \in Agents, Rename(a) \/ Crash(a) PROVE Held(toServer'[d])
  BY <1>5 DEF Rename, Crash, ends
<1>6. CASE UNCHANGED vars
  BY <1>6 DEF vars, ends
<1>. QED
  BY <1>2, <1>3, <1>4, <1>5, <1>6 DEF Next

\* A server that comes to its session has its status queued.
LEMMA ServerEntersTelling ==
  ASSUME TypeOK, [Next]_vars, NEW d \in Dials, server'[d] = "Session",
         server[d] # "Session"
  PROVE  Held(queue'[d])
<1>0. Held(<<Status>>)
  BY HeldFacts, EmptySeq
<1>1. ASSUME ServerEnters(d) PROVE Held(queue'[d])
  BY <1>0, <1>1 DEF ServerEnters, TypeOK
<1>2. ASSUME NEW e \in Dials, ServerStep(e) PROVE Held(queue'[d])
  <2>1. CASE ServerIdentifies(e) \/ ServerSaves(e) \/ ServerTrusts(e)
    <3>1. CASE ServerEnters(e)
      <4>1. e = d
        BY <3>1 DEF ServerEnters, TypeOK
      <4>. QED
        BY <1>1, <3>1, <4>1
    <3>2. CASE server' = [server EXCEPT ![e] = "Pair"]
      BY <3>2 DEF TypeOK
    <3>. QED
      BY <2>1, <3>1, <3>2 DEF ServerIdentifies, ServerSaves, ServerTrusts
  <2>2. CASE AnswerTls(e) \/ Ask(e) \/ Accept(e)
    BY <2>2 DEF AnswerTls, Ask, Accept, TypeOK
  <2>3. CASE Refuse(e) \/ ServerHandles(e) \/ ServerEnds(e)
    BY <2>3 DEF Refuse, ServerHandles, ServerEnds, ServerCloses, ends, TypeOK
  <2>. QED
    BY <1>2, <2>1, <2>2, <2>3 DEF ServerStep
<1>3. ASSUME NEW e \in Dials, ClientStep(e) PROVE Held(queue'[d])
  BY <1>3 DEF ClientStep, Dial, ReceiveTlsAnswer, ClientIdentifies, ClientPaired,
      ClientTrusts, ClientRefused, ClientBails, ClientHandles, ClientEnds, ends, TypeOK
<1>4. ASSUME NEW e \in Dials, ServerSends(e) \/ ClientCannotSave(e) \/ LinkBreaks(e)
      PROVE  Held(queue'[d])
  BY <1>4 DEF ServerSends, ClientCannotSave, LinkBreaks, ends
<1>5. ASSUME NEW a \in Agents, Rename(a) \/ Crash(a) PROVE Held(queue'[d])
  BY <1>5 DEF Rename, Crash, ends
<1>6. CASE UNCHANGED vars
  BY <1>6 DEF vars, ends
<1>. QED
  BY <1>2, <1>3, <1>4, <1>5, <1>6 DEF Next

\* Only Dial opens a connection.
LEMMA LinkOpens ==
  ASSUME [Next]_vars, NEW d \in Dials, d \in link', d \notin link
  PROVE  Dial(d)
<1>1. ASSUME NEW e \in Dials, ClientStep(e) PROVE Dial(d)
  BY <1>1 DEF ClientStep, Dial, ReceiveTlsAnswer, ClientIdentifies, ClientPaired,
      ClientTrusts, ClientRefused, ClientBails, ClientHandles, ClientEnds, ClientCloses
<1>2. ASSUME NEW e \in Dials, ServerStep(e) PROVE Dial(d)
  BY <1>2 DEF ServerStep, AnswerTls, ServerIdentifies, Ask, Accept, ServerSaves, Refuse,
      ServerTrusts, ServerHandles, ServerEnds, ServerCloses
<1>3. ASSUME NEW e \in Dials, ServerSends(e) \/ ClientCannotSave(e) \/ LinkBreaks(e)
      PROVE  Dial(d)
  BY <1>3 DEF ServerSends, ClientCannotSave, LinkBreaks, ClientCloses
<1>4. ASSUME NEW a \in Agents, Rename(a) \/ Crash(a) PROVE Dial(d)
  BY <1>4 DEF Rename, Crash
<1>5. CASE UNCHANGED vars
  BY <1>5 DEF vars, wires
<1>. QED
  BY <1>1, <1>2, <1>3, <1>4, <1>5 DEF Next

LEMMA NextStatus ==
  ASSUME TypeOK, StatusInv, [Next]_vars
  PROVE  StatusInv'
<1>1. SUFFICES ASSUME NEW d \in Dials, d \in link'
               PROVE  /\ client'[d] = "Session" => ServerTold(d)'
                      /\ server'[d] = "Session" => ClientTold(d)'
  BY DEF StatusInv
<1>2. CASE Dial(d)
  BY <1>2 DEF Dial, TypeOK
<1>3. CASE ~Dial(d)
  <2>1. d \in link
    BY <1>1, <1>3, LinkOpens
  <2>2. ASSUME client'[d] = "Session" PROVE ServerTold(d)'
    <3>1. CASE client[d] = "Session"
      BY <1>3, <2>1, <3>1, ServerStaysTold DEF StatusInv
    <3>2. CASE client[d] # "Session"
      BY <2>1, <2>2, <3>2, ClientEntersTelling DEF ServerTold
    <3>. QED
      BY <3>1, <3>2
  <2>3. ASSUME server'[d] = "Session" PROVE ClientTold(d)'
    <3>1. CASE server[d] = "Session"
      BY <1>1, <1>3, <2>1, <3>1, ClientStaysTold DEF StatusInv
    <3>2. CASE server[d] # "Session"
      BY <2>3, <3>2, ServerEntersTelling DEF ClientTold
    <3>. QED
      BY <3>1, <3>2
  <2>. QED
    BY <2>2, <2>3
<1>. QED
  BY <1>2, <1>3

\* Whichever function receives the status of the other end, it is handled: the
\* pairing functions hand the message they took for an answer to the session
\* (initial_msg, server.rs and client.rs).
THEOREM NoStatusIsLost == Spec => []StatusIsHandled
<1>1. Init => StatusInv
  BY DEF Init, StatusInv
<1>2. ASSUME TypeOK, StatusInv, [Next]_vars PROVE StatusInv'
  BY <1>2, NextStatus
<1>3. StatusInv => StatusIsHandled
  <2>1. ~Held(<<>>)
    BY DEF Held
  <2>. QED
    BY <2>1 DEF StatusInv, StatusIsHandled, ServerTold, ClientTold
<1>. QED
  BY <1>1, <1>2, <1>3, TypeCorrect, PTL DEF Spec
=============================================================================
