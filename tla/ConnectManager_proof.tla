------------------------ MODULE ConnectManager_proof ------------------------
(***************************************************************************)
(* Theorems about ConnectManager, for any set of addresses, machines and   *)
(* tasks.                                                                  *)
(***************************************************************************)
EXTENDS ConnectManager, TLAPS

-----------------------------------------------------------------------------
(* Sequences.                                                              *)

\* A request that is queued stays queued when another is appended, which is
\* queued too.
LEMMA AppendKeeps ==
  ASSUME NEW S, NEW q \in Seq(S), NEW a \in S
  PROVE  /\ \A i \in DOMAIN q : i \in DOMAIN Append(q, a) /\ Append(q, a)[i] = q[i]
         /\ \E i \in DOMAIN Append(q, a) : Append(q, a)[i] = a
<1>1. Len(q) + 1 \in DOMAIN Append(q, a) /\ Append(q, a)[Len(q) + 1] = a
  OBVIOUS
<1> QED BY <1>1

\* Only the first request leaves the queue.
LEMMA TailKeeps ==
  ASSUME NEW S, NEW q \in Seq(S), q # <<>>, NEW i \in DOMAIN q, q[i] # Head(q)
  PROVE  \E j \in DOMAIN Tail(q) : Tail(q)[j] = q[i]
<1>1. i - 1 \in DOMAIN Tail(q) /\ Tail(q)[i - 1] = q[i]
  OBVIOUS
<1> QED BY <1>1

-----------------------------------------------------------------------------
(* Types.                                                                  *)

LEMMA InitType == Init => TypeOK
<1> SUFFICES ASSUME Init PROVE TypeOK OBVIOUS
<1> USE DEF Init
<1>1. requests \in Seq(Addrs)
  <2>1. CASE requests = <<>> BY <2>1
  <2>2. CASE \E a \in Addrs : requests = <<a>> BY <2>2
  <2> QED BY <2>1, <2>2
<1> QED BY <1>1, NoAddrAssumption DEF TypeOK, Phase

LEMMA NextType == TypeOK /\ [Next]_vars => TypeOK'
<1> SUFFICES ASSUME TypeOK, [Next]_vars PROVE TypeOK' OBVIOUS
<1> USE NoAddrAssumption, OwnerAssumption DEF TypeOK, Phase, stateVars, peerVars, taskVars
<1>1. ASSUME NEW a \in Addrs, Connect(a) PROVE TypeOK'
  <2>1. requests' \in Seq(Addrs)
    BY <1>1 DEF Connect
  <2> QED BY <1>1, <2>1 DEF Connect
<1>2. CASE Disconnect
  BY <1>2 DEF Disconnect
<1>3. ASSUME NEW a \in Addrs, ForgetPeer(a) PROVE TypeOK'
  BY <1>3 DEF ForgetPeer
<1>4. ASSUME NEW a \in Addrs, InboundSession(a) PROVE TypeOK'
  BY <1>4 DEF InboundSession
<1>5. ASSUME NEW a \in Addrs, Discover(a) PROVE TypeOK'
  BY <1>5 DEF Discover
<1>6. CASE ManagerSkips
  BY <1>6 DEF ManagerSkips
<1>7. ASSUME NEW t \in Tasks, ManagerStarts(t) PROVE TypeOK'
  <2>1. Head(requests) \in Addrs /\ requests' \in Seq(Addrs)
    BY <1>7 DEF ManagerStarts
  <2> HIDE DEF Phase
  <2>2. phase' \in [Tasks -> Phase] /\ target' \in [Tasks -> Addrs \cup {NoAddr}]
    BY <1>7, <2>1 DEF ManagerStarts, Phase
  <2>3. \A u \in Tasks : target'[u] = NoAddr <=> phase'[u] = "Free"
    BY <1>7, <2>1, <2>2 DEF ManagerStarts
  <2>4. t \notin goodbye
    BY <1>7 DEF ManagerStarts
  <2> QED BY <1>7, <2>1, <2>2, <2>3, <2>4 DEF ManagerStarts
<1>8. ASSUME NEW t \in Tasks, SetUpFails(t) PROVE TypeOK'
  BY <1>8 DEF SetUpFails
<1>9. ASSUME NEW t \in Tasks, Register(t) PROVE TypeOK'
  BY <1>9 DEF Register
<1>10. ASSUME NEW t \in Tasks, Subscribe(t) PROVE TypeOK'
  BY <1>10 DEF Subscribe
<1>11. ASSUME NEW t \in Tasks, phase[t] \in {"Registered", "Running"},
              DropGuard(t)
       PROVE TypeOK'
  BY <1>11 DEF DropGuard
<1>12. ASSUME NEW t \in Tasks, ClearConnected(t) PROVE TypeOK'
  BY <1>12 DEF ClearConnected
<1>13. ASSUME NEW t \in Tasks, DecideRetry(t) PROVE TypeOK'
  BY <1>13 DEF DecideRetry
<1>14. ASSUME NEW t \in Tasks, Retry(t) PROVE TypeOK'
  BY <1>14 DEF Retry
<1>15. CASE UNCHANGED vars
  BY <1>15 DEF vars
<1> QED
  BY <1>1, <1>2, <1>3, <1>4, <1>5, <1>6, <1>7, <1>8, <1>9, <1>10, <1>11,
     <1>12, <1>13, <1>14, <1>15
  DEF Next, User, Network, Manager, Session, SessionEnds, GoodbyeEnds

\* Every variable of ConnectManager has its type in every reachable state.
THEOREM TypeCorrect == Spec => []TypeOK
BY InitType, NextType, PTL DEF Spec

-----------------------------------------------------------------------------
(* connected_to names a live task.                                         *)

\* A task for the address connected_to names that may still clear it.
Holder(t) == target[t] = connected_to /\ (Active(t) \/ phase[t] = "Over")

LEMMA InitLive == Init => ConnectedToLive
BY DEF Init, ConnectedToLive

\* Only a task's own steps move it; a task that leaves "Over" has cleared
\* connected_to, and one that starts takes it over.
LEMMA NextLive ==
  TypeOK /\ ConnectedToLive /\ [Next]_vars => ConnectedToLive'
<1> SUFFICES ASSUME TypeOK, ConnectedToLive, [Next]_vars,
                    connected_to' # NoAddr
             PROVE  \E t \in Tasks : Holder(t)'
  BY DEF ConnectedToLive, Holder, Active
<1> USE DEF Holder, Active, TypeOK, stateVars, peerVars, taskVars
<1>1. ASSUME connected_to' = connected_to,
             UNCHANGED <<phase, target>>
      PROVE  \E t \in Tasks : Holder(t)'
  BY <1>1 DEF ConnectedToLive
<1>2. ASSUME NEW t \in Tasks, ManagerStarts(t)
      PROVE  \E u \in Tasks : Holder(u)'
  <2>1. Holder(t)' BY <1>2 DEF ManagerStarts
  <2> QED BY <2>1
<1>3. ASSUME NEW t \in Tasks, Register(t)
      PROVE  \E u \in Tasks : Holder(u)'
  <2>1. Holder(t)' BY <1>3 DEF Register
  <2> QED BY <2>1
<1>4. ASSUME NEW t \in Tasks, connected_to' = connected_to, UNCHANGED target,
             \A u \in Tasks \ {t} : phase'[u] = phase[u],
             Active(t)' \/ phase'[t] = "Over"
      PROVE  \E u \in Tasks : Holder(u)'
  <2>1. PICK u \in Tasks : Holder(u) BY <1>4 DEF ConnectedToLive
  <2> QED BY <1>4, <2>1
<1>5. ASSUME NEW t \in Tasks, SetUpFails(t) \/ Subscribe(t)
      PROVE  \E u \in Tasks : Holder(u)'
  <2> USE <1>5 DEF SetUpFails, Subscribe
  <2>1. connected_to' = connected_to /\ UNCHANGED target
    OBVIOUS
  <2>2. \A u \in Tasks \ {t} : phase'[u] = phase[u]
    OBVIOUS
  <2>3. Active(t)' \/ phase'[t] = "Over"
    OBVIOUS
  <2> QED BY <1>4, <2>1, <2>2, <2>3
<1>6. ASSUME NEW t \in Tasks, DropGuard(t)
      PROVE  \E u \in Tasks : Holder(u)'
  <2>1. connected_to' = connected_to /\ connected_to # NoAddr
    BY <1>6 DEF DropGuard
  <2>2. PICK u \in Tasks : Holder(u) BY <2>1 DEF ConnectedToLive
  <2>3. Holder(u)'
    BY <1>6, <2>1, <2>2 DEF DropGuard
  <2> QED BY <2>3
<1>7. ASSUME NEW t \in Tasks, DecideRetry(t) \/ Retry(t)
      PROVE  \E u \in Tasks : Holder(u)'
  <2>1. PICK u \in Tasks : Holder(u)
    BY <1>7 DEF ConnectedToLive, DecideRetry, Retry
  <2>2. u # t
    BY <1>7, <2>1 DEF DecideRetry, Retry
  <2>3. Holder(u)'
    BY <1>7, <2>1, <2>2 DEF DecideRetry, Retry
  <2> QED BY <2>3
<1>8. ASSUME NEW t \in Tasks
      PROVE  ~ClearConnected(t)
  BY DEF ClearConnected
<1>9. ~Disconnect
  BY DEF Disconnect
<1>10. ASSUME NEW a \in Addrs,
              Connect(a) \/ ForgetPeer(a) \/ InboundSession(a) \/ Discover(a)
       PROVE  \E u \in Tasks : Holder(u)'
  BY <1>1, <1>10 DEF Connect, ForgetPeer, InboundSession, Discover
<1>11. CASE ManagerSkips
  BY <1>1, <1>11 DEF ManagerSkips
<1>12. CASE UNCHANGED vars
  BY <1>1, <1>12 DEF vars
<1> QED
  BY <1>2, <1>3, <1>5, <1>6, <1>7, <1>8, <1>9, <1>10, <1>11, <1>12
  DEF Next, User, Network, Manager, Session, SessionEnds, GoodbyeEnds

\* While connected_to names an address a task for it lives, so that a request
\* is never skipped for a session that is gone.
THEOREM ConnectedToIsLive == Spec => []ConnectedToLive
<1>1. Init => TypeOK /\ ConnectedToLive
  BY InitType, InitLive
<1>2. TypeOK /\ ConnectedToLive /\ [Next]_vars => (TypeOK /\ ConnectedToLive)'
  BY NextType, NextLive
<1> QED BY <1>1, <1>2, PTL DEF Spec

-----------------------------------------------------------------------------
(* What the user asked for is pursued.                                     *)

\* A task works on the address, or waits to retry it.
Pursuer(t, a) == target[t] = a /\ phase[t] # "Free"

LEMMA InitPursuit == Init => PursuitInv
<1> SUFFICES ASSUME Init PROVE PursuitInv OBVIOUS
<1>1. WantedIsPursued BY DEF Init, WantedIsPursued
<1>2. disconnect_requested = FALSE BY DEF Init
<1> QED BY <1>1, <1>2, InitLive DEF PursuitInv

\* A wish comes with Connect, which takes an earlier Disconnect back; the next
\* Disconnect ends every wish.
LEMMA NextWish ==
  TypeOK /\ PursuitInv /\ [Next]_vars => (wanted # {} => ~disconnect_requested)'
<1> SUFFICES ASSUME TypeOK, PursuitInv, [Next]_vars, wanted' # {}
             PROVE  ~disconnect_requested'
  OBVIOUS
<1> USE DEF PursuitInv, stateVars, peerVars, taskVars
<1>1. CASE disconnect_requested' = FALSE
  BY <1>1
<1>2. CASE UNCHANGED disconnect_requested /\ wanted' \subseteq wanted
  BY <1>2
<1>3. ~Disconnect
  BY DEF Disconnect
<1>4. ASSUME NEW a \in Addrs,
             Connect(a) \/ ForgetPeer(a) \/ InboundSession(a) \/ Discover(a)
      PROVE  ~disconnect_requested'
  BY <1>1, <1>2, <1>4 DEF Connect, ForgetPeer, InboundSession, Discover
<1>5. ASSUME NEW t \in Tasks, Session(t)
      PROVE  ~disconnect_requested'
  BY <1>2, <1>5 DEF Session, SetUpFails, Register, Subscribe, SessionEnds,
     GoodbyeEnds, DropGuard, ClearConnected, DecideRetry, Retry
<1>6. CASE Manager
  BY <1>1, <1>2, <1>6 DEF Manager, ManagerSkips, ManagerStarts
<1>7. CASE UNCHANGED vars
  BY <1>2, <1>7 DEF vars
<1> QED
  BY <1>3, <1>4, <1>5, <1>6, <1>7 DEF Next, User, Network

\* A queued address leaves the queue for a new task, or because a task for it
\* lives; a task that ends queues its address again unless it was given up.
LEMMA NextPursued ==
  TypeOK /\ PursuitInv /\ [Next]_vars => WantedIsPursued'
<1> SUFFICES ASSUME TypeOK, PursuitInv, [Next]_vars,
                    NEW a \in wanted'
             PROVE  Queued(a)' \/ \E t \in Tasks : Pursuer(t, a)'
  BY DEF WantedIsPursued, Pursuer
<1> DEFINE Goal == Queued(a)' \/ \E t \in Tasks : Pursuer(t, a)'
<1> USE DEF stateVars, peerVars, taskVars
<1>1. a \in wanted => Queued(a) \/ \E t \in Tasks : Pursuer(t, a)
  BY DEF PursuitInv, WantedIsPursued, Pursuer
<1>2. ASSUME NEW b \in Addrs, requests' = Append(requests, b)
      PROVE  Queued(b)' /\ (Queued(a) => Queued(a)')
  BY <1>2, AppendKeeps DEF Queued, TypeOK
<1>3. ASSUME UNCHANGED <<requests, phase, target>>, a \in wanted
      PROVE  Goal
  BY <1>1, <1>3 DEF Queued, Pursuer
<1>4. ASSUME NEW b \in Addrs, Connect(b) PROVE Goal
  <2>1. requests' = Append(requests, b) /\ UNCHANGED <<phase, target>>
    BY <1>4 DEF Connect
  <2>2. a \in wanted \/ a = b
    BY <1>4 DEF Connect
  <2> QED BY <1>1, <1>2, <2>1, <2>2 DEF Pursuer
<1>5. ASSUME NEW b \in Addrs, InboundSession(b) PROVE Goal
  <2>1. UNCHANGED <<phase, target>> /\ a \in wanted
    BY <1>5 DEF InboundSession
  <2>2. requests' = Append(requests, b) \/ UNCHANGED requests
    BY <1>5 DEF InboundSession
  <2> QED BY <1>1, <1>2, <1>3, <2>1, <2>2 DEF Pursuer
<1>6. ASSUME NEW b \in Addrs, ForgetPeer(b) \/ Discover(b) PROVE Goal
  BY <1>3, <1>6 DEF ForgetPeer, Discover
<1>7. ~Disconnect
  BY DEF Disconnect
<1>8. ASSUME requests # <<>>, requests' = Tail(requests), Queued(a),
             a # Head(requests)
      PROVE  Queued(a)'
  BY <1>8, TailKeeps DEF Queued, TypeOK
<1>9. CASE ManagerSkips
  <2>1. UNCHANGED <<phase, target>> /\ a \in wanted
    BY <1>9 DEF ManagerSkips
  <2>2. CASE \E t \in Tasks : Pursuer(t, a)
    BY <2>1, <2>2 DEF Pursuer
  <2>3. CASE Queued(a) /\ a # Head(requests)
    BY <1>8, <1>9, <2>3 DEF ManagerSkips
  <2>4. CASE a = Head(requests)
    <3>1. connected_to = a /\ a # NoAddr
      BY <1>9, <2>1, <2>4, NoAddrAssumption DEF ManagerSkips, TypeOK
    <3>2. \E t \in Tasks : Pursuer(t, a)
      BY <3>1 DEF PursuitInv, ConnectedToLive, Pursuer, Active
    <3> QED BY <3>2, <2>2
  <2> QED BY <1>1, <2>1, <2>2, <2>3, <2>4
<1>10. ASSUME NEW t \in Tasks, ManagerStarts(t) PROVE Goal
  <2>1. a \in wanted /\ phase[t] = "Free"
    BY <1>10 DEF ManagerStarts
  <2>2. ASSUME NEW u \in Tasks, Pursuer(u, a) PROVE Pursuer(u, a)'
    BY <1>10, <2>1, <2>2 DEF ManagerStarts, Pursuer, TypeOK
  <2>3. CASE Queued(a) /\ a # Head(requests)
    BY <1>8, <1>10, <2>3 DEF ManagerStarts
  <2>4. CASE a = Head(requests)
    <3>1. Pursuer(t, a)'
      BY <1>10, <2>4 DEF ManagerStarts, Pursuer, TypeOK
    <3> QED BY <3>1
  <2> QED BY <1>1, <2>1, <2>2, <2>3, <2>4
<1>11. ASSUME NEW t \in Tasks, UNCHANGED <<requests, target>>, a \in wanted,
              phase'[t] # "Free", \A u \in Tasks \ {t} : phase'[u] = phase[u]
       PROVE  Goal
  <2>1. ASSUME NEW u \in Tasks, Pursuer(u, a) PROVE Pursuer(u, a)'
    BY <1>11, <2>1 DEF Pursuer
  <2> QED BY <1>1, <1>11, <2>1 DEF Queued
<1>12. ASSUME NEW t \in Tasks,
              \/ SetUpFails(t) \/ Register(t) \/ Subscribe(t)
              \/ DropGuard(t) \/ ClearConnected(t)
       PROVE  Goal
  <2>1. UNCHANGED <<requests, target>> /\ a \in wanted
    BY <1>12 DEF SetUpFails, Register, Subscribe, DropGuard, ClearConnected
  <2>2. phase'[t] # "Free" /\ \A u \in Tasks \ {t} : phase'[u] = phase[u]
    BY <1>12 DEF SetUpFails, Register, Subscribe, DropGuard, ClearConnected, TypeOK
  <2> QED BY <1>11, <2>1, <2>2
<1>13. ASSUME NEW t \in Tasks, DecideRetry(t) PROVE Goal
  <2>1. a \in wanted /\ UNCHANGED requests
    BY <1>13 DEF DecideRetry
  <2>2. ~disconnect_requested
    BY <2>1 DEF PursuitInv
  <2>3. target[t] = a => Configured(a)
    BY <1>13 DEF DecideRetry
  <2>4. ASSUME NEW u \in Tasks, Pursuer(u, a) PROVE Pursuer(u, a)'
    <3>1. CASE u = t
      BY <1>13, <2>2, <2>3, <2>4, <3>1 DEF DecideRetry, Pursuer, TypeOK
    <3>2. CASE u # t
      BY <1>13, <2>4, <3>2 DEF DecideRetry, Pursuer, TypeOK
    <3> QED BY <3>1, <3>2
  <2> QED BY <1>1, <2>1, <2>4 DEF Queued
<1>14. ASSUME NEW t \in Tasks, Retry(t) PROVE Goal
  <2>1. a \in wanted
    BY <1>14 DEF Retry
  <2>2. PICK b \in Addrs : b = target[t] /\ requests' = Append(requests, b)
    BY <1>14 DEF Retry, TypeOK
  <2>3. Queued(b)' /\ (Queued(a) => Queued(a)')
    BY <1>2, <2>2
  <2>4. ASSUME NEW u \in Tasks, Pursuer(u, a), u # t PROVE Pursuer(u, a)'
    BY <1>14, <2>4 DEF Retry, Pursuer, TypeOK
  <2> QED BY <1>1, <2>1, <2>2, <2>3, <2>4 DEF Pursuer
<1>15. CASE UNCHANGED vars
  BY <1>3, <1>15 DEF vars
<1> QED
  BY <1>4, <1>5, <1>6, <1>7, <1>9, <1>10, <1>12, <1>13, <1>14, <1>15
  DEF Next, User, Network, Manager, Session, SessionEnds, GoodbyeEnds

\* What the user asked for, and has neither disconnected nor removed since, is
\* queued or worked on, and no Disconnect stands.
THEOREM PursuitHolds == Spec => []PursuitInv
<1>1. Init => TypeOK /\ PursuitInv
  BY InitType, InitPursuit
<1>2. TypeOK /\ PursuitInv /\ [Next]_vars => (TypeOK /\ PursuitInv)'
  <2> SUFFICES ASSUME TypeOK, PursuitInv, [Next]_vars
               PROVE  (TypeOK /\ PursuitInv)'
    OBVIOUS
  <2>1. ConnectedToLive' BY NextLive DEF PursuitInv
  <2> QED BY <2>1, NextType, NextWish, NextPursued DEF PursuitInv
<1> QED BY <1>1, <1>2, PTL DEF Spec

\* No request of the user is lost between skip, failure and retry.
THEOREM WantedArePursued == Spec => []WantedIsPursued
<1>1. PursuitInv => WantedIsPursued BY DEF PursuitInv
<1> QED BY <1>1, PursuitHolds, PTL

-----------------------------------------------------------------------------
(* The connected flags.                                                    *)

LEMMA InitShown == Init => ShownConnectedHasSession
BY DEF Init, ShownConnectedHasSession

\* A session that ends clears the flag of the machine at its address, which
\* is the only address of that machine.
LEMMA NextShown ==
  ASSUME OneAddressEach
  PROVE  TypeOK /\ ShownConnectedHasSession /\ [Next]_vars
           => ShownConnectedHasSession'
<1> DEFINE Serves(t, p) ==
      phase[t] \in {"Registered", "Running"} /\ Owner[target[t]] = p
<1> SUFFICES ASSUME TypeOK, ShownConnectedHasSession, [Next]_vars,
                    NEW p \in connected'
             PROVE  \E t \in Tasks : Serves(t, p)'
  BY DEF ShownConnectedHasSession
<1> USE DEF stateVars, peerVars, taskVars
<1>1. p \in connected => \E t \in Tasks : Serves(t, p)
  BY DEF ShownConnectedHasSession
<1>2. ASSUME UNCHANGED <<phase, target>>, p \in connected
      PROVE  \E t \in Tasks : Serves(t, p)'
  BY <1>1, <1>2
<1>3. ASSUME NEW a \in Addrs,
             Connect(a) \/ ForgetPeer(a) \/ InboundSession(a) \/ Discover(a)
      PROVE  \E t \in Tasks : Serves(t, p)'
  BY <1>2, <1>3 DEF Connect, ForgetPeer, InboundSession, Discover
<1>4. CASE Disconnect \/ ManagerSkips \/ UNCHANGED vars
  BY <1>2, <1>4 DEF Disconnect, ManagerSkips, vars
<1>5. ASSUME NEW t \in Tasks, Register(t)
      PROVE  \E u \in Tasks : Serves(u, p)'
  <2>1. CASE p = Owner[target[t]]
    <3>1. Serves(t, p)' BY <1>5, <2>1 DEF Register, TypeOK
    <3> QED BY <3>1
  <2>2. CASE p \in connected
    <3>1. PICK u \in Tasks : Serves(u, p) BY <1>1, <2>2
    <3>2. Serves(u, p)' BY <1>5, <3>1 DEF Register, TypeOK
    <3> QED BY <3>2
  <2> QED BY <1>5, <2>1, <2>2 DEF Register
<1>6. ASSUME NEW t \in Tasks, p \in connected, phase[t] \notin {"Registered", "Running"},
             \A u \in Tasks \ {t} : phase'[u] = phase[u] /\ target'[u] = target[u]
      PROVE  \E u \in Tasks : Serves(u, p)'
  <2>1. PICK u \in Tasks : Serves(u, p) BY <1>1, <1>6
  <2>2. Serves(u, p)' BY <1>6, <2>1
  <2> QED BY <2>2
<1>7. ASSUME NEW t \in Tasks,
             \/ ManagerStarts(t) \/ SetUpFails(t) \/ ClearConnected(t)
             \/ DecideRetry(t) \/ Retry(t)
      PROVE  \E u \in Tasks : Serves(u, p)'
  <2>1. p \in connected /\ phase[t] \notin {"Registered", "Running"}
    BY <1>7 DEF ManagerStarts, SetUpFails, ClearConnected, DecideRetry, Retry
  <2>2. \A u \in Tasks \ {t} : phase'[u] = phase[u] /\ target'[u] = target[u]
    BY <1>7 DEF ManagerStarts, SetUpFails, ClearConnected, DecideRetry, Retry,
       TypeOK
  <2> QED BY <1>6, <2>1, <2>2
<1>8. ASSUME NEW t \in Tasks, Subscribe(t)
      PROVE  \E u \in Tasks : Serves(u, p)'
  <2>1. PICK u \in Tasks : Serves(u, p) BY <1>1, <1>8 DEF Subscribe
  <2>2. Serves(u, p)' BY <1>8, <2>1 DEF Subscribe, TypeOK
  <2> QED BY <2>2
<1>9. ASSUME NEW t \in Tasks, phase[t] \in {"Registered", "Running"}, DropGuard(t)
      PROVE  \E u \in Tasks : Serves(u, p)'
  <2>1. p \in connected /\ address[p] # target[t]
    BY <1>9 DEF DropGuard
  <2>2. p \in Peers /\ address[p] \in Addrs /\ Owner[address[p]] = p
    BY <2>1 DEF TypeOK
  <2>3. target[t] \in Addrs
    BY <1>9 DEF TypeOK
  <2>4. PICK u \in Tasks : Serves(u, p) BY <1>1, <2>1
  <2>5. u # t
    BY <2>1, <2>2, <2>3, <2>4 DEF OneAddressEach
  <2>6. Serves(u, p)' BY <1>9, <2>4, <2>5 DEF DropGuard, TypeOK
  <2> QED BY <2>6
<1> QED
  BY <1>3, <1>4, <1>5, <1>7, <1>8, <1>9
  DEF Next, User, Network, Manager, Session, SessionEnds, GoodbyeEnds

\* A peer shown as connected has a session, if no machine has two addresses.
THEOREM ShownAreConnected ==
  ASSUME OneAddressEach
  PROVE  Spec => []ShownConnectedHasSession
<1>1. Init => TypeOK /\ ShownConnectedHasSession
  BY InitType, InitShown
<1>2. TypeOK /\ ShownConnectedHasSession /\ [Next]_vars
        => (TypeOK /\ ShownConnectedHasSession)'
  BY NextType, NextShown, OneAddressEach
<1> QED BY <1>1, <1>2, PTL DEF Spec
=============================================================================
