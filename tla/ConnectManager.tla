--------------------------- MODULE ConnectManager ---------------------------
(***************************************************************************)
(* Who an agent connects to: the connect manager of main.rs, the tasks it  *)
(* spawns (one connect_to of client.rs each), the IPC commands Connect,    *)
(* Disconnect and ForgetPeer, and the reverse connection and discovery     *)
(* that feed the same state.                                               *)
(*                                                                         *)
(* All of them meet in the agent's shared state: one connected_to, one     *)
(* disconnect_requested, one list of peers.  A session task takes and      *)
(* releases that lock several times while it lives and while it ends, and  *)
(* other tasks run in between; each section under the lock is one action.  *)
(***************************************************************************)
EXTENDS Naturals, Sequences

CONSTANTS
  Addrs,    \* addresses an agent may be asked to connect to
  Peers,    \* the machines that answer there
  Owner,    \* the machine at each address
  Tasks,    \* slots for the tasks the manager spawns
  NoAddr,   \* None
  QueueCap  \* bound of the model on the requests queued when a new one arrives
            \* from outside (the channel is unbounded)

ASSUME NoAddrAssumption == NoAddr \notin Addrs
ASSUME OwnerAssumption == Owner \in [Addrs -> Peers]
ASSUME QueueCapAssumption == QueueCap \in Nat

VARIABLES
  requests,             \* the channel connect_tx / connect_rx
  connected_to,
  disconnect_requested,
  address,              \* of the entry of each peer in AgentState.peers
  connected,            \* peers whose entry has its connected flag set
  phase,                \* of each session task
  target,               \* the address it was spawned for
  goodbye,              \* sessions with an unread Goodbye on the broadcast
  wanted                \* history: addresses the user asked for and has
                        \* neither disconnected nor removed since

stateVars == <<connected_to, disconnect_requested>>
peerVars  == <<address, connected>>
taskVars  == <<phase, target, goodbye>>
vars == <<requests, stateVars, peerVars, taskVars, wanted>>

\* "SettingUp":  connecting, TLS, identities, pairing
\* "Registered": listed as connected, not yet subscribed to broadcasts
\* "Running":    in run_client_event_loop
\* "Over":       connect_to has returned
\* "Cleared":    connected_to has been cleared
\* "Waiting":    in the 3 s before the retry
Phase == {"Free", "SettingUp", "Registered", "Running", "Over", "Cleared",
          "Waiting"}

\* Sessions that are, or are about to be, connected.
Active(t) == phase[t] \in {"SettingUp", "Registered", "Running"}

Queued(a) == \E i \in DOMAIN requests : requests[i] = a

\* Some entry of the peers' list has this address.
Configured(a) == \E p \in Peers : address[p] = a

CanQueue == Len(requests) < QueueCap

-----------------------------------------------------------------------------
\* The agent starts: the peers' list comes from the configuration, and the
\* first of them (or --connect) is connected to.
Init ==
  /\ address \in [Peers -> Addrs \cup {NoAddr}]
  /\ \A p \in Peers : address[p] # NoAddr => Owner[address[p]] = p
  /\ requests \in {<<>>} \cup {<<a>> : a \in Addrs}
  /\ wanted = {a \in Addrs : Queued(a)}
  /\ connected_to = NoAddr /\ disconnect_requested = FALSE
  /\ connected = {} /\ goodbye = {}
  /\ phase = [t \in Tasks |-> "Free"]
  /\ target = [t \in Tasks |-> NoAddr]

-----------------------------------------------------------------------------
(* Commands of the IPC server.                                             *)

\* GuiCommand::Connect
Connect(a) ==
  /\ CanQueue
  /\ disconnect_requested' = FALSE
  /\ requests' = Append(requests, a)
  /\ wanted' = wanted \cup {a}
  /\ UNCHANGED <<connected_to, peerVars, taskVars>>

\* GuiCommand::Disconnect.  Only a session that runs has subscribed to the
\* broadcast channel; the channel is assumed not to be overrun (16 commands).
Disconnect ==
  /\ connected_to' = NoAddr
  /\ disconnect_requested' = TRUE
  /\ goodbye' = goodbye \cup {t \in Tasks : phase[t] = "Running"}
  /\ wanted' = {}
  /\ UNCHANGED <<requests, peerVars, phase, target>>

\* Mutant: the flag of the removed entry outlives it.
ForgetPeerKeepsFlag(a) ==
  /\ address' = [p \in Peers |-> IF address[p] = a THEN NoAddr ELSE address[p]]
  /\ wanted' = wanted \ {a}
  /\ UNCHANGED <<requests, stateVars, connected, taskVars>>

\* GuiCommand::ForgetPeer
ForgetPeer(a) ==
  /\ address' = [p \in Peers |-> IF address[p] = a THEN NoAddr ELSE address[p]]
  /\ connected' = {p \in connected : address[p] # a}
  /\ wanted' = wanted \ {a}
  /\ UNCHANGED <<requests, stateVars, taskVars>>

-----------------------------------------------------------------------------
(* Other sources of peers and requests.                                    *)

\* A machine connects to this one: its entry is made if there is none, and a
\* reverse connection is requested if nothing is connected (and if input is
\* enabled, which is left open).
InboundSession(a) ==
  LET p == Owner[a] IN
  /\ address' = [address EXCEPT ![p] = IF @ = NoAddr THEN a ELSE @]
  /\ \/ connected_to = NoAddr /\ CanQueue /\ requests' = Append(requests, a)
     \/ UNCHANGED requests
  /\ UNCHANGED <<stateVars, connected, taskVars, wanted>>

\* mDNS reports the machine at a: its entry is made, or takes its new address.
Discover(a) ==
  /\ address' = [address EXCEPT ![Owner[a]] = a]
  /\ UNCHANGED <<requests, stateVars, connected, taskVars, wanted>>

-----------------------------------------------------------------------------
(* The manager's loop: one lock section per request.                       *)

\* Mutant: whatever is connected stands in the way.
ManagerSkipsIfConnected ==
  /\ requests # <<>>
  /\ connected_to # NoAddr
  /\ requests' = Tail(requests)
  /\ UNCHANGED <<stateVars, peerVars, taskVars, wanted>>

\* The address is the one that connected_to names: a duplicate.
ManagerSkips ==
  /\ requests # <<>>
  /\ Head(requests) = connected_to
  /\ requests' = Tail(requests)
  /\ UNCHANGED <<stateVars, peerVars, taskVars, wanted>>

\* connected_to is taken over, and a task is spawned.
ManagerStarts(t) ==
  /\ requests # <<>>
  /\ Head(requests) # connected_to
  /\ phase[t] = "Free"
  /\ requests' = Tail(requests)
  /\ connected_to' = Head(requests)
  /\ disconnect_requested' = FALSE
  /\ phase' = [phase EXCEPT ![t] = "SettingUp"]
  /\ target' = [target EXCEPT ![t] = Head(requests)]
  /\ UNCHANGED <<peerVars, goodbye, wanted>>

-----------------------------------------------------------------------------
(* A session task.                                                         *)

\* connect, negotiate_tls, exchange_identity or perform_pairing fails.
SetUpFails(t) ==
  /\ phase[t] = "SettingUp"
  /\ phase' = [phase EXCEPT ![t] = "Over"]
  /\ UNCHANGED <<requests, stateVars, peerVars, target, goodbye, wanted>>

\* register_peer_in_ipc_and_config: whatever happened since the manager
\* started this task, the state names its address again.
Register(t) ==
  LET a == target[t] IN
  /\ phase[t] = "SettingUp"
  /\ connected_to' = a
  /\ address' = [address EXCEPT ![Owner[a]] = IF @ = NoAddr THEN a ELSE @]
  /\ connected' = connected \cup {Owner[a]}
  /\ phase' = [phase EXCEPT ![t] = "Registered"]
  /\ UNCHANGED <<requests, disconnect_requested, target, goodbye, wanted>>

\* The devices are open: subscribe to the broadcasts and enter the loop.
Subscribe(t) ==
  /\ phase[t] = "Registered"
  /\ phase' = [phase EXCEPT ![t] = "Running"]
  /\ UNCHANGED <<requests, stateVars, peerVars, target, goodbye, wanted>>

\* Mutant: the guard only resets the agent's own state.
DropGuardForgetsPeer(t) ==
  /\ connected_to' = IF connected_to = target[t] THEN NoAddr ELSE connected_to
  /\ phase' = [phase EXCEPT ![t] = "Over"]
  /\ goodbye' = goodbye \ {t}
  /\ UNCHANGED <<requests, disconnect_requested, peerVars, target, wanted>>

\* connect_to returns, and its PeerConnectedGuard is dropped.
DropGuard(t) ==
  /\ connected' = {p \in connected : address[p] # target[t]}
  /\ connected_to' = IF connected_to = target[t] THEN NoAddr ELSE connected_to
  /\ phase' = [phase EXCEPT ![t] = "Over"]
  /\ goodbye' = goodbye \ {t}
  /\ UNCHANGED <<requests, disconnect_requested, address, target, wanted>>

\* The devices cannot be opened, or the event loop ends for a reason of its
\* own: the peer's Goodbye, an error, missed heartbeats.
SessionEnds(t) == phase[t] \in {"Registered", "Running"} /\ DropGuard(t)

\* The event loop receives the broadcast Goodbye.
GoodbyeEnds(t) == phase[t] = "Running" /\ t \in goodbye /\ DropGuard(t)

\* Mutant: the task relies on the guard, which a failed set-up never had.
ClearConnectedLeftToGuard(t) ==
  /\ phase[t] = "Over"
  /\ phase' = [phase EXCEPT ![t] = "Cleared"]
  /\ UNCHANGED <<requests, stateVars, peerVars, target, goodbye, wanted>>

\* The task clears connected_to, whichever session it names.
ClearConnected(t) ==
  /\ phase[t] = "Over"
  /\ connected_to' = NoAddr
  /\ phase' = [phase EXCEPT ![t] = "Cleared"]
  /\ UNCHANGED <<requests, disconnect_requested, peerVars, target, goodbye,
                 wanted>>

\* Mutant: a retry only for what is still shown as connected.
DecideRetryIfConnected(t) ==
  LET a == target[t]
      retry == ~disconnect_requested /\ connected_to = a IN
  /\ phase[t] = "Cleared"
  /\ phase' = [phase EXCEPT ![t] = IF retry THEN "Waiting" ELSE "Free"]
  /\ target' = [target EXCEPT ![t] = IF retry THEN a ELSE NoAddr]
  /\ wanted' = IF Configured(a) THEN wanted ELSE wanted \ {a}
  /\ UNCHANGED <<requests, stateVars, peerVars, goodbye>>

\* should_retry.  The address of a peer that is not configured (its set-up
\* failed, or it was removed or moved) is given up.
DecideRetry(t) ==
  LET a == target[t]
      retry == ~disconnect_requested /\ Configured(a) IN
  /\ phase[t] = "Cleared"
  /\ phase' = [phase EXCEPT ![t] = IF retry THEN "Waiting" ELSE "Free"]
  /\ target' = [target EXCEPT ![t] = IF retry THEN a ELSE NoAddr]
  /\ wanted' = IF Configured(a) THEN wanted ELSE wanted \ {a}
  /\ UNCHANGED <<requests, stateVars, peerVars, goodbye>>

\* 3 s later the address is queued again and the task is done.
Retry(t) ==
  /\ phase[t] = "Waiting"
  /\ requests' = Append(requests, target[t])
  /\ phase' = [phase EXCEPT ![t] = "Free"]
  /\ target' = [target EXCEPT ![t] = NoAddr]
  /\ UNCHANGED <<stateVars, peerVars, goodbye, wanted>>

-----------------------------------------------------------------------------
User == Disconnect \/ \E a \in Addrs : Connect(a) \/ ForgetPeer(a)
Network == \E a \in Addrs : InboundSession(a) \/ Discover(a)
Manager == ManagerSkips \/ \E t \in Tasks : ManagerStarts(t)
Session(t) ==
  \/ SetUpFails(t) \/ Register(t) \/ Subscribe(t)
  \/ SessionEnds(t) \/ GoodbyeEnds(t)
  \/ ClearConnected(t) \/ DecideRetry(t) \/ Retry(t)

Next == User \/ Network \/ Manager \/ \E t \in Tasks : Session(t)

Spec == Init /\ [][Next]_vars

\* The manager and every task that is ready run on.  Nothing is assumed of a
\* set-up (the user may never accept the pairing), of a running session, or of
\* the user.
Fairness ==
  /\ WF_vars(Manager)
  /\ \A t \in Tasks :
       /\ WF_vars(Subscribe(t)) /\ WF_vars(GoodbyeEnds(t))
       /\ WF_vars(ClearConnected(t)) /\ WF_vars(DecideRetry(t))
       /\ WF_vars(Retry(t))

FairSpec == Spec /\ Fairness

-----------------------------------------------------------------------------
(* Properties.                                                             *)

\* Every variable has its type; tasks have an address exactly while they
\* live; only entries that exist are flagged, and hold an address of theirs.
TypeOK ==
  /\ requests \in Seq(Addrs)
  /\ connected_to \in Addrs \cup {NoAddr}
  /\ disconnect_requested \in BOOLEAN
  /\ address \in [Peers -> Addrs \cup {NoAddr}]
  /\ \A p \in Peers : address[p] # NoAddr => Owner[address[p]] = p
  /\ connected \subseteq {p \in Peers : address[p] # NoAddr}
  /\ phase \in [Tasks -> Phase]
  /\ target \in [Tasks -> Addrs \cup {NoAddr}]
  /\ \A t \in Tasks : target[t] = NoAddr <=> phase[t] = "Free"
  /\ goodbye \subseteq {t \in Tasks : phase[t] = "Running"}
  /\ wanted \subseteq Addrs

\* While connected_to names an address, a task for that address is setting
\* up, connected, or about to clear it (main.rs:281: otherwise every further
\* request for the address would be skipped as a duplicate for ever).
ConnectedToLive ==
  connected_to # NoAddr =>
    \E t \in Tasks : target[t] = connected_to /\ (Active(t) \/ phase[t] = "Over")

\* An address the user asked for, and has neither disconnected nor removed
\* since, is queued or has a task that connects to it, ends, or waits to
\* retry: no request is lost on the way through skip, failure and retry.
WantedIsPursued ==
  \A a \in wanted :
    Queued(a) \/ \E t \in Tasks : target[t] = a /\ phase[t] # "Free"

\* With the user's wish a Disconnect is taken back; both are needed for
\* WantedIsPursued to be inductive.
PursuitInv ==
  /\ ConnectedToLive
  /\ WantedIsPursued
  /\ wanted # {} => ~disconnect_requested

\* No machine has two addresses.
OneAddressEach == \A a, b \in Addrs : Owner[a] = Owner[b] => a = b

\* A peer shown as connected has a session (the guard clears the flag on every
\* way out of connect_to), if OneAddressEach: the guard looks for the entry by
\* the address of its session (client.rs:43).
ShownConnectedHasSession ==
  \A p \in connected :
    \E t \in Tasks :
      phase[t] \in {"Registered", "Running"} /\ Owner[target[t]] = p

\* A peer that stays wanted is attempted again and again: whatever fails,
\* a session for it is being set up or runs, infinitely often.  (The tasks
\* are a bound of the model: a request waits while none is free.)
WantedIsAttempted ==
  \A a \in Addrs :
    []<>(\/ a \notin wanted
         \/ \E t \in Tasks : target[t] = a /\ Active(t)
         \/ \A t \in Tasks : phase[t] # "Free")
=============================================================================
