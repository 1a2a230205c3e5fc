------------------------------ MODULE Pairing ------------------------------
(***************************************************************************)
(* The opening of a session: TLS negotiation, exchange of identities,      *)
(* pairing, and the first message of either side, after the functions of   *)
(* manguesechee-agent/src/client.rs (the end that dials) and server.rs     *)
(* (the end that listens) up to their event loops, and the store of known  *)
(* peers of session.rs.  An agent is the server of the connections it      *)
(* receives and the client of those it dials, often both with one peer.    *)
(* The six digits, names, the peer list and the configuration are left     *)
(* out; a code is always echoed as it came.  The handshake of TLS is one   *)
(* step.  A connection is dialled again once both ends of it are closed.   *)
(***************************************************************************)
EXTENDS Naturals, SequencesExt

CONSTANTS
  Agents,
  Dials,     \* pairs <<client, server>>
  TlsOn,     \* agents with tls_enabled
  Asks,      \* agents with a terminal: their user is asked, and may refuse
  Paired,    \* pairs <<a, b>>: a knows b at the start
  MaxFaults  \* bound on renamed agents, broken links, failed saves, crashes

ASSUME PairingAssumption ==
  /\ Dials \subseteq {d \in Agents \X Agents : d[1] # d[2]}
  /\ TlsOn \subseteq Agents /\ Asks \subseteq Agents
  /\ Paired \subseteq Agents \X Agents
  /\ MaxFaults \in Nat

VARIABLES
  known,     \* known_peers.json of each agent
  client, server,     \* where the two ends of each connection are
  clientCopy, serverCopy, \* `known` as the pairing function loaded it
  clientTls, serverTls,   \* what the end negotiated
  toServer, toClient, \* the messages under way
  link,      \* connections that are open at both ends
  queue,     \* what the server's session queued in out_tx
  renamed,   \* sessions of the server with an IdentityUpdate broadcast
  clientSaw, serverSaw,   \* history: the FileTransferStatus was handled
  consent,   \* history: pairs of agents that a user accepted
  unasked,   \* history: those that an agent without a terminal accepted
  faults

ends == <<client, server, clientCopy, serverCopy, clientTls, serverTls>>
wires == <<toServer, toClient, link, queue, renamed>>
history == <<clientSaw, serverSaw, consent, unasked>>
vars == <<known, ends, wires, history, faults>>

C(d) == d[1]
S(d) == d[2]

ClientSteps == {"Closed", "Tls", "Identity", "Pair", "Session"}
ServerSteps == {"Closed", "Tls", "Identity", "Pair", "Prompt", "Save",
                "Session"}

\* `flag` is the one of StartTls (requested) and StartTlsAck (accept).
Msg(kind, flag) == [kind |-> kind, flag |-> flag]
Plain(kind) == Msg(kind, FALSE)
Status == Plain("FileTransferStatus")

Init ==
  /\ known = [a \in Agents |-> {b \in Agents : <<a, b>> \in Paired}]
  /\ client = [d \in Dials |-> "Closed"] /\ server = [d \in Dials |-> "Closed"]
  /\ clientCopy = [d \in Dials |-> {}] /\ serverCopy = [d \in Dials |-> {}]
  /\ clientTls = [d \in Dials |-> FALSE] /\ serverTls = [d \in Dials |-> FALSE]
  /\ toServer = [d \in Dials |-> <<>>] /\ toClient = [d \in Dials |-> <<>>]
  /\ link = {} /\ queue = [d \in Dials |-> <<>>] /\ renamed = {}
  /\ clientSaw = {} /\ serverSaw = {}
  /\ consent = {{p[1], p[2]} : p \in Paired} /\ unasked = {}
  /\ faults = 0

-----------------------------------------------------------------------------
(* Sending and receiving.  What is sent on a closed connection is lost.    *)

SendToServer(d, ms) == [toServer EXCEPT ![d] = IF d \in link THEN @ \o ms ELSE @]
SendToClient(d, ms) == [toClient EXCEPT ![d] = IF d \in link THEN @ \o ms ELSE @]

AtServer(d, step, kind) ==
  /\ server[d] = step
  /\ toServer[d] # <<>> /\ Head(toServer[d]).kind = kind

AtClient(d, step, kind) ==
  /\ client[d] = step
  /\ toClient[d] # <<>> /\ Head(toClient[d]).kind = kind

TakenAtServer(d) == toServer' = [toServer EXCEPT ![d] = Tail(@)]
TakenAtClient(d) == toClient' = [toClient EXCEPT ![d] = Tail(@)]

\* An end returns an error or its session ends: its socket is dropped.
ClientCloses(ds) ==
  /\ client' = [d \in Dials |-> IF d \in ds THEN "Closed" ELSE client[d]]
  /\ clientCopy' = [d \in Dials |-> IF d \in ds THEN {} ELSE clientCopy[d]]
  /\ link' = link \ ds

ServerCloses(ds) ==
  /\ server' = [d \in Dials |-> IF d \in ds THEN "Closed" ELSE server[d]]
  /\ serverCopy' = [d \in Dials |-> IF d \in ds THEN {} ELSE serverCopy[d]]
  /\ link' = link \ ds
  /\ queue' = [d \in Dials |-> IF d \in ds THEN <<>> ELSE queue[d]]
  /\ renamed' = renamed \ ds

-----------------------------------------------------------------------------
(* TLS and identities.                                                     *)

Dial(d) ==
  /\ client[d] = "Closed" /\ server[d] = "Closed"
  /\ client' = [client EXCEPT ![d] = "Tls"]
  /\ server' = [server EXCEPT ![d] = "Tls"]
  /\ clientTls' = [clientTls EXCEPT ![d] = FALSE]
  /\ serverTls' = [serverTls EXCEPT ![d] = FALSE]
  /\ link' = link \cup {d}
  /\ toServer' = [toServer EXCEPT ![d] = <<Msg("StartTls", C(d) \in TlsOn)>>]
  /\ toClient' = [toClient EXCEPT ![d] = <<>>]
  /\ clientSaw' = clientSaw \ {d} /\ serverSaw' = serverSaw \ {d}
  /\ UNCHANGED <<known, clientCopy, serverCopy, queue, renamed, consent,
                 unasked, faults>>

\* Mutant: the server encrypts when it can, requested or not, and says
\* what was requested.
AnswerTlsByOwnSetting(d) ==
  LET requested == Head(toServer[d]).flag IN
  /\ AtServer(d, "Tls", "StartTls") /\ TakenAtServer(d)
  /\ toClient' = SendToClient(d, <<Msg("StartTlsAck", requested)>>)
  /\ serverTls' = [serverTls EXCEPT ![d] = requested /\ S(d) \in TlsOn]
  /\ server' = [server EXCEPT ![d] = "Identity"]
  /\ UNCHANGED <<known, client, clientCopy, serverCopy, clientTls, link, queue,
                 renamed, history, faults>>

AnswerTls(d) ==
  LET accept == Head(toServer[d]).flag /\ S(d) \in TlsOn IN
  /\ AtServer(d, "Tls", "StartTls") /\ TakenAtServer(d)
  /\ toClient' = SendToClient(d, <<Msg("StartTlsAck", accept)>>)
  /\ serverTls' = [serverTls EXCEPT ![d] = accept]
  /\ server' = [server EXCEPT ![d] = "Identity"]
  /\ UNCHANGED <<known, client, clientCopy, serverCopy, clientTls, link, queue,
                 renamed, history, faults>>

\* ... and exchange_identity sends.
ReceiveTlsAnswer(d) ==
  /\ AtClient(d, "Tls", "StartTlsAck") /\ TakenAtClient(d)
  /\ clientTls' = [clientTls EXCEPT ![d] = Head(toClient[d]).flag]
  /\ toServer' = SendToServer(d, <<Plain("Identity")>>)
  /\ client' = [client EXCEPT ![d] = "Identity"]
  /\ UNCHANGED <<known, server, clientCopy, serverCopy, serverTls, link, queue,
                 renamed, history, faults>>

\* The session of the server starts with its FileTransferStatus queued.
ServerEnters(d) ==
  /\ server' = [server EXCEPT ![d] = "Session"]
  /\ serverCopy' = [serverCopy EXCEPT ![d] = {}]
  /\ queue' = [queue EXCEPT ![d] = <<Status>>]

\* The client sends its own before its event loop.
ClientEnters(d) ==
  /\ client' = [client EXCEPT ![d] = "Session"]
  /\ clientCopy' = [clientCopy EXCEPT ![d] = {}]
  /\ toServer' = SendToServer(d, <<Status>>)

\* The server answers with its identity and loads the known peers.
ServerIdentifies(d) ==
  /\ AtServer(d, "Identity", "Identity") /\ TakenAtServer(d)
  /\ toClient' = SendToClient(d, <<Plain("Identity")>>)
  /\ IF C(d) \in known[S(d)]
     THEN ServerEnters(d)
     ELSE /\ server' = [server EXCEPT ![d] = "Pair"]
          /\ serverCopy' = [serverCopy EXCEPT ![d] = known[S(d)]]
          /\ UNCHANGED queue
  /\ UNCHANGED <<known, client, clientCopy, clientTls, serverTls, link, renamed,
                 history, faults>>

ClientIdentifies(d) ==
  /\ AtClient(d, "Identity", "Identity") /\ TakenAtClient(d)
  /\ IF S(d) \in known[C(d)]
     THEN ClientEnters(d)
     ELSE /\ client' = [client EXCEPT ![d] = "Pair"]
          /\ clientCopy' = [clientCopy EXCEPT ![d] = known[C(d)]]
          /\ toServer' = SendToServer(d, <<Plain("PairRequest")>>)
  /\ UNCHANGED <<known, server, serverCopy, clientTls, serverTls, link, queue,
                 renamed, history, faults>>

-----------------------------------------------------------------------------
(* Pairing at the server.  What save_known_peers writes is the copy loaded *)
(* when the pairing began, with the new peer.                              *)

SaveServer(d) ==
  \/ known' = [known EXCEPT ![S(d)] = serverCopy[d] \cup {C(d)}]
     /\ UNCHANGED faults
  \/ /\ faults < MaxFaults /\ faults' = faults + 1 /\ UNCHANGED known

Ask(d) ==
  /\ AtServer(d, "Pair", "PairRequest") /\ TakenAtServer(d)
  /\ server' = [server EXCEPT ![d] = "Prompt"]
  /\ UNCHANGED <<known, client, clientCopy, serverCopy, clientTls, serverTls,
                 toClient, link, queue, renamed, history, faults>>

\* prompt_accept asks the user of the server where there is a terminal, and
\* accepts by itself where there is none (daemon mode).
PromptAccept(d) ==
  \/ /\ S(d) \in Asks
     /\ consent' = consent \cup {{C(d), S(d)}} /\ UNCHANGED unasked
  \/ /\ S(d) \notin Asks
     /\ unasked' = unasked \cup {{C(d), S(d)}} /\ UNCHANGED consent

\* PairAccepted is sent before the peer is stored.
Accept(d) ==
  /\ server[d] = "Prompt"
  /\ server' = [server EXCEPT ![d] = "Save"]
  /\ toClient' = SendToClient(d, <<Plain("PairAccepted")>>)
  /\ PromptAccept(d)
  /\ UNCHANGED <<known, client, clientCopy, serverCopy, clientTls, serverTls,
                 toServer, link, queue, renamed, clientSaw, serverSaw, faults>>

ServerSaves(d) ==
  /\ server[d] = "Save"
  /\ SaveServer(d) /\ ServerEnters(d)
  /\ UNCHANGED <<client, clientCopy, clientTls, serverTls, toServer, toClient,
                 link, renamed, history>>

Refuse(d) ==
  /\ server[d] = "Prompt" /\ S(d) \in Asks
  /\ toClient' = SendToClient(d, <<Plain("PairRejected")>>)
  /\ ServerCloses({d})
  /\ UNCHANGED <<known, client, clientCopy, clientTls, serverTls, toServer,
                 history, faults>>

\* Mutant: the message is lost once it has shown that the client knows us.
ServerTrustsAndDrops(d) ==
  /\ AtServer(d, "Pair", "FileTransferStatus") /\ TakenAtServer(d)
  /\ SaveServer(d) /\ ServerEnters(d)
  /\ UNCHANGED <<client, clientCopy, clientTls, serverTls, toClient, link,
                 renamed, history>>

\* A session message instead of a request: the client knows this agent.  It
\* is handled first in the session.
ServerTrusts(d) ==
  /\ AtServer(d, "Pair", "FileTransferStatus") /\ TakenAtServer(d)
  /\ SaveServer(d) /\ ServerEnters(d)
  /\ serverSaw' = serverSaw \cup {d}
  /\ UNCHANGED <<client, clientCopy, clientTls, serverTls, toClient, link,
                 renamed, clientSaw, consent, unasked>>

-----------------------------------------------------------------------------
(* Pairing at the client.                                                  *)

\* Mutant: the peer is stored under its name.
ClientPairedByName(d) ==
  /\ AtClient(d, "Pair", "PairAccepted") /\ TakenAtClient(d)
  /\ known' = [known EXCEPT ![C(d)] = clientCopy[d] \cup {<<S(d), "name">>}]
  /\ ClientEnters(d)
  /\ UNCHANGED <<server, serverCopy, clientTls, serverTls, link, queue, renamed,
                 history, faults>>

ClientPaired(d) ==
  /\ AtClient(d, "Pair", "PairAccepted") /\ TakenAtClient(d)
  /\ known' = [known EXCEPT ![C(d)] = clientCopy[d] \cup {S(d)}]
  /\ ClientEnters(d)
  /\ UNCHANGED <<server, serverCopy, clientTls, serverTls, link, queue, renamed,
                 history, faults>>

\* ... and with an error of save_known_peers the session ends.
ClientCannotSave(d) ==
  /\ AtClient(d, "Pair", "PairAccepted") /\ TakenAtClient(d)
  /\ faults < MaxFaults /\ faults' = faults + 1
  /\ ClientCloses({d})
  /\ UNCHANGED <<known, server, serverCopy, clientTls, serverTls, toServer,
                 queue, renamed, history>>

\* Mutant: a client that pairs takes no session message for an answer.
ClientTrustsNobody(d) ==
  /\ AtClient(d, "Pair", "FileTransferStatus") /\ TakenAtClient(d)
  /\ ClientCloses({d})
  /\ UNCHANGED <<known, server, serverCopy, clientTls, serverTls, toServer,
                 queue, renamed, history, faults>>

\* The server sent a session message: it knows this agent.
ClientTrusts(d) ==
  /\ AtClient(d, "Pair", "FileTransferStatus") /\ TakenAtClient(d)
  /\ \/ known' = [known EXCEPT ![C(d)] = clientCopy[d] \cup {S(d)}]
        /\ UNCHANGED faults
     \/ /\ faults < MaxFaults /\ faults' = faults + 1 /\ UNCHANGED known
  /\ ClientEnters(d)
  /\ clientSaw' = clientSaw \cup {d}
  /\ UNCHANGED <<server, serverCopy, clientTls, serverTls, link, queue, renamed,
                 serverSaw, consent, unasked>>

\* Mutant: a rejection is taken for an answer like the others.
ClientIgnoresRefusal(d) ==
  /\ AtClient(d, "Pair", "PairRejected") /\ TakenAtClient(d)
  /\ known' = [known EXCEPT ![C(d)] = clientCopy[d] \cup {S(d)}]
  /\ ClientEnters(d)
  /\ UNCHANGED <<server, serverCopy, clientTls, serverTls, link, queue, renamed,
                 history, faults>>

ClientRefused(d) ==
  /\ AtClient(d, "Pair", "PairRejected") /\ TakenAtClient(d)
  /\ ClientCloses({d})
  /\ UNCHANGED <<known, server, serverCopy, clientTls, serverTls, toServer,
                 queue, renamed, history, faults>>

\* Anything else is an error, here an IdentityUpdate that a broadcast of the
\* server sent before its FileTransferStatus.
ClientBails(d) ==
  /\ AtClient(d, "Pair", "IdentityUpdate") /\ TakenAtClient(d)
  /\ ClientCloses({d})
  /\ UNCHANGED <<known, server, serverCopy, clientTls, serverTls, toServer,
                 queue, renamed, history, faults>>

-----------------------------------------------------------------------------
(* The session, as far as it concerns its opening.                         *)

\* The outbound sender takes from the session's queue or from the broadcasts.
ServerSends(d) ==
  \/ /\ queue[d] # <<>>
     /\ toClient' = SendToClient(d, <<Head(queue[d])>>)
     /\ queue' = [queue EXCEPT ![d] = Tail(@)]
     /\ UNCHANGED <<known, ends, toServer, link, renamed, history, faults>>
  \/ /\ d \in renamed
     /\ toClient' = SendToClient(d, <<Plain("IdentityUpdate")>>)
     /\ renamed' = renamed \ {d}
     /\ UNCHANGED <<known, ends, toServer, link, queue, history, faults>>

ServerHandles(d) ==
  LET m == Head(toServer[d]) IN
  /\ server[d] = "Session" /\ toServer[d] # <<>> /\ TakenAtServer(d)
  /\ queue' = IF m.kind = "PairRequest"
              THEN [queue EXCEPT ![d] = Append(@, Plain("PairAccepted"))]
              ELSE queue
  /\ serverSaw' = IF m = Status THEN serverSaw \cup {d} ELSE serverSaw
  /\ UNCHANGED <<known, ends, toClient, link, renamed, clientSaw, consent,
                 unasked, faults>>

ClientHandles(d) ==
  /\ client[d] = "Session" /\ toClient[d] # <<>> /\ TakenAtClient(d)
  /\ clientSaw' = IF Head(toClient[d]) = Status
                  THEN clientSaw \cup {d} ELSE clientSaw
  /\ UNCHANGED <<known, ends, toServer, link, queue, renamed, serverSaw,
                 consent, unasked, faults>>

\* An end notices that the connection is gone: a read or a write fails.
ClientEnds(d) ==
  /\ client[d] # "Closed" /\ d \notin link
  /\ ClientCloses({d})
  /\ UNCHANGED <<known, server, serverCopy, clientTls, serverTls, toServer,
                 toClient, queue, renamed, history, faults>>

ServerEnds(d) ==
  /\ server[d] \notin {"Closed", "Prompt", "Save"} /\ d \notin link
  /\ ServerCloses({d})
  /\ UNCHANGED <<known, client, clientCopy, clientTls, serverTls, toServer,
                 toClient, history, faults>>

-----------------------------------------------------------------------------
(* The user and the faults.                                                *)

\* SetDisplayName broadcasts to the sessions of the agent.
Rename(a) ==
  /\ faults < MaxFaults /\ faults' = faults + 1
  /\ renamed' = renamed \cup {d \in Dials : S(d) = a /\ server[d] = "Session"}
  /\ toServer' = [d \in Dials |->
       IF C(d) = a /\ client[d] = "Session" /\ d \in link
       THEN Append(toServer[d], Plain("IdentityUpdate")) ELSE toServer[d]]
  /\ UNCHANGED <<known, ends, toClient, link, queue, history>>

LinkBreaks(d) ==
  /\ d \in link
  /\ faults < MaxFaults /\ faults' = faults + 1
  /\ link' = link \ {d}
  /\ UNCHANGED <<known, ends, toServer, toClient, queue, renamed, history>>

\* The agent dies and is started again.  A save it was in leaves a file cut
\* short, which load_known_peers().unwrap_or_default() reads as no peers.
Crash(a) ==
  LET mine == {d \in Dials : C(d) = a \/ S(d) = a}
      saving == \/ \E d \in Dials : C(d) = a /\ client[d] = "Pair"
                \/ \E d \in Dials : S(d) = a /\ server[d] \in {"Pair", "Save"}
  IN
  /\ faults < MaxFaults /\ faults' = faults + 1
  /\ known' \in {known} \cup IF saving THEN {[known EXCEPT ![a] = {}]} ELSE {}
  /\ client' = [d \in Dials |-> IF C(d) = a THEN "Closed" ELSE client[d]]
  /\ clientCopy' = [d \in Dials |-> IF C(d) = a THEN {} ELSE clientCopy[d]]
  /\ server' = [d \in Dials |-> IF S(d) = a THEN "Closed" ELSE server[d]]
  /\ serverCopy' = [d \in Dials |-> IF S(d) = a THEN {} ELSE serverCopy[d]]
  /\ queue' = [d \in Dials |-> IF S(d) = a THEN <<>> ELSE queue[d]]
  /\ renamed' = {d \in renamed : S(d) # a}
  /\ link' = link \ mine
  /\ UNCHANGED <<clientTls, serverTls, toServer, toClient, history>>

-----------------------------------------------------------------------------
ClientStep(d) ==
  \/ Dial(d) \/ ReceiveTlsAnswer(d) \/ ClientIdentifies(d)
  \/ ClientPaired(d) \/ ClientTrusts(d) \/ ClientRefused(d) \/ ClientBails(d)
  \/ ClientHandles(d) \/ ClientEnds(d)

ServerStep(d) ==
  \/ AnswerTls(d) \/ ServerIdentifies(d) \/ Ask(d) \/ Accept(d)
  \/ ServerSaves(d) \/ Refuse(d) \/ ServerTrusts(d)
  \/ ServerHandles(d) \/ ServerEnds(d)

Next ==
  \/ \E d \in Dials : ClientStep(d)
  \/ \E d \in Dials : ServerStep(d)
  \/ \E d \in Dials : ServerSends(d)
  \/ \E d \in Dials : ClientCannotSave(d) \/ LinkBreaks(d)
  \/ \E a \in Agents : Rename(a) \/ Crash(a)

Spec == Init /\ [][Next]_vars

\* The tasks run, and a prompt is answered; nothing obliges the faults.
Fairness ==
  \A d \in Dials :
    /\ WF_vars(ClientStep(d)) /\ WF_vars(ServerStep(d))
    /\ WF_vars(ServerSends(d))

FairSpec == Spec /\ Fairness

-----------------------------------------------------------------------------
Kinds == {"StartTls", "StartTlsAck", "Identity", "PairRequest", "PairAccepted",
          "PairRejected", "FileTransferStatus", "IdentityUpdate"}
Messages == [kind : Kinds, flag : BOOLEAN]

\* The type of every variable.
TypeOK ==
  /\ known \in [Agents -> SUBSET Agents]
  /\ client \in [Dials -> ClientSteps] /\ server \in [Dials -> ServerSteps]
  /\ clientCopy \in [Dials -> SUBSET Agents]
  /\ serverCopy \in [Dials -> SUBSET Agents]
  /\ clientTls \in [Dials -> BOOLEAN] /\ serverTls \in [Dials -> BOOLEAN]
  /\ toServer \in [Dials -> Seq(Messages)]
  /\ toClient \in [Dials -> Seq(Messages)]
  /\ link \subseteq Dials /\ queue \in [Dials -> Seq(Messages)]
  /\ renamed \subseteq Dials
  /\ clientSaw \subseteq Dials /\ serverSaw \subseteq Dials
  /\ consent \subseteq SUBSET Agents /\ unasked \subseteq SUBSET Agents
  /\ faults \in 0..MaxFaults

\* An agent stores a peer only if the user of one of the two was asked and
\* accepted, on whichever connection and however long ago, or if one of the
\* two has no terminal and accepted by itself.  A user's refusal is never
\* overridden, although perform_pairing and perform_pairing_server also trust
\* a peer that behaves as if it knew them.  The second case is what
\* prompt_accept does in daemon mode (session.rs:67); docs/architecture.md:83
\* says that a first connection "require[s] confirmation" of the six digits.
TrustHasConsent ==
  \A a \in Agents : \A b \in known[a] :
    \/ {a, b} \in consent
    \/ {a, b} \in unasked /\ ~({a, b} \subseteq Asks)

\* The two ends of a connection agree on whether it is encrypted, and it is
\* when both have TLS enabled (negotiate_tls).
EncryptionAgrees ==
  \A d \in Dials :
    (server[d] # "Closed" /\ client[d] \notin {"Closed", "Tls"}) =>
      /\ clientTls[d] = serverTls[d]
      /\ clientTls[d] <=> {C(d), S(d)} \subseteq TlsOn

\* When nothing is under way in a session, each end has handled the other's
\* FileTransferStatus, whichever function received it (initial_msg).
StatusIsHandled ==
  \A d \in Dials :
    (/\ client[d] = "Session" /\ server[d] = "Session" /\ d \in link
     /\ toServer[d] = <<>> /\ toClient[d] = <<>> /\ queue[d] = <<>>) =>
      d \in clientSaw /\ d \in serverSaw

\* Whatever each side knows of the other, and whatever they lost in a crash,
\* every connection ends up in a session at both ends: neither waits for a
\* message that the other will not send.
SessionsOpen ==
  \A d \in Dials :
    <>[](client[d] = "Session" /\ server[d] = "Session" /\ d \in link)

\* docs/architecture.md:83: verified peers "are permanently stored".
NeverForgotten == [][\A a \in Agents : known[a] \subseteq known'[a]]_vars
=============================================================================
