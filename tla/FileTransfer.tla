---------------------------- MODULE FileTransfer ----------------------------
(***************************************************************************)
(* The transfer of copied files from one machine to another, after         *)
(* manguesechee-agent/src/file_transfer.rs and the staging directories of  *)
(* file_clipboard.rs.  Small transfers ("fast") run one after the other in *)
(* the outbound sender of the session, over the connection that also       *)
(* carries the input; large ones ("background") have a task and a          *)
(* connection of their own.  The content of a file is the set of its       *)
(* chunks; paths, sizes, percentages and notifications are left out.       *)
(***************************************************************************)
EXTENDS Integers, FiniteSets, SequencesExt

CONSTANTS
  Transfers, \* transfer ids
  Fast,      \* those below fast_limit
  Chunks,    \* Chunks[t][f]: the number of chunks of file f of transfer t
  KeepDirs,  \* staging directories that are kept (5 in the code)
  WireCap    \* messages a connection buffers (bound of the model)

ASSUME TransfersAssumption ==
  /\ Fast \subseteq Transfers /\ "main" \notin Transfers
  /\ Chunks \in [Transfers -> Seq(Nat)]
  /\ KeepDirs \in Nat /\ WireCap \in Nat \ {0}

VARIABLES
  \* the sending machine
  pc,         \* of the code that sends a transfer
  sent,       \* chunks of it sent so far
  outgoing,   \* AgentState.active_transfers, is_receiving = false
  sent_log,   \* its transfer_history
  \* the connections: "main" and one for each background transfer
  wire, up, open, \* open: the receiver has not ended
  \* the receiving machine
  file_transfer_enabled,
  receiving,  \* FileReceiver.active of all connections
  current,    \* the file a receiver has open, 0 for none
  unlinked,   \* transfers whose open file was removed from its directory
  dirs,       \* staging directories, the least recently modified first
  stored,     \* chunks on disk
  incoming,   \* AgentState.active_transfers, is_receiving = true
  clipboard,  \* the transfer whose files it offers, or None
  received_log, \* its transfer_history
  \* history
  failed,     \* transfers that the sender gave up
  lost,       \* connections that broke
  refused,    \* offers not taken up: file transfer was disabled, or no
              \* staging directory could be made
  damaged,    \* a chunk could not be written, or the source had shrunk
  swept       \* the staging directory was cleaned

senderVars == <<pc, sent, outgoing, sent_log>>
linkVars == <<wire, up, open>>
receiverVars ==
  <<file_transfer_enabled, receiving, current, unlinked, dirs, stored,
    incoming, clipboard, received_log>>
histVars == <<failed, lost, refused, damaged, swept>>
vars == <<senderVars, linkVars, receiverVars, histVars>>

None == "None"
Main == "main"
Background == Transfers \ Fast
Conns == {Main} \cup Background
Conn(t) == IF t \in Fast THEN Main ELSE t

Msg(kind, t, chunk) == [kind |-> kind, transfer |-> t, chunk |-> chunk]
NoChunk == <<0, 0>>

\* The chunks of a transfer in the order they are sent.  A file without
\* content has none: its first read returns 0.
ChunkList ==
  [t \in Transfers |->
    FlattenSeq([f \in DOMAIN Chunks[t] |->
                 [n \in 1..Chunks[t][f] |-> <<f, n>>]])]

Init ==
  /\ pc = [t \in Transfers |-> "Idle"] /\ sent = [t \in Transfers |-> 0]
  /\ outgoing = {} /\ sent_log = {}
  /\ wire = [c \in Conns |-> <<>>]
  /\ up = [c \in Conns |-> c = Main] /\ open = [c \in Conns |-> c = Main]
  /\ file_transfer_enabled = TRUE
  /\ receiving = {} /\ current = [t \in Transfers |-> 0] /\ unlinked = {}
  /\ dirs = <<>> /\ stored = [t \in Transfers |-> {}]
  /\ incoming = {} /\ clipboard = None /\ received_log = {}
  /\ failed = {} /\ lost = {} /\ refused = {} /\ damaged = {} /\ swept = {}

-----------------------------------------------------------------------------
(* The sending machine.                                                    *)

Running(t) == pc[t] \in {"Init", "Tls", "Offer", "Stream"}

\* The outbound sender runs one fast transfer at a time.
Start(t) ==
  /\ pc[t] = "Idle"
  /\ t \in Fast => \A u \in Fast : ~Running(u)
  /\ pc' = [pc EXCEPT ![t] = IF t \in Fast THEN "Offer" ELSE "Init"]
  /\ outgoing' = outgoing \cup {t}
  /\ UNCHANGED <<sent, sent_log, linkVars, receiverVars, histVars>>

Send(c, m) ==
  /\ up[c] /\ Len(wire[c]) < WireCap
  /\ wire' = [wire EXCEPT ![c] = Append(@, m)]

\* connect, and StartTls, whose answer is then waited for without a timeout.
Connect(t) ==
  /\ pc[t] = "Init"
  /\ pc' = [pc EXCEPT ![t] = "Tls"]
  /\ UNCHANGED <<sent, outgoing, sent_log, linkVars, receiverVars, histVars>>

\* The answer has come (Pairing says which), and FileChannelInit is sent.
OpenChannel(t) ==
  /\ pc[t] = "Tls"
  /\ pc' = [pc EXCEPT ![t] = "Offer"]
  /\ wire' = [wire EXCEPT ![t] = <<Msg("Init", t, NoChunk)>>]
  /\ up' = [up EXCEPT ![t] = TRUE] /\ open' = [open EXCEPT ![t] = TRUE]
  /\ UNCHANGED <<sent, outgoing, sent_log, receiverVars, histVars>>

SendOffer(t) ==
  /\ pc[t] = "Offer"
  /\ Send(Conn(t), Msg("Offer", t, NoChunk))
  /\ pc' = [pc EXCEPT ![t] = "Stream"]
  /\ UNCHANGED <<sent, outgoing, sent_log, up, open, receiverVars, histVars>>

SendChunk(t) ==
  /\ pc[t] = "Stream" /\ sent[t] < Len(ChunkList[t])
  /\ Send(Conn(t), Msg("Chunk", t, ChunkList[t][sent[t] + 1]))
  /\ sent' = [sent EXCEPT ![t] = @ + 1]
  /\ UNCHANGED <<pc, outgoing, sent_log, up, open, receiverVars, histVars>>

\* A file has become shorter since it was listed: what is left is skipped.
SourceShrinks(t) ==
  LET file == ChunkList[t][sent[t] + 1][1] IN
  /\ pc[t] = "Stream" /\ sent[t] < Len(ChunkList[t])
  /\ sent' = [sent EXCEPT ![t] =
       CHOOSE k \in @..Len(ChunkList[t]) :
         /\ \A i \in (@ + 1)..k : ChunkList[t][i][1] = file
         /\ k < Len(ChunkList[t]) => ChunkList[t][k + 1][1] # file]
  /\ damaged' = damaged \cup {t}
  /\ UNCHANGED <<pc, outgoing, sent_log, linkVars, receiverVars, failed,
                 lost, refused, swept>>

\* Mutant: done when the last chunk is about to be read.
SendDoneEarly(t) ==
  /\ pc[t] = "Stream" /\ sent[t] >= Len(ChunkList[t]) - 1
  /\ Send(Conn(t), Msg("Done", t, NoChunk))
  /\ pc' = [pc EXCEPT ![t] = "Over"]
  /\ outgoing' = outgoing \ {t} /\ sent_log' = sent_log \cup {t}
  /\ UNCHANGED <<sent, up, open, receiverVars, histVars>>

SendDone(t) ==
  /\ pc[t] = "Stream" /\ sent[t] = Len(ChunkList[t])
  /\ Send(Conn(t), Msg("Done", t, NoChunk))
  /\ pc' = [pc EXCEPT ![t] = "Over"]
  /\ outgoing' = outgoing \ {t} /\ sent_log' = sent_log \cup {t}
  /\ UNCHANGED <<sent, up, open, receiverVars, histVars>>

\* Mutant: the entry is removed only after a success.
GiveUpKeepsEntry(t) ==
  /\ pc' = [pc EXCEPT ![t] = "Over"]
  /\ failed' = failed \cup {t}
  /\ UNCHANGED <<sent, outgoing, sent_log, linkVars, receiverVars, lost,
                 refused, damaged, swept>>

\* The error path: the background task removes its entry in any case, the
\* fast one has left by `?` before its entry is removed.
GiveUp(t) ==
  /\ pc' = [pc EXCEPT ![t] = "Over"]
  /\ outgoing' = IF t \in Fast THEN outgoing ELSE outgoing \ {t}
  /\ failed' = failed \cup {t}
  /\ UNCHANGED <<sent, sent_log, linkVars, receiverVars, lost, refused,
                 damaged, swept>>

\* No connection, or it breaks before there is an answer.
ConnectFails(t) == pc[t] \in {"Init", "Tls"} /\ GiveUp(t)

SourceFails(t) == pc[t] = "Stream" /\ GiveUp(t)

\* Mutant: an offer that cannot be sent is waited for.
SendFailsLater(t) == pc[t] = "Stream" /\ ~up[Conn(t)] /\ GiveUp(t)

SendFails(t) == pc[t] \in {"Offer", "Stream"} /\ ~up[Conn(t)] /\ GiveUp(t)

-----------------------------------------------------------------------------
(* The connections.                                                        *)

\* The connection breaks; of what was sent, a beginning may still be read.
LinkDown(c) ==
  /\ up[c]
  /\ up' = [up EXCEPT ![c] = FALSE]
  /\ \E n \in 0..Len(wire[c]) :
       wire' = [wire EXCEPT ![c] = SubSeq(@, 1, n)]
  /\ lost' = lost \cup {c}
  /\ UNCHANGED <<senderVars, open, receiverVars, failed, refused, damaged,
                 swept>>

Reads(c, kind) == open[c] /\ wire[c] # <<>> /\ Head(wire[c]).kind = kind

Read(c) == wire' = [wire EXCEPT ![c] = Tail(@)]

-----------------------------------------------------------------------------
(* The receiving machine.                                                  *)

SetFileTransfer ==
  /\ file_transfer_enabled' = ~file_transfer_enabled
  /\ UNCHANGED <<senderVars, linkVars, receiving, current, unlinked, dirs,
                 stored, incoming, clipboard, received_log, histVars>>

\* handle_incoming_file_channel: it looks at the setting once.
FileChannelInit(t) ==
  /\ Reads(t, "Init")
  /\ IF file_transfer_enabled
     THEN Read(t) /\ UNCHANGED <<up, open, refused>>
     ELSE /\ wire' = [wire EXCEPT ![t] = <<>>]
          /\ up' = [up EXCEPT ![t] = FALSE]
          /\ open' = [open EXCEPT ![t] = FALSE]
          /\ refused' = refused \cup {t}
  /\ UNCHANGED <<senderVars, receiverVars, failed, lost, damaged, swept>>

\* clean_old_staged_dirs
Old == SubSeq(dirs, 1, IF Len(dirs) > KeepDirs THEN Len(dirs) - KeepDirs ELSE 0)

Cleaned(kept) ==
  /\ dirs' = kept
  /\ stored' = [u \in Transfers |-> IF u \in ToSet(Old) THEN {} ELSE stored[u]]
  /\ unlinked' = unlinked \cup {u \in ToSet(Old) : current[u] # 0}
  /\ swept' = swept \cup ToSet(Old)
  /\ UNCHANGED current

Newer == SubSeq(dirs, Len(Old) + 1, Len(dirs))

\* handle_offer
Offered(t) ==
  /\ Cleaned(Append(Newer, t))
  /\ receiving' = receiving \cup {t} /\ incoming' = incoming \cup {t}
  /\ UNCHANGED refused

\* handle_offer, when the staging directory cannot be made: logged, and what
\* follows is of an unknown transfer.
NotStaged(t) ==
  /\ Cleaned(Newer)
  /\ refused' = refused \cup {t}
  /\ UNCHANGED <<receiving, incoming>>

\* On the main connection it depends on the setting.
HandleOffer(c) ==
  LET t == Head(wire[c]).transfer IN
  /\ Reads(c, "Offer") /\ Read(c)
  /\ IF c = Main /\ ~file_transfer_enabled
     THEN /\ refused' = refused \cup {t}
          /\ UNCHANGED <<receiving, incoming, dirs, stored, unlinked, current,
                         swept>>
     ELSE Offered(t) \/ NotStaged(t)
  /\ UNCHANGED <<senderVars, up, open, file_transfer_enabled, clipboard,
                 received_log, failed, lost, damaged>>

\* The directory of t becomes the most recently modified one.
Touched(t) ==
  Append(IF t \in ToSet(dirs)
         THEN RemoveAt(dirs, CHOOSE i \in DOMAIN dirs : dirs[i] = t) ELSE dirs,
         t)

\* Mutant: the chunk goes to the place before its own.
WrittenShifted(t, file, chunk) ==
  /\ current' = [current EXCEPT ![t] = file]
  /\ stored' = [stored EXCEPT ![t] = @ \cup {<<file, chunk - 1>>}]
  /\ UNCHANGED <<unlinked, dirs>>

\* write_chunk: opening a file makes its directory anew if it was cleaned.
Written(t, file, chunk) ==
  LET opens == current[t] # file
      gone  == ~opens /\ t \in unlinked
      kept  == IF opens /\ chunk = 1
               THEN {x \in stored[t] : x[1] # file} ELSE stored[t]
  IN /\ current' = [current EXCEPT ![t] = file]
     /\ unlinked' = IF opens THEN unlinked \ {t} ELSE unlinked
     /\ stored' = [stored EXCEPT ![t] =
                    IF gone THEN @ ELSE kept \cup {<<file, chunk>>}]
     /\ dirs' = IF opens THEN Touched(t) ELSE dirs

\* handle_chunk; an unknown transfer is passed over.
HandleChunk(c) ==
  LET m == Head(wire[c]) IN
  /\ Reads(c, "Chunk") /\ Read(c)
  /\ IF m.transfer \in receiving
     THEN Written(m.transfer, m.chunk[1], m.chunk[2])
     ELSE UNCHANGED <<current, unlinked, stored, dirs>>
  /\ UNCHANGED <<senderVars, up, open, file_transfer_enabled, receiving,
                 incoming, clipboard, received_log, histVars>>

\* The chunk cannot be written (the disk is full): logged, nothing else.
WriteFails(c) ==
  LET m == Head(wire[c]) IN
  /\ Reads(c, "Chunk") /\ Read(c) /\ m.transfer \in receiving
  /\ damaged' = damaged \cup {m.transfer}
  /\ UNCHANGED <<senderVars, up, open, receiverVars, failed, lost, refused,
                 swept>>

\* handle_done: whatever has come is offered for pasting.
HandleDone(c) ==
  LET t == Head(wire[c]).transfer IN
  /\ Reads(c, "Done") /\ Read(c)
  /\ receiving' = receiving \ {t}
  /\ IF t \in receiving
     THEN /\ clipboard' = t /\ received_log' = received_log \cup {t}
          /\ incoming' = incoming \ {t}
     ELSE UNCHANGED <<clipboard, received_log, incoming>>
  /\ current' = [current EXCEPT ![t] = 0] /\ unlinked' = unlinked \ {t}
  /\ UNCHANGED <<senderVars, up, open, file_transfer_enabled, dirs, stored,
                 histVars>>

\* Mutant: a file channel is closed as soon as the sender has finished.
ReceiverEndsUnread(c) ==
  /\ open[c]
  /\ (~up[c] /\ wire[c] = <<>>) \/ (c \in Background /\ pc[c] = "Over")
  /\ open' = [open EXCEPT ![c] = FALSE]
  /\ up' = [up EXCEPT ![c] = FALSE]
  /\ receiving' = {t \in receiving : Conn(t) # c}
  /\ current' = [t \in Transfers |-> IF Conn(t) = c THEN 0 ELSE current[t]]
  /\ unlinked' = {t \in unlinked : Conn(t) # c}
  /\ UNCHANGED <<senderVars, wire, file_transfer_enabled, dirs, stored,
                 incoming, clipboard, received_log, histVars>>

\* The receiver of a connection ends with it and forgets its transfers; their
\* entries stay in the list.  A file channel ends after Done as well.
ReceiverEnds(c) ==
  /\ open[c] /\ wire[c] = <<>>
  /\ ~up[c] \/ (c \in Background /\ pc[c] = "Over")
  /\ open' = [open EXCEPT ![c] = FALSE]
  /\ up' = [up EXCEPT ![c] = FALSE]
  /\ receiving' = {t \in receiving : Conn(t) # c}
  /\ current' = [t \in Transfers |-> IF Conn(t) = c THEN 0 ELSE current[t]]
  /\ unlinked' = {t \in unlinked : Conn(t) # c}
  /\ UNCHANGED <<senderVars, wire, file_transfer_enabled, dirs, stored,
                 incoming, clipboard, received_log, histVars>>

-----------------------------------------------------------------------------
Sender(t) ==
  \/ Connect(t) \/ OpenChannel(t) \/ SendOffer(t) \/ SendChunk(t)
  \/ SendDone(t) \/ SendFails(t)

Receiver(c) ==
  \/ c \in Background /\ FileChannelInit(c)
  \/ HandleOffer(c) \/ HandleChunk(c) \/ HandleDone(c) \/ ReceiverEnds(c)

Fault ==
  \/ \E t \in Transfers : SourceShrinks(t) \/ ConnectFails(t) \/ SourceFails(t)
  \/ \E c \in Conns : LinkDown(c) \/ WriteFails(c)

Next ==
  \/ \E t \in Transfers : Start(t) \/ Sender(t)
  \/ \E c \in Conns : Receiver(c)
  \/ SetFileTransfer
  \/ Fault

Spec == Init /\ [][Next]_vars

\* The tasks run on and read what has arrived; the user, the faults and the
\* peer's answer to StartTls are free.
FairSpec ==
  /\ Spec
  /\ \A t \in Transfers : WF_vars(pc[t] # "Tls" /\ Sender(t))
  /\ \A c \in Conns : WF_vars(Receiver(c))

-----------------------------------------------------------------------------
(* Properties.                                                             *)

AllChunks(t) == ToSet(ChunkList[t])

\* The types of the variables.
TypeOK ==
  /\ pc \in [Transfers -> {"Idle", "Init", "Tls", "Offer", "Stream", "Over"}]
  /\ \A t \in Transfers : sent[t] \in 0..Len(ChunkList[t])
  /\ outgoing \cup sent_log \cup receiving \cup unlinked \cup incoming
       \cup received_log \cup failed \cup refused \cup damaged \cup swept
       \subseteq Transfers
  /\ lost \subseteq Conns
  /\ \A c \in Conns : Len(wire[c]) <= WireCap
  /\ up \in [Conns -> BOOLEAN] /\ open \in [Conns -> BOOLEAN]
  /\ file_transfer_enabled \in BOOLEAN
  /\ \A t \in Transfers :
       current[t] \in 0..Len(Chunks[t]) /\ stored[t] \subseteq AllChunks(t)
  /\ ToSet(dirs) \subseteq Transfers /\ IsInjective(dirs)
  /\ clipboard \in Transfers \cup {None}

\* A transfer that the receiver has published is on its disk to the last
\* chunk, whatever other transfers ran beside it, unless a chunk could not be
\* written, the source had shrunk, or its directory was cleaned.
PublishedIsWhole ==
  \A t \in received_log :
    t \notin damaged \cup swept => stored[t] = AllChunks(t)

\* What the user is shown as under way is: an outgoing transfer is still being
\* sent, an incoming one still has its receiver.  The exceptions are the two
\* leaks of the code: a fast transfer that failed in the middle (`?`,
\* file_transfer.rs:308), and a connection that ended before Done.
ShownIsUnderWay ==
  /\ \A t \in outgoing : Running(t) \/ (t \in Fast /\ t \in failed)
  /\ \A t \in incoming : t \in receiving \/ ~open[Conn(t)]

\* A transfer that was sent to the end is published, unless its connection was
\* lost or the receiver did not take it up (files off, server.rs:528; no staging
\* directory, file_transfer.rs:185), of which the sender, who reports success,
\* hears nothing.
SentIsPublished ==
  \A t \in Transfers :
    t \in sent_log
      ~> (t \in received_log \cup refused \/ Conn(t) \in lost)

\* Every transfer that was begun ends, also when the peer is gone, unless the
\* peer never answers to StartTls: that wait has no timeout
\* (file_transfer.rs:517), and the transfer stays shown.
TransfersEnd ==
  \A t \in Transfers :
    Running(t) ~> (pc[t] = "Over" \/ [](pc[t] = "Tls"))
=============================================================================
