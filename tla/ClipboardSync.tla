---------------------------- MODULE ClipboardSync ----------------------------
(***************************************************************************)
(* The synchronisation of the clipboards of the two machines of a session, *)
(* after manguesechee-agent/src/clipboard.rs and its users in client.rs    *)
(* and server.rs.  On each side a watcher polls the clipboard, the loop    *)
(* looks at it when the focus moves away, and a receiver sets it; the only *)
(* thing they share is LAST_SYNCED, read and written in separate steps.    *)
(*                                                                         *)
(* An item is what was copied: a text or a list of files.  The staged copy *)
(* of a list of files counts as the same item on the other machine.  A     *)
(* transfer (FileTransfer) is spawned, and then arrives or fails whenever  *)
(* it likes: the setting that the peer looks at when the transfer is       *)
(* offered, and the order in which a fast one stands to the other messages *)
(* of its connection, are left open here.                                  *)
(* Both machines have their clipboard enabled.  Reading succeeds whenever  *)
(* the clipboard holds something.                                          *)
(***************************************************************************)
EXTENDS Integers, SequencesExt

CONSTANTS
  Items,     \* what users copy
  Files,     \* the items that are lists of files
  Large,     \* the lists of files above background_limit
  Initial,   \* Initial[m]: what is in the clipboard when the session starts
  OutCap,    \* capacity of the channel to the sender (16 in the code)
  MaxEvents,    \* bound of the model: what users do and what fails
  MaxTransfers, \* bound of the model: transfers of a list under way at once
  MaxWriting    \* bound of the model: receivers writing at once

ASSUME ItemsAssumption ==
  /\ Files \subseteq Items /\ Large \subseteq Files /\ "None" \notin Items
  /\ OutCap \in Nat \ {0}
  /\ MaxEvents \in Nat /\ MaxTransfers \in Nat
  /\ MaxWriting \in Nat

Machines == {"client", "server"}
Peer(m) == IF m = "client" THEN "server" ELSE "client"

ASSUME InitialAssumption == Initial \in [Machines -> Items]

\* "watcher" is the thread of spawn_watcher, and the task of a Ctrl+C at the
\* client (client.rs:725), which takes the same steps; "focus" stands for the
\* look at the clipboard when the user enters the peer or leaves it.
Actors == {"watcher", "focus"}

\* What sets a clipboard: the receiver of the session, and the task of a file
\* channel (one of them at a time).
Receivers == {"session", "channel"}

VARIABLES
  clip,          \* what the desktop's clipboard holds
  last_synced,   \* LAST_SYNCED
  pc, got,       \* of each actor
  out,           \* channel to the sender of the session
  statuses,      \* FileTransferStatus messages on their way from m
  transfers,     \* how many transfers of each list m has under way
  setting,       \* what a receiver of m has marked and not yet written
  file_transfer_enabled,
  peer_files_enabled, \* what m believes of its peer
  \* history and bounds
  known,         \* items that m has had in its clipboard or received
  left,          \* items marked on m and left behind: dropped by a full
                 \* channel, not sent at all, or sent in vain
  events

desktopVars == <<clip, known>>
flagVars == <<statuses, file_transfer_enabled, peer_files_enabled>>
vars == <<desktopVars, flagVars, last_synced, pc, got, out, transfers,
          setting, left, events>>

None == "None"
\* The watchers have marked what was there.  Each side has announced whether
\* it takes files.
Init ==
  /\ clip = Initial /\ last_synced = Initial
  /\ pc = [m \in Machines |-> [a \in Actors |-> "Idle"]]
  /\ got = [m \in Machines |-> [a \in Actors |-> None]]
  /\ out = [m \in Machines |-> <<>>]
  /\ file_transfer_enabled = [m \in Machines |-> TRUE]
  /\ statuses = [m \in Machines |-> <<>>]
  /\ transfers = [m \in Machines |-> [i \in Items |-> 0]]
  /\ setting = [m \in Machines |-> [r \in Receivers |-> None]]
  /\ peer_files_enabled = [m \in Machines |-> TRUE]
  /\ known = [m \in Machines |-> {Initial[m]}]
  /\ left = [m \in Machines |-> {}]
  /\ events = 0

-----------------------------------------------------------------------------
(* The user, and what happens seldom.                                      *)

Happens == events < MaxEvents /\ events' = events + 1

Copy(m, i) ==
  /\ Happens
  /\ clip' = [clip EXCEPT ![m] = i]
  /\ known' = [known EXCEPT ![m] = @ \cup {i}]
  /\ UNCHANGED <<flagVars, last_synced, pc, got, out, transfers, setting,
                 left>>

\* Mutant: the peers are not told.
SetFileTransferSilently(m) ==
  /\ Happens
  /\ file_transfer_enabled' = [file_transfer_enabled EXCEPT ![m] = ~@]
  /\ UNCHANGED <<desktopVars, statuses, peer_files_enabled, last_synced, pc,
                 got, out, transfers, setting, left>>

\* SetFileTransfer of the IPC server: broadcast to the sessions.
SetFileTransfer(m) ==
  /\ Happens
  /\ file_transfer_enabled' = [file_transfer_enabled EXCEPT ![m] = ~@]
  /\ statuses' = [statuses EXCEPT ![m] =
                    Append(@, file_transfer_enabled'[m])]
  /\ UNCHANGED <<desktopVars, peer_files_enabled, last_synced, pc, got, out,
                 transfers, setting, left>>

-----------------------------------------------------------------------------
(* The watcher and the look at the clipboard when the focus moves.         *)

\* On the server the loop that lets the focus go is the one that receives.
Ready(m, a) == a = "watcher" \/ m = "client" \/ setting[m]["session"] = None

To(m, a, label) == pc' = [pc EXCEPT ![m][a] = label]

\* get_text
Look(m, a) ==
  /\ pc[m][a] = "Idle" /\ Ready(m, a)
  /\ got' = [got EXCEPT ![m][a] = clip[m]] /\ To(m, a, "Compare")
  /\ IF a = "focus" THEN Happens ELSE UNCHANGED events
  /\ UNCHANGED <<desktopVars, flagVars, last_synced, out, transfers, setting,
                 left>>

\* is_already_synced
Compare(m, a) ==
  /\ pc[m][a] = "Compare"
  /\ To(m, a, IF got[m][a] = last_synced[m] THEN "Idle" ELSE "Mark")
  /\ got' = [got EXCEPT ![m][a] = IF @ = last_synced[m] THEN None ELSE @]
  /\ UNCHANGED <<desktopVars, flagVars, events, last_synced, out, transfers,
                 setting, left>>

\* mark_synced
Mark(m, a) ==
  /\ pc[m][a] = "Mark"
  /\ last_synced' = [last_synced EXCEPT ![m] = got[m][a]]
  /\ To(m, a, "Send")
  /\ UNCHANGED <<desktopVars, flagVars, events, got, out, transfers, setting,
                 left>>

\* Mutant: the watcher does not wait for room in the channel.
WatcherSendsIfRoom(m) ==
  /\ pc[m]["watcher"] = "Send"
  /\ out' = IF Len(out[m]) < OutCap
            THEN [out EXCEPT ![m] = Append(@, got[m]["watcher"])] ELSE out
  /\ To(m, "watcher", "Idle") /\ got' = [got EXCEPT ![m]["watcher"] = None]
  /\ UNCHANGED <<desktopVars, flagVars, events, last_synced, transfers,
                 setting, left>>

\* blocking_send
WatcherSends(m) ==
  /\ pc[m]["watcher"] = "Send" /\ Len(out[m]) < OutCap
  /\ out' = [out EXCEPT ![m] = Append(@, got[m]["watcher"])]
  /\ To(m, "watcher", "Idle") /\ got' = [got EXCEPT ![m]["watcher"] = None]
  /\ UNCHANGED <<desktopVars, flagVars, events, last_synced, transfers,
                 setting, left>>

\* Mutant: the channel has no bound.
ExitSendsAnyway ==
  /\ pc["server"]["focus"] = "Send"
  /\ out' = [out EXCEPT !["server"] = Append(@, got["server"]["focus"])]
  /\ To("server", "focus", "Idle")
  /\ got' = [got EXCEPT !["server"]["focus"] = None]
  /\ UNCHANGED <<desktopVars, flagVars, events, last_synced, transfers,
                 setting, left>>

\* The server's exit queues the text with try_send.
ExitSends ==
  LET i == got["server"]["focus"] IN
  /\ pc["server"]["focus"] = "Send"
  /\ IF Len(out["server"]) < OutCap
     THEN /\ out' = [out EXCEPT !["server"] = Append(@, i)]
          /\ UNCHANGED left
     ELSE /\ left' = [left EXCEPT !["server"] = @ \cup {i}]
          /\ UNCHANGED out
  /\ To("server", "focus", "Idle")
  /\ got' = [got EXCEPT !["server"]["focus"] = None]
  /\ UNCHANGED <<desktopVars, flagVars, events, last_synced, transfers,
                 setting>>

-----------------------------------------------------------------------------
(* From one machine to the other.                                          *)

\* The receivers between their mark and their write.
Writing == {w \in Machines \X Receivers : setting[w[1]][w[2]] # None}

\* set_text and set_file_clipboard mark first ...
MarkReceived(m, r, i) ==
  /\ setting[m][r] = None
  /\ Cardinality(Writing) < MaxWriting
  /\ r = "session" /\ m = "server" => pc[m]["focus"] = "Idle"
  /\ last_synced' = [last_synced EXCEPT ![m] = i]
  /\ setting' = [setting EXCEPT ![m][r] = i]
  /\ known' = [known EXCEPT ![m] = @ \cup {i}]

\* ... and write then; a failure is logged.
SetClipboard(m, r) ==
  /\ setting[m][r] # None
  /\ \/ clip' = [clip EXCEPT ![m] = setting[m][r]] /\ UNCHANGED events
     \/ Happens /\ UNCHANGED clip
  /\ setting' = [setting EXCEPT ![m][r] = None]
  /\ UNCHANGED <<known, flagVars, last_synced, pc, got, out, transfers, left>>

FilesAllowed(m) == file_transfer_enabled[m] /\ peer_files_enabled[m]

SendText(m, i) ==
  /\ MarkReceived(Peer(m), "session", i)
  /\ UNCHANGED <<transfers, left>>

Withhold(m, i) ==
  /\ left' = [left EXCEPT ![m] = @ \cup {i}]
  /\ UNCHANGED <<known, last_synced, transfers, setting>>

\* spawn_background_sender, send_fast_transfer: nobody waits for the outcome.
SendFiles(m, i) ==
  /\ transfers[m][i] < MaxTransfers
  /\ transfers' = [transfers EXCEPT ![m][i] = @ + 1]
  /\ UNCHANGED <<known, last_synced, setting, left>>

\* Mutant: nothing goes unless both sides take files.
RouteIfFilesAllowed(m, i) ==
  IF ~FilesAllowed(m)
  THEN UNCHANGED <<known, last_synced, transfers, setting, left>>
  ELSE IF i \in Files THEN SendFiles(m, i) ELSE SendText(m, i)

\* What becomes of item i that m has marked.  A list of files goes only if
\* both sides take files; above the limit the client sends it as a text and
\* the server does nothing.
Route(m, i) ==
  \/ i \notin Files /\ SendText(m, i)
  \/ i \in Files \ Large /\ FilesAllowed(m) /\ SendFiles(m, i)
  \/ i \in Large /\ FilesAllowed(m) /\ m = "client" /\ SendText(m, i)
  \/ i \in Large /\ FilesAllowed(m) /\ m = "server" /\ Withhold(m, i)
  \/ i \in Files /\ ~FilesAllowed(m) /\ Withhold(m, i)

\* The event loop or the outbound sender takes an item from the channel and
\* the peer receives it; the event loop is one task with the look on entry.
SenderTakes(m) ==
  /\ out[m] # <<>>
  /\ m = "client" => pc[m]["focus"] = "Idle"
  /\ Route(m, Head(out[m]))
  /\ out' = [out EXCEPT ![m] = Tail(@)]
  /\ UNCHANGED <<clip, flagVars, events, pc, got>>

\* sync_clipboard_on_entry: the event loop sends at once.
EntrySends ==
  /\ pc["client"]["focus"] = "Send"
  /\ Route("client", got["client"]["focus"])
  /\ To("client", "focus", "Idle")
  /\ got' = [got EXCEPT !["client"]["focus"] = None]
  /\ UNCHANGED <<clip, flagVars, events, out>>

\* FileTransferDone: what was staged goes into the clipboard of the peer.
TransferArrives(m, i) ==
  /\ transfers[m][i] > 0
  /\ transfers' = [transfers EXCEPT ![m][i] = @ - 1]
  /\ MarkReceived(Peer(m), "channel", i)
  /\ UNCHANGED <<clip, flagVars, events, pc, got, out, left>>

\* The connection, a source, the link or the staging fails, or the peer takes
\* no files: logged, and the mark stays.
TransferFails(m, i) ==
  /\ transfers[m][i] > 0 /\ Happens
  /\ transfers' = [transfers EXCEPT ![m][i] = @ - 1]
  /\ left' = [left EXCEPT ![m] = @ \cup {i}]
  /\ UNCHANGED <<desktopVars, flagVars, last_synced, pc, got, out, setting>>

ReceiveStatus(m) ==
  /\ statuses[Peer(m)] # <<>>
  /\ peer_files_enabled' =
       [peer_files_enabled EXCEPT ![m] = Head(statuses[Peer(m)])]
  /\ statuses' = [statuses EXCEPT ![Peer(m)] = Tail(@)]
  /\ UNCHANGED <<desktopVars, file_transfer_enabled, events, last_synced, pc,
                 got, out, transfers, setting, left>>

-----------------------------------------------------------------------------
Watcher(m) ==
  Look(m, "watcher") \/ Compare(m, "watcher") \/ Mark(m, "watcher")
    \/ WatcherSends(m)

Focus(m) ==
  \/ Compare(m, "focus") \/ Mark(m, "focus")
  \/ m = "client" /\ EntrySends
  \/ m = "server" /\ ExitSends

Receiver(m) ==
  \/ ReceiveStatus(m) \/ \E r \in Receivers : SetClipboard(m, r)

Transfer(m) ==
  \E i \in Files : TransferArrives(m, i) \/ TransferFails(m, i)

Next ==
  \/ \E m \in Machines :
       \/ \E i \in Items : Copy(m, i)
       \/ SetFileTransfer(m)
       \/ Watcher(m) \/ Look(m, "focus") \/ Focus(m)
       \/ SenderTakes(m) \/ Receiver(m) \/ Transfer(m)

Spec == Init /\ [][Next]_vars

-----------------------------------------------------------------------------
(* Properties.                                                             *)

\* The types of the variables.
TypeOK ==
  /\ \A m \in Machines :
       /\ clip[m] \in Items /\ last_synced[m] \in Items
       /\ \A a \in Actors :
            /\ pc[m][a] \in {"Idle", "Compare", "Mark", "Send"}
            /\ pc[m][a] = "Idle" <=> got[m][a] = None
       /\ Len(out[m]) <= OutCap /\ ToSet(out[m]) \subseteq Items
       /\ \A r \in Receivers : setting[m][r] \in Items \cup {None}
       /\ \A i \in Items : transfers[m][i] \in Nat
  /\ file_transfer_enabled \in [Machines -> BOOLEAN]
  /\ peer_files_enabled \in [Machines -> BOOLEAN]

Transferred(m) == {i \in Items : transfers[m][i] > 0}

\* On its way from m, or left behind for one of the three known reasons: a full
\* channel at the server's exit, files that are not sent, a failed transfer.
Underway(m) ==
  ToSet(out[m]) \cup {got[m][a] : a \in {b \in Actors : pc[m][b] = "Send"}}
    \cup Transferred(m) \cup left[m]

\* What a machine holds for synchronised, and will therefore never send
\* again, its peer has had or is about to get: whatever the watcher, the
\* focus, the receiver and the transfers do to LAST_SYNCED in between, a mark
\* is never on something that nobody sends, but for the three reasons above,
\* each of which the code logs or passes over, leaving the mark.
MarkedIsShared ==
  \A m \in Machines :
    last_synced[m] \in {Initial[m]} \cup known[Peer(m)] \cup Underway(m)

\* When no status is on its way, each side knows whether the other one takes
\* files.  (A change while the session is being set up is told to nobody: the
\* first status is read at client.rs:1196, the broadcasts from line 1236 on.)
FilesFlagAgrees ==
  \A m \in Machines :
    \/ statuses[m] # <<>>
    \/ peer_files_enabled[Peer(m)] = file_transfer_enabled[m]
=============================================================================
