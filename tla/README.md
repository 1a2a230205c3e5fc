# TLA+ models of Manguesechee

Manguesechee shares one mouse and keyboard between Linux machines. Each machine
runs an agent. In a *session* one agent is the **controller**: it reads its
input devices and, once the cursor crosses a screen edge or a hotkey is
pressed, grabs them and forwards their events. The other is the **controlled**
side: it injects those events into virtual devices. An agent can be the
controller of some sessions and the controlled side of others at the same time.

This directory holds TLA+ models of the agent's protocol, TLC configurations
that check them on small instances, and TLAPS proofs of what holds for every
instance. `PROJECT.json` maps every definition to the lines of the source it
models. Paths below are relative to `src/crates/`.

## 1. Inventory

| Component | Source | State it keeps | Operations |
|---|---|---|---|
| Controller session | `manguesechee-agent/src/client.rs` | Local or Forwarding, active cell, missed pings, grab watch channels, inbound channel | input events, hotkeys, heartbeat, IPC broadcasts, inbound signals, end of session |
| Capture workers | `client.rs:328-419`, `manguesechee-input/src/capture.rs` | device grabbed or not, finger count of a touchpad | apply the grab, read events |
| Inbound receiver | `client.rs:422-584` | transfers being received | pass ReturnControl and Pong on, end the session |
| Controlled session | `manguesechee-agent/src/server.rs` | has_control, cursor (EdgeDetector), virtual devices, outbound channel | handle each message, 5 s timeout |
| Outbound sender | `server.rs:355-418` | channel of 16 messages | send, forward IPC broadcasts, fast file transfers |
| Virtual devices | `manguesechee-input/src/uinput.rs` | keys and buttons held down | inject, release all |
| Connect manager | `manguesechee-agent/src/main.rs:260-336` | connected_to, disconnect_requested, queue of addresses | connect, skip duplicates, retry after 3 s |
| Agent state, IPC server | `manguesechee-agent/src/ipc_server.rs` | flags shared by all sessions, peers, transfers | 15 commands, broadcast to every session |
| Edge detector | `manguesechee-agent/src/edge.rs` | tracked cursor, dwell timer, cooldown, lock | update, place at entry, arm cooldown |
| Hotkey matcher | `manguesechee-input/src/hotkeys.rs` | eight modifier flags | process_key, reset_modifiers |
| Grid topology | `manguesechee-core/src/topology.rs` | screens on integer cells | find, add, move, free slot |
| Clipboard | `manguesechee-agent/src/clipboard.rs` | last synchronised text | watch, set, mark |
| File transfer | `manguesechee-agent/src/file_transfer.rs` | staged files, active transfers, history | offer, chunk, done, background channel |
| Pairing | `client.rs:156-205`, `server.rs:206-269`, `session.rs` | known peers | request, accept, reject |
| Discovery | `manguesechee-agent/src/discovery.rs` | peers seen by mDNS | register, resolve name collisions |
| Transport | `manguesechee-network/src/transport.rs` | TCP or TLS stream | framed send and receive |
| Configuration | `manguesechee-core/src/config.rs` | a TOML file | load, save |

**How they interact.** The event loop of a controller is one `select!` over the
capture workers' events, the heartbeat, the clipboard watcher, the agent's
broadcast channel and the inbound channel. It talks to the workers through a
watch channel, to the receiver through a channel of 32 signals, to the peer
through its half of the connection. The server reads its half, changes
`has_control` and answers through its outbound channel, which a separate task
drains; that task also forwards what the IPC server of the controlled machine
broadcasts. All sessions of an agent share the flags of `AgentState`.

**What is hard.** Control is handed over by messages that cross on the wire and
name no visit. Every one of a dozen sends may fail after the devices were
grabbed. The receiver withdraws the grabs by itself. Workers see only the last
value of the watch channel. A silent link gives no error. The server's loop may
stop while its outbound sender keeps the connection open. A full channel drops
ReturnControl. Retries, a reverse connection and a Disconnect race. The
clipboard's mark is shared by three actors that read and write it in separate
steps. Files are received into directories that another offer may sweep. Either
end may know the other without being known. A frame of the touchpad may be cut
in two by a grab. `PROJECT.json` lists these under `hazards`, each at its line
and with the properties that cover it, or the reason why none does.

**What makes each component correct.**

* Hand-off (controller and controlled session): a device is grabbed only while
  forwarding; input is forwarded only to a side that has control, will have it,
  or has just given it back; virtual keys are down only under control; whatever
  breaks, devices and keys are given back; the loop's state, cell, flag and
  grab agree. All of it implements an abstract focus that is in one place.
* Connect manager: no request is lost; a wanted peer is retried for ever; what
  is shown as connected is.
* Hotkey matcher: modifiers are tracked through every focus change; no order of
  hotkeys and releases keeps a key down on the peer (a ReturnControl that
  crosses an entry does); the emergency escape comes before every configured
  shortcut. That it is always active is claimed and does not hold.
* Edge detector: a crossing is reported only by a motion that pushes towards
  that edge, not under the lock, and not straight back over the edge the cursor
  came in by.
* Grid topology: one screen per cell, the local one at the origin, each where it
  was asked for unless an earlier one is there.
* Clipboard: what is marked as synchronised has reached the other side or is
  about to, unless it was dropped, not sent, or its transfer failed; each side
  knows the other's file setting.
* File transfer: what is published for pasting is complete; what is shown as
  under way is; what is reported as sent was published, refused or could not be
  staged; every transfer ends, once the peer answers its connection.
* Pairing: nobody is trusted whom no side accepted, and nobody without the
  consent of a user where both agents have a terminal; both ends agree on
  encryption; both ends of every connection come into a session.
* Touchpad: pointer and scroll are the motion of the fingers; nothing of a touch
  or of a click outlives it.

## 2. Modules

| Module | Content |
|---|---|
| `Edges` | edges, their opposites and deltas, the integer grid |
| `Handoff` | one session: event loop, receiver, workers, connection, server, outbound sender |
| `Handoff_proof` | the theorems about `Handoff`, and the proof that it implements `Focus` |
| `HandoffEscape` | `Handoff` with a record of the emergency escape |
| `ConnectManager` | whom an agent connects to: manager, session tasks, IPC commands, reverse connections, discovery |
| `ConnectManager_proof` | the theorems about `ConnectManager` |
| `Hotkeys` | the keyboard between two screens: HotkeyMatcher, and what the event loop does with each key |
| `Hotkeys_proof` | the theorems about `Hotkeys` |
| `Focus` | what the hand-off promises: one place of work, announced to the peer in order |
| `HandoffFocus` | the refinement mapping from `Handoff` to `Focus` |
| `GridTopology` | the grid of screens: pure operations |
| `EdgeDetector` | the tracked cursor: operations on a record |
| `Desk` | both of them under one event loop, while the layout is edited |
| `Desk_proof` | the theorems about `Desk`: the tracked cursor, and the grid of any list of peers |
| `ClipboardSync`, `ClipboardSync_proof` | the two clipboards of a session: watchers, crossings, receivers; the theorems about them |
| `FileTransfer`, `FileTransfer_proof` | the two ways files are sent, the receiver and its staging directories; what is proved about them |
| `Pairing` | the opening of sessions, the known peers |
| `Pairing_proof` | the theorems about `Pairing`: types, trust, the agreement on encryption, the status of a session |
| `Touchpad` | a clickpad, the capture of its events, the peer's mouse buttons |
| `Touchpad_proof` | the theorems about `Touchpad`: its types, the buttons of a click, pointer and scroll |
| `MC...` | instances for TLC |

`Desk` composes `EdgeDetector` and `GridTopology`; `HandoffFocus` relates
`Handoff` and `Focus`. The other modules are apart: each takes from its
neighbours what they promise, and says so below.

### Handoff

One action per arm of the event loop's `select!` (and per hotkey), per message
kind of `handle_server_message`, per step of the receiver, a worker and the
outbound sender, and per failure.

| Variables | Code |
|---|---|
| `state`, `active_coord`, `missed_pings` | locals of `run_client_event_loop`; `Closing` is after its `break`, `Ended` after `connect_to` returned |
| `is_forwarding` | the flag of `AgentState` |
| `grab`, `unseen` | the watch channels: last value, workers that have not looked at it |
| `workers`, `grabbed` | the worker tasks, and the devices held with EVIOCGRAB |
| `receiver`, `inbound` | the receiver task and the channel of 32 |
| `link`, `c2s`, `s2c` | the connection and what is on it |
| `server`, `has_control`, `held`, `outq` | the message loop, its flag, the keys its virtual devices hold down, the channel of 16 |
| `lost_return` | history: a ReturnControl met a full `outq` since the last entry |

Abstractions, and why they are sound:

* *Recognition.* Which motion crosses an edge and which key is a hotkey is left
  to `EdgeDetector` and `Hotkeys`: any crossing and any hotkey
  may happen at any time. `Grid` and `TargetEdge` are constants of a session.
* *Granularity.* "Grab, send, become Forwarding" is one step although the send
  awaits: the receiver's and the workers' steps that may come in between commute
  with it, as they write only `inbound` and what follows from `grab`. A step of
  the server is one message; `handle_server_message` does not await.
* *Time.* `PingTick` and `ServerTimeout` may happen whenever their other
  conditions hold. A send that times out is one that finds no room or no link.
* *The connection* is a FIFO queue. It may break at any time and lose the tail
  of what is on it. `Goodbye` on `c2s` stands for the message and for the end of
  the stream: the server stops on both. The two `Shutdown` actions stand for any
  exit of a process.
* *Messages* without an effect on control (clipboard, files, topology, identity)
  are `Other` where they take room in a channel, and are left out elsewhere.
  `KeySync` is left out: it is sent once, before any EdgeCrossed, and so always
  ignored (`server.rs:461`). A failed ungrab is left out.

### HandoffEscape

Adds one variable: has the user pressed the emergency escape, and not entered
the remote screen since.

### Focus, HandoffFocus

`Focus` is the contract of a session without devices, tasks, channels or
heartbeats: where the user works, what was said to the peer and not yet heard,
and whether the peer acts for the user. A remote place is entered only by
announcing it; the user comes home by an order to stop, or because the peer says
so; the peer obeys in order. Under the mapping the place is `active_coord`, the
orders are `c2s`, the peer is `server` and `has_control`, and everything said is
cut off when the link is down or the server has ended.

The contract does not say that the peer stops when the user is home: a
ReturnControl that crosses a new entry breaks that (`handoff_escape`), and
`FocusNotStranded` is the other direction, which holds.

### ConnectManager

One action per section under the lock of `AgentState`, since other tasks run
between two of them.

| Variables | Code |
|---|---|
| `requests` | the channel `connect_tx`, `connect_rx` |
| `connected_to`, `disconnect_requested` | the fields of `AgentState` |
| `address`, `connected` | the entries of `AgentState.peers`: their address, their `connected` flag |
| `phase`, `target` | how far each spawned task is, and the address it was spawned for |
| `goodbye` | sessions that have a Goodbye unread on the broadcast channel |
| `wanted`, `told_off` | history: what the user asked for, whom a Disconnect was meant for |

A task goes from `SettingUp` (until `register_peer_in_ipc_and_config`) to
`Registered` (until `broadcast_tx.subscribe`), `Running` (the event loop), `Over`
(after the guards), `Cleared` (after `main.rs:319`) and `Waiting` (the 3 s).

Abstractions: the substring comparison of addresses is equality, and an entry of
the list belongs to the machine `Owner` gives for its address, so that the
entries a name or an address finds are one. The broadcast channel is assumed not
to be overrun (16 commands while a session does not read). The configuration
file follows the list and is left out. The event loop is `Handoff`; here it ends
for a Goodbye or for any reason of its own.

### Hotkeys

One action per outcome of a key press (`TypeKey` and the four hotkeys), one for a
release, one per other way the focus moves.

| Variables | Code |
|---|---|
| `config` | the three combinations of `HotkeyConfig`, as `HotkeyCombo::parse` reads them |
| `tracked` | the eight flags of `HotkeyMatcher`, as the set of those that are on |
| `state` | the event loop's Local or Forwarding |
| `has_control`, `remote` | of the peer: its flag, and what its virtual keyboard holds down |
| `returns` | ReturnControl messages of the peer under way |
| `down`, `since` | the user's fingers, and the keys pressed since the focus last moved |
| `fired` | history: the action of the last event |
| `crossed` | history: a return of the peer was sent while the controller worked there, or crossed an entry, and nothing has set it right since |

Abstractions: what the controller sends arrives at once, what the peer sends at
any time later, so that its ReturnControl can cross an entry, and one more comes
from its user's SwitchScreen (`server.rs:409`); `Handoff` has both directions
under way, and the grid a jump goes by: here a jump enters, returns, moves on or
finds no screen. As in the code an entry releases nothing. A modifier is any key with a class, so that a
keyboard may have any number of keys of a class. The names of keys and the lock
are left out.

### GridTopology, EdgeDetector, Desk

| Variables | Code |
|---|---|
| `peers` | `AgentState.peers`: name, position word, cell |
| `grid` (derived) | `get_grid`, which the event loop calls at every look-up |
| `edge` | the controller's `EdgeDetector`: cursor, contact with an edge, cooldown, lock |
| `state`, `active_coord` | the event loop |
| `entry`, `crossing` | history: where the cursor last came in and how far it was pushed back; what the last step reported |

One action per motion, jump, switch, return and lock, per command that edits the
layout (`SyncTopology`, `SyncTopologyGrid`, `ForgetPeer`, the registration of a
peer, a `TopologySync`), and for the passing of time. Positions are whole
pixels, and a ratio is a pixel. Time is kept as far as the code tells it apart:
has the dwell been served, is the cooldown on. The remote cursor is any crossing
at any of `Ratios`. Sends succeed here: their failures are `Handoff`'s. Names
stand for addresses.

### ClipboardSync

| Variables | Code |
|---|---|
| `clip`, `last_synced` | the desktop's clipboard, `LAST_SYNCED` |
| `pc`, `got` | how far the watcher and the look at a crossing are: read, compared, marked |
| `out`, `transfers` | the channel to the sender; the transfers of files spawned and not over |
| `setting` | what the receiver of the session and that of a file channel have marked and not yet written |
| `statuses`, `file_transfer_enabled`, `peer_files_enabled` | the setting, and what the peer was told of it |
| `known`, `left` | history: what a machine has had; what it marked and left behind |

An item is a text or a list of files. Nobody waits for a transfer: it is spawned,
and arrives or fails at any later time, for any of the reasons `FileTransfer` has
(that the peer takes no files is among them; the setting at the moment of the
offer, and the order of a fast transfer among the other messages, are left open).
Both machines have their clipboard enabled. At the server the crossing and the receiver are one loop, at the client two tasks.
The task that a Ctrl+C starts (`client.rs:725`) takes the watcher's steps.

### FileTransfer

| Variables | Code |
|---|---|
| `pc`, `sent`, `outgoing`, `sent_log` | `send_fast_transfer`, `run_background_stream` and what they show |
| `wire`, `up`, `open` | the main connection and one per background transfer |
| `receiving`, `current`, `unlinked` | `FileReceiver`, the file it has open, and whether that is still in a directory |
| `dirs`, `stored`, `incoming`, `clipboard`, `received_log` | staging directories, chunks on disk, what is shown and offered for pasting |
| `failed`, `lost`, `refused`, `damaged`, `swept` | history: why a transfer may be incomplete |

A file is the set of its chunks. A background transfer connects (`Connect`),
waits for the answer to its StartTls, perhaps for ever, and then streams.
`send_fast_transfer_to_channel` is not modelled:
nothing calls it.

### Pairing

| Variables | Code |
|---|---|
| `known` | `known_peers.json` of each agent |
| `client`, `server` | how far each end of a connection is, from `Tls` to `Session` |
| `clientCopy`, `serverCopy` | `known` as the pairing function loaded it, which it later saves |
| `clientTls`, `serverTls` | what each end negotiated |
| `toServer`, `toClient`, `link`, `queue`, `renamed` | the messages under way; what the server's session has queued or broadcast |
| `clientSaw`, `serverSaw` | history: the first message was handled |
| `consent`, `unasked` | history: the pairs a user accepted, and those an agent without a terminal accepted by itself |

An agent is the server of what it receives and the client of what it dials, often
both with one peer. The prompt is answered in one step, at any time: by the user
where there is a terminal (`Asks`), otherwise by `prompt_accept` itself. A crash may
come in the middle of a save, and leaves a file that reads as empty. A broken
connection is dialled again once both ends have noticed.

### Touchpad

| Variables | Code |
|---|---|
| `slots`, `active_slot`, `btn_touch`, `finger_count`, `cur`, `last`, `pending_scroll` | the fields of `MouseCapture` (`touch_active` follows from two of them; `is_grabbed` changes nothing that the worker returns) |
| `out` | what `next_event` has just returned |
| `forwarded` | whether what is returned reaches the peer's virtual mouse: the event loop is in Forwarding and the peer has control |
| `held_buttons` | of the peer's `MouseInjector` |
| `fingers`, `at`, `pointer`, `slot`, `clicked`, `pipe` | the pad and the kernel: external |
| `shift`, `crossed`, `steady` | history |

The environment is the kernel's multi-touch protocol: a finger takes the lowest
free slot, a frame says what changed and no value is repeated; the positions of
several fingers come in any order of their slots. One event is read at a time;
`grab` and `ungrab`, which the worker applies when it comes to them, and the moves
of the focus, which decide what is forwarded, may each come between any two, in
any order. A scroll is counted
in notches instead of floating-point sixteenths. Relative axes are left out.

## 3. Runs

| Run | Instance | Question |
|---|---|---|
| `handoff` | one device, one key, a row of two remote screens; two messages from the controller on the wire, one elsewhere | does every invariant hold in every interleaving, and is every step one of `Focus`? |
| `handoff_live` | one peer, one message each way, its SwitchScreen, with fairness | does every failure end in free devices and released keys? |
| `connect` | two machines, two tasks, two queued requests, with fairness | is a request ever lost, `connected_to` ever stuck, a peer wrongly shown as connected? |
| `hotkeys` | six keys, two of them Ctrl; nine configurations; one return of the peer under way; 2.1 million states | are the modifiers right, and does a key stick only after a return that crossed, in every order of keys, focus changes and returns? |
| `desk` | two peers, a screen of 6 by 6 pixels, six motions; 219 thousand states | can edits bring two screens onto a cell, or a crossing come without a push? |
| `files` | a fast transfer of two files, a background one of two chunks; 231 thousand states | is anything published that is not whole, shown that is over, reported as sent and lost, or under way for ever? |
| `clipboard` | a text, a small and a large list of files, two events (copies, switches, failures); 1.7 million states | is a copy ever marked and forgotten? |
| `pairing` | two agents that dial each other, one with a terminal, two faults; 225 thousand states | is anybody trusted whom no side accepted, does every connection come into a session? |
| `touchpad` | two fingers, three positions; 1.7 million states | are pointer and scroll the fingers', and every click released, wherever a grab or the focus cuts in? |
| `handoff_escape` | three messages on the wire, no broadcasts | does the emergency escape drop what the peer holds? It does not |
| `hotkeys_escape` | the default configuration | is Ctrl+Alt+Escape always active? Not with modifiers held across a focus change |
| `pairing_lost` | an agent that two others dial | is a verified peer stored for good? Not if two pair at once |

**What the properties say.**

* `FocusNotStranded`: while the controller forwards over a live connection, an
  EdgeCrossed with no ReturnControl behind it is on its way, or the server has
  control and keeps it, or a ReturnControl or the end of the session is on its
  way back, or a ReturnControl was dropped because the outbound channel was
  full. `StrandedFocusResolves` says that such a state passes. `FocusInv` is its
  inductive strengthening (section 4), and `FocusKept` the refinement of `Focus`.
* `WantedIsPursued`, `WantedIsAttempted`: what the user asked for stays queued
  or has a task, and is attempted again and again, until a Disconnect or the
  removal of the peer.
* `NoBounceBack` is about the pushes since the cursor came in: to leave over the
  same edge it must have been pushed the whole margin back. `CrossedByMotion`
  says that no left-over of an earlier visit crosses by itself.
* `RemoteHeldAreHeld`: a key that is down on the peer is one the user holds, and
  none is when the user is home, as long as no return is `crossed`. It is not
  so when a ReturnControl of the peer ends a later visit (`client.rs:1116`) or
  its user switches screens (`server.rs:409`): the peer then keeps control and
  its keys until the controller sends it a ReturnControl. `handoff_escape` shows
  the first with all its messages.
* `MarkedIsShared`: what a side will never send again, the other side has had or
  is about to get, unless a full channel dropped it (`server.rs:476`), files were
  not sent (`client.rs:1002`), or their transfer failed: its task logs the failure
  and leaves the mark (`file_transfer.rs:534`, `server.rs:384`), so that copying
  the same files again sends nothing. That no fourth reason exists is the point.
* `PublishedIsWhole`: what is ready to paste is complete, unless a chunk could
  not be written (only logged, `file_transfer.rs:198`), the source had shrunk,
  or its staging directory was swept (`file_clipboard.rs:178`).
  `ShownIsUnderWay` excepts the two leaks its comment names. `SentIsPublished`
  excepts what was refused, lost with its connection, or offered when the staging
  directory could not be made: the receiver logs it and passes over the chunks,
  and the sender reports success (`file_transfer.rs:165`, `file_transfer.rs:185`).
  `TransfersEnd` excepts a background transfer that waits for the answer to its
  StartTls, which has no timeout (`file_transfer.rs:517`).
* `TrustHasConsent`: both pairing functions also trust a peer that sends a
  session message instead of an answer; it is nonetheless one that a side
  accepted. Who accepted matters: only a user can refuse, and an agent without
  a terminal, as the service that the installer sets up, has none:
  `prompt_accept` then accepts every request by itself (`session.rs:67`). The
  property therefore allows trust without a user, but not between two agents
  that both have a terminal. `docs/architecture.md:83` ("require confirmation
  of a cryptographically random 6-digit numeric verification code") and
  `README.md:20` of the repository ("mutual 6-digit cryptographic PIN
  verification") claim more than that: without a terminal the code is only
  logged, and nobody confirms it. `SessionsOpen` ranges over every
  combination of what the two ends know, and forget; it takes for granted that
  the peer stays in the list of those to be dialled (`main.rs:322-328`) and that
  the server can make its virtual devices (`server.rs:712`).
* `MotionIsTheFingers`: except after a finger has taken slot 0 while an older
  one was down, when the code mixes the positions of the two
  (`capture.rs:234-253`) and the pointer jumps. `ClickReleased` excepts a click
  in the middle of which the number of fingers changed or a grab was applied
  (`capture.rs:347`), or the focus left a peer that kept control, as after the
  late ReturnControl of `handoff_escape`.

**Bounds.** `C2SCap`, `S2CCap` bound messages on the wire and exist only in the
model. Two messages from the controller are enough for a ReturnControl and an
EdgeCrossed to be under way at once, which is what the hand-off has to survive;
three let a key follow them, which the escape run needs. `InCap` and `OutCap`
are 32 and 16 in the code and 1 here: a full channel is reached at once.
`MaxMissed` is 4 in the code and 1 here. One key and one device suffice since
no action relates two of them; a row of two remote screens lets control move on
from one to the next. The broadcasts are a SwitchScreen of the peer and a
Goodbye. In `ConnectManager` two tasks let a duplicate, a session that ends and
a retry coexist, and `QueueCap` bounds what the user and the network may queue,
not the retries, of which there is at most one per task. In `Hotkeys`, two Ctrl
keys and one Alt are what telling keys from classes takes; the configurations
give the shortcuts Escape, another key with the same modifiers, one without, or
nothing, so that they compete with the built-in escape and with each other; one
return under way is what crosses an entry. In `Desk` the margins are half of the screen, as 350 pixels of 700 are;
`MaxDrift` bounds how far off the screen the cursor may be tracked; edits ask
for the cell of this machine or for "left", so that screens have to make room
(the words by `ForgetPeer` and a TopologySync go through the same operation);
and one ratio is enough for a cursor that may then be moved anywhere. In
`FileTransfer`, `KeepDirs` is 5 in the code and 0 here: every offer sweeps, as
the sixth does. In `ClipboardSync` two events reach every race of the watcher with
a receiver, since each actor compares with the last mark only; a list of files
has one transfer of a machine under way at a time, and one receiver, of either
machine, is between its mark and its write (`MaxTransfers`, `MaxWriting`): the
races on a mark are within one machine, and two receivers of a machine differ in
nothing that the watcher sees. In `Pairing`, `MaxFaults` counts renames, broken
links, failed saves and crashes: two let one come while the other is being recovered from. In
`Touchpad` two slots reach every rule about the oldest finger and slot 0, a
notch is 2 counts instead of 16, and the three positions move along each axis
and along both. The proofs have none of these bounds. Deadlock is not checked
in `Handoff`, `Desk`, `FileTransfer`, `ClipboardSync`, `ConnectManager` and
`Pairing`: sessions and transfers end for good, and the bounds on users and
faults are used up.

**Fairness.** Every ready arm of the event loop's `select!` is taken eventually
(tokio picks among ready arms at random, and the interval fires for ever), and
so are the steps of every other task. Nothing is assumed of the user, the IPC
clients, the clipboard watcher or the network, nor that a broken link ever
reports an error. `OutboundSend` is strongly fair because the bound on `s2c` is
the model's: broadcasts may fill it again and again, a socket buffer drains.
In `connect` the manager, every step of a task that is due (clean-up, retry
after its sleep, subscription) and the reading of a Goodbye are weakly fair; a
set-up may hang (`perform_pairing` waits for the user of the peer) and a session
may last for ever. In `files` the task that sends and the loop that receives are
weakly fair, but for the answer to StartTls, which nothing makes the peer give;
no fault is obliged to happen. In `pairing` the two ends of
each connection and the outbound sender are weakly fair. This includes the
prompt: it is answered, though it may be refused every time. The connection in
the other direction, whose server has no user to ask, then settles it.

**What `handoff_escape` shows.** The remote cursor leaves the screen while the
user goes back by hotkey and enters again. The server has queued a
ReturnControl; it then reads the controller's ReturnControl and EdgeCrossed and
has control, and a key goes down. The controller takes the old ReturnControl for
an end of the new visit and becomes Local. Ctrl+Alt+Escape is acted upon only
while Forwarding (`client.rs:888`), so nothing is sent and the key stays down,
although `hotkeys.rs:15` promises "force-ungrab hardware and drop remote holds".

**What `hotkeys_escape` shows.** A focus change by cursor or hotkey
forgets the modifiers (`reset_modifiers`), and the fingers stay. When the cursor
crosses an edge with Ctrl and Alt down, or right after Ctrl+Alt+Tab, Escape goes
to the peer as a key: "ALWAYS active" (`hotkeys.rs:171`) needs both modifiers
pressed anew. `EscapeReturns` is what does hold. (Read off `PressAction` without a
run: `usage.md:262` sets `switch_screen` to Ctrl+Alt+Right, which `process_key`
takes for a directional jump before it looks at `switch_screen`.)

**What `pairing_lost` shows.** `perform_pairing_server` loads the known peers,
waits for a request and for the user, and saves what it loaded with the new peer
(`server.rs:213`, `server.rs:240`). Two agents that pair with a third at the same
time are both accepted, and the file has only the one that was saved last. Both
clients store the server, so `SessionsOpen` still holds: the forgotten one is
trusted again for its first session message, without a prompt.

## 4. Proofs

`Handoff_proof` proves, for all devices, keys, grids, edges and bounds, from the
named assumptions of `Handoff` only:

| Theorem | Invariant | Argument |
|---|---|---|
| `TypeCorrect` | `TypeOK` | inductive |
| `KeysHeldOnlyWithControl` | `HeldOnlyWithControl` | inductive; only the server's steps touch its variables |
| `StateAgrees` | `LoopStateAgrees` | inductive; every exit from Forwarding goes through `Break`, `BackToLocal` or `EndSession` |
| `GrabsFollowState` | `GrabbedOnlyWhileForwarding` | from `StateAgrees`: when not forwarding the requested grab is off, and whatever leaves Forwarding wakes every worker |
| `FocusInvHolds` | `FocusInv` | inductive, see below |
| `FocusNeverStranded` | `FocusNotStranded` | a conjunct of `FocusInv` |

`FocusNotStranded` alone is not inductive. When the server reads a
ReturnControl while the controller forwards, it must be known that an
EdgeCrossed follows (`ReturnSuperseded`); when the outbound sender drops a
message because the receiver has ended, that the loop has been told
(`EndSignalled`). The lemmas `Holds...` and `EndsEntering...` say what sending
and receiving do to a queue.

It also proves `HandoffKeepsFocus`: every behaviour of `Handoff` is
one of `Focus` (`FocusKept`), for all constants. Each action is shown to be one
named step of `Focus` or a stutter; that the user comes home only from a remote
place, and that nothing is said to a session that is over, takes `StateAgrees`
and the type invariant.

`ConnectManager_proof` does the same for all addresses, machines and tasks:

| Theorem | Invariant | Argument |
|---|---|---|
| `TypeCorrect` | `TypeOK` | inductive |
| `ConnectedToIsLive` | `ConnectedToLive` | inductive: a task leaves `Over` only by clearing the name |
| `PursuitHolds`, `WantedArePursued` | `PursuitInv`, `WantedIsPursued` | a skipped request needs the task `ConnectedToLive` gives; the retry that replaces it needs that no Disconnect stands while something is wanted |
| `ShownAreConnected` | `ShownConnectedHasSession` | inductive under `OneAddressEach`: the guard finds the entry by the session's address |

`Hotkeys_proof` proves, for every keyboard and configuration, `TypeCorrect`
(`TypeOK`), `TrackingHolds` (`TrackingInv`), `NoStuckKeys`
(`RemoteHeldAreHeld`) and `EscapeAlwaysReturns` (the action property
`EscapeReturns`). The three invariants are inductive together with `ControlInv`:
without a crossing the peer has no control once its return is under way or the
user is home, and without control it holds nothing; the last theorem
follows from `TrackingInv`: what was pressed since the focus moved is tracked,
and in `PressAction` nothing comes before the escape.

`Pairing_proof` proves, for all agents, connections, settings, initial
acquaintances and any number of faults, `TypeCorrect` (`TypeOK`) and
`TrustIsConsented` (`TrustHasConsent`). The inductive invariant `ConsentInv` says
where an acceptance, of a user or of an agent without a terminal, shows:
PairAccepted and FileTransferStatus are under way, in either direction or in the
queue, only on connections between two agents one of which accepted the other
(`WiresInv`); what is stored, and every copy a pairing function loaded, was
accepted (`StoresInv`); so were the ends that are in a session or about to
save (`EndsInv`); and no agent with a terminal accepts unasked (`UnaskedInv`). The wires are what makes it inductive: a pairing function
trusts a peer because of a message that took a decision somewhere else.

For the same constants it proves `EndsAgreeOnTls` (`EncryptionAgrees`). `EncryptionAgrees` speaks of ends that have both decided; the
invariant `TlsInv` adds what is under way: a StartTls holds the setting of the
client that sent it, a StartTlsAck the common decision and only once the server
has taken it, the queue of a session no StartTlsAck at all (`RequestsInv`,
`AnswersInv`, `QueueInv`); and an end that has left the negotiation holds the
common decision (`DecidedInv`).

`NoStatusIsLost` (`StatusIsHandled`) rests on `StatusInv`, which follows each
FileTransferStatus from the end that sends it: it is still to be sent, on the
wire, in the queue of the session, in the hands of the function that is about to
enter the session with it (`initial_msg`), or handled. Each step moves it one
place on; only a broken link or a crash takes it away, and then the link is gone.

`Desk_proof` proves every property of `Desk` that a run checks, for any screen,
settings, motions and list of peers:

| Theorem | Property | Hypothesis, argument |
|---|---|---|
| `CursorTyped` | (types; a contact is on its edge) | inductive |
| `CrossingIsMotion` | `CrossedByMotion` | a velocity threshold above 0 or a switch delay |
| `OnlyRemoteSwitchStrays` | `StrayOnlyAfterRemoteSwitch` | a dead zone of at least a pixel |
| `NoBounce` | `NoBounceBack` | room for two margins; inductive with `PushedFromInset`: its depth and the distance it was pushed make up the margin |
| `PeersStayListed` | (each peer at most once) | inductive over the commands |
| `EachScreenHasItsCell` | `OneScreenPerCell` | fewer peers than places; induction over the list |
| `PlacedWhereAsked` | `PlacedAsAsked` | induction over the list |

The hypotheses are what the proofs found out about the code; the configuration
can break each of the first three.

* Without a threshold and without a delay a cursor that a remote SwitchScreen
  left off the screen crosses with no speed at all. Both are in the settings, and
  the defaults satisfy the hypothesis.
* The dead zone can be set to 0. A cursor in the very corner (`width`, `height`)
  is then beyond two edges, and crossing one leaves it a pixel off the other.
* The margins are 350 to 600 pixels: on a screen less than 700 high, putting the
  cursor back at one inset may leave less than a margin to the opposite edge.
* `find_free_slot_near` searches 50 rings; 10201 screens fill them, and then the
  cell 100 to the right is taken without looking. With fewer peers the pigeonhole
  principle gives a free one.

The grid is built by a recursive function of the number of peers. What holds of
every prefix is proved by induction in first-order form (`SetInduction`): the set
of prefixes for which it fails has no least element.

`FileTransfer_proof` proves for all transfers, chunks and capacities:

| Theorem | Property | Argument |
|---|---|---|
| `ShownAreUnderWay` | `ShownIsUnderWay` | inductive with `WireInv` and `OpeningInv` |
| `PublishedAreWhole` | `PublishedIsWhole` | `WholeInv`, an account of each transfer |
| `TypeCorrect` | `TypeOK` | `TypeInv`: each transfer is offered once |

None of them is inductive by itself. An entry of the receiver's table would be
revived, with nothing to look after it, if something of a background transfer
were on a wire before its connection is opened: `WireInv` says that a wire
carries only messages of transfers of its own that have begun, `OpeningInv` that
only background transfers open connections.

`WholeInv` follows a transfer that nothing has damaged or swept from its sender to
the disk: the chunks it has sent are stored or on its wire, in order, behind an
Offer that has not been taken yet and before a Done that comes last; when the wire
has lost its tail, what is left is too short to reach the Done. The fast path
takes its chunks from `FlattenSeq` over the files of the transfer; that this
gives every chunk of every file once is proved by induction over the files, in
first-order form (`SetInduction`, and `FlattensExists` for the recursive function
inside the library's operator).

What `TypeOK` says that is not obvious is that `dirs`, the staging directories by
age, holds none twice: `OnceOf` says that a transfer whose Offer is still to be
sent or still on its wire has none yet, and that there is one Offer.

`ClipboardSync_proof` proves, for all items, initial clipboards and bounds:

| Theorem | Property | Argument |
|---|---|---|
| `TypeCorrect` | `TypeOK` | from `SyncType` and `FlagsType`, which also type the history |
| `MarkedAreShared` | `MarkedIsShared` | inductive with `KnownInv`: what is read, queued, being transferred or being set its machine has had; so a mark made by a receiver is known to the peer, and one made before sending stays under way until it arrives or is left behind |
| `FlagsAgree` | `FilesFlagAgrees` | inductive with `StatusInv`: the last status under way says what is set |

`Touchpad_proof` proves for any positions, scroll unit and number of slots, and
for any moments of the grabs and of the moves of the focus:

| Theorem | Property | Hypothesis, argument |
|---|---|---|
| `BaseInvHolds`, `TypeCorrect` | `TypeOK` | any pad; `BaseInv` |
| `ClicksAreReleased` | `ClickReleased` | any pad; `HeldInv` |
| `FingerInvHolds`, `OneFingerMoves` | `PointerMovesWithOneFinger` | at most four fingers; `CountInv` |
| `OldestFingerLeads` | `MotionIsTheFingers` | at most four fingers; `CurInv`, `LastInv` |

Nothing the worker holds is right in the middle of a frame, so the invariant
speaks of what is left of it. `Rest` says that each event still to be read is so
at the end of the frame, and in which order the kinds of events come; `Owned`
gives each of them the slot it is about, counted from the slot the worker has, or
from the kernel's if the worker has been told none since it was opened (`Lost`).
`PipeInv` (`Rest` and `Owned`) is kept by an event, by a grab, which throws away
what the worker holds but no event, by the focus, which touches neither, and by the
four kinds of frames (`LandBase`,
`LiftBase`, `MoveBase`, `ClickBase`). Around it stand the pad (`PadInv`), the touch
(`TouchInv`: what is held is so, or the event that ends it is pending) and the
buttons (`HeldInv`: in a click that no finger disturbed the count is the one it
was pressed with). `FingerInv` adds, in the same form, the number of fingers
(`CountInv`), the position (`CurInv`) and how far it has moved from the one that was
last reported (`LastInv`).

`CountInv` holds for four fingers, and `OneFingerMoves` and `OldestFingerLeads`
have `LastSlot <= 3` for it. `capture.rs:289-344` knows no BTN_TOOL_QUINTTAP:
when the device is grabbed with four fingers down and a fifth lands, the count
stays 0 and the worker moves the pointer. (TLC finds this on `MCTouchpad` with
`LastSlot = 4`; no run of the project has it, as nothing in the repository speaks
of five fingers.)

`FocusInv`, `PursuitInv`, `BaseInv` and the other inductive invariants, which
only the proofs use, are not among the properties of the runs.

**Only model-checked:** the liveness properties (fairness and ENABLED are out of
the proof system's reach). Every safety property that a passing run checks is also
the statement of a theorem, with the hypotheses given above.

## 5. Not modelled

* Several sessions of one agent that share `is_forwarding`, `tls_active` and the
  input devices: each model is of one session, or of what is around sessions.
  Their hazards are listed without a property.
* The graphical interface, the tray and the command line: clients of the IPC
  socket. Screen size detection, the serialisation of messages and of the
  configuration, the parsing of names: no state. TLS itself (rustls), mDNS,
  uinput and evdev: libraries and the kernel.
* Smaller things the hazards leave out: a retry is decided before the sleep that
  precedes it (`main.rs:331`), a Disconnect may come before the session
  subscribes (`client.rs:1236`), the KeySync sent at the start of a session is ignored
  (`client.rs:319`), ForgetPeer leaves `known_peers.json` alone
  (`ipc_server.rs:234`), an empty file is offered for pasting and never created
  (`file_transfer.rs:318`), discovery may change the address of a peer whose
  session runs (`discovery.rs:107`).
* Frames cut short by a timeout (`client.rs:978`): a message is sent entirely or
  not at all.
* Mice with relative axes, which pass on what they report; the choice between
  the programs that read the desktop's clipboard; the names and directories of
  files; `send_fast_transfer_to_channel`, which nothing calls.

Next would come a model of several sessions over one `AgentState`.
