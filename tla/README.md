# MultiSnekKVM in TLA+

MultiSnekKVM lets one keyboard and mouse drive two Windows machines. The
machine whose keyboard and mouse are in use is the *controller*; the other is
*controlled*. They also share the clipboard, audio, a microphone and files.
This directory holds a formal model of the parts of the program where
goroutines, sessions, queues and timeouts meet: TLA+ modules, the TLC
configurations that check them on small instances, and proofs for TLAPS.
`PROJECT.json` maps each definition to the lines it was written from. Paths
below are relative to `internal/` in the repository.

## The system

| Part | State it keeps | Operations | What is hard about it |
|---|---|---|---|
| Transport (`transport/`) | the one `session` slot, the listener, pairing PIN, connection times per address | `ConnectTo`, `handleInbound`, `installSession`, `readLoop`, `Disconnect`, `Stop`, `OnConnect`, `OnDisconnect` | two connections race for the slot; `Disconnect` races the read loop; callbacks run outside the locks |
| Remote input (`app/app_lifecycle.go`, `app_frames.go`, `inputstate/`) | held keys and buttons, the key deadline and its timer, who is in control, lock-free flags | inject a frame, touch the watchdog, release everything, return control | a lost key-up, a timer callback against new input, monitors against the read loop |
| Send multiplexer (`app/send_mux.go`) | four bounded lanes, the audio lane's token, the last successful write | `enqueueSend`, `muxLoop`, `drainSendMux`, `muxStallWatchdog` | priorities, full lanes, frames that outlive their session |
| File transfer (`filetransfer/`, `app/app_inbound.go`) | outbound and inbound tables, temporary directories, dialogs | `StartSend`, `streamFiles`, `HandleInbound`, `CancelAll`, the progress dialog | cancels from five places, control frames that overtake chunks, back-pressure |
| Application (`app/app_startup.go`, `app_background.go`, `app_control.go`) | role of the session, suspended, reconnecting, last peer | the callbacks, power events, monitors, the user's commands | callbacks of two sessions overlap; suspend against a handshake |
| Reconnect (`app/app_reconnect.go`, `app_peers.go`) | last peer address, `reconnecting` | `reconnectLoop`, `Connect`, `Disconnect`, `UntrustPeer` | decisions made before a dial and used after it |
| Input hook (`input/`) | remote mode, cursor position, callback in progress | Windows hooks, enter and leave remote mode, notify | hook thread against session thread; a notification that is lost |
| Audio (`audio/`, `app/app_audio_runtime.go`, `app_media.go`) | outbound and inbound streams, playout buffer | announce format, process, decode, render | format and data must stay in order; buffer level adapts to underruns |
| Clipboard (`clipboard/`) | last local text, pending remote text | record remote, prepare outbound | echoes between two machines |
| Bluetooth (`bluetooth/manager.go`) | enabled, listener, scan results | reconcile, scan | switching off while the listener opens |
| Route cache (`link/cache.go`) | adapters, routes | look up, refresh | a lookup resolved without the lock |
| Discovery (`discovery/`) | peers and their addresses | listen, broadcast, expire | bounded tables |
| Health and restarts (`resilience/`, `bootstrap/`) | failure counts | poll, remediate, restart | counts and back-off |
| Trust, settings, identity (`trust/`, `settings/`, `identity/`) | records in files | update, load, save | a failed save |

Goroutines share state through `App.mu`, `remoteInputMu`, `Transport.mu`, a few
atomics and channels. Frames go from a producer into a lane, from the lane to
the connection by the one `muxLoop`, and at the peer from `readLoop` to
`handleFrame` (input), to `fileInboundCh` (files) or to the audio channels.
`Transport` tells the application of sessions by the two callbacks. The frontend
calls bound methods, which only reach the system through the parts above.

## The modules

The seven modules of the session and of input are checked each by itself. Some
share state in the code, and the modules say what they leave to the other:
`SessionLifecycle` has the callbacks, `SendSession` what they do to the lanes,
`FileTransfer` what they do to transfers. `Reconnect` is about who dials, and takes
a session as one value. The ten services around them share nothing with each other;
`Services` instantiates them all with the assumptions on their constants, and runs
one of them per behaviour. `MCServices` adds what a configuration cannot say.

### RemoteInput: the controlled machine

One program counter per goroutine: *readers* (the read loop of the session, and
that of a closed one that is still inside its last frame), *monitors* (secure
desktop, idle watchdog, teardown, suspend, shutdown) and timer callbacks
(*handlers*). `lock` is `remoteInputMu`. A section under `a.mu` is one step.
`held` is what the program tracks, `osDown` what Windows has been told is down.
A frame is received (`Receive`), passes or fails `notePeerControlInput`
(`NoteAllowed`, `NoteRefused`, `Stamp`), and is recorded and touched or moves
the cursor. `releaseInjectedRemoteKeys` is `TakeAndClear` and `InjectUps`;
`pausePeerControlUntilWake` and `resetControlledState` go on with `ZeroStamp`
and `ControlOff`. Times are kept as what the code compares: a deadline is not
set, in the future, or past.

### SessionLifecycle: the slot and the callbacks

Each connection attempt is a goroutine that handshakes, installs itself, runs
`OnConnect` (three steps, one per piece of application state it writes), reads,
and ends. Callers run `Disconnect` after leaving, suspending or revoking trust.
`ups`, `downs` and `settled` are history variables. An attempt that is over lends
its identity to a new one, so the number of sessions is not bounded, only how
many are under way at once.

`OneSession` is what the transport promises the application: one session at a
time, and for each one `OnConnect` and then `OnDisconnect`, once.
`SessionLifecycle` implements it (`ImplementsOneSession`); the slot is its
`current`, the histories of callbacks are the abstract ones, and a handshake, a
refused connection or a step inside a callback is a stutter.

### SendMux: the writer's schedule

Lanes are lengths. The writer is transcribed step by step: bursts of input with
mouse and key frames in turn, a burst of audio that looks at the input lanes
after each frame, one file chunk a cycle, and the blocking select with the
heartbeat. `sig` is the audio lane's one-token channel. `overtaken` counts the
frames taken while the oldest frame of the high lane waits.

### SendSession: lanes across sessions

The same lanes as sequences of frames that are fresh or stale (queued before the
session began), the drains of `OnConnect` and `OnDisconnect` as processes of
their own, lossy close, a file sender blocked on its lane, and the stall
watchdog. A full mouse lane is coalesced as the hook thread does it: it takes the
moves out one by one (`StartSum`, `AddMove`) and queues their sum (`QueueSum`), with
the writer and the drains free to run in between; `summing` is the sum. The writer takes any lane here, which includes every schedule of
`SendMux`.

### FileTransfer: both ends

The sender's `streamFiles` per transfer, its two lanes, the wire (connection and
`fileInboundCh`), the receiver's `inboundFileLoop` as a variable `hand` (which
handler it is in, between two critical sections), the progress dialog, and the
end of the session at both ends as separate steps. `orphans` is a history
variable: receives that were registered after `CancelAll`.

`Receipt` is what receiving promises the user: a transfer is taken in at most once,
chunk by chunk while it is being received; he is told of it once, when all of it is
there; and one that was dropped never comes back. `FileTransfer` implements it
(`ImplementsReceipt`). A transfer is being received while its file is open or
`handleDone` is on the way to the announcement with it (`Phase`); lanes, dialogs and
directories are stutters, and so is a receive that an abort or a cancel took out of
the table while a handler still held it.

### InputHook: the controlling machine

`SetConnected` is split at its critical sections (`Connect`, `StartLoop`,
`Disconnect`, `TakeChannels`, `CloseStop`) and may be called by several goroutines
at once. Each edge loop (`loop[l]`) polls, pulls the trigger and becomes the hook
thread: `Enter`, the message loop with its `WM_QUIT` flag (`quit`), `Clear`.
`RequestExit` and `PostQuit` are the two halves of `requestExitRemote`, with the
thread identifier they read kept in `target`. `notifier` is the state-change
goroutine. `reported`, `lost` and `crossed` are history variables: the mode the
application was last told, a note that was cleared unread, and calls of
`SetConnected` that overlapped.

### Reconnect: who dials again

A *dialer* is the user's goroutine or one of the goroutines that run
`reconnectLoop`; `dialer[d]` is its place, the address it is at, those it has
left to try and, for a loop, the address it expects. An attempt is `Dials`,
`DialSucceeds` or `DialFails`, `Authorize`, `Install`, `Up` and the caller's own
follow-up (`UserWon`, `LoopWon`), so that `Disconnect` (`UserLeaves`,
`UserCloses`), `UntrustPeer` (`Revoke`, `RevokeEnds`), suspend and resume, the
peer's own connection and the loss of a session fall anywhere between the steps.
`OnDisconnect` reads the last address, `reconnecting` and the rest in one section
(`DownRetries`, `DownQuiet`) and forks a loop; the loop sets the flag itself
(`LoopStart`). `left`, `racing` and `loss` are history variables: the user has left
and nothing was being dialled, peers whose handshake was past authorisation when
trust was removed, and whether a loss is owed a retry or met a loop it relied on
that went away.

### Pairing: the PIN and the trust store

`authorizeInboundPeer` is four sections (`Lookup`, `Compare`, `Upsert`,
`Consume` or `MarkSeen`), with `runPairingInbound` before it for a handshake with a
PIN; the PIN's state (`pin`, `old`, `failures`, `locked`) may change between any two.
A handshake carries the PIN it has seen before the PAKE; `Compare` is where the code
looks whether that is still the current one, and `SpentPinIsRefused` says of that step
that a PIN which was replaced in the meantime lets nobody in.
The store is a table in memory and one in the file; a save replaces the file or
fails. `Restart` is a crash or an end of the program at any moment. `spent`, the
PINs that were replaced, and `stored` are history.

### AudioLink, AudioDevice, Playout, MediaControl: audio

`AudioLink` follows one stream from the capture to the other machine's decoder.
A configuration is a number, with the transport it uses; a frame carries both.
`hand[t]` are frames that a thread took out of the stream under its mutex and has
not put on the lane yet. A data frame is decoded in two steps, with the resets of
`OnConnect` and `OnDisconnect` free to fall in between. `torn` and `cut` are history:
configurations of which two threads had frames in hand at once, and a frame whose
stream was reset while it was decoded.

`AudioDevice` is the worker of a loop, its retries and the mute of the speakers; a
loop may fail at each step, `Mute` may read the previous state wrongly and `Unmute`
may be refused, and the user may use the mute switch at any time. `doubt` is history:
one of these has left the program with a wrong idea of the speakers.

`Playout` counts frames and positions in halves, and checks the frame that each cut
begins at: a cut outside the queue panics, which ends the program.

`MediaControl` has the settings, the session, the reconciliations, `OnConnect`,
`OnDisconnect`, device changes and received audio as goroutines, and checks what
streams they leave behind. A switch of control is told by the hook's state-change
goroutine: `HookSwitches` changes the mode and owes a call (`owed`),
`NotifyStateChange` starts the goroutine or leaves it a note, and the goroutine runs
`handleControlStateChange`, looks for a note, and ends in a section of its own
(`NotifierGoesOn`). `raced` is history.

### Clipboard, Discovery, RouteCache, BluetoothManager, Supervision

`Clipboard` is two machines, each with its poll, its writer and the record of what was
sent and received, and the lanes and the wire between them. A machine begins and ends
its session by itself: the transport installs it (`Begin`), `OnConnect` drains the
lanes later (`OpenDrain`), the read loop or `Disconnect` takes it down (`End`), and
`OnDisconnect` drains and resets the record (`EndDrain`, `Reset`). A text may be
dropped by a full lane, discarded by a drain, lost with the connection, or not be
written by `SetClipboardText`; `lost` and `crossed` are history.
`Discovery` is the two tables with ages and the cleanup ticker.
`RouteCache` keeps the identity of a slice beside its contents, because the code
compares addresses of first elements. `BluetoothManager` is `Run` step by step,
with what it read before a call of the backend kept in `run`, and the sockets that
are really open in `open`. `Supervision` is the supervisor process, the listener and
the health monitor with its streak and its restarts.

## Runs

A run checks the component's module directly; the last two of these check
`Services`, through `MCServices`. `pass` runs:

| Run | Instance | Question |
|---|---|---|
| `RemoteInput_controlled` | one reader, one monitor, two callbacks, a modifier and a button, fair | Is everything that is down tracked and watched, is a modifier let go in time? If the peer falls silent, is everything lifted and does control end? |
| `SessionLifecycle_slot` | two attempts, two callers, fair | Does it implement `OneSession`, is the application right once settled, does a closed session always give the slot up? |
| `SendMux_schedule` | capacities 2 to 3, bursts 3 and 2, fair | Is priority inversion bounded, is no wake-up lost, do bulk lanes move under any load? |
| `SendSession_lanes` | capacities 1 to 2 | Does a drained lane hold only the session's own frames, but for a blocked chunk and one sum of moves? Does a lost key end its session? |
| `FileTransfer_ends` | one transfer of two chunks, fair | Does it implement `Receipt`? Is no directory or dialog forgotten, do streams and dialogs end? |
| `InputHook_controller` | `OnConnect`, `OnDisconnect`, one watcher, two loops | Can remote mode always be asked to end, and is it? Does the hook follow the session, is every transition reported? |
| `Reconnect_dialers` | one peer, two routes, two loops, the user | Is a peer that was left, or whose trust was removed, left alone, and is a lost session retried? |
| `Services_safety` | seven services, one after the other | Expired addresses, stale routes, PINs replaced under a handshake, paired devices, decoded audio, equal clipboards, the right streams, a buffer read and cut inside what it holds. |
| `Services_liveness` | Bluetooth, capture loop, supervision, fair | Does Bluetooth that is off go quiet, does a stop return and give the speakers back, is a dead listener reported? |

`violation` runs each show one place where the code does something else than a
comment, the changelog or the README says; `PROJECT.json` quotes both sides:

| Run | What TLC finds |
|---|---|
| `FileTransfer_whole` | `Done` travels in the high lane and overtakes chunks in the file lane, so a whole transfer is rejected |
| `InputHook_stopped` | a session ends between the trigger and the section that enters remote mode; the stopped loop waits in `GetMessage` for good, and the next session finds remote mode on |
| `Reconnect_lost` | a session is lost while a reconnect loop that has seen it is about to return; `OnDisconnect` still reads `reconnecting` and starts no loop |

### Known exceptions

While modelling, TLC showed further interleavings that the code allows. No
property claims otherwise; where one would, its statement names the exception.

Control and input:

- `pausePeerControlUntilWake` lifts what is held and only then turns control off
  (`app_lifecycle.go:75`); a key injected in between stays down after control has
  returned, until the watchdog or a release;
- the key watchdog can lift an input whose deadline was just renewed, by a mouse
  move or wheel frame that touches it without `remoteInputMu`;
- when the last frame of a closed session overlaps the next session's
  `configurePeerControl`, the stamp of the last input can be zeroed while control is
  active, and the idle watchdog then skips it (with one read loop at a time
  `SilenceEndsControl` holds);
- two overlapping `SetConnected` calls can leave a session without an edge loop or
  with its callbacks unrouted (`crossed`), and two loops inside remote mode at once
  share one mode and one thread identifier;
- a change announced after the state-change goroutine has looked for a note, and
  before its deferred section, is forgotten (`lost`);
- two requests to leave post two `WM_QUIT`; the one left over ends the next stay on
  the same thread as soon as it begins.

Sessions, lanes and files:

- when the callbacks of two sessions overlap, the application's view of the session is
  the one of whichever wrote last (`settled`);
- the hook thread takes old moves out of a full mouse lane, `OnConnect`'s drain goes by,
  and the sum of the old moves is queued behind it (`send_mux.go:342-381`):
  `FreshAfterDrain` allows one such frame;
- `OnConnect` clears `suspended` although a suspend may have closed its session
  already (`app_startup.go:201`);
- the stall watchdog measures a queue of a new session against the last write of an
  earlier one, because `muxLastSentNs` is not reset (`send_mux.go:490`);
- the writer can put a frame of the last session on the new one before `OnConnect`
  has drained the lanes, and a late drain of the last `OnDisconnect` can discard
  input of the new session;
- an offer that is being handled while `CancelAll` runs is registered after it (the
  orphan then stays empty: `OrphansStayEmpty`);
- Cancel in the progress dialog is decided on a poll and then removes the directory
  without looking again, so files can go after they were announced
  (`filetransfer_windows_receive.go:407`);
- a sender that gives up after ten seconds without Accept tells the peer nothing, so
  the receive it belonged to waits until the session ends;
- a loss also goes unretried when the loop that holds `reconnecting` pauses between
  two rounds and expects another address than the one that was lost (`loss` is
  `"missed"`);
- a dial that is under way when the user leaves may still install its session, and
  sets the last address again (`left` is `FALSE` then).

Services:

- a device stays in the trust store's memory when its save fails, so it is trusted
  until the next restart; a handshake whose device is removed after the lookup goes on,
  and installs its session after `UntrustPeer` has looked for one (`racing`);
- frames taken out of an audio stream by two threads at once can reach the lane in
  the other order (`torn`), so data arrive under the wrong format; a reset of the
  receiver by `OnConnect` or `OnDisconnect` while a frame is being decoded leaves the
  decoder nil, or lets an Opus packet be read as PCM (`cut`, `audio/stream.go:342`);
- a stream that is started by a reconciliation, an `OnConnect` or a device change
  after the state it had read has changed keeps running (`raced`), and a capture left
  over so is heard in the next session only after a reannouncement;
- the note of a switch of control that comes between the state-change goroutine's last
  look and its deferred section is forgotten (`input_windows_remote.go:342-364`), and the
  streams do not follow the switch until the next one (`raced` too, as is a switch
  before `OnConnect` has set the role);
- the speakers stay muted, or are unmuted though the user had muted them (`doubt`):
  the error of the unmute is discarded (`audio/streamer_windows.go:277`), the result of
  `GetMute` is not looked at (line 198), and a mute by the user during a capture is
  taken for the capture's own;
- two clipboards copied to at the same time may swap, or differ until the next
  copy (`crossed`);
- a text that the poll has taken for sent is not offered again (`lost`): the high lane
  was full, `OnConnect`'s drain found it in the lane because the poll had seen the
  session first, the session ended with it on its way, or the other machine could not
  open or fill its clipboard (`input/input_windows_clipboard.go:68-96`);
- `Playout.Render` panics when one rendered frame moves the position by more than four
  frames (`audio/playout.go:181`, 213): 48 kHz played on an 8 kHz device, or 192 kHz on a
  48 kHz one with the drift correction on top. `ReadsInside` allows exactly that;
- a device's new address is refused while its table is full of expired ones, until the
  next cleanup (`discovery/discovery.go:342`);
- a failing `Listen` of Bluetooth overwrites `lastTry` that a toggle has just reset,
  so the retry waits; a listener whose accept loop has ended stays in the manager;
- a health monitor that panics for ever never reports anything (`MaxPanics`).

### Bounds

- *Processes.* One reader is the session's; the proofs hold for any number, which
  covers a closed session still inside its last frame. Two callbacks are the most
  that matter: a timer that is armed again while a callback runs. Two reconnect
  loops are one that leaves and one that starts; `MaxEnding` bounds the callbacks of
  lost sessions under way. The proofs hold for any number of either.
- *Inputs.* Inputs do not interact, except through the set being empty; a
  modifier and a button are the two ways of lifting.
- *Capacities.* 512, 256 and 64 frames become 1 to 3, which keeps empty, partly
  filled and full lanes apart. The proofs hold for every capacity.
- *Transfers.* Two transfers share the lanes and the handler only, and each
  handler step is about one; TLC has one transfer, and the proofs hold for any set.
- *Loops.* Two edge loops are the session's and one that outlived a timed-out stop;
  the loops are interchangeable, so the run uses symmetry (it checks safety only).
  One goroutine connects and another disconnects; two disconnects at once are left
  to the proofs, which hold for any callers.
  `PostFails` is `FALSE` there; the proofs cover both values. A `WM_QUIT` left in the
  queue of a thread that no loop uses any more is forgotten.
- *Size.* Two chunks are a first and a last one, and an order to get wrong.
- *Routes and peers.* Two routes are a better and a worse one; a second peer only
  matters by having another address, which a second route also gives; the proofs hold
  for any set of either.
- *Services.* Two handshakes, four PINs and one device let a PIN be spent, renewed
  and tried late; three configurations of a stream are one encoded, one decoded and
  one in between; a lane of two is full with one announcement; three copies of two
  texts cross in every way two can; three machines and two addresses overfill tables
  of two and one; two networks besides none, and four slice identities, let a network
  come back. Two PIN failures (five in the
  code) and two device failures in a row (eight), three restarts and three
  failed polls keep below, at and past the limit apart. Handshakes are interchangeable
  in `Services_safety`, and its constraint `Undecided` does not continue a behaviour
  past `raced`, `crossed` or `lost`, after which `StreamsFitSettings` and
  `AgreeUnlessCrossed` promise nothing. It also keeps to two at once of the
  activities of `MediaControl` (reconciliations, the state-change goroutine, the session's
  callbacks, a device change, a received frame; `MaxUnderWay`), which is one that has read
  and one that changes what it read; reconciliations are interchangeable too. One call owed to
  the state-change goroutine (`MaxNotes`) is a note that is left; the goroutine itself
  is another. A rendered frame moves the playout position by a half, one, four or six
  frames, so that the panic is reached. The proofs need neither and hold for any of
  these numbers and sets within the assumptions of `Services`.

### Fairness

Weak fairness is assumed of what the Go scheduler and the runtime do: goroutines
that can run, timers that are due, mutexes that are handed on, writes that end by
their deadline, reads of a closed connection that fail, calls of Windows that
return. Nothing is assumed of users, peers, sessions, devices or Windows events:
the radio may come and go, and a device fail every time. A module's `Spec` has no
fairness, so that what is proved of it needs none; `FairSpec` is for the runs with a
liveness property.

## Proofs

A proof module extends the component's module. Each invariant is proved as
`Spec => []Inv` from an inductive invariant.

- **RemoteInputProofs.** `TypeOK`; then `TrackingInv`, which adds to `DownIsTracked`
  what holds while `remoteInputMu` is held: between `TakeAndClear` and `InjectUps`
  the inputs that are down are the held ones and those in `toRelease`, and the
  goroutine that owns the lock is in one of the sections it guards. From it
  `NothingStuckUntracked`, `HeldInputsAreWatched` and `LockFreeFlagsAgree`.
- **SessionLifecycleProofs.** `TypeOK`, the callback history against the slot
  (`SlotOwesCallback`, which gives `CallbacksPaired`); `Refinement`, that every step
  opens, closes or forgets a session of `OneSession` or changes nothing of it, from
  the same invariant; and `SettledTheorem`: the inductive invariant follows each
  running callback through what it has written so far.
- **SendMuxProofs.** `TypeOK`; `BoundedInversion` bounds `overtaken` by what the
  writer's program counter can still take before it looks at the high lane again;
  `NoLostWakeup` says at which points of the cycle a token may be missing.
- **SendSessionProofs.** `TypeOK`; `DrainIsEffective`, with an invariant that says
  what the lanes may hold in each phase of the drain; `LossIsFatal`.
- **FileTransferProofs.** `TypeCorrect`: with the types goes that a stream with a
  chunk to send has read one, which puts the chunk's place inside the file; lemmas
  say what a lane holds after a frame is taken, queued or dropped, and after all of
  `CancelAll`'s are (`QueuedAll`). `NoDirForgotten`, `NoDialogForgotten` and
  `OnlyWholeAnnounced`, from an invariant on who holds a receive at each step of the
  handler, the dialog and `CancelAll`. `OrphansStayEmptyTheorem` needs the whole way of
  a transfer: its one offer is in the high lane, on the wire or in the handler's hand
  (`OffersOnce`); until it is answered nothing of the file has left the sender; and a
  receive that `CancelAll` did not see was accepted, if at all, into a lane that the
  next session finds empty (`Early`). A step is calm for a transfer when it brings none
  of this further (`Calm`); all but `StartSend` and `Register` are.
  `Refinement`, that every step does to one transfer what `Receipt` allows or changes
  nothing of it, needs `ReceiptInv`: a receive in the table has its file open, one
  that `handleDone` holds is in no table and not yet announced, what is announced is
  closed, and a transfer whose offer is still on its way is nowhere. Without it a
  handler between two critical sections could bring back what was dropped meanwhile,
  and a second offer restart what the user has.
- **InputHookProofs.** `TypeOK`; `ChannelInv`, who can still reach which stop
  channel, which gives `NoSecondClose`; `RemoteIsHooked`; `ClearedStayIsAsked`;
  `HookAgrees`, from an invariant that says what the one call under way will leave
  behind; `TransitionsReported`, from "a mode that has not been reported is due".
- **ReconnectProofs.** `TypeCorrect`, with the addition that a dialling goroutine has
  an address. `LeftPeerStaysLeft`: after the user has left there is no last address, so
  no loop wants anything (`Wanted` compares it with the one the loop expects), and
  nothing was in flight. `RevokedPeerIsGone`: a peer without trust that has a session,
  or is about to, is in `racing` or is the one `UntrustPeer` is working on.
  `LossHasItsLoop`: while a retry is owed some loop has neither left nor begun to
  leave, and the step at which the last such loop leaves settles the debt or finds it
  missed.
- **ServicesProofs.** A step of `Services` is a step of the part that runs or leaves
  it alone (`StepOfOnePart`), so that each part has its own inductive invariant, proved
  over its actions:
  - *Discovery*: the addresses that are listed are those that are timed, and nothing is
    older than `peerTTL` and the time since the last cleanup (`Listed`).
  - *RouteCache*: its property is inductive with the types.
  - *Pairing*: a PIN that was replaced is never the current one (`CodeOK`), and the
    comparison lets in only who has the current one; what was stored is in the table and
    in the file (`StoreOK`).
  - *AudioLink*: a thread that holds frames of a configuration that is not torn is
    alone (`HandsOK`, `CaptureOK`), so on the lane every data frame stands behind the
    frames that announce its configuration and its transport (`LaneOK`) and is decoded by
    them, or its stream was reset in between (`DecodingOK`).
  - *Clipboard*: what is still to be sent is the text of the machine that will send it
    (`Followed`), what is held back was received last (`HeldBack`), and unless copies
    crossed or a text was lost both machines end up with the same text, or one of them
    still owes the other its own (`Converges`).
  - *MediaControl*: a stream that runs without being wanted has a stop coming
    (`Surplus`), and one that is wanted and does not run has a start (`Deficit`), from
    what each reconciliation, callback and device change has read so far (`JobsOK`,
    `LinkOK`); the state-change goroutine counts as a stop and a start to come while a
    call is owed or it has not read the settings yet (`NoteAhead`).
  - *Playout*: `PlaInv`, the property with the position at most one frame past the queue:
    a block plays a frame only if its neighbours are there, so that a step of up to four
    frames leaves the drop inside (`DropKeepsInside`), and an overflow has more than the
    ceiling to keep (`CeilingBelowMax`).
  - *BluetoothManager*: a socket is in `Run`'s hands only between the backend's call
    and its installation, when the manager has no other (`RunHolds`).
  - *AudioDevice*: only the worker's loop is alive (`OneLoop`), and unless
    there is `doubt` it has to unmute exactly when the user has not muted
    (`OnlyOwnMute`).
  - *Supervision*: its types (`ServicesTypes`); its property is liveness.

The assumptions are those the modules name: disjoint sets of processes, positive
capacities, routes that are numbers, finitely many transfers. For the services: a new
PIN differs from every PIN in use; there are two machines with a clipboard; the speakers
are one endpoint; at least one call of the state-change goroutine is counted; a profile's
target is at most its ceiling and its ceiling at most its maximum, as in
`playoutConfigForProfile`, and one profile has the largest target. TLC evaluates
every assumption on the instances of the runs.

Only model-checked: liveness under fairness, which is out of the prover's reach
(`SilenceReleases`, `SilenceEndsControl`, `ClosedFreesSlot`, `LanesProgress`,
`TransfersEnd`, `OffIsOff`, `StopReturns`, `DownIsReported`). Every safety property of a
passing run is a theorem, and so are both refinements. The types of every module
are proved; only those of `Services` are also checked by a run. What a `violation` run refutes has no proof, of course.

## Not modelled

Bytes: frame layouts, TLS, the PAKE, file names, audio samples, JSON. Windows:
the calls behind hooks, WASAPI, Bluetooth sockets, dialogs. What the user sees: the
frontend, the tray, events, and the list `Peers` merges out of all sources. Settings,
identity, logging, Tailscale, UPnP and the development tools. `PROJECT.json` lists
every part with its status and the reason.

Of the parts that are modelled these are left out: the geometry of the screens and
what a sum of mouse moves is; the window of connections per address in
`Transport`; the microphone, which takes the steps of desktop audio with its own
mode; outbound Bluetooth connections. Two things would need both machines in one
model: the idle watchdog of the controlled machine, which pauses without telling the
controller (`app_background.go:249`), and two machines that dial each other at once
(`transport_lifecycle.go:181`). Each module has one machine with a peer that may do
anything in their place, except `FileTransfer`, `AudioLink` and `Clipboard`, which
have both ends.
