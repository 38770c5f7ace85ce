# A TLA+ model of WinEmulator

WinEmulator is an Android application that runs a Linux user land under proot
and shows its windows through a bundled fork of Termux:X11. The program's own
concurrent logic is the *lorie* X server back end and its Android front end
(`src/tx11/src/main/cpp/lorie`, `src/tx11/src/main/java/com/termux/x11`), which
run in two processes that share memory, a socket and graphics buffers. These
modules specify how those processes cooperate, and how the app around them
(`src/app`) keeps its containers; they are checked with TLC on small instances,
and the central invariants are proved with TLAPS for every size.

## The system

| Part | State | Operations | Interacts through |
|---|---|---|---|
| Shared mutex (`lorie.h`) | the pthread mutex, `lockingPid` | `lorie_mutex_lock`, `lorie_mutex_unlock` | shared memory; the socket, as evidence that the holder lives |
| X server, main thread (`InitOutput.c`) | root pixmap, damage, cursor, `registeredBuffers` | drawing accesses, `lorieSetCursor`, `lorieMoveCursor`, `lorieRRScreenSetSize`, `lorieRedraw`, `addFd` | shared flags, condition variable, socket |
| X server, input thread (`cmdentrypoint.c`) | `conn_fd`, clipboard switch | `handleLorieEvents` | `conn_fd` and `registeredBuffers`, with no lock |
| X server, Java side (`CmdEntryPoint.java`) | none | `getXConnection`, `sendBroadcastDelayed`, `listenForConnections` | binder, broadcasts, TCP port |
| Activity, UI thread (`activity.c`, `MainActivity.java`) | `conn_fd`, `service`, UI queue | `connect_`, `xcallback`, `tryConnect`, `onReceiveConnection`, death notices | socket, binder, the renderer's requests |
| Renderer thread (`renderer.c`) | mapped state, buffer lists, EGL surface | `rendererThread`, `rendererShouldWait`, `rendererRedrawLocked`, `rendererRefreshContext` | `stateLock`, `stateCond`, `bufferLock`, shared flags |
| Proxy thread (`renderer.c`) | which condition variable it waits on | `pthreadCondVarProxyThread` | both condition variables |
| Buffers (`buffer.c`) | reference count, lock, kind | allocate, convert, lock, send, receive | lists of both processes |
| Clipboard (`clipboard.c`) | selection owners, pending requests | announce, request, send, convert | X clients, socket |
| Present, pixmaps (`InitOutput.c`) | vblank list, `current_msc`, pixmap locks | flip, vblank, prepare/finish access | X clients, `lorieRedraw` |
| Input (`cmdentrypoint.c`, `InitInput.c`, Java `input/`) | the gesture, the held button, touches, buttons and keys that are down | touch, tap, long press, stylus, mouse and key events | socket, work queue |
| Containers (`Utils.kt`, `SettingViewModel.kt`, `PrepareScreen.kt`, `GeneralSettings.kt`) | directories, the link `current`, the stored name and login users; copies of them in state flows | install, rename, delete, select, choose a login user, start | files, DataStore, coroutines, proot |
| App (`app/.../winemulator`) | `emuStarted`, dialogs, services, preferences | start-up, terminal | services, proot, files |

What is hard here: the two processes share flags without a lock and may die at
any moment; condition variables are signalled without the sleeper's mutex; the
server's input and main threads share `conn_fd`; and the activity may
disconnect, be created again and reconnect faster than the server notices.
Android may cancel gestures, lose events and take devices away while something
is pressed; and the app's coroutines copy what is on disk, change the copy and
write it back, in a process that may be killed at any point.
`PROJECT.json` lists the hazards line by line.

What makes each part correct: the mutex excludes and survives a crash; every
update reaches the screen and no buffer is freed in use; after any failure both
processes agree on a session and on the buffers sent in it; a call into the
renderer returns when it has taken effect and memory is unmapped only when
nobody waits in it; both clipboards come to agree and pastes are answered;
presented frames appear in order and on time, and buffers are locked in turn;
what is pressed in X is pressed by the user; and the container that starts is
the one that was selected, as the user that was chosen.

## Modules

| Module | Models |
|---|---|
| `SharedMutex` | `lorie_mutex_lock` / `_unlock`, one action per access to shared memory, with process death, reconnection and a socket that the activity closes |
| `CrashTolerantLock` | the abstract lock that `SharedMutex` implements |
| `FrameSync` | the way of an update from the X server to the screen |
| `Connection` | discovery, sessions, hangups, death notices and buffer registration |
| `RendererControl` | the UI thread's calls into the renderer thread, and the proxy thread when the shared state is replaced |
| `Clipboard` | the selections of the X server and the Android clipboard |
| `TextConversion` | the conversions of `clipboard.c` as functions on byte sequences |
| `Present` | presentations, flips, the frame counter, the root window's pixmap and buffer locks |
| `Input` | what is pressed on the X devices, from Android's events to the server's |
| `Rootfs` | the containers, on disk and in the process |
| `SharedMutex_proofs`, `FrameSync_proofs`, `Connection_proofs`, `RendererControl_proofs`, `Clipboard_proofs`, `Present_proofs`, `Input_proofs`, `Rootfs_proofs` | theorems |
| `MC...` | the modules the runs name, with the symmetry sets and input sets they use; the constants are in the `.cfg` files |

### SharedMutex

A process is named by the one thread of it that locks: the server's main
thread, or the renderer thread of one activity process. `owner` is the holder
of the pthread mutex, `lockingPid` the field of the shared state; they differ
between `TimedLock` and `RecordPid` and between `ClearPid` and `Unlock`, as in
the code. `link` is the activity whose socket has both ends open, `connFd` the
server's `conn_fd`, which the input thread clears when it handles a hangup
(`Hangup`): it may handle the end of one session (`ended`) when the next one is
already in `conn_fd`. `lorieConnectionAlive` asks both.
`Expire` has no timing guard: the code computes its deadline with
`CLOCK_MONOTONIC` and `pthread_mutex_timedlock` reads `CLOCK_REALTIME`, so a
contended attempt may expire at once. `Die` closes the sockets of a process and
leaves the mutex as it is. `cut` is a history variable: the server's `conn_fd`
has lost an activity that lives on, because it closed its socket or because of
a late hangup. The server cannot tell this from its death; the properties
promise nothing from then on. Recursive locking by one thread is not modelled;
the server's nested accesses only touch the count.

### FrameSync

One action per access that the other process can see. Pixels are versions:
`content[b]` counts the drawings in buffer `b`, `curImg` the cursor images,
`curPos` the cursor positions. `shown` is what the screen has of each. `vsync`
stands for a queued `lorieRedraw`. `RendererHoldsStateLock` tells when
`rendererSetWindow` must wait. A signal changes `rpc` only if the renderer is
asleep; otherwise it is lost. `rendererRefreshContext` has one disjunct for
each way it can end: the window is applied, it has no size any more, EGL
refuses the surface, EGL refuses the context or there is no window. The
connection stays up here; it fails in `SharedMutex` and `Connection`.
`MayUpdate` bounds the updates of all kinds together.

### Connection

A session is one socketpair. The server's main thread and its input thread
share `conn_fd` and `registeredBuffers`, which `input_lock` does not protect
from the main thread, so each access is a step: `addFd` and `AssignConnFd`
(lines 434 and 435), `lorieSendSharedServerState`, `lorieRegisterBuffer`,
`SendBuffer` and `ListBuffer` (450, 455, 457) of the main thread, `HangupClose`,
`HangupForget` and `HangupUnlist` of the input thread. The two writes of one
message are one step, and a closed descriptor's number is not used again. The
activity's callbacks are single steps, since nothing else in its process
touches that state. `overlapped` is a history variable: it records that a
session was opened before the server had handled the end of the last one,
which `InStep` and `RecoversInTurn` exclude and `Recovers` does not. `torn` is
another: a hangup was handled between two accesses of the main thread to
`conn_fd` (in `addFd`) or to `registeredBuffers` (in `lorieRegisterBuffer`), and
what the main thread wrote last outlives the session. Both are about the server
process that runs. Repeated deliveries of the same
broadcast, and repeated posts of the same callback, are one element of a set or
one flag: handling them twice changes nothing.

### RendererControl

`upc`, `rpc` and `ppc` are the positions of the UI thread, the renderer thread
and the proxy thread. Shared states and windows are numbered by the call that
brings them; `mapped` is the set of states that are mapped. The module has every
step between two operations on `stateLock`, `stateCond` and the proxy's lock,
because the order of these steps is what the code relies on. `MayCallEarly`
lets the UI thread call before the renderer thread has reached its first wait.
FrameSync contains the same window handshake, folded into fewer steps.

### Clipboard

A text is a number, in the order of copying. `clip` is Android's clipboard,
`cached` the server's `cachedData`, `owner` the owner of the selection, `up` and
`down` the two directions of the socket, `work` the main thread's work queue.
`lorieProcSendEvent` handles the answer of an X owner, whose selection may be
UTF-8, Latin-1, not text or broken. `fresh` says that Android's clipboard is
newer than `lastClipboardTimestamp`; the 150 ms by which the code tells its own
changes from others are abstracted. Android may withhold the clipboard from an
app without focus; the model lets the activity read it. `calm` is a history
variable: it falls when a copy meets one that is still under way, when the
connection is lost and when the preference changes. X clients do not
disconnect.

### TextConversion

The state is a text that grows by one code point at a time; the properties
compare the conversions of its encoding with what the encodings define. The
run's code points are those around every boundary of one, two, three and four
bytes; the theorems are about all characters. `lorieConvertLF` works on bytes and is
applied to the encoded text, as in `lorieHandleSelection`.

### Present

`d` is a record of what the main thread keeps; operators named after the C
functions take such a record to the next one, so that an action is the whole
handler. The parts of `xserver/present` that call back into `InitOutput.c` are
translated too: a client has one full-screen window, so `flipping` stands for
`flip_window`. `at` is the frame in the driver's queue and `exec` the one in
the X server's record; they differ after a window was reconfigured. `memory`
says whether a conversion finds memory. `d.square` stands for the size test of
`loriePresentFlip`, which only square screens pass; a resize may change it.
`faults` records messages and misuses that the code reports or would suffer,
and that the frame counter was set back. A scrapped presentation (its pixmap was
dropped because a later one replaces it) is reported as skipped when it is due,
which for a flip is a frame before its target. `Requests` says how pixmaps are
presented. `lorieRedraw` binds the result of its vblanks with `\E` over a
singleton so that TLC computes it once.

### Input

The activity and the server are connected by `wire`, a FIFO of events that the
input thread reads; touches go on to `work`, the main thread's queue. `fingers`
is Android's gesture, `tap` the fields of `TapGestureDetector` (`point`:
`mInitialPoint` is set; `timer`: the long press message is queued), `held` the
button that the strategy holds, `click` a delayed tap. `TouchInputHandler` shows
each event to the strategy or the touch sender first and to the tap detector
then, and so do the actions. `Hover` is a pointer above the screen, which
`sendTouchEvent` treats like a moving finger, and `MissedUp` a finger, the last
one too, whose release Android does not report; a long press may still fire
after it. On the server `touches`, `pressed` and `codes` are
what X clients find pressed, `prev` is `buttons_prev`. The history variables
`stray`, `doubt` and `upset` mark fingers, buttons and keys whose release the
code does not send, sends to another device, or sends with another code; every
property says which these are. A key is named by its scan code, and `layout`
gives the code that `android_to_linux_keycode` has for its key code, which
differs on some layouts. Pointers and keyboard share only the socket, so a
behaviour has one or the other. Not here: positions, scrolling and typed text,
the table of legacy key codes, the touchpad and DeX listeners, and keys that
have no character under AltGr.

### Rootfs

`dirs`, `passwd`, `link`, `stored` and `map` are on disk and survive; the rest
is lost when the process dies, which it may between any two steps. `view` is
`generalState.value`: it has its default until the settings are composed and
follows the DataStore only while they are. `onChangeRootfsLoginUser` runs as
`ListUsers`, `MergeUsers` and `WriteUsers`; two coroutines of it may overlap, one
started by the settings (`refresh`) and one by the user (`call`). A dialog stays
until its action ends (`op`), except that leaving the settings cancels the
coroutine of a login user. `makeCurrent` is two steps, as is every use of it.
What is typed for a new name may be a path (`Ways`): to the name itself, to
another directory, so that the container leaves the list, or to a directory that
is missing, so that `renameTo` fails; `makeCurrent` links to the path and stores
its last component. A deletion is the steps of `rm -r` that others can see: it is
under way (`Delete`), has come to `/etc/passwd` (`DeleteUsers`), is done
(`DeleteDone`) or ends with an error that is thrown (`DeleteFails`).
`wish` and `chosen` are what the user last selected and chose (before any
selection, `wish` is the container started first); `mislaid`, `raced` and
`removed` record what the properties leave out.

## Runs

| Run | Result | Shows |
|---|---|---|
| `mutex_crash` | passes | exclusion and refinement of the lock, two activity processes, any deaths, until the server's `conn_fd` loses a live activity; an orphaned mutex is reclaimed |
| `frame_sync` | passes | no lost update, no use after release; although signals are lost, the screen comes to have the last cursor and, of the root window if it shows it, the last drawing |
| `connection` | passes | agreement on session and buffers, recovery, input, closed descriptors, unless sessions overlap or a hangup falls into `addFd` or `lorieRegisterBuffer` |
| `connection_overlap` | violation | recovery fails when sessions overlap |
| `control` | passes | calls return, and when they do they have been applied; the proxy stays on mapped memory |
| `clipboard` | passes | X clients never get text older than the last announcement; when copies wait for each other both clipboards agree and pastes are answered |
| `text` | passes | the conversions of text agree with the encodings |
| `present` | passes | buffer locks are in turn, nothing refers to a destroyed pixmap, nothing is completed early, or skipped more than a frame early |
| `present_fair` | passes | vblanks are performed, flips performed at once and resized screens are shown |
| `present_freed` | violation | `lorieRedraw` uses a pixmap that its vblanks destroyed |
| `rootfs` | passes | the container selected last is started, if its name was not mislaid, and never deleted while it runs; choices are kept and the settings can be composed, outside the races and failures named |
| `input` | passes | touches, buttons and keys that are down in X are down for the user, outside the losses named; the tap detector has its point |

The conditions in the passing runs mark where the code stops keeping its
promise. With another constant or without the condition TLC finds:

- `MutualExclusion` without `cut`: `connect_` and `xcallback` close the socket
  before `rendererSetSharedState(NULL)`, so the server may reinitialise the mutex
  while the renderer draws. The same happens when the input thread handles the
  hangup of a dead activity after the next one has connected: `conn_fd` is then
  -1 (`cmdentrypoint.c:271`) and `lorieConnectionAlive` answers FALSE. `Holder`
  and `Inside` have the same condition.
- `InStep`, `RecoversInTurn` and `InputFlows` without `torn`: a hangup between
  `InputThreadRegisterDev` and `conn_fd = fd` (`cmdentrypoint.c:434`) leaves
  `conn_fd` on a closed descriptor, so that the server takes itself for connected
  and broadcasts no more. A hangup between lines 450 and 457 leaves a buffer in
  `registeredBuffers` with no session, and the next activity does not get it
  (`InStep` and `RecoversInTurn`).
- `OrphanReclaimed` without its last disjunct: an activity dies holding the mutex
  and the next one connects before the server wants the lock. From then on both
  find the connection alive and retry for ever, although the comment of
  `lorie_mutex_lock` says that it will simply be reinitialised.
- `MayCallEarly = TRUE`, `CallReturns`: a call made before the renderer thread's
  first wait is not noticed by it, and the UI thread waits.
- `Settled => shown.id = root` in `FrameSync`: a renderer that looked up the old
  root buffer before a resize was published clears the request of that resize,
  and the old buffer stays on the screen until the next update.
- `CacheCurrent` without `calm`: an X owner's late text replaces a newer Android
  text without an announcement, and X clients go on pasting the cached text.
- `FramesShown` with `Requests <- Ahead`: a flip that `lorieRedraw` performs
  itself reports damage which that redraw clears while it publishes the pixmap
  taken before. With `MaxDrops = 1`: a new activity does not get the flipped
  pixmap's buffer. So `FramesShown` says nothing of these two.
- `NotEarly` without its condition: a flip with a late fence sets `current_msc`
  back to its target. The frame counter is then not monotonic either.
- `NotEarly` with `FrameOf(v) == v.target`: a scrapped flip keeps its time of
  execution and is reported as skipped one frame before its target
  (`present_scmd.c:640`).
- Two flips due in one redraw are performed newest first, so the earlier frame
  stays on the screen.
- A screen that is not square never flips (`InitOutput.c:782`).
- `ChoiceKept` without `raced`: entering the settings while `generalState` still
  has its default resets the login user of every container, and leaving them
  drops a choice that is not stored yet. A renamed container also loses its
  choice, although the comment at `SettingViewModel.kt:203` says that its key is
  renamed; the model counts a choice only since the container has its name.
- `SettingsComposable` without `removed` or `raced`: the settings throw
  (`GeneralSettings.kt:192`) after a login user was removed in the container,
  when a container is listed while `rm -r` has already removed its `/etc/passwd`
  or after `rm -r` has failed there (`SettingViewModel.kt:212`), or when a name is
  used again under an outdated map.
- `StartsSelected` without `mislaid`: the next start runs another container than
  the one selected last, in three cases. The process dies after the container in
  use was renamed and before it is selected under its new name. Its new name is a
  path to another or to no directory: the failing `renameTo` goes unnoticed
  (`SettingViewModel.kt:202`), and `makeCurrent` stores the last component, which
  may be another container's name (`Utils.kt:333`). Or a new container is renamed
  on the preparation screen and then selected there under its old name
  (`PrepareScreen.kt:239`).
- `TouchesMatch` without `stray`: `pointers[]` is cleared only for the ids of the
  event, so a pointer that ever moved is not ended by the loop of
  `InputEventSender.java:122`; `ACTION_CANCEL` ends one pointer of several. A
  hovering finger sends `XI_TouchUpdate` (`InputEventSender.java:106`), for which
  the server begins a touch (`cmdentrypoint.c:247`) that `ACTION_HOVER_EXIT` does
  not end.
- `ButtonsLetGo` without `doubt`: neither `ACTION_CANCEL` nor a missed last
  `ACTION_UP` lets go of the held button, a long press whose finger has gone
  unnoticed presses it after that, and any reloaded preference replaces the
  strategy that holds it.
- `StylusMatches` without `doubt`: `buttons_prev` is common to pen, eraser and
  mouse and outlives them, so a button that is down when the tool or
  `stylusIsMouse` changes, or the stylus is removed, stays down or is missed.
- `KeysLetGo` without `upset`: a key pressed with a modifier has its scan code and
  is released without it under its key code; a canceled release leaves the key in
  `mPressedTextKeys`, which swallows a later one; and so does a key that is
  repeated as text after its modifier was released.
- After a hangup whatever was pressed stays pressed in all of these.

Bounds. Two activity processes are what a takeover needs, and the lock never
looks at more than one peer. One drawing, motion, cursor image, resize and
window change, any three of them in a behaviour, let each update meet each phase
of a redraw and two others; the proofs remove these bounds for the safety
properties. Two failures give every pair of server
death, activity death and re-creation; a second buffer gives a resize in any
phase. Five calls let a state be replaced while the proxy is anywhere. Two
copies, two pastes and two X clients, with a focus change, a switch and a
hangup, let announcements, requests and answers cross each other, for every
kind of selection. Two pixmaps and two presentations (three for
`present_freed`) up to two frames ahead let a flip meet another one, a copy, a
resize and a free; the frame counter stops at its bound, and no presentation is
for a frame beyond it (frame 2 in the passing runs, 4 in `present_freed`).
`present` has all kinds of buffers; `present_fair` has hardware buffers, flips
for the next frame, which are performed at once, and one resize, and keeps the
connection. Texts of three code points have
every length of encoding at the beginning, in the middle and at the end. Two
containers, three names and one user besides root let a name be freed and used
again while another container runs; four operations suffice to install one,
choose or rename, install or delete another and select it, with every way to type
a name, and neither the kills nor the steps and failures of a deletion are
bounded. Two fingers,
two keys with every layout, five operations and one lost connection let a
gesture begin, be interrupted by another event and end. The user waits until the
server has read everything (`MaxBacklog = 0`): the activity never reads the
server's state, so the order of reading does not change what is found once all
is read, and events lost in a hangup are like those made without a connection.
The mouse and the stylus have one button here, since buttons are treated alike.
The
processes may all die (`mutex_*`), a connected system without failures rests
(`connection*`), and the users of the clipboard, the callers of the renderer
and the text stop at their bounds (`clipboard`, `control`, `text`, `input`), so these
runs do not check deadlock; `frame_sync` and `present*` do, since vsync goes on,
and so does `rootfs`, where the process can always start again.

Fairness. Threads of live processes run (`LockStep`, `ServerStep`,
`RendererStep`, `MainStep`, `InputStep`): the operating system schedules them.
The choreographer posts itself on each frame and `sendBroadcastDelayed` every
second. Each callback in the UI queue has its turn. Android delivers death
notices. `RecoversInTurn` and `InputFlows` also assume that the user starts a dead server again.
A thread that wants a lock of the renderer's process gets it at last (strong
fairness of the lock steps in `RendererControl`): the other users sleep between
their uses. `FramesShown` assumes that each frame's `lorieRedraw` runs and that
the renderer draws whatever buffer it can find.
Nothing is assumed of X clients, windows, failures, or of `requestConnection`,
whose request may be lost each time (the fairness of `Retry` leaves out the
retries that only send one).

## Proofs

Every invariant that a run checks, and the refinement of the abstract lock, is a
theorem, for every value of the constants that the `ASSUME`s admit. The assumptions
are on constants only: bounds are natural numbers, fingers and keys finite sets of
numbers, the kinds of requests and selections are those the code has, texts are made
of characters of Unicode, and the server, the screen pixmaps and "none" are not among
the clients. Each proof has an inductive
invariant that TLC checked on the run's instance before it was proved.

Some of the arguments are inductions over a queue, a set or a text. The induction
theorems of the library take a predicate as a parameter, which the provers cannot
instantiate, so these proofs argue by the least counterexample: the set of numbers
at which a claim fails is a set like any other, and if it is not empty it has a
least element (`Least`, `LeastNumber` and `LeastIsIn`, from the well-foundedness
of `<` on the naturals), which the proof then refutes.

`SharedMutex_proofs`. The invariant `IInv` is `TypeOK /\ (cut \/ Core)`: until
the server's `conn_fd` loses an activity that lives on, `Core` says where each thread stands
relative to `owner`, that at most one live renderer has the state mapped and is
linked, and that `reinit` is only reached when the connection is gone, so that no
live thread owns the mutex (lemma `ReinitFindsNoLiveOwner`). `MutexIsExclusive`
and `MutexImplementsLock` follow for any set of renderers.

`FrameSync_proofs`. `NoLostUpdate` speaks of settled states only, so it is not
inductive. `UpdateInv` follows each update through its stages: an image is in
`updated`, or in the texture, then in the frame, then on the screen; a position
is covered by `moved` or by lorieMoveCursor being between its two writes; a
drawing is in `damage`, then in `drawRequested`, then in the frame. A new
window clears the screen, and the flags that rendererRefreshContext sets cover
it. `DrawnBufferHeld` is inductive. The theorems hold for every value of the
constants.

`RendererControl_proofs`. `ReturnsWhenApplied` needs that a raised request flag
belongs to the call that waits (`RequestInv`); `ProxyOnMappedState` that the
state in use is mapped and that the old one stays mapped while the renderer
redirects the proxy (`MappedInv`), and what the proxy's `current` and `pending`
may be at each of its steps (`ProxyInv`). The theorems hold for any number of
calls, early ones included.

`Connection_proofs`. `InStep` speaks of settled sessions. `SessionInv` says which
phase the last session is in at the server while no two sessions overlap: absent,
queued, being assigned by `addFd`, active, closed by the input thread, or
forgotten by it, as long as no hangup tears the main thread's steps apart; and
that in an active one, every buffer the server believes to have sent is one the activity has
or will have once it has read its socket (`WillHave`: the last message about it is
the addition). The server's end and the activity's are thus compared through the
messages between them, for any number of buffers and failures.

`Clipboard_proofs`. For `CacheFresh` the invariant `FreshInv` follows every answer
through the socket and the work queue: a text under way is one that Android has
had since each announcement that will be handled before it, so it is still fresh
when it reaches the cache. For `CacheCurrent` and `OwnerShown`, which hold while
copies wait for each other, `CalmParts` says that an exchange with an X owner, a
paste and an announcement exclude each other, that every answer under way has
Android's current text, and that a text offered by its owner is in exactly one of
five steps on its way to Android (`Offering`).

The same module has the theorems on `TextConversion`, for texts of any length over
any characters; the invariant they need is that the text is one. `OneByte` to
`FourBytes` are the arithmetic of one code, and `Decoded` says that
`lorieUtf8ToUCS4` finds the character of a code and its length, wherever the code
stands. `EncodedPlaces` says where the codes of a text begin. The conversions are
recursive functions that go from one place to a later one: `RestsExist` and
`OksExist` show that there are such functions for every sequence of bytes, and
`Pasted` and `Accepted` go back from the last code to the first (`Downwards`).
`ConvertedCodes` goes through the text and its encoding at once (`Upwards`): a
carriage return is a code of one byte and no byte of another code. Bytes that are
not well-formed UTF-8 are outside these theorems.

`Present_proofs`. `Good(s)` is the invariant of the record `d`. `TypeOK` needs
that the root window's pixmap is the screen's or the flip's, that only clients'
pixmaps are flipped or presented, and that every vblank is in the queue or waits
for its fence once, under its own number. `LocksBalanced` needs that buffers in use
exist, so that a new screen pixmap is not locked yet. `NotEarly` needs what the
times of a vblank have to do with each other: it is queued for the frame before
its target at the earliest, a flip is executed exactly a frame early, and one that
waits for its fence is due, unless the counter was set back; one that was scrapped
may be due a frame before its target. The lemmas say what
each C function does to a good record. `loriePerformVblanks` is a recursive
function; `CourseExists` shows that there is one, and `Performed` that whatever
is performed first, the entries still to be visited are in the queue, so that
their pixmaps exist.

`Input_proofs`. The properties speak of what the server will find pressed when it
has caught up. `Stays(q, P, R, x, S)` is this for a queue `q`: `x` is on after
the events of `q`, if it is in `S` before; a press turns it on and a release off.
Each property has an invariant that says it of the queues as they are:
`TouchInv`, `KeyInv`, `ButtonInv` and `StylusInv`, the last with the variable
`buttons_prev` that the pen, the eraser and the mouse share. A step of the
activity appends to a queue and a step of the server takes from it; lemmas say
what either does to `Stays`. A mouse event may send several buttons in order of
their numbers, so `SortedLists` shows that a finite set of numbers can be listed
that way. `TypeOK` is part of `AllTyped`. `TapsHaveAPoint` is inductive with the
shape of the detector's record.

`Rootfs_proofs`. `RunningKept` is not inductive, because the container in use is
recognised by the link and not by its name: `IInv` adds that while a container
runs, the link leads to it or it is being renamed, that the container just
installed is another one, and that the one being deleted is not the link's.
`StartsSelected` needs `SInv` besides: unless it is mislaid, the stored name
stands for the container selected last; the name about to be selected stands for
its container, unless it is a path or was changed on the preparation screen; and
something runs on every screen that can select. `ChoiceKept` needs `ChoiceInv`: a
choice is on its way in the coroutine of the user's call, or it has arrived in the
map, and then every other coroutine that has listed or merged users carries it
too. `SettingsComposable` needs `ComposeInv`: the maps on disk, on the screen and
in the coroutines have no user that the options lack, unless a container has lost
users (`removed`), and no name that is not listed has one, so that a container
that gets the name starts anew.

Only model-checked: liveness (`OrphanReclaimed`, `CatchesUp`, `RecoversInTurn`,
`InputFlows`, `CallReturns`, `PasteAnswered`, `VblanksPerformed`,
`FramesShown`), which the prover does not reach.

## Not modelled

Vendored code: the X.Org server and its libraries (libX11, pixman, xkbcomp and
others) and the Termux app, which are all but a few thousand of the
repository's lines. What the models use of the X server (work queue, input
thread, damage) is taken from how `lorie` uses it; of Present, which `lorie`
patches, the functions that call back into it are translated.

Of the program's own code: the preference screens, file and archive handling,
command lines, the documents provider, the loader and drawing itself, which are
input and output; the start-up dialogs and the terminal, which have no state
that another part relies on besides what `Rootfs` has; the shared memory
emulation and the fences; the framing of the byte streams (a socket carries whole
events in the models, and a hangup does not fall between the two writes of one
message); file descriptors whose number is used again; an `rm -r` that goes on
after the app was killed; the extraction of an archive, which is one step in
`Rootfs`; failing locks of hardware buffers; X clients that
disconnect while a paste waits.

## Plan

1. The framing of the event stream with payloads, in both directions.
2. Failing buffer locks, and the flipped pixmap after a reconnection.
3. Clipboard clients that disconnect; an abstract register of the last copied
   text that the calm clipboard implements.
