----------------------------- MODULE Connection -----------------------------
(***************************************************************************)
(* How the activity finds the X server, connects to it, and learns which   *)
(* buffer holds the root window (cmdentrypoint.c, activity.c, InitOutput.c, *)
(* CmdEntryPoint.java, MainActivity.java).                                 *)
(*                                                                         *)
(* A session is one socketpair of getXConnection.  Each process keeps its  *)
(* end in its own conn_fd.  In the server three threads touch it: binder   *)
(* threads queue addFd, the main thread runs it, and the input thread      *)
(* handles a hangup.  The main and the input thread share conn_fd and      *)
(* registeredBuffers without a lock, so their accesses are single steps.   *)
(* Sessions have numbers of their own: a closed descriptor is not reused.  *)
(* The activity does everything on its UI thread, one callback a step.     *)
(***************************************************************************)
EXTENDS Integers, Sequences

CONSTANTS MaxFaults,    \* bound on server deaths and activity restarts
          MaxBuffers    \* bound on the buffers that the root window ever has

ASSUME ConnectionAssumption ==
  /\ MaxFaults \in Nat
  /\ MaxBuffers \in Nat \ {0}

None == 0   \* conn_fd = -1, service = null; sessions and server processes count from 1

VARIABLES
  (* X server process *)
  up,                 \* is the server process running?
  server,             \* which server process is, or was the last, running
  connFd,             \* the server's conn_fd
  workQueue,          \* sessions whose addFd is queued
  watched,            \* sessions registered with the input thread
  mpc, ipc,           \* steps of the main and of the input thread
  registeredBuffers,
  root,               \* buffer of the root window
  (* activity process *)
  aConnFd,            \* the activity's conn_fd
  broken,             \* has the server's end of that socket been closed?
  inbox,              \* messages in that socket
  mapped,             \* is there a shared state in the renderer?
  aBuffers,           \* buffers in the renderer
  service,            \* the server whose binder the activity has
  saved,              \* the binder stored in the activity's intent
  linked,             \* servers whose death the activity will hear of
  posted,             \* is a disconnect, posted by a death notice, in the UI queue?
  retry,              \* is a delayed tryConnect in the UI queue?
  (* between them *)
  broadcasts,         \* ACTION_START intents in flight, by sender
  sessions,           \* socketpairs made so far
  (* history of the server process *)
  overlapped,         \* did a session start before the server had seen the last one end?
  torn,               \* did a hangup fall between two accesses of the main thread to a variable?
  faults

srv == <<up, server, connFd, workQueue, watched, mpc, ipc, registeredBuffers, root>>
act == <<aConnFd, broken, inbox, mapped, aBuffers, service, saved, linked, posted, retry>>
opened == <<sessions, overlapped, torn>>
vars == <<srv, act, broadcasts, opened, faults>>

SharedState == [type |-> "STATE", id |-> 0]
AddBuffer(b) == [type |-> "ADD", id |-> b]
RemoveBuffer(b) == [type |-> "REMOVE", id |-> b]

\* The activity's onCreate has found no server; the first server has just started.
Init ==
  /\ up = TRUE /\ server = 1
  /\ connFd = None /\ workQueue = <<>> /\ watched = {}
  /\ mpc = "idle" /\ ipc = "poll"
  /\ registeredBuffers = {} /\ root = 1
  /\ aConnFd = None /\ broken = FALSE /\ inbox = <<>>
  /\ mapped = FALSE /\ aBuffers = {}
  /\ service = None /\ saved = None /\ linked = {} /\ posted = FALSE /\ retry = TRUE
  /\ broadcasts = {} /\ sessions = 0 /\ overlapped = FALSE /\ torn = {} /\ faults = 0
-----------------------------------------------------------------------------
(* X server, main thread *)

\* write(conn_fd): it reaches the activity if that has the other end, else EPIPE or EBADF.
Written(msgs) == IF connFd # None /\ connFd = aConnFd THEN inbox \o msgs ELSE inbox

\* addFd: InputThreadRegisterDev.  The work item leaves the queue when it is done with.
addFd ==
  /\ up /\ mpc = "idle"
  /\ workQueue # <<>>
  /\ watched' = watched \cup {Head(workQueue)}
  /\ mpc' = "assign"
  /\ UNCHANGED <<up, server, connFd, workQueue, ipc, registeredBuffers, root, act, broadcasts, opened, faults>>

\* Its next line, conn_fd = fd.  The input thread may have closed fd and cleared conn_fd
\* since; then nothing will clear it again.
AssignConnFd ==
  /\ up /\ mpc = "assign"
  /\ connFd' = Head(workQueue)
  /\ torn' = IF Head(workQueue) \in watched \/ ipc = "closed" THEN torn ELSE torn \cup {"conn_fd"}
  /\ workQueue' = Tail(workQueue)
  /\ mpc' = "state"
  /\ UNCHANGED <<up, server, watched, ipc, registeredBuffers, root, act, broadcasts, sessions, overlapped,
                 faults>>

lorieSendSharedServerState ==
  /\ up /\ mpc = "state"
  /\ inbox' = Written(<<SharedState>>)
  /\ mpc' = "register"
  /\ UNCHANGED <<up, server, connFd, workQueue, watched, ipc, registeredBuffers, root, aConnFd, broken,
                 mapped, aBuffers, service, saved, linked, posted, retry, broadcasts, opened, faults>>

\* The root buffer, at the end of lorieActivityConnected or of lorieRRScreenSetSize:
\* the tests, the writes and the list are accesses of their own.
lorieRegisterBuffer ==
  /\ up /\ mpc = "register"
  /\ mpc' = IF connFd = None \/ root \in registeredBuffers THEN "idle" ELSE "write"
  /\ UNCHANGED <<up, server, connFd, workQueue, watched, ipc, registeredBuffers, root, act, broadcasts,
                 opened, faults>>

SendBuffer ==
  /\ up /\ mpc = "write"
  /\ inbox' = Written(<<AddBuffer(root)>>)
  /\ mpc' = "list"
  /\ UNCHANGED <<up, server, connFd, workQueue, watched, ipc, registeredBuffers, root, aConnFd, broken,
                 mapped, aBuffers, service, saved, linked, posted, retry, broadcasts, opened, faults>>

\* The input thread may have emptied the list since; then the buffer stays in it.
ListBuffer ==
  /\ up /\ mpc = "list"
  /\ registeredBuffers' = registeredBuffers \cup {root}
  /\ torn' = IF connFd # None \/ ipc = "forgotten" THEN torn ELSE torn \cup {"registeredBuffers"}
  /\ mpc' = "idle"
  /\ UNCHANGED <<up, server, connFd, workQueue, watched, ipc, root, act, broadcasts, sessions, overlapped,
                 faults>>

\* lorieRRScreenSetSize: a new root pixmap; destroying the old one unregisters its buffer,
\* and freeing that buffer takes it off any list it is on.
lorieRRScreenSetSize ==
  /\ up /\ mpc = "idle"
  /\ root < MaxBuffers
  /\ inbox' = IF connFd # None /\ root \in registeredBuffers
              THEN Written(<<RemoveBuffer(root)>>) ELSE inbox
  /\ registeredBuffers' = registeredBuffers \ {root}
  /\ root' = root + 1
  /\ mpc' = "register"
  /\ UNCHANGED <<up, server, connFd, workQueue, watched, ipc, aConnFd, broken, mapped, aBuffers,
                 service, saved, linked, posted, retry, broadcasts, opened, faults>>
-----------------------------------------------------------------------------
(* X server, input thread: handleLorieEvents with X_NOTIFY_ERROR *)

\* Mutant: a descriptor that is not conn_fd is left open.
HangupCloseConnFd ==
  /\ up /\ ipc = "poll"
  /\ \E s \in watched \ {aConnFd} : watched' = IF s = connFd THEN watched \ {s} ELSE watched
  /\ ipc' = "closed"
  /\ UNCHANGED <<up, server, connFd, workQueue, mpc, registeredBuffers, root, act, broadcasts,
                 opened, faults>>

HangupClose ==
  /\ up /\ ipc = "poll"
  /\ \E s \in watched \ {aConnFd} : watched' = watched \ {s}
  /\ ipc' = "closed"
  /\ UNCHANGED <<up, server, connFd, workQueue, mpc, registeredBuffers, root, act, broadcasts,
                 opened, faults>>

\* conn_fd = -1, whichever session conn_fd belongs to by now.
HangupForget ==
  /\ up /\ ipc = "closed"
  /\ connFd' = None
  /\ ipc' = "forgotten"
  /\ UNCHANGED <<up, server, workQueue, watched, mpc, registeredBuffers, root, act, broadcasts,
                 opened, faults>>

\* Mutant: registeredBuffers outlives the session.
HangupKeepsList ==
  /\ up /\ ipc = "forgotten"
  /\ ipc' = "poll"
  /\ UNCHANGED <<up, server, connFd, workQueue, watched, mpc, registeredBuffers, root, act, broadcasts,
                 opened, faults>>

HangupUnlist ==
  /\ up /\ ipc = "forgotten"
  /\ registeredBuffers' = {}
  /\ ipc' = "poll"
  /\ UNCHANGED <<up, server, connFd, workQueue, watched, mpc, root, act, broadcasts, opened, faults>>
-----------------------------------------------------------------------------
(* X server, Java side, and the server's life *)

\* Mutant: the timer is not set again after the first session.
sendBroadcastBefore ==
  /\ up /\ connFd = None /\ sessions = 0
  /\ broadcasts' = broadcasts \cup {server}
  /\ UNCHANGED <<srv, act, opened, faults>>

\* Once a second while connected() is false.
sendBroadcastDelayed ==
  /\ up /\ connFd = None
  /\ broadcasts' = broadcasts \cup {server}
  /\ UNCHANGED <<srv, act, opened, faults>>

ServerDies ==
  /\ up /\ faults < MaxFaults
  /\ faults' = faults + 1
  /\ up' = FALSE
  /\ connFd' = None /\ workQueue' = <<>> /\ watched' = {}
  /\ mpc' = "idle" /\ ipc' = "poll"
  /\ registeredBuffers' = {}
  /\ overlapped' = FALSE /\ torn' = {}
  /\ broken' = (aConnFd # None)
  /\ UNCHANGED <<server, root, aConnFd, inbox, mapped, aBuffers, service, saved, linked, posted,
                 retry, broadcasts, sessions>>

\* X11Service.onStartCommand; buffer ids start afresh in a new process.
ServerStarts ==
  /\ ~up
  /\ up' = TRUE
  /\ server' = server + 1
  /\ root' = 1
  /\ UNCHANGED <<connFd, workQueue, watched, mpc, ipc, registeredBuffers, act, broadcasts, opened,
                 faults>>
-----------------------------------------------------------------------------
(* Activity, UI thread *)

\* connect_(-1), and the same lines of xcallback.
Disconnected ==
  /\ broken' = FALSE /\ inbox' = <<>>
  /\ mapped' = FALSE /\ aBuffers' = {}

Alive(i) == up /\ i = server

\* The server has nothing of an earlier session left to handle.
Quiet == watched = {} /\ workQueue = <<>> /\ mpc = "idle" /\ ipc = "poll"

\* getXConnection and connect_(fd).
OpenSession ==
  /\ overlapped' = (overlapped \/ ~Quiet) /\ torn' = torn
  /\ sessions' = sessions + 1
  /\ aConnFd' = sessions + 1
  /\ workQueue' = Append(workQueue, sessions + 1)

\* requestConnection: the server answers the magic word with a broadcast, unless the
\* 20 ms given to connect() are over first.
requestConnection == broadcasts' \in {broadcasts, IF up THEN broadcasts \cup {server} ELSE broadcasts}

\* tryConnect of an activity that is not connected and has binder i; again tells whether
\* another attempt is in the UI queue anyway.
tryConnect(i, again) ==
  \/ /\ i = None
     /\ requestConnection
     /\ service' = None /\ retry' = TRUE
     /\ aConnFd' = None /\ UNCHANGED <<opened, workQueue>>
  \/ /\ i # None /\ Alive(i)
     /\ OpenSession
     /\ service' = i /\ retry' = again
     /\ UNCHANGED broadcasts
  \/ /\ i # None /\ ~Alive(i)   \* getXConnection throws
     /\ service' = None /\ retry' = TRUE
     /\ aConnFd' = None /\ UNCHANGED <<opened, workQueue, broadcasts>>

serverIdle == <<up, server, connFd, watched, mpc, ipc, registeredBuffers, root>>

\* The delayed tryConnect.
Retry ==
  /\ retry
  /\ IF aConnFd # None
     THEN retry' = FALSE /\ UNCHANGED <<aConnFd, service, opened, workQueue, broadcasts>>
     ELSE tryConnect(service, FALSE)
  /\ UNCHANGED <<serverIdle, broken, inbox, mapped, aBuffers, saved, linked, posted, faults>>

\* The broadcast receiver.  A dead binder is kept, but nothing is tried with it.
onReceiveConnection(i) ==
  /\ i \in broadcasts
  /\ IF ~Alive(i)
     THEN /\ service' = i
          /\ broadcasts' = broadcasts \ {i}
          /\ UNCHANGED <<linked, saved, aConnFd, opened, workQueue, retry>>
     ELSE /\ linked' = linked \cup {i}
          /\ saved' = i
          /\ service' = i
          /\ broadcasts' = broadcasts \ {i}
          /\ retry' = retry
          /\ IF aConnFd # None THEN UNCHANGED <<aConnFd, opened, workQueue>> ELSE OpenSession
  /\ UNCHANGED <<serverIdle, broken, inbox, mapped, aBuffers, posted, faults>>

\* linkToDeath's callback, on a binder thread.
binderDied(i) ==
  /\ i \in linked /\ ~Alive(i)
  /\ linked' = linked \ {i}
  /\ service' = None
  /\ posted' = TRUE
  /\ UNCHANGED <<srv, aConnFd, broken, inbox, mapped, aBuffers, saved, retry, broadcasts, opened,
                 faults>>

\* What that callback posted: connect(-1) and clientConnectedStateChanged.
PostedDisconnect ==
  /\ posted
  /\ posted' = FALSE
  /\ Disconnected
  /\ tryConnect(service, retry)
  /\ UNCHANGED <<serverIdle, saved, linked, faults>>

\* xcallback with ALOOPER_EVENT_HANGUP.  clientConnectedStateChanged comes before
\* conn_fd = -1, so it finds the activity connected and does not try to reconnect.
xcallbackHangup ==
  /\ broken
  /\ aConnFd' = None
  /\ Disconnected
  /\ UNCHANGED <<srv, service, saved, linked, posted, retry, broadcasts, opened, faults>>

\* Mutant: a missing break, so that the shared state is also taken for a buffer.
xcallbackFallsThrough ==
  /\ ~broken /\ inbox # <<>>
  /\ LET m == Head(inbox) IN
       /\ mapped' = (mapped \/ m.type = "STATE")
       /\ aBuffers' = IF m.type = "REMOVE" THEN aBuffers \ {m.id} ELSE aBuffers \cup {m.id}
  /\ inbox' = Tail(inbox)
  /\ UNCHANGED <<srv, aConnFd, broken, service, saved, linked, posted, retry, broadcasts, opened,
                 faults>>

\* xcallback with a message.
xcallback ==
  /\ ~broken /\ inbox # <<>>
  /\ LET m == Head(inbox) IN
       /\ mapped' = (mapped \/ m.type = "STATE")
       /\ aBuffers' = CASE m.type = "ADD" -> aBuffers \cup {m.id}
                        [] m.type = "REMOVE" -> aBuffers \ {m.id}
                        [] OTHER -> aBuffers
  /\ inbox' = Tail(inbox)
  /\ UNCHANGED <<srv, aConnFd, broken, service, saved, linked, posted, retry, broadcasts, opened,
                 faults>>

\* The activity is created again in its process: nativeInit disconnects, onCreate first
\* tries without a binder and then with the one in its intent.
Recreate ==
  /\ faults < MaxFaults
  /\ faults' = faults + 1
  /\ Disconnected
  /\ IF saved # None /\ Alive(saved)
     THEN OpenSession /\ linked' = linked \cup {saved}
     ELSE aConnFd' = None /\ UNCHANGED <<opened, workQueue, linked>>
  /\ service' = saved
  /\ requestConnection
  /\ retry' = TRUE
  /\ UNCHANGED <<serverIdle, saved, posted>>

\* The activity's process is killed, and the user starts it anew.
Relaunch ==
  /\ faults < MaxFaults
  /\ faults' = faults + 1
  /\ Disconnected
  /\ aConnFd' = None
  /\ service' = None /\ saved' = None /\ linked' = {} /\ posted' = FALSE /\ retry' = TRUE
  /\ requestConnection
  /\ UNCHANGED <<srv, opened>>
-----------------------------------------------------------------------------
MainStep ==
  \/ addFd \/ AssignConnFd \/ lorieSendSharedServerState
  \/ lorieRegisterBuffer \/ SendBuffer \/ ListBuffer
InputStep == HangupClose \/ HangupForget \/ HangupUnlist
UIStep ==
  \/ Retry \/ PostedDisconnect \/ xcallbackHangup \/ xcallback
  \/ \E i \in broadcasts : onReceiveConnection(i)

Next ==
  \/ MainStep \/ lorieRRScreenSetSize \/ InputStep
  \/ sendBroadcastDelayed \/ ServerDies \/ ServerStarts
  \/ UIStep
  \/ \E i \in linked : binderDied(i)
  \/ Recreate \/ Relaunch

Spec == Init /\ [][Next]_vars

\* Every thread keeps running, the broadcast timer keeps firing, Android delivers death
\* notices and the user starts a dead server again.  Every callback in the UI queue has
\* its turn; but a retry without a binder only sends requests, all of which may be lost.
Fairness ==
  /\ WF_vars(MainStep) /\ WF_vars(InputStep)
  /\ WF_vars(sendBroadcastDelayed) /\ WF_vars(ServerStarts)
  /\ WF_vars((aConnFd # None \/ service # None) /\ Retry) /\ WF_vars(PostedDisconnect) /\ WF_vars(xcallbackHangup) /\ WF_vars(xcallback)
  /\ WF_vars(\E i \in broadcasts : onReceiveConnection(i))
  /\ WF_vars(\E i \in linked : binderDied(i))

FairSpec == Spec /\ Fairness
-----------------------------------------------------------------------------
(* Properties *)

Messages == [type : {"STATE", "ADD", "REMOVE"}, id : 0..MaxBuffers]

TypeOK ==
  /\ up \in BOOLEAN /\ server \in Nat
  /\ connFd \in Nat /\ workQueue \in Seq(Nat) /\ watched \subseteq Nat
  /\ mpc \in {"idle", "assign", "state", "register", "write", "list"} /\ ipc \in {"poll", "closed", "forgotten"}
  /\ registeredBuffers \subseteq 1..MaxBuffers /\ root \in 1..MaxBuffers
  /\ aConnFd \in 0..sessions /\ broken \in BOOLEAN /\ inbox \in Seq(Messages)
  /\ mapped \in BOOLEAN /\ aBuffers \subseteq 1..MaxBuffers
  /\ service \in Nat /\ saved \in Nat /\ linked \subseteq Nat
  /\ posted \in BOOLEAN /\ retry \in BOOLEAN
  /\ broadcasts \subseteq Nat /\ sessions \in Nat
  /\ overlapped \in BOOLEAN /\ torn \subseteq {"conn_fd", "registeredBuffers"} /\ faults \in 0..MaxFaults

\* No thread of either process has anything left to do for the activity's session.
SessionSettled ==
  /\ up /\ aConnFd # None /\ ~broken
  /\ workQueue = <<>> /\ mpc = "idle" /\ ipc = "poll" /\ watched \subseteq {aConnFd}
  /\ inbox = <<>>

(* Once the messages of a session are delivered, both processes agree on    *)
(* it: the server's conn_fd is the activity's session, the activity has the *)
(* shared state, and it has exactly the buffers that the server believes to *)
(* have sent, the root window's among them.  The code gets this right as    *)
(* long as, in the life of the server process, no session starts before the *)
(* last one's end is seen, and no hangup falls between the two lines of     *)
(* addFd or between the test and the list in lorieRegisterBuffer.           *)
InStep ==
  SessionSettled /\ ~overlapped /\ torn = {} =>
    /\ connFd = aConnFd
    /\ mapped
    /\ aBuffers = registeredBuffers
    /\ root \in aBuffers

Working == connFd # None /\ connFd = aConnFd /\ mapped /\ root \in aBuffers

(* "We should recover connection in the case if file descriptor for some    *)
(* reason was broken...": after the last failure the activity ends up with  *)
(* a working session and the root window's buffer.                          *)
Recovers == <>[]Working

(* The same, unless in the last server process sessions overlap or a hangup *)
(* tears addFd or lorieRegisterBuffer apart.                                *)
RecoversInTurn == <>[](overlapped \/ torn # {} \/ Working)

(* Even when sessions overlap and buffers are listed for no session, the    *)
(* activity ends up with a session whose server end the input thread        *)
(* watches, and with no other: its input events get through, since          *)
(* handleLorieEvents reads the descriptor it is called with and not         *)
(* conn_fd, and every descriptor of a session that ended is closed.  Only a *)
(* conn_fd that addFd has set to a closed descriptor is in the way: the     *)
(* server then takes itself for connected and broadcasts no more.           *)
InputFlows == <>[]("conn_fd" \in torn \/ (aConnFd # None /\ watched = {aConnFd}))
=============================================================================
