---------------------------- MODULE SharedMutex ----------------------------
(***************************************************************************)
(* The mutex that the X server process and the activity process share      *)
(* through lorie_shared_server_state: lorie_mutex_lock and                 *)
(* lorie_mutex_unlock of lorie.h.  Bionic has no robust mutexes, so a      *)
(* thread whose timed lock expires reinitialises the mutex when it         *)
(* believes that the holder is gone.  Its evidence is lockingPid and the   *)
(* state of the socket (lorieConnectionAlive), not the mutex itself.       *)
(*                                                                         *)
(* The deadline handed to pthread_mutex_timedlock is taken from            *)
(* CLOCK_MONOTONIC while the call reads CLOCK_REALTIME, so a contended     *)
(* attempt may expire at once: Expire has no timing guard.                 *)
(***************************************************************************)
CONSTANTS Server,       \* main thread of the X server process
          Renderers,    \* renderer threads, one per activity process that is ever started
          NoOne         \* no thread, no process, pid 0

ASSUME ThreadsAssumption ==
  /\ Server \notin Renderers
  /\ NoOne \notin Renderers \cup {Server}

Threads == Renderers \cup {Server}

VARIABLES
  owner,        \* who holds the pthread mutex
  lockingPid,   \* state->lockingPid; a process is named by its only locking thread
  pc,           \* where each thread is in lorie_mutex_lock / _unlock
  alive,        \* processes that have not died
  link,         \* the renderer whose process has a socket with both ends open
  connFd,       \* the server's conn_fd; a session is named by its renderer
  ended,        \* renderers with a session that is over, its hangup not yet handled
  mapped,       \* renderers that have the shared state mapped
  cut           \* history: did the server's conn_fd ever lose an activity that lives on?

conn == <<link, connFd, ended, mapped, cut>>
vars == <<owner, lockingPid, pc, alive, conn>>

Steps == {"idle", "try", "expired", "reinit", "acquired", "cs", "release"}

Init ==
  /\ owner = NoOne
  /\ lockingPid = NoOne
  /\ pc = [t \in Threads |-> "idle"]
  /\ alive = Threads
  /\ link = NoOne /\ connFd = NoOne /\ ended = {}
  /\ mapped = {}
  /\ cut = FALSE

Goto(t, from, to) ==
  /\ t \in alive
  /\ pc[t] = from
  /\ pc' = [pc EXCEPT ![t] = to]

\* conn_fd # -1, and poll() finds neither end closed.  Each process asks its own conn_fd.
lorieConnectionAlive(t) == IF t = Server THEN connFd # NoOne /\ connFd = link ELSE link = t
-----------------------------------------------------------------------------
(* lorie_mutex_lock *)

\* loriePrepareAccess on the root pixmap, or rendererRedrawLocked, wants the lock.
Enter(t) ==
  /\ t = Server \/ t \in mapped
  /\ Goto(t, "idle", "try")
  /\ UNCHANGED <<owner, lockingPid, alive, conn>>

\* pthread_mutex_timedlock succeeds ...
TimedLock(t) ==
  /\ owner = NoOne
  /\ Goto(t, "try", "acquired")
  /\ owner' = t
  /\ UNCHANGED <<lockingPid, alive, conn>>

\* ... or returns ETIMEDOUT.
Expire(t) ==
  /\ owner # NoOne
  /\ Goto(t, "try", "expired")
  /\ UNCHANGED <<owner, lockingPid, alive, conn>>

\* Mutants: the socket is not asked; any recorded pid counts as a live holder; both.
HolderIsSelf(t) == lockingPid = t
HolderRecorded(t) == lockingPid # NoOne
HolderRecordedOrLinked(t) == lockingPid # NoOne \/ lorieConnectionAlive(t)

\* After ETIMEDOUT: try again while the holder may be alive, else reinitialise.
HolderMayLive(t) == lockingPid = t \/ lorieConnectionAlive(t)

Judge(t) ==
  /\ \/ HolderMayLive(t) /\ Goto(t, "expired", "try")
     \/ ~HolderMayLive(t) /\ Goto(t, "expired", "reinit")
  /\ UNCHANGED <<owner, lockingPid, alive, conn>>

\* memcpy of an initializer and pthread_mutex_init: whoever held it, it is free.
Reinit(t) ==
  /\ Goto(t, "reinit", "try")
  /\ owner' = NoOne
  /\ UNCHANGED <<lockingPid, alive, conn>>

RecordPid(t) ==
  /\ Goto(t, "acquired", "cs")
  /\ lockingPid' = t
  /\ UNCHANGED <<owner, alive, conn>>

(* lorie_mutex_unlock: first lockingPid, then the mutex; a recursive mutex  *)
(* refuses (EPERM) an unlock by a thread that does not own it.              *)
ClearPid(t) ==
  /\ Goto(t, "cs", "release")
  /\ lockingPid' = NoOne
  /\ UNCHANGED <<owner, alive, conn>>

Unlock(t) ==
  /\ Goto(t, "release", "idle")
  /\ owner' = IF owner = t THEN NoOne ELSE owner
  /\ UNCHANGED <<lockingPid, alive, conn>>
-----------------------------------------------------------------------------
(* The connection *)

\* Mutant: the server keeps its own end of the socket pair.
ConnectOwnEnd(r) ==
  /\ {Server, r} \subseteq alive
  /\ link = NoOne
  /\ pc[Server] = "idle"
  /\ r \notin mapped
  /\ link' = Server /\ connFd' = Server
  /\ mapped' = mapped \cup {r}
  /\ UNCHANGED <<owner, lockingPid, pc, alive, ended, cut>>

\* addFd runs on the server's main thread, hence never inside lorie_mutex_lock;
\* lorieActivityConnected sends the shared state over the new socket.  The hangup of
\* an earlier session may still be ahead.
Connect(r) ==
  /\ {Server, r} \subseteq alive
  /\ link = NoOne
  /\ pc[Server] = "idle"
  /\ r \notin mapped
  /\ link' = r /\ connFd' = r
  /\ mapped' = mapped \cup {r}
  /\ UNCHANGED <<owner, lockingPid, pc, alive, ended, cut>>

\* The activity closes conn_fd (connect_, xcallback) whatever its renderer thread is doing.
DropLink(r) ==
  /\ r \in alive
  /\ link = r
  /\ link' = NoOne
  /\ ended' = ended \cup {r}
  /\ cut' = TRUE
  /\ UNCHANGED <<owner, lockingPid, pc, alive, connFd, mapped>>

\* handleLorieEvents with X_NOTIFY_ERROR, on the server's input thread: conn_fd = -1,
\* whichever session it belongs to by now.  An activity that has dropped its socket and
\* lives on may have left several behind.
Hangup(r) ==
  /\ Server \in alive
  /\ r \in ended
  /\ \/ ended' = ended \ {r}
     \/ cut /\ ended' = ended
  /\ connFd' = NoOne
  /\ cut' = (cut \/ lorieConnectionAlive(Server))
  /\ UNCHANGED <<owner, lockingPid, pc, alive, link, mapped>>

\* rendererSetSharedState(NULL) takes effect between two redraws.
Unmap(r) ==
  /\ r \in alive \cap mapped
  /\ link # r
  /\ pc[r] = "idle"
  /\ mapped' = mapped \ {r}
  /\ UNCHANGED <<owner, lockingPid, pc, alive, link, connFd, ended, cut>>

\* A process is killed: its sockets close, the mutex stays as it was.
Die(t) ==
  /\ t \in alive
  /\ alive' = alive \ {t}
  /\ link' = IF t \in {Server, link} THEN NoOne ELSE link
  /\ ended' = IF t = link THEN ended \cup {t} ELSE ended
  /\ UNCHANGED <<owner, lockingPid, pc, connFd, mapped, cut>>

LockStep(t) ==
  \/ TimedLock(t) \/ Expire(t) \/ Judge(t) \/ Reinit(t)
  \/ RecordPid(t) \/ ClearPid(t) \/ Unlock(t)

Next ==
  \/ \E t \in Threads : Enter(t) \/ LockStep(t) \/ Die(t)
  \/ \E r \in Renderers : Connect(r) \/ DropLink(r) \/ Hangup(r) \/ Unmap(r)

Spec == Init /\ [][Next]_vars

\* The threads of live processes keep running.
FairSpec == Spec /\ \A t \in Threads : WF_vars(LockStep(t))
-----------------------------------------------------------------------------
(* Properties *)

TypeOK ==
  /\ owner \in Threads \cup {NoOne}
  /\ lockingPid \in Threads \cup {NoOne}
  /\ pc \in [Threads -> Steps]
  /\ alive \subseteq Threads
  /\ link \in Renderers \cup {NoOne} /\ connFd \in Renderers \cup {NoOne}
  /\ ended \subseteq Renderers
  /\ mapped \subseteq Renderers
  /\ cut \in BOOLEAN

InCS(t) == t \in alive /\ pc[t] \in {"acquired", "cs", "release"}

(* The X server and a renderer never work on the root window at once: the   *)
(* purpose of the lock (lorie.h, "we should block X server while we are     *)
(* drawing").  It holds until the server's conn_fd loses an activity that   *)
(* lives on, which the server takes for its death: the activity closes its  *)
(* socket while its renderer may be drawing, or the input thread handles    *)
(* the hangup of an earlier session when the next one is already in         *)
(* conn_fd.                                                                 *)
MutualExclusion == cut \/ \A t, u \in Threads : InCS(t) /\ InCS(u) => t = u

(* The mutex is a lock that survives crashes: a live thread that locked it  *)
(* has it until its own unlock, so no reinitialisation hits a live holder,  *)
(* and it is free again for the others once its holder is dead and a waiter *)
(* has reinitialised it.  When the server's conn_fd loses a live activity   *)
(* the promise ends, and so does the mapping.                               *)
Holder == IF owner \in alive /\ ~cut THEN owner ELSE NoOne
Inside == {t \in Threads : InCS(t) /\ ~cut}

Lock == INSTANCE CrashTolerantLock WITH holder <- Holder, inside <- Inside, live <- alive

ImplementsLock == Lock!LSpec

(* A mutex whose holder died does not block a live waiter for ever, unless  *)
(* a new activity connects, whose socket then vouches for the dead holder:  *)
(* "in the case if renderer or X server process unexpectedly die with       *)
(* locked mutex we will simply reinitialize it".                            *)
Waiting(t) == t \in alive /\ pc[t] \in {"try", "expired", "reinit"}

OrphanReclaimed ==
  \A d, t \in Threads :
    (owner = d /\ d \notin alive /\ Waiting(t)) ~> (owner # d \/ t \notin alive \/ link # NoOne)
=============================================================================
