--------------------------- MODULE RendererControl ---------------------------
(***************************************************************************)
(* How the activity's UI thread hands a shared state or a window to the    *)
(* renderer thread and waits until it is in use, and how the renderer      *)
(* makes the proxy thread listen to the new state's condition variable     *)
(* before it unmaps the old state (renderer.c).                            *)
(*                                                                         *)
(* stateLock and proxy.lock are bionic's normal mutexes: whether they are  *)
(* locked is all they know, and an unlock by a thread that did not lock    *)
(* them frees them.  That happens, since rendererThread starts without     *)
(* stateLock.  stateCond is shared by both waits of the renderer.          *)
(***************************************************************************)
EXTENDS Integers

CONSTANTS MaxCalls,       \* bound on rendererSetSharedState and rendererSetWindow calls
          MayCallEarly    \* may the UI thread call before both threads wait for the first time?

ASSUME ControlAssumption == MaxCalls \in Nat /\ MayCallEarly \in BOOLEAN

None == 0                 \* no state, no window; proxy.def among the condition variables
NoChange == -1            \* proxy.pending = NULL
Values == 0..MaxCalls     \* mappings of shared states, and windows, are numbered by call

VARIABLES
  upc, calls,                          \* UI thread: its step, calls made
  askedState, askedWin,                \* what its last calls asked for
  stateChanged, pendingState, windowChanged, pendingWin,
  stateLock,                           \* is stateLock locked?
  rpc,                                 \* step of the renderer thread
  state, win, oldState,                \* what the renderer uses, and what it is to unmap
  mapped,                              \* states that are mapped
  ppc,                                 \* step of the proxy thread
  proxyLock, current, pending, relocked,
  started                              \* has the renderer thread slept once?

requests == <<stateChanged, pendingState, windowChanged, pendingWin>>
ui == <<upc, calls, askedState, askedWin>>
rend == <<rpc, state, win, oldState, mapped, started>>
prox == <<ppc, proxyLock, current, pending, relocked>>
vars == <<ui, requests, stateLock, rend, prox>>

\* rendererInit has created both threads; neither has run yet.
Init ==
  /\ upc = "idle" /\ calls = 0 /\ askedState = None /\ askedWin = None
  /\ stateChanged = FALSE /\ pendingState = None /\ windowChanged = FALSE /\ pendingWin = None
  /\ stateLock = FALSE
  /\ rpc = "check" /\ state = None /\ win = None /\ oldState = None /\ mapped = {}
  /\ ppc = "start" /\ proxyLock = FALSE /\ current = None /\ pending = NoChange /\ relocked = FALSE
  /\ started = FALSE
-----------------------------------------------------------------------------
(* Condition variables: a signal reaches a thread that waits, or nobody.     *)

\* pthread_cond_signal(&stateCond)
WakeRenderer ==
  rpc' = IF rpc = "asleep" THEN "wake" ELSE IF rpc = "listening" THEN "listenWake" ELSE rpc

\* A signal or a broadcast on condition variable c of the proxy.
WakeProxy(c) == ppc' = IF ppc = "wait" /\ current = c THEN "wake" ELSE ppc
-----------------------------------------------------------------------------
(* UI thread *)

\* rendererSetSharedState and rendererSetWindow, up to their loop.  A mapping or a window is
\* new, or there is none any more.
CallAllowed ==
  /\ upc = "idle" /\ calls < MaxCalls
  /\ ~stateLock
  /\ MayCallEarly \/ (started /\ ppc # "start")

\* Mutant: a failed mapping is handed over like any other.
SetStateUnchecked(s) ==
  /\ CallAllowed
  /\ s \in {None, calls + 1}
  /\ calls' = calls + 1
  /\ mapped' = mapped \cup {s}
  /\ askedState' = s /\ pendingState' = s /\ stateChanged' = TRUE
  /\ stateLock' = TRUE
  /\ upc' = "check"
  /\ WakeRenderer
  /\ UNCHANGED <<askedWin, windowChanged, pendingWin, state, win, oldState, started, prox>>

rendererSetSharedState(s) ==
  /\ CallAllowed
  /\ s \in {None, calls + 1}
  /\ calls' = calls + 1
  /\ mapped' = mapped \cup ({s} \ {None})
  /\ askedState' = s /\ pendingState' = s /\ stateChanged' = TRUE
  /\ stateLock' = TRUE
  /\ upc' = "check"
  /\ WakeRenderer
  /\ UNCHANGED <<askedWin, windowChanged, pendingWin, state, win, oldState, started, prox>>

\* The test for the window that is pending already never succeeds: while one is pending
\* the UI thread waits below.
rendererSetWindow(w) ==
  /\ CallAllowed
  /\ w \in {None, calls + 1}
  /\ calls' = calls + 1
  /\ askedWin' = w /\ pendingWin' = w /\ windowChanged' = TRUE
  /\ stateLock' = TRUE
  /\ upc' = "check"
  /\ WakeRenderer
  /\ UNCHANGED <<askedState, stateChanged, pendingState, state, win, oldState, mapped, started, prox>>

\* A buffer arrives: the renderer is woken without stateLock.
rendererAddBuffer ==
  /\ upc = "idle" /\ rpc \in {"asleep", "listening"}
  /\ WakeRenderer
  /\ UNCHANGED <<ui, requests, stateLock, state, win, oldState, mapped, started, prox>>

\* Mutant: the call does not wait for the renderer.
ReturnAtOnce ==
  /\ upc = "check"
  /\ upc' = "idle"
  /\ stateLock' = FALSE
  /\ UNCHANGED <<calls, askedState, askedWin, requests, rend, prox>>

\* while (stateChanged) or while (windowChanged), and the unlock after it.
AwaitChange ==
  /\ upc = "check"
  /\ upc' = IF stateChanged \/ windowChanged THEN "asleep" ELSE "idle"
  /\ stateLock' = FALSE
  /\ UNCHANGED <<calls, askedState, askedWin, requests, rend, prox>>

\* pthread_cond_wait(&stateChangeFinishCond, &stateLock) returns.
CallerRelocks ==
  /\ upc = "wake" /\ ~stateLock
  /\ upc' = "check"
  /\ stateLock' = TRUE
  /\ UNCHANGED <<calls, askedState, askedWin, requests, rend, prox>>
-----------------------------------------------------------------------------
(* Renderer thread *)

\* rendererShouldWait, as far as pending changes go; whether to draw is in FrameSync.
rendererShouldWait ==
  /\ rpc = "check"
  /\ rpc' = IF stateChanged \/ windowChanged THEN "apply" ELSE "gosleep"
  /\ UNCHANGED <<ui, requests, stateLock, state, win, oldState, mapped, started, prox>>

\* Added or removed buffers, or the server's flags, may ask for a pass instead.
ShouldRun ==
  /\ rpc = "check" /\ ~stateChanged /\ ~windowChanged
  /\ rpc' = "apply"
  /\ UNCHANGED <<ui, requests, stateLock, state, win, oldState, mapped, started, prox>>

\* pthread_cond_wait(&stateCond, &stateLock)
FallAsleep ==
  /\ rpc = "gosleep"
  /\ rpc' = "asleep"
  /\ stateLock' = FALSE
  /\ started' = TRUE
  /\ UNCHANGED <<ui, requests, state, win, oldState, mapped, prox>>

RendererRelocks ==
  /\ rpc \in {"wake", "relock"} /\ ~stateLock
  /\ rpc' = "check"
  /\ stateLock' = TRUE
  /\ UNCHANGED <<ui, requests, state, win, oldState, mapped, started, prox>>

\* Mutant: the old state is unmapped before the proxy thread has left it.
UnmapAtOnce ==
  /\ rpc = "apply"
  /\ IF stateChanged
     THEN /\ mapped' = mapped \ ({state} \ {pendingState})
          /\ state' = pendingState /\ pendingState' = None /\ stateChanged' = FALSE
          /\ rpc' = "listen"
     ELSE rpc' = "window" /\ UNCHANGED <<state, mapped, pendingState, stateChanged>>
  /\ UNCHANGED <<ui, windowChanged, pendingWin, stateLock, win, oldState, started, prox>>

\* rendererThread: a new state, if there is one.
ApplyState ==
  /\ rpc = "apply"
  /\ IF stateChanged
     THEN /\ oldState' = IF pendingState # state THEN state ELSE None
          /\ state' = pendingState /\ pendingState' = None /\ stateChanged' = FALSE
          /\ rpc' = "listen"
     ELSE rpc' = "window" /\ UNCHANGED <<oldState, state, pendingState, stateChanged>>
  /\ UNCHANGED <<ui, windowChanged, pendingWin, stateLock, win, mapped, started, prox>>

\* pthreadCondVarProxyListenOtherCondVar: broadcast, then wait until relocked.
ListenOther ==
  /\ rpc = "listen" /\ ~proxyLock
  /\ WakeProxy(current)
  /\ pending' = state
  /\ relocked' = FALSE
  /\ rpc' = "listening"   \* the wait gives proxy.lock back
  /\ UNCHANGED <<ui, requests, stateLock, state, win, oldState, mapped, started, proxyLock, current>>

ListenRecheck ==
  /\ rpc = "listenWake" /\ ~proxyLock
  /\ rpc' = IF relocked THEN "unmap" ELSE "listening"
  /\ UNCHANGED <<ui, requests, stateLock, state, win, oldState, mapped, started, prox>>

\* munmap(oldState)
Unmap ==
  /\ rpc = "unmap"
  /\ mapped' = mapped \ {oldState}
  /\ oldState' = None
  /\ rpc' = "window"
  /\ UNCHANGED <<ui, requests, stateLock, state, win, started, prox>>

\* Mutant: the UI thread is not told.
ApplyWindowSilent ==
  /\ rpc = "window"
  /\ IF windowChanged
     THEN win' = pendingWin /\ pendingWin' = None /\ windowChanged' = FALSE
     ELSE UNCHANGED <<win, pendingWin, windowChanged>>
  /\ stateLock' = FALSE
  /\ rpc' = "draw"
  /\ UNCHANGED <<ui, stateChanged, pendingState, state, oldState, mapped, started, prox>>

\* rendererRefreshContext (a window that has become invalid leaves the renderer with none),
\* the signal to the UI thread and the unlock.
ApplyWindow ==
  /\ rpc = "window"
  /\ IF windowChanged
     THEN win' \in {pendingWin, None} /\ pendingWin' = None /\ windowChanged' = FALSE
     ELSE UNCHANGED <<win, pendingWin, windowChanged>>
  /\ upc' = IF upc = "asleep" THEN "wake" ELSE upc
  /\ stateLock' = FALSE
  /\ rpc' = "draw"
  /\ UNCHANGED <<calls, askedState, askedWin, stateChanged, pendingState, state, oldState, mapped,
                 started, prox>>

\* rendererRedrawLocked, or nothing.
Redraw ==
  /\ rpc = "draw"
  /\ rpc' = "relock"
  /\ UNCHANGED <<ui, requests, stateLock, state, win, oldState, mapped, started, prox>>
-----------------------------------------------------------------------------
(* Proxy thread; it holds proxy.lock except while it waits.                  *)

\* Its first lock and wait: nothing is checked before the wait.
ProxyStart ==
  /\ ppc = "start" /\ ~proxyLock
  /\ ppc' = "wait"
  /\ UNCHANGED <<ui, requests, stateLock, rend, proxyLock, current, pending, relocked>>

\* Back from the wait: change over, report, tell the renderer, and wait again.
ProxyLoop ==
  /\ ppc = "wake" /\ ~proxyLock
  /\ proxyLock' = TRUE
  /\ current' = IF pending # NoChange THEN pending ELSE current
  /\ pending' = NoChange
  /\ relocked' = TRUE
  /\ ppc' = "loop"
  /\ WakeRenderer
  /\ UNCHANGED <<ui, requests, stateLock, state, win, oldState, mapped, started>>

ProxyWaits ==
  /\ ppc = "loop"
  /\ ppc' = "wait"
  /\ proxyLock' = FALSE
  /\ UNCHANGED <<ui, requests, stateLock, rend, current, pending, relocked>>

\* The X server signals a state that the activity has mapped.
ServerSignals ==
  /\ ppc = "wait" /\ current # None
  /\ WakeProxy(current)
  /\ UNCHANGED <<ui, requests, stateLock, rend, proxyLock, current, pending, relocked>>
-----------------------------------------------------------------------------
CallerStep == AwaitChange \/ CallerRelocks
RendererStep ==
  \/ rendererShouldWait \/ FallAsleep \/ RendererRelocks \/ ApplyState \/ ListenOther
  \/ ListenRecheck \/ Unmap \/ ApplyWindow \/ Redraw
ProxyStep == ProxyStart \/ ProxyLoop \/ ProxyWaits

Next ==
  \/ \E v \in Values : rendererSetSharedState(v) \/ rendererSetWindow(v)
  \/ rendererAddBuffer
  \/ CallerStep
  \/ RendererStep \/ ShouldRun
  \/ ProxyStep
  \/ ServerSignals

Spec == Init /\ [][Next]_vars

\* Every thread keeps running.  Whoever else uses a lock uses it at most a few times per
\* frame and sleeps in between, so a thread that wants one gets it at last (SF).
FairSpec ==
  /\ Spec
  /\ WF_vars(AwaitChange) /\ SF_vars(CallerRelocks)
  /\ WF_vars(RendererStep) /\ SF_vars(RendererRelocks) /\ SF_vars(ListenOther) /\ SF_vars(ListenRecheck)
  /\ WF_vars(ProxyStep)
-----------------------------------------------------------------------------
(* Properties *)

FlagsOK ==
  /\ stateChanged \in BOOLEAN /\ windowChanged \in BOOLEAN
  /\ stateLock \in BOOLEAN /\ proxyLock \in BOOLEAN
  /\ relocked \in BOOLEAN /\ started \in BOOLEAN

DataOK ==
  /\ upc \in {"idle", "check", "asleep", "wake"} /\ calls \in Values
  /\ askedState \in Values /\ askedWin \in Values
  /\ pendingState \in Values /\ pendingWin \in Values
  /\ rpc \in {"check", "gosleep", "asleep", "wake", "relock", "apply", "listen", "listening",
              "listenWake", "unmap", "window", "draw"}
  /\ state \in Values /\ win \in Values /\ oldState \in Values
  /\ mapped \subseteq Values \ {None}
  /\ ppc \in {"start", "wait", "wake", "loop"}
  /\ current \in Values /\ pending \in Values \cup {NoChange}

(* Types; in particular no state is mapped at the address of a failed       *)
(* mapping.                                                                 *)
TypeOK == FlagsOK /\ DataOK

(* A call of rendererSetSharedState or rendererSetWindow returns only when  *)
(* the renderer uses what it was given and has let go of what it had: after *)
(* surfaceDestroyed there is no EGL surface on the window, and after a      *)
(* disconnect nobody uses the old state.                                    *)
ReturnsWhenApplied ==
  upc = "idle" => state = askedState /\ win \in {askedWin, None} /\ ~stateChanged /\ ~windowChanged

(* No thread waits on a condition variable in an unmapped state, and once   *)
(* the UI thread has its answer no state but the present one is mapped.     *)
ProxyOnMappedState ==
  /\ ppc \in {"wait", "loop"} => current \in mapped \cup {None}
  /\ upc = "idle" /\ rpc \in {"asleep", "check"} => mapped = {askedState} \ {None}

(* "If there are pending changes we should process them immediately": no    *)
(* call leaves the UI thread waiting for ever.                              *)
CallReturns == upc # "idle" ~> upc = "idle"
=============================================================================
