----------------------- MODULE RendererControl_proofs -----------------------
(***************************************************************************)
(* The hand-over of states and windows to the renderer thread is safe      *)
(* whatever the schedule, even before the renderer thread has locked       *)
(* stateLock for the first time, and for any number of calls.              *)
(***************************************************************************)
EXTENDS RendererControl, TLAPS

Redirecting == rpc \in {"listen", "listening", "listenWake"}

(* What the UI thread asked for is pending or in use.                       *)
RequestInv ==
  /\ IF stateChanged THEN pendingState = askedState ELSE state = askedState
  /\ IF windowChanged THEN pendingWin = askedWin ELSE win \in {askedWin, None}
  /\ stateChanged \/ windowChanged => upc # "idle"

(* The mapped states are the one in use, the one to unmap and the pending   *)
(* one, and these are different.                                            *)
MappedInv ==
  /\ mapped = ({state, oldState} \cup (IF stateChanged THEN {pendingState} ELSE {})) \ {None}
  /\ state <= calls /\ oldState <= calls /\ pendingState <= calls
  /\ oldState # None => Redirecting \/ rpc = "unmap"
  /\ oldState # None => oldState # state
  /\ stateChanged /\ pendingState # None => pendingState # state /\ pendingState # oldState

(* The proxy thread listens to the state in use, except while it is being   *)
(* redirected to it; it may then listen to the old one, or have changed     *)
(* over already.                                                            *)
ProxyInv ==
  /\ ~Redirecting => current = state /\ pending = NoChange
  /\ rpc = "listen" => current \in {oldState, state, None} /\ pending = NoChange
  /\ rpc \in {"listening", "listenWake"} =>
       IF relocked THEN current = state /\ pending = NoChange
                   ELSE current \in {oldState, state, None} /\ pending = state

IInv == TypeOK /\ RequestInv /\ MappedInv /\ ProxyInv
-----------------------------------------------------------------------------
(* The flags stay Boolean.                                                  *)
LEMMA FlagsNext ==
  ASSUME FlagsOK, [Next]_vars
  PROVE  FlagsOK'
<1> USE DEF FlagsOK, ui, requests, rend, prox
<1>1. ASSUME NEW v \in Values, rendererSetSharedState(v) \/ rendererSetWindow(v) PROVE FlagsOK'
  BY <1>1, Zenon DEF rendererSetSharedState, rendererSetWindow
<1>2. CASE rendererAddBuffer \/ CallerStep
  BY <1>2, Zenon DEF rendererAddBuffer, CallerStep, AwaitChange, CallerRelocks
<1>3. CASE rendererShouldWait \/ ShouldRun \/ FallAsleep \/ RendererRelocks
  BY <1>3, Zenon DEF rendererShouldWait, ShouldRun, FallAsleep, RendererRelocks
<1>4. CASE ApplyState
  BY <1>4, Zenon DEF ApplyState
<1>5. CASE ListenOther \/ ListenRecheck \/ Unmap \/ Redraw
  BY <1>5, Zenon DEF ListenOther, ListenRecheck, Unmap, Redraw
<1>6. CASE ApplyWindow
  BY <1>6, Zenon DEF ApplyWindow
<1>7. CASE ProxyStep \/ ServerSignals
  BY <1>7, Zenon DEF ProxyStep, ProxyStart, ProxyLoop, ProxyWaits, ServerSignals
<1>8. CASE UNCHANGED vars
  BY <1>8, Zenon DEF vars
<1> QED
  BY <1>1, <1>2, <1>3, <1>4, <1>5, <1>6, <1>7, <1>8 DEF Next, RendererStep

(* So do the types of the rest.                                             *)
LEMMA DataNext ==
  ASSUME DataOK, [Next]_vars
  PROVE  DataOK'
<1> USE ControlAssumption
    DEF DataOK, Values, None, NoChange, ui, requests, rend, prox, WakeRenderer, WakeProxy
<1>1. ASSUME NEW v \in Values, rendererSetSharedState(v) PROVE DataOK'
  <2>1. mapped' \subseteq Values \ {None}
    BY <1>1 DEF rendererSetSharedState
  <2> QED
    BY <1>1, <2>1 DEF rendererSetSharedState, CallAllowed
<1>2. ASSUME NEW w \in Values, rendererSetWindow(w) PROVE DataOK'
  BY <1>2 DEF rendererSetWindow, CallAllowed
<1>3. CASE rendererAddBuffer \/ CallerStep
  BY <1>3 DEF rendererAddBuffer, CallerStep, AwaitChange, CallerRelocks
<1>4. CASE rendererShouldWait \/ ShouldRun
  BY <1>4 DEF rendererShouldWait, ShouldRun
<1>5. CASE FallAsleep \/ RendererRelocks \/ Redraw
  BY <1>5 DEF FallAsleep, RendererRelocks, Redraw
<1>6. CASE ApplyState
  BY <1>6 DEF ApplyState
<1>7. CASE ListenOther \/ ListenRecheck
  BY <1>7 DEF ListenOther, ListenRecheck
<1>8. CASE Unmap
  BY <1>8 DEF Unmap
<1>9. CASE ApplyWindow
  BY <1>9 DEF ApplyWindow
<1>10. CASE ProxyStep \/ ServerSignals
  BY <1>10 DEF ProxyStep, ProxyStart, ProxyLoop, ProxyWaits, ServerSignals
<1>11. CASE UNCHANGED vars
  BY <1>11 DEF vars
<1> QED
  BY <1>1, <1>2, <1>3, <1>4, <1>5, <1>6, <1>7, <1>8, <1>9, <1>10, <1>11 DEF Next, RendererStep

(* Type correctness of the hand-over, for any number of calls.              *)
THEOREM TypeCorrect == Spec => []TypeOK
<1>1. Init => FlagsOK
  BY Zenon DEF Init, FlagsOK
<1>2. Init => DataOK
  BY ControlAssumption DEF Init, DataOK, Values, None, NoChange
<1>3. TypeOK /\ [Next]_vars => TypeOK'
  BY FlagsNext, DataNext DEF TypeOK
<1> QED
  BY <1>1, <1>2, <1>3, PTL DEF Spec, TypeOK

(* IInv holds initially.                                                    *)
LEMMA IInvInit == Init => RequestInv /\ MappedInv /\ ProxyInv
  BY DEF Init, RequestInv, MappedInv, ProxyInv, Redirecting, None, NoChange

(* Every step keeps IInv.                                                   *)
LEMMA IInvNext ==
  ASSUME TypeOK, TypeOK', RequestInv, MappedInv, ProxyInv, [Next]_vars
  PROVE  RequestInv' /\ MappedInv' /\ ProxyInv'
<1> USE ControlAssumption
    DEF TypeOK, FlagsOK, DataOK, RequestInv, MappedInv, ProxyInv, Redirecting, Values, None, NoChange, ui, requests,
        rend, prox, WakeRenderer, WakeProxy
<1> DEFINE Goal == RequestInv' /\ MappedInv' /\ ProxyInv'
<1>1. ASSUME NEW v \in Values, rendererSetSharedState(v) PROVE Goal
  <2>1. ~stateChanged /\ v \in {None, calls + 1} /\ state # calls + 1 /\ oldState # calls + 1
    BY <1>1 DEF rendererSetSharedState, CallAllowed
  <2>2. mapped' = ({state, oldState} \cup {v}) \ {None}
    BY <1>1, <2>1 DEF rendererSetSharedState
  <2>3. MappedInv'
    BY <1>1, <2>1, <2>2 DEF rendererSetSharedState
  <2> QED
    BY <1>1, <2>1, <2>3 DEF rendererSetSharedState
<1>2. ASSUME NEW w \in Values, rendererSetWindow(w) PROVE Goal
  BY <1>2 DEF rendererSetWindow, CallAllowed
<1>3. CASE rendererAddBuffer
  BY <1>3 DEF rendererAddBuffer
<1>4. CASE CallerStep
  BY <1>4 DEF CallerStep, AwaitChange, CallerRelocks
<1>5. CASE rendererShouldWait \/ ShouldRun \/ FallAsleep \/ RendererRelocks
  BY <1>5 DEF rendererShouldWait, ShouldRun, FallAsleep, RendererRelocks
<1>6. CASE ApplyState
  <2>1. oldState = None /\ current = state /\ pending = NoChange
    BY <1>6 DEF ApplyState
  <2>2. CASE stateChanged
    <3> DEFINE handed == {state, pendingState} \ {None}
    <3>1. mapped' = handed
      BY <1>6, <2>1, <2>2, Zenon DEF ApplyState, MappedInv
    <3>2. handed = {state', oldState'} \ {None}
      BY <1>6, <2>1, <2>2 DEF ApplyState
    <3>3. MappedInv'
      BY <1>6, <2>1, <2>2, <3>1, <3>2 DEF ApplyState
    <3> QED
      BY <1>6, <2>1, <2>2, <3>3 DEF ApplyState
  <2>3. CASE ~stateChanged
    BY <1>6, <2>1, <2>3 DEF ApplyState
  <2> QED
    BY <2>2, <2>3
<1>7. CASE ListenOther \/ ListenRecheck
  BY <1>7 DEF ListenOther, ListenRecheck
<1>8. CASE Unmap
  BY <1>8 DEF Unmap
<1>9. CASE ApplyWindow \/ Redraw
  BY <1>9 DEF ApplyWindow, Redraw
<1>10. CASE ProxyStep
  BY <1>10 DEF ProxyStep, ProxyStart, ProxyLoop, ProxyWaits
<1>11. CASE ServerSignals \/ UNCHANGED vars
  BY <1>11 DEF ServerSignals, vars
<1> QED
  BY <1>1, <1>2, <1>3, <1>4, <1>5, <1>6, <1>7, <1>8, <1>9, <1>10, <1>11 DEF Next, RendererStep

(* Every reachable state satisfies IInv.                                    *)
LEMMA Inductive == Spec => []IInv
<1>1. Init => RequestInv /\ MappedInv /\ ProxyInv
  BY IInvInit
<1>2. TypeOK /\ TypeOK' /\ RequestInv /\ MappedInv /\ ProxyInv /\ [Next]_vars
        => RequestInv' /\ MappedInv' /\ ProxyInv'
  BY IInvNext
<1>3. Spec => []TypeOK
  BY TypeCorrect
<1> QED
  BY <1>1, <1>2, <1>3, PTL DEF Spec, IInv

(* rendererSetSharedState and rendererSetWindow return only when the        *)
(* renderer uses what they were given.                                      *)
THEOREM CallsReturnApplied == Spec => []ReturnsWhenApplied
<1>1. IInv => ReturnsWhenApplied
  BY DEF IInv, RequestInv, ReturnsWhenApplied
<1> QED
  BY <1>1, Inductive, PTL

(* The proxy thread never waits in unmapped memory and no state stays       *)
(* mapped after its use.                                                    *)
THEOREM ProxyIsSafe == Spec => []ProxyOnMappedState
<1>1. IInv => ProxyOnMappedState
  BY DEF IInv, RequestInv, MappedInv, ProxyInv, Redirecting, ProxyOnMappedState, None
<1> QED
  BY <1>1, Inductive, PTL
=============================================================================
