------------------------- MODULE SharedMutex_proofs -------------------------
(***************************************************************************)
(* The shared mutex for any number of activity processes: mutual exclusion *)
(* and the refinement of the crash-tolerant lock, until the server's       *)
(* conn_fd loses an activity that lives on (cut).                          *)
(***************************************************************************)
EXTENDS SharedMutex, TLAPS

(* The strengthening of MutualExclusion.                                    *)
HolderOwns == \A t \in Threads : InCS(t) => owner = t

OwnerHolds == owner \in alive => InCS(owner)

BusyIsMapped == \A r \in Renderers : r \in alive /\ pc[r] # "idle" => r \in mapped

LinkedWhileMapped ==
  Server \in alive => \A r \in mapped \cap alive : link = r

ConnFdIsLink == Server \in alive /\ link # NoOne => connFd = link

OneLiveRenderer == \A r, q \in mapped \cap alive : r = q

LinkEndsLive == link # NoOne => {Server, link} \subseteq alive

ReinitIsJustified ==
  \A t \in Threads : t \in alive /\ pc[t] = "reinit" => ~lorieConnectionAlive(t)

Core ==
  /\ HolderOwns
  /\ OwnerHolds
  /\ BusyIsMapped
  /\ LinkedWhileMapped
  /\ ConnFdIsLink
  /\ OneLiveRenderer
  /\ LinkEndsLive
  /\ ReinitIsJustified

IInv == TypeOK /\ (cut \/ Core)
-----------------------------------------------------------------------------
LEMMA TypeNext ==
  ASSUME TypeOK, [Next]_vars
  PROVE  TypeOK'
<1> USE DEF TypeOK, Threads, Steps, Goto, conn
<1>1. ASSUME NEW t \in Threads, Enter(t) \/ TimedLock(t) \/ Expire(t) \/ Judge(t) PROVE TypeOK'
  BY <1>1 DEF Enter, TimedLock, Expire, Judge
<1>2. ASSUME NEW t \in Threads, Reinit(t) \/ RecordPid(t) \/ ClearPid(t) \/ Unlock(t) PROVE TypeOK'
  BY <1>2 DEF Reinit, RecordPid, ClearPid, Unlock
<1>3. ASSUME NEW t \in Threads, Die(t) PROVE TypeOK'
  BY <1>3, ThreadsAssumption DEF Die
<1>4. ASSUME NEW r \in Renderers, Connect(r) \/ DropLink(r) \/ Hangup(r) \/ Unmap(r) PROVE TypeOK'
  BY <1>4 DEF Connect, DropLink, Hangup, Unmap
<1>5. CASE UNCHANGED vars
  BY <1>5 DEF vars
<1> QED
  BY <1>1, <1>2, <1>3, <1>4, <1>5 DEF Next, LockStep

(* Type correctness.                                                        *)
THEOREM TypeCorrect == Spec => []TypeOK
<1>1. Init => TypeOK
  BY ThreadsAssumption DEF Init, TypeOK, Threads, Steps
<1>2. TypeOK /\ [Next]_vars => TypeOK'
  BY TypeNext
<1> QED
  BY <1>1, <1>2, PTL DEF Spec

(* IInv holds initially.                                                    *)
LEMMA IInvInit == Init => IInv
<1>1. Init => TypeOK
  BY ThreadsAssumption DEF Init, TypeOK, Threads, Steps
<1>2. Init => Core
  BY ThreadsAssumption
  DEF Init, Core, Threads, HolderOwns, OwnerHolds, BusyIsMapped, LinkedWhileMapped, ConnFdIsLink,
      OneLiveRenderer, LinkEndsLive, ReinitIsJustified, InCS, lorieConnectionAlive
<1> QED
  BY <1>1, <1>2 DEF IInv

(* A reinitialisation by a live thread finds no live owner: the heart of    *)
(* the argument.                                                            *)
LEMMA ReinitFindsNoLiveOwner ==
  ASSUME TypeOK, Core, NEW t \in Threads, t \in alive, pc[t] = "reinit"
  PROVE  owner \notin alive
<1> SUFFICES ASSUME owner \in alive PROVE FALSE
  OBVIOUS
<1>1. owner # t /\ InCS(owner) /\ owner \in Threads /\ ~lorieConnectionAlive(t)
  BY DEF Core, OwnerHolds, InCS, ReinitIsJustified, TypeOK
<1>2. CASE t = Server
  BY <1>1, <1>2, ThreadsAssumption
  DEF Core, TypeOK, InCS, BusyIsMapped, LinkedWhileMapped, ConnFdIsLink, lorieConnectionAlive, Threads
<1>3. CASE t \in Renderers
  BY <1>1, <1>3, ThreadsAssumption
  DEF Core, TypeOK, InCS, BusyIsMapped, LinkedWhileMapped, ConnFdIsLink, OneLiveRenderer, lorieConnectionAlive, Threads
<1> QED
  BY <1>2, <1>3 DEF Threads

(* Every step that does not set cut preserves Core.                         *)
LEMMA CoreNext ==
  ASSUME TypeOK, Core, [Next]_vars, ~cut'
  PROVE  Core'
<1> USE ThreadsAssumption DEF Core, TypeOK, Threads, Steps, Goto, InCS, HolderOwns, OwnerHolds,
        BusyIsMapped, LinkedWhileMapped, ConnFdIsLink, OneLiveRenderer, LinkEndsLive, ReinitIsJustified,
        lorieConnectionAlive, conn
<1>1. ASSUME NEW t \in Threads, Enter(t) PROVE Core'
  BY <1>1 DEF Enter
<1>2. ASSUME NEW t \in Threads, TimedLock(t) PROVE Core'
  BY <1>2 DEF TimedLock
<1>3. ASSUME NEW t \in Threads, Expire(t) PROVE Core'
  BY <1>3 DEF Expire
<1>4. ASSUME NEW t \in Threads, Judge(t) PROVE Core'
  BY <1>4 DEF Judge, HolderMayLive
<1>5. ASSUME NEW t \in Threads, Reinit(t) PROVE Core'
  BY <1>5, ReinitFindsNoLiveOwner DEF Reinit
<1>6. ASSUME NEW t \in Threads, RecordPid(t) PROVE Core'
  BY <1>6 DEF RecordPid
<1>7. ASSUME NEW t \in Threads, ClearPid(t) PROVE Core'
  BY <1>7 DEF ClearPid
<1>8. ASSUME NEW t \in Threads, Unlock(t) PROVE Core'
  BY <1>8 DEF Unlock
<1>9. ASSUME NEW t \in Threads, Die(t) PROVE Core'
  BY <1>9 DEF Die
<1>10. ASSUME NEW r \in Renderers, Connect(r) PROVE Core'
  BY <1>10 DEF Connect
<1>11. ASSUME NEW r \in Renderers, Unmap(r) PROVE Core'
  BY <1>11 DEF Unmap
<1>12. ASSUME NEW r \in Renderers, DropLink(r) PROVE Core'
  BY <1>12 DEF DropLink
<1>13. ASSUME NEW r \in Renderers, Hangup(r) PROVE Core'
  BY <1>13 DEF Hangup
<1>14. CASE UNCHANGED vars
  BY <1>14 DEF vars
<1> QED
  BY <1>1, <1>2, <1>3, <1>4, <1>5, <1>6, <1>7, <1>8, <1>9, <1>10, <1>11, <1>12, <1>13, <1>14
  DEF Next, LockStep

(* Nothing resets cut.                                                      *)
LEMMA CutIsFinal ==
  ASSUME [Next]_vars, cut
  PROVE  cut'
<1> USE DEF conn
<1>1. ASSUME NEW t \in Threads, Enter(t) \/ LockStep(t) \/ Die(t) PROVE cut'
  BY <1>1 DEF Enter, LockStep, TimedLock, Expire, Judge, Reinit, RecordPid, ClearPid, Unlock, Die
<1>2. ASSUME NEW r \in Renderers, Connect(r) \/ DropLink(r) \/ Hangup(r) \/ Unmap(r) PROVE cut'
  BY <1>2 DEF Connect, DropLink, Hangup, Unmap
<1>3. CASE UNCHANGED vars
  BY <1>3 DEF vars
<1> QED
  BY <1>1, <1>2, <1>3 DEF Next

LEMMA IInvNext ==
  ASSUME IInv, [Next]_vars
  PROVE  IInv'
<1>1. TypeOK'
  BY TypeNext DEF IInv
<1>2. CASE cut'
  BY <1>1, <1>2 DEF IInv
<1>3. CASE ~cut'
  BY <1>1, <1>3, CoreNext, CutIsFinal DEF IInv
<1> QED
  BY <1>2, <1>3

(* No two live threads are in the critical section of lorie_mutex_lock and  *)
(* lorie_mutex_unlock, for any set of activity processes, any deaths and    *)
(* any delay of a hangup, until the server's conn_fd loses an activity that *)
(* lives on: it closes its socket, or a late hangup clears conn_fd.         *)
THEOREM MutexIsExclusive == Spec => []MutualExclusion
<1>1. IInv => MutualExclusion
  BY DEF IInv, Core, HolderOwns, MutualExclusion
<1>2. IInv /\ [Next]_vars => IInv'
  BY IInvNext
<1> QED
  BY IInvInit, <1>1, <1>2, PTL DEF Spec

(* lorie_mutex_lock implements the crash-tolerant lock: only TimedLock      *)
(* acquires, only the owner's Unlock releases, and Reinit is a stutter      *)
(* because it finds no live owner.  The step that sets cut (DropLink, or a  *)
(* late Hangup) ends the mapping, as if the holder released.                *)
THEOREM MutexImplementsLock == Spec => ImplementsLock
<1>1. Init => Lock!LInit
  BY ThreadsAssumption DEF Init, Lock!LInit, Holder, Inside, InCS, Threads
<1>2. IInv /\ [Next]_vars => [Lock!LNext]_(Lock!lockVars)
  <2> SUFFICES ASSUME IInv, [Next]_vars PROVE [Lock!LNext]_(Lock!lockVars)
    OBVIOUS
  <2> USE ThreadsAssumption DEF Threads, Goto, Holder, Inside, InCS, Lock!lockVars, Lock!LNext, conn
  <2>1. ASSUME ~cut, NEW t \in Threads, TimedLock(t) PROVE Lock!Acquire(t)
    BY <2>1 DEF TimedLock, Lock!Acquire, IInv, TypeOK
  <2>2. ASSUME ~cut, NEW t \in Threads, Unlock(t) PROVE Lock!Release(t)
    BY <2>2 DEF Unlock, Lock!Release, IInv, TypeOK, Core, HolderOwns
  <2>3. ASSUME NEW t \in Threads, Die(t) PROVE Lock!Crash(t)
    BY <2>3 DEF Die, Lock!Crash, IInv, TypeOK
  <2>4. ASSUME ~cut, NEW t \in Threads, Reinit(t) PROVE UNCHANGED Lock!lockVars
    BY <2>4, ReinitFindsNoLiveOwner DEF Reinit, IInv, TypeOK
  <2>5. ASSUME NEW t \in Threads, Enter(t) \/ Expire(t) \/ Judge(t) \/ RecordPid(t) \/ ClearPid(t)
        PROVE  UNCHANGED Lock!lockVars
    BY <2>5 DEF Enter, Expire, Judge, RecordPid, ClearPid, IInv, TypeOK
  <2>6. ASSUME cut, NEW t \in Threads, TimedLock(t) \/ Unlock(t) \/ Reinit(t)
        PROVE  UNCHANGED Lock!lockVars
    BY <2>6 DEF TimedLock, Unlock, Reinit
  <2>7. ASSUME NEW r \in Renderers, Connect(r) \/ Unmap(r)
        PROVE  UNCHANGED Lock!lockVars
    BY <2>7 DEF Connect, Unmap
  <2>8. ASSUME NEW r \in Renderers, DropLink(r) \/ Hangup(r) PROVE [Lock!LNext]_(Lock!lockVars)
    <3> USE DEF DropLink, Hangup
    <3>1. CASE cut \/ ~cut' \/ owner \notin alive
      BY <2>8, <3>1 DEF IInv, Core, HolderOwns
    <3>2. CASE ~cut /\ cut' /\ owner \in alive
      <4>1. owner \in Threads /\ Inside = {owner}
        BY <3>2 DEF IInv, TypeOK, Core, HolderOwns, OwnerHolds
      <4>2. PICK t \in Threads : t = owner
        BY <4>1
      <4>3. Lock!Release(t)
        BY <2>8, <3>2, <4>1, <4>2 DEF Lock!Release
      <4> QED
        BY <4>3
    <3> QED
      BY <3>1, <3>2 DEF IInv, TypeOK
  <2>9. CASE UNCHANGED vars
    BY <2>9 DEF vars
  <2> QED
    BY <2>1, <2>2, <2>3, <2>4, <2>5, <2>6, <2>7, <2>8, <2>9 DEF Next, LockStep
<1>3. IInv /\ [Next]_vars => IInv'
  BY IInvNext
<1> QED
  BY IInvInit, <1>1, <1>2, <1>3, PTL DEF Spec, ImplementsLock, Lock!LSpec
=============================================================================
