------------------------- MODULE CrashTolerantLock -------------------------
(***************************************************************************)
(* What lorie_mutex_lock promises: a lock for processes that may die.  A   *)
(* thread is inside from its lock to its unlock, the lock has a holder     *)
(* exactly as long, and it dies with its holder.  Nobody else can end a    *)
(* live holder's stay.                                                     *)
(***************************************************************************)
CONSTANTS Threads, NoOne

VARIABLES holder,   \* the live thread that has the lock, or NoOne
          inside,   \* live threads between lock and unlock
          live      \* threads whose process has not died

lockVars == <<holder, inside, live>>

LInit == holder = NoOne /\ inside = {} /\ live = Threads

Acquire(t) ==
  /\ t \in live /\ holder = NoOne
  /\ holder' = t
  /\ inside' = inside \cup {t}
  /\ UNCHANGED live

Release(t) ==
  /\ t \in live /\ holder = t
  /\ holder' = NoOne
  /\ inside' = inside \ {t}
  /\ UNCHANGED live

Crash(t) ==
  /\ t \in live
  /\ live' = live \ {t}
  /\ inside' = inside \ {t}
  /\ holder' = IF holder = t THEN NoOne ELSE holder

LNext == \E t \in Threads : Acquire(t) \/ Release(t) \/ Crash(t)

LSpec == LInit /\ [][LNext]_lockVars
=============================================================================
