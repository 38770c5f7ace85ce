---------------------------- MODULE Input_proofs ----------------------------
(* What holds of Input for any set of fingers and keys. *)
EXTENDS Input, SequenceTheorems, FiniteSetTheorems, TLAPS

\* The detector's fields, as far as TapHasPoint needs them
TapShape == tap = [count |-> tap.count, cancelled |-> tap.cancelled, point |-> tap.point,
                   timer |-> tap.timer]

IInv == TapShape /\ TapHasPoint

LEMMA TapInit == Init => IInv
  BY DEF Init, IInv, TapShape, TapHasPoint

\* A step that leaves the detector and the fingers alone
LEMMA TapUntouched ==
  ASSUME IInv, UNCHANGED <<tap, fingers>> PROVE IInv'
  BY DEF IInv, TapShape, TapHasPoint

LEMMA TapNext == IInv /\ [Next]_vars => IInv'
<1> SUFFICES ASSUME IInv, [Next]_vars PROVE IInv'
  OBVIOUS
<1>1. CASE \E f \in Fingers, b \in BOOLEAN : FingerDown(f, b)
  <2>1. PICK f \in Fingers, b \in BOOLEAN : FingerDown(f, b)
    BY <1>1
  <2>2. CASE fingers = {}
    BY <2>1, <2>2 DEF FingerDown, IInv, TapShape, TapHasPoint
  <2>3. CASE fingers # {}
    BY <2>1, <2>3 DEF FingerDown, IInv, TapShape, TapHasPoint
  <2> QED BY <2>2, <2>3
<1>2. CASE \E f \in Fingers, b \in BOOLEAN : FingerUp(f, b)
  <2>1. PICK f \in Fingers, b \in BOOLEAN : FingerUp(f, b)
    BY <1>2
  <2>2. CASE fingers = {f}
    BY <2>1, <2>2 DEF FingerUp, IInv, TapShape, TapHasPoint
  <2>3. CASE fingers # {f}
    BY <2>1, <2>3 DEF FingerUp, IInv, TapShape, TapHasPoint
  <2> QED BY <2>2, <2>3
<1>3. CASE \E f \in Fingers : Cancel(f)
  BY <1>3 DEF Cancel, IInv, TapShape, TapHasPoint
<1>4. CASE \E f \in Fingers : MissedUp(f)
  BY <1>4 DEF MissedUp, IInv, TapShape, TapHasPoint
<1>5. CASE \E far \in BOOLEAN : FingerMove(far)
  BY <1>5 DEF FingerMove, IInv, TapShape, TapHasPoint
<1>6. CASE \E inside \in BOOLEAN : LongPress(inside)
  BY <1>6 DEF LongPress, IInv, TapShape, TapHasPoint
<1>7. CASE UNCHANGED <<tap, fingers>>
  BY <1>7, TapUntouched
<1>8. CASE \/ TapTimeout
           \/ \E S \in SUBSET Fingers \ {{}} : Hover(S)
           \/ \E bs \in SUBSET MouseButtons : MouseEvent(bs)
           \/ \E tool \in Tools, bs \in SUBSET MouseButtons, moved \in BOOLEAN : StylusEvent(tool, bs, moved)
           \/ refreshInputDevices
           \/ \E m \in Modes, am, scan \in BOOLEAN : reloadPreferences(m, am, scan)
  BY <1>8, <1>7 DEF TapTimeout, Hover, MouseEvent, StylusEvent, refreshInputDevices, reloadPreferences
<1>9. CASE \/ \E k \in Keys : \/ KeyDown(k)
                              \/ KeyRepeat(k)
                              \/ \E canceled \in BOOLEAN : KeyUp(k, canceled)
           \/ \E c \in Mods : Modifier(c)
  BY <1>9, <1>7 DEF KeyDown, KeyRepeat, KeyPress, KeyUp, Modifier, activity
<1>10. CASE \/ ReadTouch \/ handleTouchEvent \/ ReadMouse \/ ReadStylus \/ ReadStylusEnable
            \/ ReadKey \/ Hangup \/ Reconnect \/ UNCHANGED vars
  BY <1>10, <1>7 DEF ReadTouch, handleTouchEvent, ReadMouse, ReadStylus, ReadStylusEnable, ReadKey,
                     Hangup, Reconnect, activity, vars
<1> QED
  BY <1>1, <1>2, <1>3, <1>4, <1>5, <1>6, <1>8, <1>9, <1>10 DEF Next

(***************************************************************************)
(* TapGestureDetector calls onTap and onLongPress only when mInitialPoint  *)
(* is set, for any number of fingers, however gestures are cancelled,      *)
(* pointers missed and preferences reloaded.                               *)
(***************************************************************************)
THEOREM TapsHaveAPoint == Spec => []TapHasPoint
<1>1. IInv => TapHasPoint
  BY DEF IInv
<1> QED
  BY TapInit, TapNext, <1>1, PTL DEF Spec
-----------------------------------------------------------------------------
(* Queues of events *)

\* Events of P switch x on and events of R switch it off: is x, which is on now if it is in S,
\* on after the events of q?
Stays(q, P, R, x, S) ==
  \/ x \in S /\ \A i \in DOMAIN q : q[i] \notin R
  \/ \E i \in DOMAIN q : q[i] \in P /\ \A j \in DOMAIN q : j > i => q[j] \notin R

LEMMA StaysEmpty == \A P, R, x, S : Stays(<< >>, P, R, x, S) <=> x \in S
  BY DEF Stays

\* Events are added at the end ...
LEMMA StaysAdded ==
  ASSUME NEW E, NEW q \in Seq(E), NEW s \in Seq(E), NEW P, NEW R, NEW x, NEW S
  PROVE Stays(q \o s, P, R, x, S) <=>
          Stays(s, P, R, x, {}) \/ (Stays(q, P, R, x, S) /\ \A i \in DOMAIN s : s[i] \notin R)
<1> DEFINE qs == q \o s
<1>1. Len(q) \in Nat /\ DOMAIN q = 1..Len(q) /\ Len(s) \in Nat /\ DOMAIN s = 1..Len(s)
  BY LenProperties
<1>2. /\ qs \in Seq(E) /\ Len(qs) = Len(q) + Len(s)
      /\ \A i \in 1..(Len(q) + Len(s)) : qs[i] = IF i <= Len(q) THEN q[i] ELSE s[i - Len(q)]
  BY ConcatProperties
<1>3. DOMAIN qs = 1..(Len(q) + Len(s))
  BY <1>2, LenProperties
<1> HIDE DEF qs
<1>4. \A i \in DOMAIN q : i \in DOMAIN qs /\ qs[i] = q[i]
  BY <1>1, <1>2, <1>3
<1>5. \A i \in DOMAIN s : i + Len(q) \in DOMAIN qs /\ qs[i + Len(q)] = s[i]
  BY <1>1, <1>2, <1>3
<1>6. \A i \in DOMAIN qs : i \in DOMAIN q \/ (i - Len(q) \in DOMAIN s /\ i > Len(q))
  BY <1>1, <1>3
<1>7. ASSUME Stays(s, P, R, x, {}) PROVE Stays(qs, P, R, x, S)
  <2>1. PICK i \in DOMAIN s : s[i] \in P /\ \A j \in DOMAIN s : j > i => s[j] \notin R
    BY <1>7 DEF Stays
  <2>2. i + Len(q) \in DOMAIN qs /\ qs[i + Len(q)] \in P
    BY <2>1, <1>5
  <2>3. ASSUME NEW j \in DOMAIN qs, j > i + Len(q) PROVE qs[j] \notin R
    <3>1. j - Len(q) \in DOMAIN s /\ j - Len(q) > i
      BY <1>1, <1>3, <2>3
    <3>2. qs[j] = s[j - Len(q)]
      BY <1>1, <1>2, <1>3, <3>1
    <3> QED BY <2>1, <3>1, <3>2
  <2> QED BY <2>2, <2>3 DEF Stays
<1>8. ASSUME Stays(q, P, R, x, S), \A i \in DOMAIN s : s[i] \notin R PROVE Stays(qs, P, R, x, S)
  <2>1. \A j \in DOMAIN qs : qs[j] \in R => j \in DOMAIN q /\ q[j] \in R
    <3>1. \A j \in DOMAIN qs : j \in DOMAIN q \/ qs[j] = s[j - Len(q)]
      BY <1>1, <1>2, <1>3
    <3> QED BY <1>4, <1>6, <1>8, <3>1
  <2>2. CASE x \in S /\ \A i \in DOMAIN q : q[i] \notin R
    BY <2>1, <2>2 DEF Stays
  <2>3. CASE \E i \in DOMAIN q : q[i] \in P /\ \A j \in DOMAIN q : j > i => q[j] \notin R
    BY <1>4, <2>1, <2>3 DEF Stays
  <2> QED BY <1>8, <2>2, <2>3 DEF Stays
<1>9. ASSUME Stays(qs, P, R, x, S)
      PROVE Stays(s, P, R, x, {}) \/ (Stays(q, P, R, x, S) /\ \A i \in DOMAIN s : s[i] \notin R)
  <2>1. CASE x \in S /\ \A i \in DOMAIN qs : qs[i] \notin R
    <3>1. \A i \in DOMAIN q : q[i] \notin R
      BY <1>4, <2>1
    <3>2. \A i \in DOMAIN s : s[i] \notin R
      BY <1>5, <2>1
    <3> QED BY <2>1, <3>1, <3>2 DEF Stays
  <2>2. ASSUME NEW i \in DOMAIN qs, qs[i] \in P, \A j \in DOMAIN qs : j > i => qs[j] \notin R
        PROVE Stays(s, P, R, x, {}) \/ (Stays(q, P, R, x, S) /\ \A k \in DOMAIN s : s[k] \notin R)
    <3>1. CASE i \in DOMAIN q
      <4>1. q[i] \in P /\ \A j \in DOMAIN q : j > i => q[j] \notin R
        BY <1>4, <2>2, <3>1
      <4>2. \A k \in DOMAIN s : s[k] \notin R
        <5>1. \A k \in DOMAIN s : k + Len(q) > i
          BY <1>1, <3>1
        <5> QED BY <1>5, <2>2, <5>1
      <4> QED BY <3>1, <4>1, <4>2 DEF Stays
    <3>2. CASE i - Len(q) \in DOMAIN s /\ i > Len(q)
      <4>1. s[i - Len(q)] \in P
        BY <1>1, <1>2, <1>3, <2>2, <3>2
      <4>2. ASSUME NEW j \in DOMAIN s, j > i - Len(q) PROVE s[j] \notin R
        <5>1. j + Len(q) > i
          BY <1>1, <1>3, <4>2
        <5> QED BY <1>5, <2>2, <5>1
      <4> QED BY <3>2, <4>1, <4>2 DEF Stays
    <3> QED BY <1>6, <3>1, <3>2
  <2> QED BY <1>9, <2>1, <2>2 DEF Stays
<1> QED
  BY <1>7, <1>8, <1>9 DEF qs

\* ... and taken from the front.
LEMMA StaysTaken ==
  ASSUME NEW E, NEW q \in Seq(E), q # << >>, NEW P, NEW R, P \cap R = {}, NEW x, NEW S, NEW T,
         x \in T <=> (Head(q) \in P \/ (x \in S /\ Head(q) \notin R))
  PROVE Stays(Tail(q), P, R, x, T) <=> Stays(q, P, R, x, S)
<1> DEFINE r == Tail(q)
<1>1. Len(q) \in Nat \ {0} /\ DOMAIN q = 1..Len(q) /\ Head(q) = q[1]
  BY LenProperties, EmptySeq
<1>2. r \in Seq(E) /\ Len(r) = Len(q) - 1 /\ \A i \in 1..Len(r) : r[i] = q[i + 1]
  BY HeadTailProperties
<1>3. DOMAIN r = 1..(Len(q) - 1)
  BY <1>2, LenProperties
<1> HIDE DEF r
<1>4. \A i \in DOMAIN r : i + 1 \in DOMAIN q /\ r[i] = q[i + 1]
  BY <1>1, <1>2, <1>3
<1>5. \A i \in DOMAIN q : i = 1 \/ (i - 1 \in DOMAIN r /\ r[i - 1] = q[i])
  BY <1>1, <1>2, <1>3
<1>6. (\A j \in DOMAIN r : r[j] \notin R) <=> (\A j \in DOMAIN q : j > 1 => q[j] \notin R)
  <2>1. \A j \in DOMAIN r : j + 1 > 1
    BY <1>1, <1>3
  <2>2. \A j \in DOMAIN q : j > 1 => j # 1
    BY <1>1
  <2> QED BY <1>4, <1>5, <2>1, <2>2
<1>7. ASSUME Stays(r, P, R, x, T) PROVE Stays(q, P, R, x, S)
  <2>1. CASE x \in T /\ \A j \in DOMAIN r : r[j] \notin R
    <3>1. 1 \in DOMAIN q
      BY <1>1
    <3>2. CASE q[1] \in P
      BY <1>6, <2>1, <3>1, <3>2 DEF Stays
    <3>3. CASE x \in S /\ q[1] \notin R
      <4>1. \A j \in DOMAIN q : q[j] \notin R
        BY <1>5, <2>1, <3>3
      <4> QED BY <3>3, <4>1 DEF Stays
    <3> QED BY <1>1, <2>1, <3>2, <3>3
  <2>2. ASSUME NEW i \in DOMAIN r, r[i] \in P, \A j \in DOMAIN r : j > i => r[j] \notin R
        PROVE Stays(q, P, R, x, S)
    <3>1. ASSUME NEW j \in DOMAIN q, j > i + 1 PROVE q[j] \notin R
      <4>1. j - 1 \in DOMAIN r /\ j - 1 > i /\ r[j - 1] = q[j]
        BY <1>1, <1>2, <1>3, <3>1
      <4> QED BY <2>2, <4>1
    <3> QED BY <1>4, <2>2, <3>1 DEF Stays
  <2> QED BY <1>7, <2>1, <2>2 DEF Stays
<1>8. ASSUME Stays(q, P, R, x, S) PROVE Stays(r, P, R, x, T)
  <2>1. CASE x \in S /\ \A j \in DOMAIN q : q[j] \notin R
    <3>1. q[1] \notin R /\ \A j \in DOMAIN r : r[j] \notin R
      BY <1>1, <1>4, <2>1
    <3> QED BY <1>1, <2>1, <3>1 DEF Stays
  <2>2. ASSUME NEW i \in DOMAIN q, q[i] \in P, \A j \in DOMAIN q : j > i => q[j] \notin R
        PROVE Stays(r, P, R, x, T)
    <3>1. CASE i = 1
      BY <1>1, <1>6, <2>2, <3>1 DEF Stays
    <3>2. CASE i # 1
      <4>1. i - 1 \in DOMAIN r /\ r[i - 1] \in P
        BY <1>5, <2>2, <3>2
      <4>2. ASSUME NEW j \in DOMAIN r, j > i - 1 PROVE r[j] \notin R
        <5>1. j + 1 > i
          BY <1>1, <1>3, <4>2
        <5> QED BY <1>4, <2>2, <5>1
      <4> QED BY <4>1, <4>2 DEF Stays
    <3> QED BY <3>1, <3>2
  <2> QED BY <1>8, <2>1, <2>2 DEF Stays
<1> QED
  BY <1>7, <1>8 DEF r

\* Any set of numbers has a least.
LEMMA LeastNumber == ASSUME NEW S \in SUBSET Nat, S # {} PROVE \E x \in S : \A y \in S : x =< y
<1>1. IsWellFoundedOn(OpToRel(<, Nat), Nat)
  BY NatLessThanWellFounded
<1>2. PICK x \in S : \A y \in S : ~(<<y, x>> \in OpToRel(<, Nat))
  BY <1>1, WFMin
<1>3. OpToRel(<, Nat) = {p \in Nat \X Nat : p[1] < p[2]}
  BY Zenon DEF OpToRel
<1>4. ASSUME NEW y \in S, y < x PROVE <<y, x>> \in OpToRel(<, Nat)
  <2>1. <<y, x>> \in Nat \X Nat /\ <<y, x>>[1] < <<y, x>>[2]
    BY <1>4
  <2> QED BY <1>3, <2>1, Zenon
<1>5. \A y \in S : ~(y < x)
  BY <1>2, <1>4, Zenon
<1>6. \A y \in S : x =< y
  BY <1>5
<1> QED
  BY <1>6

Increasing(s, S) ==
  s \in [1..Cardinality(S) -> S] /\ \A i, j \in 1..Cardinality(S) : i < j => s[i] < s[j]

\* Any finite set of numbers can be listed from the least on: a smallest one that cannot would
\* be listed by its least member and a list of the others.
LEMMA CanBeListed ==
  ASSUME NEW S \in SUBSET Nat, IsFiniteSet(S) PROVE \E s : Increasing(s, S)
<1> DEFINE Bad == {n \in Nat : \E T \in SUBSET S : Cardinality(T) = n /\ ~\E s : Increasing(s, T)}
<1>1. \A T \in SUBSET S : IsFiniteSet(T) /\ Cardinality(T) \in Nat
  BY FS_Subset, FS_CardinalityType
<1>2. ASSUME Bad # {} PROVE FALSE
  <2>1. PICK n \in Bad : \A m \in Bad : n =< m
    BY <1>2, LeastNumber
  <2>2. PICK T \in SUBSET S : Cardinality(T) = n /\ ~\E s : Increasing(s, T)
    BY <2>1
  <2>3. IsFiniteSet(T) /\ n \in Nat
    BY <1>1, <2>2
  <2>4. CASE T = {}
    <3>1. Cardinality(T) = 0
      BY <2>4, FS_EmptySet
    <3>2. 1..0 = {}
      OBVIOUS
    <3>3. [i \in {} |-> 0] \in [1..0 -> {}]
      BY <3>2
    <3>4. Increasing([i \in {} |-> 0], T)
      BY <2>4, <3>1, <3>2, <3>3 DEF Increasing
    <3> QED BY <2>2, <3>4
  <2>5. CASE T # {}
    <3>1. PICK x \in T : \A y \in T : x =< y
      BY <2>5, LeastNumber
    <3>2. Cardinality(T \ {x}) = n - 1 /\ n - 1 \in Nat
      <4>1. Cardinality(T \ {x}) = n - 1
        BY <2>2, <2>3, <3>1, FS_RemoveElement
      <4>2. n # 0
        BY <2>2, <2>3, <2>5, FS_EmptySet
      <4> QED BY <2>3, <4>1, <4>2
    <3>3. n - 1 \notin Bad
      BY <2>1, <2>3
    <3>4. T \ {x} \in SUBSET S
      OBVIOUS
    <3>5. PICK s : Increasing(s, T \ {x})
      BY <3>2, <3>3, <3>4
    <3> DEFINE u == [i \in 1..n |-> IF i = 1 THEN x ELSE s[i - 1]]
    <3>6. s \in [1..(n - 1) -> T \ {x}] /\ \A i, j \in 1..(n - 1) : i < j => s[i] < s[j]
      BY <3>2, <3>5 DEF Increasing
    <3>7. \A i \in 1..n : i # 1 => i - 1 \in 1..(n - 1) /\ s[i - 1] \in T /\ x < s[i - 1]
      <4>1. \A i \in 1..n : i # 1 => i - 1 \in 1..(n - 1)
        BY <2>3
      <4>2. \A k \in 1..(n - 1) : s[k] \in T /\ s[k] # x
        BY <3>6
      <4>3. \A y \in T : y # x => x < y
        BY <3>1
      <4> QED BY <4>1, <4>2, <4>3
    <3>8. u \in [1..n -> T]
      BY <3>7
    <3>9. ASSUME NEW i \in 1..n, NEW j \in 1..n, i < j PROVE u[i] < u[j]
      <4>1. j # 1 /\ u[j] = s[j - 1]
        BY <2>3, <3>9
      <4>2. CASE i = 1
        BY <3>7, <4>1, <4>2
      <4>3. CASE i # 1
        <5>1. i - 1 \in 1..(n - 1) /\ j - 1 \in 1..(n - 1) /\ i - 1 < j - 1
          BY <2>3, <3>9, <4>1, <4>3
        <5> QED BY <3>6, <4>1, <4>3, <5>1
      <4> QED BY <4>2, <4>3
    <3> HIDE DEF u
    <3>10. Increasing(u, T)
      BY <2>2, <3>8, <3>9 DEF Increasing
    <3> QED BY <2>2, <3>10
  <2> QED BY <2>4, <2>5
<1>3. Cardinality(S) \notin Bad
  BY <1>2
<1> HIDE DEF Bad
<1> QED
  BY <1>1, <1>3 DEF Bad

\* Sorted lists all members of the set, each once.
LEMMA SortedLists ==
  ASSUME NEW S \in SUBSET Nat, IsFiniteSet(S)
  PROVE /\ Cardinality(S) \in Nat
        /\ Sorted(S) \in [1..Cardinality(S) -> S]
        /\ \A i, j \in 1..Cardinality(S) : i < j => Sorted(S)[i] < Sorted(S)[j]
        /\ \A x \in S : \E i \in 1..Cardinality(S) : Sorted(S)[i] = x
<1> DEFINE n == Cardinality(S)
<1>1. n \in Nat
  BY FS_CardinalityType
<1>2. Increasing(Sorted(S), S)
  BY CanBeListed DEF Increasing, Sorted
<1>3. \A i, j \in 1..n : i < j => Sorted(S)[i] < Sorted(S)[j]
  BY <1>2 DEF Increasing
<1>4. Sorted(S) \in [1..n -> S]
  BY <1>2 DEF Increasing
<1> DEFINE s == Sorted(S)
<1> HIDE DEF s
<1>5. \A i, j \in 1..n : i # j => s[i] # s[j]
  <2>1. \A i \in 1..n : s[i] \in Nat
    BY <1>4 DEF s
  <2>2. \A i, j \in 1..n : i < j => s[i] < s[j]
    BY <1>3 DEF s
  <2> QED BY <1>1, <2>1, <2>2
<1>6. s \in Injection(1..n, S)
  BY <1>4, <1>5 DEF Injection, IsInjective, s
<1>7. Cardinality(1..n) = n
  BY <1>1, FS_Interval
<1>8. s \in Surjection(1..n, S)
  BY <1>6, <1>7, FS_Injection
<1>9. \A x \in S : \E i \in 1..n : s[i] = x
  BY <1>8 DEF Surjection
<1> QED
  BY <1>1, <1>3, <1>4, <1>9 DEF s
-----------------------------------------------------------------------------
(* Types *)

TouchEvents == [t : {"touch"}, kind : {"begin", "update", "end"}, f : Fingers]
MouseEvents == [t : {"mouse"}, b : Buttons, down : BOOLEAN]
KeyEvents == [t : {"key"}, c : Codes, down : BOOLEAN]
StylusEvents == [t : {"stylus"}, dev : Devices, buttons : SUBSET Buttons]
EnableEvents == [t : {"enable"}, on : BOOLEAN]
Events == TouchEvents \cup MouseEvents \cup KeyEvents \cup StylusEvents \cup EnableEvents

Taps == [count : 0..Cardinality(Fingers), cancelled : BOOLEAN, point : BOOLEAN, timer : BOOLEAN]
StylusStates == [dev : Devices, buttons : SUBSET Buttons]
Keyboards == [down : SUBSET Keys, mods : SUBSET Mods, scan : BOOLEAN, text : SUBSET Keys, keys : SUBSET Keys]

ActivityTyped ==
  /\ user \in {"pointers", "keyboard"}
  /\ conn \in BOOLEAN /\ click \in BOOLEAN /\ asMouse \in BOOLEAN /\ avail \in BOOLEAN
  /\ fingers \in SUBSET Fingers /\ pointers \in SUBSET Fingers
  /\ mode \in Modes /\ held \in Buttons \cup {NoButton} /\ mouse \in SUBSET Buttons
  /\ tap \in Taps /\ stylus \in StylusStates

TypingTyped ==
  /\ keyboard \in Keyboards /\ layout \in [Keys -> Keys]
  /\ codes \in SUBSET Codes /\ upset \in SUBSET Codes
  /\ how \in [Keys -> Keys \cup {Up, Text}]

ServerTyped ==
  /\ work \in Seq(TouchEvents) /\ touches \in SUBSET Fingers
  /\ pressed \in [Devices -> SUBSET Buttons] /\ prev \in StylusStates
  /\ present \in BOOLEAN
  /\ ~present => \A d \in Tools : pressed[d] = {}

WireTyped ==
  wire \in Seq(Events) /\ stray \in SUBSET Fingers /\ doubt \in SUBSET (Devices \X Buttons)

BoundsKept == ops \in 0..MaxOps /\ drops \in 0..MaxDrops

AllTyped == ActivityTyped /\ TypingTyped /\ ServerTyped /\ WireTyped /\ BoundsKept

LEMMA TypedIsTypeOK == AllTyped => TypeOK
<1> SUFFICES ASSUME AllTyped PROVE TypeOK
  OBVIOUS
<1>1. {conn, click, asMouse, avail, present} \subseteq BOOLEAN
  BY Zenon DEF AllTyped, ActivityTyped, ServerTyped
<1>2. \A e \in ToSet(work) : e.t = "touch" /\ e.f \in Fingers
  <2> SUFFICES ASSUME NEW e \in ToSet(work) PROVE e.t = "touch" /\ e.f \in Fingers
    OBVIOUS
  <2>1. PICK i \in DOMAIN work : e = work[i]
    BY DEF ToSet
  <2>2. e \in TouchEvents
    BY <2>1, LenProperties DEF AllTyped, ServerTyped
  <2> QED BY <2>2 DEF TouchEvents
<1> QED
  BY <1>1, <1>2 DEF AllTyped, ActivityTyped, TypingTyped, ServerTyped, WireTyped, BoundsKept, TypeOK,
                    Taps, StylusStates, Keyboards

\* An event is of the kind that it says.
LEMMA EventKinds ==
  ASSUME NEW e \in Events
  PROVE /\ e.t \in {"touch", "mouse", "key", "stylus", "enable"}
        /\ e.t = "touch" => e \in TouchEvents
        /\ e.t = "mouse" => e \in MouseEvents
        /\ e.t = "key" => e \in KeyEvents
        /\ e.t = "stylus" => e \in StylusEvents
        /\ e.t = "enable" => e \in EnableEvents
  BY DEF Events, TouchEvents, MouseEvents, KeyEvents, StylusEvents, EnableEvents

LEMMA FingersSent ==
  ASSUME NEW evs \in Seq(Events)
  PROVE FingersOf(evs) \subseteq Fingers /\ Releases(evs) \subseteq Devices \X Buttons
<1>1. \A e \in ToSet(evs) : e \in Events
  BY LenProperties DEF ToSet
<1>2. ASSUME NEW x \in FingersOf(evs) PROVE x \in Fingers
  <2>1. PICK e \in ToSet(evs) : e.t = "touch" /\ x = e.f
    BY <1>2 DEF FingersOf
  <2>2. e \in TouchEvents
    BY <1>1, <2>1, EventKinds
  <2> QED BY <2>1, <2>2 DEF TouchEvents
<1>3. ASSUME NEW x \in Releases(evs) PROVE x \in Devices \X Buttons
  <2>1. PICK e \in ToSet(evs) : e.t = "mouse" /\ x = <<"mouse", e.b>>
    BY <1>3 DEF Releases
  <2>2. e \in MouseEvents
    BY <1>1, <2>1, EventKinds
  <2>3. e.b \in Buttons
    BY <2>2 DEF MouseEvents
  <2> QED BY <2>1, <2>3 DEF Devices
<1> QED BY <1>2, <1>3

LEMMA SendTyped ==
  ASSUME WireTyped, NEW evs \in Seq(Events), NEW ns \in SUBSET Fingers,
         NEW nd \in SUBSET (Devices \X Buttons), Send(evs, ns, nd)
  PROVE WireTyped'
<1>1. wire' \in Seq(Events)
  BY ConcatProperties DEF WireTyped, Send
<1>2. stray' \in SUBSET Fingers
  BY FingersSent DEF WireTyped, Send
<1>3. doubt' \in SUBSET (Devices \X Buttons)
  BY FingersSent DEF WireTyped, Send
<1> QED BY <1>1, <1>2, <1>3 DEF WireTyped

LEMMA SendNothing == ASSUME WireTyped, UNCHANGED <<wire, stray, doubt, drops>> PROVE Send(<< >>, {}, {})
<1>1. wire \o << >> = wire
  BY ConcatEmptySeq DEF WireTyped
<1>2. FingersOf(<< >>) = {} /\ Releases(<< >>) = {}
  BY DEF FingersOf, Releases, ToSet
<1> QED BY <1>1, <1>2 DEF Send

LEMMA OneMore == ASSUME BoundsKept, NEW u, UserActs(u), UNCHANGED drops PROVE BoundsKept'
<1>1. MaxOps \in Nat /\ ops \in 0..MaxOps /\ ops < MaxOps /\ ops' = ops + 1
  BY BoundsAssumption DEF BoundsKept, UserActs
<1> QED BY <1>1 DEF BoundsKept

LEMMA NoEvents == << >> \in Seq(Events) /\ DOMAIN << >> = {}
  BY EmptySeq

LEMMA OneEvent == ASSUME NEW E, NEW e \in E PROVE <<e>> \in Seq(E)
  OBVIOUS

LEMMA TwoEvents == ASSUME NEW E, NEW e \in E, NEW d \in E PROVE <<e, d>> \in Seq(E)
  OBVIOUS

LEMMA MadeEvents ==
  /\ \A b \in Buttons, down \in BOOLEAN : Mouse(b, down) \in MouseEvents
  /\ \A kind \in {"begin", "update", "end"}, f \in Fingers : Touch(kind, f) \in TouchEvents
  /\ \A c \in Codes, down \in BOOLEAN : Key(c, down) \in KeyEvents
  /\ \A d \in Devices, bs \in SUBSET Buttons : [t |-> "stylus", dev |-> d, buttons |-> bs] \in StylusEvents
  /\ \A on \in BOOLEAN : [t |-> "enable", on |-> on] \in EnableEvents
  BY DEF Mouse, Touch, Key, MouseEvents, TouchEvents, KeyEvents, StylusEvents, EnableEvents

\* The events that a loop over pointers or over buttons sends
LEMMA ForEachSends ==
  ASSUME NEW S \in SUBSET Fingers, NEW kind \in {"begin", "update", "end"}
  PROVE /\ ForEach(kind, S) \in Seq(Events)
        /\ DOMAIN ForEach(kind, S) = 1..Cardinality(S) /\ Cardinality(S) \in Nat
        /\ \A i \in DOMAIN ForEach(kind, S) : ForEach(kind, S)[i] \in {Touch(kind, f) : f \in S}
        /\ \A f \in S : \E i \in DOMAIN ForEach(kind, S) : ForEach(kind, S)[i] = Touch(kind, f)
<1> DEFINE n == Cardinality(S)
           s == Sorted(S)
<1>1. S \in SUBSET Nat /\ IsFiniteSet(S)
  BY FingersAssumption, FS_Subset
<1>2. n \in Nat /\ s \in [1..n -> S] /\ \A x \in S : \E i \in 1..n : s[i] = x
  BY <1>1, SortedLists
<1> HIDE DEF n, s
<1>3. ForEach(kind, S) = [i \in 1..n |-> Touch(kind, s[i])]
  BY DEF ForEach, n, s
<1>4. \A i \in 1..n : Touch(kind, s[i]) \in Events
  BY <1>2, MadeEvents DEF Events
<1>5. ForEach(kind, S) \in [1..n -> Events]
  BY <1>3, <1>4
<1>6. ForEach(kind, S) \in Seq(Events)
  BY <1>2, <1>5
<1> QED
  BY <1>2, <1>3, <1>6 DEF n

\* What sendTouchEvent sends of a move: the pointers S of the event, then those that never moved
Sweep(S, gone) == ForEach("update", S) \o ForEach("end", gone)

LEMMA SweepSends ==
  ASSUME NEW S \in SUBSET Fingers, NEW gone \in SUBSET Fingers
  PROVE Sweep(S, gone) \in Seq(TouchEvents) /\ Sweep(S, gone) \in Seq(Events)
<1> DEFINE u == ForEach("update", S)
           d == ForEach("end", gone)
<1>1. u \in Seq(Events) /\ \A i \in DOMAIN u : u[i] \in {Touch("update", f) : f \in S}
  BY ForEachSends
<1>2. d \in Seq(Events) /\ \A i \in DOMAIN d : d[i] \in {Touch("end", f) : f \in gone}
  BY ForEachSends
<1> HIDE DEF u, d
<1>3. \A f \in Fingers : Touch("update", f) \in TouchEvents /\ Touch("end", f) \in TouchEvents
  BY MadeEvents
<1>4. (\A i \in DOMAIN u : u[i] \in TouchEvents) /\ (\A i \in DOMAIN d : d[i] \in TouchEvents)
  BY <1>1, <1>2, <1>3
<1>5. u \in Seq(TouchEvents) /\ d \in Seq(TouchEvents)
  BY <1>1, <1>2, <1>4, LenProperties
<1>6. u \o d \in Seq(TouchEvents) /\ u \o d \in Seq(Events)
  BY <1>1, <1>2, <1>5, ConcatProperties
<1> QED BY <1>6 DEF Sweep, u, d

\* The events of the hardware mouse
MouseSends(bs) ==
  LET changed == (mouse \cup bs) \ (mouse \cap bs) IN
    [i \in 1..Cardinality(changed) |-> Mouse(Sorted(changed)[i], Sorted(changed)[i] \in bs)]

LEMMA MouseSent ==
  ASSUME NEW bs \in SUBSET Buttons, mouse \in SUBSET Buttons
  PROVE /\ MouseSends(bs) \in Seq(Events)
        /\ \A i \in DOMAIN MouseSends(bs) :
             \E b \in (mouse \cup bs) \ (mouse \cap bs) : MouseSends(bs)[i] = Mouse(b, b \in bs)
        /\ \A b \in (mouse \cup bs) \ (mouse \cap bs) :
             \E i \in DOMAIN MouseSends(bs) : MouseSends(bs)[i] = Mouse(b, b \in bs)
<1> DEFINE S == (mouse \cup bs) \ (mouse \cap bs)
           n == Cardinality(S)
           s == Sorted(S)
<1>1. S \in SUBSET (1..3)
  BY DEF Buttons
<1> HIDE DEF S
<1>2. S \in SUBSET Nat /\ IsFiniteSet(S)
  BY <1>1, FS_BoundedSetOfNaturals
<1>3. n \in Nat /\ s \in [1..n -> S] /\ \A x \in S : \E i \in 1..n : s[i] = x
  BY <1>2, SortedLists
<1>4. MouseSends(bs) = [i \in 1..n |-> Mouse(s[i], s[i] \in bs)]
  BY DEF MouseSends, S
<1>5. S \subseteq Buttons
  BY DEF S
<1> HIDE DEF n, s
<1>6. \A i \in 1..n : Mouse(s[i], s[i] \in bs) \in Events
  <2>1. \A x \in S : x \in Buttons
    BY <1>5
  <2>2. \A x \in S : Mouse(x, x \in bs) \in MouseEvents
    <3> SUFFICES ASSUME NEW x \in S PROVE Mouse(x, x \in bs) \in MouseEvents
      OBVIOUS
    <3>1. CASE x \in bs
      <4>1. Mouse(x, x \in bs) = Mouse(x, TRUE)
        BY <3>1 DEF Mouse
      <4> QED BY <2>1, <4>1, MadeEvents
    <3>2. CASE x \notin bs
      <4>1. Mouse(x, x \in bs) = Mouse(x, FALSE)
        <5>1. (x \in bs) = FALSE
          BY <3>2, SMT
        <5> QED BY <5>1, Zenon
      <4> QED BY <2>1, <4>1, MadeEvents
    <3> QED BY <3>1, <3>2
  <2> QED BY <1>3, <2>2 DEF Events
<1>7. MouseSends(bs) \in [1..n -> Events]
  BY <1>4, <1>6
<1>8. MouseSends(bs) \in Seq(Events)
  BY <1>3, <1>7
<1>9. \A i \in DOMAIN MouseSends(bs) : \E b \in S : MouseSends(bs)[i] = Mouse(b, b \in bs)
  BY <1>3, <1>4
<1>10. \A b \in S : \E i \in DOMAIN MouseSends(bs) : MouseSends(bs)[i] = Mouse(b, b \in bs)
  BY <1>3, <1>4
<1> QED
  BY <1>8, <1>9, <1>10 DEF S

\* The events of the last finger that is lifted, when it moves the pointer
UpSends(last, tapped) == OnMotionUp(last) \o (IF tapped /\ ~Delayed THEN Click(tap.count) ELSE << >>)

LEMMA UpSent ==
  ASSUME ActivityTyped, NEW last \in BOOLEAN, NEW tapped \in BOOLEAN, tapped => tap.count \in Buttons
  PROVE /\ OnMotionUp(last) \in Seq(Events) /\ \A i \in DOMAIN OnMotionUp(last) : OnMotionUp(last)[i] \in MouseEvents
        /\ tapped => Click(tap.count) \in Seq(Events) /\ \A i \in DOMAIN Click(tap.count) : Click(tap.count)[i] \in MouseEvents
        /\ UpSends(last, tapped) \in Seq(Events)
        /\ \A i \in DOMAIN UpSends(last, tapped) : UpSends(last, tapped)[i] \in MouseEvents
<1>1. /\ OnMotionUp(last) \in Seq(MouseEvents)
  <2>1. held # NoButton => Mouse(held, FALSE) \in MouseEvents
    BY MadeEvents DEF ActivityTyped
  <2>2. held # NoButton => <<Mouse(held, FALSE)>> \in Seq(MouseEvents)
    BY <2>1, OneEvent
  <2> QED BY <2>2, EmptySeq DEF OnMotionUp
<1>2. tapped => Click(tap.count) \in Seq(MouseEvents)
  <2>1. tapped => Mouse(tap.count, TRUE) \in MouseEvents /\ Mouse(tap.count, FALSE) \in MouseEvents
    BY MadeEvents
  <2> QED BY <2>1, TwoEvents DEF Click
<1>3. UpSends(last, tapped) \in Seq(MouseEvents)
  BY <1>1, <1>2, ConcatProperties DEF UpSends
<1>4. MouseEvents \subseteq Events
  BY DEF Events
<1>5. \A q \in Seq(MouseEvents) : q \in Seq(Events) /\ \A i \in DOMAIN q : q[i] \in MouseEvents
  BY <1>4, SeqMonotonic, LenProperties
<1> QED
  BY <1>1, <1>2, <1>3, <1>5

\* What every operation sends, and what it says that the server misses
LEMMA TextSent == TextEvent \in Seq(Events) /\ \A i \in DOMAIN TextEvent : TextEvent[i] \in {Key(AltGr, FALSE), Key(AltGr, TRUE)}
<1>1. Key(AltGr, FALSE) \in Events /\ Key(AltGr, TRUE) \in Events
  BY MadeEvents DEF Events, Codes, Mods
<1>2. CASE AltGr \in keyboard.mods
  <2>1. TextEvent = <<Key(AltGr, FALSE), Key(AltGr, TRUE)>>
    BY <1>2 DEF TextEvent
  <2> DEFINE e == Key(AltGr, FALSE)
             d == Key(AltGr, TRUE)
  <2> HIDE DEF e, d
  <2>2. TextEvent = <<e, d>> /\ e \in Events /\ d \in Events
    BY <1>1, <2>1 DEF e, d
  <2>3. DOMAIN <<e, d>> = 1..2 /\ <<e, d>>[1] = e /\ <<e, d>>[2] = d
    OBVIOUS
  <2>4. \A i \in 1..2 : i = 1 \/ i = 2
    OBVIOUS
  <2>5. \A i \in DOMAIN TextEvent : TextEvent[i] \in {e, d}
    BY <2>2, <2>3, <2>4
  <2>6. TextEvent \in Seq(Events)
    BY <2>2, TwoEvents
  <2> QED BY <2>5, <2>6 DEF e, d
<1>3. CASE AltGr \notin keyboard.mods
  BY <1>3, NoEvents DEF TextEvent
<1> QED BY <1>2, <1>3

LEMMA HeldDoubt ==
  ASSUME ActivityTyped
  PROVE {<<"mouse", held>>} \ {<<"mouse", NoButton>>} \in SUBSET (Devices \X Buttons)
<1>1. CASE held = NoButton
  BY <1>1
<1>2. CASE held # NoButton
  <2>1. held \in Buttons
    BY <1>2 DEF ActivityTyped
  <2> QED BY <2>1 DEF Devices
<1> QED BY <1>1, <1>2

LEMMA CountTyped ==
  ASSUME NEW S \in SUBSET Fingers
  PROVE Cardinality(S) \in 0..Cardinality(Fingers) /\ Cardinality(Fingers) \in Nat
<1>1. Cardinality(S) \in Nat /\ Cardinality(Fingers) \in Nat /\ Cardinality(S) <= Cardinality(Fingers)
  BY FingersAssumption, FS_Subset, FS_CardinalityType
<1> QED BY <1>1

LEMMA DownTyped ==
  ASSUME AllTyped, NEW f \in Fingers, NEW double \in BOOLEAN, FingerDown(f, double)
  PROVE ActivityTyped' /\ WireTyped' /\ BoundsKept'
<1> USE DEF AllTyped
<1>1. WireTyped'
  <2> DEFINE evs == IF mode = "touch" THEN <<Touch("begin", f)>>
                    ELSE IF double THEN <<Mouse(Left, TRUE)>> ELSE << >>
  <2>1. Left \in Buttons
    BY DEF Left, Buttons
  <2>2. Touch("begin", f) \in Events /\ Mouse(Left, TRUE) \in Events
    BY <2>1, MadeEvents DEF Events
  <2>3. evs \in Seq(Events)
    BY <2>2, NoEvents, OneEvent
  <2>4. Send(evs, {}, {})
    BY Zenon DEF FingerDown
  <2> HIDE DEF evs
  <2> QED BY <2>3, <2>4, SendTyped
<1>2. BoundsKept'
  BY OneMore DEF FingerDown, Send
<1>3. tap' \in Taps
  <2>1. Cardinality(fingers') \in 0..Cardinality(Fingers) /\ Cardinality(Fingers) \in Nat
    BY CountTyped DEF FingerDown, ActivityTyped
  <2>2. 1 \in 0..Cardinality(Fingers)
    <3>1. Cardinality({f}) = 1
      BY FS_Singleton
    <3> QED BY <3>1, CountTyped
  <2>3. CASE fingers = {}
    BY <2>2, <2>3 DEF FingerDown, Taps
  <2>4. CASE fingers # {}
    <3>1. tap.count \in 0..Cardinality(Fingers)
      BY DEF ActivityTyped, Taps
    <3>2. Max({tap.count, Cardinality(fingers')}) \in 0..Cardinality(Fingers)
      <4> DEFINE a == tap.count
                 b == Cardinality(fingers')
      <4>1. a \in Nat /\ b \in Nat
        BY <2>1, <3>1
      <4> HIDE DEF a, b
      <4>2. \E x \in {a, b} : \A y \in {a, b} : x >= y
        BY <4>1
      <4>3. Max({a, b}) \in {a, b}
        BY <4>2 DEF Max
      <4> QED BY <2>1, <3>1, <4>3 DEF a, b
    <3>3. tap' = [tap EXCEPT !.count = Max({tap.count, Cardinality(fingers')}), !.point = TRUE]
      BY <2>4 DEF FingerDown, ActivityTyped, Taps
    <3> QED BY <3>2, <3>3 DEF ActivityTyped, Taps
  <2> QED BY <2>3, <2>4
<1>4. click' \in BOOLEAN
  BY Zenon DEF FingerDown
<1>5. fingers' \in SUBSET Fingers /\ held' \in Buttons \cup {NoButton}
  BY DEF FingerDown, ActivityTyped, Left, Buttons
<1>6. UNCHANGED <<user, conn, mode, pointers, mouse, stylus, asMouse, avail>>
  BY DEF FingerDown
<1> QED
  BY <1>1, <1>2, <1>3, <1>4, <1>5, <1>6 DEF ActivityTyped

LEMMA MoveTyped ==
  ASSUME AllTyped, NEW far \in BOOLEAN, FingerMove(far)
  PROVE ActivityTyped' /\ WireTyped' /\ BoundsKept'
<1> USE DEF AllTyped
<1>1. pointers' \in SUBSET Fingers
  BY DEF FingerMove, ActivityTyped
<1>2. WireTyped'
  <2>1. CASE mode = "touch"
    <3> DEFINE evs == Sweep(fingers, Fingers \ pointers')
    <3>1. evs \in Seq(Events)
      BY SweepSends DEF ActivityTyped
    <3>2. Send(evs, {}, {})
      BY <2>1 DEF FingerMove, Sweep
    <3> HIDE DEF evs
    <3> QED BY <3>1, <3>2, SendTyped
  <2>2. CASE mode # "touch"
    BY <2>2 DEF FingerMove, WireTyped
  <2> QED BY <2>1, <2>2
<1>3. UNCHANGED drops
  BY DEF FingerMove, Send
<1>4. BoundsKept'
  BY <1>3, OneMore DEF FingerMove
<1>5. tap' \in Taps
  BY DEF FingerMove, ActivityTyped, Taps
<1> QED
  BY <1>1, <1>2, <1>4, <1>5 DEF FingerMove, ActivityTyped

LEMMA HoverTyped ==
  ASSUME AllTyped, NEW S \in SUBSET Fingers, Hover(S)
  PROVE ActivityTyped' /\ WireTyped' /\ BoundsKept'
<1> USE DEF AllTyped
<1> DEFINE evs == Sweep(S, Fingers \ pointers')
<1>1. evs \in Seq(Events) /\ Send(evs, S, {})
  BY SweepSends DEF Hover, Sweep
<1> HIDE DEF evs
<1>2. WireTyped'
  BY <1>1, SendTyped
<1>3. UNCHANGED drops
  BY <1>1 DEF Send
<1>4. BoundsKept'
  BY <1>3, OneMore DEF Hover
<1> QED BY <1>2, <1>4 DEF Hover, ActivityTyped

LEMMA UpTyped ==
  ASSUME AllTyped, NEW f \in Fingers, NEW inside \in BOOLEAN, FingerUp(f, inside)
  PROVE ActivityTyped' /\ WireTyped' /\ BoundsKept'
<1> USE DEF AllTyped
<1> DEFINE last == fingers = {f}
           tapped == last /\ mode # "touch" /\ TapClicks(inside)
<1>1. Touch("update", f) \in Events /\ Touch("end", f) \in Events
  BY MadeEvents DEF Events
<1>2. tapped => tap.count \in Buttons
  BY DEF TapClicks
<1>3. last \in BOOLEAN /\ tapped \in BOOLEAN
  BY Zenon DEF TapClicks
<1>4. Send(IF mode = "touch" THEN <<Touch("update", f), Touch("end", f)>> ELSE UpSends(last, tapped), {}, {})
  BY Zenon DEF FingerUp, UpSends
<1> HIDE DEF last, tapped
<1>5. UpSends(last, tapped) \in Seq(Events)
  BY <1>2, <1>3, UpSent
<1>6. WireTyped'
  <2> DEFINE evs == IF mode = "touch" THEN <<Touch("update", f), Touch("end", f)>> ELSE UpSends(last, tapped)
  <2>1. evs \in Seq(Events) /\ Send(evs, {}, {})
    BY <1>1, <1>4, <1>5, TwoEvents
  <2> HIDE DEF evs
  <2> QED BY <2>1, SendTyped
<1>7. BoundsKept'
  BY OneMore DEF FingerUp, Send
<1>8. click' \in BOOLEAN
  BY Zenon DEF FingerUp
<1>9. tap' \in Taps
  <2>1. (tap.point /\ ~(fingers = {f})) \in BOOLEAN
    BY Zenon
  <2>2. tap' = [tap EXCEPT !.timer = FALSE, !.point = (tap.point /\ ~(fingers = {f}))]
    BY DEF FingerUp, ActivityTyped, Taps
  <2> QED BY <2>1, <2>2 DEF ActivityTyped, Taps
<1>10. fingers' \in SUBSET Fingers /\ held' \in Buttons \cup {NoButton}
  BY DEF FingerUp, ActivityTyped
<1>11. UNCHANGED <<user, conn, mode, pointers, mouse, stylus, asMouse, avail>>
  BY DEF FingerUp
<1> QED
  BY <1>6, <1>7, <1>8, <1>9, <1>10, <1>11 DEF ActivityTyped

LEMMA CancelTyped ==
  ASSUME AllTyped, NEW f \in Fingers, Cancel(f) \/ MissedUp(f)
  PROVE ActivityTyped' /\ WireTyped' /\ BoundsKept'
<1> USE DEF AllTyped
<1>1. Touch("update", f) \in Events /\ Touch("end", f) \in Events
  BY MadeEvents DEF Events
<1>2. <<Touch("update", f), Touch("end", f)>> \in Seq(Events) /\ << >> \in Seq(Events)
  BY <1>1, TwoEvents, NoEvents
<1>3. {<<"mouse", held>>} \ {<<"mouse", NoButton>>} \in SUBSET (Devices \X Buttons)
  BY HeldDoubt
<1>4. PICK evs \in Seq(Events), ns \in SUBSET Fingers, nd \in SUBSET (Devices \X Buttons) : Send(evs, ns, nd)
  <2>1. CASE Cancel(f) /\ mode = "touch"
    <3>1. fingers \ {f} \in SUBSET Fingers
      BY DEF ActivityTyped
    <3>2. Send(<<Touch("update", f), Touch("end", f)>>, fingers \ {f}, {})
      BY <2>1 DEF Cancel
    <3> QED BY <1>2, <3>1, <3>2
  <2>2. CASE Cancel(f) /\ mode # "touch"
    <3>1. Send(<< >>, {}, {<<"mouse", held>>} \ {<<"mouse", NoButton>>})
      BY <2>2 DEF Cancel
    <3> QED BY <1>2, <1>3, <3>1
  <2>3. CASE MissedUp(f)
    <3>1. (IF mode = "touch" THEN {f} ELSE {}) \in SUBSET Fingers
      OBVIOUS
    <3> DEFINE nd == IF fingers' = {} THEN {<<"mouse", held>>} \ {<<"mouse", NoButton>>} ELSE {}
    <3>2. nd \in SUBSET (Devices \X Buttons)
      BY <1>3
    <3>3. Send(<< >>, IF mode = "touch" THEN {f} ELSE {}, nd)
      BY <2>3 DEF MissedUp
    <3> HIDE DEF nd
    <3> QED BY <1>2, <3>1, <3>2, <3>3
  <2> QED BY <2>1, <2>2, <2>3
<1>5. WireTyped' /\ UNCHANGED drops
  BY <1>4, SendTyped DEF Send
<1>6. BoundsKept'
  BY <1>5, OneMore DEF Cancel, MissedUp
<1>7. tap' \in Taps
  BY DEF Cancel, MissedUp, ActivityTyped, Taps
<1> QED
  BY <1>5, <1>6, <1>7 DEF Cancel, MissedUp, ActivityTyped

LEMMA TimersTyped ==
  ASSUME AllTyped, TapTimeout \/ \E inside \in BOOLEAN : LongPress(inside)
  PROVE ActivityTyped' /\ WireTyped' /\ BoundsKept'
<1> USE DEF AllTyped
<1>1. CASE TapTimeout
  <2> DEFINE evs == IF mode = "touch" THEN << >> ELSE Click(Left)
  <2>1. Left \in Buttons
    BY DEF Left, Buttons
  <2>2. Mouse(Left, TRUE) \in Events /\ Mouse(Left, FALSE) \in Events
    BY <2>1, MadeEvents DEF Events
  <2>3. evs \in Seq(Events)
    BY <2>2, NoEvents, TwoEvents DEF Click
  <2>4. Send(evs, {}, {})
    BY <1>1 DEF TapTimeout
  <2> HIDE DEF evs
  <2>5. WireTyped'
    BY <2>3, <2>4, SendTyped
  <2>6. UNCHANGED <<ops, drops>>
    BY <1>1, <2>4 DEF TapTimeout, Send
  <2> QED BY <1>1, <2>5, <2>6 DEF TapTimeout, ActivityTyped, BoundsKept
<1>2. ASSUME NEW inside \in BOOLEAN, LongPress(inside) PROVE ActivityTyped' /\ WireTyped' /\ BoundsKept'
  <2> DEFINE press == tap.count \in Buttons /\ mode = "pointer" /\ inside
             evs == IF press THEN <<Mouse(tap.count, TRUE)>> ELSE << >>
             nd == IF press /\ fingers = {} THEN {<<"mouse", tap.count>>} ELSE {}
  <2>1. press => Mouse(tap.count, TRUE) \in Events
    BY MadeEvents DEF Events
  <2>2. evs \in Seq(Events)
    BY <2>1, NoEvents, OneEvent
  <2>3. Send(evs, {}, nd)
    BY <1>2, Zenon DEF LongPress
  <2>8. nd \in SUBSET (Devices \X Buttons)
    BY DEF Devices
  <2>4. held' \in Buttons \cup {NoButton}
    BY <1>2 DEF LongPress, ActivityTyped
  <2> HIDE DEF evs, press, nd
  <2>5. WireTyped'
    BY <2>2, <2>3, <2>8, SendTyped
  <2>6. UNCHANGED <<ops, drops, user, conn, fingers, mode, pointers, click, mouse, stylus, asMouse, avail>>
    BY <1>2, <2>3 DEF LongPress, Send
  <2>7. tap' \in Taps
    BY <1>2 DEF LongPress, ActivityTyped, Taps
  <2> QED BY <2>4, <2>5, <2>6, <2>7 DEF ActivityTyped, BoundsKept
<1> QED BY <1>1, <1>2

LEMMA DevicesTyped ==
  ASSUME AllTyped,
         \/ \E bs \in SUBSET MouseButtons : MouseEvent(bs)
         \/ \E tool \in Tools, bs \in SUBSET MouseButtons, moved \in BOOLEAN : StylusEvent(tool, bs, moved)
         \/ refreshInputDevices
  PROVE ActivityTyped' /\ WireTyped' /\ BoundsKept'
<1> USE DEF AllTyped
<1>1. MouseButtons \subseteq Buttons
  BY DEF MouseButtons, Buttons, Left
<1>2. ASSUME NEW bs \in SUBSET MouseButtons, MouseEvent(bs) PROVE ActivityTyped' /\ WireTyped' /\ BoundsKept'
  <2>1. bs \in SUBSET Buttons /\ mouse \in SUBSET Buttons
    BY <1>1 DEF ActivityTyped
  <2>2. Send(MouseSends(bs), {}, {})
    BY <1>2, Zenon DEF MouseEvent, MouseSends
  <2>3. WireTyped' /\ UNCHANGED drops
    <3> DEFINE evs == MouseSends(bs)
    <3>1. evs \in Seq(Events) /\ Send(evs, {}, {})
      BY <2>1, <2>2, MouseSent
    <3> HIDE DEF evs
    <3>2. WireTyped'
      BY <3>1, SendTyped
    <3> QED BY <3>1, <3>2 DEF Send
  <2>4. BoundsKept'
    BY <1>2, <2>3, OneMore DEF MouseEvent
  <2>5. mouse' = bs /\ UNCHANGED <<user, conn, fingers, mode, held, pointers, tap, click, stylus, asMouse, avail>>
    BY <1>2 DEF MouseEvent
  <2> QED BY <2>1, <2>3, <2>4, <2>5 DEF ActivityTyped
<1>3. ASSUME NEW tool \in Tools, NEW bs \in SUBSET MouseButtons, NEW moved \in BOOLEAN,
             StylusEvent(tool, bs, moved)
      PROVE ActivityTyped' /\ WireTyped' /\ BoundsKept'
  <2> DEFINE dev == IF asMouse THEN "mouse" ELSE tool
             e == [t |-> "stylus", dev |-> dev, buttons |-> bs]
             nd == IF conn THEN {} ELSE Devices \X (bs \cup stylus.buttons)
  <2>1. dev \in Devices /\ bs \in SUBSET Buttons /\ stylus.buttons \in SUBSET Buttons
    BY <1>1 DEF Devices, ActivityTyped, StylusStates
  <2>2. stylus' = [dev |-> dev, buttons |-> bs] /\ Send(<<e>>, {}, nd)
        /\ UNCHANGED <<user, conn, fingers, mode, held, pointers, tap, click, mouse, asMouse, avail>>
    BY <1>3, Zenon DEF StylusEvent
  <2>3. nd \in SUBSET (Devices \X Buttons)
    BY <2>1
  <2> HIDE DEF dev, nd
  <2>4. e \in Events
    BY <2>1, MadeEvents DEF Events
  <2> HIDE DEF e
  <2>5. <<e>> \in Seq(Events)
    BY <2>4, OneEvent
  <2>6. WireTyped' /\ UNCHANGED drops
    BY <2>2, <2>3, <2>5, SendTyped DEF Send
  <2>7. BoundsKept'
    BY <1>3, <2>6, OneMore DEF StylusEvent
  <2> QED BY <2>1, <2>2, <2>6, <2>7 DEF ActivityTyped, StylusStates
<1>4. CASE refreshInputDevices
  <2> DEFINE e == [t |-> "enable", on |-> avail']
  <2>1. avail' \in BOOLEAN
    BY <1>4, Zenon DEF refreshInputDevices
  <2>2. e \in Events
    BY <2>1, MadeEvents DEF Events
  <2>3. Send(<<e>>, {}, {})
    BY <1>4 DEF refreshInputDevices
  <2> HIDE DEF e
  <2>4. WireTyped' /\ UNCHANGED drops
    <3>1. <<e>> \in Seq(Events)
      BY <2>2, OneEvent
    <3>2. WireTyped'
      BY <2>3, <3>1, SendTyped
    <3> QED BY <2>3, <3>2 DEF Send
  <2>5. BoundsKept'
    BY <1>4, <2>4, OneMore DEF refreshInputDevices
  <2>6. UNCHANGED <<user, conn, fingers, mode, held, pointers, tap, click, mouse, stylus, asMouse>>
    BY <1>4 DEF refreshInputDevices
  <2> QED BY <2>1, <2>4, <2>5, <2>6 DEF ActivityTyped
<1> QED BY <1>2, <1>3, <1>4

LEMMA ReloadTyped ==
  ASSUME AllTyped, NEW m \in Modes, NEW am \in BOOLEAN, NEW scan \in BOOLEAN, reloadPreferences(m, am, scan)
  PROVE AllTyped'
<1> USE DEF AllTyped
<1> DEFINE e == [t |-> "enable", on |-> avail]
           nd == {<<"mouse", held>>} \ {<<"mouse", NoButton>>}
           ns == IF m # mode THEN fingers ELSE {}
<1>1. e \in Events
  BY MadeEvents DEF Events, ActivityTyped
<1>2. nd \in SUBSET (Devices \X Buttons)
  BY HeldDoubt
<1>3. ns \in SUBSET Fingers
  BY DEF ActivityTyped
<1>4. Send(<<e>>, ns, nd)
  BY DEF reloadPreferences
<1> HIDE DEF e, nd, ns
<1>5. WireTyped' /\ UNCHANGED drops
  BY <1>1, <1>2, <1>3, <1>4, OneEvent, SendTyped DEF Send
<1>6. BoundsKept'
  BY <1>5, OneMore DEF reloadPreferences
<1>7. /\ mode' = m /\ held' = NoButton /\ asMouse' = am /\ keyboard' = [keyboard EXCEPT !.scan = scan]
      /\ UNCHANGED <<user, conn, fingers, pointers, tap, click, mouse, stylus, avail, layout, codes,
                     how, upset, server>>
  BY DEF reloadPreferences
<1>8. keyboard' \in Keyboards
  BY <1>7 DEF TypingTyped, Keyboards
<1>9. ActivityTyped'
  BY <1>7 DEF ActivityTyped
<1>10. TypingTyped'
  BY <1>7, <1>8 DEF TypingTyped
<1>11. ServerTyped'
  BY <1>7 DEF ServerTyped, server
<1> QED BY <1>5, <1>6, <1>9, <1>10, <1>11

LEMMA SendKeysTyped ==
  ASSUME AllTyped, NEW evs \in Seq(KeyEvents), NEW nu \in SUBSET Codes, SendKeys(evs, nu)
  PROVE WireTyped' /\ UNCHANGED drops /\ upset' \in SUBSET Codes
<1> USE DEF AllTyped
<1>1. evs \in Seq(Events)
  BY SeqMonotonic DEF Events
<1>2. Send(evs, {}, {})
  BY DEF SendKeys
<1>3. {e.c : e \in ToSet(evs)} \subseteq Codes
  <2>1. \A e \in ToSet(evs) : e \in KeyEvents
    BY LenProperties DEF ToSet
  <2> QED BY <2>1 DEF KeyEvents
<1> QED
  BY <1>1, <1>2, <1>3, SendTyped DEF Send, SendKeys, TypingTyped

LEMMA CodesTyped ==
  ASSUME TypingTyped, NEW k \in Keys
  PROVE /\ CodeOf(k) \in {k, layout[k]} /\ {k, layout[k]} \subseteq Keys /\ Keys \subseteq Codes
        /\ Key(CodeOf(k), TRUE) \in KeyEvents /\ Key(CodeOf(k), FALSE) \in KeyEvents
<1>1. CodeOf(k) \in {k, layout[k]} /\ {k, layout[k]} \subseteq Keys /\ Keys \subseteq Codes
  BY DEF TypingTyped, CodeOf, Codes
<1>2. CodeOf(k) \in Codes
  BY <1>1
<1> QED BY <1>1, <1>2, MadeEvents

LEMMA TextTyped == TextEvent \in Seq(KeyEvents)
<1>1. Key(AltGr, FALSE) \in KeyEvents /\ Key(AltGr, TRUE) \in KeyEvents
  BY MadeEvents DEF Codes, Mods
<1> QED
  BY <1>1, TwoEvents, EmptySeq DEF TextEvent

LEMMA KeysTyped ==
  ASSUME AllTyped,
         \/ \E k \in Keys : KeyDown(k) \/ KeyRepeat(k) \/ \E canceled \in BOOLEAN : KeyUp(k, canceled)
         \/ \E c \in Mods : Modifier(c)
  PROVE AllTyped'
<1> USE DEF AllTyped
<1>1. ASSUME NEW k \in Keys, KeyDown(k) \/ KeyRepeat(k) PROVE AllTyped'
  <2> DEFINE evs == IF Typed THEN TextEvent ELSE <<Key(CodeOf(k), TRUE)>>
  <2>1. evs \in Seq(KeyEvents)
    BY TextTyped, CodesTyped, OneEvent
  <2>2. PICK nu \in SUBSET Codes : KeyPress(k, nu)
    <3>1. {k, layout[k]} \subseteq Codes
      BY CodesTyped
    <3> QED BY <1>1, <3>1 DEF KeyDown, KeyRepeat
  <2>3. SendKeys(evs, nu) /\ UNCHANGED <<user, activity, layout, codes, server>>
    BY <2>2, Zenon DEF KeyPress
  <2> HIDE DEF evs
  <2>4. WireTyped' /\ UNCHANGED drops /\ upset' \in SUBSET Codes
    BY <2>1, <2>3, SendKeysTyped
  <2>5. BoundsKept'
    BY <1>1, <2>4, OneMore DEF KeyDown, KeyRepeat
  <2>6. keyboard' \in Keyboards
    BY <2>2 DEF KeyPress, TypingTyped, Keyboards
  <2>7. how' \in [Keys -> Keys \cup {Up, Text}]
    <3>1. CodeOf(k) \in Keys
      BY CodesTyped
    <3> QED BY <1>1, <3>1 DEF KeyDown, KeyRepeat, TypingTyped
  <2>8. ActivityTyped' /\ ServerTyped' /\ UNCHANGED <<layout, codes>>
    BY <2>3 DEF ActivityTyped, ServerTyped, activity, server
  <2> QED BY <2>4, <2>5, <2>6, <2>7, <2>8 DEF TypingTyped
<1>2. ASSUME NEW k \in Keys, NEW canceled \in BOOLEAN, KeyUp(k, canceled) PROVE AllTyped'
  <2> DEFINE text == ~keyboard.scan /\ k \in keyboard.text
             evs == IF canceled \/ text THEN << >> ELSE <<Key(CodeOf(k), FALSE)>>
             nu == IF ~canceled /\ AsPressed(k) THEN {} ELSE {k, layout[k]}
  <2>1. evs \in Seq(KeyEvents)
    BY CodesTyped, OneEvent, EmptySeq
  <2>2. nu \in SUBSET Codes
    BY CodesTyped
  <2>3. SendKeys(evs, nu) /\ UNCHANGED <<user, activity, layout, codes, server>> /\ how' = [how EXCEPT ![k] = Up]
    BY <1>2, Zenon DEF KeyUp
  <2> HIDE DEF evs, nu
  <2>4. WireTyped' /\ UNCHANGED drops /\ upset' \in SUBSET Codes
    BY <2>1, <2>2, <2>3, SendKeysTyped
  <2>5. BoundsKept'
    BY <1>2, <2>4, OneMore DEF KeyUp
  <2>6. keyboard' \in Keyboards
    BY <1>2 DEF KeyUp, TypingTyped, Keyboards
  <2>7. how' \in [Keys -> Keys \cup {Up, Text}]
    BY <2>3 DEF TypingTyped
  <2>8. ActivityTyped' /\ ServerTyped' /\ UNCHANGED <<layout, codes>>
    BY <2>3 DEF ActivityTyped, ServerTyped, activity, server
  <2> QED BY <2>4, <2>5, <2>6, <2>7, <2>8 DEF TypingTyped
<1>3. ASSUME NEW c \in Mods, Modifier(c) PROVE AllTyped'
  <2> DEFINE down == c \notin keyboard.mods
             evs == <<Key(c, down)>>
  <2>1. Key(c, down) \in KeyEvents
    <3>1. c \in Codes
      BY DEF Codes
    <3> QED BY <3>1 DEF Key, KeyEvents
  <2>2. evs \in Seq(KeyEvents)
    <3> DEFINE e == Key(c, down)
    <3>1. e \in KeyEvents
      BY <2>1
    <3> HIDE DEF e
    <3>2. <<e>> \in Seq(KeyEvents)
      BY <3>1, OneEvent
    <3> QED BY <3>2 DEF e
  <2>3. SendKeys(evs, {}) /\ UNCHANGED <<user, activity, layout, codes, how, server>>
    BY <1>3, Zenon DEF Modifier
  <2> HIDE DEF evs
  <2>4. WireTyped' /\ UNCHANGED drops /\ upset' \in SUBSET Codes
    BY <2>2, <2>3, SendKeysTyped
  <2>5. BoundsKept'
    BY <1>3, <2>4, OneMore DEF Modifier
  <2>6. keyboard' \in Keyboards
    BY <1>3 DEF Modifier, TypingTyped, Keyboards
  <2>7. ActivityTyped' /\ ServerTyped' /\ UNCHANGED <<layout, codes, how>>
    BY <2>3 DEF ActivityTyped, ServerTyped, activity, server
  <2> QED BY <2>4, <2>5, <2>6, <2>7 DEF TypingTyped
<1> QED BY <1>1, <1>2, <1>3

LEMMA ReadsTyped ==
  ASSUME AllTyped, NEW t, Reading(t)
  PROVE wire # << >> /\ Head(wire) \in Events /\ Head(wire).t = t /\ wire' = Tail(wire) /\ wire' \in Seq(Events)
<1>1. wire \in Seq(Events) /\ wire # << >> /\ Head(wire).t = t /\ wire' = Tail(wire)
  BY DEF AllTyped, WireTyped, Reading
<1>2. Head(wire) \in Events /\ Tail(wire) \in Seq(Events)
  BY <1>1, HeadTailProperties
<1> QED BY <1>1, <1>2

LEMMA ServerStepsTyped ==
  ASSUME AllTyped,
         ReadTouch \/ handleTouchEvent \/ ReadMouse \/ ReadStylus \/ ReadStylusEnable \/ ReadKey
  PROVE AllTyped'
<1> USE DEF AllTyped
<1>1. CASE ReadTouch
  <2>1. Head(wire) \in TouchEvents /\ wire' \in Seq(Events)
    BY <1>1, ReadsTyped, EventKinds DEF ReadTouch
  <2>2. work' \in Seq(TouchEvents)
    BY <1>1, <2>1, AppendProperties DEF ReadTouch, ServerTyped
  <2>3. UNCHANGED <<user, activity, typing, touches, pressed, prev, present, history>>
    BY <1>1 DEF ReadTouch
  <2> QED
    BY <2>1, <2>2, <2>3 DEF ActivityTyped, TypingTyped, ServerTyped, WireTyped, BoundsKept, activity,
                            typing, history
<1>2. CASE handleTouchEvent
  <2>1. work' \in Seq(TouchEvents) /\ Head(work) \in TouchEvents
    BY <1>2, HeadTailProperties DEF handleTouchEvent, ServerTyped
  <2>2. touches' \in SUBSET Fingers
    BY <1>2, <2>1 DEF handleTouchEvent, ServerTyped, TouchEvents
  <2>3. UNCHANGED <<user, activity, typing, wire, pressed, prev, present, history>>
    BY <1>2 DEF handleTouchEvent
  <2> QED
    BY <2>1, <2>2, <2>3 DEF ActivityTyped, TypingTyped, ServerTyped, WireTyped, BoundsKept, activity,
                            typing, history
<1>3. CASE ReadMouse
  <2>1. Head(wire) \in MouseEvents /\ wire' \in Seq(Events)
    BY <1>3, ReadsTyped, EventKinds DEF ReadMouse
  <2>2. Head(wire).b \in Buttons
    BY <2>1 DEF MouseEvents
  <2>3. "mouse" \in Devices /\ "mouse" \notin Tools
    BY DEF Devices, Tools
  <2>4. pressed' \in [Devices -> SUBSET Buttons] /\ \A d \in Tools : pressed'[d] = pressed[d]
    BY <1>3, <2>2, <2>3 DEF ReadMouse, ServerTyped, Devices
  <2>5. UNCHANGED <<user, activity, typing, work, touches, prev, present, history>>
    BY <1>3 DEF ReadMouse
  <2> QED
    BY <2>1, <2>4, <2>5 DEF ActivityTyped, TypingTyped, ServerTyped, WireTyped, BoundsKept, activity,
                            typing, history
<1>4. CASE ReadStylus
  <2> DEFINE e == Head(wire)
             switched == IF e.dev = prev.dev THEN {}
                         ELSE ({prev.dev} \X prev.buttons) \cup ({e.dev} \X (e.buttons \cap prev.buttons))
             cured == IF e.dev = "mouse" THEN {} ELSE {e.dev} \X (prev.buttons \ e.buttons)
  <2>1. e \in StylusEvents /\ wire' \in Seq(Events)
    BY <1>4, ReadsTyped, EventKinds DEF ReadStylus
  <2>2. e.dev \in Devices /\ e.buttons \in SUBSET Buttons /\ prev.dev \in Devices /\ prev.buttons \in SUBSET Buttons
    BY <2>1 DEF StylusEvents, ServerTyped, StylusStates
  <2>3. switched \in SUBSET (Devices \X Buttons) /\ {e.dev} \X e.buttons \in SUBSET (Devices \X Buttons)
    BY <2>2
  <2>4. /\ IF Exists(e.dev)
           THEN /\ pressed' = [pressed EXCEPT ![e.dev] = Compared(e.dev, e.buttons)]
                /\ prev' = [dev |-> e.dev, buttons |-> e.buttons]
                /\ doubt' = (doubt \ cured) \cup switched
           ELSE /\ doubt' = doubt \cup switched \cup ({e.dev} \X e.buttons)
                /\ UNCHANGED <<pressed, prev>>
        /\ UNCHANGED <<user, activity, typing, work, touches, present, stray, ops, drops>>
    BY <1>4 DEF ReadStylus
  <2> HIDE DEF e, switched, cured
  <2>5. doubt' \in SUBSET (Devices \X Buttons)
    BY <2>3, <2>4 DEF WireTyped
  <2>6. prev' \in StylusStates
    BY <2>2, <2>4 DEF ServerTyped, StylusStates
  <2>7. Compared(e.dev, e.buttons) \in SUBSET Buttons
    BY <2>2 DEF Compared, ServerTyped
  <2>8. pressed' \in [Devices -> SUBSET Buttons]
    BY <2>2, <2>4, <2>7 DEF ServerTyped
  <2>9. ~present => \A d \in Tools : pressed'[d] = {}
    BY <2>2, <2>4 DEF ServerTyped, Exists, Tools, Devices
  <2> QED
    BY <2>1, <2>4, <2>5, <2>6, <2>8, <2>9 DEF ActivityTyped, TypingTyped, ServerTyped, WireTyped,
                                              BoundsKept, activity, typing
<1>5. CASE ReadStylusEnable
  <2>1. Head(wire) \in EnableEvents /\ wire' \in Seq(Events)
    BY <1>5, ReadsTyped, EventKinds DEF ReadStylusEnable
  <2>2. present' \in BOOLEAN /\ present' = Head(wire).on
    BY <1>5, <2>1 DEF ReadStylusEnable, EnableEvents
  <2>3. pressed' \in [Devices -> SUBSET Buttons]
    BY <1>5 DEF ReadStylusEnable, ServerTyped
  <2>4. ~present' => \A d \in Tools : pressed'[d] = {}
    BY <1>5, <2>2 DEF ReadStylusEnable, Devices
  <2>5. doubt' \in SUBSET (Devices \X Buttons)
    BY <1>5 DEF ReadStylusEnable, WireTyped, ServerTyped, StylusStates, Devices
  <2>6. UNCHANGED <<user, activity, typing, work, touches, prev, stray, ops, drops>>
    BY <1>5 DEF ReadStylusEnable
  <2> QED
    BY <2>1, <2>2, <2>3, <2>4, <2>5, <2>6 DEF ActivityTyped, TypingTyped, ServerTyped, WireTyped,
                                              BoundsKept, activity, typing
<1>6. CASE ReadKey
  <2>1. Head(wire) \in KeyEvents /\ wire' \in Seq(Events)
    BY <1>6, ReadsTyped, EventKinds DEF ReadKey
  <2>2. codes' \in SUBSET Codes
    BY <1>6, <2>1 DEF ReadKey, TypingTyped, KeyEvents
  <2>3. UNCHANGED <<user, activity, keyboard, layout, how, upset, server, history>>
    BY <1>6 DEF ReadKey
  <2> QED
    BY <2>1, <2>2, <2>3 DEF ActivityTyped, TypingTyped, ServerTyped, WireTyped, BoundsKept, activity,
                            server, history
<1> QED BY <1>1, <1>2, <1>3, <1>4, <1>5, <1>6

LEMMA ConnectionTyped == ASSUME AllTyped, Hangup \/ Reconnect PROVE AllTyped'
<1> USE DEF AllTyped
<1>1. CASE Hangup
  <2>1. BoundsKept'
    <3>1. MaxDrops \in Nat /\ drops \in 0..MaxDrops /\ drops < MaxDrops /\ drops' = drops + 1 /\ ops' = ops
      BY <1>1, BoundsAssumption DEF Hangup, BoundsKept
    <3> QED BY <3>1 DEF BoundsKept
  <2>2. WireTyped'
    BY <1>1, NoEvents DEF Hangup, WireTyped
  <2>3. UNCHANGED <<user, fingers, mode, held, pointers, tap, click, mouse, stylus, asMouse, avail,
                    keyboard, layout, codes, how, server>> /\ conn' = FALSE /\ upset' = Codes
    BY <1>1 DEF Hangup
  <2> QED BY <2>1, <2>2, <2>3 DEF ActivityTyped, TypingTyped, ServerTyped, server
<1>2. CASE Reconnect
  <2> DEFINE e == [t |-> "enable", on |-> avail]
  <2>1. e \in Events
    BY MadeEvents DEF Events, ActivityTyped
  <2>2. wire' = <<e>>
    BY <1>2 DEF Reconnect
  <2> HIDE DEF e
  <2>3. wire' \in Seq(Events)
    BY <2>1, <2>2, OneEvent
  <2>4. UNCHANGED <<user, fingers, mode, held, pointers, tap, click, mouse, stylus, asMouse, avail,
                    typing, server, history>> /\ conn' = TRUE
    BY <1>2 DEF Reconnect
  <2> QED BY <2>3, <2>4 DEF ActivityTyped, TypingTyped, ServerTyped, WireTyped, BoundsKept, typing,
                            server, history
<1> QED BY <1>1, <1>2

\* What the fingers, the mouse and the stylus do.
PointerStep ==
  \/ \E f \in Fingers : \/ \E b \in BOOLEAN : FingerDown(f, b) \/ FingerUp(f, b)
                        \/ Cancel(f)
                        \/ MissedUp(f)
  \/ \E far \in BOOLEAN : FingerMove(far)
  \/ \E S \in SUBSET Fingers \ {{}} : Hover(S)
  \/ \E inside \in BOOLEAN : LongPress(inside)
  \/ TapTimeout
  \/ \E bs \in SUBSET MouseButtons : MouseEvent(bs)
  \/ \E tool \in Tools, bs \in SUBSET MouseButtons, moved \in BOOLEAN : StylusEvent(tool, bs, moved)
  \/ refreshInputDevices

LEMMA PointerFrame == ASSUME PointerStep PROVE UNCHANGED <<typing, server, user, conn, drops>>
<1>1. ASSUME NEW f \in Fingers, NEW b \in BOOLEAN, FingerDown(f, b) \/ FingerUp(f, b)
      PROVE UNCHANGED <<typing, server, user, conn, drops>>
  BY <1>1 DEF FingerDown, FingerUp, Send
<1>2. ASSUME NEW f \in Fingers, Cancel(f) \/ MissedUp(f)
      PROVE UNCHANGED <<typing, server, user, conn, drops>>
  BY <1>2 DEF Cancel, MissedUp, Send
<1>3. ASSUME NEW b \in BOOLEAN, FingerMove(b) \/ LongPress(b)
      PROVE UNCHANGED <<typing, server, user, conn, drops>>
  BY <1>3 DEF FingerMove, LongPress, Send
<1>4. ASSUME NEW bs \in SUBSET MouseButtons, MouseEvent(bs) \/ \E tool \in Tools, moved \in BOOLEAN : StylusEvent(tool, bs, moved)
      PROVE UNCHANGED <<typing, server, user, conn, drops>>
  BY <1>4 DEF MouseEvent, StylusEvent, Send
<1>5. CASE TapTimeout \/ refreshInputDevices \/ \E S \in SUBSET Fingers \ {{}} : Hover(S)
  BY <1>5 DEF TapTimeout, refreshInputDevices, Hover, Send
<1> QED BY <1>1, <1>2, <1>3, <1>4, <1>5 DEF PointerStep

LEMMA PointerTyped == ASSUME AllTyped, PointerStep PROVE AllTyped'
<1>1. ActivityTyped' /\ WireTyped' /\ BoundsKept'
  BY DownTyped, UpTyped, MoveTyped, HoverTyped, CancelTyped, TimersTyped, DevicesTyped DEF PointerStep
<1>2. TypingTyped' /\ ServerTyped'
  BY PointerFrame DEF AllTyped, TypingTyped, ServerTyped, typing, server
<1> QED BY <1>1, <1>2 DEF AllTyped

KeyStep ==
  \/ \E k \in Keys : KeyDown(k) \/ KeyRepeat(k) \/ \E canceled \in BOOLEAN : KeyUp(k, canceled)
  \/ \E c \in Mods : Modifier(c)

ServerStep == ReadTouch \/ handleTouchEvent \/ ReadMouse \/ ReadStylus \/ ReadStylusEnable \/ ReadKey

\* The steps, by what they have in common
LEMMA Steps ==
  ASSUME [Next]_vars
  PROVE \/ PointerStep
        \/ \E m \in Modes, am, scan \in BOOLEAN : reloadPreferences(m, am, scan)
        \/ KeyStep
        \/ ServerStep
        \/ Hangup \/ Reconnect
        \/ UNCHANGED vars
  BY DEF Next, PointerStep, KeyStep, ServerStep

LEMMA TypedInit == Init => AllTyped
<1> SUFFICES ASSUME Init PROVE AllTyped
  OBVIOUS
<1>1. ActivityTyped
  <2>1. Cardinality(Fingers) \in Nat
    BY FingersAssumption, FS_CardinalityType
  <2>2. tap \in Taps
    BY <2>1 DEF Init, Taps
  <2>3. stylus \in StylusStates
    BY DEF Init, StylusStates, Devices, Tools
  <2>4. mode \in Modes
    BY DEF Init, Modes
  <2> QED BY <2>2, <2>3, <2>4 DEF Init, ActivityTyped
<1>2. TypingTyped
  BY DEF Init, TypingTyped, Keyboards
<1>3. ServerTyped /\ WireTyped
  BY EmptySeq DEF Init, ServerTyped, WireTyped, StylusStates, Devices, Tools
<1>4. BoundsKept
  BY BoundsAssumption DEF Init, BoundsKept
<1> QED BY <1>1, <1>2, <1>3, <1>4 DEF AllTyped

LEMMA TypedNext == AllTyped /\ [Next]_vars => AllTyped'
<1> SUFFICES ASSUME AllTyped, [Next]_vars PROVE AllTyped'
  OBVIOUS
<1>1. CASE UNCHANGED vars
  BY <1>1 DEF AllTyped, ActivityTyped, TypingTyped, ServerTyped, WireTyped, BoundsKept, vars, activity,
              typing, server, history
<1>2. CASE KeyStep
  BY <1>2, KeysTyped DEF KeyStep
<1>3. CASE ServerStep
  BY <1>3, ServerStepsTyped DEF ServerStep
<1> QED BY <1>1, <1>2, <1>3, Steps, PointerTyped, ReloadTyped, ConnectionTyped

(***************************************************************************)
(* Every variable keeps its type, for any set of fingers and of keys: the  *)
(* server's work queue holds touches only, buttons_prev and the buttons of *)
(* the devices stay within the buttons there are, and a pen or an eraser   *)
(* that lorieSetStylusEnabled has removed has no button down.              *)
(***************************************************************************)
THEOREM TypeCorrect == Spec => []TypeOK
  BY TypedInit, TypedNext, TypedIsTypeOK, PTL DEF Spec
-----------------------------------------------------------------------------
(* Keys *)

\* Events that concern something else do not matter, at the end ...
LEMMA StaysBeside ==
  ASSUME NEW E, NEW q \in Seq(E), NEW s \in Seq(E), NEW P, NEW R, NEW x, NEW S,
         \A i \in DOMAIN s : s[i] \notin P /\ s[i] \notin R
  PROVE Stays(q \o s, P, R, x, S) <=> Stays(q, P, R, x, S)
<1>1. ~Stays(s, P, R, x, {})
  BY DEF Stays
<1> QED BY <1>1, StaysAdded

\* ... and at the front.
LEMMA StaysPassed ==
  ASSUME NEW E, NEW q \in Seq(E), q # << >>, NEW P, NEW R, P \cap R = {}, NEW x, NEW S,
         Head(q) \notin P, Head(q) \notin R
  PROVE Stays(Tail(q), P, R, x, S) <=> Stays(q, P, R, x, S)
  BY StaysTaken

PlainEvents == TouchEvents \cup MouseEvents \cup EnableEvents
PointerEvents == PlainEvents \cup StylusEvents

\* What is added to the socket
Adds(evs) == wire' = wire \o evs

\* The steps of the fingers, the mouse and the preferences
PlainStep ==
  \/ \E f \in Fingers : \/ \E b \in BOOLEAN : FingerDown(f, b) \/ FingerUp(f, b)
                        \/ Cancel(f)
                        \/ MissedUp(f)
  \/ \E far \in BOOLEAN : FingerMove(far)
  \/ \E S \in SUBSET Fingers \ {{}} : Hover(S)
  \/ \E inside \in BOOLEAN : LongPress(inside)
  \/ TapTimeout
  \/ \E bs \in SUBSET MouseButtons : MouseEvent(bs)
  \/ refreshInputDevices
  \/ \E m \in Modes, am, scan \in BOOLEAN : reloadPreferences(m, am, scan)

\* They send neither keys nor the state of a stylus.
LEMMA PlainSends ==
  ASSUME AllTyped, PlainStep
  PROVE \E evs \in Seq(PlainEvents) : \E ns, nd : Send(evs, ns, nd)
<1> USE DEF AllTyped
<1>1. << >> \in Seq(PlainEvents)
  BY EmptySeq
<1>2. ASSUME NEW e \in PlainEvents, NEW ns, NEW nd, Send(<<e>>, ns, nd)
      PROVE \E evs \in Seq(PlainEvents) : \E s, d : Send(evs, s, d)
  BY <1>2, OneEvent
<1>3. ASSUME NEW e \in PlainEvents, NEW d \in PlainEvents, NEW ns, NEW nd, Send(<<e, d>>, ns, nd)
      PROVE \E evs \in Seq(PlainEvents) : \E s, x : Send(evs, s, x)
  BY <1>3, TwoEvents
<1>4. ASSUME NEW ns, NEW nd, Send(<< >>, ns, nd) PROVE \E evs \in Seq(PlainEvents) : \E s, d : Send(evs, s, d)
  BY <1>1, <1>4
<1>5. ASSUME NEW evs \in Seq(Events), \A i \in DOMAIN evs : evs[i] \in PlainEvents, NEW ns, NEW nd, Send(evs, ns, nd)
      PROVE \E es \in Seq(PlainEvents) : \E s, d : Send(es, s, d)
  <2>1. evs \in Seq(PlainEvents)
    BY <1>5, LenProperties
  <2> QED BY <1>5, <2>1
<1>6. Left \in Buttons
  BY DEF Left, Buttons
<1>7. ASSUME NEW f \in Fingers, NEW kind \in {"begin", "update", "end"} PROVE Touch(kind, f) \in PlainEvents
  BY MadeEvents DEF PlainEvents
<1>8. ASSUME NEW b \in Buttons, NEW down \in BOOLEAN PROVE Mouse(b, down) \in PlainEvents
  BY MadeEvents DEF PlainEvents
<1>19. ASSUME NEW evs \in Seq(TouchEvents), NEW ns, NEW nd, Send(evs, ns, nd)
       PROVE \E es \in Seq(PlainEvents) : \E s, d : Send(es, s, d)
  <2>1. evs \in Seq(PlainEvents)
    <3>1. \A i \in DOMAIN evs : evs[i] \in PlainEvents
      BY LenProperties DEF PlainEvents
    <3> QED BY <3>1, LenProperties
  <2> QED BY <1>19, <2>1
<1>9. ASSUME NEW f \in Fingers, NEW double \in BOOLEAN, FingerDown(f, double)
      PROVE \E evs \in Seq(PlainEvents) : \E s, d : Send(evs, s, d)
  <2>1. Send(<<Touch("begin", f)>>, {}, {}) \/ Send(<<Mouse(Left, TRUE)>>, {}, {}) \/ Send(<< >>, {}, {})
    BY <1>9 DEF FingerDown
  <2>2. Touch("begin", f) \in PlainEvents /\ Mouse(Left, TRUE) \in PlainEvents
    BY <1>6, <1>7, <1>8
  <2> QED BY <1>2, <1>4, <2>1, <2>2
<1>10. ASSUME NEW f \in Fingers, NEW inside \in BOOLEAN, FingerUp(f, inside)
       PROVE \E evs \in Seq(PlainEvents) : \E s, d : Send(evs, s, d)
  <2> DEFINE last == fingers = {f}
             tapped == last /\ mode # "touch" /\ TapClicks(inside)
  <2>1. tapped => tap.count \in Buttons
    BY DEF TapClicks
  <2>2. last \in BOOLEAN /\ tapped \in BOOLEAN
    BY Zenon DEF TapClicks
  <2>3. Send(IF mode = "touch" THEN <<Touch("update", f), Touch("end", f)>> ELSE UpSends(last, tapped), {}, {})
    BY <1>10, Zenon DEF FingerUp, UpSends
  <2> HIDE DEF last, tapped
  <2>4. CASE mode = "touch"
    <3>1. Send(<<Touch("update", f), Touch("end", f)>>, {}, {})
      BY <2>3, <2>4
    <3> QED BY <1>3, <1>7, <3>1
  <2>5. CASE mode # "touch"
    <3>1. Send(UpSends(last, tapped), {}, {})
      BY <2>3, <2>5
    <3>2. UpSends(last, tapped) \in Seq(Events) /\ \A i \in DOMAIN UpSends(last, tapped) : UpSends(last, tapped)[i] \in PlainEvents
      BY <2>1, <2>2, UpSent DEF PlainEvents
    <3> QED BY <1>5, <3>1, <3>2
  <2> QED BY <2>4, <2>5
<1>11. ASSUME NEW f \in Fingers, Cancel(f) \/ MissedUp(f)
       PROVE \E evs \in Seq(PlainEvents) : \E s, d : Send(evs, s, d)
  <2>1. \/ Send(<<Touch("update", f), Touch("end", f)>>, fingers \ {f}, {})
        \/ Send(<< >>, {}, {<<"mouse", held>>} \ {<<"mouse", NoButton>>})
        \/ \E ns, nd : Send(<< >>, ns, nd)
    BY <1>11 DEF Cancel, MissedUp
  <2> QED BY <1>3, <1>4, <1>7, <2>1
<1>12. ASSUME NEW far \in BOOLEAN, FingerMove(far) PROVE \E evs \in Seq(PlainEvents) : \E s, d : Send(evs, s, d)
  <2>1. CASE mode # "touch"
    <3>1. UNCHANGED <<wire, stray, doubt, drops>>
      BY <1>12, <2>1 DEF FingerMove
    <3>2. Send(<< >>, {}, {})
      BY <3>1, SendNothing
    <3> QED BY <1>4, <3>2
  <2>2. CASE mode = "touch"
    <3> DEFINE evs == Sweep(fingers, Fingers \ pointers')
    <3>1. Send(evs, {}, {})
      BY <1>12, <2>2 DEF FingerMove, Sweep
    <3>2. evs \in Seq(TouchEvents)
      BY SweepSends DEF ActivityTyped
    <3> HIDE DEF evs
    <3> QED BY <1>19, <3>1, <3>2
  <2> QED BY <2>1, <2>2
<1>20. ASSUME NEW S \in SUBSET Fingers, Hover(S) PROVE \E evs \in Seq(PlainEvents) : \E s, d : Send(evs, s, d)
  <2> DEFINE evs == Sweep(S, Fingers \ pointers')
  <2>1. Send(evs, S, {}) /\ evs \in Seq(TouchEvents)
    BY <1>20, SweepSends DEF Hover, Sweep
  <2> HIDE DEF evs
  <2> QED BY <1>19, <2>1
<1>13. ASSUME NEW inside \in BOOLEAN, LongPress(inside) PROVE \E evs \in Seq(PlainEvents) : \E s, d : Send(evs, s, d)
  <2>1. \E nd : Send(<< >>, {}, nd) \/ (tap.count \in Buttons /\ Send(<<Mouse(tap.count, TRUE)>>, {}, nd))
    BY <1>13 DEF LongPress
  <2> QED BY <1>2, <1>4, <1>8, <2>1
<1>14. CASE TapTimeout
  <2>1. Send(<< >>, {}, {}) \/ Send(<<Mouse(Left, TRUE), Mouse(Left, FALSE)>>, {}, {})
    BY <1>14 DEF TapTimeout, Click
  <2> QED BY <1>3, <1>4, <1>6, <1>8, <2>1
<1>15. ASSUME NEW bs \in SUBSET MouseButtons, MouseEvent(bs) PROVE \E evs \in Seq(PlainEvents) : \E s, d : Send(evs, s, d)
  <2>1. bs \in SUBSET Buttons /\ mouse \in SUBSET Buttons
    BY <1>6 DEF ActivityTyped, MouseButtons
  <2>2. Send(MouseSends(bs), {}, {})
    BY <1>15, Zenon DEF MouseEvent, MouseSends
  <2>3. ASSUME NEW b \in Buttons PROVE Mouse(b, b \in bs) \in PlainEvents
    <3>1. (b \in bs) \in BOOLEAN
      BY SMT
    <3> QED BY <1>8, <3>1
  <2>4. MouseSends(bs) \in Seq(Events) /\ \A i \in DOMAIN MouseSends(bs) : MouseSends(bs)[i] \in PlainEvents
    BY <2>1, <2>3, MouseSent
  <2> QED BY <1>5, <2>2, <2>4
<1>16. ASSUME NEW on \in BOOLEAN, NEW ns, NEW nd, Send(<<[t |-> "enable", on |-> on]>>, ns, nd)
       PROVE \E evs \in Seq(PlainEvents) : \E s, d : Send(evs, s, d)
  <2> DEFINE e == [t |-> "enable", on |-> on]
  <2>1. e \in PlainEvents /\ Send(<<e>>, ns, nd)
    BY <1>16, MadeEvents DEF PlainEvents
  <2> HIDE DEF e
  <2> QED BY <1>2, <2>1
<1>17. CASE refreshInputDevices
  <2>1. avail' \in BOOLEAN
    BY <1>17, Zenon DEF refreshInputDevices
  <2>2. Send(<<[t |-> "enable", on |-> avail']>>, {}, {})
    BY <1>17 DEF refreshInputDevices
  <2> QED BY <1>16, <2>1, <2>2
<1>18. ASSUME NEW m \in Modes, NEW am \in BOOLEAN, NEW scan \in BOOLEAN, reloadPreferences(m, am, scan)
       PROVE \E evs \in Seq(PlainEvents) : \E s, d : Send(evs, s, d)
  <2>1. avail \in BOOLEAN
    BY DEF ActivityTyped
  <2>2. Send(<<[t |-> "enable", on |-> avail]>>, IF m # mode THEN fingers ELSE {}, {<<"mouse", held>>} \ {<<"mouse", NoButton>>})
    BY <1>18 DEF reloadPreferences
  <2> QED BY <1>16, <2>1, <2>2
<1> QED
  BY <1>9, <1>10, <1>11, <1>12, <1>13, <1>14, <1>15, <1>17, <1>18, <1>20 DEF PlainStep

LEMMA StylusSends ==
  ASSUME AllTyped, NEW tool \in Tools, NEW bs \in SUBSET MouseButtons, NEW moved \in BOOLEAN,
         StylusEvent(tool, bs, moved)
  PROVE \E e \in StylusEvents :
          /\ stylus' = [dev |-> e.dev, buttons |-> e.buttons]
          /\ Send(<<e>>, {}, IF conn THEN {} ELSE Devices \X (bs \cup stylus.buttons))
          /\ UNCHANGED <<user, conn, fingers, mode, held, pointers, tap, click, mouse, typing, server>>
<1> DEFINE dev == IF asMouse THEN "mouse" ELSE tool
           e == [t |-> "stylus", dev |-> dev, buttons |-> bs]
<1>1. dev \in Devices /\ bs \in SUBSET Buttons
  BY DEF Devices, MouseButtons, Left, Buttons
<1>2. e \in StylusEvents
  BY <1>1, MadeEvents
<1>3. stylus' = [dev |-> dev, buttons |-> bs] /\ Send(<<e>>, {}, IF conn THEN {} ELSE Devices \X (bs \cup stylus.buttons))
  BY Zenon DEF StylusEvent
<1>4. UNCHANGED <<user, conn, fingers, mode, held, pointers, tap, click, mouse, typing, server>>
  BY DEF StylusEvent
<1>5. e.dev = dev /\ e.buttons = bs
  OBVIOUS
<1> HIDE DEF e, dev
<1> QED BY <1>2, <1>3, <1>4, <1>5

\* The pointers send no keys.
LEMMA PointerSends ==
  ASSUME AllTyped, PointerStep \/ \E m \in Modes, am, scan \in BOOLEAN : reloadPreferences(m, am, scan)
  PROVE UNCHANGED wire \/ \E evs \in Seq(PointerEvents) : Adds(evs)
<1>1. CASE PlainStep
  <2>1. PICK evs \in Seq(PlainEvents) : \E ns, nd : Send(evs, ns, nd)
    BY <1>1, PlainSends
  <2>2. evs \in Seq(PointerEvents)
    BY SeqMonotonic DEF PointerEvents
  <2> QED BY <2>1, <2>2 DEF Send, Adds
<1>2. ASSUME NEW tool \in Tools, NEW bs \in SUBSET MouseButtons, NEW moved \in BOOLEAN, StylusEvent(tool, bs, moved)
      PROVE UNCHANGED wire \/ \E evs \in Seq(PointerEvents) : Adds(evs)
  <2>1. PICK e \in StylusEvents : \E nd : Send(<<e>>, {}, nd)
    BY <1>2, StylusSends
  <2>2. <<e>> \in Seq(PointerEvents)
    BY OneEvent DEF PointerEvents
  <2> QED BY <2>1, <2>2 DEF Send, Adds
<1> QED BY <1>1, <1>2 DEF PointerStep, PlainStep

\* Will c be down in X when the events on the socket have been read?
KeyStays(c) == Stays(wire, {Key(c, TRUE)}, {Key(c, FALSE)}, c, codes)

\* Is c held down on the keyboard?
KeyHeld(c) == c \in keyboard.mods \/ \E k \in keyboard.down : how[k] = c

HowTyped ==
  \A k \in Keys : how[k] \in {Up, Text, k, layout[k]} /\ (k \notin keyboard.down => how[k] = Up)

\* A key that mPressedTextKeys has, but that was not typed when it went down, will not be released
\* as it was pressed.
TextUpset == \A k \in keyboard.text : how[k] # Text => {k, layout[k]} \subseteq upset

KeysHeld == \A c \in Codes \ upset : KeyStays(c) => KeyHeld(c)

KeyInv == (~conn => upset = Codes) /\ HowTyped /\ TextUpset /\ KeysHeld

LEMMA KeysApart ==
  /\ \A c, d : Key(c, TRUE) # Key(d, FALSE)
  /\ \A c, d, a, b : c # d => Key(c, a) # Key(d, b)
  /\ \A c : {Key(c, TRUE)} \cap {Key(c, FALSE)} = {}
  BY DEF Key

LEMMA CodesApart == \A c \in Codes : c # Up /\ c # Text
  BY KeysAssumption DEF Codes, Mods, Ctrl, AltGr, Up, Text

LEMMA KeyQuiet ==
  ASSUME AllTyped, KeyInv, UNCHANGED <<conn, codes, how, upset, layout>>, NEW evs \in Seq(PointerEvents),
         UNCHANGED wire \/ Adds(evs), keyboard' = [keyboard EXCEPT !.scan = keyboard'.scan]
  PROVE KeyInv'
<1>1. UNCHANGED <<keyboard.down, keyboard.mods, keyboard.text>>
  BY DEF AllTyped, TypingTyped, Keyboards
<1>2. ASSUME NEW c \in Codes PROVE KeyStays(c)' <=> KeyStays(c)
  <2>1. evs \in Seq(Events) /\ wire \in Seq(Events)
    BY SeqMonotonic DEF Events, PointerEvents, PlainEvents, AllTyped, WireTyped
  <2>2. \A i \in DOMAIN evs : evs[i].t # "key"
    <3>1. \A i \in DOMAIN evs : evs[i] \in PointerEvents
      BY LenProperties
    <3> QED BY <3>1 DEF PointerEvents, PlainEvents, TouchEvents, MouseEvents, StylusEvents, EnableEvents
  <2>3. \A i \in DOMAIN evs : evs[i] \notin {Key(c, TRUE)} /\ evs[i] \notin {Key(c, FALSE)}
    BY <2>2 DEF Key
  <2>4. Stays(wire \o evs, {Key(c, TRUE)}, {Key(c, FALSE)}, c, codes) <=> KeyStays(c)
    BY <2>1, <2>3, StaysBeside DEF KeyStays
  <2> QED BY <2>4 DEF KeyStays, Adds
<1> QED
  BY <1>1, <1>2 DEF KeyInv, HowTyped, TextUpset, KeysHeld, KeyHeld

\* Events of other keys do not matter.
LEMMA KeyBeside ==
  ASSUME AllTyped, conn, UNCHANGED codes, NEW evs \in Seq(KeyEvents), Send(evs, {}, {}), NEW c \in Codes,
         \A i \in DOMAIN evs : evs[i].c # c
  PROVE KeyStays(c)' <=> KeyStays(c)
<1>1. evs \in Seq(Events) /\ wire \in Seq(Events)
  BY SeqMonotonic DEF Events, AllTyped, WireTyped
<1>2. \A i \in DOMAIN evs : evs[i] \notin {Key(c, TRUE)} /\ evs[i] \notin {Key(c, FALSE)}
  BY DEF Key
<1> QED BY <1>1, <1>2, StaysBeside DEF KeyStays, Send

\* A key that is released is not down afterwards.
LEMMA KeyReleased ==
  ASSUME AllTyped, conn, NEW c \in Codes, Send(<<Key(c, FALSE)>>, {}, {}) PROVE ~KeyStays(c)'
<1> DEFINE e == Key(c, FALSE)
<1>1. e \in Events /\ e # Key(c, TRUE)
  BY MadeEvents, KeysApart DEF Events
<1> HIDE DEF e
<1>2. <<e>> \in Seq(Events) /\ DOMAIN <<e>> = 1..1 /\ <<e>>[1] = e
  BY <1>1
<1>3. ~Stays(<<e>>, {Key(c, TRUE)}, {e}, c, {})
  <2>1. \A i \in DOMAIN <<e>> : <<e>>[i] = e
    BY <1>2
  <2> DEFINE q == <<e>>
  <2> HIDE DEF q
  <2>2. \A i \in DOMAIN q : q[i] \notin {Key(c, TRUE)}
    BY <1>1, <2>1 DEF q
  <2>3. ~Stays(q, {Key(c, TRUE)}, {e}, c, {})
    BY <2>2 DEF Stays
  <2> QED BY <2>3 DEF q
<1>4. wire' = wire \o <<e>> /\ wire \in Seq(Events)
  BY DEF Send, e, AllTyped, WireTyped
<1>5. 1 \in DOMAIN <<e>> /\ <<e>>[1] \in {e}
  BY <1>2
<1>6. ~Stays(wire', {Key(c, TRUE)}, {e}, c, codes')
  BY <1>2, <1>3, <1>4, <1>5, StaysAdded
<1> QED BY <1>6 DEF KeyStays, e

\* The text that a key types lets go of AltGr and presses it again, if it is held.
LEMMA TextStays ==
  ASSUME AllTyped, KeyInv, conn, UNCHANGED codes, Send(TextEvent, {}, {}), NEW c \in Codes
  PROVE (KeyStays(c)' <=> KeyStays(c)) \/ c \in keyboard.mods
<1>1. CASE AltGr \in keyboard.mods
  <2>1. CASE c = AltGr
    BY <1>1, <2>1
  <2>2. CASE c # AltGr
    <3>1. TextEvent \in Seq(KeyEvents) /\ \A i \in DOMAIN TextEvent : TextEvent[i].c = AltGr
      BY TextTyped, TextSent DEF Key
    <3> QED BY <2>2, <3>1, KeyBeside
  <2> QED BY <2>1, <2>2
<1>2. CASE AltGr \notin keyboard.mods
  <2>1. TextEvent = << >> /\ wire \in Seq(Events)
    BY <1>2 DEF TextEvent, AllTyped, WireTyped
  <2>2. wire' = wire
    BY <2>1, ConcatEmptySeq DEF Send
  <2> QED BY <2>2 DEF KeyStays
<1> QED BY <1>1, <1>2

\* While there is no connection every code is upset.
LEMMA KeysDisconnected ==
  ASSUME AllTyped, KeyInv, ~conn, UNCHANGED conn, HowTyped', AllTyped', upset \subseteq upset' PROVE KeyInv'
<1>1. upset' = Codes
  BY DEF KeyInv, AllTyped, TypingTyped
<1>2. TextUpset'
  BY <1>1, CodesTyped DEF AllTyped, TypingTyped, TextUpset, Keyboards
<1> QED BY <1>1, <1>2 DEF KeyInv, KeysHeld

LEMMA KeyDownInv == ASSUME AllTyped, AllTyped', KeyInv, NEW k \in Keys, KeyDown(k) PROVE KeyInv'
<1>1. k \notin keyboard.down /\ how' = [how EXCEPT ![k] = IF Typed THEN Text ELSE CodeOf(k)] /\ KeyPress(k, {})
  BY DEF KeyDown
<1>2. UNCHANGED <<conn, layout, codes>> /\ upset \subseteq upset'
  BY <1>1 DEF KeyPress, SendKeys, activity
<1>3. /\ keyboard'.down = keyboard.down \cup {k} /\ keyboard'.mods = keyboard.mods
      /\ keyboard'.text = IF Typed THEN keyboard.text \cup {k} ELSE keyboard.text
  BY <1>1 DEF KeyPress, AllTyped, TypingTyped, Keyboards
<1>4. CodeOf(k) \in {k, layout[k]} /\ {k, layout[k]} \subseteq Codes /\ how \in [Keys -> Keys \cup {Up, Text}]
  BY CodesTyped DEF AllTyped, TypingTyped
<1>5. HowTyped'
  BY <1>1, <1>2, <1>3, <1>4 DEF KeyInv, HowTyped
<1>6. how[k] = Up /\ Up # Text /\ keyboard.text \subseteq Keys
  BY <1>1 DEF KeyInv, HowTyped, Up, Text, AllTyped, TypingTyped, Keyboards
<1>7. TextUpset'
  BY <1>1, <1>2, <1>3, <1>4, <1>6 DEF KeyInv, TextUpset
<1>8. CASE ~conn
  BY <1>2, <1>5, <1>8, KeysDisconnected
<1>9. CASE conn
  <2>1. ASSUME NEW c \in Codes \ upset', KeyStays(c)' PROVE KeyHeld(c)'
    <3>1. CASE KeyStays(c)
      <4>1. KeyHeld(c)
        BY <1>2, <2>1, <3>1 DEF KeyInv, KeysHeld
      <4>2. ASSUME NEW j \in keyboard.down, how[j] = c PROVE how'[j] = c
        BY <1>1, <1>4, <4>2 DEF AllTyped, TypingTyped, Keyboards
      <4> QED BY <1>3, <4>1, <4>2 DEF KeyHeld
    <3>2. CASE ~KeyStays(c) /\ Typed
      <4>1. Send(TextEvent, {}, {})
        BY <1>1, <3>2 DEF KeyPress, SendKeys
      <4>2. c \in keyboard.mods
        BY <1>2, <1>9, <2>1, <3>2, <4>1, TextStays
      <4> QED BY <1>3, <4>2 DEF KeyHeld
    <3>3. CASE ~KeyStays(c) /\ ~Typed
      <4>1. Send(<<Key(CodeOf(k), TRUE)>>, {}, {})
        BY <1>1, <3>3 DEF KeyPress, SendKeys
      <4> DEFINE e == Key(CodeOf(k), TRUE)
      <4>2. e \in KeyEvents /\ e.c = CodeOf(k)
        BY <1>4, MadeEvents DEF Key
      <4> HIDE DEF e
      <4>3. <<e>> \in Seq(KeyEvents) /\ \A i \in DOMAIN <<e>> : <<e>>[i] = e
        BY <4>2
      <4>4. c = CodeOf(k)
        BY <1>2, <1>9, <2>1, <3>3, <4>1, <4>2, <4>3, KeyBeside DEF e
      <4>5. how'[k] = c /\ k \in keyboard'.down
        BY <1>1, <1>3, <1>4, <3>3, <4>4
      <4> QED BY <4>5 DEF KeyHeld
    <3> QED BY <3>1, <3>2, <3>3
  <2> QED BY <1>2, <1>5, <1>7, <1>9, <2>1 DEF KeyInv, KeysHeld
<1> QED BY <1>8, <1>9 DEF AllTyped, ActivityTyped

LEMMA KeyRepeatInv == ASSUME AllTyped, AllTyped', KeyInv, NEW k \in Keys, KeyRepeat(k) PROVE KeyInv'
<1> DEFINE nu == IF Typed /\ how[k] = Text THEN {} ELSE {k, layout[k]}
<1>1. k \in keyboard.down /\ how' = [how EXCEPT ![k] = IF Typed THEN how[k] ELSE CodeOf(k)] /\ KeyPress(k, nu)
  BY DEF KeyRepeat
<1>2. UNCHANGED <<conn, layout, codes>> /\ upset \subseteq upset' /\ nu \subseteq upset'
  BY <1>1 DEF KeyPress, SendKeys, activity
<1>3. /\ keyboard'.down = keyboard.down /\ keyboard'.mods = keyboard.mods
      /\ keyboard'.text = IF Typed THEN keyboard.text \cup {k} ELSE keyboard.text
  BY <1>1 DEF KeyPress, AllTyped, TypingTyped, Keyboards
<1>4. CodeOf(k) \in {k, layout[k]} /\ {k, layout[k]} \subseteq Codes /\ how \in [Keys -> Keys \cup {Up, Text}]
  BY CodesTyped DEF AllTyped, TypingTyped
<1>5. HowTyped'
  BY <1>1, <1>2, <1>3, <1>4 DEF KeyInv, HowTyped
<1>6. keyboard.text \subseteq Keys /\ keyboard.down \subseteq Keys
  BY DEF AllTyped, TypingTyped, Keyboards
<1>7. TextUpset'
  BY <1>1, <1>2, <1>3, <1>4, <1>6 DEF KeyInv, TextUpset
<1>8. CASE ~conn
  BY <1>2, <1>5, <1>8, KeysDisconnected
<1>9. CASE conn
  <2>1. ASSUME NEW c \in Codes \ upset', KeyStays(c)' PROVE KeyHeld(c)'
    <3>1. CASE KeyStays(c)
      <4>1. KeyHeld(c)
        BY <1>2, <2>1, <3>1 DEF KeyInv, KeysHeld
      <4>2. ASSUME NEW j \in keyboard.down, how[j] = c PROVE how'[j] = c
        <5>1. CASE j = k /\ ~Typed
          <6>1. c \notin {k, layout[k]}
            BY <1>2, <2>1, <5>1
          <6>2. how[k] \in {Up, Text, k, layout[k]}
            BY DEF KeyInv, HowTyped
          <6> QED BY <2>1, <4>2, <5>1, <6>1, <6>2, CodesApart
        <5>2. CASE j # k \/ Typed
          BY <1>1, <1>4, <1>6, <4>2, <5>2
        <5> QED BY <5>1, <5>2
      <4> QED BY <1>3, <4>1, <4>2 DEF KeyHeld
    <3>2. CASE ~KeyStays(c) /\ Typed
      <4>1. Send(TextEvent, {}, {})
        BY <1>1, <3>2 DEF KeyPress, SendKeys
      <4>2. c \in keyboard.mods
        BY <1>2, <1>9, <2>1, <3>2, <4>1, TextStays
      <4> QED BY <1>3, <4>2 DEF KeyHeld
    <3>3. CASE ~KeyStays(c) /\ ~Typed
      <4>1. Send(<<Key(CodeOf(k), TRUE)>>, {}, {})
        BY <1>1, <3>3 DEF KeyPress, SendKeys
      <4> DEFINE e == Key(CodeOf(k), TRUE)
      <4>2. e \in KeyEvents /\ e.c = CodeOf(k)
        BY <1>4, MadeEvents DEF Key
      <4> HIDE DEF e
      <4>3. <<e>> \in Seq(KeyEvents) /\ \A i \in DOMAIN <<e>> : <<e>>[i] = e
        BY <4>2
      <4>4. c = CodeOf(k)
        BY <1>2, <1>9, <2>1, <3>3, <4>1, <4>2, <4>3, KeyBeside DEF e
      <4> QED BY <1>2, <1>4, <2>1, <3>3, <4>4
    <3> QED BY <3>1, <3>2, <3>3
  <2> QED BY <1>2, <1>5, <1>7, <1>9, <2>1 DEF KeyInv, KeysHeld
<1> QED BY <1>8, <1>9 DEF AllTyped, ActivityTyped

LEMMA KeyUpInv ==
  ASSUME AllTyped, AllTyped', KeyInv, NEW k \in Keys, NEW canceled \in BOOLEAN, KeyUp(k, canceled)
  PROVE KeyInv'
<1> DEFINE text == ~keyboard.scan /\ k \in keyboard.text
           nu == IF ~canceled /\ AsPressed(k) THEN {} ELSE {k, layout[k]}
           evs == IF canceled \/ text THEN << >> ELSE <<Key(CodeOf(k), FALSE)>>
<1>1. /\ k \in keyboard.down /\ how' = [how EXCEPT ![k] = Up] /\ SendKeys(evs, nu)
      /\ UNCHANGED <<activity, layout, codes>>
  BY Zenon DEF KeyUp
<1>2. UNCHANGED <<conn, layout, codes>> /\ upset \subseteq upset' /\ nu \subseteq upset'
  BY <1>1 DEF SendKeys, activity
<1>3. /\ keyboard'.down = keyboard.down \ {k} /\ keyboard'.mods = keyboard.mods
      /\ keyboard'.text = IF ~canceled /\ text THEN keyboard.text \ {k} ELSE keyboard.text
  BY DEF KeyUp, AllTyped, TypingTyped, Keyboards
<1>4. CodeOf(k) \in {k, layout[k]} /\ {k, layout[k]} \subseteq Codes /\ how \in [Keys -> Keys \cup {Up, Text}]
  BY CodesTyped DEF AllTyped, TypingTyped
<1>5. HowTyped'
  BY <1>1, <1>2, <1>3, <1>4 DEF KeyInv, HowTyped
<1>6. keyboard.text \subseteq Keys /\ keyboard.down \subseteq Keys
  BY DEF AllTyped, TypingTyped, Keyboards
<1>7. TextUpset'
  <2> SUFFICES ASSUME NEW j \in keyboard'.text, how'[j] # Text PROVE {j, layout'[j]} \subseteq upset'
    BY DEF TextUpset
  <2>1. CASE j # k
    BY <1>1, <1>2, <1>3, <1>4, <1>6, <2>1 DEF KeyInv, TextUpset
  <2>2. CASE j = k /\ (canceled \/ ~AsPressed(k))
    BY <1>2, <2>2
  <2>3. CASE j = k /\ ~canceled /\ AsPressed(k)
    <3>1. keyboard.scan /\ k \in keyboard.text
      BY <1>3, <2>3
    <3>2. how[k] # Text
      BY <2>3, <3>1 DEF AsPressed
    <3> QED BY <1>2, <2>3, <3>1, <3>2 DEF KeyInv, TextUpset
  <2> QED BY <2>1, <2>2, <2>3
<1>8. CASE ~conn
  BY <1>2, <1>5, <1>8, KeysDisconnected
<1>9. CASE conn
  <2>1. ASSUME NEW c \in Codes \ upset', KeyStays(c)' PROVE KeyHeld(c)'
    <3>1. KeyStays(c) /\ (canceled \/ text \/ c # CodeOf(k))
      <4>1. CASE canceled \/ text
        <5>1. wire' = wire
          BY <1>1, <4>1, ConcatEmptySeq DEF SendKeys, Send, AllTyped, WireTyped
        <5> QED BY <1>2, <2>1, <4>1, <5>1 DEF KeyStays
      <4>2. CASE ~(canceled \/ text)
        <5>1. Send(<<Key(CodeOf(k), FALSE)>>, {}, {})
          BY <1>1, <4>2 DEF SendKeys
        <5>2. c # CodeOf(k)
          BY <1>4, <1>9, <2>1, <5>1, KeyReleased
        <5> DEFINE e == Key(CodeOf(k), FALSE)
        <5>3. e \in KeyEvents /\ e.c = CodeOf(k)
          BY <1>4, MadeEvents DEF Key
        <5> HIDE DEF e
        <5>4. <<e>> \in Seq(KeyEvents) /\ \A i \in DOMAIN <<e>> : <<e>>[i] = e
          BY <5>3
        <5>5. KeyStays(c)
          BY <1>2, <1>9, <2>1, <5>1, <5>2, <5>3, <5>4, KeyBeside DEF e
        <5> QED BY <5>2, <5>5
      <4> QED BY <4>1, <4>2
    <3>2. KeyHeld(c)
      BY <1>2, <2>1, <3>1 DEF KeyInv, KeysHeld
    <3>3. how[k] # c
      <4>1. how[k] \in {Up, Text, k, layout[k]} /\ c # Up /\ c # Text
        BY <2>1, CodesApart DEF KeyInv, HowTyped
      <4>2. CASE canceled \/ ~AsPressed(k)
        BY <1>2, <2>1, <4>1, <4>2
      <4>3. CASE AsPressed(k) /\ ~canceled
        <5>1. CASE how[k] = Text
          BY <4>1, <5>1
        <5>2. CASE how[k] # Text /\ text
          <6>1. {k, layout[k]} \subseteq upset
            BY <5>2 DEF KeyInv, TextUpset
          <6> QED BY <1>2, <2>1, <4>1, <6>1
        <5>3. CASE how[k] # Text /\ ~text
          BY <3>1, <4>3, <5>3 DEF AsPressed
        <5> QED BY <5>1, <5>2, <5>3
      <4> QED BY <4>2, <4>3
    <3> QED BY <1>1, <1>3, <1>4, <1>6, <3>2, <3>3 DEF KeyHeld
  <2> QED BY <1>2, <1>5, <1>7, <1>9, <2>1 DEF KeyInv, KeysHeld
<1> QED BY <1>8, <1>9 DEF AllTyped, ActivityTyped

LEMMA ModifierInv == ASSUME AllTyped, AllTyped', KeyInv, NEW m \in Mods, Modifier(m) PROVE KeyInv'
<1>1. UNCHANGED <<conn, layout, codes, how>> /\ upset \subseteq upset'
  BY DEF Modifier, SendKeys, activity
<1>2. /\ keyboard'.down = keyboard.down /\ keyboard'.text = keyboard.text
      /\ keyboard'.mods = IF m \in keyboard.mods THEN keyboard.mods \ {m} ELSE keyboard.mods \cup {m}
  BY DEF Modifier, AllTyped, TypingTyped, Keyboards
<1>3. HowTyped' /\ TextUpset'
  BY <1>1, <1>2 DEF KeyInv, HowTyped, TextUpset
<1>4. CASE ~conn
  BY <1>1, <1>3, <1>4, KeysDisconnected
<1>5. CASE conn
  <2>1. m \in Codes
    BY DEF Codes
  <2>2. ASSUME NEW c \in Codes \ upset', KeyStays(c)' PROVE KeyHeld(c)'
    <3>1. CASE c = m
      <4>1. CASE m \notin keyboard.mods
        BY <1>2, <3>1, <4>1 DEF KeyHeld
      <4>2. CASE m \in keyboard.mods
        <5>1. (m \notin keyboard.mods) = FALSE
          BY <4>2, SMT
        <5>2. Send(<<Key(m, FALSE)>>, {}, {})
          BY <5>1, Zenon DEF Modifier, SendKeys
        <5> QED BY <1>5, <2>1, <2>2, <3>1, <5>2, KeyReleased
      <4> QED BY <4>1, <4>2
    <3>2. CASE c # m
      <4> DEFINE e == Key(m, m \notin keyboard.mods)
      <4>1. e.c = m
        BY DEF Key
      <4>2. e \in KeyEvents
        <5>1. (m \notin keyboard.mods) \in BOOLEAN
          BY SMT
        <5> QED BY <2>1, <5>1, MadeEvents
      <4>3. Send(<<e>>, {}, {})
        BY Zenon DEF Modifier, SendKeys
      <4> HIDE DEF e
      <4>4. <<e>> \in Seq(KeyEvents) /\ \A i \in DOMAIN <<e>> : <<e>>[i] = e
        BY <4>2
      <4>5. KeyStays(c)
        BY <1>1, <1>5, <2>2, <3>2, <4>1, <4>3, <4>4, KeyBeside
      <4>6. KeyHeld(c)
        BY <1>1, <2>2, <4>5 DEF KeyInv, KeysHeld
      <4> QED BY <1>1, <1>2, <3>2, <4>6 DEF KeyHeld
    <3> QED BY <3>1, <3>2
  <2> QED BY <1>1, <1>3, <1>5, <2>2 DEF KeyInv, KeysHeld
<1> QED BY <1>4, <1>5 DEF AllTyped, ActivityTyped

LEMMA KeyReadInv == ASSUME AllTyped, KeyInv, ServerStep PROVE KeyInv'
<1>1. UNCHANGED <<conn, keyboard, layout, how, upset>>
  BY DEF ServerStep, ReadTouch, handleTouchEvent, ReadMouse, ReadStylus, ReadStylusEnable, ReadKey, activity, typing
<1>2. ASSUME NEW c \in Codes PROVE KeyStays(c)' <=> KeyStays(c)
  <2>1. wire \in Seq(Events)
    BY DEF AllTyped, WireTyped
  <2>2. CASE handleTouchEvent
    BY <2>2 DEF handleTouchEvent, typing, KeyStays
  <2>3. CASE ReadKey
    <3>1. wire # << >> /\ Head(wire) \in KeyEvents /\ wire' = Tail(wire)
      BY <2>3, ReadsTyped, EventKinds DEF ReadKey
    <3>2. codes' = IF Head(wire).down THEN codes \cup {Head(wire).c} ELSE codes \ {Head(wire).c}
      BY <2>3 DEF ReadKey
    <3>3. Head(wire) = Key(Head(wire).c, Head(wire).down) /\ Head(wire).down \in BOOLEAN
      BY <3>1 DEF KeyEvents, Key
    <3>4. c \in codes' <=> (Head(wire) \in {Key(c, TRUE)} \/ (c \in codes /\ Head(wire) \notin {Key(c, FALSE)}))
      <4>1. CASE Head(wire).down
        <5>1. Head(wire) = Key(Head(wire).c, TRUE)
          BY <3>3, <4>1
        <5> QED BY <3>2, <4>1, <5>1, KeysApart
      <4>2. CASE ~Head(wire).down
        <5>1. Head(wire) = Key(Head(wire).c, FALSE)
          BY <3>3, <4>2
        <5> QED BY <3>2, <4>2, <5>1, KeysApart
      <4> QED BY <4>1, <4>2
    <3>5. {Key(c, TRUE)} \cap {Key(c, FALSE)} = {}
      BY KeysApart
    <3>6. Stays(Tail(wire), {Key(c, TRUE)}, {Key(c, FALSE)}, c, codes') <=> KeyStays(c)
      BY <2>1, <3>1, <3>4, <3>5, StaysTaken DEF KeyStays
    <3> QED BY <3>1, <3>6 DEF KeyStays
  <2>4. CASE \E t : t # "key" /\ Reading(t) /\ UNCHANGED codes
    <3>1. wire # << >> /\ Head(wire).t # "key" /\ wire' = Tail(wire) /\ UNCHANGED codes
      BY <2>4 DEF Reading
    <3>2. Head(wire) \notin {Key(c, TRUE)} /\ Head(wire) \notin {Key(c, FALSE)}
      BY <3>1 DEF Key
    <3>3. {Key(c, TRUE)} \cap {Key(c, FALSE)} = {}
      BY KeysApart
    <3>4. Stays(Tail(wire), {Key(c, TRUE)}, {Key(c, FALSE)}, c, codes) <=> KeyStays(c)
      BY <2>1, <3>1, <3>2, <3>3, StaysPassed DEF KeyStays
    <3> QED BY <3>1, <3>4 DEF KeyStays
  <2> QED BY <2>2, <2>3, <2>4 DEF ServerStep, ReadTouch, ReadMouse, ReadStylus, ReadStylusEnable, typing
<1> QED
  BY <1>1, <1>2 DEF KeyInv, HowTyped, TextUpset, KeysHeld, KeyHeld

LEMMA KeyInvInit == Init => KeyInv
<1> SUFFICES ASSUME Init PROVE KeyInv
  OBVIOUS
<1>1. \A c \in Codes : ~KeyStays(c)
  BY StaysEmpty DEF Init, KeyStays
<1> QED
  BY <1>1 DEF Init, KeyInv, HowTyped, TextUpset, KeysHeld

LEMMA KeyInvNext == AllTyped /\ AllTyped' /\ KeyInv /\ [Next]_vars => KeyInv'
<1> SUFFICES ASSUME AllTyped, AllTyped', KeyInv, [Next]_vars PROVE KeyInv'
  OBVIOUS
<1>1. CASE PointerStep
  <2>1. UNCHANGED <<conn, codes, how, upset, layout, keyboard>>
    BY <1>1, PointerFrame DEF typing
  <2>2. keyboard' = [keyboard EXCEPT !.scan = keyboard'.scan]
    BY <2>1 DEF AllTyped, TypingTyped, Keyboards
  <2>3. \E evs \in Seq(PointerEvents) : UNCHANGED wire \/ Adds(evs)
    BY <1>1, PointerSends, EmptySeq
  <2> QED BY <2>1, <2>2, <2>3, KeyQuiet
<1>2. CASE \E m \in Modes, am, scan \in BOOLEAN : reloadPreferences(m, am, scan)
  <2>1. UNCHANGED <<conn, codes, how, upset, layout>>
    BY <1>2 DEF reloadPreferences
  <2>2. keyboard' = [keyboard EXCEPT !.scan = keyboard'.scan]
    BY <1>2 DEF reloadPreferences, AllTyped, TypingTyped, Keyboards
  <2>3. \E evs \in Seq(PointerEvents) : UNCHANGED wire \/ Adds(evs)
    BY <1>2, PointerSends, EmptySeq
  <2> QED BY <2>1, <2>2, <2>3, KeyQuiet
<1>3. CASE KeyStep
  BY <1>3, KeyDownInv, KeyRepeatInv, KeyUpInv, ModifierInv DEF KeyStep
<1>4. CASE ServerStep
  BY <1>4, KeyReadInv
<1>5. CASE Hangup
  <2>1. upset' = Codes /\ UNCHANGED <<keyboard, layout, how>>
    BY <1>5 DEF Hangup
  <2>2. HowTyped'
    BY <2>1 DEF KeyInv, HowTyped
  <2>3. TextUpset'
    BY <2>1, CodesTyped DEF AllTyped, TypingTyped, TextUpset, Keyboards
  <2> QED BY <2>1, <2>2, <2>3 DEF KeyInv, KeysHeld
<1>6. CASE Reconnect
  <2>1. ~conn /\ UNCHANGED <<keyboard, layout, codes, how, upset>>
    BY <1>6 DEF Reconnect, typing
  <2> QED BY <2>1 DEF KeyInv, HowTyped, TextUpset, KeysHeld
<1>7. CASE UNCHANGED vars
  <2>1. UNCHANGED <<conn, keyboard, layout, codes, how, upset, wire>>
    BY <1>7 DEF vars, activity, typing
  <2> QED BY <2>1 DEF KeyInv, HowTyped, TextUpset, KeysHeld, KeyHeld, KeyStays
<1> QED
  BY <1>1, <1>2, <1>3, <1>4, <1>5, <1>6, <1>7, Steps

(***************************************************************************)
(* Keys of the X keyboard are let go, for any keyboard and layout and any  *)
(* order of presses, repeats, releases and modifiers: whatever is on the   *)
(* socket, a key that will be down when it has been read is held down, or  *)
(* was not released as it was pressed.                                     *)
(***************************************************************************)
THEOREM KeysAreLetGo == Spec => []KeysLetGo
<1>1. AllTyped /\ KeyInv => KeysLetGo
  <2>1. ASSUME KeyInv, Quiet, NEW c \in Codes \ upset, c \in codes PROVE KeyHeld(c)
    <3>1. KeyStays(c)
      BY <2>1, StaysEmpty DEF Quiet, KeyStays
    <3> QED BY <2>1, <3>1 DEF KeyInv, KeysHeld
  <2>2. AllTyped => codes \subseteq Codes
    BY DEF AllTyped, TypingTyped
  <2> QED BY <2>1, <2>2 DEF KeysLetGo, KeyHeld
<1> QED
  BY <1>1, TypedInit, TypedNext, KeyInvInit, KeyInvNext, PTL DEF Spec
-----------------------------------------------------------------------------
(* Touches *)

\* The last of the events added is of P, or of R.
LEMMA LastIsOn ==
  ASSUME NEW E, NEW q \in Seq(E), NEW s \in Seq(E), NEW P, NEW R, NEW x, NEW S,
         NEW n \in DOMAIN s, s[n] \in P, \A i \in DOMAIN s : i > n => s[i] \notin R
  PROVE Stays(q \o s, P, R, x, S)
<1>1. Stays(s, P, R, x, {})
  BY DEF Stays
<1> QED BY <1>1, StaysAdded

LEMMA LastIsOff ==
  ASSUME NEW E, NEW q \in Seq(E), NEW s \in Seq(E), NEW P, NEW R, NEW x, NEW S,
         NEW n \in DOMAIN s, s[n] \in R, \A i \in DOMAIN s : s[i] \in P => n > i
  PROVE ~Stays(q \o s, P, R, x, S)
<1>1. ~Stays(s, P, R, x, {})
  BY DEF Stays
<1> QED BY <1>1, StaysAdded

LEMMA ConcatSet ==
  ASSUME NEW E, NEW q \in Seq(E), NEW s \in Seq(E) PROVE ToSet(q \o s) = ToSet(q) \cup ToSet(s)
<1> DEFINE qs == q \o s
<1>1. Len(q) \in Nat /\ DOMAIN q = 1..Len(q) /\ Len(s) \in Nat /\ DOMAIN s = 1..Len(s)
  BY LenProperties
<1>2. /\ qs \in Seq(E) /\ Len(qs) = Len(q) + Len(s)
      /\ \A i \in 1..(Len(q) + Len(s)) : qs[i] = IF i <= Len(q) THEN q[i] ELSE s[i - Len(q)]
  BY ConcatProperties
<1>3. DOMAIN qs = 1..(Len(q) + Len(s))
  BY <1>2, LenProperties
<1> HIDE DEF qs
<1>4. \A i \in DOMAIN q : i \in DOMAIN qs /\ qs[i] = q[i]
  BY <1>1, <1>2, <1>3
<1>5. \A i \in DOMAIN s : i + Len(q) \in DOMAIN qs /\ qs[i + Len(q)] = s[i]
  BY <1>1, <1>2, <1>3
<1>6. \A i \in DOMAIN qs : (i \in DOMAIN q /\ qs[i] = q[i]) \/ (i - Len(q) \in DOMAIN s /\ qs[i] = s[i - Len(q)])
  BY <1>1, <1>2, <1>3
<1>7. ToSet(qs) = ToSet(q) \cup ToSet(s)
  BY <1>4, <1>5, <1>6 DEF ToSet
<1> QED BY <1>7 DEF qs

Touching(f) == {Touch("begin", f), Touch("update", f)}
Ending(f) == {Touch("end", f)}

\* The touches that will be active when the main thread has done its queued work
Handled == {f \in Fingers : Stays(work, Touching(f), Ending(f), f, touches)}

\* Will f be active when the events on the socket have been handled as well?
TouchStays(f) == Stays(wire, Touching(f), Ending(f), f, Handled)

TouchInv ==
  /\ ~conn => stray = Fingers
  /\ conn => \A f \in Fingers \ stray : TouchStays(f) <=> (mode = "touch" /\ f \in fingers)

LEMMA TouchesApart ==
  /\ \A f : Touching(f) \cap Ending(f) = {}
  /\ \A f, g : f # g => Touch("begin", f) \notin Touching(g) /\ Touch("update", f) \notin Touching(g)
  /\ \A f, g : Touch("end", f) \notin Touching(g)
  /\ \A f, g : Touch("begin", f) \notin Ending(g) /\ Touch("update", f) \notin Ending(g)
  /\ \A f, g : f # g => Touch("end", f) \notin Ending(g)
  BY DEF Touching, Ending, Touch

\* Events of other fingers, or of other devices, do not matter.
LEMMA TouchBeside ==
  ASSUME AllTyped, UNCHANGED server, NEW evs \in Seq(Events), wire' = wire \o evs, NEW f \in Fingers,
         f \notin FingersOf(evs)
  PROVE TouchStays(f)' <=> TouchStays(f)
<1>1. wire \in Seq(Events) /\ Handled' = Handled
  BY DEF AllTyped, WireTyped, Handled, server
<1>2. \A i \in DOMAIN evs : evs[i].t = "touch" => evs[i].f # f
  BY DEF FingersOf, ToSet
<1>3. \A i \in DOMAIN evs : evs[i] \notin Touching(f) /\ evs[i] \notin Ending(f)
  BY <1>2 DEF Touching, Ending, Touch
<1> QED BY <1>1, <1>3, StaysBeside DEF TouchStays

\* Without a connection every finger is stray.
LEMMA TouchesDisconnected ==
  ASSUME AllTyped, AllTyped', TouchInv, ~conn, UNCHANGED conn, NEW evs, NEW ns, NEW nd, Send(evs, ns, nd)
  PROVE TouchInv'
<1>1. stray' = Fingers
  BY DEF TouchInv, Send, AllTyped, WireTyped
<1> QED BY <1>1 DEF TouchInv

\* It is enough to look at the fingers whose events are sent, and at those that are stray no more.
LEMMA TouchSent ==
  ASSUME AllTyped, AllTyped', TouchInv, UNCHANGED <<conn, server>>, NEW evs \in Seq(Events), NEW ns, NEW nd,
         Send(evs, ns, nd),
         \A f \in Fingers \ ns :
           IF f \in FingersOf(evs)
           THEN conn => (TouchStays(f)' <=> (mode' = "touch" /\ f \in fingers'))
           ELSE (mode' = "touch" /\ f \in fingers') <=> (mode = "touch" /\ f \in fingers)
  PROVE TouchInv'
<1>1. CASE ~conn
  BY <1>1, TouchesDisconnected
<1>2. CASE conn
  <2>1. wire' = wire \o evs /\ stray' = (stray \ FingersOf(evs)) \cup ns
    BY <1>2 DEF Send
  <2>2. ASSUME NEW f \in Fingers \ stray' PROVE TouchStays(f)' <=> (mode' = "touch" /\ f \in fingers')
    <3>1. CASE f \in FingersOf(evs)
      BY <1>2, <2>1, <2>2, <3>1
    <3>2. CASE f \notin FingersOf(evs)
      <4>1. TouchStays(f)' <=> TouchStays(f)
        BY <2>1, <3>2, TouchBeside
      <4>2. TouchStays(f) <=> (mode = "touch" /\ f \in fingers)
        BY <1>2, <2>1, <3>2 DEF TouchInv
      <4> QED BY <2>1, <3>2, <4>1, <4>2
    <3> QED BY <3>1, <3>2
  <2> QED BY <1>2, <2>2 DEF TouchInv
<1> QED BY <1>1, <1>2

LEMMA NoFingers ==
  ASSUME NEW evs, \A i \in DOMAIN evs : evs[i].t # "touch" PROVE FingersOf(evs) = {}
  BY DEF FingersOf, ToSet

\* Steps that send no touches, and leave the touched fingers alone
LEMMA TouchQuiet ==
  ASSUME AllTyped, AllTyped', TouchInv, UNCHANGED <<conn, server, mode>>, mode = "touch" => UNCHANGED fingers,
         NEW evs \in Seq(Events), NEW nd, Send(evs, {}, nd), \A i \in DOMAIN evs : evs[i].t # "touch"
  PROVE TouchInv'
<1>1. FingersOf(evs) = {}
  BY NoFingers
<1>2. \A f \in Fingers : (mode' = "touch" /\ f \in fingers') <=> (mode = "touch" /\ f \in fingers)
  OBVIOUS
<1> QED BY <1>1, <1>2, TouchSent

LEMMA TouchBegun ==
  ASSUME AllTyped, NEW f \in Fingers
  PROVE /\ <<Touch("begin", f)>> \in Seq(Events) /\ FingersOf(<<Touch("begin", f)>>) = {f}
        /\ wire' = wire \o <<Touch("begin", f)>> => TouchStays(f)'
<1> DEFINE e == Touch("begin", f)
<1>1. e \in Events /\ e \in Touching(f) /\ e.t = "touch" /\ e.f = f
  BY MadeEvents DEF Events, Touching, Touch
<1> HIDE DEF e
<1>2. <<e>> \in Seq(Events) /\ 1 \in DOMAIN <<e>> /\ \A i \in DOMAIN <<e>> : i = 1 /\ <<e>>[i] = e
  BY <1>1
<1>3. wire \in Seq(Events)
  BY DEF AllTyped, WireTyped
<1> DEFINE q == <<e>>
<1> HIDE DEF q
<1>4. q \in Seq(Events) /\ 1 \in DOMAIN q /\ q[1] \in Touching(f) /\ \A i \in DOMAIN q : i > 1 => q[i] \notin Ending(f)
  BY <1>1, <1>2 DEF q
<1>5. ToSet(q) = {e}
  BY <1>2 DEF ToSet, q
<1>6. FingersOf(q) = {f}
  BY <1>1, <1>5 DEF FingersOf
<1>7. Stays(wire \o q, Touching(f), Ending(f), f, Handled')
  BY <1>3, <1>4, LastIsOn
<1> QED BY <1>4, <1>6, <1>7 DEF TouchStays, q, e

LEMMA TouchEnded ==
  ASSUME AllTyped, NEW f \in Fingers
  PROVE /\ <<Touch("update", f), Touch("end", f)>> \in Seq(Events)
        /\ FingersOf(<<Touch("update", f), Touch("end", f)>>) = {f}
        /\ wire' = wire \o <<Touch("update", f), Touch("end", f)>> => ~TouchStays(f)'
<1> DEFINE e == Touch("update", f)
           d == Touch("end", f)
<1>1. e \in Events /\ d \in Events /\ d \in Ending(f) /\ d \notin Touching(f) /\ e.t = "touch" /\ e.f = f /\ d.t = "touch" /\ d.f = f
  BY MadeEvents DEF Events, Ending, Touching, Touch
<1> HIDE DEF e, d
<1>2. <<e, d>> \in Seq(Events) /\ DOMAIN <<e, d>> = 1..2 /\ <<e, d>>[1] = e /\ <<e, d>>[2] = d
  BY <1>1
<1>3. wire \in Seq(Events)
  BY DEF AllTyped, WireTyped
<1> DEFINE q == <<e, d>>
<1> HIDE DEF q
<1>4. q \in Seq(Events) /\ DOMAIN q = {1, 2} /\ q[1] = e /\ q[2] = d
  BY <1>2 DEF q
<1>5. 2 \in DOMAIN q /\ q[2] \in Ending(f) /\ \A i \in DOMAIN q : q[i] \in Touching(f) => 2 > i
  BY <1>1, <1>4
<1>6. ToSet(q) = {e, d}
  BY <1>4 DEF ToSet
<1>7. FingersOf(q) = {f}
  BY <1>1, <1>6 DEF FingersOf
<1>8. ~Stays(wire \o q, Touching(f), Ending(f), f, Handled')
  BY <1>3, <1>4, <1>5, LastIsOff
<1> QED BY <1>4, <1>7, <1>8 DEF TouchStays, q, e, d

LEMMA TouchDownInv ==
  ASSUME AllTyped, AllTyped', TouchInv, NEW f \in Fingers, NEW double \in BOOLEAN, FingerDown(f, double)
  PROVE TouchInv'
<1>1. UNCHANGED <<conn, server, mode>> /\ fingers' = fingers \cup {f}
  BY DEF FingerDown
<1>2. CASE mode = "touch"
  <2>1. Send(<<Touch("begin", f)>>, {}, {})
    BY <1>2 DEF FingerDown
  <2> DEFINE evs == <<Touch("begin", f)>>
  <2>2. evs \in Seq(Events) /\ FingersOf(evs) = {f} /\ (wire' = wire \o evs => TouchStays(f)')
    BY TouchBegun
  <2> HIDE DEF evs
  <2>3. conn => TouchStays(f)'
    BY <2>1, <2>2 DEF Send, evs
  <2>4. Send(evs, {}, {})
    BY <2>1 DEF evs
  <2>5. \A g \in Fingers \ {} :
          IF g \in FingersOf(evs)
          THEN conn => (TouchStays(g)' <=> (mode' = "touch" /\ g \in fingers'))
          ELSE (mode' = "touch" /\ g \in fingers') <=> (mode = "touch" /\ g \in fingers)
    BY <1>1, <1>2, <2>2, <2>3
  <2> QED BY <1>1, <2>2, <2>4, <2>5, TouchSent
<1>3. CASE mode # "touch"
  <2> DEFINE evs == IF double THEN <<Mouse(Left, TRUE)>> ELSE << >>
  <2>1. Send(evs, {}, {})
    BY <1>3 DEF FingerDown
  <2>2. Mouse(Left, TRUE) \in Events /\ Mouse(Left, TRUE).t = "mouse"
    <3>1. Left \in Buttons
      BY DEF Left, Buttons
    <3>2. Mouse(Left, TRUE) \in Events
      BY <3>1, MadeEvents DEF Events
    <3> QED BY <3>2 DEF Mouse
  <2>3. evs \in Seq(Events) /\ \A i \in DOMAIN evs : evs[i].t # "touch"
    <3>1. CASE double
      <4> DEFINE e == Mouse(Left, TRUE)
      <4> HIDE DEF e
      <4>1. e \in Events /\ e.t = "mouse" /\ evs = <<e>>
        BY <2>2, <3>1 DEF e
      <4>2. <<e>> \in Seq(Events) /\ \A i \in DOMAIN <<e>> : <<e>>[i] = e
        BY <4>1
      <4> QED BY <4>1, <4>2
    <3>2. CASE ~double
      BY <3>2, NoEvents
    <3> QED BY <3>1, <3>2
  <2> HIDE DEF evs
  <2> QED BY <1>1, <1>3, <2>1, <2>3, TouchQuiet
<1> QED BY <1>2, <1>3

LEMMA TouchUpInv ==
  ASSUME AllTyped, AllTyped', TouchInv, NEW f \in Fingers, NEW inside \in BOOLEAN, FingerUp(f, inside)
  PROVE TouchInv'
<1>1. UNCHANGED <<conn, server, mode>> /\ fingers' = fingers \ {f}
  BY DEF FingerUp
<1>2. CASE mode = "touch"
  <2>1. Send(<<Touch("update", f), Touch("end", f)>>, {}, {})
    BY <1>2 DEF FingerUp
  <2> DEFINE evs == <<Touch("update", f), Touch("end", f)>>
  <2>2. evs \in Seq(Events) /\ FingersOf(evs) = {f} /\ (wire' = wire \o evs => ~TouchStays(f)')
    BY TouchEnded
  <2> HIDE DEF evs
  <2>3. conn => ~TouchStays(f)'
    BY <2>1, <2>2 DEF Send, evs
  <2>4. Send(evs, {}, {})
    BY <2>1 DEF evs
  <2>5. \A g \in Fingers \ {} :
          IF g \in FingersOf(evs)
          THEN conn => (TouchStays(g)' <=> (mode' = "touch" /\ g \in fingers'))
          ELSE (mode' = "touch" /\ g \in fingers') <=> (mode = "touch" /\ g \in fingers)
    BY <1>1, <1>2, <2>2, <2>3
  <2> QED BY <1>1, <2>2, <2>4, <2>5, TouchSent
<1>3. CASE mode # "touch"
  <2> DEFINE last == fingers = {f}
             tapped == last /\ mode # "touch" /\ TapClicks(inside)
             evs == UpSends(last, tapped)
  <2>1. tapped => tap.count \in Buttons
    BY DEF TapClicks
  <2>2. last \in BOOLEAN /\ tapped \in BOOLEAN
    BY Zenon DEF TapClicks
  <2>3. Send(IF mode = "touch" THEN <<Touch("update", f), Touch("end", f)>> ELSE evs, {}, {})
    BY Zenon DEF FingerUp, UpSends
  <2> HIDE DEF last, tapped
  <2>4. evs \in Seq(Events) /\ \A i \in DOMAIN evs : evs[i] \in MouseEvents
    BY <2>1, <2>2, UpSent DEF AllTyped
  <2> HIDE DEF evs
  <2>5. \A i \in DOMAIN evs : evs[i].t # "touch"
    BY <2>4 DEF MouseEvents
  <2> QED BY <1>1, <1>3, <2>3, <2>4, <2>5, TouchQuiet
<1> QED BY <1>2, <1>3

LEMMA TouchCancelInv ==
  ASSUME AllTyped, AllTyped', TouchInv, NEW f \in Fingers, Cancel(f) PROVE TouchInv'
<1>1. UNCHANGED <<conn, server, mode>> /\ fingers' = {}
  BY DEF Cancel
<1>2. CASE mode = "touch"
  <2>1. Send(<<Touch("update", f), Touch("end", f)>>, fingers \ {f}, {})
    BY <1>2 DEF Cancel
  <2> DEFINE evs == <<Touch("update", f), Touch("end", f)>>
  <2>2. evs \in Seq(Events) /\ FingersOf(evs) = {f} /\ (wire' = wire \o evs => ~TouchStays(f)')
    BY TouchEnded
  <2> HIDE DEF evs
  <2>3. conn => ~TouchStays(f)'
    BY <2>1, <2>2 DEF Send, evs
  <2>4. Send(evs, fingers \ {f}, {})
    BY <2>1 DEF evs
  <2>5. \A g \in Fingers \ (fingers \ {f}) :
          IF g \in FingersOf(evs)
          THEN conn => (TouchStays(g)' <=> (mode' = "touch" /\ g \in fingers'))
          ELSE (mode' = "touch" /\ g \in fingers') <=> (mode = "touch" /\ g \in fingers)
    BY <1>1, <1>2, <2>2, <2>3
  <2> QED BY <1>1, <2>2, <2>4, <2>5, TouchSent
<1>3. CASE mode # "touch"
  <2> DEFINE nd == {<<"mouse", held>>} \ {<<"mouse", NoButton>>}
  <2>1. Send(<< >>, {}, nd)
    BY <1>3 DEF Cancel
  <2> HIDE DEF nd
  <2> QED BY <1>1, <1>3, <2>1, NoEvents, TouchQuiet
<1> QED BY <1>2, <1>3

LEMMA TouchMissedInv ==
  ASSUME AllTyped, AllTyped', TouchInv, NEW f \in Fingers, MissedUp(f) PROVE TouchInv'
<1> DEFINE ns == IF mode = "touch" THEN {f} ELSE {}
           nd == IF fingers' = {} THEN {<<"mouse", held>>} \ {<<"mouse", NoButton>>} ELSE {}
<1>1. UNCHANGED <<conn, server, mode>> /\ fingers' = fingers \ {f} /\ Send(<< >>, ns, nd)
  BY DEF MissedUp
<1>2. \A g \in Fingers \ ns : (mode' = "touch" /\ g \in fingers') <=> (mode = "touch" /\ g \in fingers)
  BY <1>1
<1> HIDE DEF ns, nd
<1>3. FingersOf(<< >>) = {}
  BY NoFingers, NoEvents
<1> QED BY <1>1, <1>2, <1>3, NoEvents, TouchSent

\* The pointers S are touches then, those that never moved are not.
LEMMA TouchSwept ==
  ASSUME AllTyped, NEW S \in SUBSET Fingers, NEW gone \in SUBSET Fingers, S \cap gone = {}
  PROVE /\ FingersOf(Sweep(S, gone)) = S \cup gone
        /\ wire' = wire \o Sweep(S, gone) =>
             (\A g \in S : TouchStays(g)') /\ (\A g \in gone : ~TouchStays(g)')
<1> DEFINE u == ForEach("update", S)
           d == ForEach("end", gone)
           evs == u \o d
<1>1. Sweep(S, gone) = evs
  BY DEF Sweep
<1>2. /\ u \in Seq(Events)
      /\ \A i \in DOMAIN u : u[i] \in {Touch("update", g) : g \in S}
      /\ \A g \in S : \E i \in DOMAIN u : u[i] = Touch("update", g)
  BY ForEachSends
<1>3. /\ d \in Seq(Events)
      /\ \A i \in DOMAIN d : d[i] \in {Touch("end", g) : g \in gone}
      /\ \A g \in gone : \E i \in DOMAIN d : d[i] = Touch("end", g)
  BY ForEachSends
<1>4. evs \in Seq(Events) /\ wire \in Seq(Events)
  BY <1>2, <1>3, ConcatProperties DEF AllTyped, WireTyped
<1> HIDE DEF u, d
<1>5. ToSet(evs) = ToSet(u) \cup ToSet(d)
  BY <1>2, <1>3, ConcatSet
<1>6. FingersOf(evs) = S \cup gone
  <2>1. ToSet(u) = {Touch("update", g) : g \in S} /\ ToSet(d) = {Touch("end", g) : g \in gone}
    BY <1>2, <1>3 DEF ToSet
  <2>2. \A g : \A kind : Touch(kind, g).t = "touch" /\ Touch(kind, g).f = g
    BY DEF Touch
  <2>3. ASSUME NEW g \in FingersOf(evs) PROVE g \in S \cup gone
    <3>1. PICK e \in ToSet(u) \cup ToSet(d) : e.f = g
      BY <1>5, <2>3 DEF FingersOf
    <3> QED BY <2>1, <2>2, <3>1
  <2>4. ASSUME NEW g \in S PROVE g \in FingersOf(evs)
    <3>1. Touch("update", g) \in ToSet(evs)
      BY <1>5, <2>1
    <3> QED BY <2>2, <3>1 DEF FingersOf
  <2>5. ASSUME NEW g \in gone PROVE g \in FingersOf(evs)
    <3>1. Touch("end", g) \in ToSet(evs)
      BY <1>5, <2>1
    <3> QED BY <2>2, <3>1 DEF FingersOf
  <2> QED BY <2>3, <2>4, <2>5
<1>7. wire' = wire \o evs => wire' = (wire \o u) \o d
  BY <1>2, <1>3, <1>4, ConcatAssociative
<1>8. wire \o u \in Seq(Events)
  BY <1>2, <1>4, ConcatProperties
<1>9. ASSUME wire' = wire \o evs, NEW g \in S PROVE TouchStays(g)'
  <2>1. PICK n \in DOMAIN u : u[n] = Touch("update", g)
    BY <1>2
  <2>2. u[n] \in Touching(g) /\ \A i \in DOMAIN u : u[i] \notin Ending(g)
    BY <1>2, <2>1, TouchesApart DEF Touching
  <2>3. Stays(wire \o u, Touching(g), Ending(g), g, Handled')
    BY <1>2, <1>4, <2>2, LastIsOn
  <2>4. \A i \in DOMAIN d : d[i] \notin Ending(g)
    BY <1>3, TouchesApart
  <2>5. Stays((wire \o u) \o d, Touching(g), Ending(g), g, Handled')
    BY <1>3, <1>8, <2>3, <2>4, StaysAdded
  <2> QED BY <1>7, <1>9, <2>5 DEF TouchStays
<1>10. ASSUME wire' = wire \o evs, NEW g \in gone PROVE ~TouchStays(g)'
  <2>1. PICK n \in DOMAIN d : d[n] = Touch("end", g)
    BY <1>3
  <2>2. d[n] \in Ending(g) /\ \A i \in DOMAIN d : d[i] \notin Touching(g)
    BY <1>3, <2>1, TouchesApart DEF Ending
  <2>3. ~Stays((wire \o u) \o d, Touching(g), Ending(g), g, Handled')
    BY <1>3, <1>8, <2>2, LastIsOff
  <2> QED BY <1>7, <1>10, <2>3 DEF TouchStays
<1> HIDE DEF evs
<1> QED BY <1>1, <1>6, <1>9, <1>10

\* sendTouchEvent updates the fingers there are and ends those that never moved.
LEMMA TouchMoveInv ==
  ASSUME AllTyped, AllTyped', TouchInv, NEW far \in BOOLEAN, FingerMove(far) PROVE TouchInv'
<1>1. UNCHANGED <<conn, server, mode, fingers>>
  BY DEF FingerMove
<1>2. CASE mode # "touch"
  <2>1. UNCHANGED <<wire, stray>>
    BY <1>2 DEF FingerMove
  <2> QED BY <1>1, <2>1 DEF TouchInv, TouchStays, Handled, server
<1>3. CASE mode = "touch"
  <2> DEFINE gone == Fingers \ pointers'
             evs == Sweep(fingers, gone)
  <2>1. fingers \in SUBSET Fingers /\ fingers \cap gone = {} /\ Send(evs, {}, {})
    BY <1>3 DEF FingerMove, Sweep, AllTyped, ActivityTyped
  <2>2. /\ evs \in Seq(Events) /\ FingersOf(evs) = fingers \cup gone
        /\ wire' = wire \o evs => (\A g \in fingers : TouchStays(g)') /\ (\A g \in gone : ~TouchStays(g)')
    BY <2>1, SweepSends, TouchSwept
  <2> HIDE DEF evs, gone
  <2>3. conn => wire' = wire \o evs
    BY <2>1 DEF Send
  <2>4. \A g \in Fingers \ {} :
          IF g \in FingersOf(evs)
          THEN conn => (TouchStays(g)' <=> (mode' = "touch" /\ g \in fingers'))
          ELSE (mode' = "touch" /\ g \in fingers') <=> (mode = "touch" /\ g \in fingers)
    BY <1>1, <1>3, <2>1, <2>2, <2>3
  <2> QED BY <1>1, <2>1, <2>2, <2>4, TouchSent
<1> QED BY <1>2, <1>3

\* Pointers that hover are stray; the touches of those that never moved are ended.
LEMMA TouchHoverInv ==
  ASSUME AllTyped, AllTyped', TouchInv, NEW S \in SUBSET Fingers, Hover(S) PROVE TouchInv'
<1> DEFINE gone == Fingers \ pointers'
           evs == Sweep(S, gone)
<1>1. /\ UNCHANGED <<conn, server, mode, fingers>> /\ fingers = {} /\ S \cap gone = {}
      /\ Send(evs, S, {})
  BY DEF Hover, Sweep
<1>2. /\ evs \in Seq(Events) /\ FingersOf(evs) = S \cup gone
      /\ wire' = wire \o evs => \A g \in gone : ~TouchStays(g)'
  BY <1>1, SweepSends, TouchSwept
<1> HIDE DEF evs, gone
<1>3. conn => wire' = wire \o evs
  BY <1>1 DEF Send
<1>4. \A g \in Fingers \ S :
        IF g \in FingersOf(evs)
        THEN conn => (TouchStays(g)' <=> (mode' = "touch" /\ g \in fingers'))
        ELSE (mode' = "touch" /\ g \in fingers') <=> (mode = "touch" /\ g \in fingers)
  BY <1>1, <1>2, <1>3
<1> QED BY <1>1, <1>2, <1>4, TouchSent

LEMMA TouchOthersInv ==
  ASSUME AllTyped, AllTyped', TouchInv,
         \/ \E inside \in BOOLEAN : LongPress(inside)
         \/ TapTimeout
         \/ \E bs \in SUBSET MouseButtons : MouseEvent(bs)
         \/ \E tool \in Tools, bs \in SUBSET MouseButtons, moved \in BOOLEAN : StylusEvent(tool, bs, moved)
         \/ refreshInputDevices
  PROVE TouchInv'
<1>1. UNCHANGED <<conn, server, mode, fingers>>
  BY DEF LongPress, TapTimeout, MouseEvent, StylusEvent, refreshInputDevices
<1>2. ASSUME NEW e \in Events, e.t # "touch", NEW nd, Send(<<e>>, {}, nd) PROVE TouchInv'
  <2>1. <<e>> \in Seq(Events) /\ \A i \in DOMAIN <<e>> : <<e>>[i] = e
    BY <1>2
  <2> QED BY <1>1, <1>2, <2>1, TouchQuiet
<1>3. ASSUME NEW nd, Send(<< >>, {}, nd) PROVE TouchInv'
  BY <1>1, <1>3, NoEvents, TouchQuiet
<1>4. ASSUME NEW b \in Buttons, NEW down \in BOOLEAN PROVE Mouse(b, down) \in Events /\ Mouse(b, down).t = "mouse"
  BY MadeEvents DEF Events, Mouse
<1>5. ASSUME NEW inside \in BOOLEAN, LongPress(inside) PROVE TouchInv'
  <2>1. \E nd : Send(<< >>, {}, nd) \/ (tap.count \in Buttons /\ Send(<<Mouse(tap.count, TRUE)>>, {}, nd))
    BY <1>5 DEF LongPress
  <2>2. tap.count \in Buttons => Mouse(tap.count, TRUE) \in Events /\ Mouse(tap.count, TRUE).t # "touch"
    BY <1>4
  <2> QED BY <1>2, <1>3, <2>1, <2>2
<1>6. CASE TapTimeout
  <2>1. Send(<< >>, {}, {}) \/ Send(<<Mouse(Left, TRUE), Mouse(Left, FALSE)>>, {}, {})
    BY <1>6 DEF TapTimeout, Click
  <2> DEFINE e == Mouse(Left, TRUE)
             d == Mouse(Left, FALSE)
  <2>2. e \in Events /\ e.t = "mouse" /\ d \in Events /\ d.t = "mouse"
    <3>1. Left \in Buttons
      BY DEF Left, Buttons
    <3> QED BY <1>4, <3>1
  <2> HIDE DEF e, d
  <2>3. <<e, d>> \in Seq(Events) /\ \A i \in DOMAIN <<e, d>> : <<e, d>>[i] \in {e, d}
    BY <2>2
  <2>4. \A i \in DOMAIN <<e, d>> : <<e, d>>[i].t # "touch"
    BY <2>2, <2>3
  <2>5. Send(<<e, d>>, {}, {}) => TouchInv'
    BY <1>1, <2>3, <2>4, TouchQuiet
  <2> QED BY <1>3, <2>1, <2>5 DEF e, d
<1>7. ASSUME NEW bs \in SUBSET MouseButtons, MouseEvent(bs) PROVE TouchInv'
  <2>1. bs \in SUBSET Buttons /\ mouse \in SUBSET Buttons
    BY DEF AllTyped, ActivityTyped, MouseButtons, Left, Buttons
  <2>2. Send(MouseSends(bs), {}, {})
    BY <1>7, Zenon DEF MouseEvent, MouseSends
  <2> DEFINE evs == MouseSends(bs)
  <2>3. evs \in Seq(Events) /\ \A i \in DOMAIN evs : \E b \in Buttons : evs[i] = Mouse(b, b \in bs)
    BY <2>1, MouseSent
  <2> HIDE DEF evs
  <2>4. \A i \in DOMAIN evs : evs[i].t # "touch"
    BY <2>3 DEF Mouse
  <2> QED BY <1>1, <2>2, <2>3, <2>4, TouchQuiet DEF evs
<1>8. ASSUME NEW tool \in Tools, NEW bs \in SUBSET MouseButtons, NEW moved \in BOOLEAN, StylusEvent(tool, bs, moved)
      PROVE TouchInv'
  <2>1. PICK e \in StylusEvents : \E nd : Send(<<e>>, {}, nd)
    BY <1>8, StylusSends
  <2>2. e \in Events /\ e.t # "touch"
    BY DEF Events, StylusEvents
  <2> QED BY <1>2, <2>1, <2>2
<1>9. CASE refreshInputDevices
  <2> DEFINE e == [t |-> "enable", on |-> avail']
  <2>1. avail' \in BOOLEAN
    BY <1>9, Zenon DEF refreshInputDevices
  <2>2. e \in Events /\ e.t # "touch"
    BY <2>1, MadeEvents DEF Events
  <2>3. Send(<<e>>, {}, {})
    BY <1>9 DEF refreshInputDevices
  <2> HIDE DEF e
  <2> QED BY <1>2, <2>2, <2>3
<1> QED BY <1>5, <1>6, <1>7, <1>8, <1>9

LEMMA TouchReloadInv ==
  ASSUME AllTyped, AllTyped', TouchInv, NEW m \in Modes, NEW am \in BOOLEAN, NEW scan \in BOOLEAN,
         reloadPreferences(m, am, scan)
  PROVE TouchInv'
<1> DEFINE e == [t |-> "enable", on |-> avail]
           nd == {<<"mouse", held>>} \ {<<"mouse", NoButton>>}
           ns == IF m # mode THEN fingers ELSE {}
<1>1. Send(<<e>>, ns, nd) /\ UNCHANGED <<conn, server, fingers>> /\ mode' = m
  BY DEF reloadPreferences
<1>2. e \in Events /\ e.t # "touch"
  BY MadeEvents DEF Events, AllTyped, ActivityTyped
<1> HIDE DEF e, nd
<1>3. <<e>> \in Seq(Events) /\ \A i \in DOMAIN <<e>> : <<e>>[i] = e
  BY <1>2
<1>4. FingersOf(<<e>>) = {}
  BY <1>2, <1>3, NoFingers
<1>5. \A g \in Fingers \ ns : (mode' = "touch" /\ g \in fingers') <=> (mode = "touch" /\ g \in fingers)
  BY <1>1
<1> HIDE DEF ns
<1> QED BY <1>1, <1>3, <1>4, <1>5, TouchSent

\* What the keyboard does
LEMMA KeySends ==
  ASSUME AllTyped, KeyStep
  PROVE /\ \E evs \in Seq(KeyEvents) : Send(evs, {}, {})
        /\ UNCHANGED <<user, activity, server>>
<1>1. ASSUME NEW k \in Keys, KeyDown(k) \/ KeyRepeat(k)
      PROVE (\E evs \in Seq(KeyEvents) : Send(evs, {}, {})) /\ UNCHANGED <<user, activity, server>>
  <2> DEFINE evs == IF Typed THEN TextEvent ELSE <<Key(CodeOf(k), TRUE)>>
  <2>1. evs \in Seq(KeyEvents)
    BY TextTyped, CodesTyped, OneEvent DEF AllTyped
  <2>2. PICK nu : KeyPress(k, nu)
    BY <1>1 DEF KeyDown, KeyRepeat
  <2>3. Send(evs, {}, {}) /\ UNCHANGED <<user, activity, server>>
    BY <2>2, Zenon DEF KeyPress, SendKeys
  <2> QED BY <2>1, <2>3
<1>2. ASSUME NEW k \in Keys, NEW canceled \in BOOLEAN, KeyUp(k, canceled)
      PROVE (\E evs \in Seq(KeyEvents) : Send(evs, {}, {})) /\ UNCHANGED <<user, activity, server>>
  <2> DEFINE text == ~keyboard.scan /\ k \in keyboard.text
             evs == IF canceled \/ text THEN << >> ELSE <<Key(CodeOf(k), FALSE)>>
  <2>1. evs \in Seq(KeyEvents)
    BY CodesTyped, OneEvent, EmptySeq DEF AllTyped
  <2>2. Send(evs, {}, {}) /\ UNCHANGED <<user, activity, server>>
    BY <1>2, Zenon DEF KeyUp, SendKeys
  <2> QED BY <2>1, <2>2
<1>3. ASSUME NEW m \in Mods, Modifier(m)
      PROVE (\E evs \in Seq(KeyEvents) : Send(evs, {}, {})) /\ UNCHANGED <<user, activity, server>>
  <2> DEFINE e == Key(m, m \notin keyboard.mods)
  <2>1. e \in KeyEvents
    <3>1. m \in Codes
      BY DEF Codes
    <3>2. (m \notin keyboard.mods) \in BOOLEAN
      BY SMT
    <3> QED BY <3>1, <3>2, MadeEvents
  <2>2. Send(<<e>>, {}, {}) /\ UNCHANGED <<user, activity, server>>
    BY <1>3, Zenon DEF Modifier, SendKeys
  <2> HIDE DEF e
  <2>3. <<e>> \in Seq(KeyEvents)
    BY <2>1, OneEvent
  <2> QED BY <2>2, <2>3
<1> QED BY <1>1, <1>2, <1>3 DEF KeyStep

LEMMA TouchKeysInv == ASSUME AllTyped, AllTyped', TouchInv, KeyStep PROVE TouchInv'
<1>1. PICK evs \in Seq(KeyEvents) : Send(evs, {}, {})
  BY KeySends
<1>2. UNCHANGED <<conn, server, mode, fingers>>
  BY KeySends DEF activity
<1>3. evs \in Seq(Events)
  BY SeqMonotonic DEF Events
<1>4. \A i \in DOMAIN evs : evs[i].t # "touch"
  <2>1. \A i \in DOMAIN evs : evs[i] \in KeyEvents
    BY LenProperties
  <2> QED BY <2>1 DEF KeyEvents
<1> QED BY <1>1, <1>2, <1>3, <1>4, TouchQuiet

LEMMA TouchReadInv == ASSUME AllTyped, TouchInv, ServerStep PROVE TouchInv'
<1>1. UNCHANGED <<conn, mode, fingers, stray>>
  BY DEF ServerStep, ReadTouch, handleTouchEvent, ReadMouse, ReadStylus, ReadStylusEnable, ReadKey, activity, history
<1>2. wire \in Seq(Events) /\ work \in Seq(TouchEvents)
  BY DEF AllTyped, WireTyped, ServerTyped
<1>3. ASSUME NEW f \in Fingers PROVE TouchStays(f)' <=> TouchStays(f)
  <2>1. Touching(f) \cap Ending(f) = {}
    BY TouchesApart
  <2>2. CASE ReadTouch
    <3> DEFINE e == Head(wire)
    <3>1. wire # << >> /\ e \in TouchEvents /\ wire' = Tail(wire) /\ work' = Append(work, e) /\ touches' = touches
      BY <2>2, ReadsTyped, EventKinds DEF ReadTouch
    <3> HIDE DEF e
    <3>2. work' = work \o <<e>> /\ <<e>> \in Seq(TouchEvents) /\ 1 \in DOMAIN <<e>> /\ \A i \in DOMAIN <<e>> : i = 1 /\ <<e>>[i] = e
      BY <1>2, <3>1
    <3>3. Stays(work', Touching(f), Ending(f), f, touches) <=>
            (e \in Touching(f) \/ (Stays(work, Touching(f), Ending(f), f, touches) /\ e \notin Ending(f)))
      <4> DEFINE q == <<e>>
      <4> HIDE DEF q
      <4>1. q \in Seq(TouchEvents) /\ 1 \in DOMAIN q /\ \A i \in DOMAIN q : i = 1 /\ q[i] = e
        BY <3>2 DEF q
      <4>2. Stays(q, Touching(f), Ending(f), f, {}) <=> e \in Touching(f)
        <5>1. ~(1 > 1)
          OBVIOUS
        <5> QED BY <4>1, <5>1 DEF Stays
      <4>3. (\A i \in DOMAIN q : q[i] \notin Ending(f)) <=> e \notin Ending(f)
        BY <4>1
      <4>4. Stays(work \o q, Touching(f), Ending(f), f, touches) <=>
              Stays(q, Touching(f), Ending(f), f, {})
              \/ (Stays(work, Touching(f), Ending(f), f, touches) /\ \A i \in DOMAIN q : q[i] \notin Ending(f))
        BY <1>2, <4>1, StaysAdded
      <4> QED BY <3>2, <4>2, <4>3, <4>4 DEF q
    <3>4. f \in Handled' <=> (e \in Touching(f) \/ (f \in Handled /\ e \notin Ending(f)))
      BY <3>1, <3>3 DEF Handled
    <3>5. Stays(Tail(wire), Touching(f), Ending(f), f, Handled') <=> TouchStays(f)
      BY <1>2, <2>1, <3>1, <3>4, StaysTaken DEF TouchStays, e
    <3> QED BY <3>1, <3>5 DEF TouchStays
  <2>3. CASE handleTouchEvent
    <3> DEFINE e == Head(work)
    <3>1. work # << >> /\ work' = Tail(work) /\ wire' = wire
      BY <2>3 DEF handleTouchEvent
    <3>2. touches' = IF e.kind = "end" THEN touches \ {e.f} ELSE touches \cup {e.f}
      BY <2>3 DEF handleTouchEvent
    <3>3. e \in TouchEvents
      BY <1>2, <3>1, HeadTailProperties
    <3> HIDE DEF e
    <3>4. ASSUME NEW g \in Fingers PROVE g \in Handled' <=> g \in Handled
      <4>1. e = Touch(e.kind, e.f) /\ e.kind \in {"begin", "update", "end"}
        BY <3>3 DEF TouchEvents, Touch
      <4>2. g \in touches' <=> (e \in Touching(g) \/ (g \in touches /\ e \notin Ending(g)))
        <5>1. CASE e.kind = "end"
          <6>1. e \notin Touching(g) /\ (e \in Ending(g) <=> e.f = g)
            BY <4>1, <5>1 DEF Touching, Ending, Touch
          <6> QED BY <3>2, <5>1, <6>1
        <5>2. CASE e.kind # "end"
          <6>1. e \notin Ending(g) /\ (e \in Touching(g) <=> e.f = g)
            BY <4>1, <5>2 DEF Touching, Ending, Touch
          <6> QED BY <3>2, <5>2, <6>1
        <5> QED BY <5>1, <5>2
      <4>3. Touching(g) \cap Ending(g) = {}
        BY TouchesApart
      <4>4. Stays(Tail(work), Touching(g), Ending(g), g, touches') <=> Stays(work, Touching(g), Ending(g), g, touches)
        BY <1>2, <3>1, <4>2, <4>3, StaysTaken DEF e
      <4> QED BY <3>1, <4>4 DEF Handled
    <3>5. Handled' = Handled
      BY <3>4 DEF Handled
    <3> QED BY <3>1, <3>5 DEF TouchStays
  <2>4. CASE \E t : t # "touch" /\ Reading(t) /\ UNCHANGED <<work, touches>>
    <3>1. wire # << >> /\ Head(wire).t # "touch" /\ wire' = Tail(wire) /\ Handled' = Handled
      BY <2>4 DEF Reading, Handled
    <3>2. Head(wire) \notin Touching(f) /\ Head(wire) \notin Ending(f)
      BY <3>1 DEF Touching, Ending, Touch
    <3>3. Stays(Tail(wire), Touching(f), Ending(f), f, Handled) <=> TouchStays(f)
      BY <1>2, <2>1, <3>1, <3>2, StaysPassed DEF TouchStays
    <3> QED BY <3>1, <3>3 DEF TouchStays
  <2> QED BY <2>2, <2>3, <2>4 DEF ServerStep, ReadMouse, ReadStylus, ReadStylusEnable, ReadKey, server
<1> QED BY <1>1, <1>3 DEF TouchInv

LEMMA TouchInvInit == Init => TouchInv
<1> SUFFICES ASSUME Init PROVE TouchInv
  OBVIOUS
<1>1. \A f \in Fingers : ~TouchStays(f)
  <2>1. Handled = {}
    BY StaysEmpty DEF Init, Handled
  <2> QED BY <2>1, StaysEmpty DEF Init, TouchStays
<1> QED BY <1>1 DEF Init, TouchInv

LEMMA TouchInvNext == AllTyped /\ AllTyped' /\ TouchInv /\ [Next]_vars => TouchInv'
<1> SUFFICES ASSUME AllTyped, AllTyped', TouchInv, [Next]_vars PROVE TouchInv'
  OBVIOUS
<1>1. CASE PointerStep
  BY <1>1, TouchDownInv, TouchUpInv, TouchCancelInv, TouchMissedInv, TouchMoveInv, TouchHoverInv,
     TouchOthersInv DEF PointerStep
<1>2. CASE \E m \in Modes, am, scan \in BOOLEAN : reloadPreferences(m, am, scan)
  BY <1>2, TouchReloadInv
<1>3. CASE KeyStep
  BY <1>3, TouchKeysInv
<1>4. CASE ServerStep
  BY <1>4, TouchReadInv
<1>5. CASE Hangup
  BY <1>5 DEF Hangup, TouchInv
<1>6. CASE Reconnect
  BY <1>6 DEF Reconnect, TouchInv, history
<1>7. CASE UNCHANGED vars
  BY <1>7 DEF vars, activity, server, history, TouchInv, TouchStays, Handled
<1> QED
  BY <1>1, <1>2, <1>3, <1>4, <1>5, <1>6, <1>7, Steps

(***************************************************************************)
(* The touches of the X device follow the fingers, for any set of pointer  *)
(* ids: after the work of the main thread and the events on the socket, a  *)
(* finger that is not stray is an active touch exactly if it is on the     *)
(* screen and touches are sent as such.                                    *)
(***************************************************************************)
THEOREM TouchesAreMatched == Spec => []TouchesMatch
<1>1. TouchInv => TouchesMatch
  <2>1. ASSUME TouchInv, Quiet, NEW f \in Fingers \ stray PROVE f \in touches <=> (mode = "touch" /\ f \in fingers)
    <3>1. f \in Handled <=> f \in touches
      BY <2>1, StaysEmpty DEF Quiet, Handled
    <3>2. TouchStays(f) <=> f \in touches
      BY <2>1, <3>1, StaysEmpty DEF Quiet, TouchStays
    <3> QED BY <2>1, <3>2 DEF TouchInv, Quiet
  <2> QED BY <2>1 DEF TouchesMatch
<1> QED
  BY <1>1, TypedInit, TypedNext, TouchInvInit, TouchInvNext, PTL DEF Spec
-----------------------------------------------------------------------------
(* The stylus *)

Has(x, d, b) == x.dev = d /\ b \in x.buttons

\* Does the state of a stylus wait on the socket, and is the last of them x?
Same(x) == {e \in StylusEvents : e.dev = x.dev /\ e.buttons = x.buttons}
Pending == Stays(wire, StylusEvents, {}, 0, {})
LastIs(x) == Stays(wire, Same(x), StylusEvents \ Same(x), 0, {})

\* Without a connection nothing is known, and nothing is on its way.
Lost == ~conn => doubt = Devices \X Buttons /\ wire = << >>

\* The server's devices follow its buttons_prev ...
DevicesFollow ==
  present => \A d \in Tools, b \in Buttons : <<d, b>> \in doubt \/ (b \in pressed[d] <=> Has(prev, d, b))

\* ... which follows what StylusListener has sent last.
PrevFollows ==
  IF Pending THEN LastIs(stylus)
             ELSE \A d \in Tools, b \in Buttons : <<d, b>> \in doubt \/ (Has(prev, d, b) <=> Has(stylus, d, b))

\* buttons_prev outlives the devices.
PrevOutlives == ~present => \A d \in Tools, b \in Buttons : Has(prev, d, b) => <<d, b>> \in doubt

StylusInv == Lost /\ DevicesFollow /\ PrevFollows /\ PrevOutlives

LEMMA ToolsApart == "mouse" \notin Tools /\ Tools \subseteq Devices /\ "mouse" \in Devices
  BY DEF Tools, Devices

\* The events that are sent take only buttons of the mouse out of doubt.
LEMMA DoubtKept ==
  ASSUME NEW evs, NEW ns, NEW nd, Send(evs, ns, nd), NEW d \in Tools, NEW b, <<d, b>> \in doubt
  PROVE <<d, b>> \in doubt'
<1>1. <<d, b>> \notin Releases(evs)
  BY ToolsApart DEF Releases
<1> QED BY <1>1 DEF Send

LEMMA LostKept ==
  ASSUME AllTyped', Lost, UNCHANGED conn, NEW evs, NEW ns, NEW nd, Send(evs, ns, nd) PROVE Lost'
<1>1. ~conn => wire' = wire /\ doubt \subseteq doubt'
  BY DEF Send
<1> QED BY <1>1 DEF Lost, AllTyped, WireTyped

LEMMA StylusQuiet ==
  ASSUME AllTyped, AllTyped', StylusInv, UNCHANGED <<conn, pressed, prev, present, stylus>>,
         NEW evs \in Seq(Events), \A i \in DOMAIN evs : evs[i].t # "stylus", NEW ns, NEW nd, Send(evs, ns, nd)
  PROVE StylusInv' /\ (Pending' <=> Pending)
<1>1. \A d \in Tools, b \in Buttons : <<d, b>> \in doubt => <<d, b>> \in doubt'
  BY DoubtKept
<1>2. Lost'
  BY LostKept DEF StylusInv
<1>3. wire \in Seq(Events) /\ \A i \in DOMAIN evs : evs[i] \notin StylusEvents
  BY DEF AllTyped, WireTyped, StylusEvents
<1>4. (Pending' <=> Pending) /\ (LastIs(stylus)' <=> LastIs(stylus))
  <2>1. CASE wire' = wire
    BY <2>1 DEF Pending, LastIs
  <2>2. CASE wire' = wire \o evs
    <3>1. Stays(wire \o evs, StylusEvents, {}, 0, {}) <=> Pending
      BY <1>3, StaysBeside DEF Pending
    <3>2. \A i \in DOMAIN evs : evs[i] \notin Same(stylus) /\ evs[i] \notin StylusEvents \ Same(stylus)
      BY <1>3 DEF Same
    <3>3. Stays(wire \o evs, Same(stylus), StylusEvents \ Same(stylus), 0, {}) <=> LastIs(stylus)
      BY <1>3, <3>2, StaysBeside DEF LastIs
    <3> QED BY <2>2, <3>1, <3>3 DEF Pending, LastIs
  <2> QED BY <2>1, <2>2 DEF Send
<1>5. DevicesFollow' /\ PrevOutlives'
  BY <1>1 DEF StylusInv, DevicesFollow, PrevOutlives
<1>6. PrevFollows'
  BY <1>1, <1>4 DEF StylusInv, PrevFollows
<1> QED BY <1>2, <1>4, <1>5, <1>6 DEF StylusInv

LEMMA StylusEventInv ==
  ASSUME AllTyped, AllTyped', StylusInv, NEW tool \in Tools, NEW bs \in SUBSET MouseButtons,
         NEW moved \in BOOLEAN, StylusEvent(tool, bs, moved)
  PROVE StylusInv' /\ (conn => Pending')
<1>1. PICK e \in StylusEvents :
        /\ stylus' = [dev |-> e.dev, buttons |-> e.buttons]
        /\ Send(<<e>>, {}, IF conn THEN {} ELSE Devices \X (bs \cup stylus.buttons))
        /\ UNCHANGED <<user, conn, fingers, mode, held, pointers, tap, click, mouse, typing, server>>
  BY StylusSends
<1> DEFINE nd == IF conn THEN {} ELSE Devices \X (bs \cup stylus.buttons)
<1> HIDE DEF nd
<1>2. Send(<<e>>, {}, nd) /\ UNCHANGED <<conn, pressed, prev, present>>
  BY <1>1 DEF nd, server
<1>3. \A d \in Tools, b \in Buttons : <<d, b>> \in doubt => <<d, b>> \in doubt'
  BY <1>2, DoubtKept
<1>4. Lost'
  BY <1>2, LostKept DEF StylusInv
<1>5. DevicesFollow' /\ PrevOutlives'
  BY <1>2, <1>3 DEF StylusInv, DevicesFollow, PrevOutlives
<1>6. CASE ~conn
  <2>1. doubt' = Devices \X Buttons /\ wire' = << >>
    BY <1>2, <1>4, <1>6 DEF Lost
  <2>2. ~Pending'
    BY <2>1, StaysEmpty DEF Pending
  <2>3. PrevFollows'
    BY <2>1, <2>2, ToolsApart DEF PrevFollows
  <2> QED BY <1>4, <1>5, <1>6, <2>3 DEF StylusInv
<1>7. CASE conn
  <2> DEFINE q == <<e>>
  <2>1. q \in Seq(Events) /\ 1 \in DOMAIN q /\ \A i \in DOMAIN q : i = 1 /\ q[i] = e
    BY DEF Events
  <2> HIDE DEF q
  <2>2. wire' = wire \o q /\ wire \in Seq(Events)
    BY <1>2, <1>7 DEF Send, q, AllTyped, WireTyped
  <2>3. q[1] \in StylusEvents /\ q[1] \in Same(stylus') /\ \A i \in DOMAIN q : ~(i > 1)
    BY <1>1, <2>1 DEF Same
  <2>4. Pending'
    BY <2>1, <2>2, <2>3, LastIsOn DEF Pending
  <2>5. LastIs(stylus)'
    BY <2>1, <2>2, <2>3, LastIsOn DEF LastIs
  <2> QED BY <1>4, <1>5, <2>4, <2>5 DEF StylusInv, PrevFollows
<1> QED BY <1>6, <1>7 DEF AllTyped, ActivityTyped

\* An event that is no state of a stylus is read.
LEMMA PendingPassed ==
  ASSUME AllTyped, NEW t, Reading(t), t # "stylus"
  PROVE (Pending' <=> Pending) /\ \A x : Stays(wire', Same(x), StylusEvents \ Same(x), 0, {}) <=> LastIs(x)
<1>1. wire \in Seq(Events) /\ wire # << >> /\ wire' = Tail(wire) /\ Head(wire) \notin StylusEvents
  BY DEF AllTyped, WireTyped, Reading, StylusEvents
<1>2. Stays(Tail(wire), StylusEvents, {}, 0, {}) <=> Pending
  BY <1>1, StaysPassed DEF Pending
<1>3. ASSUME NEW x PROVE Stays(Tail(wire), Same(x), StylusEvents \ Same(x), 0, {}) <=> LastIs(x)
  <2>1. Head(wire) \notin Same(x) /\ Head(wire) \notin StylusEvents \ Same(x) /\ Same(x) \cap (StylusEvents \ Same(x)) = {}
    BY <1>1 DEF Same
  <2> QED BY <1>1, <2>1, StaysPassed DEF LastIs
<1> QED BY <1>1, <1>2, <1>3 DEF Pending

\* The state of a stylus is read: if it is the last, then it is that of the stylus, and if it is
\* not, then the last is still there.
LEMMA PendingTaken ==
  ASSUME AllTyped, Reading("stylus"), PrevFollows
  PROVE /\ Pending
        /\ Pending' => Stays(wire', Same(stylus), StylusEvents \ Same(stylus), 0, {})
        /\ ~Pending' => Head(wire) \in Same(stylus)
<1> DEFINE P == Same(stylus)
           R == StylusEvents \ Same(stylus)
           q == Tail(wire)
           h == Head(wire)
<1>1. wire \in Seq(Events) /\ wire # << >> /\ wire' = q
  BY DEF AllTyped, WireTyped, Reading
<1>2. h \in StylusEvents
  BY ReadsTyped, EventKinds
<1>3. P \cap R = {} /\ P \cup R = StylusEvents
  BY DEF Same
<1>4. Stays(q, StylusEvents, {}, 0, {0}) <=> Pending
  BY <1>1, <1>2, StaysTaken DEF Pending
<1>5. Pending
  BY <1>4 DEF Stays
<1>6. LastIs(stylus)
  BY <1>5 DEF PrevFollows
<1> DEFINE T == IF h \in P THEN {0} ELSE {}
<1>7. Stays(q, P, R, 0, T)
  <2>1. 0 \in T <=> (h \in P \/ (0 \in {} /\ h \notin R))
    OBVIOUS
  <2> HIDE DEF T, P, R
  <2>2. Stays(q, P, R, 0, T) <=> Stays(wire, P, R, 0, {})
    BY <1>1, <1>3, <2>1, StaysTaken
  <2> QED BY <1>6, <2>2 DEF LastIs, P, R
<1> HIDE DEF P, R, q, h
<1>8. ASSUME Pending' PROVE Stays(q, P, R, 0, {})
  <2>1. PICK i \in DOMAIN q : q[i] \in StylusEvents
    BY <1>1, <1>8 DEF Pending, Stays
  <2>2. CASE \A j \in DOMAIN q : q[j] \notin R
    BY <1>3, <2>1, <2>2 DEF Stays
  <2>3. CASE \E j \in DOMAIN q : q[j] \in R
    BY <1>7, <2>3 DEF Stays
  <2> QED BY <2>2, <2>3
<1>9. ASSUME ~Pending' PROVE h \in P
  <2>1. \A i \in DOMAIN q : q[i] \notin StylusEvents
    BY <1>1, <1>9 DEF Pending, Stays
  <2>2. 0 \in T
    BY <1>3, <1>7, <2>1 DEF Stays
  <2> QED BY <2>2
<1> QED BY <1>1, <1>5, <1>8, <1>9 DEF P, R, h

LEMMA StylusReadInv == ASSUME AllTyped, AllTyped', StylusInv, ReadStylus PROVE StylusInv'
<1> DEFINE e == Head(wire)
           switched == IF e.dev = prev.dev THEN {}
                       ELSE ({prev.dev} \X prev.buttons) \cup ({e.dev} \X (e.buttons \cap prev.buttons))
           cured == IF e.dev = "mouse" THEN {} ELSE {e.dev} \X (prev.buttons \ e.buttons)
<1>1. Reading("stylus") /\ UNCHANGED <<conn, stylus, present>>
  BY DEF ReadStylus, activity
<1>2. e \in StylusEvents /\ wire # << >>
  BY <1>1, ReadsTyped, EventKinds
<1>3. IF Exists(e.dev)
      THEN /\ pressed' = [pressed EXCEPT ![e.dev] = Compared(e.dev, e.buttons)]
           /\ prev' = [dev |-> e.dev, buttons |-> e.buttons]
           /\ doubt' = (doubt \ cured) \cup switched
      ELSE /\ doubt' = doubt \cup switched \cup ({e.dev} \X e.buttons)
           /\ UNCHANGED <<pressed, prev>>
  BY DEF ReadStylus
<1>4. e.dev \in Devices /\ e.buttons \in SUBSET Buttons /\ prev.dev \in Devices /\ prev.buttons \in SUBSET Buttons
  BY <1>2 DEF StylusEvents, AllTyped, ServerTyped, StylusStates
<1>5. conn /\ Lost'
  BY <1>1, <1>2 DEF StylusInv, Lost
<1>6. /\ Pending' => LastIs(stylus)'
      /\ ~Pending' => e.dev = stylus.dev /\ e.buttons = stylus.buttons
  <2>1. /\ Pending' => Stays(wire', Same(stylus), StylusEvents \ Same(stylus), 0, {})
        /\ ~Pending' => e \in Same(stylus)
    BY <1>1, PendingTaken DEF StylusInv
  <2> QED BY <1>1, <2>1 DEF LastIs, Same
<1> HIDE DEF e
<1>7. CASE Exists(e.dev)
  <2>1. /\ pressed' = [pressed EXCEPT ![e.dev] = Compared(e.dev, e.buttons)]
        /\ prev'.dev = e.dev /\ prev'.buttons = e.buttons
        /\ doubt' = (doubt \ cured) \cup switched
    BY <1>3, <1>7
  <2>2. DevicesFollow'
    <3> SUFFICES ASSUME present, NEW d \in Tools, NEW b \in Buttons
                 PROVE <<d, b>> \in doubt' \/ (b \in pressed'[d] <=> Has(prev', d, b))
      BY <1>1 DEF DevicesFollow
    <3>1. <<d, b>> \in doubt \/ (b \in pressed[d] <=> Has(prev, d, b))
      BY DEF StylusInv, DevicesFollow
    <3>2. CASE d # e.dev
      <4>1. pressed'[d] = pressed[d] /\ <<d, b>> \notin cured /\ ~Has(prev', d, b)
        BY <2>1, <3>2 DEF AllTyped, ServerTyped, Has
      <4>2. Has(prev, d, b) => <<d, b>> \in switched
        BY <3>2 DEF Has
      <4> QED BY <2>1, <3>1, <4>1, <4>2
    <3>3. CASE d = e.dev
      <4>1. pressed'[d] = (pressed[d] \ (prev.buttons \ e.buttons)) \cup (e.buttons \ prev.buttons)
        BY <1>4, <2>1, <3>3 DEF Compared, AllTyped, ServerTyped
      <4>2. Has(prev', d, b) <=> b \in e.buttons
        BY <2>1, <3>3 DEF Has
      <4>3. CASE (b \in prev.buttons /\ b \notin e.buttons) \/ (b \notin prev.buttons /\ b \in e.buttons)
        BY <4>1, <4>2, <4>3
      <4>4. CASE b \notin prev.buttons /\ b \notin e.buttons
        <5>1. <<d, b>> \notin cured /\ ~Has(prev, d, b)
          BY <4>4 DEF Has
        <5> QED BY <2>1, <3>1, <4>1, <4>2, <4>4, <5>1
      <4>5. CASE b \in prev.buttons /\ b \in e.buttons
        <5>1. <<d, b>> \notin cured
          BY <4>5
        <5>2. d # prev.dev => <<d, b>> \in switched
          BY <3>3, <4>5
        <5>3. d = prev.dev => Has(prev, d, b)
          BY <4>5 DEF Has
        <5> QED BY <2>1, <3>1, <4>1, <4>2, <4>5, <5>1, <5>2, <5>3
      <4> QED BY <4>3, <4>4, <4>5
    <3> QED BY <3>2, <3>3
  <2>3. PrevFollows'
    BY <1>1, <1>6, <2>1 DEF PrevFollows, Has
  <2>4. PrevOutlives'
    BY <1>1, <1>7, <2>1, ToolsApart DEF PrevOutlives, Has, Exists
  <2> QED BY <1>5, <2>2, <2>3, <2>4 DEF StylusInv
<1>8. CASE ~Exists(e.dev)
  <2>1. doubt' = doubt \cup switched \cup ({e.dev} \X e.buttons) /\ UNCHANGED <<pressed, prev>> /\ ~present
    BY <1>3, <1>8 DEF Exists
  <2>2. DevicesFollow'
    BY <1>1, <2>1 DEF DevicesFollow
  <2>3. PrevOutlives'
    BY <2>1 DEF StylusInv, PrevOutlives
  <2>4. PrevFollows'
    <3>1. ASSUME ~Pending', NEW d \in Tools, NEW b \in Buttons
          PROVE <<d, b>> \in doubt' \/ (Has(prev', d, b) <=> Has(stylus', d, b))
      <4>1. Has(stylus', d, b) => <<d, b>> \in doubt'
        BY <1>1, <1>6, <2>1, <3>1 DEF Has
      <4>2. Has(prev', d, b) => <<d, b>> \in doubt'
        BY <2>1 DEF StylusInv, PrevOutlives
      <4> QED BY <4>1, <4>2
    <3> QED BY <1>6, <3>1 DEF PrevFollows
  <2> QED BY <1>5, <2>2, <2>3, <2>4 DEF StylusInv
<1> QED BY <1>7, <1>8

LEMMA StylusEnableInv == ASSUME AllTyped, AllTyped', StylusInv, ReadStylusEnable PROVE StylusInv' /\ (Pending' <=> Pending)
<1>1. Reading("enable") /\ UNCHANGED <<conn, stylus, prev>>
  BY DEF ReadStylusEnable, activity
<1>2. present' = Head(wire).on /\ Head(wire).on \in BOOLEAN
  <2>1. Head(wire) \in EnableEvents
    BY <1>1, ReadsTyped, EventKinds
  <2> QED BY <2>1 DEF ReadStylusEnable, EnableEvents
<1>3. (Pending' <=> Pending) /\ (LastIs(stylus)' <=> LastIs(stylus))
  BY <1>1, PendingPassed DEF LastIs
<1>4. wire # << >> /\ doubt \subseteq doubt'
  BY DEF ReadStylusEnable, Reading
<1>5. Lost'
  BY <1>1, <1>4 DEF StylusInv, Lost
<1>6. PrevFollows'
  BY <1>1, <1>3, <1>4 DEF StylusInv, PrevFollows
<1>7. CASE present'
  <2>1. pressed' = pressed
    BY <1>2, <1>7 DEF ReadStylusEnable
  <2>2. present => DevicesFollow'
    BY <1>1, <1>4, <2>1 DEF StylusInv, DevicesFollow
  <2>3. ~present => DevicesFollow'
    BY <1>1, <1>4, <2>1 DEF StylusInv, PrevOutlives, DevicesFollow, AllTyped, ServerTyped
  <2>4. PrevOutlives'
    BY <1>7 DEF PrevOutlives
  <2> QED BY <1>3, <1>5, <1>6, <2>2, <2>3, <2>4 DEF StylusInv
<1>8. CASE ~present'
  <2>1. doubt' = doubt \cup (Tools \X prev.buttons)
    BY <1>2, <1>8 DEF ReadStylusEnable
  <2>2. PrevOutlives'
    BY <1>1, <2>1 DEF PrevOutlives, Has
  <2>3. DevicesFollow'
    BY <1>8 DEF DevicesFollow
  <2> QED BY <1>3, <1>5, <1>6, <2>2, <2>3 DEF StylusInv
<1> QED BY <1>7, <1>8

\* The other reads leave the stylus alone.
LEMMA StylusPassed ==
  ASSUME AllTyped, StylusInv, ReadTouch \/ handleTouchEvent \/ ReadMouse \/ ReadKey
  PROVE StylusInv' /\ (Pending' <=> Pending)
<1>1. UNCHANGED <<conn, stylus, prev, present, doubt>>
  BY DEF ReadTouch, handleTouchEvent, ReadMouse, ReadKey, activity, server, history
<1>2. \A d \in Tools : pressed'[d] = pressed[d]
  BY ToolsApart DEF ReadTouch, handleTouchEvent, ReadMouse, ReadKey, server, AllTyped, ServerTyped
<1>3. (Pending' <=> Pending) /\ (LastIs(stylus)' <=> LastIs(stylus)) /\ Lost'
  <2>1. CASE handleTouchEvent
    BY <1>1, <2>1 DEF handleTouchEvent, Pending, LastIs, StylusInv, Lost
  <2>2. CASE \E t : t # "stylus" /\ Reading(t)
    <3>1. wire # << >>
      BY <2>2 DEF Reading
    <3> QED BY <1>1, <2>2, <3>1, PendingPassed DEF LastIs, StylusInv, Lost
  <2> QED BY <2>1, <2>2 DEF ReadTouch, ReadMouse, ReadKey
<1>4. DevicesFollow' /\ PrevOutlives'
  BY <1>1, <1>2 DEF StylusInv, DevicesFollow, PrevOutlives
<1>5. PrevFollows'
  BY <1>1, <1>3 DEF StylusInv, PrevFollows
<1> QED BY <1>3, <1>4, <1>5 DEF StylusInv

LEMMA StylusInvInit == Init => StylusInv
<1> SUFFICES ASSUME Init PROVE StylusInv
  OBVIOUS
<1>1. ~Pending
  BY StaysEmpty DEF Init, Pending
<1>2. Lost /\ PrevOutlives
  BY DEF Init, Lost, PrevOutlives
<1>3. DevicesFollow
  BY ToolsApart DEF Init, DevicesFollow, Has
<1>4. PrevFollows
  BY <1>1 DEF Init, PrevFollows, Has
<1> QED BY <1>2, <1>3, <1>4 DEF StylusInv

LEMMA PlainFrame == ASSUME PlainStep PROVE UNCHANGED <<conn, stylus, server>>
<1>1. ASSUME NEW f \in Fingers, NEW b \in BOOLEAN, FingerDown(f, b) \/ FingerUp(f, b)
      PROVE UNCHANGED <<conn, stylus, server>>
  BY <1>1 DEF FingerDown, FingerUp
<1>2. ASSUME NEW f \in Fingers, Cancel(f) \/ MissedUp(f) PROVE UNCHANGED <<conn, stylus, server>>
  BY <1>2 DEF Cancel, MissedUp
<1>3. ASSUME NEW b \in BOOLEAN, FingerMove(b) \/ LongPress(b) PROVE UNCHANGED <<conn, stylus, server>>
  BY <1>3 DEF FingerMove, LongPress
<1>4. CASE \/ TapTimeout \/ refreshInputDevices \/ \E bs \in SUBSET MouseButtons : MouseEvent(bs)
           \/ \E S \in SUBSET Fingers \ {{}} : Hover(S)
  BY <1>4 DEF TapTimeout, refreshInputDevices, MouseEvent, Hover
<1>5. CASE \E m \in Modes, am, scan \in BOOLEAN : reloadPreferences(m, am, scan)
  BY <1>5 DEF reloadPreferences
<1> QED BY <1>1, <1>2, <1>3, <1>4, <1>5 DEF PlainStep

\* What is sent besides the state of the stylus
LEMMA StylusBeside ==
  ASSUME AllTyped, AllTyped', StylusInv, PlainStep \/ KeyStep PROVE StylusInv' /\ (Pending' <=> Pending)
<1>1. UNCHANGED <<conn, stylus, pressed, prev, present>>
  BY PlainFrame, KeySends DEF activity, server
<1>2. PICK evs \in Seq(PlainEvents \cup KeyEvents) : \E ns, nd : Send(evs, ns, nd)
  <2>1. CASE PlainStep
    BY <2>1, PlainSends, SeqMonotonic
  <2>2. CASE KeyStep
    BY <2>2, KeySends, SeqMonotonic
  <2> QED BY <2>1, <2>2
<1>3. evs \in Seq(Events)
  BY SeqMonotonic DEF Events, PlainEvents
<1>4. \A i \in DOMAIN evs : evs[i].t # "stylus"
  <2>1. \A i \in DOMAIN evs : evs[i] \in PlainEvents \cup KeyEvents
    BY LenProperties
  <2> QED BY <2>1 DEF PlainEvents, TouchEvents, MouseEvents, EnableEvents, KeyEvents
<1> QED BY <1>1, <1>2, <1>3, <1>4, StylusQuiet

LEMMA StylusInvNext == AllTyped /\ AllTyped' /\ StylusInv /\ [Next]_vars => StylusInv'
<1> SUFFICES ASSUME AllTyped, AllTyped', StylusInv, [Next]_vars PROVE StylusInv'
  OBVIOUS
<1>1. CASE PlainStep \/ KeyStep
  BY <1>1, StylusBeside
<1>2. CASE \E tool \in Tools, bs \in SUBSET MouseButtons, moved \in BOOLEAN : StylusEvent(tool, bs, moved)
  BY <1>2, StylusEventInv
<1>3. CASE ServerStep
  BY <1>3, StylusReadInv, StylusEnableInv, StylusPassed DEF ServerStep
<1>4. CASE Hangup
  <2>1. doubt' = Devices \X Buttons /\ wire' = << >> /\ UNCHANGED <<stylus, prev, present, pressed>>
    BY <1>4 DEF Hangup, server
  <2>2. ~Pending'
    BY <2>1, StaysEmpty DEF Pending
  <2> QED BY <2>1, <2>2, ToolsApart DEF StylusInv, Lost, DevicesFollow, PrevFollows, PrevOutlives
<1>5. CASE Reconnect
  <2> DEFINE e == [t |-> "enable", on |-> avail]
             q == <<e>>
  <2>1. conn' = TRUE /\ wire' = q /\ UNCHANGED <<stylus, prev, present, pressed, doubt>> /\ ~conn
    BY <1>5 DEF Reconnect, server, history
  <2>2. doubt = Devices \X Buttons
    BY <2>1 DEF StylusInv, Lost
  <2>3. e \notin StylusEvents
    BY DEF StylusEvents
  <2> HIDE DEF e
  <2>4. \A i \in DOMAIN q : q[i] = e
    OBVIOUS
  <2> HIDE DEF q
  <2>5. ~Pending'
    BY <2>1, <2>3, <2>4 DEF Pending, Stays
  <2> QED BY <2>1, <2>2, <2>5, ToolsApart DEF StylusInv, Lost, DevicesFollow, PrevFollows, PrevOutlives
<1>6. CASE UNCHANGED vars
  BY <1>6 DEF vars, activity, server, history, StylusInv, Lost, DevicesFollow, PrevFollows, PrevOutlives,
              Pending, LastIs
<1> QED
  BY <1>1, <1>2, <1>3, <1>4, <1>5, <1>6, Steps DEF PointerStep, PlainStep

(***************************************************************************)
(* The pen and the eraser have the buttons of the stylus, though the one   *)
(* buttons_prev of lorieStylus is shared by the pen, the eraser and the    *)
(* mouse and outlives them: in every order of events, removals of the      *)
(* devices and lost connections, a button that differs is in doubt.        *)
(***************************************************************************)
THEOREM StylusIsMatched == Spec => []StylusMatches
<1>1. StylusInv => StylusMatches
  <2>1. ASSUME StylusInv, Quiet, present, NEW d \in Tools, NEW b \in Buttons
        PROVE <<d, b>> \in doubt \/ (b \in pressed[d] <=> Has(stylus, d, b))
    <3>1. ~Pending
      BY <2>1, StaysEmpty DEF Quiet, Pending
    <3> QED BY <2>1, <3>1 DEF StylusInv, DevicesFollow, PrevFollows
  <2> QED BY <2>1 DEF StylusMatches, Has
<1> QED
  BY <1>1, TypedInit, TypedNext, StylusInvInit, StylusInvNext, PTL DEF Spec
-----------------------------------------------------------------------------
(* The buttons of the mouse *)

\* A finger holds b: a long press that is still to come would hold another one.
Holding(b) == b = held /\ fingers # {} /\ ~(mode = "pointer" /\ tap.timer)
Kept(b) == Holding(b) \/ b \in mouse

\* Does the stylus, as a mouse, account for b?
AsStylus(b) == Has(prev, "mouse", b) /\ (Pending \/ Has(stylus, "mouse", b))

\* Will b be pressed by the events on the socket, or is it down and not released by them?
Pushed(b) == Stays(wire, {Mouse(b, TRUE)}, {Mouse(b, FALSE)}, b, {})
StillDown(b) == Stays(wire, {}, {Mouse(b, FALSE)}, b, pressed["mouse"])

Accounted(b) == (Pushed(b) => Kept(b)) /\ (StillDown(b) => Kept(b) \/ AsStylus(b))

HeldShape == mode = "touch" => held = NoButton

ButtonInv == HeldShape /\ \A b \in Buttons : <<"mouse", b>> \notin doubt => Accounted(b)

LEMMA MiceApart ==
  /\ \A b, c : Mouse(b, TRUE) # Mouse(c, FALSE)
  /\ \A b, c, x, y : b # c => Mouse(b, x) # Mouse(c, y)
  /\ \A b : {Mouse(b, TRUE)} \cap {Mouse(b, FALSE)} = {}
  BY DEF Mouse

\* No event of evs is about b.
Beside(evs, b) == \A i \in DOMAIN evs : evs[i] # Mouse(b, TRUE) /\ evs[i] # Mouse(b, FALSE)

\* The last event of evs about b lets go of it.
LetGo(evs, b) == ~Stays(evs, {Mouse(b, TRUE)}, {Mouse(b, FALSE)}, b, {b})

\* What a step that sends evs has to show for b
Answers(evs, b) ==
  \/ LetGo(evs, b)
  \/ Kept(b)'
  \/ Beside(evs, b) /\ (Kept(b) => Kept(b)') /\ (AsStylus(b) => AsStylus(b)')

LEMMA ButtonSent ==
  ASSUME AllTyped, AllTyped', Lost, ButtonInv, UNCHANGED <<conn, pressed>>, HeldShape',
         NEW evs \in Seq(Events), NEW ns, NEW nd, Send(evs, ns, nd),
         \A b \in Buttons : conn /\ <<"mouse", b>> \notin nd => Answers(evs, b)
  PROVE ButtonInv'
<1>1. CASE ~conn
  <2>1. doubt \subseteq doubt' /\ doubt = Devices \X Buttons
    BY <1>1 DEF Send, Lost
  <2> QED BY <2>1, ToolsApart DEF ButtonInv
<1>2. CASE conn
  <2>1. wire' = wire \o evs /\ doubt' = (doubt \ Releases(evs)) \cup nd /\ wire \in Seq(Events)
    BY <1>2 DEF Send, AllTyped, WireTyped
  <2> SUFFICES ASSUME NEW b \in Buttons, <<"mouse", b>> \notin doubt' PROVE Accounted(b)'
    BY DEF ButtonInv
  <2>2. <<"mouse", b>> \notin nd
    BY <2>1
  <2>3. CASE LetGo(evs, b)
    <3>1. /\ ~Stays(evs, {Mouse(b, TRUE)}, {Mouse(b, FALSE)}, b, {}) /\ ~Stays(evs, {}, {Mouse(b, FALSE)}, b, {})
          /\ ~\A i \in DOMAIN evs : evs[i] \notin {Mouse(b, FALSE)}
      BY <2>3 DEF LetGo, Stays
    <3>2. ~Stays(wire \o evs, {Mouse(b, TRUE)}, {Mouse(b, FALSE)}, b, {})
      BY <2>1, <3>1, StaysAdded
    <3>3. ~Stays(wire \o evs, {}, {Mouse(b, FALSE)}, b, pressed["mouse"])
      BY <2>1, <3>1, StaysAdded
    <3> QED BY <2>1, <3>2, <3>3 DEF Accounted, Pushed, StillDown
  <2>4. CASE Kept(b)'
    BY <2>4 DEF Accounted
  <2>5. CASE Beside(evs, b) /\ (Kept(b) => Kept(b)') /\ (AsStylus(b) => AsStylus(b)')
    <3>1. \A i \in DOMAIN evs : evs[i] \notin {Mouse(b, TRUE)} /\ evs[i] \notin {Mouse(b, FALSE)} /\ evs[i] \notin {}
      BY <2>5 DEF Beside
    <3>2. Stays(wire \o evs, {Mouse(b, TRUE)}, {Mouse(b, FALSE)}, b, {}) <=> Pushed(b)
      BY <2>1, <3>1, StaysBeside DEF Pushed
    <3>3. Stays(wire \o evs, {}, {Mouse(b, FALSE)}, b, pressed["mouse"]) <=> StillDown(b)
      BY <2>1, <3>1, StaysBeside DEF StillDown
    <3>4. <<"mouse", b>> \notin Releases(evs)
      <4> SUFFICES ASSUME <<"mouse", b>> \in Releases(evs) PROVE FALSE
        OBVIOUS
      <4>1. PICK i \in DOMAIN evs : evs[i].t = "mouse" /\ ~evs[i].down /\ evs[i].b = b
        BY DEF Releases, ToSet
      <4>2. evs[i] \in Events
        BY LenProperties
      <4>3. evs[i] \in MouseEvents
        BY <4>1, <4>2, EventKinds
      <4>4. evs[i] = Mouse(b, FALSE)
        BY <4>1, <4>3 DEF MouseEvents, Mouse
      <4> QED BY <2>5, <4>4 DEF Beside
    <3>5. Accounted(b)
      BY <2>1, <3>4 DEF ButtonInv
    <3> QED BY <2>1, <2>5, <3>2, <3>3, <3>5 DEF Accounted, Pushed, StillDown
  <2> QED BY <1>2, <2>2, <2>3, <2>4, <2>5 DEF Answers
<1> QED BY <1>1, <1>2

LEMMA NotMouse ==
  ASSUME NEW evs, NEW b, \A i \in DOMAIN evs : evs[i].t # "mouse" PROVE Beside(evs, b)
  BY DEF Beside, Mouse

LEMMA BesideOne ==
  ASSUME NEW E, NEW e \in E, NEW b, e # Mouse(b, TRUE), e # Mouse(b, FALSE) PROVE Beside(<<e>>, b)
<1>1. \A i \in DOMAIN <<e>> : <<e>>[i] = e
  OBVIOUS
<1> QED BY <1>1 DEF Beside

LEMMA LetGoConcat ==
  ASSUME NEW q \in Seq(Events), NEW s \in Seq(Events), NEW b
  PROVE /\ LetGo(s, b) => LetGo(q \o s, b)
        /\ LetGo(q, b) /\ Beside(s, b) => LetGo(q \o s, b)
        /\ Beside(q, b) /\ Beside(s, b) => Beside(q \o s, b)
<1> DEFINE P == {Mouse(b, TRUE)}
           R == {Mouse(b, FALSE)}
<1>1. Stays(q \o s, P, R, b, {b}) <=> Stays(s, P, R, b, {}) \/ (Stays(q, P, R, b, {b}) /\ \A i \in DOMAIN s : s[i] \notin R)
  BY StaysAdded
<1>2. LetGo(s, b) => ~Stays(s, P, R, b, {}) /\ ~\A i \in DOMAIN s : s[i] \notin R
  BY DEF LetGo, Stays
<1>3. Beside(s, b) => ~Stays(s, P, R, b, {})
  BY DEF Beside, Stays
<1>4. Beside(q, b) /\ Beside(s, b) => Beside(q \o s, b)
  <2>1. ToSet(q \o s) = ToSet(q) \cup ToSet(s)
    BY ConcatSet
  <2> QED BY <2>1 DEF ToSet, Beside
<1> QED BY <1>1, <1>2, <1>3, <1>4 DEF LetGo

\* A press and a release of c: the last event about c is the release.
LEMMA ClickAnswers ==
  ASSUME NEW c \in Buttons, NEW b \in Buttons
  PROVE Click(c) \in Seq(Events) /\ (IF b = c THEN LetGo(Click(c), b) ELSE Beside(Click(c), b))
<1> DEFINE e == Mouse(c, TRUE)
           d == Mouse(c, FALSE)
<1>1. e \in Events /\ d \in Events /\ e # d
  BY MadeEvents, MiceApart DEF Events
<1>2. b # c => e # Mouse(b, TRUE) /\ e # Mouse(b, FALSE) /\ d # Mouse(b, TRUE) /\ d # Mouse(b, FALSE)
  BY MiceApart
<1>3. b = c => e = Mouse(b, TRUE) /\ d = Mouse(b, FALSE)
  OBVIOUS
<1>4. Click(c) = <<e, d>>
  BY DEF Click
<1> HIDE DEF e, d
<1> DEFINE q == <<e, d>>
<1>5. q \in Seq(Events) /\ DOMAIN q = {1, 2} /\ q[1] = e /\ q[2] = d
  BY <1>1
<1> HIDE DEF q
<1>6. b = c => LetGo(q, b)
  <2>1. 2 > 1
    OBVIOUS
  <2> QED BY <1>1, <1>3, <1>5, <2>1 DEF LetGo, Stays
<1>7. b # c => Beside(q, b)
  BY <1>2, <1>5 DEF Beside
<1> QED BY <1>4, <1>5, <1>6, <1>7 DEF q

\* The steps that leave the stylus alone
LEMMA ButtonStep ==
  ASSUME AllTyped, AllTyped', StylusInv, ButtonInv, PlainStep \/ KeyStep, HeldShape',
         NEW evs \in Seq(Events), NEW ns, NEW nd, Send(evs, ns, nd),
         \A b \in Buttons : conn /\ <<"mouse", b>> \notin nd =>
           LetGo(evs, b) \/ Kept(b)' \/ (Beside(evs, b) /\ (Kept(b) => Kept(b)'))
  PROVE ButtonInv'
<1>1. UNCHANGED <<conn, pressed, prev, stylus>>
  BY PlainFrame, KeySends DEF activity, server
<1>2. Pending' <=> Pending
  BY StylusBeside
<1>3. \A b : AsStylus(b)' <=> AsStylus(b)
  BY <1>1, <1>2 DEF AsStylus
<1> QED BY <1>1, <1>3, ButtonSent DEF StylusInv, Answers

LEMMA ButtonDownInv ==
  ASSUME AllTyped, AllTyped', StylusInv, ButtonInv, NEW f \in Fingers, NEW double \in BOOLEAN, FingerDown(f, double)
  PROVE ButtonInv'
<1>1. PlainStep
  BY DEF PlainStep
<1>2. /\ fingers' = fingers \cup {f} /\ UNCHANGED <<mode, mouse>>
      /\ double => fingers = {} /\ mode = "tapToMove"
      /\ held' = IF double THEN Left ELSE held
  BY DEF FingerDown
<1>3. fingers # {} => tap'.timer = tap.timer
  BY DEF FingerDown, AllTyped, ActivityTyped, Taps
<1>4. HeldShape'
  BY <1>2 DEF ButtonInv, HeldShape
<1>5. \A b \in Buttons : Kept(b) => Kept(b)'
  BY <1>2, <1>3 DEF Kept, Holding
<1>6. CASE mode = "touch"
  <2> DEFINE e == Touch("begin", f)
  <2>1. e \in Events /\ e.t # "mouse"
    <3>1. e \in Events
      BY MadeEvents DEF Events
    <3> QED BY <3>1 DEF Touch
  <2>2. Send(<<e>>, {}, {})
    BY <1>6 DEF FingerDown
  <2> HIDE DEF e
  <2>3. <<e>> \in Seq(Events) /\ \A i \in DOMAIN <<e>> : <<e>>[i].t # "mouse"
    BY <2>1
  <2>4. \A b \in Buttons : Beside(<<e>>, b)
    BY <2>3, NotMouse
  <2> QED BY <1>1, <1>4, <1>5, <2>2, <2>3, <2>4, ButtonStep
<1>7. CASE mode # "touch" /\ double
  <2> DEFINE e == Mouse(Left, TRUE)
  <2>1. Left \in Buttons
    BY DEF Left, Buttons
  <2>2. e \in Events /\ \A b \in Buttons : b # Left => e # Mouse(b, TRUE) /\ e # Mouse(b, FALSE)
    BY <2>1, MadeEvents, MiceApart DEF Events
  <2>3. Send(<<e>>, {}, {})
    BY <1>7 DEF FingerDown
  <2> HIDE DEF e
  <2>4. <<e>> \in Seq(Events) /\ \A b \in Buttons : b # Left => Beside(<<e>>, b)
    BY <2>2, BesideOne, OneEvent
  <2>5. Kept(Left)'
    BY <1>2, <1>7 DEF Kept, Holding
  <2> QED BY <1>1, <1>4, <1>5, <2>3, <2>4, <2>5, ButtonStep
<1>8. CASE mode # "touch" /\ ~double
  <2>1. Send(<< >>, {}, {})
    BY <1>8 DEF FingerDown
  <2>2. \A b \in Buttons : Beside(<< >>, b)
    BY NoEvents DEF Beside
  <2> QED BY <1>1, <1>4, <1>5, <2>1, <2>2, NoEvents, ButtonStep
<1> QED BY <1>6, <1>7, <1>8

LEMMA ButtonUpInv ==
  ASSUME AllTyped, AllTyped', StylusInv, ButtonInv, NEW f \in Fingers, NEW inside \in BOOLEAN, FingerUp(f, inside)
  PROVE ButtonInv'
<1> DEFINE last == fingers = {f}
           tapped == last /\ mode # "touch" /\ TapClicks(inside)
<1>1. PlainStep
  BY DEF PlainStep
<1>2. /\ f \in fingers /\ fingers' = fingers \ {f} /\ UNCHANGED <<mode, mouse>>
      /\ held' = IF last THEN NoButton ELSE held
  BY DEF FingerUp
<1>3. ~tap'.timer
  BY DEF FingerUp, AllTyped, ActivityTyped, Taps
<1>4. HeldShape'
  BY <1>2, <1>3 DEF ButtonInv, HeldShape
<1>5. ASSUME NEW b \in Buttons, b # held \/ ~last PROVE Kept(b) => Kept(b)'
  BY <1>2, <1>3, <1>5 DEF Kept, Holding
<1>6. CASE mode = "touch"
  <2> DEFINE e == Touch("update", f)
             d == Touch("end", f)
  <2>1. e \in Events /\ d \in Events /\ e.t # "mouse" /\ d.t # "mouse"
    <3>1. e \in Events /\ d \in Events
      BY MadeEvents DEF Events
    <3> QED BY <3>1 DEF Touch
  <2>2. Send(<<e, d>>, {}, {})
    BY <1>6 DEF FingerUp
  <2> HIDE DEF e, d
  <2>3. <<e, d>> \in Seq(Events) /\ \A i \in DOMAIN <<e, d>> : <<e, d>>[i] \in {e, d}
    BY <2>1
  <2>4. \A i \in DOMAIN <<e, d>> : <<e, d>>[i].t # "mouse"
    BY <2>1, <2>3
  <2>5. \A b \in Buttons : Beside(<<e, d>>, b)
    BY <2>4, NotMouse
  <2>6. \A b \in Buttons : b # held
    BY <1>6 DEF ButtonInv, HeldShape, Buttons, NoButton
  <2> QED BY <1>1, <1>4, <1>5, <2>2, <2>3, <2>5, <2>6, ButtonStep
<1>7. CASE mode # "touch"
  <2> DEFINE q == OnMotionUp(last)
             s == IF tapped /\ ~Delayed THEN Click(tap.count) ELSE << >>
             evs == q \o s
  <2>1. tapped => tap.count \in Buttons
    BY DEF TapClicks
  <2>2. last \in BOOLEAN /\ tapped \in BOOLEAN
    BY Zenon DEF TapClicks
  <2>3. Send(evs, {}, {})
    <3>1. Send(IF mode = "touch" THEN <<Touch("update", f), Touch("end", f)>> ELSE evs, {}, {})
      BY Zenon DEF FingerUp
    <3> QED BY <1>7, <3>1
  <2>4. q \in Seq(Events) /\ \A b \in Buttons : IF last /\ b = held THEN LetGo(q, b) ELSE Beside(q, b)
    <3>1. CASE last /\ held # NoButton
      <4> DEFINE e == Mouse(held, FALSE)
      <4>1. q = <<e>>
        BY <3>1 DEF OnMotionUp
      <4>2. held \in Buttons
        BY <3>1 DEF AllTyped, ActivityTyped
      <4>3. e \in Events /\ \A b \in Buttons : b # held => e # Mouse(b, TRUE) /\ e # Mouse(b, FALSE)
        BY <4>2, MadeEvents, MiceApart DEF Events
      <4>4. e # Mouse(held, TRUE)
        BY MiceApart
      <4> DEFINE h == Mouse(held, FALSE)
      <4>5. e = h
        OBVIOUS
      <4> HIDE DEF e, h, q
      <4>6. q \in Seq(Events) /\ DOMAIN q = {1} /\ q[1] = e
        BY <4>1, <4>3
      <4>7. \A b \in Buttons : b # held => Beside(q, b)
        BY <4>1, <4>3, BesideOne
      <4>8. LetGo(q, held)
        BY <4>4, <4>5, <4>6 DEF LetGo, Stays, h
      <4> QED BY <3>1, <4>6, <4>7, <4>8
    <3>2. CASE ~(last /\ held # NoButton)
      <4>1. q = << >>
        BY <3>2 DEF OnMotionUp
      <4>2. \A b \in Buttons : ~(last /\ b = held)
        BY <3>2 DEF Buttons, NoButton
      <4>3. \A b \in Buttons : Beside(<< >>, b)
        BY NoEvents DEF Beside
      <4> HIDE DEF q
      <4> QED BY <4>1, <4>2, <4>3, NoEvents
    <3> QED BY <3>1, <3>2
  <2>5. s \in Seq(Events) /\ \A b \in Buttons : LetGo(s, b) \/ Beside(s, b)
    <3>1. CASE tapped /\ ~Delayed
      <4>1. s = Click(tap.count) /\ tap.count \in Buttons
        BY <2>1, <3>1
      <4> HIDE DEF s
      <4> QED BY <4>1, ClickAnswers
    <3>2. CASE ~(tapped /\ ~Delayed)
      <4>1. s = << >>
        BY <3>2
      <4>2. \A b \in Buttons : Beside(<< >>, b)
        BY NoEvents DEF Beside
      <4> HIDE DEF s
      <4> QED BY <4>1, <4>2, NoEvents
    <3> QED BY <3>1, <3>2
  <2> HIDE DEF last, q, s
  <2>6. evs \in Seq(Events)
    BY <2>4, <2>5, ConcatProperties
  <2>7. ASSUME NEW b \in Buttons PROVE LetGo(evs, b) \/ (Beside(evs, b) /\ (Kept(b) => Kept(b)'))
    <3>1. CASE last /\ b = held
      BY <2>4, <2>5, <3>1, LetGoConcat
    <3>2. CASE ~(last /\ b = held)
      <4>1. LetGo(evs, b) \/ Beside(evs, b)
        BY <2>4, <2>5, <3>2, LetGoConcat
      <4> QED BY <1>5, <3>2, <4>1
    <3> QED BY <3>1, <3>2
  <2> HIDE DEF evs
  <2> QED BY <1>1, <1>4, <2>3, <2>6, <2>7, ButtonStep
<1> QED BY <1>6, <1>7

LEMMA ButtonCancelInv ==
  ASSUME AllTyped, AllTyped', StylusInv, ButtonInv, NEW f \in Fingers, Cancel(f) PROVE ButtonInv'
<1>1. PlainStep
  BY DEF PlainStep
<1>2. fingers' = {} /\ UNCHANGED <<mode, mouse, held>>
  BY DEF Cancel
<1>3. ~tap'.timer
  BY DEF Cancel, AllTyped, ActivityTyped, Taps
<1>4. HeldShape'
  BY <1>2, <1>3 DEF ButtonInv, HeldShape
<1>5. ASSUME NEW b \in Buttons, b # held PROVE Kept(b) => Kept(b)'
  BY <1>2, <1>5 DEF Kept, Holding
<1>6. CASE mode = "touch"
  <2> DEFINE e == Touch("update", f)
             d == Touch("end", f)
  <2>1. e \in Events /\ d \in Events /\ e.t # "mouse" /\ d.t # "mouse"
    <3>1. e \in Events /\ d \in Events
      BY MadeEvents DEF Events
    <3> QED BY <3>1 DEF Touch
  <2>2. Send(<<e, d>>, fingers \ {f}, {})
    BY <1>6 DEF Cancel
  <2> HIDE DEF e, d
  <2>3. <<e, d>> \in Seq(Events) /\ \A i \in DOMAIN <<e, d>> : <<e, d>>[i] \in {e, d}
    BY <2>1
  <2>4. \A i \in DOMAIN <<e, d>> : <<e, d>>[i].t # "mouse"
    BY <2>1, <2>3
  <2>5. \A b \in Buttons : Beside(<<e, d>>, b)
    BY <2>4, NotMouse
  <2>6. \A b \in Buttons : b # held
    BY <1>6 DEF ButtonInv, HeldShape, Buttons, NoButton
  <2> QED BY <1>1, <1>4, <1>5, <2>2, <2>3, <2>5, <2>6, ButtonStep
<1>7. CASE mode # "touch"
  <2> DEFINE nd == {<<"mouse", held>>} \ {<<"mouse", NoButton>>}
  <2>1. Send(<< >>, {}, nd)
    BY <1>7 DEF Cancel
  <2>2. \A b \in Buttons : <<"mouse", b>> \notin nd => b # held
    BY DEF Buttons, NoButton
  <2>3. \A b \in Buttons : Beside(<< >>, b)
    BY NoEvents DEF Beside
  <2> HIDE DEF nd
  <2> QED BY <1>1, <1>4, <1>5, <2>1, <2>2, <2>3, NoEvents, ButtonStep
<1> QED BY <1>6, <1>7

LEMMA ButtonMissedInv ==
  ASSUME AllTyped, AllTyped', StylusInv, ButtonInv, NEW f \in Fingers, MissedUp(f) PROVE ButtonInv'
<1>1. PlainStep
  BY DEF PlainStep
<1>2. fingers # {} /\ UNCHANGED <<mode, mouse, held, tap>>
  BY DEF MissedUp
<1>3. HeldShape'
  BY <1>2 DEF ButtonInv, HeldShape
<1> DEFINE ns == IF mode = "touch" THEN {f} ELSE {}
           nd == IF fingers' = {} THEN {<<"mouse", held>>} \ {<<"mouse", NoButton>>} ELSE {}
<1>4. Send(<< >>, ns, nd)
  BY DEF MissedUp
<1>5. ASSUME NEW b \in Buttons, <<"mouse", b>> \notin nd PROVE Kept(b) => Kept(b)'
  <2>1. fingers' = {} => b # held
    BY <1>5 DEF Buttons, NoButton
  <2> QED BY <1>2, <2>1 DEF Kept, Holding
<1> HIDE DEF ns, nd
<1>6. \A b \in Buttons : Beside(<< >>, b)
  BY NoEvents DEF Beside
<1> QED BY <1>1, <1>3, <1>4, <1>5, <1>6, NoEvents, ButtonStep

LEMMA SweptBeside ==
  ASSUME NEW S \in SUBSET Fingers, NEW gone \in SUBSET Fingers
  PROVE Sweep(S, gone) \in Seq(Events) /\ \A b \in Buttons : Beside(Sweep(S, gone), b)
<1> DEFINE evs == Sweep(S, gone)
<1>1. evs \in Seq(Events) /\ evs \in Seq(TouchEvents)
  BY SweepSends
<1> HIDE DEF evs
<1>2. \A i \in DOMAIN evs : evs[i] \in TouchEvents
  BY <1>1, LenProperties
<1>3. \A i \in DOMAIN evs : evs[i].t # "mouse"
  BY <1>2 DEF TouchEvents
<1>4. \A b \in Buttons : Beside(evs, b)
  BY <1>3, NotMouse
<1> QED BY <1>1, <1>4 DEF evs

LEMMA ButtonMoveInv ==
  ASSUME AllTyped, AllTyped', StylusInv, ButtonInv, NEW far \in BOOLEAN, FingerMove(far) PROVE ButtonInv'
<1>1. PlainStep
  BY DEF PlainStep
<1>2. fingers # {} /\ UNCHANGED <<fingers, mode, mouse, held>>
  BY DEF FingerMove
<1>3. tap'.timer => tap.timer
  BY DEF FingerMove, AllTyped, ActivityTyped, Taps
<1>4. HeldShape'
  BY <1>2, <1>3 DEF ButtonInv, HeldShape
<1>5. \A b \in Buttons : Kept(b) => Kept(b)'
  BY <1>2, <1>3 DEF Kept, Holding
<1>6. CASE mode # "touch"
  <2>1. UNCHANGED <<wire, stray, doubt, drops>>
    BY <1>6 DEF FingerMove
  <2>2. Send(<< >>, {}, {})
    BY <2>1, SendNothing DEF AllTyped
  <2>3. \A b \in Buttons : Beside(<< >>, b)
    BY NoEvents DEF Beside
  <2> QED BY <1>1, <1>4, <1>5, <2>2, <2>3, NoEvents, ButtonStep
<1>7. CASE mode = "touch"
  <2> DEFINE evs == Sweep(fingers, Fingers \ pointers')
  <2>1. Send(evs, {}, {})
    BY <1>7 DEF FingerMove, Sweep
  <2>2. evs \in Seq(Events) /\ \A b \in Buttons : Beside(evs, b)
    BY SweptBeside DEF AllTyped, ActivityTyped
  <2> HIDE DEF evs
  <2> QED BY <1>1, <1>4, <1>5, <2>1, <2>2, ButtonStep
<1> QED BY <1>6, <1>7

LEMMA ButtonHoverInv ==
  ASSUME AllTyped, AllTyped', StylusInv, ButtonInv, NEW S \in SUBSET Fingers \ {{}}, Hover(S) PROVE ButtonInv'
<1>1. PlainStep
  BY DEF PlainStep
<1>2. UNCHANGED <<fingers, mode, mouse, held, tap>>
  BY DEF Hover
<1>3. HeldShape' /\ \A b \in Buttons : Kept(b) => Kept(b)'
  BY <1>2 DEF ButtonInv, HeldShape, Kept, Holding
<1> DEFINE evs == Sweep(S, Fingers \ pointers')
<1>4. Send(evs, S, {})
  BY DEF Hover, Sweep
<1>5. evs \in Seq(Events) /\ \A b \in Buttons : Beside(evs, b)
  BY SweptBeside
<1> HIDE DEF evs
<1> QED BY <1>1, <1>3, <1>4, <1>5, ButtonStep

LEMMA ButtonPressInv ==
  ASSUME AllTyped, AllTyped', StylusInv, ButtonInv, NEW inside \in BOOLEAN, LongPress(inside) PROVE ButtonInv'
<1> DEFINE press == tap.count \in Buttons /\ mode = "pointer" /\ inside
<1>1. PlainStep
  BY DEF PlainStep
<1>2. tap.timer /\ UNCHANGED <<fingers, mode, mouse>> /\ held' = IF press THEN tap.count ELSE held
  BY DEF LongPress
<1>3. ~tap'.timer
  BY DEF LongPress, AllTyped, ActivityTyped, Taps
<1>4. HeldShape'
  BY <1>2, <1>3 DEF ButtonInv, HeldShape
<1>5. \A b \in Buttons : Kept(b) => Kept(b)'
  BY <1>2, <1>3 DEF Kept, Holding
<1>6. CASE press
  <2> DEFINE e == Mouse(tap.count, TRUE)
  <2>1. e \in Events /\ \A b \in Buttons : b # tap.count => e # Mouse(b, TRUE) /\ e # Mouse(b, FALSE)
    BY <1>6, MadeEvents, MiceApart DEF Events
  <2> DEFINE nd == IF press /\ fingers = {} THEN {<<"mouse", tap.count>>} ELSE {}
  <2>2. Send(<<e>>, {}, nd)
    BY <1>6 DEF LongPress
  <2>5. \A b \in Buttons : <<"mouse", b>> \notin nd => (fingers # {} \/ b # tap.count)
    BY <1>6
  <2> HIDE DEF e, nd
  <2>3. <<e>> \in Seq(Events) /\ \A b \in Buttons : b # tap.count => Beside(<<e>>, b)
    BY <2>1, BesideOne, OneEvent
  <2>4. \A b \in Buttons : b = tap.count /\ fingers # {} => Kept(b)'
    BY <1>2, <1>3, <1>6 DEF Kept, Holding
  <2>6. \A b \in Buttons : <<"mouse", b>> \notin nd => Kept(b)' \/ (Beside(<<e>>, b) /\ (Kept(b) => Kept(b)'))
    BY <1>5, <2>3, <2>4, <2>5
  <2> QED BY <1>1, <1>4, <2>2, <2>3, <2>6, ButtonStep
<1>7. CASE ~press
  <2>1. Send(<< >>, {}, {})
    BY <1>7 DEF LongPress
  <2>2. \A b \in Buttons : Beside(<< >>, b)
    BY NoEvents DEF Beside
  <2> QED BY <1>1, <1>4, <1>5, <2>1, <2>2, NoEvents, ButtonStep
<1> QED BY <1>6, <1>7

LEMMA ButtonTimeoutInv ==
  ASSUME AllTyped, AllTyped', StylusInv, ButtonInv, TapTimeout PROVE ButtonInv'
<1>1. PlainStep
  BY DEF PlainStep
<1>2. UNCHANGED <<fingers, mode, mouse, held, tap>>
  BY DEF TapTimeout
<1>3. HeldShape' /\ \A b \in Buttons : Kept(b) => Kept(b)'
  BY <1>2 DEF ButtonInv, HeldShape, Kept, Holding
<1>4. CASE mode = "touch"
  <2>1. Send(<< >>, {}, {})
    BY <1>4 DEF TapTimeout
  <2>2. \A b \in Buttons : Beside(<< >>, b)
    BY NoEvents DEF Beside
  <2> QED BY <1>1, <1>3, <2>1, <2>2, NoEvents, ButtonStep
<1>5. CASE mode # "touch"
  <2>1. Send(Click(Left), {}, {})
    BY <1>5 DEF TapTimeout
  <2>2. Left \in Buttons
    BY DEF Left, Buttons
  <2>3. Click(Left) \in Seq(Events) /\ \A b \in Buttons : LetGo(Click(Left), b) \/ Beside(Click(Left), b)
    BY <2>2, ClickAnswers
  <2> QED BY <1>1, <1>3, <2>1, <2>3, ButtonStep
<1> QED BY <1>4, <1>5

LEMMA ButtonMouseInv ==
  ASSUME AllTyped, AllTyped', StylusInv, ButtonInv, NEW bs \in SUBSET MouseButtons, MouseEvent(bs) PROVE ButtonInv'
<1>1. PlainStep
  BY DEF PlainStep
<1>2. UNCHANGED <<fingers, mode, held, tap>> /\ mouse' = bs
  BY DEF MouseEvent
<1>3. HeldShape'
  BY <1>2 DEF ButtonInv, HeldShape
<1>4. bs \in SUBSET Buttons /\ mouse \in SUBSET Buttons
  BY DEF AllTyped, ActivityTyped, MouseButtons, Left, Buttons
<1> DEFINE evs == MouseSends(bs)
           changed == (mouse \cup bs) \ (mouse \cap bs)
<1>5. Send(evs, {}, {})
  BY Zenon DEF MouseEvent, MouseSends
<1>6. /\ evs \in Seq(Events)
      /\ \A i \in DOMAIN evs : \E b \in changed : evs[i] = Mouse(b, b \in bs)
      /\ \A b \in changed : \E i \in DOMAIN evs : evs[i] = Mouse(b, b \in bs)
  BY <1>4, MouseSent
<1> HIDE DEF evs
<1>7. ASSUME NEW b \in Buttons PROVE LetGo(evs, b) \/ Kept(b)' \/ (Beside(evs, b) /\ (Kept(b) => Kept(b)'))
  <2>1. CASE b \in bs
    BY <1>2, <2>1 DEF Kept
  <2>2. CASE b \notin changed
    <3>1. Beside(evs, b)
      <4>1. \A i \in DOMAIN evs : evs[i].b # b
        BY <1>6, <2>2 DEF Mouse
      <4>2. Mouse(b, TRUE).b = b /\ Mouse(b, FALSE).b = b
        BY DEF Mouse
      <4> QED BY <4>1, <4>2 DEF Beside
    <3>2. Kept(b) => Kept(b)'
      BY <1>2, <2>2 DEF Kept, Holding
    <3> QED BY <3>1, <3>2
  <2>3. CASE b \notin bs /\ b \in changed
    <3>1. (b \in bs) = FALSE
      BY <2>3, SMT
    <3>2. Mouse(b, b \in bs) = Mouse(b, FALSE)
      BY <3>1, Zenon
    <3>3. \E i \in DOMAIN evs : evs[i] = Mouse(b, FALSE)
      BY <1>6, <2>3, <3>2
    <3>4. \A i \in DOMAIN evs : evs[i] # Mouse(b, TRUE)
      <4> SUFFICES ASSUME NEW i \in DOMAIN evs, evs[i] = Mouse(b, TRUE) PROVE FALSE
        OBVIOUS
      <4>1. PICK c \in changed : evs[i] = Mouse(c, c \in bs)
        BY <1>6
      <4>2. c = b
        <5>1. Mouse(b, TRUE).b = b /\ Mouse(c, c \in bs).b = c
          BY DEF Mouse
        <5> QED BY <4>1, <5>1
      <4>3. Mouse(b, TRUE) # Mouse(b, FALSE)
        BY MiceApart
      <4> QED BY <3>2, <4>1, <4>2, <4>3
    <3> QED BY <3>3, <3>4 DEF LetGo, Stays
  <2> QED BY <2>1, <2>2, <2>3
<1> QED BY <1>1, <1>3, <1>5, <1>6, <1>7, ButtonStep

LEMMA ButtonReloadInv ==
  ASSUME AllTyped, AllTyped', StylusInv, ButtonInv,
         refreshInputDevices \/ \E m \in Modes, am, scan \in BOOLEAN : reloadPreferences(m, am, scan)
  PROVE ButtonInv'
<1>1. PlainStep
  BY DEF PlainStep
<1>2. ASSUME NEW on \in BOOLEAN
      PROVE <<[t |-> "enable", on |-> on]>> \in Seq(Events) /\ \A b \in Buttons : Beside(<<[t |-> "enable", on |-> on]>>, b)
  <2> DEFINE e == [t |-> "enable", on |-> on]
  <2>1. e \in Events /\ e.t # "mouse"
    BY MadeEvents DEF Events
  <2> HIDE DEF e
  <2>2. <<e>> \in Seq(Events) /\ \A i \in DOMAIN <<e>> : <<e>>[i].t # "mouse"
    BY <2>1
  <2>3. \A b \in Buttons : Beside(<<e>>, b)
    BY <2>2, NotMouse
  <2> QED BY <2>2, <2>3 DEF e
<1>3. CASE refreshInputDevices
  <2>1. UNCHANGED <<fingers, mode, mouse, held, tap>>
    BY <1>3 DEF refreshInputDevices
  <2>2. HeldShape' /\ \A b \in Buttons : Kept(b) => Kept(b)'
    BY <2>1 DEF ButtonInv, HeldShape, Kept, Holding
  <2>3. avail' \in BOOLEAN
    BY <1>3, Zenon DEF refreshInputDevices
  <2> DEFINE evs == <<[t |-> "enable", on |-> avail']>>
  <2>4. Send(evs, {}, {})
    BY <1>3 DEF refreshInputDevices
  <2>5. evs \in Seq(Events) /\ \A b \in Buttons : Beside(evs, b)
    BY <1>2, <2>3
  <2> HIDE DEF evs
  <2> QED BY <1>1, <2>2, <2>4, <2>5, ButtonStep
<1>4. ASSUME NEW m \in Modes, NEW am \in BOOLEAN, NEW scan \in BOOLEAN, reloadPreferences(m, am, scan)
      PROVE ButtonInv'
  <2>1. UNCHANGED <<fingers, mouse, tap>> /\ held' = NoButton
    BY <1>4 DEF reloadPreferences
  <2>2. HeldShape'
    BY <2>1 DEF ButtonInv, HeldShape
  <2>3. ASSUME NEW b \in Buttons, b # held PROVE Kept(b) => Kept(b)'
    BY <2>1, <2>3 DEF Kept, Holding
  <2> DEFINE evs == <<[t |-> "enable", on |-> avail]>>
             nd == {<<"mouse", held>>} \ {<<"mouse", NoButton>>}
             ns == IF m # mode THEN fingers ELSE {}
  <2>4. Send(evs, ns, nd)
    BY <1>4 DEF reloadPreferences
  <2>5. evs \in Seq(Events) /\ \A b \in Buttons : Beside(evs, b)
    BY <1>2 DEF AllTyped, ActivityTyped
  <2>6. \A b \in Buttons : <<"mouse", b>> \notin nd => b # held
    BY DEF Buttons, NoButton
  <2> HIDE DEF evs, nd, ns
  <2> QED BY <1>1, <2>2, <2>3, <2>4, <2>5, <2>6, ButtonStep
<1> QED BY <1>3, <1>4

LEMMA ButtonKeysInv == ASSUME AllTyped, AllTyped', StylusInv, ButtonInv, KeyStep PROVE ButtonInv'
<1>1. PICK evs \in Seq(KeyEvents) : Send(evs, {}, {})
  BY KeySends
<1>2. UNCHANGED <<fingers, mode, mouse, held, tap>>
  BY KeySends DEF activity
<1>3. HeldShape' /\ \A b \in Buttons : Kept(b) => Kept(b)'
  BY <1>2 DEF ButtonInv, HeldShape, Kept, Holding
<1>4. evs \in Seq(Events)
  BY SeqMonotonic DEF Events
<1>5. \A i \in DOMAIN evs : evs[i].t # "mouse"
  <2>1. \A i \in DOMAIN evs : evs[i] \in KeyEvents
    BY LenProperties
  <2> QED BY <2>1 DEF KeyEvents
<1>6. \A b \in Buttons : Beside(evs, b)
  BY <1>5, NotMouse
<1> QED BY <1>1, <1>3, <1>4, <1>6, ButtonStep

LEMMA ButtonStylusInv ==
  ASSUME AllTyped, AllTyped', StylusInv, ButtonInv, NEW tool \in Tools, NEW bs \in SUBSET MouseButtons,
         NEW moved \in BOOLEAN, StylusEvent(tool, bs, moved)
  PROVE ButtonInv'
<1>1. PICK e \in StylusEvents :
        /\ Send(<<e>>, {}, IF conn THEN {} ELSE Devices \X (bs \cup stylus.buttons))
        /\ UNCHANGED <<user, conn, fingers, mode, held, pointers, tap, click, mouse, typing, server>>
  BY StylusSends
<1>2. UNCHANGED <<conn, pressed, prev, fingers, mode, held, tap, mouse>>
  BY <1>1 DEF server
<1>3. HeldShape' /\ \A b \in Buttons : Kept(b) => Kept(b)'
  BY <1>2 DEF ButtonInv, HeldShape, Kept, Holding
<1>4. conn => \A b \in Buttons : AsStylus(b) => AsStylus(b)'
  BY <1>2, StylusEventInv DEF AsStylus
<1>5. <<e>> \in Seq(Events) /\ \A i \in DOMAIN <<e>> : <<e>>[i].t # "mouse"
  <2>1. e \in Events /\ e.t # "mouse"
    BY DEF Events, StylusEvents
  <2> QED BY <2>1
<1>6. \A b \in Buttons : Beside(<<e>>, b)
  BY <1>5, NotMouse
<1>7. \A b \in Buttons : conn => Answers(<<e>>, b)
  BY <1>3, <1>4, <1>6 DEF Answers
<1> DEFINE nd == IF conn THEN {} ELSE Devices \X (bs \cup stylus.buttons)
<1>8. Send(<<e>>, {}, nd)
  BY <1>1
<1> HIDE DEF nd
<1> QED BY <1>2, <1>3, <1>5, <1>7, <1>8, ButtonSent DEF StylusInv

LEMMA ButtonPassed ==
  ASSUME AllTyped, NEW t, Reading(t), t # "mouse", NEW b
  PROVE /\ Pushed(b)' <=> Pushed(b)
        /\ \A S : Stays(wire', {}, {Mouse(b, FALSE)}, b, S) <=> Stays(wire, {}, {Mouse(b, FALSE)}, b, S)
<1>1. wire \in Seq(Events) /\ wire # << >> /\ wire' = Tail(wire) /\ Head(wire).t # "mouse"
  BY DEF AllTyped, WireTyped, Reading
<1>2. Head(wire) \notin {Mouse(b, TRUE)} /\ Head(wire) \notin {Mouse(b, FALSE)} /\ Head(wire) \notin {}
  BY <1>1 DEF Mouse
<1>3. {Mouse(b, TRUE)} \cap {Mouse(b, FALSE)} = {} /\ {} \cap {Mouse(b, FALSE)} = {}
  BY MiceApart
<1>4. Stays(Tail(wire), {Mouse(b, TRUE)}, {Mouse(b, FALSE)}, b, {}) <=> Pushed(b)
  BY <1>1, <1>2, <1>3, StaysPassed DEF Pushed
<1>5. ASSUME NEW S PROVE Stays(Tail(wire), {}, {Mouse(b, FALSE)}, b, S) <=> Stays(wire, {}, {Mouse(b, FALSE)}, b, S)
  BY <1>1, <1>2, <1>3, StaysPassed
<1> QED BY <1>1, <1>4, <1>5 DEF Pushed

\* Steps of the server leave the activity alone.
LEMMA ButtonServer ==
  ASSUME ButtonInv, ServerStep PROVE HeldShape' /\ (\A b : Kept(b)' <=> Kept(b)) /\ UNCHANGED stylus
<1>1. UNCHANGED <<fingers, mode, held, tap, mouse, stylus>>
  BY DEF ServerStep, ReadTouch, handleTouchEvent, ReadMouse, ReadStylus, ReadStylusEnable, ReadKey, activity
<1> QED BY <1>1 DEF ButtonInv, HeldShape, Kept, Holding

LEMMA ButtonOthersInv ==
  ASSUME AllTyped, AllTyped', StylusInv, ButtonInv, ReadTouch \/ handleTouchEvent \/ ReadStylusEnable \/ ReadKey
  PROVE ButtonInv'
<1>1. ServerStep
  BY DEF ServerStep
<1>2. UNCHANGED prev /\ pressed'["mouse"] = pressed["mouse"] /\ doubt \subseteq doubt'
  <2>1. CASE ReadTouch \/ handleTouchEvent \/ ReadKey
    BY <2>1 DEF ReadTouch, handleTouchEvent, ReadKey, server, history
  <2>2. CASE ReadStylusEnable
    BY <2>2, ToolsApart DEF ReadStylusEnable
  <2> QED BY <2>1, <2>2
<1>3. Pending' <=> Pending
  BY StylusPassed, StylusEnableInv
<1>4. ASSUME NEW b \in Buttons PROVE (Pushed(b)' <=> Pushed(b)) /\ (StillDown(b)' <=> StillDown(b))
  <2>1. CASE handleTouchEvent
    BY <1>2, <2>1 DEF handleTouchEvent, Pushed, StillDown
  <2>2. CASE \E t : t # "mouse" /\ Reading(t)
    BY <1>2, <2>2, ButtonPassed DEF StillDown
  <2> QED BY <2>1, <2>2 DEF ReadTouch, ReadStylusEnable, ReadKey
<1>5. \A b \in Buttons : AsStylus(b)' <=> AsStylus(b)
  BY <1>1, <1>2, <1>3, ButtonServer DEF AsStylus
<1> QED BY <1>1, <1>2, <1>4, <1>5, ButtonServer DEF ButtonInv, Accounted

LEMMA ButtonReadInv == ASSUME AllTyped, AllTyped', StylusInv, ButtonInv, ReadMouse PROVE ButtonInv'
<1> DEFINE e == Head(wire)
<1>1. ServerStep
  BY DEF ServerStep
<1>2. wire # << >> /\ wire' = Tail(wire) /\ e \in MouseEvents /\ wire \in Seq(Events)
  BY ReadsTyped, EventKinds DEF ReadMouse, AllTyped, WireTyped
<1>3. UNCHANGED <<prev, doubt>> /\ pressed' = [pressed EXCEPT !["mouse"] = IF e.down THEN @ \cup {e.b} ELSE @ \ {e.b}]
  BY DEF ReadMouse, history
<1>4. (Pending' <=> Pending) /\ \A b \in Buttons : AsStylus(b)' <=> AsStylus(b)
  BY <1>1, <1>3, StylusPassed, ButtonServer DEF AsStylus
<1>5. e = Mouse(e.b, e.down) /\ e.down \in BOOLEAN
  BY <1>2 DEF MouseEvents, Mouse
<1>6. pressed'["mouse"] = IF e.down THEN pressed["mouse"] \cup {e.b} ELSE pressed["mouse"] \ {e.b}
  BY <1>3, ToolsApart DEF AllTyped, ServerTyped
<1>7. ASSUME NEW b \in Buttons, <<"mouse", b>> \notin doubt' PROVE Accounted(b)'
  <2> DEFINE P == {Mouse(b, TRUE)}
             R == {Mouse(b, FALSE)}
             q == Tail(wire)
  <2>1. Accounted(b) /\ P \cap R = {} /\ {} \cap R = {}
    BY <1>3, <1>7, MiceApart DEF ButtonInv
  <2>2. /\ e \in P <=> (e.b = b /\ e.down)
        /\ e \in R <=> (e.b = b /\ ~e.down)
    <3>1. CASE e.down
      <4>1. e = Mouse(e.b, TRUE)
        BY <1>5, <3>1
      <4> QED BY <3>1, <4>1, MiceApart
    <3>2. CASE ~e.down
      <4>1. e = Mouse(e.b, FALSE)
        BY <1>5, <3>2
      <4> QED BY <3>2, <4>1, MiceApart
    <3> QED BY <3>1, <3>2
  <2> DEFINE T == IF e \in P THEN {b} ELSE {}
  <2>3. b \in T <=> (e \in P \/ (b \in {} /\ e \notin R))
    OBVIOUS
  <2> HIDE DEF T, P, R
  <2>4. Stays(q, P, R, b, T) <=> Pushed(b)
    BY <1>2, <2>1, <2>3, StaysTaken DEF Pushed, P, R
  <2> HIDE DEF q, e
  <2>5. Pushed(b)' => Pushed(b)
    <3>1. Stays(q, P, R, b, {}) => Stays(q, P, R, b, T)
      BY DEF Stays
    <3> QED BY <1>2, <2>4, <3>1 DEF Pushed, P, R, q
  <2>6. StillDown(b)' => StillDown(b) \/ Pushed(b)
    <3> SUFFICES ASSUME StillDown(b)' PROVE StillDown(b) \/ Pushed(b)
      OBVIOUS
    <3>1. b \in pressed'["mouse"] /\ \A i \in DOMAIN q : q[i] \notin R
      BY <1>2 DEF StillDown, Stays, q, R
    <3>2. CASE e \in P
      <4>1. Stays(q, P, R, b, T)
        BY <3>1, <3>2 DEF Stays, T
      <4> QED BY <2>4, <4>1
    <3>3. CASE e \notin P
      <4>1. b \in pressed["mouse"] /\ e \notin R
        BY <1>6, <2>2, <3>1, <3>3
      <4>2. Stays(q, {}, R, b, pressed["mouse"])
        BY <3>1, <4>1 DEF Stays
      <4>3. e \notin {}
        OBVIOUS
      <4>4. Stays(Tail(wire), {}, R, b, pressed["mouse"]) <=> Stays(wire, {}, R, b, pressed["mouse"])
        BY <1>2, <2>1, <4>1, <4>3, StaysPassed DEF e
      <4> QED BY <4>2, <4>4 DEF StillDown, R, q
    <3> QED BY <3>2, <3>3
  <2> QED BY <1>1, <1>4, <2>1, <2>5, <2>6, ButtonServer DEF Accounted
<1> QED BY <1>1, <1>7, ButtonServer DEF ButtonInv

LEMMA ButtonReadStylusInv == ASSUME AllTyped, AllTyped', StylusInv, ButtonInv, ReadStylus PROVE ButtonInv'
<1> DEFINE e == Head(wire)
           switched == IF e.dev = prev.dev THEN {}
                       ELSE ({prev.dev} \X prev.buttons) \cup ({e.dev} \X (e.buttons \cap prev.buttons))
           cured == IF e.dev = "mouse" THEN {} ELSE {e.dev} \X (prev.buttons \ e.buttons)
<1>1. ServerStep /\ Reading("stylus")
  BY DEF ServerStep, ReadStylus
<1>2. e \in StylusEvents
  BY <1>1, ReadsTyped, EventKinds
<1>3. IF Exists(e.dev)
      THEN /\ pressed' = [pressed EXCEPT ![e.dev] = Compared(e.dev, e.buttons)]
           /\ prev' = [dev |-> e.dev, buttons |-> e.buttons]
           /\ doubt' = (doubt \ cured) \cup switched
      ELSE /\ doubt' = doubt \cup switched \cup ({e.dev} \X e.buttons)
           /\ UNCHANGED <<pressed, prev>>
  BY DEF ReadStylus
<1>4. UNCHANGED stylus /\ ~Pending' => e.dev = stylus.dev /\ e.buttons = stylus.buttons
  <2>1. ~Pending' => e \in Same(stylus)
    BY <1>1, PendingTaken DEF StylusInv
  <2> QED BY <2>1 DEF Same
<1>5. e.dev \in Devices
  BY <1>2 DEF StylusEvents
<1> HIDE DEF e
<1>6. ASSUME NEW b \in Buttons, <<"mouse", b>> \notin doubt' PROVE Accounted(b)'
  <2>1. <<"mouse", b>> \notin cured
    OBVIOUS
  <2>2. <<"mouse", b>> \notin doubt /\ <<"mouse", b>> \notin switched
    BY <1>3, <1>6, <2>1
  <2>3. Accounted(b)
    BY <2>2 DEF ButtonInv
  <2>4. Pushed(b)' <=> Pushed(b)
    BY <1>1, ButtonPassed
  <2>5. StillDown(b)' => b \in pressed'["mouse"] /\ (b \in pressed["mouse"] => StillDown(b))
    <3>1. StillDown(b)' => b \in pressed'["mouse"]
      BY DEF StillDown, Stays
    <3>2. StillDown(b)' /\ b \in pressed["mouse"] => Stays(wire', {}, {Mouse(b, FALSE)}, b, pressed["mouse"])
      BY DEF StillDown, Stays
    <3>3. Stays(wire', {}, {Mouse(b, FALSE)}, b, pressed["mouse"]) <=> StillDown(b)
      BY <1>1, ButtonPassed DEF StillDown
    <3> QED BY <3>1, <3>2, <3>3
  <2>6. ASSUME StillDown(b)' PROVE Kept(b) \/ AsStylus(b)'
    <3>1. CASE e.dev = "mouse"
      <4>1. /\ pressed'["mouse"] = (pressed["mouse"] \ (prev.buttons \ e.buttons)) \cup (e.buttons \ prev.buttons)
            /\ prev'.dev = "mouse" /\ prev'.buttons = e.buttons
        BY <1>3, <1>5, <3>1 DEF Exists, Compared, AllTyped, ServerTyped
      <4>2. CASE b \in e.buttons
        <5>1. Has(prev', "mouse", b)
          BY <4>1, <4>2 DEF Has
        <5>2. Pending' \/ Has(stylus', "mouse", b)
          BY <1>1, <1>4, <3>1, <4>2, ButtonServer DEF Has
        <5> QED BY <5>1, <5>2 DEF AsStylus
      <4>3. CASE b \notin e.buttons
        <5>1. b \in pressed["mouse"] /\ b \notin prev.buttons
          BY <2>5, <2>6, <4>1, <4>3
        <5>2. StillDown(b) /\ ~AsStylus(b)
          BY <2>5, <2>6, <5>1 DEF AsStylus, Has
        <5> QED BY <2>3, <5>2 DEF Accounted
      <4> QED BY <4>2, <4>3
    <3>2. CASE e.dev # "mouse"
      <4>1. pressed'["mouse"] = pressed["mouse"]
        BY <1>3, <3>2, ToolsApart DEF AllTyped, ServerTyped
      <4>2. StillDown(b)
        BY <2>5, <2>6, <4>1
      <4>3. ~Has(prev, "mouse", b)
        BY <2>2, <3>2 DEF Has
      <4> QED BY <2>3, <4>2, <4>3 DEF Accounted, AsStylus
    <3> QED BY <3>1, <3>2
  <2> QED BY <1>1, <2>3, <2>4, <2>6, ButtonServer DEF Accounted
<1> QED BY <1>1, <1>6, ButtonServer DEF ButtonInv

LEMMA ButtonInvNext == AllTyped /\ AllTyped' /\ StylusInv /\ ButtonInv /\ [Next]_vars => ButtonInv'
<1> SUFFICES ASSUME AllTyped, AllTyped', StylusInv, ButtonInv, [Next]_vars PROVE ButtonInv'
  OBVIOUS
<1>1. CASE PointerStep
  BY <1>1, ButtonDownInv, ButtonUpInv, ButtonCancelInv, ButtonMissedInv, ButtonMoveInv, ButtonHoverInv, ButtonPressInv,
     ButtonTimeoutInv, ButtonMouseInv, ButtonStylusInv, ButtonReloadInv DEF PointerStep
<1>2. CASE \E m \in Modes, am, scan \in BOOLEAN : reloadPreferences(m, am, scan)
  BY <1>2, ButtonReloadInv
<1>3. CASE KeyStep
  BY <1>3, ButtonKeysInv
<1>4. CASE ServerStep
  BY <1>4, ButtonReadInv, ButtonReadStylusInv, ButtonOthersInv DEF ServerStep
<1>5. CASE Hangup
  <2>1. doubt' = Devices \X Buttons /\ UNCHANGED <<fingers, mode, held, tap>>
    BY <1>5 DEF Hangup
  <2> QED BY <2>1, ToolsApart DEF ButtonInv, HeldShape
<1>6. CASE Reconnect
  <2>1. doubt' = doubt /\ ~conn /\ UNCHANGED <<fingers, mode, held, tap>>
    BY <1>6 DEF Reconnect, history
  <2> QED BY <2>1, ToolsApart DEF ButtonInv, HeldShape, StylusInv, Lost
<1>7. CASE UNCHANGED vars
  <2>1. UNCHANGED <<fingers, mode, held, tap, mouse, stylus, wire, pressed, prev, doubt>>
    BY <1>7 DEF vars, activity, server, history
  <2> QED BY <2>1 DEF ButtonInv, HeldShape, Accounted, Pushed, StillDown, Kept, Holding, AsStylus, Pending
<1> QED
  BY <1>1, <1>2, <1>3, <1>4, <1>5, <1>6, <1>7, Steps

LEMMA ButtonInvInit == Init => ButtonInv
<1> SUFFICES ASSUME Init PROVE ButtonInv
  OBVIOUS
<1>1. \A b \in Buttons : ~Pushed(b) /\ ~StillDown(b)
  BY StaysEmpty, ToolsApart DEF Init, Pushed, StillDown
<1> QED BY <1>1 DEF Init, ButtonInv, HeldShape, Accounted

(***************************************************************************)
(* The buttons of the mouse are let go, though the fingers, the hardware   *)
(* mouse and the stylus press the same ones: whatever is on the socket, a  *)
(* button that will be down is held by a finger or by the mouse, or is     *)
(* that of the stylus, or its release is in doubt.                         *)
(***************************************************************************)
THEOREM ButtonsAreLetGo == Spec => []ButtonsLetGo
<1>1. AllTyped /\ ButtonInv => ButtonsLetGo
  <2> SUFFICES ASSUME AllTyped, ButtonInv, Quiet, NEW b \in pressed["mouse"], <<"mouse", b>> \notin doubt
               PROVE (b = held /\ fingers # {}) \/ b \in mouse \/ Has(stylus, "mouse", b)
    BY DEF ButtonsLetGo, Has
  <2>1. b \in Buttons
    BY ToolsApart DEF AllTyped, ServerTyped
  <2>2. StillDown(b) /\ ~Pending
    BY StaysEmpty DEF Quiet, StillDown, Pending
  <2> QED BY <2>1, <2>2 DEF ButtonInv, Accounted, Kept, Holding, AsStylus
<1> QED
  BY <1>1, TypedInit, TypedNext, StylusInvInit, StylusInvNext, ButtonInvInit, ButtonInvNext, PTL DEF Spec
=============================================================================
