---------------------------- MODULE Present_proofs ----------------------------
(* What holds of Present for any number of pixmaps, presentations, frames and resizes. *)
EXTENDS Present, SequenceTheorems, WellFoundedInduction, TLAPS

\* The fields of d and of a vblank
Fields == {"msc", "screen", "resizes", "square", "win", "flip", "flipping", "queue", "fenced", "damage",
           "kind", "alive", "locked", "held", "sent", "removed", "faults"}

Vblank == [n : Nat, pix : Clients \cup {None}, at : Int, exec : Int, target : 0..MaxMsc,
           flip : BOOLEAN, fence : BOOLEAN]

Shape(s) == s = [f \in Fields |-> s[f]]

\* What the main thread refers to exists, and only what the client has made is flipped.
Refs(s) ==
  /\ s.msc \in 0..MaxMsc /\ s.resizes \in 0..MaxResizes
  /\ s.screen = ScreenPixmap(s.resizes) /\ s.screen \in s.alive
  /\ s.alive \subseteq Clients \cup {ScreenPixmap(n) : n \in 0..s.resizes}
  /\ s.win \in s.alive /\ s.win \in {s.screen, s.flip}
  /\ s.flip \in (s.alive \cap Clients) \cup {None} /\ (s.flipping => s.flip # None)
  /\ s.sent \subseteq s.alive

Locks(s) ==
  /\ "lock" \notin s.faults /\ "unlock" \notin s.faults
  /\ s.locked = s.held /\ s.held \subseteq s.alive /\ s.win \in s.held

\* A vblank is performed at its target or a frame early, and a flip always a frame early.
Entry(s, v) ==
  /\ v \in Vblank /\ v.pix \in s.alive \cup {None}
  /\ v.target - 1 <= v.exec
  /\ v.pix # None => v.exec = (IF v.flip THEN v.target - 1 ELSE v.target)

\* The frame before the target has come.
Ready(s, v) == "setback" \in s.faults \/ v.target <= s.msc + 1

\* Every vblank is there once, and the time it is queued for is not before the frame before its
\* target.  Those that wait for a fence are due.
Entries(s) ==
  /\ s.queue \in Seq(Vblank) /\ s.fenced \subseteq Vblank
  /\ \A v \in ToSet(s.queue) : Entry(s, v) /\ v.target - 1 <= v.at
  /\ \A v \in s.fenced : Entry(s, v) /\ Ready(s, v)
  /\ \A i, j \in DOMAIN s.queue : s.queue[i].n = s.queue[j].n => i = j
  /\ \A v \in ToSet(s.queue), w \in s.fenced : v.n # w.n
  /\ \A v, w \in s.fenced : v.n = w.n => v = w

Timely(s) == "early" \in s.faults => "setback" \in s.faults

Good(s) == Shape(s) /\ Refs(s) /\ Locks(s) /\ Entries(s) /\ Timely(s)

\* The counter of presentations is ahead of the vblanks' numbers.
IInv ==
  /\ Good(d)
  /\ presents \in Nat /\ \A v \in Vblanks : v.n < presents
  /\ freed \subseteq Clients /\ {rootId, shown} \subseteq Pixmaps
-----------------------------------------------------------------------------
(* Pixmaps and their buffers *)

\* What a change of pixmaps leaves alone
Same(s, t) ==
  /\ t.msc = s.msc /\ t.screen = s.screen /\ t.resizes = s.resizes /\ t.flip = s.flip
  /\ t.flipping = s.flipping /\ t.queue = s.queue /\ t.fenced = s.fenced

LEMMA LockOnly ==
  ASSUME NEW s, Shape(s), NEW p, p \notin s.held
  PROVE LET t == LorieBuffer_lock(s, p) IN
        /\ Shape(t) /\ Same(s, t) /\ t.win = s.win /\ t.alive = s.alive /\ t.sent = s.sent
        /\ t.faults = s.faults /\ t.locked = s.locked \cup {p} /\ t.held = s.held \cup {p}
  BY DEF LorieBuffer_lock, Fault, Shape, Fields, Same

LEMMA UnlockOnly ==
  ASSUME NEW s, Shape(s), NEW p, p \in s.held
  PROVE LET t == LorieBuffer_unlock(s, p) IN
        /\ Shape(t) /\ Same(s, t) /\ t.win = s.win /\ t.alive = s.alive /\ t.sent = s.sent
        /\ t.faults = s.faults /\ t.locked = s.locked \ {p} /\ t.held = s.held \ {p}
  BY DEF LorieBuffer_unlock, Fault, Shape, Fields, Same

\* The root window's pixmap is locked, and the former one is not.
LEMMA WindowPixmap ==
  ASSUME NEW s, Shape(s), Locks(s), NEW p \in s.alive
  PROVE LET t == lorieSetWindowPixmap(s, p) IN
        /\ Shape(t) /\ Same(s, t) /\ t.alive = s.alive /\ t.sent = s.sent /\ t.faults = s.faults
        /\ Locks(t) /\ t.win = p
<1> DEFINE old == LorieBuffer_unlock(s, s.win)
           new == IF p \in old.locked THEN old ELSE LorieBuffer_lock(old, p)
<1>1. lorieSetWindowPixmap(s, p) = [new EXCEPT !.win = p]
  BY DEF lorieSetWindowPixmap, Locks
<1>2. /\ Shape(old) /\ Same(s, old) /\ old.alive = s.alive /\ old.sent = s.sent /\ old.faults = s.faults
      /\ old.locked = s.locked \ {s.win} /\ old.held = s.held \ {s.win}
  BY UnlockOnly DEF Locks
<1> HIDE DEF old
<1>3. /\ Shape(new) /\ Same(s, new) /\ new.alive = s.alive /\ new.sent = s.sent /\ new.faults = s.faults
      /\ new.locked = new.held /\ new.held = old.held \cup {p}
  <2>1. CASE p \in old.locked
    BY <1>2, <2>1 DEF Locks
  <2>2. CASE p \notin old.locked
    BY <1>2, <2>2, LockOnly DEF Locks, Same
  <2> QED BY <2>1, <2>2
<1> HIDE DEF new
<1> QED
  BY <1>1, <1>2, <1>3 DEF Shape, Fields, Same, Locks

LEMMA TreePixmap ==
  ASSUME NEW s, Shape(s), Locks(s), NEW p \in s.alive
  PROVE LET t == present_set_tree_pixmap(s, p) IN
        /\ Shape(t) /\ Same(s, t) /\ t.alive = s.alive /\ t.sent = s.sent /\ t.faults = s.faults
        /\ Locks(t) /\ t.win = p
<1>1. CASE s.win = p
  BY <1>1 DEF present_set_tree_pixmap, Same
<1>2. CASE s.win # p
  BY <1>2, WindowPixmap DEF present_set_tree_pixmap
<1> QED BY <1>1, <1>2

\* A converted buffer is as locked as the regular one was.
LEMMA Converted ==
  ASSUME NEW s, Shape(s), Locks(s), NEW p \in s.alive
  PROVE LET t == LorieBuffer_convert(s, p) IN
        /\ Shape(t) /\ Same(s, t) /\ t.alive = s.alive /\ t.sent = s.sent /\ t.faults = s.faults
        /\ Locks(t) /\ t.win = s.win
<1>1. CASE s.kind[p] # "REGULAR"
  BY <1>1 DEF LorieBuffer_convert, Same
<1>2. CASE s.kind[p] = "REGULAR"
  <2> DEFINE u == [s EXCEPT !.kind[p] = "HARDWARE", !.held = @ \ {p}]
  <2>1. /\ Shape(u) /\ Same(s, u) /\ u.win = s.win /\ u.alive = s.alive /\ u.sent = s.sent
        /\ u.faults = s.faults /\ u.locked = s.locked /\ u.held = s.held \ {p}
    BY DEF Shape, Fields, Same
  <2>2. LorieBuffer_convert(s, p) = LorieBuffer_lock(u, p)
    BY <1>2 DEF LorieBuffer_convert
  <2> HIDE DEF u
  <2>3. LET t == LorieBuffer_lock(u, p) IN
        /\ Shape(t) /\ Same(u, t) /\ t.win = u.win /\ t.alive = u.alive /\ t.sent = u.sent
        /\ t.faults = u.faults /\ t.locked = u.locked \cup {p} /\ t.held = u.held \cup {p}
    BY <2>1, LockOnly
  <2> QED
    BY <2>1, <2>2, <2>3 DEF Locks, Same
<1> QED BY <1>1, <1>2

\* Pixmaps that nothing refers to are destroyed.
Forgotten(s, ps) ==
  /\ s.win \notin ps /\ s.screen \notin ps /\ s.flip \notin ps
  /\ \A v \in ToSet(s.queue) \cup s.fenced : v.pix \notin ps

LEMMA Destroyed ==
  ASSUME NEW s, Good(s), NEW ps, Forgotten(s, ps)
  PROVE LET t == lorieExaDestroyPixmap(s, ps) IN
        /\ Good(t) /\ Same(s, t) /\ t.win = s.win /\ t.alive = s.alive \ ps /\ t.faults = s.faults
<1> DEFINE t == lorieExaDestroyPixmap(s, ps)
<1>1. /\ Shape(t) /\ Same(s, t) /\ t.win = s.win /\ t.alive = s.alive \ ps /\ t.faults = s.faults
      /\ t.locked = s.locked \ ps /\ t.held = s.held \ ps /\ t.sent = s.sent \ ps
  BY DEF Good, Locks, lorieExaDestroyPixmap, Fault, Shape, Fields, Same
<1> HIDE DEF t
<1>2. Refs(t)
  BY <1>1 DEF Good, Refs, Same, Forgotten
<1>3. Locks(t)
  BY <1>1 DEF Good, Locks, Forgotten
<1>4. Timely(t)
  BY <1>1 DEF Good, Timely
<1>5. ASSUME NEW v \in ToSet(s.queue) \cup s.fenced, Entry(s, v) PROVE Entry(t, v)
  BY <1>1, <1>5 DEF Entry, Forgotten
<1>6. \A v : Ready(s, v) => Ready(t, v)
  BY <1>1 DEF Ready, Same
<1>7. Entries(t)
  <2>1. t.queue = s.queue /\ t.fenced = s.fenced
    BY <1>1 DEF Same
  <2> QED BY <1>5, <1>6, <2>1 DEF Good, Entries
<1> QED
  BY <1>1, <1>2, <1>3, <1>4, <1>7 DEF Good, t

LEMMA Freed ==
  ASSUME NEW s, Good(s), NEW gone \in SUBSET Clients
  PROVE Forgotten(s, Unreferenced(s, gone))
<1>1. s.screen \notin Clients
  BY PresentAssumption DEF Good, Refs
<1> QED
  BY <1>1 DEF Good, Refs, Forgotten, Unreferenced

-----------------------------------------------------------------------------
(* The queue *)

\* Nothing but the queue and the waiting vblanks changes.
Besides(s, t) ==
  /\ t.msc = s.msc /\ t.screen = s.screen /\ t.resizes = s.resizes /\ t.flip = s.flip
  /\ t.flipping = s.flipping /\ t.win = s.win /\ t.alive = s.alive /\ t.sent = s.sent
  /\ t.locked = s.locked /\ t.held = s.held /\ t.faults = s.faults

LEMMA BesidesGood ==
  ASSUME NEW s, Good(s), NEW t, Shape(t), Besides(s, t)
  PROVE /\ Refs(t) /\ Locks(t) /\ Timely(t)
        /\ \A v : Entry(t, v) <=> Entry(s, v)
        /\ \A v : Ready(t, v) <=> Ready(s, v)
<1>1. Refs(t)
  BY DEF Good, Besides, Refs
<1>2. Locks(t) /\ Timely(t)
  BY DEF Good, Besides, Locks, Timely
<1>3. \A v : Entry(t, v) <=> Entry(s, v)
  BY DEF Besides, Entry
<1>4. \A v : Ready(t, v) <=> Ready(s, v)
  BY DEF Besides, Ready
<1> QED BY <1>1, <1>2, <1>3, <1>4

\* No vblank has the number of v, or none but v has it.
Unused(s, v) == \A w \in ToSet(s.queue) \cup s.fenced : w.n # v.n
Only(s, v) == \A w \in ToSet(s.queue) \cup s.fenced : w.n = v.n => w = v

LEMMA Least == ASSUME NEW S \in SUBSET Nat, S # {} PROVE \E x \in S : \A y \in S : x <= y
<1>1. IsWellFoundedOn(OpToRel(<, Nat), Nat)
  BY NatLessThanWellFounded
<1>2. PICK x \in S : \A y \in S : ~(<<y, x>> \in OpToRel(<, Nat))
  BY <1>1, WFMin
<1>3. OpToRel(<, Nat) = {p \in Nat \X Nat : p[1] < p[2]}
  BY Zenon DEF OpToRel
<1>4. ASSUME NEW y \in S, y < x PROVE <<y, x>> \in OpToRel(<, Nat)
  <2>1. <<y, x>> \in Nat \X Nat /\ <<y, x>>[1] < <<y, x>>[2]
    BY <1>4
  <2> QED BY <1>3, <2>1, Zenon
<1>5. \A y \in S : ~(y < x)
  BY <1>2, <1>4, Zenon
<1> QED BY <1>5

LEMMA LeastIsIn == ASSUME NEW S \in SUBSET Nat, S # {} PROVE Min(S) \in S
<1>1. PICK x \in S : \A y \in S : x <= y
  BY Least
<1> QED BY <1>1 DEF Min

\* RemoveFirst takes one entry out and keeps the order of the others.
LEMMA Removed ==
  ASSUME NEW q \in Seq(Vblank), NEW v,
         \A i, j \in DOMAIN q : q[i].n = q[j].n => i = j
  PROVE LET r == RemoveFirst(q, v) IN
        /\ r \in Seq(Vblank) /\ ToSet(r) = ToSet(q) \ {v}
        /\ \A i, j \in DOMAIN r : r[i].n = r[j].n => i = j
<1>1. CASE ~\E i \in 1..Len(q) : q[i] = v
  BY <1>1, LenProperties DEF RemoveFirst, ToSet
<1>2. CASE \E i \in 1..Len(q) : q[i] = v
  <2> DEFINE I == {i \in 1..Len(q) : q[i] = v}
             k == Min(I)
             r == RemoveFirst(q, v)
  <2>1. I \in SUBSET Nat /\ I # {}
    BY <1>2, LenProperties
  <2>2. k \in I
    BY <2>1, LeastIsIn
  <2>3. RemoveFirst(q, v) = RemoveAt(q, k)
    BY <1>2, <2>1 DEF RemoveFirst, SelectInSeq
  <2>4. k \in 1..Len(q) /\ q[k] = v /\ Len(q) \in Nat /\ DOMAIN q = 1..Len(q)
    BY <2>2, LenProperties
  <2> HIDE DEF k, I, r
  <2> DEFINE a == SubSeq(q, 1, k - 1)
             b == SubSeq(q, k + 1, Len(q))
  <2>5. a \in Seq(Vblank) /\ Len(a) = k - 1 /\ \A i \in 1..(k - 1) : a[i] = q[i]
    <3>1. 1 \in 1..(Len(q) + 1) /\ k - 1 \in 0..Len(q)
      BY <2>4
    <3> QED BY <2>4, <3>1, SubSeqProperties
  <2>6. b \in Seq(Vblank) /\ Len(b) = Len(q) - k /\ \A i \in 1..(Len(q) - k) : b[i] = q[k + i]
    <3>1. \A i \in (k + 1)..Len(q) : q[i] \in Vblank
      BY <2>4, ElementOfSeq
    <3>2. /\ b \in Seq(Vblank) /\ Len(b) = IF k + 1 <= Len(q) THEN Len(q) - (k + 1) + 1 ELSE 0
          /\ \A i \in 1..(Len(q) - (k + 1) + 1) : b[i] = q[k + 1 + i - 1]
      BY <2>4, <3>1, SubSeqProperties
    <3>3. \A i \in 1..(Len(q) - k) : i \in 1..(Len(q) - (k + 1) + 1) /\ k + 1 + i - 1 = k + i
      BY <2>4
    <3> HIDE DEF b
    <3>4. Len(b) = Len(q) - k
      <4>1. Len(b) = IF k + 1 <= Len(q) THEN Len(q) - (k + 1) + 1 ELSE 0
        BY <3>2
      <4>2. \A m, l \in Nat : m <= l => l - m = IF m + 1 <= l THEN l - (m + 1) + 1 ELSE 0
        OBVIOUS
      <4>3. k \in Nat /\ Len(q) \in Nat /\ k <= Len(q)
        BY <2>4
      <4> QED BY <4>1, <4>2, <4>3
    <3> QED BY <3>2, <3>3, <3>4
  <2>7. r = a \o b
    BY <2>3 DEF r, RemoveAt
  <2> HIDE DEF a, b
  <2>8. /\ r \in Seq(Vblank) /\ DOMAIN r = 1..(Len(q) - 1)
        /\ \A i \in 1..(Len(q) - 1) : r[i] = IF i < k THEN q[i] ELSE q[i + 1]
    <3>1. /\ r \in Seq(Vblank) /\ Len(r) = Len(a) + Len(b)
          /\ \A i \in 1..(Len(a) + Len(b)) : r[i] = IF i <= Len(a) THEN a[i] ELSE b[i - Len(a)]
      BY <2>5, <2>6, <2>7, ConcatProperties
    <3>2. Len(r) = Len(q) - 1 /\ DOMAIN r = 1..(Len(q) - 1)
      BY <2>4, <2>5, <2>6, <3>1, LenProperties
    <3>3. ASSUME NEW i \in 1..(Len(q) - 1), i < k PROVE r[i] = q[i]
      <4>1. i \in 1..(Len(a) + Len(b)) /\ i <= Len(a) /\ i \in 1..(k - 1)
        BY <2>4, <2>5, <2>6, <3>3
      <4> QED BY <2>5, <3>1, <4>1
    <3>4. ASSUME NEW i \in 1..(Len(q) - 1), ~(i < k) PROVE r[i] = q[i + 1]
      <4>1. i \in 1..(Len(a) + Len(b)) /\ ~(i <= Len(a)) /\ i - Len(a) \in 1..(Len(q) - k) /\ k + (i - Len(a)) = i + 1
        BY <2>4, <2>5, <2>6, <3>4
      <4>2. r[i] = b[i - Len(a)]
        BY <3>1, <4>1
      <4> QED BY <2>6, <4>1, <4>2
    <3> QED BY <3>1, <3>2, <3>3, <3>4
  <2>9. ToSet(r) = ToSet(q) \ {v}
    <3>1. ASSUME NEW i \in DOMAIN r PROVE r[i] \in ToSet(q) /\ r[i] # v
      BY <2>4, <2>8 DEF ToSet
    <3>2. ASSUME NEW i \in DOMAIN q, q[i] # v PROVE \E j \in DOMAIN r : r[j] = q[i]
      <4>1. CASE i < k
        BY <2>4, <2>8, <4>1
      <4>2. CASE i > k
        <5>1. i - 1 \in DOMAIN r /\ r[i - 1] = q[i]
          BY <2>4, <2>8, <4>2
        <5> QED BY <5>1
      <4> QED BY <2>4, <3>2, <4>1, <4>2
    <3> QED BY <3>1, <3>2 DEF ToSet
  <2>10. ASSUME NEW i \in DOMAIN r, NEW j \in DOMAIN r, r[i].n = r[j].n PROVE i = j
    <3> DEFINE K(m) == IF m < k THEN m ELSE m + 1
    <3>1. \A m \in DOMAIN r : K(m) \in DOMAIN q /\ r[m] = q[K(m)]
      BY <2>4, <2>8
    <3>2. K(i) = K(j)
      BY <2>10, <3>1
    <3> QED BY <2>4, <2>8, <3>2
  <2> QED BY <2>8, <2>9, <2>10 DEF r
<1> QED BY <1>1, <1>2

LEMMA Taken ==
  ASSUME NEW s, Good(s), NEW v, Only(s, v)
  PROVE LET t == [loriePresentAbortVblank(s, v) EXCEPT !.fenced = @ \ {v}] IN
        /\ Good(t) /\ Besides(s, t) /\ Unused(t, v)
        /\ ToSet(t.queue) = ToSet(s.queue) \ {v} /\ t.fenced = s.fenced \ {v}
<1> DEFINE t == [loriePresentAbortVblank(s, v) EXCEPT !.fenced = @ \ {v}]
<1>1. Shape(t) /\ Besides(s, t) /\ t.queue = RemoveFirst(s.queue, v) /\ t.fenced = s.fenced \ {v}
  BY DEF Good, loriePresentAbortVblank, Shape, Fields, Besides
<1> HIDE DEF t
<1>2. /\ t.queue \in Seq(Vblank) /\ ToSet(t.queue) = ToSet(s.queue) \ {v}
      /\ \A i, j \in DOMAIN t.queue : t.queue[i].n = t.queue[j].n => i = j
  <2>1. s.queue \in Seq(Vblank) /\ \A i, j \in DOMAIN s.queue : s.queue[i].n = s.queue[j].n => i = j
    BY DEF Good, Entries
  <2> QED BY <1>1, <2>1, Removed
<1>3. Unused(t, v)
  BY <1>1, <1>2 DEF Unused, Only
<1>4. Refs(t) /\ Locks(t) /\ Timely(t) /\ (\A w : Entry(t, w) <=> Entry(s, w)) /\ (\A w : Ready(t, w) <=> Ready(s, w))
  BY <1>1, BesidesGood
<1>5. Entries(t)
  BY <1>1, <1>2, <1>4 DEF Good, Entries
<1> QED
  BY <1>1, <1>2, <1>3, <1>4, <1>5 DEF Good, t

LEMMA Requeued ==
  ASSUME NEW v \in Vblank
  PROVE LET w == [v EXCEPT !.at = v.exec] IN
        /\ w \in Vblank /\ w.n = v.n /\ w.pix = v.pix /\ w.at = v.exec /\ w.exec = v.exec
        /\ w.target = v.target /\ w.flip = v.flip /\ w.fence = v.fence
  BY DEF Vblank

LEMMA Prepended ==
  ASSUME NEW q \in Seq(Vblank), NEW v \in Vblank
  PROVE LET r == <<v>> \o q IN
        /\ r \in Seq(Vblank) /\ ToSet(r) = {v} \cup ToSet(q)
        /\ (\A i, j \in DOMAIN q : q[i].n = q[j].n => i = j) /\ (\A w \in ToSet(q) : w.n # v.n)
             => \A i, j \in DOMAIN r : r[i].n = r[j].n => i = j
<1> DEFINE r == <<v>> \o q
<1>1. <<v>> \in Seq(Vblank) /\ Len(<<v>>) = 1 /\ <<v>>[1] = v
  OBVIOUS
<1>2. /\ r \in Seq(Vblank) /\ Len(r) = Len(<<v>>) + Len(q)
      /\ \A i \in 1..(Len(<<v>>) + Len(q)) : r[i] = IF i <= Len(<<v>>) THEN <<v>>[i] ELSE q[i - Len(<<v>>)]
  BY <1>1, ConcatProperties
<1>3. Len(q) \in Nat /\ DOMAIN q = 1..Len(q) /\ DOMAIN r = 1..(1 + Len(q))
  BY <1>1, <1>2, LenProperties
<1> HIDE DEF r
<1>4. r[1] = v /\ \A i \in DOMAIN q : r[i + 1] = q[i] /\ i + 1 \in DOMAIN r
  <2>1. r[1] = v
    BY <1>1, <1>2, <1>3
  <2>2. ASSUME NEW i \in DOMAIN q PROVE r[i + 1] = q[i] /\ i + 1 \in DOMAIN r
    <3>1. i + 1 \in 1..(Len(<<v>>) + Len(q)) /\ ~(i + 1 <= Len(<<v>>)) /\ (i + 1) - Len(<<v>>) = i
      BY <1>1, <1>3
    <3> QED BY <1>1, <1>2, <1>3, <3>1
  <2> QED BY <2>1, <2>2
<1>5. \A i \in DOMAIN r : i = 1 \/ (i - 1 \in DOMAIN q /\ r[i] = q[i - 1])
  <2>1. ASSUME NEW i \in DOMAIN r, i # 1 PROVE i - 1 \in DOMAIN q /\ i = (i - 1) + 1
    BY <1>3, <2>1
  <2> QED BY <1>4, <2>1
<1>6. ToSet(r) = {v} \cup ToSet(q)
  <2>1. 1 \in DOMAIN r
    BY <1>3
  <2> QED BY <1>4, <1>5, <2>1 DEF ToSet
<1>7. ASSUME \A i, j \in DOMAIN q : q[i].n = q[j].n => i = j, \A w \in ToSet(q) : w.n # v.n,
             NEW i \in DOMAIN r, NEW j \in DOMAIN r, r[i].n = r[j].n
      PROVE i = j
  <2>1. \A m \in DOMAIN q : q[m].n # v.n
    BY <1>7 DEF ToSet
  <2>2. CASE i = 1 \/ j = 1
    BY <1>4, <1>5, <1>7, <2>1, <2>2
  <2>3. CASE i # 1 /\ j # 1
    <3>1. i - 1 = j - 1
      BY <1>5, <1>7, <2>3
    <3> QED BY <1>3, <3>1
  <2> QED BY <2>2, <2>3
<1> QED BY <1>2, <1>6, <1>7 DEF r

LEMMA Queued ==
  ASSUME NEW s, Good(s), NEW v, Entry(s, v), Unused(s, v)
  PROVE LET t == loriePresentQueueVblank(s, v) IN
        /\ Good(t) /\ Besides(s, t)
        /\ ToSet(t.queue) = ToSet(s.queue) \cup {[v EXCEPT !.at = v.exec]} /\ t.fenced = s.fenced
<1> DEFINE t == loriePresentQueueVblank(s, v)
           w == [v EXCEPT !.at = v.exec]
<1>1. Shape(t) /\ Besides(s, t) /\ t.queue = <<w>> \o s.queue /\ t.fenced = s.fenced
  BY DEF Good, loriePresentQueueVblank, Shape, Fields, Besides
<1>2. w \in Vblank /\ w.n = v.n /\ w.pix = v.pix /\ w.at = v.exec /\ w.exec = v.exec
      /\ w.target = v.target /\ w.flip = v.flip
  BY Requeued DEF Entry
<1>3. Entry(s, w) /\ w.target - 1 <= w.at
  BY <1>2 DEF Entry
<1>4. s.queue \in Seq(Vblank) /\ s.fenced \subseteq Vblank
      /\ \A i, j \in DOMAIN s.queue : s.queue[i].n = s.queue[j].n => i = j
  BY DEF Good, Entries
<1> HIDE DEF t, w
<1>5. /\ t.queue \in Seq(Vblank) /\ ToSet(t.queue) = {w} \cup ToSet(s.queue)
      /\ \A i, j \in DOMAIN t.queue : t.queue[i].n = t.queue[j].n => i = j
  <2>1. \A x \in ToSet(s.queue) : x.n # w.n
    BY <1>2 DEF Unused
  <2>2. /\ <<w>> \o s.queue \in Seq(Vblank) /\ ToSet(<<w>> \o s.queue) = {w} \cup ToSet(s.queue)
        /\ (\A i, j \in DOMAIN s.queue : s.queue[i].n = s.queue[j].n => i = j) /\ (\A x \in ToSet(s.queue) : x.n # w.n)
             => LET r == <<w>> \o s.queue IN \A i, j \in DOMAIN r : r[i].n = r[j].n => i = j
    BY <1>2, <1>4, Prepended, Zenon
  <2> QED BY <1>1, <1>4, <2>1, <2>2, Zenon
<1>6. Refs(t) /\ Locks(t) /\ Timely(t) /\ (\A x : Entry(t, x) <=> Entry(s, x)) /\ (\A x : Ready(t, x) <=> Ready(s, x))
  BY <1>1, BesidesGood
<1>7. Entries(t)
  BY <1>1, <1>2, <1>3, <1>5, <1>6 DEF Good, Entries, Unused
<1> QED
  BY <1>1, <1>5, <1>6, <1>7 DEF Good, t, w

LEMMA Waits ==
  ASSUME NEW s, Good(s), NEW v, Entry(s, v), Ready(s, v), Unused(s, v)
  PROVE LET t == [s EXCEPT !.fenced = @ \cup {v}] IN
        Good(t) /\ Besides(s, t) /\ t.queue = s.queue /\ t.fenced = s.fenced \cup {v}
<1> DEFINE t == [s EXCEPT !.fenced = @ \cup {v}]
<1>1. Shape(t) /\ Besides(s, t) /\ t.queue = s.queue /\ t.fenced = s.fenced \cup {v}
  BY DEF Good, Shape, Fields, Besides
<1> HIDE DEF t
<1>2. Refs(t) /\ Locks(t) /\ Timely(t) /\ (\A x : Entry(t, x) <=> Entry(s, x)) /\ (\A x : Ready(t, x) <=> Ready(s, x))
  BY <1>1, BesidesGood
<1>3. Entries(t)
  BY <1>1, <1>2 DEF Good, Entries, Unused, Entry
<1> QED
  BY <1>1, <1>2, <1>3 DEF Good, t

LEMMA Bounds == MaxMsc \in Nat /\ MaxResizes \in Nat
  BY PresentAssumption

LEMMA GoodTyped == ASSUME NEW s, Good(s) PROVE s.msc \in Int /\ 0 <= s.msc /\ s.msc <= MaxMsc
<1>1. s.msc \in 0..MaxMsc
  BY DEF Good, Refs
<1> QED BY <1>1, Bounds

LEMMA EntryTyped ==
  ASSUME NEW s, NEW v, Entry(s, v)
  PROVE /\ v.n \in Nat /\ v.target \in Int /\ v.exec \in Int /\ v.at \in Int /\ v.flip \in BOOLEAN
        /\ 0 <= v.target /\ v.target <= MaxMsc /\ v.pix \in Clients \cup {None}
<1>1. v \in Vblank
  BY DEF Entry
<1>2. v.target \in 0..MaxMsc /\ v.n \in Nat /\ v.exec \in Int /\ v.at \in Int /\ v.pix \in Clients \cup {None}
  BY <1>1 DEF Vblank
<1>3. v.flip \in BOOLEAN
  BY <1>1 DEF Vblank
<1> QED BY <1>2, <1>3, Bounds

\* The vblanks stay what they are while pixmaps come and frames pass.
LEMMA EntriesKept ==
  ASSUME NEW s, Good(s), NEW t, t.queue = s.queue, t.fenced = s.fenced, s.alive \subseteq t.alive,
         t.msc \in Int, s.faults \subseteq t.faults, s.msc <= t.msc \/ "setback" \in t.faults
  PROVE /\ Entries(t)
        /\ \A v : Entry(s, v) => Entry(t, v)
        /\ \A v : Entry(s, v) /\ Ready(s, v) => Ready(t, v)
<1>1. \A v : Entry(s, v) => Entry(t, v)
  BY DEF Entry
<1>2. ASSUME NEW v, Entry(s, v), Ready(s, v) PROVE Ready(t, v)
  <2>1. s.msc \in Int /\ v.target \in Int
    BY <1>2, GoodTyped, EntryTyped
  <2> QED BY <1>2, <2>1 DEF Ready
<1>3. Entries(t)
  BY <1>1, <1>2 DEF Good, Entries
<1> QED BY <1>1, <1>2, <1>3
-----------------------------------------------------------------------------
(* Performing presentations *)

LEMMA Restored ==
  ASSUME NEW s, Good(s)
  PROVE LET t == present_restore_screen_pixmap(s) IN
        /\ Good(t) /\ Same(s, t) /\ t.alive = s.alive /\ t.faults = s.faults /\ t.win = s.screen
<1> DEFINE u == [s EXCEPT !.damage = @ \/ s.win = s.flip]
           t == present_restore_screen_pixmap(s)
<1>1. Shape(u) /\ Same(s, u) /\ Besides(s, u)
  BY DEF Good, Shape, Fields, Same, Besides
<1>2. t = present_set_tree_pixmap(u, s.screen)
  BY DEF present_restore_screen_pixmap
<1> HIDE DEF u, t
<1>3. Locks(u) /\ s.screen \in u.alive
  BY <1>1 DEF Good, Locks, Refs, Besides
<1>4. /\ Shape(t) /\ Same(u, t) /\ t.alive = u.alive /\ t.sent = u.sent /\ t.faults = u.faults
      /\ Locks(t) /\ t.win = s.screen
  BY <1>1, <1>2, <1>3, TreePixmap
<1>5. Same(s, t) /\ t.alive = s.alive /\ t.sent = s.sent /\ t.faults = s.faults
  BY <1>1, <1>4 DEF Same, Besides
<1>6. Refs(t)
  BY <1>4, <1>5 DEF Good, Refs, Same
<1>7. Timely(t)
  BY <1>5 DEF Good, Timely
<1>8. Entries(t)
  <2>1. t.queue = s.queue /\ t.fenced = s.fenced /\ s.alive \subseteq t.alive /\ t.msc \in Int
        /\ s.msc <= t.msc /\ s.faults \subseteq t.faults
    BY <1>5, Bounds DEF Good, Refs, Same
  <2> QED BY <2>1, EntriesKept
<1> QED
  BY <1>4, <1>5, <1>6, <1>7, <1>8 DEF Good, t

LEMMA Unflipped ==
  ASSUME NEW s, Good(s)
  PROVE LET t == present_unflip(s) IN
        /\ Good(t) /\ t.msc = s.msc /\ t.resizes = s.resizes /\ t.screen = s.screen
        /\ t.queue = s.queue /\ t.fenced = s.fenced /\ t.alive = s.alive /\ t.faults = s.faults
        /\ t.win = s.screen /\ t.flip = None
<1> DEFINE u == present_restore_screen_pixmap(s)
           t == present_unflip(s)
<1>1. Good(u) /\ Same(s, u) /\ u.alive = s.alive /\ u.faults = s.faults /\ u.win = s.screen
  BY Restored
<1>2. t = [u EXCEPT !.flip = None, !.flipping = FALSE]
  BY DEF present_unflip
<1> HIDE DEF u, t
<1>3. /\ Shape(t) /\ t.msc = u.msc /\ t.resizes = u.resizes /\ t.screen = u.screen /\ t.queue = u.queue
      /\ t.fenced = u.fenced /\ t.alive = u.alive /\ t.faults = u.faults /\ t.win = u.win
      /\ t.flip = None /\ t.flipping = FALSE /\ t.locked = u.locked /\ t.held = u.held /\ t.sent = u.sent
  BY <1>1, <1>2 DEF Good, Shape, Fields
<1>4. Refs(t)
  BY <1>1, <1>3 DEF Good, Refs, Same
<1>5. Locks(t) /\ Timely(t)
  BY <1>1, <1>3 DEF Good, Locks, Timely
<1>6. Entries(t)
  <2>1. t.queue = u.queue /\ t.fenced = u.fenced /\ u.alive \subseteq t.alive /\ t.msc \in Int
        /\ u.msc <= t.msc /\ u.faults \subseteq t.faults
    BY <1>1, <1>3, Bounds DEF Good, Refs
  <2> QED BY <1>1, <2>1, EntriesKept
<1> QED
  BY <1>1, <1>3, <1>4, <1>5, <1>6 DEF Good, Same, t

\* Performing v keeps the other vblanks of the queue and makes none with another number.
Leads(s, v, t) ==
  /\ Good(t) /\ t.resizes = s.resizes
  /\ \A w \in ToSet(s.queue) : w # v => w \in ToSet(t.queue)
  /\ \A w \in ToSet(t.queue) \cup t.fenced : w.n = v.n \/ w \in ToSet(s.queue) \cup s.fenced

LEMMA Notified ==
  ASSUME NEW s, Good(s), NEW v, s.msc < FrameOf(v) => "setback" \in s.faults
  PROVE LET t == present_vblank_notify(s, v) IN
        /\ Good(t) /\ t.resizes = s.resizes /\ t.queue = s.queue /\ t.fenced = s.fenced
<1> DEFINE t == present_vblank_notify(s, v)
<1>1. /\ Shape(t) /\ Same(s, t) /\ t.win = s.win /\ t.alive = s.alive /\ t.locked = s.locked
      /\ t.held = s.held /\ t.sent = s.sent
      /\ (s.msc < FrameOf(v)) => t.faults = s.faults \cup {"early"}
      /\ ~(s.msc < FrameOf(v)) => t.faults = s.faults
  <2>1. t = Fault(s, "early", s.msc < FrameOf(v))
    BY DEF present_vblank_notify
  <2>2. CASE s.msc < FrameOf(v)
    BY <2>1, <2>2 DEF Good, Fault, Shape, Fields, Same
  <2>3. CASE ~(s.msc < FrameOf(v))
    BY <2>1, <2>3 DEF Good, Fault, Shape, Fields, Same
  <2> QED BY <2>2, <2>3
<1> HIDE DEF t
<1>2. Refs(t)
  BY <1>1 DEF Good, Refs, Same
<1>3. Locks(t) /\ Timely(t)
  BY <1>1 DEF Good, Locks, Timely
<1>4. Entries(t)
  <2>1. s.faults \subseteq t.faults
    BY <1>1
  <2>2. t.queue = s.queue /\ t.fenced = s.fenced /\ s.alive \subseteq t.alive /\ t.msc \in Int /\ s.msc <= t.msc
    BY <1>1, GoodTyped DEF Same
  <2> QED BY <2>1, <2>2, EntriesKept
<1> QED BY <1>1, <1>2, <1>3, <1>4 DEF Good, Same, t

\* A copy is complete if its target has come, and is queued for it otherwise.
LEMMA Copied ==
  ASSUME NEW s, Good(s), NEW v, Entry(s, v), Ready(s, v), Unused(s, v), v.pix # None, v.flip = FALSE
  PROVE Leads(s, v, Copy(s, v))
<1> DEFINE r == IF s.flipping THEN present_unflip(s) ELSE s
<1>1. /\ Good(r) /\ r.msc = s.msc /\ r.resizes = s.resizes /\ r.queue = s.queue /\ r.fenced = s.fenced
      /\ r.alive = s.alive /\ r.faults = s.faults
  BY Unflipped
<1>2. Copy(s, v) = IF v.exec = s.msc + 1 THEN loriePresentQueueVblank(r, v)
                   ELSE present_vblank_notify([r EXCEPT !.damage = TRUE], v)
  BY DEF Copy
<1> HIDE DEF r
<1>3. CASE v.exec = s.msc + 1
  <2> DEFINE t == loriePresentQueueVblank(r, v)
  <2>1. Entry(r, v) /\ Unused(r, v)
    BY <1>1 DEF Entry, Unused
  <2>2. /\ Good(t) /\ Besides(r, t) /\ ToSet(t.queue) = ToSet(r.queue) \cup {[v EXCEPT !.at = v.exec]}
        /\ t.fenced = r.fenced
    BY <1>1, <2>1, Queued
  <2>3. [v EXCEPT !.at = v.exec].n = v.n
    BY Requeued DEF Entry
  <2>4. Copy(s, v) = t
    BY <1>2, <1>3
  <2> HIDE DEF t
  <2> QED BY <1>1, <2>2, <2>3, <2>4 DEF Leads, Besides
<1>4. CASE v.exec # s.msc + 1
  <2> DEFINE u == [r EXCEPT !.damage = TRUE]
             t == present_vblank_notify(u, v)
  <2>1. Shape(u) /\ Besides(r, u) /\ u.queue = r.queue /\ u.fenced = r.fenced
    BY <1>1 DEF Good, Shape, Fields, Besides
  <2> HIDE DEF u
  <2>2. Good(u)
    BY <1>1, <2>1, BesidesGood DEF Good, Entries
  <2>3. u.msc < FrameOf(v) => "setback" \in u.faults
    <3>1. u.msc = s.msc /\ u.faults = s.faults
      BY <1>1, <2>1 DEF Besides
    <3>2. s.msc \in Int /\ v.target \in Int /\ v.exec = v.target
      BY GoodTyped, EntryTyped DEF Entry
    <3> QED BY <1>4, <3>1, <3>2 DEF Ready, FrameOf
  <2>4. Good(t) /\ t.resizes = u.resizes /\ t.queue = u.queue /\ t.fenced = u.fenced
    BY <2>2, <2>3, Notified
  <2>5. Copy(s, v) = t
    BY <1>2, <1>4 DEF u
  <2> HIDE DEF t
  <2> QED BY <1>1, <2>1, <2>4, <2>5 DEF Leads, Besides
<1> QED BY <1>3, <1>4

LEMMA Registered ==
  ASSUME NEW s, Shape(s), NEW p
  PROVE LET t == lorieRegisterBuffer(s, p) IN
        /\ Shape(t) /\ Same(s, t) /\ t.win = s.win /\ t.alive = s.alive /\ t.locked = s.locked
        /\ t.held = s.held /\ t.faults = s.faults /\ t.sent \subseteq s.sent \cup {p}
  BY DEF lorieRegisterBuffer, Shape, Fields, Same

\* A flip moves the frame counter on by one, or to the target.
LEMMA Counted ==
  ASSUME NEW s, Shape(s), NEW target \in 0..MaxMsc, s.msc \in 0..MaxMsc
  PROVE LET t == loriePresentAfterFlip(s, target) IN
        /\ Shape(t) /\ t.screen = s.screen /\ t.resizes = s.resizes /\ t.flip = s.flip
        /\ t.queue = s.queue /\ t.fenced = s.fenced /\ t.win = s.win /\ t.alive = s.alive
        /\ t.locked = s.locked /\ t.held = s.held /\ t.sent = s.sent
        /\ t.msc \in 0..MaxMsc /\ (t.msc = s.msc + 1 \/ t.msc = target)
        /\ target <= s.msc + 1 => t.msc = target
        /\ s.faults \subseteq t.faults /\ t.faults \subseteq s.faults \cup {"setback"}
        /\ t.msc < s.msc => "setback" \in t.faults
<1> DEFINE m == IF s.msc + 1 < target THEN s.msc + 1 ELSE target
           u == [s EXCEPT !.damage = TRUE, !.msc = m]
           t == loriePresentAfterFlip(s, target)
<1>1. /\ m \in 0..MaxMsc /\ (m = s.msc + 1 \/ m = target) /\ (target <= s.msc + 1 => m = target)
      /\ (m < s.msc => target < s.msc)
  BY Bounds
<1>2. t = Fault(u, "setback", target < s.msc)
  BY DEF loriePresentAfterFlip
<1>3. /\ Shape(u) /\ u.screen = s.screen /\ u.resizes = s.resizes /\ u.flip = s.flip
      /\ u.queue = s.queue /\ u.fenced = s.fenced /\ u.win = s.win /\ u.alive = s.alive
      /\ u.locked = s.locked /\ u.held = s.held /\ u.sent = s.sent /\ u.msc = m /\ u.faults = s.faults
  BY DEF Shape, Fields
<1> HIDE DEF m, u, t
<1>4. /\ Shape(t) /\ Same(u, t) /\ t.win = u.win /\ t.alive = u.alive /\ t.locked = u.locked
      /\ t.held = u.held /\ t.sent = u.sent
      /\ (target < s.msc) => t.faults = u.faults \cup {"setback"}
      /\ ~(target < s.msc) => t.faults = u.faults
  <2>1. CASE target < s.msc
    BY <1>2, <1>3, <2>1 DEF Fault, Shape, Fields, Same
  <2>2. CASE ~(target < s.msc)
    BY <1>2, <1>3, <2>2 DEF Fault, Shape, Fields, Same
  <2> QED BY <2>1, <2>2
<1> QED BY <1>1, <1>3, <1>4 DEF Same, t

\* A flip is performed a frame early at most, and moves the counter to its target.
LEMMA Flipped ==
  ASSUME NEW s, Good(s), NEW v, Entry(s, v), Ready(s, v), v.pix # None
  PROVE Leads(s, v, Flip(s, v))
<1> DEFINE p == v.pix
           c == LorieBuffer_convert(s, p)
           r == lorieRegisterBuffer(c, p)
           w == present_set_tree_pixmap(r, p)
           a == loriePresentAfterFlip(w, v.target)
           f == [a EXCEPT !.flip = p, !.flipping = TRUE]
<1>1. Flip(s, v) = present_vblank_notify(f, v)
  BY DEF Flip
<1>2. p \in s.alive \cap Clients
  BY EntryTyped DEF Entry
<1>3. s.msc \in 0..MaxMsc /\ v.target \in 0..MaxMsc /\ s.msc \in Int /\ v.target \in Int
  BY GoodTyped, EntryTyped, Bounds
<1> HIDE DEF p
<1>4. /\ Shape(c) /\ Same(s, c) /\ c.alive = s.alive /\ c.sent = s.sent /\ c.faults = s.faults
      /\ Locks(c) /\ c.win = s.win
  BY <1>2, Converted DEF Good
<1> HIDE DEF c
<1>5. /\ Shape(r) /\ Same(c, r) /\ r.win = c.win /\ r.alive = c.alive /\ r.locked = c.locked
      /\ r.held = c.held /\ r.faults = c.faults /\ r.sent \subseteq c.sent \cup {p}
  BY <1>4, Registered
<1> HIDE DEF r
<1>6. Locks(r) /\ p \in r.alive
  BY <1>2, <1>4, <1>5 DEF Locks
<1>7. /\ Shape(w) /\ Same(r, w) /\ w.alive = r.alive /\ w.sent = r.sent /\ w.faults = r.faults
      /\ Locks(w) /\ w.win = p
  BY <1>5, <1>6, TreePixmap
<1> HIDE DEF w
<1>8. /\ Shape(w) /\ Same(s, w) /\ w.alive = s.alive /\ w.sent \subseteq s.sent \cup {p} /\ w.faults = s.faults
      /\ Locks(w) /\ w.win = p
  BY <1>4, <1>5, <1>7 DEF Same
<1>9. /\ Shape(a) /\ a.screen = w.screen /\ a.resizes = w.resizes /\ a.flip = w.flip
      /\ a.queue = w.queue /\ a.fenced = w.fenced /\ a.win = w.win /\ a.alive = w.alive
      /\ a.locked = w.locked /\ a.held = w.held /\ a.sent = w.sent
      /\ a.msc \in 0..MaxMsc /\ (v.target <= w.msc + 1 => a.msc = v.target)
      /\ w.faults \subseteq a.faults /\ a.faults \subseteq w.faults \cup {"setback"}
      /\ a.msc < w.msc => "setback" \in a.faults
  BY <1>3, <1>8, Counted DEF Same
<1> HIDE DEF a
<1>10. /\ Shape(f) /\ f.screen = a.screen /\ f.resizes = a.resizes /\ f.flip = p /\ f.flipping = TRUE
       /\ f.queue = a.queue /\ f.fenced = a.fenced /\ f.win = a.win /\ f.alive = a.alive
       /\ f.locked = a.locked /\ f.held = a.held /\ f.sent = a.sent /\ f.msc = a.msc /\ f.faults = a.faults
  BY <1>9 DEF Shape, Fields
<1> HIDE DEF f
<1>11. /\ f.screen = s.screen /\ f.resizes = s.resizes /\ f.queue = s.queue /\ f.fenced = s.fenced
       /\ f.win = p /\ f.alive = s.alive /\ f.sent \subseteq s.sent \cup {p}
       /\ s.faults \subseteq f.faults /\ f.faults \subseteq s.faults \cup {"setback"}
  BY <1>8, <1>9, <1>10 DEF Same
<1>12. f.msc \in 0..MaxMsc /\ (v.target <= s.msc + 1 => f.msc = v.target) /\ (f.msc < s.msc => "setback" \in f.faults)
  BY <1>8, <1>9, <1>10 DEF Same
<1>13. Refs(f)
  <2>1. p # None
    BY DEF p
  <2> QED BY <1>2, <1>10, <1>11, <1>12, <2>1 DEF Good, Refs
<1>14. Locks(f)
  BY <1>8, <1>9, <1>10, <1>11 DEF Locks
<1>15. Timely(f)
  BY <1>11 DEF Good, Timely
<1>16. Entries(f)
  <2>1. f.msc \in Int /\ (s.msc <= f.msc \/ "setback" \in f.faults)
    BY <1>3, <1>12, Bounds
  <2> QED BY <1>11, <2>1, EntriesKept
<1>17. Good(f)
  BY <1>10, <1>13, <1>14, <1>15, <1>16 DEF Good
<1>18. f.msc < FrameOf(v) => "setback" \in f.faults
  BY <1>3, <1>11, <1>12 DEF Ready, FrameOf
<1>19. LET t == present_vblank_notify(f, v) IN
       Good(t) /\ t.resizes = f.resizes /\ t.queue = f.queue /\ t.fenced = f.fenced
  BY <1>17, <1>18, Notified
<1> QED BY <1>1, <1>11, <1>19 DEF Leads

LEMMA Refused ==
  ASSUME NEW v \in Vblank
  PROVE LET w == [v EXCEPT !.flip = FALSE, !.exec = v.target] IN
        /\ w \in Vblank /\ w.n = v.n /\ w.pix = v.pix /\ w.at = v.at /\ w.exec = v.target
        /\ w.target = v.target /\ w.flip = FALSE
<1> DEFINE w == [v EXCEPT !.flip = FALSE, !.exec = v.target]
<1>1. w.n = v.n /\ w.pix = v.pix /\ w.at = v.at /\ w.exec = v.target /\ w.target = v.target /\ w.flip = FALSE
  BY DEF Vblank
<1>2. v.target \in Int
  <2>1. v.target \in 0..MaxMsc
    BY DEF Vblank
  <2> QED BY <2>1, Bounds
<1>3. w \in Vblank
  BY <1>2 DEF Vblank
<1> QED BY <1>1, <1>3

LEMMA Executed ==
  ASSUME NEW s, Good(s), NEW v, Entry(s, v), Ready(s, v), Only(s, v), NEW memory, freed \subseteq Clients
  PROVE Leads(s, v, present_execute(s, v, memory))
<1> DEFINE t == [loriePresentAbortVblank(s, v) EXCEPT !.fenced = @ \ {v}]
           u == [v EXCEPT !.flip = FALSE, !.exec = v.target]
           next == IF v.exec = s.msc + 1 THEN loriePresentQueueVblank(t, v)
                   ELSE IF v.fence THEN [t EXCEPT !.fenced = @ \cup {v}]
                   ELSE IF v.pix = None THEN present_vblank_notify(t, v)
                   ELSE IF ~v.flip THEN Copy(t, v)
                   ELSE IF loriePresentFlip(s, v.pix, memory) THEN Flip(t, v)
                   ELSE Copy(t, u)
           end == lorieExaDestroyPixmap(next, Unreferenced(next, freed))
<1>1. present_execute(s, v, memory) = end
  BY DEF present_execute
<1>2. /\ Good(t) /\ Besides(s, t) /\ Unused(t, v)
      /\ ToSet(t.queue) = ToSet(s.queue) \ {v} /\ t.fenced = s.fenced \ {v}
  BY Taken
<1> HIDE DEF t
<1>3. Entry(t, v) /\ Ready(t, v) /\ t.resizes = s.resizes
  BY <1>2 DEF Besides, Entry, Ready
<1>4. Leads(t, v, loriePresentQueueVblank(t, v))
  <2> DEFINE q == loriePresentQueueVblank(t, v)
  <2>1. /\ Good(q) /\ Besides(t, q) /\ ToSet(q.queue) = ToSet(t.queue) \cup {[v EXCEPT !.at = v.exec]}
        /\ q.fenced = t.fenced
    BY <1>2, <1>3, Queued
  <2>2. [v EXCEPT !.at = v.exec].n = v.n
    BY Requeued DEF Entry
  <2> HIDE DEF q
  <2>3. Leads(t, v, q)
    BY <2>1, <2>2 DEF Leads, Besides
  <2> QED BY <2>3 DEF q
<1>5. Leads(t, v, [t EXCEPT !.fenced = @ \cup {v}])
  <2> DEFINE q == [t EXCEPT !.fenced = @ \cup {v}]
  <2>1. Good(q) /\ Besides(t, q) /\ q.queue = t.queue /\ q.fenced = t.fenced \cup {v}
    BY <1>2, <1>3, Waits
  <2> HIDE DEF q
  <2>3. Leads(t, v, q)
    BY <2>1 DEF Leads, Besides
  <2> QED BY <2>3 DEF q
<1>6. v.pix = None => Leads(t, v, present_vblank_notify(t, v))
  <2> DEFINE q == present_vblank_notify(t, v)
  <2>1. t.msc \in Int /\ v.target \in Int /\ v.exec \in Int
    BY <1>2, <1>3, GoodTyped, EntryTyped
  <2>2. v.pix = None => (t.msc < FrameOf(v) => "setback" \in t.faults)
    BY <1>3, <2>1 DEF Ready, FrameOf
  <2>3. v.pix = None => (Good(q) /\ q.resizes = t.resizes /\ q.queue = t.queue /\ q.fenced = t.fenced)
    BY <1>2, <2>2, Notified
  <2> HIDE DEF q
  <2>4. v.pix = None => Leads(t, v, q)
    BY <2>3 DEF Leads
  <2> QED BY <2>4 DEF q
<1>7. v.pix # None /\ ~v.flip => Leads(t, v, Copy(t, v))
  BY <1>2, <1>3, EntryTyped, Copied
<1>8. v.pix # None => Leads(t, v, Flip(t, v))
  BY <1>2, <1>3, Flipped
<1>9. v.pix # None => Leads(t, v, Copy(t, u))
  <2>1. u \in Vblank /\ u.n = v.n /\ u.pix = v.pix /\ u.exec = v.target /\ u.target = v.target /\ u.flip = FALSE
    BY Refused DEF Entry
  <2>2. v.target \in Int
    BY EntryTyped
  <2> HIDE DEF u
  <2>3. Entry(t, u) /\ Ready(t, u) /\ Unused(t, u)
    BY <1>2, <1>3, <2>1, <2>2 DEF Entry, Ready, Unused
  <2>4. v.pix # None => Leads(t, u, Copy(t, u))
    BY <1>2, <2>1, <2>3, Copied
  <2>5. \A w \in ToSet(t.queue) : w # u
    BY <2>1, <1>2 DEF Unused
  <2>6. ASSUME NEW x, Leads(t, u, x) PROVE Leads(t, v, x)
    BY <2>1, <2>5, <2>6 DEF Leads
  <2> QED BY <2>4, <2>6
<1>10. Leads(t, v, next)
  BY <1>4, <1>5, <1>6, <1>7, <1>8, <1>9
<1> HIDE DEF next
<1>11. Leads(s, v, next)
  BY <1>2, <1>3, <1>10 DEF Leads
<1>12. Good(end) /\ Same(next, end)
  <2>1. Good(next)
    BY <1>11 DEF Leads
  <2> QED BY <2>1, Freed, Destroyed
<1> HIDE DEF end
<1>13. Leads(s, v, end)
  BY <1>11, <1>12 DEF Leads, Same
<1> QED BY <1>1, <1>13

\* loriePerformVblanks' step with the n-th vblank of the queue that s has
Step(s, memory, t, n) ==
  IF VblankDue(t, s.queue[n]) THEN present_execute(t, s.queue[n], memory) ELSE t

\* g has the states after each of the first k vblanks.
Course(s, memory, k, g) == g = [n \in 0..k |-> IF n = 0 THEN s ELSE Step(s, memory, g[n - 1], n)]

\* There is such a course for every k: there is no least k without one.
LEMMA CourseExists == ASSUME NEW s, NEW memory, NEW k \in Nat PROVE \E g : Course(s, memory, k, g)
<1> DEFINE B == {j \in Nat : ~\E g : Course(s, memory, j, g)}
<1> SUFFICES ASSUME B # {} PROVE FALSE
  OBVIOUS
<1>1. PICK j \in B : \A i \in B : j <= i
  <2>1. B \in SUBSET Nat
    OBVIOUS
  <2> QED BY <2>1, Least
<1>2. CASE j = 0
  <2> DEFINE g == [n \in 0..0 |-> s]
  <2>1. g = [n \in 0..0 |-> IF n = 0 THEN s ELSE Step(s, memory, g[n - 1], n)]
    OBVIOUS
  <2> QED BY <1>1, <1>2, <2>1 DEF Course
<1>3. CASE j # 0
  <2>1. j \in Nat /\ j - 1 \in Nat /\ j - 1 \notin B
    BY <1>1, <1>3
  <2>2. PICK g : Course(s, memory, j - 1, g)
    BY <2>1
  <2> DEFINE h == [n \in 0..j |-> IF n = j THEN Step(s, memory, g[j - 1], j) ELSE g[n]]
  <2>3. \A n \in 0..(j - 1) : g[n] = IF n = 0 THEN s ELSE Step(s, memory, g[n - 1], n)
    BY <2>2, Zenon DEF Course
  <2>4. ASSUME NEW n \in 0..j PROVE h[n] = IF n = 0 THEN s ELSE Step(s, memory, h[n - 1], n)
    <3>1. n # 0 => n - 1 \in 0..j /\ n - 1 # j /\ h[n - 1] = g[n - 1]
      BY <2>1
    <3>2. CASE n = j
      <4>1. h[n] = Step(s, memory, g[j - 1], j)
        BY <3>2
      <4> QED BY <1>3, <3>1, <3>2, <4>1
    <3>3. CASE n # j
      <4>1. h[n] = g[n] /\ n \in 0..(j - 1)
        BY <2>1, <3>3
      <4>2. h[n] = IF n = 0 THEN s ELSE Step(s, memory, g[n - 1], n)
        BY <2>3, <4>1
      <4> HIDE DEF h
      <4> QED BY <3>1, <4>2
    <3> QED BY <3>2, <3>3
  <2>5. h = [n \in 0..j |-> h[n]]
    OBVIOUS
  <2> HIDE DEF h
  <2>6. Course(s, memory, j, h)
    BY <2>4, <2>5 DEF Course
  <2> QED BY <1>1, <2>6
<1> QED BY <1>2, <1>3

LEMMA Performs ==
  ASSUME NEW s, NEW memory, Len(s.queue) \in Nat
  PROVE \E g : Course(s, memory, Len(s.queue), g) /\ loriePerformVblanks(s, memory) = g[Len(s.queue)]
<1> DEFINE f == CHOOSE g : Course(s, memory, Len(s.queue), g)
<1>1. Course(s, memory, Len(s.queue), f)
  BY CourseExists
<1>2. loriePerformVblanks(s, memory) = f[Len(s.queue)]
  BY DEF loriePerformVblanks, Course, Step
<1> QED BY <1>1, <1>2

\* Every vblank of t has the number of one of s.
Numbered(s, t) ==
  \A w \in ToSet(t.queue) \cup t.fenced : \E x \in ToSet(s.queue) \cup s.fenced : w.n = x.n

\* The vblanks that are still to be visited are in the queue, whatever was performed before them.
LEMMA Performed ==
  ASSUME NEW s, Good(s), NEW memory, freed \subseteq Clients
  PROVE LET t == loriePerformVblanks(s, memory) IN Good(t) /\ t.resizes = s.resizes /\ Numbered(s, t)
<1> DEFINE q == s.queue
           L == Len(s.queue)
<1>1. /\ q \in Seq(Vblank) /\ L \in Nat /\ DOMAIN q = 1..L
      /\ \A i, j \in DOMAIN q : q[i].n = q[j].n => i = j
  <2>1. q \in Seq(Vblank) /\ \A i, j \in DOMAIN q : q[i].n = q[j].n => i = j
    BY DEF Good, Entries
  <2> QED BY <2>1, LenProperties
<1>2. PICK g : Course(s, memory, L, g) /\ loriePerformVblanks(s, memory) = g[L]
  BY <1>1, Performs
<1>3. g[0] = s /\ \A n \in 1..L : g[n] = Step(s, memory, g[n - 1], n)
  <2>1. \A n \in 0..L : g[n] = IF n = 0 THEN s ELSE Step(s, memory, g[n - 1], n)
    BY <1>2, Zenon DEF Course
  <2> QED BY <1>1, <2>1
<1> DEFINE Inv(n) == /\ Good(g[n]) /\ g[n].resizes = s.resizes /\ Numbered(s, g[n])
                     /\ \A m \in DOMAIN q : m > n => q[m] \in ToSet(g[n].queue)
<1>4. Inv(0)
  BY <1>1, <1>3 DEF Numbered, ToSet
<1>5. ASSUME NEW n \in 1..L, Inv(n - 1) PROVE Inv(n)
  <2> DEFINE v == q[n]
             t == g[n - 1]
  <2>1. n \in DOMAIN q /\ n \in Int /\ n > n - 1
    BY <1>1
  <2>2. v \in ToSet(t.queue) /\ Good(t)
    BY <1>5, <2>1
  <2>3. Entry(t, v) /\ v.target - 1 <= v.at /\ Only(t, v)
    <3>1. Entries(t)
      BY <2>2 DEF Good
    <3>2. ASSUME NEW w \in ToSet(t.queue), w.n = v.n PROVE w = v
      BY <2>2, <3>1, <3>2 DEF Entries, ToSet
    <3> QED BY <2>2, <3>1, <3>2 DEF Entries, Only
  <2>4. CASE ~VblankDue(t, v)
    <3>1. g[n] = t
      BY <1>3, <2>4 DEF Step
    <3>2. \A m \in DOMAIN q : m > n => m > n - 1
      BY <1>1, <2>1
    <3> QED BY <1>5, <3>1, <3>2
  <2>5. CASE VblankDue(t, v)
    <3>1. g[n] = present_execute(t, v, memory)
      BY <1>3, <2>5 DEF Step
    <3>2. Ready(t, v)
      <4>1. t.msc \in Int /\ v.target \in Int /\ v.at \in Int
        BY <2>2, <2>3, GoodTyped, EntryTyped
      <4>2. v.at <= t.msc
        BY <2>5 DEF VblankDue
      <4> HIDE DEF t, v
      <4> QED BY <2>3, <4>1, <4>2 DEF Ready
    <3>3. Leads(t, v, g[n])
      BY <2>2, <2>3, <3>1, <3>2, Executed
    <3>4. ASSUME NEW m \in DOMAIN q, m > n PROVE q[m] \in ToSet(g[n].queue)
      <4>1. q[m] \in ToSet(t.queue)
        BY <1>1, <1>5, <2>1, <3>4
      <4>2. q[m] # v
        BY <1>1, <2>1, <3>4
      <4> QED BY <3>3, <4>1, <4>2 DEF Leads
    <3>5. Numbered(s, g[n])
      <4>1. Numbered(s, t)
        BY <1>5
      <4> HIDE DEF t, v
      <4> QED BY <2>2, <3>3, <4>1 DEF Leads, Numbered
    <3>6. Good(g[n]) /\ g[n].resizes = s.resizes
      BY <1>5, <3>3 DEF Leads
    <3> QED BY <3>4, <3>5, <3>6
  <2> QED BY <2>4, <2>5
<1>6. Inv(L)
  <2> DEFINE B == {n \in 0..L : ~Inv(n)}
  <2> HIDE DEF Inv
  <2> SUFFICES ASSUME B # {} PROVE FALSE
    BY <1>1
  <2>1. PICK n \in B : \A i \in B : n <= i
    <3>1. B \in SUBSET Nat
      BY <1>1
    <3> QED BY <3>1, Least
  <2>2. n \in 1..L /\ n - 1 \in 0..L /\ n - 1 \notin B
    BY <1>1, <1>4, <2>1
  <2> QED BY <1>5, <2>1, <2>2
<1> QED BY <1>2, <1>6

-----------------------------------------------------------------------------
(* The operations *)

LEMMA IsSeq == ASSUME NEW S, NEW n \in Nat, NEW g \in [1..n -> S] PROVE g \in Seq(S)
  OBVIOUS

\* Every vblank x becomes f[x], which keeps its number, its target and the time it is queued for.
LEMMA Changed ==
  ASSUME NEW s, Good(s), NEW f,
         \A x \in ToSet(s.queue) \cup s.fenced :
           Entry(s, f[x]) /\ f[x].n = x.n /\ f[x].target = x.target /\ f[x].at = x.at,
         NEW t, Shape(t), Besides(s, t), t.queue = [i \in DOMAIN s.queue |-> f[s.queue[i]]],
         t.fenced = {f[x] : x \in s.fenced}
  PROVE Good(t) /\ Numbered(s, t)
<1>1. s.queue \in Seq(Vblank) /\ Len(s.queue) \in Nat /\ DOMAIN s.queue = 1..Len(s.queue)
  <2>1. s.queue \in Seq(Vblank)
    BY DEF Good, Entries
  <2> QED BY <2>1, LenProperties
<1>2. Refs(t) /\ Locks(t) /\ Timely(t) /\ (\A x : Entry(t, x) <=> Entry(s, x)) /\ (\A x : Ready(t, x) <=> Ready(s, x))
  BY BesidesGood
<1>3. DOMAIN t.queue = DOMAIN s.queue /\ \A i \in DOMAIN s.queue : t.queue[i] = f[s.queue[i]] /\ s.queue[i] \in ToSet(s.queue)
  BY DEF ToSet
<1>4. t.queue \in Seq(Vblank)
  <2>1. \A i \in 1..Len(s.queue) : t.queue[i] \in Vblank
    <3>1. ASSUME NEW i \in 1..Len(s.queue) PROVE t.queue[i] = f[s.queue[i]] /\ Entry(s, f[s.queue[i]])
      BY <1>1, <1>3
    <3> QED BY <3>1 DEF Entry
  <2>2. t.queue \in [1..Len(s.queue) -> Vblank]
    BY <1>1, <2>1
  <2> QED BY <1>1, <2>2, IsSeq
<1>5. \A w \in ToSet(t.queue) : \E x \in ToSet(s.queue) : w = f[x]
  BY <1>3 DEF ToSet
<1>6. Entries(s)
  BY DEF Good
<1>7. \A w \in ToSet(t.queue) : Entry(t, w) /\ w.target - 1 <= w.at
  BY <1>2, <1>5, <1>6 DEF Entries
<1>8. \A w \in t.fenced : w \in Vblank /\ Entry(t, w) /\ Ready(t, w)
  BY <1>2, <1>6 DEF Entries, Entry, Ready
<1>9. \A i, j \in DOMAIN t.queue : t.queue[i].n = t.queue[j].n => i = j
  <2>1. ASSUME NEW i \in DOMAIN s.queue PROVE t.queue[i].n = s.queue[i].n
    BY <1>3
  <2> QED BY <1>3, <1>6, <2>1 DEF Entries
<1>10. \A v \in ToSet(t.queue), w \in t.fenced : v.n # w.n
  BY <1>5, <1>6 DEF Entries
<1>11. \A v, w \in t.fenced : v.n = w.n => v = w
  BY <1>6 DEF Entries
<1>12. Entries(t)
  BY <1>4, <1>7, <1>8, <1>9, <1>10, <1>11 DEF Entries
<1>13. Numbered(s, t)
  BY <1>5 DEF Numbered
<1> QED BY <1>2, <1>12, <1>13 DEF Good

LEMMA NoMoreFlips ==
  ASSUME NEW s, Good(s)
  PROVE LET t == NoFlips(s) IN
        /\ Good(t) /\ Numbered(s, t) /\ t.resizes = s.resizes /\ t.alive = s.alive
<1> DEFINE u == IF s.flipping THEN present_unflip(s) ELSE s
           C(v) == IF v.flip THEN [v EXCEPT !.flip = FALSE, !.exec = v.target] ELSE v
           t == NoFlips(s)
           f == [x \in ToSet(u.queue) \cup u.fenced |-> C(x)]
<1>1. Good(u) /\ u.resizes = s.resizes /\ u.queue = s.queue /\ u.fenced = s.fenced /\ u.alive = s.alive
  BY Unflipped
<1>2. t = [u EXCEPT !.queue = [i \in DOMAIN @ |-> C(@[i])], !.fenced = {C(v) : v \in @}]
  BY DEF NoFlips
<1> HIDE DEF u, t
<1>3. /\ Shape(t) /\ Besides(u, t) /\ t.queue = [i \in DOMAIN u.queue |-> C(u.queue[i])]
      /\ t.fenced = {C(v) : v \in u.fenced}
  BY <1>1, <1>2 DEF Good, Shape, Fields, Besides
<1>4. ASSUME NEW x \in ToSet(u.queue) \cup u.fenced
      PROVE Entry(u, C(x)) /\ C(x).n = x.n /\ C(x).target = x.target /\ C(x).at = x.at
  <2>1. Entry(u, x)
    BY <1>1 DEF Good, Entries
  <2>2. CASE x.flip
    <3> DEFINE w == [x EXCEPT !.flip = FALSE, !.exec = x.target]
    <3>1. /\ w \in Vblank /\ w.n = x.n /\ w.pix = x.pix /\ w.at = x.at /\ w.exec = x.target
          /\ w.target = x.target /\ w.flip = FALSE
      BY <2>1, Refused DEF Entry
    <3>2. x.target \in Int
      BY <2>1, EntryTyped
    <3>3. C(x) = w
      BY <2>2
    <3> HIDE DEF w
    <3>4. Entry(u, w)
      BY <2>1, <3>1, <3>2 DEF Entry
    <3> QED BY <3>1, <3>3, <3>4
  <2>3. CASE ~x.flip
    BY <2>1, <2>3
  <2> QED BY <2>2, <2>3
<1> HIDE DEF C
<1>5. \A x \in ToSet(u.queue) \cup u.fenced : f[x] = C(x)
  OBVIOUS
<1> HIDE DEF f
<1>6. t.queue = [i \in DOMAIN u.queue |-> f[u.queue[i]]] /\ t.fenced = {f[x] : x \in u.fenced}
  <2>1. \A i \in DOMAIN u.queue : f[u.queue[i]] = C(u.queue[i])
    BY <1>5 DEF ToSet
  <2> QED BY <1>3, <1>5, <2>1
<1>7. Good(t) /\ Numbered(u, t)
  BY <1>1, <1>3, <1>4, <1>5, <1>6, Changed
<1> QED BY <1>1, <1>3, <1>7 DEF Numbered, Besides, t

\* What an operation of the main thread has to show
LEMMA Kept ==
  ASSUME IInv, Good(d'), presents' \in Nat, presents <= presents', Numbered(d, d'),
         freed' \subseteq Clients, {rootId', shown'} \subseteq Pixmaps
  PROVE IInv'
<1>1. ASSUME NEW w \in Vblanks' PROVE w.n < presents'
  <2>1. PICK x \in Vblanks : w.n = x.n
    BY DEF Numbered, Vblanks
  <2>2. Entry(d, x) /\ x.n < presents
    BY DEF IInv, Good, Entries, Vblanks
  <2>3. x.n \in Nat
    BY <2>2, EntryTyped
  <2> QED BY <2>1, <2>2, <2>3 DEF IInv
<1> QED BY <1>1 DEF IInv

LEMMA Stored == ASSUME IInv, UNCHANGED <<freed, presents, rootId, shown>>, Good(d'), Numbered(d, d') PROVE IInv'
<1>1. presents' \in Nat /\ presents <= presents' /\ freed' \subseteq Clients /\ {rootId', shown'} \subseteq Pixmaps
  BY DEF IInv
<1> QED BY <1>1, Kept

LEMMA PresentKeeps ==
  ASSUME IInv, NEW p \in Clients, NEW r \in Requests, NEW fence \in {FALSE, Fences}, PresentPixmap(p, r, fence)
  PROVE IInv'
<1> DEFINE target == d.msc + r.ahead
           exec == IF r.flip THEN target - 1 ELSE target
           v == [n |-> presents, pix |-> p, at |-> exec, exec |-> exec, target |-> target, flip |-> r.flip, fence |-> fence]
           Scrap(w) == IF w.target = target THEN [w EXCEPT !.pix = None, !.flip = FALSE] ELSE w
           s == [d EXCEPT !.queue = [i \in DOMAIN @ |-> Scrap(@[i])], !.fenced = {Scrap(w) : w \in @}]
           t == lorieExaDestroyPixmap(s, Unreferenced(s, freed))
           f == [x \in ToSet(d.queue) \cup d.fenced |-> Scrap(x)]
<1>1. /\ target <= MaxMsc /\ p \in d.alive \ freed /\ presents' = presents + 1
      /\ IF exec > d.msc THEN d' = loriePresentQueueVblank(t, v)
         ELSE \E memory \in BOOLEAN : d' = present_execute(t, v, memory)
      /\ UNCHANGED <<freed, rootId, shown>>
  BY DEF PresentPixmap, shared
<1>2. d.msc \in Int /\ 0 <= d.msc /\ r.ahead \in Nat /\ r.flip \in BOOLEAN /\ fence \in BOOLEAN
  <2>1. r \in [ahead : Nat, flip : BOOLEAN] /\ Fences \in BOOLEAN
    BY PresentAssumption
  <2>2. r.ahead \in Nat
    BY <2>1
  <2>3. r.flip \in BOOLEAN
    BY <2>1
  <2>4. fence \in BOOLEAN
    BY <2>1
  <2> QED BY <2>2, <2>3, <2>4, GoodTyped DEF IInv
<1>3. target \in 0..MaxMsc /\ target \in Int /\ exec \in Int /\ target - 1 <= exec
      /\ exec = (IF r.flip THEN target - 1 ELSE target)
  <2>1. target \in 0..MaxMsc /\ target \in Int
    <3>1. d.msc + r.ahead <= MaxMsc
      BY <1>1
    <3>2. d.msc \in Int /\ 0 <= d.msc /\ r.ahead \in Nat
      BY <1>2
    <3> QED BY <3>1, <3>2, Bounds
  <2> HIDE DEF target
  <2>2. exec = (IF r.flip THEN target - 1 ELSE target)
    OBVIOUS
  <2> HIDE DEF exec
  <2> QED BY <2>1, <2>2
<1>4. v \in Vblank
  <2> HIDE DEF exec, target
  <2> QED BY <1>2, <1>3 DEF Vblank, IInv
<1>5. v.n = presents /\ v.pix = p /\ v.exec = exec /\ v.target = target /\ v.flip = r.flip
  OBVIOUS
<1>6. Good(d) /\ freed \subseteq Clients /\ presents \in Nat
  BY DEF IInv
<1>7. /\ Shape(s) /\ Besides(d, s) /\ s.queue = [i \in DOMAIN d.queue |-> Scrap(d.queue[i])]
      /\ s.fenced = {Scrap(w) : w \in d.fenced}
  <2> HIDE DEF Scrap
  <2> QED BY <1>6 DEF Good, Shape, Fields, Besides
<1> HIDE DEF exec, target, v, s
<1>8. ASSUME NEW x \in ToSet(d.queue) \cup d.fenced
      PROVE Entry(d, Scrap(x)) /\ Scrap(x).n = x.n /\ Scrap(x).target = x.target /\ Scrap(x).at = x.at
  <2>1. Entry(d, x)
    BY <1>6 DEF Good, Entries
  <2>2. CASE x.target = target
    <3> DEFINE w == [x EXCEPT !.pix = None, !.flip = FALSE]
    <3>1. x \in Vblank
      BY <2>1 DEF Entry
    <3>2. w \in Vblank /\ w.n = x.n /\ w.pix = None /\ w.at = x.at /\ w.exec = x.exec /\ w.target = x.target
      BY <3>1 DEF Vblank
    <3>3. Scrap(x) = w
      BY <2>2
    <3> HIDE DEF w
    <3>4. Entry(d, w)
      BY <2>1, <3>2 DEF Entry
    <3> QED BY <3>2, <3>3, <3>4
  <2>3. CASE x.target # target
    BY <2>1, <2>3
  <2> QED BY <2>2, <2>3
<1> HIDE DEF Scrap
<1>9. \A x \in ToSet(d.queue) \cup d.fenced : f[x] = Scrap(x)
  OBVIOUS
<1> HIDE DEF f
<1>10. s.queue = [i \in DOMAIN d.queue |-> f[d.queue[i]]] /\ s.fenced = {f[x] : x \in d.fenced}
  <2>1. \A i \in DOMAIN d.queue : f[d.queue[i]] = Scrap(d.queue[i])
    BY <1>9 DEF ToSet
  <2> QED BY <1>7, <1>9, <2>1
<1>11. Good(s) /\ Numbered(d, s)
  BY <1>6, <1>7, <1>8, <1>9, <1>10, Changed
<1>12. Good(t) /\ Same(s, t) /\ t.alive = s.alive \ Unreferenced(s, freed) /\ t.faults = s.faults
  BY <1>6, <1>11, Freed, Destroyed
<1> HIDE DEF t
<1>13. t.msc = d.msc /\ p \in t.alive /\ Numbered(d, t)
  <2>1. p \in s.alive /\ s.msc = d.msc /\ p \notin Unreferenced(s, freed)
    BY <1>1, <1>7 DEF Besides, Unreferenced
  <2> QED BY <1>11, <1>12, <2>1 DEF Same, Numbered
<1>14. ASSUME NEW w \in ToSet(t.queue) \cup t.fenced PROVE w.n < presents /\ w.n \in Nat
  <2>1. PICK x \in ToSet(d.queue) \cup d.fenced : w.n = x.n
    BY <1>13 DEF Numbered
  <2>2. x.n < presents /\ Entry(d, x)
    BY DEF IInv, Good, Entries, Vblanks
  <2> QED BY <2>1, <2>2, EntryTyped
<1>15. Unused(t, v) /\ Only(t, v)
  BY <1>5, <1>6, <1>14 DEF Unused, Only
<1>16. Entry(t, v)
  BY <1>3, <1>4, <1>5, <1>13 DEF Entry
<1>17. Good(d') /\ \A w \in ToSet(d'.queue) \cup d'.fenced : w.n = v.n \/ w \in ToSet(t.queue) \cup t.fenced
  <2>1. CASE exec > d.msc
    <3> DEFINE q == loriePresentQueueVblank(t, v)
    <3>1. d' = q
      BY <1>1, <2>1
    <3>2. Good(q) /\ ToSet(q.queue) = ToSet(t.queue) \cup {[v EXCEPT !.at = v.exec]} /\ q.fenced = t.fenced
      BY <1>12, <1>15, <1>16, Queued
    <3>3. [v EXCEPT !.at = v.exec].n = v.n
      BY <1>4, Requeued
    <3> HIDE DEF q
    <3> QED BY <3>1, <3>2, <3>3
  <2>2. CASE ~(exec > d.msc)
    <3>1. PICK memory \in BOOLEAN : d' = present_execute(t, v, memory)
      BY <1>1, <2>2
    <3>2. Ready(t, v)
      BY <1>2, <1>3, <1>5, <1>13, <2>2 DEF Ready
    <3>3. Leads(t, v, d')
      BY <1>6, <1>12, <1>15, <1>16, <3>1, <3>2, Executed
    <3> QED BY <3>3 DEF Leads
  <2> QED BY <2>1, <2>2
<1>18. \A w \in Vblanks' : w.n < presents'
  BY <1>1, <1>5, <1>6, <1>14, <1>17 DEF Vblanks
<1> QED BY <1>1, <1>6, <1>17, <1>18 DEF IInv

LEMMA FenceKeeps == ASSUME IInv, present_wait_fence_triggered PROVE IInv'
<1>1. PICK v \in d.fenced, memory \in BOOLEAN :
        d' = LET w == [v EXCEPT !.fence = FALSE]
             IN  present_execute([d EXCEPT !.fenced = (@ \ {v}) \cup {w}], w, memory)
  BY DEF present_wait_fence_triggered
<1> DEFINE w == [v EXCEPT !.fence = FALSE]
           s == [d EXCEPT !.fenced = (@ \ {v}) \cup {w}]
<1>2. Good(d) /\ freed \subseteq Clients
  BY DEF IInv
<1>3. Entry(d, v) /\ Ready(d, v) /\ v \in Vblank
  BY <1>2 DEF Good, Entries
<1>4. /\ w \in Vblank /\ w.n = v.n /\ w.pix = v.pix /\ w.at = v.at /\ w.exec = v.exec
      /\ w.target = v.target /\ w.flip = v.flip
  BY <1>3 DEF Vblank
<1>5. Shape(s) /\ Besides(d, s) /\ s.queue = d.queue /\ s.fenced = (d.fenced \ {v}) \cup {w}
  <2> HIDE DEF w
  <2> QED BY <1>2 DEF Good, Shape, Fields, Besides
<1>6. d' = present_execute(s, w, memory)
  BY <1>1
<1> HIDE DEF w, s
<1>7. Refs(s) /\ Locks(s) /\ Timely(s) /\ (\A x : Entry(s, x) <=> Entry(d, x)) /\ (\A x : Ready(s, x) <=> Ready(d, x))
  BY <1>2, <1>5, BesidesGood
<1>8. Entry(s, w) /\ Ready(s, w)
  <2>1. Entry(d, w) /\ Ready(d, w)
    BY <1>3, <1>4 DEF Entry, Ready
  <2> QED BY <1>7, <2>1
<1>9. Good(s)
  <2>1. Entries(d)
    BY <1>2 DEF Good
  <2>2. Entries(s)
    BY <1>4, <1>5, <1>7, <1>8, <2>1 DEF Entries
  <2> QED BY <1>5, <1>7, <2>2 DEF Good
<1>10. Only(s, w)
  <2>1. Entries(d)
    BY <1>2 DEF Good
  <2> QED BY <1>4, <1>5, <2>1 DEF Entries, Only
<1>11. Leads(s, w, d')
  BY <1>2, <1>6, <1>8, <1>9, <1>10, Executed
<1>12. Numbered(d, d')
  <2>1. Numbered(d, s)
    BY <1>4, <1>5 DEF Numbered
  <2> QED BY <1>4, <1>11, <2>1 DEF Leads, Numbered
<1> QED
  BY <1>11, <1>12, Stored DEF Leads, present_wait_fence_triggered, shared

LEMMA FreeKeeps == ASSUME IInv, NEW p \in Clients, FreePixmap(p) PROVE IInv'
<1>1. freed' \subseteq Clients /\ d' = lorieExaDestroyPixmap(d, Unreferenced(d, freed')) /\ UNCHANGED <<presents, rootId, shown>>
  BY DEF IInv, FreePixmap, shared
<1>2. Good(d)
  BY DEF IInv
<1>3. Good(d') /\ Same(d, d')
  BY <1>1, <1>2, Freed, Destroyed
<1>4. Numbered(d, d')
  BY <1>3 DEF Same, Numbered
<1>5. presents' \in Nat /\ presents <= presents' /\ {rootId', shown'} \subseteq Pixmaps
  BY <1>1 DEF IInv
<1> QED BY <1>1, <1>3, <1>4, <1>5, Kept

LEMMA WindowKeeps == ASSUME IInv, present_destroy_window PROVE IInv'
<1> DEFINE a == [d EXCEPT !.queue = <<>>, !.fenced = {}]
           r == IF d.flipping THEN present_restore_screen_pixmap(a) ELSE a
           c == [r EXCEPT !.flipping = FALSE]
<1>1. d' = lorieExaDestroyPixmap(c, Unreferenced(c, freed)) /\ UNCHANGED <<freed, presents, rootId, shown>>
  BY DEF present_destroy_window, shared
<1>2. Good(d) /\ freed \subseteq Clients
  BY DEF IInv
<1>3. Shape(a) /\ Besides(d, a) /\ a.queue = <<>> /\ a.fenced = {}
  BY <1>2 DEF Good, Shape, Fields, Besides
<1> HIDE DEF a
<1>4. Good(a)
  <2>1. Entries(a)
    BY <1>3 DEF Entries, ToSet
  <2> QED BY <1>2, <1>3, <2>1, BesidesGood DEF Good
<1>5. Good(r) /\ r.queue = <<>> /\ r.fenced = {}
  BY <1>3, <1>4, Restored DEF Same
<1> HIDE DEF r
<1>6. Good(c) /\ c.queue = <<>> /\ c.fenced = {}
  <2>1. /\ Shape(c) /\ c.msc = r.msc /\ c.screen = r.screen /\ c.resizes = r.resizes /\ c.flip = r.flip
        /\ c.flipping = FALSE /\ c.win = r.win /\ c.alive = r.alive /\ c.sent = r.sent /\ c.locked = r.locked
        /\ c.held = r.held /\ c.faults = r.faults /\ c.queue = <<>> /\ c.fenced = {}
    BY <1>5 DEF Good, Shape, Fields
  <2> HIDE DEF c
  <2>2. Refs(c)
    BY <1>5, <2>1 DEF Good, Refs
  <2>3. Locks(c) /\ Timely(c)
    BY <1>5, <2>1 DEF Good, Locks, Timely
  <2>4. Entries(c)
    BY <2>1 DEF Entries, ToSet
  <2> QED BY <2>1, <2>2, <2>3, <2>4 DEF Good
<1> HIDE DEF c
<1>7. Good(d') /\ Same(c, d')
  BY <1>1, <1>2, <1>6, Freed, Destroyed
<1>8. Numbered(d, d')
  BY <1>6, <1>7 DEF Same, Numbered, ToSet
<1> QED BY <1>1, <1>7, <1>8, Stored

LEMMA CoveredKeeps == ASSUME IInv, present_check_flip_window PROVE IInv'
<1> DEFINE t == NoFlips(d)
<1>1. d' = lorieExaDestroyPixmap(t, Unreferenced(t, freed)) /\ UNCHANGED <<freed, presents, rootId, shown>>
  BY DEF present_check_flip_window, shared
<1>2. Good(d) /\ freed \subseteq Clients
  BY DEF IInv
<1>3. Good(t) /\ Numbered(d, t)
  BY <1>2, NoMoreFlips
<1> HIDE DEF t
<1>4. Good(d') /\ Same(t, d')
  BY <1>1, <1>2, <1>3, Freed, Destroyed
<1>5. Numbered(d, d')
  BY <1>3, <1>4 DEF Same, Numbered
<1> QED BY <1>1, <1>4, <1>5, Stored

LEMMA DrawKeeps == ASSUME IInv, NEW p \in Pixmaps, Draw(p) PROVE IInv'
<1> DEFINE l == LorieBuffer_lock(d, p)
           u == LorieBuffer_unlock(l, p)
           s == IF p \in d.locked THEN d ELSE u
<1>1. d' = [s EXCEPT !.damage = @ \/ p = d.screen] /\ UNCHANGED <<freed, presents, rootId, shown>>
  BY DEF Draw, shared
<1>2. Good(d) /\ d.locked = d.held
  BY DEF IInv, Good, Locks
<1>3. Shape(s) /\ Besides(d, s) /\ s.queue = d.queue /\ s.fenced = d.fenced
  <2>1. CASE p \in d.locked
    BY <1>2, <2>1 DEF Good, Besides
  <2>2. CASE p \notin d.locked
    <3>1. /\ Shape(l) /\ Same(d, l) /\ l.win = d.win /\ l.alive = d.alive /\ l.sent = d.sent
          /\ l.faults = d.faults /\ l.locked = d.locked \cup {p} /\ l.held = d.held \cup {p}
      BY <1>2, <2>2, LockOnly DEF Good
    <3> HIDE DEF l
    <3>2. /\ Shape(u) /\ Same(l, u) /\ u.win = l.win /\ u.alive = l.alive /\ u.sent = l.sent
          /\ u.faults = l.faults /\ u.locked = l.locked \ {p} /\ u.held = l.held \ {p}
      BY <3>1, UnlockOnly
    <3> HIDE DEF u
    <3>3. s = u
      BY <2>2
    <3> HIDE DEF s
    <3>4. s.locked = d.locked /\ s.held = d.held
      BY <1>2, <2>2, <3>1, <3>2, <3>3
    <3> QED BY <3>1, <3>2, <3>3, <3>4 DEF Same, Besides
  <2> QED BY <2>1, <2>2
<1> HIDE DEF s
<1>4. Shape(d') /\ Besides(d, d') /\ d'.queue = d.queue /\ d'.fenced = d.fenced
  BY <1>1, <1>3 DEF Shape, Fields, Besides
<1>5. Good(d')
  BY <1>2, <1>4, BesidesGood DEF Good, Entries
<1> QED BY <1>1, <1>4, <1>5, Stored DEF Numbered

\* Changes of the damage and of the other faults do not matter.
LEMMA Published ==
  ASSUME NEW s, Good(s), NEW c \in BOOLEAN
  PROVE LET t == Fault(s, "destroyed", c)
            u == [t EXCEPT !.damage = FALSE]
        IN  /\ Good(t) /\ t.queue = s.queue /\ t.fenced = s.fenced
            /\ Good(u) /\ u.queue = s.queue /\ u.fenced = s.fenced
<1> DEFINE t == Fault(s, "destroyed", c)
           u == [t EXCEPT !.damage = FALSE]
           T(x) == /\ Shape(x) /\ Same(s, x) /\ x.win = s.win /\ x.alive = s.alive /\ x.sent = s.sent
                   /\ x.locked = s.locked /\ x.held = s.held
                   /\ s.faults \subseteq x.faults /\ x.faults \subseteq s.faults \cup {"destroyed"}
<1>1. T(t)
  BY DEF Good, Fault, Shape, Fields, Same
<1>2. T(u)
  <2> HIDE DEF t
  <2> QED BY <1>1 DEF Shape, Fields, Same
<1>3. ASSUME NEW x, T(x) PROVE Good(x) /\ x.queue = s.queue /\ x.fenced = s.fenced
  <2>1. Refs(x)
    BY <1>3 DEF Good, Refs, Same
  <2>2. Locks(x)
    BY <1>3 DEF Good, Locks
  <2>3. Timely(x)
    BY <1>3 DEF Good, Timely
  <2>4. Entries(x)
    <3>1. x.queue = s.queue /\ x.fenced = s.fenced /\ s.alive \subseteq x.alive /\ x.msc \in Int /\ s.msc <= x.msc
      BY <1>3, GoodTyped DEF Same
    <3> QED BY <1>3, <3>1, EntriesKept
  <2> QED BY <1>3, <2>1, <2>2, <2>3, <2>4 DEF Good, Same
<1> HIDE DEF T, t, u
<1>4. Good(t) /\ t.queue = s.queue /\ t.fenced = s.fenced
  BY <1>1, <1>3
<1>5. Good(u) /\ u.queue = s.queue /\ u.fenced = s.fenced
  BY <1>2, <1>3
<1> QED BY <1>4, <1>5 DEF t, u

LEMMA RedrawKeeps == ASSUME IInv, lorieRedraw PROVE IInv'
<1> DEFINE n == [d EXCEPT !.msc = IF @ < MaxMsc THEN @ + 1 ELSE @]
<1>1. PICK memory \in BOOLEAN :
        LET s == loriePerformVblanks(n, memory)
            t == Fault(s, "destroyed", d.win \notin s.alive)
        IN  /\ d' = t \/ d' = [t EXCEPT !.damage = FALSE]
            /\ rootId' \in {rootId, d.win}
  BY DEF lorieRedraw, shared
<1>2. Good(d) /\ freed \subseteq Clients
  BY DEF IInv
<1>3. Good(n) /\ n.queue = d.queue /\ n.fenced = d.fenced
  <2>1. d.msc \in Int /\ 0 <= d.msc /\ d.msc <= MaxMsc
    BY <1>2, GoodTyped
  <2>2. /\ Shape(n) /\ n.screen = d.screen /\ n.resizes = d.resizes /\ n.flip = d.flip
        /\ n.flipping = d.flipping /\ n.win = d.win /\ n.alive = d.alive /\ n.sent = d.sent
        /\ n.locked = d.locked /\ n.held = d.held /\ n.faults = d.faults
        /\ n.queue = d.queue /\ n.fenced = d.fenced
        /\ n.msc = IF d.msc < MaxMsc THEN d.msc + 1 ELSE d.msc
    BY <1>2 DEF Good, Shape, Fields
  <2> HIDE DEF n
  <2>3. n.msc \in 0..MaxMsc /\ n.msc \in Int /\ d.msc <= n.msc
    BY <2>1, <2>2, Bounds
  <2>4. Refs(n)
    BY <1>2, <2>2, <2>3 DEF Good, Refs
  <2>5. Locks(n) /\ Timely(n)
    BY <1>2, <2>2 DEF Good, Locks, Timely
  <2>6. Entries(n)
    BY <1>2, <2>2, <2>3, EntriesKept
  <2> QED BY <2>2, <2>4, <2>5, <2>6 DEF Good
<1> DEFINE s == loriePerformVblanks(n, memory)
<1> HIDE DEF n
<1>4. Good(s) /\ Numbered(n, s)
  BY <1>2, <1>3, Performed
<1> HIDE DEF s
<1>5. Good(d') /\ d'.queue = s.queue /\ d'.fenced = s.fenced
  <2> DEFINE c == d.win \notin s.alive
  <2>1. c \in BOOLEAN
    OBVIOUS
  <2>2. d' = Fault(s, "destroyed", c) \/ d' = [Fault(s, "destroyed", c) EXCEPT !.damage = FALSE]
    BY <1>1 DEF s
  <2> HIDE DEF c
  <2> QED BY <1>4, <2>1, <2>2, Published
<1>6. Numbered(d, d')
  BY <1>3, <1>4, <1>5 DEF Numbered
<1>7. d.win \in Pixmaps
  BY <1>2, Bounds DEF Good, Refs, Pixmaps
<1>8. presents' \in Nat /\ presents <= presents' /\ freed' \subseteq Clients /\ {rootId', shown'} \subseteq Pixmaps
  BY <1>1, <1>7 DEF IInv, lorieRedraw
<1> QED BY <1>5, <1>6, <1>8, Kept

LEMMA ScreensApart ==
  /\ \A m, n : ScreenPixmap(m) = ScreenPixmap(n) => m = n
  /\ \A n \in 0..MaxResizes : ScreenPixmap(n) \notin Clients /\ ScreenPixmap(n) # None
<1>1. \A m, n : ScreenPixmap(m) = ScreenPixmap(n) => m = n
  BY DEF ScreenPixmap
<1>2. \A n \in 0..MaxResizes : ScreenPixmap(n) \notin Clients /\ ScreenPixmap(n) # None
  BY PresentAssumption
<1> QED BY <1>1, <1>2

\* The new screen pixmap takes over before the old one is destroyed.
LEMMA ResizeKeeps == ASSUME IInv, lorieRRScreenSetSize PROVE IInv'
<1>1. PICK memory \in BOOLEAN, square \in BOOLEAN :
       LET drained == loriePerformVblanks(d, memory)
           restored == NoFlips(present_restore_screen_pixmap(drained))
           old == d.screen
           new == ScreenPixmap(d.resizes + 1)
           made == LorieBuffer_lock([restored EXCEPT !.alive = @ \cup {new}, !.screen = new, !.damage = TRUE,
                                                     !.resizes = @ + 1, !.square = square], new)
           turned == lorieSetWindowPixmap(made, new)
       IN  d' = lorieRegisterBuffer(lorieExaDestroyPixmap(turned, {old} \cup Unreferenced(turned, freed)), new)
  BY DEF lorieRRScreenSetSize
<1> DEFINE drained == loriePerformVblanks(d, memory)
           back == present_restore_screen_pixmap(drained)
           restored == NoFlips(back)
           old == d.screen
           new == ScreenPixmap(d.resizes + 1)
           u == [restored EXCEPT !.alive = @ \cup {new}, !.screen = new, !.damage = TRUE,
                                 !.resizes = @ + 1, !.square = square]
           made == LorieBuffer_lock(u, new)
           turned == lorieSetWindowPixmap(made, new)
           gone == {old} \cup Unreferenced(turned, freed)
           left == lorieExaDestroyPixmap(turned, gone)
<1>2. d' = lorieRegisterBuffer(left, new) /\ UNCHANGED <<freed, presents, rootId, shown>>
  BY <1>1 DEF lorieRRScreenSetSize
<1>3. Good(d) /\ freed \subseteq Clients
  BY DEF IInv
<1>4. d.resizes \in Nat /\ d.resizes + 1 \in 0..MaxResizes /\ d.resizes \in 0..MaxResizes /\ old = ScreenPixmap(d.resizes)
  BY <1>3, Bounds DEF lorieRRScreenSetSize, Good, Refs
<1>5. Good(drained) /\ drained.resizes = d.resizes /\ Numbered(d, drained)
  BY <1>3, Performed
<1> HIDE DEF drained
<1>6. Good(back) /\ Same(drained, back)
  BY <1>5, Restored
<1> HIDE DEF back
<1>7. Good(restored) /\ Numbered(back, restored) /\ restored.resizes = back.resizes
  BY <1>6, NoMoreFlips
<1> HIDE DEF restored
<1>8. restored.resizes = d.resizes /\ Numbered(d, restored)
  BY <1>5, <1>6, <1>7 DEF Same, Numbered
<1>9. new \notin restored.alive /\ new \notin restored.held /\ new # old /\ old \notin Clients /\ old # None
  <2>1. \A n \in 0..d.resizes : n # d.resizes + 1
    BY <1>4
  <2>2. new \notin restored.alive
    BY <1>4, <1>7, <1>8, <2>1, ScreensApart DEF Good, Refs
  <2>3. new # old
    BY <1>4, ScreensApart
  <2> QED BY <1>4, <1>7, <2>2, <2>3, ScreensApart DEF Good, Locks
<1> HIDE DEF old, new
<1>10. /\ Shape(u) /\ u.msc = restored.msc /\ u.screen = new /\ u.resizes = d.resizes + 1 /\ u.flip = restored.flip
       /\ u.flipping = restored.flipping /\ u.queue = restored.queue /\ u.fenced = restored.fenced
       /\ u.win = restored.win /\ u.alive = restored.alive \cup {new} /\ u.locked = restored.locked
       /\ u.held = restored.held /\ u.sent = restored.sent /\ u.faults = restored.faults
  BY <1>7, <1>8 DEF Good, Shape, Fields
<1> HIDE DEF u
<1>11. /\ Shape(made) /\ Same(u, made) /\ made.win = u.win /\ made.alive = u.alive /\ made.sent = u.sent
       /\ made.faults = u.faults /\ made.locked = u.locked \cup {new} /\ made.held = u.held \cup {new}
  BY <1>9, <1>10, LockOnly
<1> HIDE DEF made
<1>12. Locks(made) /\ new \in made.alive
  BY <1>7, <1>10, <1>11 DEF Good, Locks
<1>13. /\ Shape(turned) /\ Same(made, turned) /\ turned.alive = made.alive /\ turned.sent = made.sent
       /\ turned.faults = made.faults /\ Locks(turned) /\ turned.win = new
  BY <1>11, <1>12, WindowPixmap
<1> HIDE DEF turned
<1>14. /\ turned.msc = restored.msc /\ turned.screen = new /\ turned.resizes = d.resizes + 1
       /\ turned.flip = restored.flip /\ turned.flipping = restored.flipping /\ turned.queue = restored.queue
       /\ turned.fenced = restored.fenced /\ turned.alive = restored.alive \cup {new}
       /\ turned.sent = restored.sent /\ turned.faults = restored.faults
  BY <1>10, <1>11, <1>13 DEF Same
<1>15. Good(turned)
  <2>1. Refs(restored)
    BY <1>7 DEF Good
  <2>2. new = ScreenPixmap(d.resizes + 1) /\ 0..(d.resizes + 1) = (0..d.resizes) \cup {d.resizes + 1}
    BY <1>4 DEF new
  <2>3. turned.alive \subseteq Clients \cup {ScreenPixmap(n) : n \in 0..turned.resizes}
    BY <1>8, <1>14, <2>1, <2>2 DEF Refs
  <2>4. Refs(turned)
    BY <1>4, <1>13, <1>14, <2>1, <2>2, <2>3 DEF Refs
  <2>5. Timely(turned)
    BY <1>7, <1>14 DEF Good, Timely
  <2>6. Entries(turned)
    <3>1. restored.msc \in Int /\ restored.msc <= turned.msc
      BY <1>7, <1>14, GoodTyped
    <3> QED BY <1>7, <1>14, <3>1, EntriesKept
  <2> QED BY <1>13, <2>4, <2>5, <2>6 DEF Good
<1>16. Forgotten(turned, gone)
  <2>1. Forgotten(turned, Unreferenced(turned, freed))
    BY <1>3, <1>15, Freed
  <2>2. turned.flip # old
    BY <1>9, <1>15 DEF Good, Refs
  <2>3. \A v \in ToSet(turned.queue) \cup turned.fenced : v.pix # old
    <3>1. ASSUME NEW v \in ToSet(turned.queue) \cup turned.fenced PROVE Entry(turned, v)
      BY <1>15 DEF Good, Entries
    <3> QED BY <1>9, <3>1, EntryTyped
  <2> QED BY <1>9, <1>13, <1>14, <2>1, <2>2, <2>3 DEF Forgotten
<1>17. Good(left) /\ Same(turned, left) /\ left.win = new
  BY <1>13, <1>15, <1>16, Destroyed
<1> HIDE DEF left
<1>18. /\ Shape(d') /\ Same(left, d') /\ d'.win = left.win /\ d'.alive = left.alive /\ d'.locked = left.locked
       /\ d'.held = left.held /\ d'.faults = left.faults /\ d'.sent \subseteq left.sent \cup {new}
  BY <1>2, <1>17, Registered DEF Good
<1>19. Good(d')
  <2>1. Refs(d')
    BY <1>17, <1>18 DEF Good, Refs, Same
  <2>2. Locks(d') /\ Timely(d')
    BY <1>17, <1>18 DEF Good, Locks, Timely
  <2>3. Entries(d')
    <3>1. d'.queue = left.queue /\ d'.fenced = left.fenced /\ left.alive \subseteq d'.alive /\ d'.msc \in Int
          /\ left.msc <= d'.msc /\ left.faults \subseteq d'.faults
      BY <1>17, <1>18, GoodTyped DEF Same
    <3> QED BY <1>17, <3>1, EntriesKept
  <2> QED BY <1>18, <2>1, <2>2, <2>3 DEF Good
<1>20. Numbered(d, d')
  BY <1>8, <1>14, <1>17, <1>18 DEF Same, Numbered
<1> QED BY <1>2, <1>19, <1>20, Stored

LEMMA SentKeeps ==
  ASSUME IInv, UNCHANGED <<freed, presents, rootId, shown>>, NEW S, NEW R, S \subseteq d.alive,
         d' = [d EXCEPT !.sent = S, !.removed = R]
  PROVE IInv'
<1>1. Good(d)
  BY DEF IInv
<1>2. /\ Shape(d') /\ Same(d, d') /\ d'.win = d.win /\ d'.alive = d.alive /\ d'.locked = d.locked
      /\ d'.held = d.held /\ d'.faults = d.faults /\ d'.sent = S
  BY <1>1 DEF Good, Shape, Fields, Same
<1>3. Refs(d')
  BY <1>1, <1>2 DEF Good, Refs, Same
<1>4. Locks(d') /\ Timely(d')
  BY <1>1, <1>2 DEF Good, Locks, Timely
<1>5. Entries(d')
  <2>1. d'.queue = d.queue /\ d'.fenced = d.fenced /\ d.alive \subseteq d'.alive /\ d'.msc \in Int
        /\ d.msc <= d'.msc /\ d.faults \subseteq d'.faults
    BY <1>1, <1>2, GoodTyped DEF Same
  <2> QED BY <1>1, <2>1, EntriesKept
<1>6. Numbered(d, d')
  BY <1>2 DEF Same, Numbered
<1> QED BY <1>2, <1>3, <1>4, <1>5, <1>6, Stored DEF Good

LEMMA ActivityKeeps == ASSUME IInv, Hangup \/ lorieActivityConnected PROVE IInv'
<1>1. Good(d)
  BY DEF IInv
<1>2. CASE Hangup
  <2>1. d' = [d EXCEPT !.sent = {}, !.removed = {}] /\ UNCHANGED <<freed, presents, rootId, shown>>
    BY <1>2 DEF Hangup, shared
  <2> QED BY <2>1, SentKeeps
<1>3. CASE lorieActivityConnected
  <2> DEFINE S == d.sent \cup {d.screen}
             R == d.removed
  <2>1. d' = [d EXCEPT !.sent = S] /\ UNCHANGED <<freed, presents, rootId, shown>>
    BY <1>3 DEF lorieActivityConnected
  <2>2. [d EXCEPT !.sent = S] = [d EXCEPT !.sent = S, !.removed = R]
    <3> HIDE DEF S
    <3> QED BY <1>1 DEF Good, Shape, Fields
  <2>3. S \subseteq d.alive
    BY <1>1 DEF Good, Refs
  <2> HIDE DEF S, R
  <2> QED BY <2>1, <2>2, <2>3, SentKeeps
<1> QED BY <1>2, <1>3

LEMMA InvInit == Init => IInv
<1> SUFFICES ASSUME Init PROVE IInv
  OBVIOUS
<1>1. PICK kind \in [Clients -> Kinds], square \in BOOLEAN :
        LET s0 == ScreenPixmap(0)
            made == {p \in Clients : kind[p] = "REGULAR"} \cup {s0}
        IN  d = [msc |-> 0, screen |-> s0, resizes |-> 0, square |-> square, win |-> s0, flip |-> None, flipping |-> FALSE,
                 queue |-> <<>>, fenced |-> {}, damage |-> FALSE, kind |-> kind,
                 alive |-> Clients \cup {s0}, locked |-> made, held |-> made,
                 sent |-> {s0}, removed |-> {}, faults |-> {}]
  BY DEF Init
<1> DEFINE s0 == ScreenPixmap(0)
           made == {p \in Clients : kind[p] = "REGULAR"} \cup {s0}
<1>2. s0 \in made /\ made \subseteq Clients \cup {s0} /\ s0 = ScreenPixmap(0)
  OBVIOUS
<1> HIDE DEF made, s0
<1>3. /\ d.msc = 0 /\ d.screen = s0 /\ d.resizes = 0 /\ d.win = s0 /\ d.flip = None /\ d.flipping = FALSE
      /\ d.queue = <<>> /\ d.fenced = {} /\ d.alive = Clients \cup {s0} /\ d.locked = made /\ d.held = made
      /\ d.sent = {s0} /\ d.faults = {}
  BY <1>1 DEF made, s0
<1>4. Shape(d)
  BY <1>1 DEF Shape, Fields
<1>5. Refs(d)
  BY <1>2, <1>3, Bounds DEF Refs
<1>6. Locks(d) /\ Timely(d)
  BY <1>2, <1>3 DEF Locks, Timely
<1>7. Entries(d)
  BY <1>3 DEF Entries, ToSet
<1>8. presents = 0 /\ freed = {} /\ rootId = s0 /\ shown = s0
  BY DEF Init, s0
<1>9. s0 \in Pixmaps
  BY <1>2, Bounds DEF Pixmaps
<1>10. Vblanks = {}
  BY <1>3 DEF Vblanks, ToSet
<1> QED BY <1>4, <1>5, <1>6, <1>7, <1>8, <1>9, <1>10 DEF IInv, Good

LEMMA InvNext == IInv /\ [Next]_vars => IInv'
<1> SUFFICES ASSUME IInv, [Next]_vars PROVE IInv'
  OBVIOUS
<1>1. CASE \E p \in Clients, r \in Requests, fence \in {FALSE, Fences} : PresentPixmap(p, r, fence)
  BY <1>1, PresentKeeps
<1>2. CASE \E p \in Clients : FreePixmap(p)
  BY <1>2, FreeKeeps
<1>3. CASE present_wait_fence_triggered
  BY <1>3, FenceKeeps
<1>4. CASE present_destroy_window
  BY <1>4, WindowKeeps
<1>5. CASE present_check_flip_window
  BY <1>5, CoveredKeeps
<1>6. CASE \E p \in Pixmaps : Draw(p)
  BY <1>6, DrawKeeps
<1>7. CASE lorieRedraw
  BY <1>7, RedrawKeeps
<1>8. CASE lorieRRScreenSetSize
  BY <1>8, ResizeKeeps
<1>9. CASE Hangup \/ lorieActivityConnected
  BY <1>9, ActivityKeeps
<1>10. CASE lorieMoveCursor \/ rendererRedrawLocked \/ UNCHANGED vars
  <2>1. d' = d /\ freed' = freed /\ presents' = presents /\ rootId' = rootId /\ shown' \in {shown, rootId}
    BY <1>10 DEF lorieMoveCursor, rendererRedrawLocked, vars, shared
  <2> QED BY <2>1 DEF IInv, Vblanks
<1> QED
  BY <1>1, <1>2, <1>3, <1>4, <1>5, <1>6, <1>7, <1>8, <1>9, <1>10 DEF Next

\* Whatever is presented, flipped, resized and freed in whatever order, the root window, the
\* screen, the flip and the vblanks refer only to pixmaps that exist: what lorieExaDestroyPixmap
\* destroys is nowhere in use.
THEOREM TypeCorrect == Spec => []TypeOK
<1>1. IInv => TypeOK
  <2> SUFFICES ASSUME IInv PROVE TypeOK
    OBVIOUS
  <2>1. Good(d)
    BY DEF IInv
  <2>2. d.alive \subseteq Pixmaps
    <3>1. \A n \in 0..d.resizes : n \in 0..MaxResizes
      BY <2>1, Bounds DEF Good, Refs
    <3> QED BY <2>1, <3>1 DEF Good, Refs, Pixmaps
  <2>3. \A v \in Vblanks : v.pix \in d.alive \cup {None} /\ v.target \in 0..MaxMsc
    <3>1. ASSUME NEW v \in Vblanks PROVE Entry(d, v)
      BY <2>1 DEF Good, Entries, Vblanks
    <3> QED BY <3>1 DEF Entry, Vblank
  <2> QED BY <2>1, <2>2, <2>3 DEF IInv, Good, Refs, TypeOK
<1> QED BY <1>1, InvInit, InvNext, PTL DEF Spec

\* LorieBuffer_lock and LorieBuffer_unlock are called in turn for every buffer, however draws,
\* flips, conversions, resizes and frees follow each other, and the root window's is locked.
THEOREM LocksAreBalanced == Spec => []LocksBalanced
<1>1. IInv => LocksBalanced
  BY DEF IInv, Good, Locks, LocksBalanced
<1> QED BY <1>1, InvInit, InvNext, PTL DEF Spec

\* No presentation is completed before its frame until a late fence has set the counter back.
THEOREM NeverEarly == Spec => []NotEarly
<1>1. IInv => NotEarly
  BY DEF IInv, Good, Timely, NotEarly
<1> QED BY <1>1, InvInit, InvNext, PTL DEF Spec
=============================================================================
