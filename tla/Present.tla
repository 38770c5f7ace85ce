------------------------------- MODULE Present -------------------------------
(***************************************************************************)
(* Present, the root window's pixmap and the locks of pixmap buffers       *)
(* (InitOutput.c, buffer.c, and the patched xserver/present).  Everything  *)
(* runs on the X server's main thread except the renderer's frame.         *)
(*                                                                         *)
(* The client of a full-screen window presents pixmaps for frame numbers.  *)
(* When the time of a presentation comes the server flips: the pixmap      *)
(* becomes that of the root window.  If it cannot, it copies.              *)
(***************************************************************************)
EXTENDS Integers, SequencesExt

CONSTANTS
  Clients,        \* pixmaps of the X client
  None,           \* no pixmap
  Kinds,          \* the kinds of buffers these may have
  Requests,       \* how a pixmap may be presented: frames ahead, and may it be flipped?
  Fences,         \* may a presentation wait for a fence?
  CursorMoves,    \* does the cursor move?
  MaxPresents, MaxMsc, MaxResizes, MaxDrops   \* bounds

\* The screen pixmaps, one per resize.
ScreenPixmap(n) == <<"screen", n>>

ASSUME PresentAssumption ==
  /\ None \notin Clients /\ \A n \in 0..MaxResizes : ScreenPixmap(n) \notin Clients \cup {None}
  /\ Requests \subseteq [ahead : Nat, flip : BOOLEAN]
  /\ {MaxPresents, MaxMsc, MaxResizes, MaxDrops} \subseteq Nat
  /\ Fences \in BOOLEAN /\ CursorMoves \in BOOLEAN
  /\ Kinds \subseteq {"REGULAR", "HARDWARE", "FD"}

VARIABLES
  d,                           \* what the main thread keeps, see Init
  freed,                       \* pixmaps that the client has freed
  conn,                        \* is an activity with a surface connected?
  drawRequested, moved,        \* the shared state: drawRequested; cursor.moved or cursor.updated;
  rootId,                      \* rootWindowTextureID
  shown,                       \* the pixmap on the activity's screen
  presents, drops    \* counters of the bounds

shared == <<drawRequested, moved, rootId>>
vars == <<d, freed, conn, shared, shown, presents, drops>>

Pixmaps == Clients \cup {ScreenPixmap(n) : n \in 0..MaxResizes}

\* screen, resizes: the screen pixmap; square: is it as wide as high?; win: the root window's
\* pixmap; flip, flipping: screen_priv's flip_pixmap, and is flip_window our window?; queue:
\* vblank_queue with the X server's vblanks; fenced: vblanks that wait for their fence; locked:
\* priv->locked is set; held: buffer->locked; sent, removed: buffers the activity has, and those
\* it was told to remove; faults: messages and misuses, and presentations completed early.
Init ==
  \E kind \in [Clients -> Kinds], square \in BOOLEAN :
    LET s0 == ScreenPixmap(0)
        made == {p \in Clients : kind[p] = "REGULAR"} \cup {s0}   \* imported pixmaps are not locked
    IN  /\ d = [msc |-> 0, screen |-> s0, resizes |-> 0, square |-> square, win |-> s0, flip |-> None, flipping |-> FALSE,
                queue |-> <<>>, fenced |-> {}, damage |-> FALSE, kind |-> kind,
                alive |-> Clients \cup {s0}, locked |-> made, held |-> made,
                sent |-> {s0}, removed |-> {}, faults |-> {}]
        /\ freed = {} /\ conn = TRUE
        /\ drawRequested = FALSE /\ moved = FALSE /\ rootId = s0 /\ shown = s0
        /\ presents = 0 /\ drops = 0
-----------------------------------------------------------------------------
(* Pixmaps and their buffers *)

Fault(s, f, occurs) == IF occurs THEN [s EXCEPT !.faults = @ \cup {f}] ELSE s

LorieBuffer_lock(s, p) ==
  Fault([s EXCEPT !.locked = @ \cup {p}, !.held = @ \cup {p}], "lock", p \in s.held)

LorieBuffer_unlock(s, p) ==
  Fault([s EXCEPT !.locked = @ \ {p}, !.held = @ \ {p}], "unlock", p \notin s.held)

\* Mutant: the old pixmap is unlocked whether or not it is locked.
SetWindowPixmapUnchecked(s, p) ==
  LET old == LorieBuffer_unlock(s, s.win)
  IN  [LorieBuffer_lock(old, p) EXCEPT !.win = p]

\* For the root window.
lorieSetWindowPixmap(s, p) ==
  LET old == IF s.win \in s.locked THEN LorieBuffer_unlock(s, s.win) ELSE s
      new == IF p \in old.locked THEN old ELSE LorieBuffer_lock(old, p)
  IN  [new EXCEPT !.win = p]

present_set_tree_pixmap(s, p) == IF s.win = p THEN s ELSE lorieSetWindowPixmap(s, p)

\* lorieExaDestroyPixmap, for pixmaps that nobody refers to any more.
lorieExaDestroyPixmap(s, ps) ==
  Fault([s EXCEPT !.alive = @ \ ps, !.locked = @ \ ps, !.held = @ \ ps,
                  !.sent = @ \ ps, !.removed = @ \cup (s.sent \cap ps)],
        "unlock", ~(ps \cap s.locked \subseteq s.held))

lorieRegisterBuffer(s, p) == IF conn THEN [s EXCEPT !.sent = @ \cup {p}] ELSE s

\* A regular buffer becomes one that can be shared, and is locked anew.
LorieBuffer_convert(s, p) ==
  IF s.kind[p] = "REGULAR"
  THEN LorieBuffer_lock([s EXCEPT !.kind[p] = "HARDWARE", !.held = @ \ {p}], p)
  ELSE s
-----------------------------------------------------------------------------
(* Performing presentations: operators from d to d *)

loriePresentQueueVblank(s, v) == [s EXCEPT !.queue = <<[v EXCEPT !.at = v.exec]>> \o @]

loriePresentAbortVblank(s, v) == [s EXCEPT !.queue = RemoveFirst(@, v)]

\* Present asks only for flips of pixmaps with the size of the screen, and the test compares the
\* width of the root with the pixmap's height.
SizeFits(s) == s.square

\* May the pixmap be flipped?  It may not if it is an imported descriptor, or regular and there
\* is no memory to convert it.
loriePresentFlip(s, p, memory) ==
  SizeFits(s) /\ (s.kind[p] = "HARDWARE" \/ (s.kind[p] = "REGULAR" /\ memory))

\* Mutant: the flip is not reported as damage.
AfterFlipNoDamage(s, target) == [s EXCEPT !.msc = IF @ + 1 < target THEN @ + 1 ELSE target]

\* Mutant: the frame counter stays as it is.
AfterFlipNoCount(s, target) == [s EXCEPT !.damage = TRUE]

loriePresentAfterFlip(s, target) ==
  Fault([s EXCEPT !.damage = TRUE, !.msc = IF @ + 1 < target THEN @ + 1 ELSE target],
        "setback", target < s.msc)

\* The presentation is complete, and its client is told the frame.  A scrapped one (its pixmap
\* is gone) is reported as skipped, at the time at which a flip would have been performed.
FrameOf(v) == IF v.pix = None THEN v.target - 1 ELSE v.target

present_vblank_notify(s, v) == Fault(s, "early", s.msc < FrameOf(v))

\* present_execute and present_flip_notify for a pixmap that loriePresentFlip has accepted.
Flip(s, v) ==
  LET sent == lorieRegisterBuffer(LorieBuffer_convert(s, v.pix), v.pix)
      after == loriePresentAfterFlip(present_set_tree_pixmap(sent, v.pix), v.target)
  IN  present_vblank_notify([after EXCEPT !.flip = v.pix, !.flipping = TRUE], v)

\* The flipped pixmap's contents are copied to the screen pixmap, which takes over.
present_restore_screen_pixmap(s) ==
  present_set_tree_pixmap([s EXCEPT !.damage = @ \/ s.win = s.flip], s.screen)

present_unflip(s) == [present_restore_screen_pixmap(s) EXCEPT !.flip = None, !.flipping = FALSE]

\* A refused flip waits for its target as a copy.
Copy(s, v) ==
  LET restored == IF s.flipping THEN present_unflip(s) ELSE s
  IN  IF v.exec = s.msc + 1
      THEN loriePresentQueueVblank(restored, v)
      ELSE present_vblank_notify([restored EXCEPT !.damage = TRUE], v)

\* Mutant: the flip takes over no reference.
UnreferencedByFlip(s, gone) ==
  {p \in gone \cap s.alive : ~\E v \in ToSet(s.queue) \cup s.fenced : v.pix = p}

\* References to a pixmap: the client's, the vblanks' and the flip's.
Unreferenced(s, gone) ==
  {p \in gone \cap s.alive : p # s.flip /\ ~\E v \in ToSet(s.queue) \cup s.fenced : v.pix = p}

present_execute(s, v, memory) ==
  LET t == [loriePresentAbortVblank(s, v) EXCEPT !.fenced = @ \ {v}]
      next == IF v.exec = s.msc + 1 THEN loriePresentQueueVblank(t, v)
              ELSE IF v.fence THEN [t EXCEPT !.fenced = @ \cup {v}]
              ELSE IF v.pix = None THEN present_vblank_notify(t, v)
              ELSE IF ~v.flip THEN Copy(t, v)
              ELSE IF loriePresentFlip(s, v.pix, memory) THEN Flip(t, v)
              ELSE Copy(t, [v EXCEPT !.flip = FALSE, !.exec = v.target])
  IN  lorieExaDestroyPixmap(next, Unreferenced(next, freed))

\* Mutant: a presentation whose time has passed is not performed any more.
VblankDueNow(s, v) == v.at = s.msc

VblankDue(s, v) == v.at <= s.msc

\* One entry after the other, the newest first; flips move the frame counter.
loriePerformVblanks(s, memory) ==
  LET after[n \in 0..Len(s.queue)] ==
        IF n = 0 THEN s
        ELSE LET t == after[n - 1]
                 v == s.queue[n]
             IN  IF VblankDue(t, v) THEN present_execute(t, v, memory) ELSE t
  IN  after[Len(s.queue)]
-----------------------------------------------------------------------------
(* The X client *)

\* present_scmd_pixmap.  A presentation for the same frame is scrapped.  A flip is to be
\* performed one frame early.
PresentPixmap(p, r, fence) ==
  LET target == d.msc + r.ahead
      exec == IF r.flip THEN target - 1 ELSE target
      v == [n |-> presents, pix |-> p, at |-> exec, exec |-> exec, target |-> target, flip |-> r.flip, fence |-> fence]
      Scrap(w) == IF w.target = target THEN [w EXCEPT !.pix = None, !.flip = FALSE] ELSE w
      s == [d EXCEPT !.queue = [i \in DOMAIN @ |-> Scrap(@[i])], !.fenced = {Scrap(w) : w \in @}]
      t == lorieExaDestroyPixmap(s, Unreferenced(s, freed))
  IN  /\ presents < MaxPresents /\ target <= MaxMsc
      /\ r.flip => r.ahead > 0                                     \* present_vblank_init
      /\ p \in d.alive \ freed /\ p # d.flip
      /\ ~\E w \in ToSet(d.queue) \cup d.fenced : w.pix = p        \* the pixmap is idle
      /\ presents' = presents + 1
      /\ IF exec > d.msc
         THEN d' = loriePresentQueueVblank(t, v)
         ELSE \E memory \in BOOLEAN : d' = present_execute(t, v, memory)
      /\ UNCHANGED <<freed, conn, shared, shown, drops>>

present_wait_fence_triggered ==
  /\ \E v \in d.fenced, memory \in BOOLEAN :
       d' = LET w == [v EXCEPT !.fence = FALSE]
            IN  present_execute([d EXCEPT !.fenced = (@ \ {v}) \cup {w}], w, memory)
  /\ UNCHANGED <<freed, conn, shared, shown, presents, drops>>

FreePixmap(p) ==
  /\ p \in d.alive \ freed
  /\ freed' = freed \cup {p}
  /\ d' = lorieExaDestroyPixmap(d, Unreferenced(d, freed'))
  /\ UNCHANGED <<conn, shared, shown, presents, drops>>

\* Each vblank is aborted.  The flipped pixmap remains referenced until the next flip.
present_destroy_window ==
  /\ d.queue # <<>> \/ d.fenced # {} \/ d.flipping
  /\ LET aborted == [d EXCEPT !.queue = <<>>, !.fenced = {}]
         restored == IF d.flipping THEN present_restore_screen_pixmap(aborted) ELSE aborted
         cleared == [restored EXCEPT !.flipping = FALSE]
     IN  d' = lorieExaDestroyPixmap(cleared, Unreferenced(cleared, freed))
  /\ UNCHANGED <<freed, conn, shared, shown, presents, drops>>

\* The window is moved or covered (present_check_flip_window): nothing may flip any more.
\* The driver's vblanks keep the time they were queued for.
NoFlips(s) ==
  LET unflipped == IF s.flipping THEN present_unflip(s) ELSE s
      AsCopy(v) == IF v.flip THEN [v EXCEPT !.flip = FALSE, !.exec = v.target] ELSE v
  IN  [unflipped EXCEPT !.queue = [i \in DOMAIN @ |-> AsCopy(@[i])], !.fenced = {AsCopy(v) : v \in @}]

present_check_flip_window ==
  /\ d.flipping \/ \E v \in ToSet(d.queue) \cup d.fenced : v.flip
  /\ d' = lorieExaDestroyPixmap(NoFlips(d), Unreferenced(NoFlips(d), freed))
  /\ UNCHANGED <<freed, conn, shared, shown, presents, drops>>

\* loriePrepareAccess and lorieFinishAccess of a pixmap that is drawn to.
Draw(p) ==
  /\ p \in d.alive
  /\ d' = LET s == IF p \in d.locked THEN d ELSE LorieBuffer_unlock(LorieBuffer_lock(d, p), p)
          IN  [s EXCEPT !.damage = @ \/ p = d.screen]
  /\ UNCHANGED <<freed, conn, shared, shown, presents, drops>>
-----------------------------------------------------------------------------
(* Drawing the screen *)

\* The root window's pixmap is taken first, then vblanks are performed, then the damage and the
\* pixmap taken first are published.  A pixmap destroyed in between is used nevertheless.
lorieRedraw ==
  /\ \E memory \in BOOLEAN :
       \E s \in {loriePerformVblanks([d EXCEPT !.msc = IF @ < MaxMsc THEN @ + 1 ELSE @], memory)} :
         LET root == d.win
             t == Fault(s, "destroyed", root \notin s.alive)
         IN  IF conn /\ root \in s.alive
             THEN /\ d' = [t EXCEPT !.damage = FALSE]
                  /\ drawRequested' = (drawRequested \/ s.damage)
                  /\ rootId' = IF drawRequested' \/ moved THEN root ELSE rootId
                  /\ UNCHANGED moved
             ELSE d' = t /\ UNCHANGED shared
  /\ UNCHANGED <<freed, conn, shown, presents, drops>>

lorieMoveCursor ==
  /\ CursorMoves
  /\ moved' = TRUE
  /\ UNCHANGED <<d, freed, conn, drawRequested, rootId, shown, presents, drops>>

\* The resized root window's clip excludes flips (SetRootClip).
lorieRRScreenSetSize ==
  /\ d.resizes < MaxResizes
  /\ \E memory, square \in BOOLEAN :
       LET drained == loriePerformVblanks(d, memory)
           restored == NoFlips(present_restore_screen_pixmap(drained))
           old == d.screen
           new == ScreenPixmap(d.resizes + 1)
           made == LorieBuffer_lock([restored EXCEPT !.alive = @ \cup {new}, !.screen = new, !.damage = TRUE,
                                                     !.resizes = @ + 1, !.square = square], new)
           turned == lorieSetWindowPixmap(made, new)
       IN  d' = lorieRegisterBuffer(lorieExaDestroyPixmap(turned, {old} \cup Unreferenced(turned, freed)), new)
  /\ moved' = TRUE
  /\ UNCHANGED <<freed, conn, drawRequested, rootId, shown, presents, drops>>

\* A frame of the renderer.  It needs the buffer whose id is published, possibly for the last time.
rendererRedrawLocked ==
  /\ conn /\ (drawRequested \/ moved) /\ rootId \in d.sent \cup d.removed
  /\ shown' = rootId
  /\ drawRequested' = FALSE /\ moved' = FALSE
  /\ UNCHANGED <<d, freed, conn, rootId, presents, drops>>

Hangup ==
  /\ conn /\ drops < MaxDrops /\ drops' = drops + 1
  /\ conn' = FALSE
  /\ d' = [d EXCEPT !.sent = {}, !.removed = {}]
  /\ UNCHANGED <<freed, shared, shown, presents>>

\* Another activity gets the shared state and the screen pixmap's buffer.
lorieActivityConnected ==
  /\ ~conn
  /\ conn' = TRUE
  /\ drawRequested' = TRUE /\ moved' = TRUE
  /\ d' = [d EXCEPT !.sent = @ \cup {d.screen}]
  /\ UNCHANGED <<freed, rootId, shown, presents, drops>>
-----------------------------------------------------------------------------
Next ==
  \/ \E p \in Clients :
       \/ \E r \in Requests, fence \in {FALSE, Fences} : PresentPixmap(p, r, fence)
       \/ FreePixmap(p)
  \/ present_wait_fence_triggered \/ present_destroy_window \/ present_check_flip_window
  \/ \E p \in Pixmaps : Draw(p)
  \/ lorieRedraw \/ lorieMoveCursor \/ lorieRRScreenSetSize
  \/ rendererRedrawLocked \/ Hangup \/ lorieActivityConnected

Spec == Init /\ [][Next]_vars

\* The choreographer queues lorieRedraw for every frame, and the renderer draws what it can find.
FairSpec ==
  Spec /\ WF_vars(lorieRedraw) /\ WF_vars(rootId \in d.sent /\ rendererRedrawLocked)
-----------------------------------------------------------------------------
Vblanks == ToSet(d.queue) \cup d.fenced

\* The root window, the screen, the flip and the vblanks refer only to pixmaps that exist.
TypeOK ==
  /\ d.msc \in 0..MaxMsc /\ d.win \in d.alive /\ d.screen \in d.alive
  /\ d.flip \in d.alive \cup {None} /\ (d.flipping => d.flip # None)
  /\ d.alive \subseteq Pixmaps /\ d.sent \subseteq d.alive
  /\ \A v \in Vblanks : v.pix \in d.alive \cup {None} /\ v.target \in 0..MaxMsc
  /\ freed \subseteq Clients /\ {rootId, shown} \subseteq Pixmaps

\* Buffers are locked and unlocked in turn, whatever the order of draws, flips, resizes and
\* frees: neither of LorieBuffer_lock's and LorieBuffer_unlock's complaints is ever printed, a
\* pixmap is taken for locked exactly if its buffer is, and the root window's always is.
LocksBalanced ==
  /\ d.faults \cap {"lock", "unlock"} = {}
  /\ d.locked = d.held
  /\ d.win \in d.locked

\* A presentation is never completed before the frame it is for, although flips are performed a
\* frame early and move the frame counter themselves, unless a flip with a late fence has set the
\* counter back.  One that was scrapped is reported as skipped at most one frame early: a flip
\* keeps its time of execution when it is scrapped.
NotEarly == "early" \in d.faults => "setback" \in d.faults

\* Every vblank that is queued is performed or aborted at last.
VblanksPerformed ==
  \A n \in 0..(MaxPresents - 1) :
    (\E v \in ToSet(d.queue) : v.n = n) ~> ~\E v \in ToSet(d.queue) : v.n = n

\* A connected activity comes to show the root window's pixmap again and again, whether it was
\* flipped by the request itself, restored or replaced by a resize.  This is about flips for the
\* next frame, which present_execute performs at once, and a connection that stays: a flip that
\* waits for lorieRedraw, or one that meets a new activity, may remain unseen.
FramesShown == []<>(~conn \/ shown = d.win)

\* lorieRedraw never uses a pixmap that the vblanks it performs have destroyed.
RootUsable == "destroyed" \notin d.faults
=============================================================================
