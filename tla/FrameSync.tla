----------------------------- MODULE FrameSync -----------------------------
(***************************************************************************)
(* How a change of the root window or of the cursor gets from the X server *)
(* process to the screen.                                                  *)
(*                                                                         *)
(*  - The X server's main thread draws into the root buffer, moves and     *)
(*    replaces the cursor, resizes the screen, and once per vsync runs     *)
(*    lorieRedraw (InitOutput.c).                                          *)
(*  - The activity's GUI thread receives buffers from the server and       *)
(*    hands windows to the renderer (activity.c, renderer.c).              *)
(*  - The renderer thread composes and shows frames (renderer.c).          *)
(*  - The proxy thread forwards the server's condition variable to the     *)
(*    one that the renderer sleeps on (renderer.c).                        *)
(*                                                                         *)
(* Both processes write the flags of lorie_shared_server_state without a   *)
(* common lock, so every access that the other side can observe is a step  *)
(* of its own.  Pixels are versions: content[b] counts the drawings into   *)
(* buffer b, curImg the cursor images and curPos the cursor positions.     *)
(* The connection stays up; SharedMutex models the lock under failures.    *)
(***************************************************************************)
EXTENDS Integers, Sequences

CONSTANTS MaxDraws,     \* bound on drawings into the root window
          MaxMoves,     \* bound on cursor motions
          MaxCursors,   \* bound on cursor images
          MaxResizes,   \* bound on screen resizes
          MaxWindows,   \* bound on window (Android surface) changes
          MaxUpdates    \* bound on all of them together

ASSUME BoundsAssumption ==
  /\ MaxDraws \in Nat /\ MaxMoves \in Nat /\ MaxCursors \in Nat
  /\ MaxResizes \in Nat /\ MaxWindows \in Nat /\ MaxUpdates \in Nat

Buffers == 1..(MaxResizes + 1)   \* buffer ids grow with every allocation
NoBuffer == 0                    \* rootWindowTextureID before it is first written

VARIABLES
  (* lorie_shared_server_state *)
  drawRequested, moved, updated,   \* the three reasons to draw
  rootId,                          \* rootWindowTextureID
  surfaceAvailable, waitForNextFrame,
  curPos, curImg,                  \* cursor.x/.y and cursor.bits
  lock,                            \* holder of state->lock
  (* X server *)
  spc,                             \* step of the main thread
  root,                            \* id of the root window's buffer
  content,                         \* what is drawn in each buffer
  damage,                          \* is the damage region of the root pixmap nonempty?
  vsync,                           \* is lorieRedraw in the work queue?
  (* activity, GUI thread *)
  inbox,                           \* buffer messages in the socket
  windowChanged, pendingWin,       \* request of rendererSetWindow
  windows,                         \* windows handed over so far
  (* activity, renderer and proxy threads *)
  rpc,                             \* step of the renderer thread
  addedBuffers, buffers, removedBuffers,
  waitingForBuffers, lastRequestedBufferId,
  drawing,                         \* the buffer that rendererRedrawLocked found
  surface,                         \* is an EGL window surface current?
  texture,                         \* cursor image in the GL texture
  frame,                           \* the frame being composed
  shown,                           \* the frame on the screen
  proxy                            \* is the proxy thread waiting or woken?

shared == <<drawRequested, moved, updated, rootId, surfaceAvailable, waitForNextFrame, curPos, curImg, lock>>
server == <<spc, root, content, damage, vsync>>
gui == <<inbox, windowChanged, pendingWin, windows>>
lists == <<addedBuffers, buffers, removedBuffers>>
renderer == <<rpc, lists, waitingForBuffers, lastRequestedBufferId, drawing, surface, texture, frame, shown>>
vars == <<shared, server, gui, renderer, proxy>>

BlankFrame == [id |-> NoBuffer, ver |-> 0, img |-> 0, pos |-> 0]
AddBuffer(b) == [type |-> "ADD", id |-> b]
RemoveBuffer(b) == [type |-> "REMOVE", id |-> b]

\* The activity has just connected (lorieActivityConnected): both flags are set, the
\* state is mapped, the root buffer is on its way, and there is no window yet.
Init ==
  /\ drawRequested = TRUE /\ updated = TRUE /\ moved = FALSE
  /\ rootId = NoBuffer
  /\ surfaceAvailable = FALSE /\ waitForNextFrame = FALSE
  /\ curPos = 0 /\ curImg = 0
  /\ lock = "free"
  /\ spc = "idle"
  /\ root = 1
  /\ content = [b \in Buffers |-> 0]
  /\ damage = FALSE
  /\ vsync = FALSE
  /\ inbox = <<AddBuffer(1)>>
  /\ windowChanged = FALSE /\ pendingWin = FALSE
  /\ windows = 0
  /\ rpc = "check"
  /\ addedBuffers = {} /\ buffers = {} /\ removedBuffers = {}
  /\ waitingForBuffers = FALSE
  /\ lastRequestedBufferId = NoBuffer
  /\ drawing = NoBuffer
  /\ surface = FALSE
  /\ texture = 0
  /\ frame = BlankFrame
  /\ shown = BlankFrame
  /\ proxy = "waiting"
-----------------------------------------------------------------------------
(* Wake-ups.  A signal reaches only a thread that is already waiting.       *)

\* pthread_cond_signal(&state->cond)
SignalServerCond == proxy' = "woken"

\* pthread_cond_signal(&stateCond)
SignalStateCond == rpc' = IF rpc = "asleep" THEN "check" ELSE rpc

\* pthreadCondVarProxyThread; it signals without holding stateLock.
ProxyForward ==
  /\ proxy = "woken"
  /\ proxy' = "waiting"
  /\ SignalStateCond
  /\ UNCHANGED <<shared, server, gui, lists, waitingForBuffers, lastRequestedBufferId,
                 drawing, texture, frame, shown, surface>>
-----------------------------------------------------------------------------
(* X server *)

SGoto(from, to) == spc = from /\ spc' = to

\* Another update is within the bounds.
MayUpdate == content[root] + curImg + curPos + (root - 1) + windows < MaxUpdates

\* The choreographer thread queues lorieRedraw and posts itself again.
lorieChoreographerFrameCallback ==
  /\ ~vsync
  /\ vsync' = TRUE
  /\ UNCHANGED <<shared, spc, root, content, damage, gui, renderer, proxy>>

\* loriePrepareAccess on the screen pixmap takes state->lock ...
loriePrepareAccess ==
  /\ content[root] < MaxDraws /\ MayUpdate
  /\ lock = "free"
  /\ SGoto("idle", "drawing")
  /\ lock' = "server"
  /\ UNCHANGED <<drawRequested, moved, updated, rootId, surfaceAvailable, waitForNextFrame,
                 curPos, curImg, root, content, damage, vsync, gui, renderer, proxy>>

\* ... and lorieFinishAccess gives it back; the damage layer has recorded the drawing.
lorieFinishAccess ==
  /\ SGoto("drawing", "idle")
  /\ content' = [content EXCEPT ![root] = @ + 1]
  /\ damage' = TRUE
  /\ lock' = "free"
  /\ UNCHANGED <<drawRequested, moved, updated, rootId, surfaceAvailable, waitForNextFrame,
                 curPos, curImg, root, vsync, gui, renderer, proxy>>

\* lorieSetCursor writes the image and the flag under cursor.lock, then moves the cursor.
lorieSetCursor ==
  /\ curImg < MaxCursors /\ MayUpdate
  /\ SGoto("idle", "move")
  /\ curImg' = curImg + 1
  /\ updated' = TRUE
  /\ UNCHANGED <<drawRequested, moved, rootId, surfaceAvailable, waitForNextFrame, curPos, lock,
                 root, content, damage, vsync, gui, renderer, proxy>>

\* lorieMoveCursor: the coordinates first ...
lorieMoveCursor ==
  /\ spc \in {"idle", "move"}
  /\ \/ curPos < MaxMoves /\ MayUpdate /\ curPos' = curPos + 1
     \/ spc = "move" /\ curPos' = curPos
  /\ spc' = "moved"
  /\ UNCHANGED <<drawRequested, moved, updated, rootId, surfaceAvailable, waitForNextFrame, curImg,
                 lock, root, content, damage, vsync, gui, renderer, proxy>>

\* ... then the flag and the signal, without the lock.
MoveCursorSignal ==
  /\ SGoto("moved", "idle")
  /\ moved' = TRUE
  /\ SignalServerCond
  /\ UNCHANGED <<drawRequested, updated, rootId, surfaceAvailable, waitForNextFrame, curPos, curImg,
                 lock, root, content, damage, vsync, gui, renderer>>

\* Mutant: a second buffer is allocated on the way and used instead.
ScreenSetSizeTwice ==
  /\ root < MaxResizes + 1 /\ MayUpdate
  /\ spc = "idle"
  /\ lock = "free"
  /\ root' = root + 2
  /\ damage' = TRUE
  /\ inbox' = inbox \o <<RemoveBuffer(root), AddBuffer(root + 2)>>
  /\ moved' = TRUE
  /\ UNCHANGED <<drawRequested, updated, rootId, surfaceAvailable, waitForNextFrame, curPos, curImg,
                 lock, spc, content, vsync, windowChanged, pendingWin, windows, renderer, proxy>>

\* lorieRRScreenSetSize: the new root buffer gets a copy of the old one (drawn under
\* state->lock), the old one is unregistered and the new one registered.
lorieRRScreenSetSize ==
  /\ root < MaxResizes + 1 /\ MayUpdate
  /\ spc = "idle"
  /\ lock = "free"
  /\ root' = root + 1
  /\ content' = [content EXCEPT ![root + 1] = content[root]]
  /\ damage' = TRUE
  /\ inbox' = inbox \o <<RemoveBuffer(root), AddBuffer(root + 1)>>
  /\ moved' = TRUE
  /\ UNCHANGED <<drawRequested, updated, rootId, surfaceAvailable, waitForNextFrame, curPos, curImg,
                 lock, spc, vsync, windowChanged, pendingWin, windows, renderer, proxy>>

\* lorieRedraw up to the test of surfaceAvailable.
lorieRedraw ==
  /\ vsync
  /\ SGoto("idle", "redraw")
  /\ vsync' = FALSE
  /\ waitForNextFrame' = FALSE
  /\ UNCHANGED <<drawRequested, moved, updated, rootId, surfaceAvailable, curPos, curImg, lock,
                 root, content, damage, gui, renderer, proxy>>

RedrawSkip ==
  /\ ~surfaceAvailable
  /\ SGoto("redraw", "idle")
  /\ UNCHANGED <<shared, root, content, damage, vsync, gui, renderer, proxy>>

\* DamageEmpty and drawRequested, if there is damage.
RedrawDamage ==
  /\ surfaceAvailable
  /\ SGoto("redraw", "publish")
  /\ damage' = FALSE
  /\ drawRequested' = (drawRequested \/ damage)
  /\ UNCHANGED <<moved, updated, rootId, surfaceAvailable, waitForNextFrame, curPos, curImg, lock,
                 root, content, vsync, gui, renderer, proxy>>

\* Mutant: the renderer is not woken.
RedrawPublishSilent ==
  /\ SGoto("publish", "idle")
  /\ rootId' = IF drawRequested \/ moved \/ updated THEN root ELSE rootId
  /\ UNCHANGED <<drawRequested, moved, updated, surfaceAvailable, waitForNextFrame, curPos, curImg,
                 lock, root, content, damage, vsync, gui, renderer, proxy>>

\* The flags are read again; if one is set the id is published and the renderer woken.
RedrawPublish ==
  /\ SGoto("publish", "idle")
  /\ IF drawRequested \/ moved \/ updated
     THEN rootId' = root /\ SignalServerCond
     ELSE UNCHANGED <<rootId, proxy>>
  /\ UNCHANGED <<drawRequested, moved, updated, surfaceAvailable, waitForNextFrame, curPos, curImg,
                 lock, root, content, damage, vsync, gui, renderer>>

ServerStep ==
  \/ lorieFinishAccess \/ lorieMoveCursor \/ MoveCursorSignal
  \/ lorieRedraw \/ RedrawSkip \/ RedrawDamage \/ RedrawPublish
-----------------------------------------------------------------------------
(* Activity, GUI thread.  rendererSetWindow blocks it while windowChanged.   *)

\* EVENT_ADD_BUFFER: rendererAddBuffer signals without stateLock.
rendererAddBuffer ==
  /\ ~windowChanged
  /\ inbox # <<>> /\ Head(inbox).type = "ADD"
  /\ inbox' = Tail(inbox)
  /\ addedBuffers' = addedBuffers \cup {Head(inbox).id}
  /\ SignalStateCond
  /\ UNCHANGED <<shared, server, windowChanged, pendingWin, windows, buffers, removedBuffers,
                 waitingForBuffers, lastRequestedBufferId, drawing, texture, frame, shown, surface, proxy>>

\* Mutant: a buffer that is attached to GL is released at once.
RemoveBufferAtOnce ==
  /\ ~windowChanged
  /\ inbox # <<>> /\ Head(inbox).type = "REMOVE"
  /\ addedBuffers' = addedBuffers \ {Head(inbox).id}
  /\ buffers' = buffers \ {Head(inbox).id}
  /\ inbox' = Tail(inbox)
  /\ UNCHANGED <<shared, server, windowChanged, pendingWin, windows, rpc, removedBuffers,
                 waitingForBuffers, lastRequestedBufferId, drawing, texture, frame, shown, surface, proxy>>

\* EVENT_REMOVE_BUFFER: a buffer that is attached to GL is left to the renderer thread.
rendererRemoveBuffer ==
  /\ ~windowChanged
  /\ inbox # <<>> /\ Head(inbox).type = "REMOVE"
  /\ LET b == Head(inbox).id IN
       /\ addedBuffers' = addedBuffers \ {b}
       /\ buffers' = buffers \ {b}
       /\ removedBuffers' = removedBuffers \cup ({b} \cap buffers)
  /\ inbox' = Tail(inbox)
  /\ UNCHANGED <<shared, server, windowChanged, pendingWin, windows, rpc, waitingForBuffers,
                 lastRequestedBufferId, drawing, texture, frame, shown, surface, proxy>>

\* rendererSetWindow with a window or NULL.  It needs stateLock, which the renderer
\* thread holds from the end of one redraw until it sleeps or starts the next.
RendererHoldsStateLock == rpc \in {"check", "gosleep", "apply"}

rendererSetWindow(win) ==
  /\ ~windowChanged
  /\ ~RendererHoldsStateLock
  /\ windows < MaxWindows /\ MayUpdate
  /\ windows' = windows + 1
  /\ pendingWin' = win
  /\ windowChanged' = TRUE
  /\ SignalStateCond
  /\ UNCHANGED <<shared, server, inbox, lists, waitingForBuffers, lastRequestedBufferId, drawing,
                 texture, frame, shown, surface, proxy>>
-----------------------------------------------------------------------------
(* Activity, renderer thread *)

RGoto(from, to) == rpc = from /\ rpc' = to

DrawReason == drawRequested \/ moved \/ updated

\* rendererShouldWait
BuffersChanged == addedBuffers # {} \/ removedBuffers # {}
StillWaiting == waitingForBuffers /\ lastRequestedBufferId = rootId

rendererShouldWait ==
  /\ rpc = "check"
  /\ IF windowChanged \/ BuffersChanged
     THEN /\ rpc' = "apply"
          /\ UNCHANGED <<waitingForBuffers, lastRequestedBufferId>>
     ELSE /\ waitingForBuffers' = StillWaiting
          /\ lastRequestedBufferId' = rootId
          /\ rpc' = IF surfaceAvailable /\ ~waitForNextFrame /\ ~StillWaiting /\ DrawReason
                    THEN "apply" ELSE "gosleep"
  /\ UNCHANGED <<shared, server, gui, lists, drawing, texture, frame, shown, surface, proxy>>

\* pthread_cond_wait(&stateCond, &stateLock): a signal sent before this step is lost.
FallAsleep ==
  /\ RGoto("gosleep", "asleep")
  /\ UNCHANGED <<shared, server, gui, lists, waitingForBuffers, lastRequestedBufferId, drawing,
                 texture, frame, shown, surface, proxy>>

\* rendererRefreshContext.  The window may be gone already (its size is 0, and the default
\* window takes its place), and EGL may refuse the surface or the context.
WindowApplied ==
  pendingWin /\ surface' = TRUE /\ surfaceAvailable' = TRUE /\ drawRequested' = TRUE /\ updated' = TRUE
WindowInvalid ==
  pendingWin /\ surface' = FALSE /\ surfaceAvailable' = FALSE /\ drawRequested' = FALSE /\ updated' = FALSE
SurfaceFailed ==
  pendingWin /\ surface' = FALSE /\ UNCHANGED <<surfaceAvailable, drawRequested, updated>>
NoWindow ==
  surface' = FALSE /\ surfaceAvailable' = FALSE /\ UNCHANGED <<drawRequested, updated>>

rendererRefreshContext ==
  IF windowChanged
  THEN /\ windowChanged' = FALSE
       /\ shown' = BlankFrame
       /\ WindowApplied \/ WindowInvalid \/ SurfaceFailed \/ NoWindow
  ELSE UNCHANGED <<windowChanged, surface, surfaceAvailable, drawRequested, updated, shown>>

\* The part of rendererThread's loop under stateLock: window, then pending buffers.
ApplyChanges ==
  /\ RGoto("apply", "lookup")
  /\ rendererRefreshContext
  /\ buffers' = buffers \cup addedBuffers
  /\ addedBuffers' = {}
  /\ waitingForBuffers' = (waitingForBuffers /\ addedBuffers = {})
  /\ UNCHANGED <<moved, rootId, waitForNextFrame, curPos, curImg, lock, server, inbox, pendingWin,
                 windows, removedBuffers, lastRequestedBufferId, drawing, texture, frame, proxy>>

\* Whether to draw, and rendererRedrawLocked's search for the root buffer.
LookupBuffer ==
  /\ rpc = "lookup"
  /\ IF surfaceAvailable /\ ~waitForNextFrame /\ DrawReason
     THEN IF rootId \in buffers \cup removedBuffers
          THEN rpc' = "root" /\ drawing' = rootId /\ UNCHANGED waitingForBuffers
          ELSE rpc' = "release" /\ waitingForBuffers' = TRUE /\ UNCHANGED drawing
     ELSE rpc' = "release" /\ UNCHANGED <<drawing, waitingForBuffers>>
  /\ UNCHANGED <<shared, server, gui, lists, lastRequestedBufferId, texture, frame, shown, surface, proxy>>

\* Under state->lock: clear the request, then copy the root window.
DrawRoot ==
  /\ RGoto("root", "cursor")
  /\ lock = "free"
  /\ lock' = "renderer"
  /\ drawRequested' = FALSE
  /\ frame' = [frame EXCEPT !.id = drawing, !.ver = content[drawing]]
  /\ UNCHANGED <<moved, updated, rootId, surfaceAvailable, waitForNextFrame, curPos, curImg, server,
                 gui, lists, waitingForBuffers, lastRequestedBufferId, drawing, texture, shown, surface, proxy>>

\* Under cursor.lock as well: upload a new cursor image.
UploadCursor ==
  /\ RGoto("cursor", "moved")
  /\ updated' = FALSE
  /\ texture' = IF updated THEN curImg ELSE texture
  /\ UNCHANGED <<drawRequested, moved, rootId, surfaceAvailable, waitForNextFrame, curPos, curImg,
                 lock, server, gui, lists, waitingForBuffers, lastRequestedBufferId, drawing, frame,
                 shown, surface, proxy>>

ClearMoved ==
  /\ RGoto("moved", "finish")
  /\ moved' = FALSE
  /\ UNCHANGED <<drawRequested, updated, rootId, surfaceAvailable, waitForNextFrame, curPos, curImg,
                 lock, server, gui, lists, waitingForBuffers, lastRequestedBufferId, drawing,
                 texture, frame, shown, surface, proxy>>

\* drawCursor, the fence, waitForNextFrame and the unlock.
FinishFrame ==
  /\ RGoto("finish", "swap")
  /\ frame' = [frame EXCEPT !.img = texture, !.pos = curPos]
  /\ waitForNextFrame' = TRUE
  /\ lock' = "free"
  /\ UNCHANGED <<drawRequested, moved, updated, rootId, surfaceAvailable, curPos, curImg, server,
                 gui, lists, waitingForBuffers, lastRequestedBufferId, drawing, texture, shown, surface, proxy>>

\* Mutant: cursor.moved is cleared once the frame is out.
SwapBuffersClearsMoved ==
  /\ RGoto("swap", "release")
  /\ shown' = IF surface THEN frame ELSE shown
  /\ frame' = BlankFrame
  /\ drawing' = NoBuffer
  /\ moved' = FALSE
  /\ UNCHANGED <<drawRequested, updated, rootId, surfaceAvailable, waitForNextFrame, curPos, curImg,
                 lock, server, gui, lists, waitingForBuffers, lastRequestedBufferId, texture, surface, proxy>>

\* eglSwapBuffers, which fails without a surface; rendererRedrawLocked returns.
SwapBuffers ==
  /\ RGoto("swap", "release")
  /\ shown' = IF surface THEN frame ELSE shown
  /\ frame' = BlankFrame
  /\ drawing' = NoBuffer
  /\ UNCHANGED <<shared, server, gui, lists, waitingForBuffers, lastRequestedBufferId, texture, surface, proxy>>

\* The end of rendererThread's loop: removed buffers are freed on the GL thread.
ReleaseRemoved ==
  /\ RGoto("release", "check")
  /\ removedBuffers' = {}
  /\ UNCHANGED <<shared, server, gui, addedBuffers, buffers, waitingForBuffers,
                 lastRequestedBufferId, drawing, texture, frame, shown, surface, proxy>>

RendererStep ==
  \/ rendererShouldWait \/ FallAsleep \/ ApplyChanges \/ LookupBuffer \/ DrawRoot
  \/ UploadCursor \/ ClearMoved \/ FinishFrame \/ SwapBuffers \/ ReleaseRemoved
-----------------------------------------------------------------------------
Next ==
  \/ lorieChoreographerFrameCallback \/ ServerStep
  \/ loriePrepareAccess \/ lorieSetCursor \/ lorieRRScreenSetSize
  \/ rendererAddBuffer \/ rendererRemoveBuffer
  \/ \E win \in BOOLEAN : rendererSetWindow(win)
  \/ RendererStep
  \/ ProxyForward

Spec == Init /\ [][Next]_vars

\* The choreographer posts itself on every frame, and every thread keeps running.  Nothing
\* is assumed of the X clients, of the resizes or of the windows.
Fairness ==
  /\ WF_vars(lorieChoreographerFrameCallback)
  /\ WF_vars(ServerStep)
  /\ WF_vars(rendererAddBuffer \/ rendererRemoveBuffer)
  /\ WF_vars(RendererStep)
  /\ WF_vars(ProxyForward)

FairSpec == Spec /\ Fairness
-----------------------------------------------------------------------------
(* Properties *)

Frames == [id : Buffers \cup {NoBuffer}, ver : 0..MaxDraws, img : 0..MaxCursors, pos : 0..MaxMoves]
Messages == [type : {"ADD", "REMOVE"}, id : Buffers]

FlagsOK ==
  /\ drawRequested \in BOOLEAN /\ moved \in BOOLEAN /\ updated \in BOOLEAN
  /\ surfaceAvailable \in BOOLEAN /\ waitForNextFrame \in BOOLEAN
  /\ damage \in BOOLEAN /\ vsync \in BOOLEAN
  /\ windowChanged \in BOOLEAN /\ pendingWin \in BOOLEAN
  /\ waitingForBuffers \in BOOLEAN /\ surface \in BOOLEAN

DataOK ==
  /\ rootId \in Buffers \cup {NoBuffer}
  /\ curPos \in 0..MaxMoves /\ curImg \in 0..MaxCursors
  /\ lock \in {"free", "server", "renderer"}
  /\ spc \in {"idle", "drawing", "move", "moved", "redraw", "publish"}
  /\ root \in Buffers
  /\ content \in [Buffers -> 0..MaxDraws]
  /\ inbox \in Seq(Messages)
  /\ windows \in 0..MaxWindows
  /\ rpc \in {"check", "gosleep", "asleep", "apply", "lookup", "root", "cursor", "moved",
              "finish", "swap", "release"}
  /\ addedBuffers \subseteq Buffers /\ buffers \subseteq Buffers /\ removedBuffers \subseteq Buffers
  /\ lastRequestedBufferId \in Buffers \cup {NoBuffer}
  /\ drawing \in Buffers \cup {NoBuffer}
  /\ texture \in 0..MaxCursors
  /\ frame \in Frames /\ shown \in Frames
  /\ proxy \in {"waiting", "woken"}

TypeOK == FlagsOK /\ DataOK

Resting == rpc \in {"check", "gosleep", "asleep"}

\* Nothing asks for another frame: no flag is set, no damage waits for the next vsync.
Settled ==
  /\ surface /\ surfaceAvailable /\ ~windowChanged /\ Resting
  /\ spc = "idle" /\ ~damage /\ ~DrawReason

(* When nothing asks for a frame any more, the screen has the last cursor   *)
(* image at the last cursor position and, of the root buffer, the last      *)
(* drawing: no update is lost between the flags that the server sets and    *)
(* the renderer clears.                                                     *)
CursorCurrent == shown.img = curImg /\ shown.pos = curPos
ContentCurrent == shown.id = root => shown.ver = content[root]

NoLostUpdate == Settled => CursorCurrent /\ ContentCurrent

(* "The buffer will not be released until this function ends": what         *)
(* rendererRedrawLocked found stays in the renderer's hands while it draws. *)
DrawnBufferHeld ==
  rpc \in {"root", "cursor", "moved", "finish", "swap"} =>
    drawing \in buffers \cup removedBuffers

(* Once the X clients rest, the screen has the last cursor image and        *)
(* position and shows some buffer, and if that is the root window's, its    *)
(* last drawing, although wake-ups are lost on the way: lorieRedraw repeats *)
(* them on every vsync.  Without a resize it is the root window's.  After   *)
(* one the previous root's buffer may stay on the screen until the next     *)
(* update: a frame begun before the resize clears its request.              *)
CatchesUp ==
  <>[](surface /\ surfaceAvailable /\ ~windowChanged => CursorCurrent /\ ContentCurrent /\ shown.id # NoBuffer)
=============================================================================
