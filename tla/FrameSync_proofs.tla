-------------------------- MODULE FrameSync_proofs --------------------------
(***************************************************************************)
(* No update of the cursor or of the root window is lost between the X     *)
(* server and the screen, for any number of drawings, motions, cursor      *)
(* images, resizes and windows, and the buffer being drawn is never freed. *)
(***************************************************************************)
EXTENDS FrameSync, TLAPS

(* The renderer is between clearing drawRequested and showing the frame.    *)
Composing == rpc \in {"cursor", "moved", "finish", "swap"}

(* loriePrepareAccess checked the bound that lorieFinishAccess relies on.   *)
DrawBudget == spc = "drawing" => content[root] < MaxDraws

(* Cursor image.  With a surface, the texture is current unless updated is  *)
(* set (a window that turns out invalid clears updated, but leaves no       *)
(* surface); so is the frame that FinishFrame took it into, and the one     *)
(* that was shown.                                                          *)
TextureCurrent == surface /\ ~updated => texture = curImg
FrameImg == surface /\ rpc = "swap" /\ ~updated => frame.img = curImg
ShownImg ==
  surface /\ ~updated /\ rpc \notin {"moved", "finish", "swap"} => shown.img = curImg

(* Cursor position.  Between lorieMoveCursor's two steps the flag is late;  *)
(* a fresh window is covered by drawRequested, which rendererRefreshContext *)
(* sets.                                                                    *)
MoveAnnounced == ~moved /\ spc # "moved"
FramePos == rpc = "swap" /\ MoveAnnounced => frame.pos = curPos
ShownPos ==
  surface /\ MoveAnnounced /\ ~drawRequested /\ ~Composing => shown.pos = curPos

(* Content.  A drawing is in damage, then in drawRequested, then in the     *)
(* frame, then on the screen.                                               *)
NoRequest == ~damage /\ ~drawRequested
FrameVer == Composing /\ NoRequest /\ frame.id = root => frame.ver = content[root]
ShownVer ==
  surface /\ NoRequest /\ ~Composing /\ shown.id = root => shown.ver = content[root]

UpdateInv ==
  /\ TextureCurrent /\ FrameImg /\ ShownImg
  /\ FramePos /\ ShownPos
  /\ FrameVer /\ ShownVer
-----------------------------------------------------------------------------
(* The head of the socket is a message and its rest a sequence of messages. *)
LEMMA InboxHead ==
  ASSUME inbox \in Seq(Messages), inbox # <<>>
  PROVE  Head(inbox).id \in Buffers /\ Tail(inbox) \in Seq(Messages)
<1>1. Head(inbox) \in Messages /\ Tail(inbox) \in Seq(Messages)
  OBVIOUS
<1> QED
  BY <1>1 DEF Messages

LEMMA FlagsNext ==
  ASSUME FlagsOK, [Next]_vars
  PROVE  FlagsOK'
<1> USE DEF FlagsOK, shared, server, gui, lists, renderer
<1>1. CASE lorieChoreographerFrameCallback
  BY <1>1, Zenon DEF lorieChoreographerFrameCallback
<1>2. CASE loriePrepareAccess
  BY <1>2, Zenon DEF loriePrepareAccess
<1>3. CASE lorieFinishAccess
  BY <1>3, Zenon DEF lorieFinishAccess
<1>4. CASE lorieSetCursor
  BY <1>4, Zenon DEF lorieSetCursor
<1>5. CASE lorieMoveCursor
  BY <1>5, Zenon DEF lorieMoveCursor
<1>6. CASE MoveCursorSignal
  BY <1>6, Zenon DEF MoveCursorSignal
<1>7. CASE lorieRRScreenSetSize
  BY <1>7, Zenon DEF lorieRRScreenSetSize
<1>8. CASE lorieRedraw
  BY <1>8, Zenon DEF lorieRedraw
<1>9. CASE RedrawSkip
  BY <1>9, Zenon DEF RedrawSkip
<1>10. CASE RedrawDamage
  BY <1>10, Zenon DEF RedrawDamage
<1>11. CASE RedrawPublish
  BY <1>11, Zenon DEF RedrawPublish
<1>12. CASE rendererAddBuffer
  BY <1>12, Zenon DEF rendererAddBuffer
<1>13. CASE rendererRemoveBuffer
  BY <1>13, Zenon DEF rendererRemoveBuffer
<1>14. ASSUME NEW win \in BOOLEAN, rendererSetWindow(win) PROVE FlagsOK'
  BY <1>14, Zenon DEF rendererSetWindow
<1>15. CASE rendererShouldWait
  BY <1>15, Zenon DEF rendererShouldWait, StillWaiting
<1>16. CASE FallAsleep
  BY <1>16, Zenon DEF FallAsleep
<1>17. CASE ApplyChanges
  BY <1>17, Zenon DEF ApplyChanges, rendererRefreshContext, WindowApplied, WindowInvalid,
        SurfaceFailed, NoWindow
<1>18. CASE LookupBuffer
  BY <1>18, Zenon DEF LookupBuffer
<1>19. CASE DrawRoot
  BY <1>19, Zenon DEF DrawRoot
<1>20. CASE UploadCursor
  BY <1>20, Zenon DEF UploadCursor
<1>21. CASE ClearMoved
  BY <1>21, Zenon DEF ClearMoved
<1>22. CASE FinishFrame
  BY <1>22, Zenon DEF FinishFrame
<1>23. CASE SwapBuffers
  BY <1>23, Zenon DEF SwapBuffers
<1>24. CASE ReleaseRemoved
  BY <1>24, Zenon DEF ReleaseRemoved
<1>25. CASE ProxyForward
  BY <1>25, Zenon DEF ProxyForward
<1>26. CASE UNCHANGED vars
  BY <1>26, Zenon DEF vars
<1> QED
  BY <1>1, <1>2, <1>3, <1>4, <1>5, <1>6, <1>7, <1>8, <1>9, <1>10, <1>11, <1>12, <1>13, <1>14, <1>15,
     <1>16, <1>17, <1>18, <1>19, <1>20, <1>21, <1>22, <1>23, <1>24, <1>25, <1>26
  DEF Next, ServerStep, RendererStep

LEMMA TypeInit == Init => TypeOK /\ DrawBudget
<1> SUFFICES ASSUME Init PROVE TypeOK /\ DrawBudget
  OBVIOUS
<1>1. FlagsOK
  BY Zenon DEF Init, FlagsOK
<1>2. inbox \in Seq(Messages)
  BY BoundsAssumption DEF Init, AddBuffer, Messages, Buffers
<1>3. DataOK /\ DrawBudget
  BY <1>2, BoundsAssumption DEF Init, DataOK, DrawBudget, Buffers, NoBuffer, BlankFrame, Frames
<1> QED
  BY <1>1, <1>3 DEF TypeOK

LEMMA DataNext ==
  ASSUME DataOK, DrawBudget, DrawnBufferHeld, [Next]_vars
  PROVE  DataOK' /\ DrawBudget'
<1> USE BoundsAssumption DEF DataOK, DrawBudget, Buffers, NoBuffer, shared, server, gui, lists, renderer,
        SGoto, RGoto, SignalServerCond, SignalStateCond
<1>1. CASE lorieChoreographerFrameCallback
  BY <1>1 DEF lorieChoreographerFrameCallback
<1>2. CASE loriePrepareAccess
  BY <1>2 DEF loriePrepareAccess
<1>3. CASE lorieFinishAccess
  BY <1>3 DEF lorieFinishAccess
<1>4. CASE lorieSetCursor
  BY <1>4 DEF lorieSetCursor
<1>5. CASE lorieMoveCursor
  BY <1>5 DEF lorieMoveCursor
<1>6. CASE MoveCursorSignal
  BY <1>6 DEF MoveCursorSignal
<1>7. CASE lorieRRScreenSetSize
  BY <1>7 DEF lorieRRScreenSetSize, AddBuffer, RemoveBuffer, Messages
<1>8. CASE lorieRedraw
  BY <1>8 DEF lorieRedraw
<1>9. CASE RedrawSkip
  BY <1>9 DEF RedrawSkip
<1>10. CASE RedrawDamage
  BY <1>10 DEF RedrawDamage
<1>11. CASE RedrawPublish
  BY <1>11 DEF RedrawPublish
<1>12. CASE rendererAddBuffer
  BY <1>12, InboxHead DEF rendererAddBuffer
<1>13. CASE rendererRemoveBuffer
  <2>1. inbox' \in Seq(Messages)
    BY <1>13, InboxHead DEF rendererRemoveBuffer
  <2>2. addedBuffers' \subseteq addedBuffers /\ buffers' \subseteq buffers
    BY <1>13 DEF rendererRemoveBuffer
  <2>3. removedBuffers' \subseteq removedBuffers \cup buffers
    BY <1>13 DEF rendererRemoveBuffer
  <2>4. UNCHANGED <<shared, server, windows, rpc, lastRequestedBufferId, drawing, texture, frame, shown, proxy>>
    BY <1>13 DEF rendererRemoveBuffer
  <2>5. addedBuffers' \subseteq Buffers /\ buffers' \subseteq Buffers /\ removedBuffers' \subseteq Buffers
    BY <2>2, <2>3
  <2> QED
    BY <2>1, <2>4, <2>5
<1>14. ASSUME NEW win \in BOOLEAN, rendererSetWindow(win) PROVE DataOK' /\ DrawBudget'
  BY <1>14 DEF rendererSetWindow
<1>15. CASE rendererShouldWait
  BY <1>15 DEF rendererShouldWait, StillWaiting
<1>16. CASE FallAsleep
  BY <1>16 DEF FallAsleep
<1>17. CASE ApplyChanges
  <2>1. buffers' = buffers \cup addedBuffers /\ addedBuffers' = {}
    BY <1>17 DEF ApplyChanges
  <2>2. buffers' \subseteq Buffers /\ addedBuffers' \subseteq Buffers
    BY <2>1
  <2>3. BlankFrame \in Frames
    BY DEF BlankFrame, Frames
  <2>4. shown' \in Frames
    BY <1>17, <2>3 DEF ApplyChanges, rendererRefreshContext
  <2>5. rpc' = "lookup"
    BY <1>17 DEF ApplyChanges
  <2>6. UNCHANGED <<rootId, curPos, curImg, lock, server, inbox, windows, removedBuffers,
                    lastRequestedBufferId, drawing, texture, frame, proxy>>
    BY <1>17 DEF ApplyChanges
  <2> QED
    BY <2>2, <2>4, <2>5, <2>6
<1>18. CASE LookupBuffer
  BY <1>18 DEF LookupBuffer
<1>19. CASE DrawRoot
  <2>1. drawing \in Buffers
    BY <1>19 DEF DrawRoot, DrawnBufferHeld
  <2> QED
    BY <1>19, <2>1 DEF DrawRoot, Frames
<1>20. CASE UploadCursor
  BY <1>20 DEF UploadCursor
<1>21. CASE ClearMoved
  BY <1>21 DEF ClearMoved
<1>22. CASE FinishFrame
  BY <1>22 DEF FinishFrame, Frames
<1>23. CASE SwapBuffers
  BY <1>23 DEF SwapBuffers, BlankFrame, Frames
<1>24. CASE ReleaseRemoved
  BY <1>24 DEF ReleaseRemoved
<1>25. CASE ProxyForward
  BY <1>25 DEF ProxyForward
<1>26. CASE UNCHANGED vars
  BY <1>26 DEF vars
<1> QED
  BY <1>1, <1>2, <1>3, <1>4, <1>5, <1>6, <1>7, <1>8, <1>9, <1>10, <1>11, <1>12, <1>13, <1>14, <1>15,
     <1>16, <1>17, <1>18, <1>19, <1>20, <1>21, <1>22, <1>23, <1>24, <1>25, <1>26
  DEF Next, ServerStep, RendererStep

LEMMA HeldNext ==
  ASSUME DrawnBufferHeld, [Next]_vars
  PROVE  DrawnBufferHeld'
<1> USE DEF DrawnBufferHeld, shared, server, gui, lists, renderer, RGoto, SignalStateCond
<1>1. CASE lorieChoreographerFrameCallback
  BY <1>1 DEF lorieChoreographerFrameCallback
<1>2. CASE loriePrepareAccess
  BY <1>2 DEF loriePrepareAccess
<1>3. CASE lorieFinishAccess
  BY <1>3 DEF lorieFinishAccess
<1>4. CASE lorieSetCursor
  BY <1>4 DEF lorieSetCursor
<1>5. CASE lorieMoveCursor
  BY <1>5 DEF lorieMoveCursor
<1>6. CASE MoveCursorSignal
  BY <1>6 DEF MoveCursorSignal
<1>7. CASE lorieRRScreenSetSize
  BY <1>7 DEF lorieRRScreenSetSize
<1>8. CASE lorieRedraw
  BY <1>8 DEF lorieRedraw
<1>9. CASE RedrawSkip
  BY <1>9 DEF RedrawSkip
<1>10. CASE RedrawDamage
  BY <1>10 DEF RedrawDamage
<1>11. CASE RedrawPublish
  BY <1>11 DEF RedrawPublish
<1>12. CASE rendererAddBuffer
  BY <1>12 DEF rendererAddBuffer
<1>13. CASE rendererRemoveBuffer
  BY <1>13 DEF rendererRemoveBuffer
<1>14. ASSUME NEW win \in BOOLEAN, rendererSetWindow(win) PROVE DrawnBufferHeld'
  BY <1>14 DEF rendererSetWindow
<1>15. CASE rendererShouldWait
  BY <1>15 DEF rendererShouldWait
<1>16. CASE FallAsleep
  BY <1>16 DEF FallAsleep
<1>17. CASE ApplyChanges
  BY <1>17 DEF ApplyChanges
<1>18. CASE LookupBuffer
  BY <1>18 DEF LookupBuffer
<1>19. CASE DrawRoot
  BY <1>19 DEF DrawRoot
<1>20. CASE UploadCursor
  BY <1>20 DEF UploadCursor
<1>21. CASE ClearMoved
  BY <1>21 DEF ClearMoved
<1>22. CASE FinishFrame
  BY <1>22 DEF FinishFrame
<1>23. CASE SwapBuffers
  BY <1>23 DEF SwapBuffers
<1>24. CASE ReleaseRemoved
  BY <1>24 DEF ReleaseRemoved
<1>25. CASE ProxyForward
  BY <1>25 DEF ProxyForward
<1>26. CASE UNCHANGED vars
  BY <1>26 DEF vars
<1> QED
  BY <1>1, <1>2, <1>3, <1>4, <1>5, <1>6, <1>7, <1>8, <1>9, <1>10, <1>11, <1>12, <1>13, <1>14, <1>15,
     <1>16, <1>17, <1>18, <1>19, <1>20, <1>21, <1>22, <1>23, <1>24, <1>25, <1>26
  DEF Next, ServerStep, RendererStep

LEMMA UpdateInit == Init => UpdateInv
  BY DEF Init, UpdateInv, TextureCurrent, FrameImg, ShownImg, FramePos, ShownPos, FrameVer, ShownVer,
         Composing, NoRequest, MoveAnnounced

LEMMA UpdateNext ==
  ASSUME TypeOK, DrawnBufferHeld, UpdateInv, [Next]_vars
  PROVE  UpdateInv'
<1> USE DEF UpdateInv, TextureCurrent, FrameImg, ShownImg, FramePos, ShownPos, FrameVer, ShownVer,
        Composing, NoRequest, MoveAnnounced, TypeOK, FlagsOK, DataOK, shared, server, gui, lists, renderer,
        SGoto, RGoto, SignalServerCond, SignalStateCond
<1>1. CASE lorieChoreographerFrameCallback
  BY <1>1 DEF lorieChoreographerFrameCallback
<1>2. CASE loriePrepareAccess
  BY <1>2 DEF loriePrepareAccess
<1>3. CASE lorieFinishAccess
  BY <1>3 DEF lorieFinishAccess
<1>4. CASE lorieSetCursor
  BY <1>4 DEF lorieSetCursor
<1>5. CASE lorieMoveCursor
  BY <1>5 DEF lorieMoveCursor
<1>6. CASE MoveCursorSignal
  BY <1>6 DEF MoveCursorSignal
<1>7. CASE lorieRRScreenSetSize
  BY <1>7 DEF lorieRRScreenSetSize
<1>8. CASE lorieRedraw
  BY <1>8 DEF lorieRedraw
<1>9. CASE RedrawSkip
  BY <1>9 DEF RedrawSkip
<1>10. CASE RedrawDamage
  BY <1>10 DEF RedrawDamage
<1>11. CASE RedrawPublish
  BY <1>11 DEF RedrawPublish
<1>12. CASE rendererAddBuffer
  BY <1>12 DEF rendererAddBuffer
<1>13. CASE rendererRemoveBuffer
  BY <1>13 DEF rendererRemoveBuffer
<1>14. ASSUME NEW win \in BOOLEAN, rendererSetWindow(win) PROVE UpdateInv'
  BY <1>14 DEF rendererSetWindow
<1>15. CASE rendererShouldWait
  BY <1>15 DEF rendererShouldWait
<1>16. CASE FallAsleep
  BY <1>16 DEF FallAsleep
<1>17. CASE ApplyChanges
  BY <1>17 DEF ApplyChanges, rendererRefreshContext, WindowApplied, WindowInvalid,
        SurfaceFailed, NoWindow
<1>18. CASE LookupBuffer
  BY <1>18 DEF LookupBuffer
<1>19. CASE DrawRoot
  BY <1>19 DEF DrawRoot
<1>20. CASE UploadCursor
  BY <1>20 DEF UploadCursor
<1>21. CASE ClearMoved
  BY <1>21 DEF ClearMoved
<1>22. CASE FinishFrame
  BY <1>22 DEF FinishFrame
<1>23. CASE SwapBuffers
  BY <1>23 DEF SwapBuffers
<1>24. CASE ReleaseRemoved
  BY <1>24 DEF ReleaseRemoved
<1>25. CASE ProxyForward
  BY <1>25 DEF ProxyForward
<1>26. CASE UNCHANGED vars
  BY <1>26 DEF vars
<1> QED
  BY <1>1, <1>2, <1>3, <1>4, <1>5, <1>6, <1>7, <1>8, <1>9, <1>10, <1>11, <1>12, <1>13, <1>14, <1>15,
     <1>16, <1>17, <1>18, <1>19, <1>20, <1>21, <1>22, <1>23, <1>24, <1>25, <1>26
  DEF Next, ServerStep, RendererStep
-----------------------------------------------------------------------------
(* The inductive invariant.                                                 *)
IInv == TypeOK /\ DrawBudget /\ DrawnBufferHeld /\ UpdateInv

LEMMA Invariance == Spec => []IInv
<1>1. Init => IInv
  BY TypeInit, UpdateInit DEF IInv, Init, DrawnBufferHeld
<1>2. IInv /\ [Next]_vars => IInv'
  BY FlagsNext, DataNext, HeldNext, UpdateNext DEF IInv, TypeOK
<1> QED
  BY <1>1, <1>2, PTL DEF Spec

(* Every variable keeps its type and every counter its bound.               *)
THEOREM TypeCorrect == Spec => []TypeOK
  BY Invariance, PTL DEF IInv

(* The buffer that rendererRedrawLocked draws is not freed while it draws,  *)
(* whatever buffers the server removes meanwhile.                           *)
THEOREM NoUseAfterRelease == Spec => []DrawnBufferHeld
  BY Invariance, PTL DEF IInv

(* When no flag is set and no damage is pending, the screen has the last    *)
(* cursor and the last drawing of the buffer it shows: clearing the flags   *)
(* without a common lock loses no update.                                   *)
THEOREM UpdatesReachTheScreen == Spec => []NoLostUpdate
<1>1. IInv => NoLostUpdate
  BY DEF IInv, UpdateInv, ShownImg, ShownPos, ShownVer, Composing, NoRequest, MoveAnnounced,
         NoLostUpdate, Settled, Resting, DrawReason, CursorCurrent, ContentCurrent
<1> QED
  BY <1>1, Invariance, PTL
=============================================================================
