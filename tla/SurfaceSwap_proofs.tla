-------------------------- MODULE SurfaceSwap_proofs --------------------------
(***************************************************************************)
(* The safety of a surface change for any windows and any number of calls. *)
(***************************************************************************)
EXTENDS SurfaceSwap, TLAPS

USE WindowAssumption, SwapBounds

-----------------------------------------------------------------------------
(* The inductive invariant.  Where the two sides of the handshake are        *)
(* decides the values of the flags between them ...                         *)

Handshake ==
  /\ swapLocked <=> (swap \in {"test", "sleep", "change", "finish"})
  /\ mIsRenderIdle <=> (pv \in AtRest)
  /\ seen = "idle" => swap \in {"change", "finish"}
  /\ ParkedDuringChange

\* ... and who holds a window: the owner between its call and the change, the
\* preview thread while it draws.
Windowing ==
  /\ WindowRefsExact
  /\ arg # Null => arg # mPreviewWindow /\ op = "attach" /\ swap \notin {"idle", "finish"}
  /\ op = "attach" /\ swap \notin {"idle", "finish"} => arg # Null
  /\ (drawing # Null) <=> (pv = "drawing")
  /\ drawing # Null => drawing = mPreviewWindow

\* The controller has joined the preview thread when it is not running.
Joined ==
  /\ ctl # "idle" => ~mIsRunning
  /\ ctl # "join" /\ ~mIsRunning => pv = "none"

\* The state, and every copy of it, is in step with the window.
Deciding ==
  /\ pv \in InLoop => mPreviewState # "COLD"
  /\ pv \in {"frame", "draw", "drawing"} => currentState # "COLD"
  /\ orderly /\ pv = "begin" /\ hadWindow => mPreviewWindow # Null
  /\ HotHasWindow

SwapInv == TypeOK /\ Handshake /\ Windowing /\ Joined /\ Deciding

LEMMA InitSwap == Init => SwapInv
<1> SUFFICES ASSUME Init PROVE SwapInv  OBVIOUS
<1> USE DEF Init
<1>1. TypeOK
  <2>1. FlagTypes /\ SurfaceTypes
    BY DEF FlagTypes, SurfaceTypes
  <2>2. StepTypes /\ CountTypes
    BY DEF StepTypes, CountTypes
  <2> QED  BY <2>1, <2>2 DEF TypeOK
<1>2. Handshake
  BY DEF Handshake, ParkedDuringChange, AtRest
<1>3. Windowing
  BY DEF Windowing, WindowRefsExact
<1>4. Joined /\ Deciding
  BY DEF Joined, Deciding, HotHasWindow, InLoop
<1> QED  BY <1>1, <1>2, <1>3, <1>4 DEF SwapInv, TypeOK

LEMMA NextFlagTypes == SwapInv /\ [Next]_vars => FlagTypes'
<1> SUFFICES ASSUME SwapInv, [Next]_vars PROVE FlagTypes'  OBVIOUS
<1> USE DEF SwapInv, TypeOK, FlagTypes, swapVars, ctlVars, pvVars, surfaceVars
<1>1. CASE CallAttachSurface
  BY <1>1 DEF CallAttachSurface
<1>2. CASE CallDetachSurface
  BY <1>2 DEF CallDetachSurface
<1>3. CASE LockSwap
  BY <1>3 DEF LockSwap
<1>4. CASE TestIdle
  BY <1>4 DEF TestIdle
<1>5. CASE Sleep
  BY <1>5 DEF Sleep
<1>6. CASE Expire
  BY <1>6 DEF Expire
<1>7. CASE Wake
  BY <1>7 DEF Wake
<1>8. CASE Detach
  BY <1>8 DEF Detach, Released, ChangeOrderly, PreviewMutexFree
<1>9. CASE Attach
  BY <1>9 DEF Attach, Released, ChangeOrderly, PreviewMutexFree
<1>10. CASE FinishSwap
  BY <1>10 DEF FinishSwap
<1>11. CASE SetPreviewDisplay
  BY <1>11 DEF SetPreviewDisplay, Released, ControllerCall, PreviewMutexFree
<1>12. CASE StartPreview
  BY <1>12 DEF StartPreview, ControllerCall
<1>13. CASE StopPreview
  BY <1>13 DEF StopPreview, ControllerCall
<1>14. CASE JoinPreviewThread
  BY <1>14 DEF JoinPreviewThread
<1>15. CASE ReleaseWindow
  BY <1>15 DEF ReleaseWindow, Released, PreviewMutexFree
<1>16. CASE StartStreaming
  BY <1>16 DEF StartStreaming
<1>17. CASE SetInitialState
  BY <1>17 DEF SetInitialState
<1>18. CASE TestRunning
  BY <1>18 DEF TestRunning, PreviewGoes
<1>19. CASE TestSwapping
  BY <1>19 DEF TestSwapping, PreviewGoes
<1>20. CASE AnnounceIdle
  BY <1>20 DEF AnnounceIdle, PreviewGoes
<1>21. CASE NotifyIdle
  BY <1>21 DEF NotifyIdle, PreviewGoes
<1>22. CASE Park
  BY <1>22 DEF Park, PreviewGoes
<1>23. CASE LoadState
  BY <1>23 DEF LoadState, PreviewGoes
<1>24. CASE NoPreviewFrame
  BY <1>24 DEF NoPreviewFrame, PreviewGoes
<1>25. CASE WarmFrame
  BY <1>25 DEF WarmFrame, PreviewGoes
<1>26. CASE HotFrame
  BY <1>26 DEF HotFrame, PreviewGoes
<1>27. CASE DrawPreviewOne
  BY <1>27 DEF DrawPreviewOne, PreviewMutexFree
<1>28. CASE DrawDone
  BY <1>28 DEF DrawDone
<1>29. CASE StopStreaming
  BY <1>29 DEF StopStreaming
<1>30. CASE AddPreviewFrame
  BY <1>30 DEF AddPreviewFrame, PreviewMutexFree
<1>31. CASE UNCHANGED vars
  BY <1>31 DEF vars
<1> QED
    BY <1>1, <1>2, <1>3, <1>4, <1>5, <1>6, <1>7, <1>8, <1>9, <1>10, <1>11, <1>12, <1>13, <1>14,
     <1>15, <1>16, <1>17, <1>18, <1>19, <1>20, <1>21, <1>22, <1>23, <1>24, <1>25, <1>26, <1>27,
     <1>28, <1>29, <1>30, <1>31
  DEF Next, OwnerCall, OwnerStep, ControllerStep, PreviewStep

LEMMA NextSurfaceTypes == SwapInv /\ [Next]_vars => SurfaceTypes'
<1> SUFFICES ASSUME SwapInv, [Next]_vars PROVE SurfaceTypes'  OBVIOUS
<1> USE DEF SwapInv, TypeOK, FlagTypes, SurfaceTypes, Windowing, WindowRefsExact, swapVars, ctlVars,
            pvVars, surfaceVars
<1>1. CASE CallAttachSurface
  BY <1>1 DEF CallAttachSurface
<1>2. CASE CallDetachSurface
  BY <1>2 DEF CallDetachSurface
<1>3. CASE LockSwap
  BY <1>3 DEF LockSwap
<1>4. CASE TestIdle
  BY <1>4 DEF TestIdle
<1>5. CASE Sleep
  BY <1>5 DEF Sleep
<1>6. CASE Expire
  BY <1>6 DEF Expire
<1>7. CASE Wake
  BY <1>7 DEF Wake
<1>8. CASE Detach
  BY <1>8 DEF Detach, Released, ChangeOrderly, PreviewMutexFree
<1>9. CASE Attach
  BY <1>9 DEF Attach, Released, ChangeOrderly, PreviewMutexFree
<1>10. CASE FinishSwap
  BY <1>10 DEF FinishSwap
<1>11. CASE SetPreviewDisplay
  BY <1>11 DEF SetPreviewDisplay, Released, ControllerCall, PreviewMutexFree
<1>12. CASE StartPreview
  BY <1>12 DEF StartPreview, ControllerCall
<1>13. CASE StopPreview
  BY <1>13 DEF StopPreview, ControllerCall
<1>14. CASE JoinPreviewThread
  BY <1>14 DEF JoinPreviewThread
<1>15. CASE ReleaseWindow
  BY <1>15 DEF ReleaseWindow, Released, PreviewMutexFree
<1>16. CASE StartStreaming
  BY <1>16 DEF StartStreaming
<1>17. CASE SetInitialState
  BY <1>17 DEF SetInitialState
<1>18. CASE TestRunning
  BY <1>18 DEF TestRunning, PreviewGoes
<1>19. CASE TestSwapping
  BY <1>19 DEF TestSwapping, PreviewGoes
<1>20. CASE AnnounceIdle
  BY <1>20 DEF AnnounceIdle, PreviewGoes
<1>21. CASE NotifyIdle
  BY <1>21 DEF NotifyIdle, PreviewGoes
<1>22. CASE Park
  BY <1>22 DEF Park, PreviewGoes
<1>23. CASE LoadState
  BY <1>23 DEF LoadState, PreviewGoes
<1>24. CASE NoPreviewFrame
  BY <1>24 DEF NoPreviewFrame, PreviewGoes
<1>25. CASE WarmFrame
  BY <1>25 DEF WarmFrame, PreviewGoes
<1>26. CASE HotFrame
  BY <1>26 DEF HotFrame, PreviewGoes
<1>27. CASE DrawPreviewOne
  BY <1>27 DEF DrawPreviewOne, PreviewMutexFree
<1>28. CASE DrawDone
  BY <1>28 DEF DrawDone
<1>29. CASE StopStreaming
  BY <1>29 DEF StopStreaming
<1>30. CASE AddPreviewFrame
  BY <1>30 DEF AddPreviewFrame, PreviewMutexFree
<1>31. CASE UNCHANGED vars
  BY <1>31 DEF vars
<1> QED
    BY <1>1, <1>2, <1>3, <1>4, <1>5, <1>6, <1>7, <1>8, <1>9, <1>10, <1>11, <1>12, <1>13, <1>14,
     <1>15, <1>16, <1>17, <1>18, <1>19, <1>20, <1>21, <1>22, <1>23, <1>24, <1>25, <1>26, <1>27,
     <1>28, <1>29, <1>30, <1>31
  DEF Next, OwnerCall, OwnerStep, ControllerStep, PreviewStep

LEMMA NextStepTypes == SwapInv /\ [Next]_vars => StepTypes'
<1> SUFFICES ASSUME SwapInv, [Next]_vars PROVE StepTypes'  OBVIOUS
<1> USE DEF SwapInv, TypeOK, StepTypes, InLoop, swapVars, ctlVars, pvVars, surfaceVars
<1>1. CASE OwnerCall \/ OwnerStep
  BY <1>1 DEF OwnerCall, OwnerStep, CallAttachSurface, CallDetachSurface, LockSwap, TestIdle, Sleep,
              Expire, Wake, Detach, Released, ChangeOrderly, PreviewMutexFree, Attach, FinishSwap
<1>2. CASE SetPreviewDisplay \/ StartPreview \/ StopPreview \/ ControllerStep
  BY <1>2 DEF ControllerStep, SetPreviewDisplay, Released, ControllerCall, PreviewMutexFree,
              StartPreview, StopPreview, JoinPreviewThread, ReleaseWindow
<1>3. CASE PreviewStep \/ AddPreviewFrame
  BY <1>3 DEF PreviewStep, StartStreaming, SetInitialState, TestRunning, PreviewGoes, TestSwapping,
              AnnounceIdle, NotifyIdle, Park, LoadState, NoPreviewFrame, WarmFrame, HotFrame,
              DrawPreviewOne, PreviewMutexFree, DrawDone, StopStreaming, AddPreviewFrame
<1>4. CASE UNCHANGED vars
  BY <1>4 DEF vars
<1> QED  BY <1>1, <1>2, <1>3, <1>4 DEF Next

LEMMA NextCountTypes == SwapInv /\ [Next]_vars => CountTypes'
<1> SUFFICES ASSUME SwapInv, [Next]_vars PROVE CountTypes'  OBVIOUS
<1> USE DEF SwapInv, TypeOK, CountTypes, swapVars, ctlVars, pvVars, surfaceVars
<1>1. CASE OwnerCall \/ OwnerStep
  BY <1>1 DEF OwnerCall, OwnerStep, CallAttachSurface, CallDetachSurface, LockSwap, TestIdle, Sleep,
              Expire, Wake, Detach, Released, ChangeOrderly, PreviewMutexFree, Attach, FinishSwap
<1>2. CASE SetPreviewDisplay \/ StartPreview \/ StopPreview \/ ControllerStep
  BY <1>2 DEF ControllerStep, SetPreviewDisplay, Released, ControllerCall, PreviewMutexFree,
              StartPreview, StopPreview, JoinPreviewThread, ReleaseWindow
<1>3. CASE PreviewStep \/ AddPreviewFrame
  BY <1>3 DEF PreviewStep, StartStreaming, SetInitialState, TestRunning, PreviewGoes, TestSwapping,
              AnnounceIdle, NotifyIdle, Park, LoadState, NoPreviewFrame, WarmFrame, HotFrame,
              DrawPreviewOne, PreviewMutexFree, DrawDone, StopStreaming, AddPreviewFrame
<1>4. CASE UNCHANGED vars
  BY <1>4 DEF vars
<1> QED  BY <1>1, <1>2, <1>3, <1>4 DEF Next

LEMMA NextHandshake == SwapInv /\ [Next]_vars => Handshake'
<1> SUFFICES ASSUME SwapInv, [Next]_vars PROVE Handshake'  OBVIOUS
<1> USE DEF SwapInv, TypeOK, FlagTypes, Handshake, ParkedDuringChange, AtRest, Joined, swapVars,
            ctlVars, pvVars, surfaceVars
<1>1. CASE CallAttachSurface
  BY <1>1 DEF CallAttachSurface
<1>2. CASE CallDetachSurface
  BY <1>2 DEF CallDetachSurface
<1>3. CASE LockSwap
  BY <1>3 DEF LockSwap
<1>4. CASE TestIdle
  BY <1>4 DEF TestIdle
<1>5. CASE Sleep
  BY <1>5 DEF Sleep
<1>6. CASE Expire
  BY <1>6 DEF Expire
<1>7. CASE Wake
  BY <1>7 DEF Wake
<1>8. CASE Detach
  BY <1>8 DEF Detach, Released, ChangeOrderly, PreviewMutexFree
<1>9. CASE Attach
  BY <1>9 DEF Attach, Released, ChangeOrderly, PreviewMutexFree
<1>10. CASE FinishSwap
  BY <1>10 DEF FinishSwap
<1>11. CASE SetPreviewDisplay
  BY <1>11 DEF SetPreviewDisplay, Released, ControllerCall, PreviewMutexFree
<1>12. CASE StartPreview
  BY <1>12 DEF StartPreview, ControllerCall
<1>13. CASE StopPreview
  BY <1>13 DEF StopPreview, ControllerCall
<1>14. CASE JoinPreviewThread
  BY <1>14 DEF JoinPreviewThread
<1>15. CASE ReleaseWindow
  BY <1>15 DEF ReleaseWindow, Released, PreviewMutexFree
<1>16. CASE StartStreaming
  BY <1>16 DEF StartStreaming
<1>17. CASE SetInitialState
  BY <1>17 DEF SetInitialState
<1>18. CASE TestRunning
  BY <1>18 DEF TestRunning, PreviewGoes
<1>19. CASE TestSwapping
  BY <1>19 DEF TestSwapping, PreviewGoes
<1>20. CASE AnnounceIdle
  BY <1>20 DEF AnnounceIdle, PreviewGoes
<1>21. CASE NotifyIdle
  BY <1>21 DEF NotifyIdle, PreviewGoes
<1>22. CASE Park
  BY <1>22 DEF Park, PreviewGoes
<1>23. CASE LoadState
  BY <1>23 DEF LoadState, PreviewGoes
<1>24. CASE NoPreviewFrame
  BY <1>24 DEF NoPreviewFrame, PreviewGoes
<1>25. CASE WarmFrame
  BY <1>25 DEF WarmFrame, PreviewGoes
<1>26. CASE HotFrame
  BY <1>26 DEF HotFrame, PreviewGoes
<1>27. CASE DrawPreviewOne
  BY <1>27 DEF DrawPreviewOne, PreviewMutexFree
<1>28. CASE DrawDone
  BY <1>28 DEF DrawDone
<1>29. CASE StopStreaming
  BY <1>29 DEF StopStreaming
<1>30. CASE AddPreviewFrame
  BY <1>30 DEF AddPreviewFrame, PreviewMutexFree
<1>31. CASE UNCHANGED vars
  BY <1>31 DEF vars
<1> QED
    BY <1>1, <1>2, <1>3, <1>4, <1>5, <1>6, <1>7, <1>8, <1>9, <1>10, <1>11, <1>12, <1>13, <1>14,
     <1>15, <1>16, <1>17, <1>18, <1>19, <1>20, <1>21, <1>22, <1>23, <1>24, <1>25, <1>26, <1>27,
     <1>28, <1>29, <1>30, <1>31
  DEF Next, OwnerCall, OwnerStep, ControllerStep, PreviewStep

LEMMA NextWindowing == SwapInv /\ [Next]_vars => Windowing'
<1> SUFFICES ASSUME SwapInv, [Next]_vars PROVE Windowing'  OBVIOUS
<1> USE DEF SwapInv, TypeOK, SurfaceTypes, Windowing, WindowRefsExact, Joined, swapVars, ctlVars,
            pvVars, surfaceVars
<1>1. CASE CallAttachSurface
  BY <1>1 DEF CallAttachSurface
<1>2. CASE CallDetachSurface
  BY <1>2 DEF CallDetachSurface
<1>3. CASE LockSwap
  BY <1>3 DEF LockSwap
<1>4. CASE TestIdle
  BY <1>4 DEF TestIdle
<1>5. CASE Sleep
  BY <1>5 DEF Sleep
<1>6. CASE Expire
  BY <1>6 DEF Expire
<1>7. CASE Wake
  BY <1>7 DEF Wake
<1>8. CASE Detach
  BY <1>8 DEF Detach, Released, ChangeOrderly, PreviewMutexFree
<1>9. CASE Attach
  BY <1>9 DEF Attach, Released, ChangeOrderly, PreviewMutexFree
<1>10. CASE FinishSwap
  BY <1>10 DEF FinishSwap
<1>11. CASE SetPreviewDisplay
  BY <1>11 DEF SetPreviewDisplay, Released, ControllerCall, PreviewMutexFree
<1>12. CASE StartPreview
  BY <1>12 DEF StartPreview, ControllerCall
<1>13. CASE StopPreview
  BY <1>13 DEF StopPreview, ControllerCall
<1>14. CASE JoinPreviewThread
  BY <1>14 DEF JoinPreviewThread
<1>15. CASE ReleaseWindow
  BY <1>15 DEF ReleaseWindow, Released, PreviewMutexFree
<1>16. CASE StartStreaming
  BY <1>16 DEF StartStreaming
<1>17. CASE SetInitialState
  BY <1>17 DEF SetInitialState
<1>18. CASE TestRunning
  BY <1>18 DEF TestRunning, PreviewGoes
<1>19. CASE TestSwapping
  BY <1>19 DEF TestSwapping, PreviewGoes
<1>20. CASE AnnounceIdle
  BY <1>20 DEF AnnounceIdle, PreviewGoes
<1>21. CASE NotifyIdle
  BY <1>21 DEF NotifyIdle, PreviewGoes
<1>22. CASE Park
  BY <1>22 DEF Park, PreviewGoes
<1>23. CASE LoadState
  BY <1>23 DEF LoadState, PreviewGoes
<1>24. CASE NoPreviewFrame
  BY <1>24 DEF NoPreviewFrame, PreviewGoes
<1>25. CASE WarmFrame
  BY <1>25 DEF WarmFrame, PreviewGoes
<1>26. CASE HotFrame
  BY <1>26 DEF HotFrame, PreviewGoes
<1>27. CASE DrawPreviewOne
  BY <1>27 DEF DrawPreviewOne, PreviewMutexFree
<1>28. CASE DrawDone
  BY <1>28 DEF DrawDone
<1>29. CASE StopStreaming
  BY <1>29 DEF StopStreaming
<1>30. CASE AddPreviewFrame
  BY <1>30 DEF AddPreviewFrame, PreviewMutexFree
<1>31. CASE UNCHANGED vars
  BY <1>31 DEF vars
<1> QED
    BY <1>1, <1>2, <1>3, <1>4, <1>5, <1>6, <1>7, <1>8, <1>9, <1>10, <1>11, <1>12, <1>13, <1>14,
     <1>15, <1>16, <1>17, <1>18, <1>19, <1>20, <1>21, <1>22, <1>23, <1>24, <1>25, <1>26, <1>27,
     <1>28, <1>29, <1>30, <1>31
  DEF Next, OwnerCall, OwnerStep, ControllerStep, PreviewStep

LEMMA NextJoined == SwapInv /\ [Next]_vars => Joined'
<1> SUFFICES ASSUME SwapInv, [Next]_vars PROVE Joined'  OBVIOUS
<1> USE DEF SwapInv, Joined, swapVars, ctlVars, pvVars, surfaceVars
<1>1. CASE OwnerCall \/ OwnerStep
  BY <1>1 DEF OwnerCall, OwnerStep, CallAttachSurface, CallDetachSurface, LockSwap, TestIdle, Sleep,
              Expire, Wake, Detach, Released, ChangeOrderly, PreviewMutexFree, Attach, FinishSwap
<1>2. CASE SetPreviewDisplay \/ StartPreview \/ StopPreview \/ ControllerStep
  BY <1>2 DEF ControllerStep, SetPreviewDisplay, Released, ControllerCall, PreviewMutexFree,
              StartPreview, StopPreview, JoinPreviewThread, ReleaseWindow
<1>3. CASE PreviewStep \/ AddPreviewFrame
  BY <1>3 DEF PreviewStep, StartStreaming, SetInitialState, TestRunning, PreviewGoes, TestSwapping,
              AnnounceIdle, NotifyIdle, Park, LoadState, NoPreviewFrame, WarmFrame, HotFrame,
              DrawPreviewOne, PreviewMutexFree, DrawDone, StopStreaming, AddPreviewFrame
<1>4. CASE UNCHANGED vars
  BY <1>4 DEF vars
<1> QED  BY <1>1, <1>2, <1>3, <1>4 DEF Next

LEMMA NextDeciding == SwapInv /\ [Next]_vars => Deciding'
<1> SUFFICES ASSUME SwapInv, [Next]_vars PROVE Deciding'  OBVIOUS
<1> USE DEF SwapInv, TypeOK, FlagTypes, Handshake, ParkedDuringChange, AtRest, Windowing,
            SurfaceTypes, Joined, Deciding, HotHasWindow, InLoop, swapVars, ctlVars, pvVars,
            surfaceVars
<1>1. CASE CallAttachSurface
  BY <1>1 DEF CallAttachSurface
<1>2. CASE CallDetachSurface
  BY <1>2 DEF CallDetachSurface
<1>3. CASE LockSwap
  BY <1>3 DEF LockSwap
<1>4. CASE TestIdle
  BY <1>4 DEF TestIdle
<1>5. CASE Sleep
  BY <1>5 DEF Sleep
<1>6. CASE Expire
  BY <1>6 DEF Expire
<1>7. CASE Wake
  BY <1>7 DEF Wake
<1>8. CASE Detach
  BY <1>8 DEF Detach, Released, ChangeOrderly, PreviewMutexFree
<1>9. CASE Attach
  BY <1>9 DEF Attach, Released, ChangeOrderly, PreviewMutexFree
<1>10. CASE FinishSwap
  BY <1>10 DEF FinishSwap
<1>11. CASE SetPreviewDisplay
  BY <1>11 DEF SetPreviewDisplay, Released, ControllerCall, PreviewMutexFree
<1>12. CASE StartPreview
  BY <1>12 DEF StartPreview, ControllerCall
<1>13. CASE StopPreview
  BY <1>13 DEF StopPreview, ControllerCall
<1>14. CASE JoinPreviewThread
  BY <1>14 DEF JoinPreviewThread
<1>15. CASE ReleaseWindow
  BY <1>15 DEF ReleaseWindow, Released, PreviewMutexFree
<1>16. CASE StartStreaming
  BY <1>16 DEF StartStreaming
<1>17. CASE SetInitialState
  BY <1>17 DEF SetInitialState
<1>18. CASE TestRunning
  BY <1>18 DEF TestRunning, PreviewGoes
<1>19. CASE TestSwapping
  BY <1>19 DEF TestSwapping, PreviewGoes
<1>20. CASE AnnounceIdle
  BY <1>20 DEF AnnounceIdle, PreviewGoes
<1>21. CASE NotifyIdle
  BY <1>21 DEF NotifyIdle, PreviewGoes
<1>22. CASE Park
  BY <1>22 DEF Park, PreviewGoes
<1>23. CASE LoadState
  BY <1>23 DEF LoadState, PreviewGoes
<1>24. CASE NoPreviewFrame
  BY <1>24 DEF NoPreviewFrame, PreviewGoes
<1>25. CASE WarmFrame
  BY <1>25 DEF WarmFrame, PreviewGoes
<1>26. CASE HotFrame
  BY <1>26 DEF HotFrame, PreviewGoes
<1>27. CASE DrawPreviewOne
  BY <1>27 DEF DrawPreviewOne, PreviewMutexFree
<1>28. CASE DrawDone
  BY <1>28 DEF DrawDone
<1>29. CASE StopStreaming
  BY <1>29 DEF StopStreaming
<1>30. CASE AddPreviewFrame
  BY <1>30 DEF AddPreviewFrame, PreviewMutexFree
<1>31. CASE UNCHANGED vars
  BY <1>31 DEF vars
<1> QED
    BY <1>1, <1>2, <1>3, <1>4, <1>5, <1>6, <1>7, <1>8, <1>9, <1>10, <1>11, <1>12, <1>13, <1>14,
     <1>15, <1>16, <1>17, <1>18, <1>19, <1>20, <1>21, <1>22, <1>23, <1>24, <1>25, <1>26, <1>27,
     <1>28, <1>29, <1>30, <1>31
  DEF Next, OwnerCall, OwnerStep, ControllerStep, PreviewStep

LEMMA NextSwap == SwapInv /\ [Next]_vars => SwapInv'
  BY NextFlagTypes, NextSurfaceTypes, NextStepTypes, NextCountTypes, NextHandshake, NextWindowing,
     NextJoined, NextDeciding
  DEF SwapInv, TypeOK

LEMMA SwapAlways == Spec => []SwapInv
  BY InitSwap, NextSwap, PTL DEF Spec

-----------------------------------------------------------------------------
(* Every variable keeps its type; no window's reference count goes negative. *)
THEOREM SurfaceTypeCorrect == Spec => []TypeOK
<1>1. SwapInv => TypeOK
  BY DEF SwapInv
<1> QED  BY SwapAlways, <1>1, PTL

(* A window has exactly the references of its holders, so none is released   *)
(* twice and none is leaked, whatever calls, timeouts and failures occur.    *)
THEOREM SurfaceRefs == Spec => []WindowRefsExact
<1>1. SwapInv => WindowRefsExact
  BY DEF SwapInv, Windowing
<1> QED  BY SwapAlways, <1>1, PTL

(* The window the preview thread draws to is not released under it.          *)
THEOREM SurfaceDraws == Spec => []DrawsOnLiveWindow
<1>1. SwapInv => DrawsOnLiveWindow
  <2> SUFFICES ASSUME SwapInv, drawing # Null PROVE refs[drawing] > 0 /\ drawing = mPreviewWindow
    BY DEF DrawsOnLiveWindow
  <2>1. drawing \in Windows /\ drawing = mPreviewWindow
    BY DEF SwapInv, TypeOK, SurfaceTypes, Windowing
  <2>2. refs[drawing] \in {1, 2}
    BY <2>1 DEF SwapInv, Windowing, WindowRefsExact
  <2> QED  BY <2>1, <2>2
<1> QED  BY SwapAlways, <1>1, PTL

(* A change that has seen mIsRenderIdle has the preview thread parked until  *)
(* it is over.                                                               *)
THEOREM SurfaceParked == Spec => []ParkedDuringChange
<1>1. SwapInv => ParkedDuringChange
  BY DEF SwapInv, Handshake
<1> QED  BY SwapAlways, <1>1, PTL

(* While changes meet a parked or ended preview thread, the loop never acts  *)
(* on HOT without a window.                                                  *)
THEOREM SurfaceHot == Spec => []HotHasWindow
<1>1. SwapInv => HotHasWindow
  BY DEF SwapInv, Deciding
<1> QED  BY SwapAlways, <1>1, PTL

===============================================================================
