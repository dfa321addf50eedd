------------------------------ MODULE SurfaceSwap ------------------------------
(***************************************************************************)
(* Changing the preview surface under a running preview thread             *)
(* (UVCPreview.cpp: attachSurface, detachSurface, setPreviewDisplay, the   *)
(* handshake at the top of do_preview's loop, draw_preview_one).           *)
(*                                                                         *)
(* Three threads: the surface's owner calls attachSurface() and            *)
(* detachSurface(), one at a time by contract; the controller calls        *)
(* startPreview(), stopPreview() and setPreviewDisplay(); the preview      *)
(* thread draws.  Every store to an atomic the other side tests without    *)
(* the mutex is an action of its own, and so is going to sleep on a        *)
(* condition variable: a notification sent while nobody sleeps is lost.    *)
(***************************************************************************)
EXTENDS Naturals

CONSTANTS Windows,     \* ANativeWindow objects
          Null,        \* no window
          MaxSwaps,    \* bound: calls of the owner
          MaxCalls,    \* bound: calls of the controller
          MaxFrames    \* MAX_FRAME

ASSUME WindowAssumption == Null \notin Windows
ASSUME SwapBounds == MaxSwaps \in Nat /\ MaxCalls \in Nat /\ MaxFrames \in Nat

VARIABLES
  mIsRunning, mUseRingBuffer, mPreviewWindow, mSurfaceReady, mPreviewState, mOutputMode,
  mSwappingSurface, mIsRenderIdle,
  refs,                \* references to each window
  swap, op, arg,       \* the owner's step, call and window
  swapLocked,          \* does the owner hold mSwapMutex?
  seen,                \* why the owner stopped waiting: "idle", "stopped" or "expired"
  swaps,               \* calls made by the owner
  ctl, calls,          \* the controller's step and calls made
  pv,                  \* the preview thread's step
  currentState,        \* its local copy of mPreviewState
  drawing,             \* the window it draws to, holding preview_mutex
  hadWindow,           \* its test of mPreviewWindow when streaming starts
  previewFrames,       \* length of its queue
  stash,               \* is there a mLastWarmFrame?
  orderly              \* history: every change so far found the preview thread parked or ended

swapVars    == <<swap, op, arg, swapLocked, seen, swaps>>
ctlVars     == <<ctl, calls>>
pvVars      == <<pv, currentState, drawing, hadWindow, stash>>
surfaceVars == <<mPreviewWindow, mSurfaceReady, mPreviewState, mOutputMode, refs>>
vars == <<mIsRunning, mUseRingBuffer, surfaceVars, mSwappingSurface, mIsRenderIdle, swapVars, ctlVars,
          pvVars, previewFrames, orderly>>

InLoop  == {"top", "check", "announce", "notify", "park", "parked", "load", "frame", "draw", "drawing"}
AtRest  == {"notify", "park", "parked"}

\* Whether the ring is used was decided by earlier calls.
Init ==
  /\ mIsRunning = FALSE /\ mUseRingBuffer \in BOOLEAN
  /\ mPreviewWindow = Null /\ mSurfaceReady = FALSE /\ mPreviewState = "COLD" /\ mOutputMode = "IDLE"
  /\ mSwappingSurface = FALSE /\ mIsRenderIdle = FALSE
  /\ refs = [w \in Windows |-> 0]
  /\ swap = "idle" /\ op = "none" /\ arg = Null /\ swapLocked = FALSE /\ seen = "none" /\ swaps = 0
  /\ ctl = "idle" /\ calls = 0
  /\ pv = "none" /\ currentState = "COLD" /\ drawing = Null /\ hadWindow = FALSE
  /\ previewFrames = 0 /\ stash = FALSE
  /\ orderly = TRUE

\* preview_mutex is held across steps only while a frame is drawn.
PreviewMutexFree == drawing = Null

-----------------------------------------------------------------------------
(* The owner: attachSurface() and detachSurface()                           *)

\* By contract a window is attached once; ANativeWindow_fromSurface() takes a
\* reference to it for the callee.
CallAttachSurface ==
  /\ swap = "idle" /\ swaps < MaxSwaps
  /\ \E w \in Windows :
       /\ refs[w] = 0
       /\ refs' = [refs EXCEPT ![w] = @ + 1]
       /\ arg' = w
  /\ op' = "attach" /\ swap' = "lock" /\ swaps' = swaps + 1
  /\ UNCHANGED <<mPreviewWindow, mSurfaceReady, mPreviewState, mOutputMode, swapLocked, seen, mIsRunning,
                 mUseRingBuffer, mSwappingSurface, mIsRenderIdle, ctlVars, pvVars, previewFrames, orderly>>

CallDetachSurface ==
  /\ swap = "idle" /\ swaps < MaxSwaps
  /\ op' = "detach" /\ swap' = "lock" /\ swaps' = swaps + 1
  /\ UNCHANGED <<arg, swapLocked, seen, mIsRunning, mUseRingBuffer, surfaceVars, mSwappingSurface,
                 mIsRenderIdle, ctlVars, pvVars, previewFrames, orderly>>

LockSwap ==
  /\ swap = "lock"
  /\ swapLocked' = TRUE
  /\ mSwappingSurface' = TRUE
  /\ swap' = "test"
  /\ UNCHANGED <<op, arg, seen, swaps, mIsRunning, mUseRingBuffer, surfaceVars, mIsRenderIdle, ctlVars,
                 pvVars, previewFrames, orderly>>

\* The predicate of the wait.
TestIdle ==
  /\ swap = "test"
  /\ IF mIsRenderIdle \/ ~mIsRunning
     THEN swap' = "change" /\ seen' = IF mIsRenderIdle THEN "idle" ELSE "stopped"
     ELSE swap' = "sleep" /\ seen' = "none"
  /\ UNCHANGED <<op, arg, swapLocked, swaps, mIsRunning, mUseRingBuffer, surfaceVars, mSwappingSurface,
                 mIsRenderIdle, ctlVars, pvVars, previewFrames, orderly>>

Sleep ==
  /\ swap = "sleep"
  /\ swapLocked' = FALSE
  /\ swap' = "asleep"
  /\ UNCHANGED <<op, arg, seen, swaps, mIsRunning, mUseRingBuffer, surfaceVars, mSwappingSurface,
                 mIsRenderIdle, ctlVars, pvVars, previewFrames, orderly>>

\* wait() in place of wait_for().
Expire_Never == FALSE /\ UNCHANGED vars

\* Only detachSurface() uses wait_for().
Expire ==
  /\ swap = "asleep" /\ op = "detach"
  /\ swapLocked' = TRUE
  /\ swap' = "change"
  /\ seen' = IF mIsRenderIdle THEN "idle" ELSE IF ~mIsRunning THEN "stopped" ELSE "expired"
  /\ UNCHANGED <<op, arg, swaps, mIsRunning, mUseRingBuffer, surfaceVars, mSwappingSurface, mIsRenderIdle,
                 ctlVars, pvVars, previewFrames, orderly>>

Wake ==
  /\ swap = "woken"
  /\ swapLocked' = TRUE
  /\ swap' = "test"
  /\ UNCHANGED <<op, arg, seen, swaps, mIsRunning, mUseRingBuffer, surfaceVars, mSwappingSurface,
                 mIsRenderIdle, ctlVars, pvVars, previewFrames, orderly>>

\* r with window w released.
Released(r, w) == IF w = Null THEN r ELSE [r EXCEPT ![w] = @ - 1]

ChangeOrderly == orderly' = (orderly /\ (seen = "idle" \/ pv = "none"))

\* The pointer to the released window is kept.
Detach_Keep ==
  /\ swap = "change" /\ op = "detach" /\ PreviewMutexFree
  /\ refs' = Released(refs, mPreviewWindow)
  /\ mPreviewState' = "WARM" /\ mSurfaceReady' = FALSE /\ mOutputMode' = "IDLE"
  /\ swap' = "finish"
  /\ ChangeOrderly
  /\ UNCHANGED <<mPreviewWindow, op, arg, swapLocked, seen, swaps, mIsRunning, mUseRingBuffer,
                 mSwappingSurface, mIsRenderIdle, ctlVars, pvVars, previewFrames>>

\* Without preview_mutex.
Detach_Unlocked ==
  /\ swap = "change" /\ op = "detach"
  /\ refs' = Released(refs, mPreviewWindow)
  /\ mPreviewWindow' = Null
  /\ mPreviewState' = "WARM" /\ mSurfaceReady' = FALSE /\ mOutputMode' = "IDLE"
  /\ swap' = "finish"
  /\ ChangeOrderly
  /\ UNCHANGED <<op, arg, swapLocked, seen, swaps, mIsRunning, mUseRingBuffer, mSwappingSurface,
                 mIsRenderIdle, ctlVars, pvVars, previewFrames>>

Detach ==
  /\ swap = "change" /\ op = "detach" /\ PreviewMutexFree
  /\ refs' = Released(refs, mPreviewWindow)
  /\ mPreviewWindow' = Null
  /\ mPreviewState' = "WARM" /\ mSurfaceReady' = FALSE /\ mOutputMode' = "IDLE"
  /\ swap' = "finish"
  /\ ChangeOrderly
  /\ UNCHANGED <<op, arg, swapLocked, seen, swaps, mIsRunning, mUseRingBuffer, mSwappingSurface,
                 mIsRenderIdle, ctlVars, pvVars, previewFrames>>

\* ANativeWindow_setBuffersGeometry() may fail.
Attach ==
  /\ swap = "change" /\ op = "attach" /\ PreviewMutexFree
  /\ LET old == IF mPreviewWindow = arg THEN Null ELSE mPreviewWindow
     IN  \/ /\ refs' = Released(refs, old)
            /\ mPreviewWindow' = arg
            /\ mSurfaceReady' = TRUE /\ mPreviewState' = "HOT" /\ mOutputMode' = "RING_BUFFER"
         \/ /\ refs' = Released(Released(refs, old), arg)
            /\ mPreviewWindow' = Null
            /\ mSurfaceReady' = FALSE /\ mPreviewState' = "WARM" /\ UNCHANGED mOutputMode
  /\ arg' = Null
  /\ swap' = "finish"
  /\ ChangeOrderly
  /\ UNCHANGED <<op, swapLocked, seen, swaps, mIsRunning, mUseRingBuffer, mSwappingSurface, mIsRenderIdle,
                 ctlVars, pvVars, previewFrames>>

\* Nobody is told that the swap is over.
FinishSwap_NoNotify ==
  /\ swap = "finish"
  /\ mSwappingSurface' = FALSE
  /\ swapLocked' = FALSE
  /\ swap' = "idle" /\ op' = "none" /\ seen' = "none"
  /\ UNCHANGED <<arg, swaps, mIsRunning, mUseRingBuffer, surfaceVars, mIsRenderIdle, ctlVars, pvVars,
                 previewFrames, orderly>>

FinishSwap ==
  /\ swap = "finish"
  /\ mSwappingSurface' = FALSE
  /\ pv' = IF pv = "parked" THEN "park" ELSE pv            \* notify_all()
  /\ swapLocked' = FALSE
  /\ swap' = "idle" /\ op' = "none" /\ seen' = "none"
  /\ UNCHANGED <<arg, swaps, mIsRunning, mUseRingBuffer, surfaceVars, mIsRenderIdle, ctlVars, currentState,
                 drawing, hadWindow, stash, previewFrames, orderly>>

OwnerCall == CallAttachSurface \/ CallDetachSurface
OwnerStep == LockSwap \/ TestIdle \/ Sleep \/ Expire \/ Wake \/ Detach \/ Attach \/ FinishSwap

-----------------------------------------------------------------------------
(* The controller                                                           *)

ControllerCall == ctl = "idle" /\ calls < MaxCalls /\ calls' = calls + 1

SetPreviewDisplay ==
  /\ ControllerCall /\ PreviewMutexFree
  /\ \E w \in Windows :
       /\ refs[w] = 0
       /\ refs' = Released([refs EXCEPT ![w] = @ + 1], mPreviewWindow)
       /\ mPreviewWindow' = w
  /\ mSurfaceReady' = TRUE
  /\ previewFrames' = 0
  /\ UNCHANGED <<mPreviewState, mOutputMode, ctl, mIsRunning, mUseRingBuffer, mSwappingSurface,
                 mIsRenderIdle, swapVars, pvVars, orderly>>

StartPreview ==
  /\ ControllerCall
  /\ ~mIsRunning /\ (mPreviewWindow # Null \/ mUseRingBuffer)
  /\ mIsRunning' = TRUE
  /\ pv' = "start"
  /\ UNCHANGED <<ctl, mUseRingBuffer, surfaceVars, mSwappingSurface, mIsRenderIdle, swapVars, currentState,
                 drawing, hadWindow, stash, previewFrames, orderly>>

StopPreview ==
  /\ ControllerCall
  /\ mIsRunning' = FALSE
  /\ ctl' = IF mIsRunning THEN "join" ELSE "release"
  /\ UNCHANGED <<mUseRingBuffer, surfaceVars, mSwappingSurface, mIsRenderIdle, swapVars, pvVars,
                 previewFrames, orderly>>

JoinPreviewThread ==
  /\ ctl = "join" /\ pv = "none"
  /\ ctl' = "release"
  /\ UNCHANGED <<calls, mIsRunning, mUseRingBuffer, surfaceVars, mSwappingSurface, mIsRenderIdle, swapVars,
                 pvVars, previewFrames, orderly>>

ReleaseWindow ==
  /\ ctl = "release" /\ PreviewMutexFree
  /\ refs' = Released(refs, mPreviewWindow)
  /\ mPreviewWindow' = Null
  /\ previewFrames' = 0
  /\ ctl' = "idle"
  /\ UNCHANGED <<calls, mSurfaceReady, mPreviewState, mOutputMode, mIsRunning, mUseRingBuffer,
                 mSwappingSurface, mIsRenderIdle, swapVars, pvVars, orderly>>

ControllerStep == JoinPreviewThread \/ ReleaseWindow

-----------------------------------------------------------------------------
(* The preview thread                                                       *)

\* prepare_preview() and uvc_start_streaming_bandwidth(), which may fail; then
\* mPreviewWindow is looked at without preview_mutex.
StartStreaming ==
  /\ pv = "start"
  /\ \/ pv' = "begin" /\ previewFrames' = 0 /\ hadWindow' = (mPreviewWindow # Null)
     \/ pv' = "none" /\ UNCHANGED <<previewFrames, hadWindow>>
  /\ UNCHANGED <<currentState, drawing, stash, mIsRunning, mUseRingBuffer, surfaceVars, mSwappingSurface,
                 mIsRenderIdle, swapVars, ctlVars, orderly>>

SetInitialState ==
  /\ pv = "begin"
  /\ mPreviewState' = IF hadWindow THEN "HOT" ELSE "WARM"
  /\ pv' = "top"
  /\ UNCHANGED <<currentState, drawing, hadWindow, stash, mPreviewWindow, mSurfaceReady, mOutputMode, refs,
                 mIsRunning, mUseRingBuffer, mSwappingSurface, mIsRenderIdle, swapVars, ctlVars,
                 previewFrames, orderly>>

\* A step of the preview thread that only moves it on.
PreviewGoes(from, to) ==
  /\ pv = from
  /\ pv' = to
  /\ UNCHANGED <<drawing, hadWindow, mIsRunning, mUseRingBuffer, surfaceVars, mSwappingSurface, ctlVars,
                 orderly>>

TestRunning ==
  /\ PreviewGoes("top", IF mIsRunning THEN "check" ELSE "stopping")
  /\ UNCHANGED <<currentState, stash, mIsRenderIdle, swapVars, previewFrames>>

TestSwapping ==
  /\ PreviewGoes("check", IF mSwappingSurface THEN "announce" ELSE "load")
  /\ UNCHANGED <<currentState, stash, mIsRenderIdle, swapVars, previewFrames>>

AnnounceIdle ==
  /\ PreviewGoes("announce", "notify")
  /\ mIsRenderIdle' = TRUE
  /\ UNCHANGED <<currentState, stash, swapVars, previewFrames>>

\* Sent without mSwapMutex.
NotifyIdle ==
  /\ PreviewGoes("notify", "park")
  /\ swap' = IF swap = "asleep" THEN "woken" ELSE swap
  /\ UNCHANGED <<currentState, stash, mIsRenderIdle, op, arg, swapLocked, seen, swaps, previewFrames>>

\* With mSwapMutex: sleep on mSwappingCond while the swap goes on.
Park ==
  /\ ~swapLocked
  /\ PreviewGoes("park", IF mSwappingSurface THEN "parked" ELSE "load")
  /\ mIsRenderIdle' = (mIsRenderIdle /\ mSwappingSurface)
  /\ UNCHANGED <<currentState, stash, swapVars, previewFrames>>

LoadState ==
  /\ PreviewGoes("load", "frame")
  /\ currentState' = mPreviewState
  /\ UNCHANGED <<stash, mIsRenderIdle, swapVars, previewFrames>>

\* waitPreviewFrame() gives up after PREVIEW_WAIT_TIMEOUT_MS.
NoPreviewFrame ==
  /\ ~mIsRunning \/ previewFrames = 0
  /\ PreviewGoes("frame", "top")
  /\ UNCHANGED <<currentState, stash, mIsRenderIdle, swapVars, previewFrames>>

WarmFrame ==
  /\ mIsRunning /\ previewFrames > 0 /\ currentState = "WARM"
  /\ PreviewGoes("frame", "top")
  /\ previewFrames' = previewFrames - 1
  /\ stash' = TRUE
  /\ UNCHANGED <<currentState, mIsRenderIdle, swapVars>>

HotFrame ==
  /\ mIsRunning /\ previewFrames > 0 /\ currentState # "WARM"
  /\ PreviewGoes("frame", "draw")
  /\ previewFrames' = previewFrames - 1
  /\ stash' = FALSE
  /\ UNCHANGED <<currentState, mIsRenderIdle, swapVars>>

DrawPreviewOne ==
  /\ pv = "draw" /\ PreviewMutexFree
  /\ pv' = IF mPreviewWindow # Null THEN "drawing" ELSE "top"
  /\ drawing' = mPreviewWindow
  /\ UNCHANGED <<currentState, hadWindow, stash, mIsRunning, mUseRingBuffer, surfaceVars, mSwappingSurface,
                 mIsRenderIdle, swapVars, ctlVars, previewFrames, orderly>>

DrawDone ==
  /\ pv = "drawing"
  /\ pv' = "top"
  /\ drawing' = Null
  /\ UNCHANGED <<currentState, hadWindow, stash, mIsRunning, mUseRingBuffer, surfaceVars, mSwappingSurface,
                 mIsRenderIdle, swapVars, ctlVars, previewFrames, orderly>>

StopStreaming ==
  /\ pv = "stopping"
  /\ stash' = FALSE
  /\ mPreviewState' = "COLD"
  /\ pv' = "none"
  /\ UNCHANGED <<currentState, drawing, hadWindow, mPreviewWindow, mSurfaceReady, mOutputMode, refs,
                 mIsRunning, mUseRingBuffer, mSwappingSurface, mIsRenderIdle, swapVars, ctlVars,
                 previewFrames, orderly>>

PreviewStep ==
  \/ StartStreaming \/ SetInitialState \/ TestRunning \/ TestSwapping \/ AnnounceIdle \/ NotifyIdle
  \/ Park \/ LoadState \/ NoPreviewFrame \/ WarmFrame \/ HotFrame \/ DrawPreviewOne \/ DrawDone
  \/ StopStreaming

\* libuvc's callback; without a ring the frame is queued if the surface is ready.
AddPreviewFrame ==
  /\ pv \in InLoop \cup {"begin", "stopping"} /\ mIsRunning
  /\ ~mUseRingBuffer /\ mSurfaceReady /\ PreviewMutexFree
  /\ previewFrames < MaxFrames
  /\ previewFrames' = previewFrames + 1
  /\ UNCHANGED <<mIsRunning, mUseRingBuffer, surfaceVars, mSwappingSurface, mIsRenderIdle, swapVars,
                 ctlVars, pvVars, orderly>>

Next ==
  \/ OwnerCall \/ OwnerStep
  \/ SetPreviewDisplay \/ StartPreview \/ StopPreview \/ ControllerStep
  \/ PreviewStep \/ AddPreviewFrame

Spec == Init /\ [][Next]_vars

\* A thread inside a call, and the preview thread, keep being scheduled.
FairSpec == Spec /\ WF_vars(OwnerStep) /\ WF_vars(ControllerStep) /\ WF_vars(PreviewStep)

-----------------------------------------------------------------------------
FlagTypes ==
  /\ mIsRunning \in BOOLEAN /\ mUseRingBuffer \in BOOLEAN /\ mSurfaceReady \in BOOLEAN
  /\ mSwappingSurface \in BOOLEAN /\ mIsRenderIdle \in BOOLEAN /\ swapLocked \in BOOLEAN
  /\ hadWindow \in BOOLEAN /\ stash \in BOOLEAN /\ orderly \in BOOLEAN

SurfaceTypes ==
  /\ mPreviewWindow \in Windows \cup {Null} /\ arg \in Windows \cup {Null}
  /\ drawing \in Windows \cup {Null}
  /\ refs \in [Windows -> Nat]
  /\ mPreviewState \in {"COLD", "WARM", "HOT"} /\ currentState \in {"COLD", "WARM", "HOT"}
  /\ mOutputMode \in {"IDLE", "RING_BUFFER"}

StepTypes ==
  /\ swap \in {"idle", "lock", "test", "sleep", "asleep", "woken", "change", "finish"}
  /\ op \in {"none", "attach", "detach"}
  /\ seen \in {"none", "idle", "stopped", "expired"}
  /\ ctl \in {"idle", "join", "release"}
  /\ pv \in InLoop \cup {"none", "start", "begin", "stopping"}

CountTypes == swaps \in 0..MaxSwaps /\ calls \in 0..MaxCalls /\ previewFrames \in 0..MaxFrames

TypeOK == FlagTypes /\ SurfaceTypes /\ StepTypes /\ CountTypes

(* A window has exactly the references of those who hold it, the preview     *)
(* and an attachSurface() on its way: whatever the order of attachSurface(), *)
(* detachSurface(), setPreviewDisplay() and stopPreview(), timeouts and      *)
(* failures of the geometry included, none is released twice or leaked.      *)
WindowRefsExact ==
  \A w \in Windows :
    refs[w] = (IF mPreviewWindow = w THEN 1 ELSE 0) + (IF arg = w THEN 1 ELSE 0)

(* draw_preview_one() looks at the window and draws under preview_mutex      *)
(* ("prevents TOCTOU race"): the window it draws to is not released under    *)
(* it, even by a detachSurface() whose wait has timed out.                   *)
DrawsOnLiveWindow == drawing # Null => refs[drawing] > 0 /\ drawing = mPreviewWindow

(* The purpose of the handshake ("Safe to release surface now - render       *)
(* thread is parked"): from the moment a swap has seen mIsRenderIdle until   *)
(* it ends, the preview thread stays parked; a flag left over from an        *)
(* earlier swap never lets a later one through.                              *)
ParkedDuringChange == seen = "idle" /\ swap \in {"change", "finish"} => pv \in AtRest

(* As long as every change found the preview thread parked (or ended),       *)
(* mPreviewState is in step with the surface when the loop acts on it: HOT   *)
(* needs a window ("HOT: USB streaming active + surface available"), and a   *)
(* frame is not rendered on a decision older than the last detachSurface().  *)
HotHasWindow ==
  orderly =>
    /\ pv \in InLoop /\ mPreviewState = "HOT" => mPreviewWindow # Null
    /\ pv \in {"frame", "draw"} /\ currentState # "WARM" => mPreviewWindow # Null

(* detachSurface() returns: its wait is bounded even when the notification   *)
(* is sent before it sleeps, the preview thread has failed to start or       *)
(* stopPreview() runs at the same time.                                      *)
DetachReturns == (op = "detach") ~> (op # "detach")

(* The preview thread is not left parked after the swap: notify_all() cannot *)
(* be lost, because mSwappingCond is used with the mutex.                    *)
ParkedResumes == (pv = "parked" /\ ~mSwappingSurface) ~> (pv = "load")

(* acquireSurfaceLease() "Blocks until render thread completes surface       *)
(* binding" (UVCCamera.java:676): the call returns.  It need not: the wait has no     *)
(* time limit, and the notification is sent without the mutex (README 7).   *)
AttachReturns == (op = "attach") ~> (op # "attach")

================================================================================
