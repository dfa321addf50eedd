----------------------------- MODULE CaptureThread -----------------------------
(***************************************************************************)
(* The capture thread of UVCPreview and what the others do with it          *)
(* (UVCPreview.cpp: do_capture, addCaptureFrame, waitCaptureFrame,          *)
(* setFrameCallback, setCaptureDisplay, startPreview, stopPreview).         *)
(*                                                                         *)
(* The preview thread makes the capture thread and hands it frames through  *)
(* captureQueu, which keeps the latest only.  Application threads change    *)
(* the callback object and the window the frames go to: they ask the        *)
(* capture thread to leave its inner loop (mIsCapturing), wait once on       *)
(* capture_sync, and go on whoever woke them.  capture_mutex guards the     *)
(* queue and the callback object; the capture thread uses the window        *)
(* without it, and stopPreview() and the preview thread signal without it.  *)
(***************************************************************************)
EXTENDS Naturals, FiniteSets

CONSTANTS Frames,      \* every uvc_frame_t there may be
          Callbacks,   \* IFrameCallback objects
          Windows,     \* capture windows
          None,        \* NULL
          Threads,     \* application threads that set callbacks and windows
          App,         \* the one among them that starts and stops the preview
          MaxStarts,   \* bound: how often the preview is started
          MaxSets      \* bound: how often a callback or a window is set

ASSUME NoneAssumption == None \notin Frames \cup Callbacks \cup Windows \cup Threads
ASSUME AppAssumption == App \in Threads
ASSUME CallsAssumption == MaxStarts \in Nat /\ MaxSets \in Nat

Capture == "capture"     \* the capture thread as a holder or sleeper
ASSUME CaptureAssumption == Capture \notin Threads \cup {None}

VARIABLES
  mIsRunning, mIsCapturing,  \* is the preview running, the capture thread in an inner loop?
  captureMutex,        \* who holds capture_mutex between two steps
  asleep,              \* who sleeps on capture_sync
  queue,               \* captureQueu
  pool,                \* frames in the pool or not allocated
  obj, refs,           \* mFrameCallbackObj, and the objects with a global reference
  window, windowRefs,  \* mCaptureWindow, and the references of each window
  hasty,               \* was a window ever changed while the capture thread used it?
  ppc, pframe,         \* the preview thread: its step and frame
  valid,               \* mCaptureThreadValid
  cpc, mode, cframe,   \* the capture thread: its step, its inner loop, its frame
  locked,              \* the window it has locked or is about to release
  tpc, call, arg,      \* each application thread: its step, its method, the new value
  starts, sets         \* how many calls were made

flagVars  == <<mIsRunning, mIsCapturing>>
syncVars  == <<captureMutex, asleep>>
queueVars == <<queue, pool>>
objVars   == <<obj, refs>>
winVars   == <<window, windowRefs, hasty>>
prevVars  == <<ppc, pframe>>
capVars   == <<cpc, mode, cframe, locked>>
callVars  == <<tpc, call, arg, starts, sets>>
captureVars ==
  <<flagVars, syncVars, queueVars, objVars, winVars, prevVars, valid, capVars, callVars>>

CaptureInit ==
  /\ mIsRunning = FALSE /\ mIsCapturing = FALSE /\ captureMutex = None /\ asleep = {}
  /\ queue = None /\ pool = Frames
  /\ obj = None /\ refs = {}
  /\ window = None /\ windowRefs = [w \in Windows |-> 0] /\ hasty = FALSE
  /\ ppc = "none" /\ pframe = None /\ valid = FALSE
  /\ cpc = "none" /\ mode = "idle" /\ cframe = None /\ locked = None
  /\ tpc = [t \in Threads |-> "idle"] /\ call = [t \in Threads |-> "none"]
  /\ arg = [t \in Threads |-> None] /\ starts = 0 /\ sets = 0

-----------------------------------------------------------------------------
(* capture_sync and the frames.                                            *)

Broadcast == asleep' = {}

Signal ==
  IF asleep = {} THEN UNCHANGED asleep ELSE \E x \in asleep : asleep' = asleep \ {x}

\* recycle_frame: to the pool, or freed when that is full.
Recycled(f) == IF f = None THEN pool ELSE pool \cup {f}

\* ANativeWindow_release(w), if w is not NULL.
Released(w) ==
  [v \in Windows |-> IF v = w /\ windowRefs[v] > 0 THEN windowRefs[v] - 1 ELSE windowRefs[v]]

\* pthread_cond_wait() may return without a reason.
SpuriousWake ==
  /\ \E x \in asleep : asleep' = asleep \ {x}
  /\ UNCHANGED <<flagVars, captureMutex, queueVars, objVars, winVars, prevVars, valid, capVars,
                 callVars>>

-----------------------------------------------------------------------------
(* The preview thread (do_preview).                                        *)

previewRest == <<flagVars, captureMutex, objVars, winVars, callVars>>

\* uvc_start_streaming_bandwidth() or pthread_create() may fail.
CreateCaptureThread ==
  /\ ppc = "start"
  /\ \/ /\ ppc' = "setValid" /\ cpc' = "start"
     \/ /\ ppc' \in {"loop", "end"} /\ UNCHANGED cpc
  /\ UNCHANGED <<previewRest, asleep, queueVars, pframe, valid, mode, cframe, locked>>

SetValid ==
  /\ ppc = "setValid"
  /\ valid' = TRUE /\ ppc' = "loop"
  /\ UNCHANGED <<previewRest, asleep, queueVars, pframe, capVars>>

\* One turn of the loop with a frame that has been drawn.
PreviewFrame ==
  /\ ppc = "loop" /\ mIsRunning
  /\ pool # {}
  /\ pframe' = (CHOOSE f \in pool : TRUE) /\ pool' = pool \ {pframe'}
  /\ ppc' = "add"
  /\ UNCHANGED <<previewRest, asleep, queue, valid, capVars>>

\* A frame that comes after the preview was stopped is neither queued nor recycled.
AddCaptureFrame ==
  /\ ppc = "add" /\ captureMutex = None
  /\ IF mIsRunning
       THEN queue' = pframe /\ pool' = Recycled(queue) /\ Broadcast
       ELSE UNCHANGED <<queue, pool, asleep>>
  /\ pframe' = None /\ ppc' = "loop"
  /\ UNCHANGED <<previewRest, valid, capVars>>

\* pthread_cond_signal(&capture_sync), then the stream is stopped.
EndPreview ==
  /\ ppc = "loop" /\ ~mIsRunning
  /\ Signal /\ ppc' = "end"
  /\ UNCHANGED <<previewRest, queueVars, pframe, valid, capVars>>

-----------------------------------------------------------------------------
(* The capture thread.                                                     *)

captureRest == <<mIsRunning, objVars, prevVars, valid, callVars>>

\* do_capture begins with clearCaptureFrame().
StartCapture ==
  /\ cpc = "start" /\ captureMutex = None
  /\ pool' = Recycled(queue) /\ queue' = None /\ cpc' = "loop"
  /\ UNCHANGED <<captureRest, mIsCapturing, syncVars, winVars, mode, cframe, locked>>

\* The outer loop.
TestRunning ==
  /\ cpc = "loop"
  /\ cpc' = IF mIsRunning THEN "choose" ELSE "ended"
  /\ mIsCapturing' = (mIsRunning \/ mIsCapturing)
  /\ UNCHANGED <<captureRest, syncVars, queueVars, winVars, mode, cframe, locked>>

ChooseLoop ==
  /\ cpc = "choose"
  /\ mode' = IF window # None THEN "surface" ELSE "idle"
  /\ cpc' = "test"
  /\ hasty' = (hasty \/ (window # None /\ \E t \in Threads : tpc[t] = "store"))
  /\ UNCHANGED <<captureRest, mIsCapturing, syncVars, queueVars, window, windowRefs, cframe,
                 locked>>

\* The condition of both inner loops.
TestCapturing ==
  /\ cpc = "test"
  /\ cpc' = IF mIsRunning /\ mIsCapturing THEN "wait"
            ELSE IF mode = "surface" THEN "leave" ELSE "notify"
  /\ UNCHANGED <<captureRest, mIsCapturing, syncVars, queueVars, winVars, mode, cframe, locked>>

\* waitCaptureFrame: one wait, without a limit, if the queue is empty.
WaitCaptureFrame ==
  /\ cpc = "wait" /\ captureMutex = None /\ queue = None
  /\ asleep' = asleep \cup {Capture} /\ cpc' = "asleep"
  /\ UNCHANGED <<captureRest, mIsCapturing, captureMutex, queueVars, winVars, mode, cframe, locked>>

\* Mutant: captureQueu is not cleared.
TakeCaptureFrame_Kept ==
  /\ cpc = "asleep" \/ (cpc = "wait" /\ queue # None)
  /\ Capture \notin asleep /\ captureMutex = None
  /\ cframe' = IF mIsRunning THEN queue ELSE None
  /\ cpc' = IF mode = "surface" /\ cframe' # None THEN "draw" ELSE "callback"
  /\ UNCHANGED <<captureRest, mIsCapturing, syncVars, queueVars, winVars, mode, locked>>

TakeCaptureFrame ==
  /\ cpc = "asleep" \/ (cpc = "wait" /\ queue # None)
  /\ Capture \notin asleep /\ captureMutex = None
  /\ cframe' = IF mIsRunning THEN queue ELSE None
  /\ queue' = IF mIsRunning THEN None ELSE queue
  /\ cpc' = IF mode = "surface" /\ cframe' # None THEN "draw"
            ELSE IF mode = "surface" THEN "test" ELSE "callback"
  /\ UNCHANGED <<captureRest, mIsCapturing, syncVars, pool, winVars, mode, locked>>

\* copyToSurface(converted, &mCaptureWindow), without capture_mutex: the window
\* is locked, ...
DrawCaptureFrame ==
  /\ cpc = "draw"
  /\ IF mIsCapturing /\ window # None
       THEN cpc' = "post" /\ locked' = window
       ELSE cpc' = "callback" /\ UNCHANGED locked
  /\ UNCHANGED <<captureRest, mIsCapturing, syncVars, queueVars, winVars, mode, cframe>>

\* ... and posted.
PostCaptureFrame ==
  /\ cpc = "post"
  /\ cpc' = "callback" /\ locked' = None
  /\ UNCHANGED <<captureRest, mIsCapturing, syncVars, queueVars, winVars, mode, cframe>>

\* Mutant: the callback is made without capture_mutex.
CaptureCallback_Unlocked ==
  /\ cpc = "callback" /\ captureMutex = None
  /\ IF cframe # None /\ obj # None
       THEN cpc' = "onFrame" /\ UNCHANGED <<pool, cframe>>
       ELSE cpc' = "test" /\ pool' = Recycled(cframe) /\ cframe' = None
  /\ UNCHANGED <<captureRest, mIsCapturing, syncVars, queue, winVars, mode, locked>>

\* do_capture_callback: onFrame() is called with capture_mutex held.
CaptureCallback ==
  /\ cpc = "callback" /\ captureMutex = None
  /\ IF cframe # None /\ obj # None
       THEN cpc' = "onFrame" /\ captureMutex' = Capture /\ UNCHANGED <<pool, cframe>>
       ELSE cpc' = "test" /\ pool' = Recycled(cframe) /\ cframe' = None /\ UNCHANGED captureMutex
  /\ UNCHANGED <<captureRest, mIsCapturing, asleep, queue, winVars, mode, locked>>

OnFrameReturns ==
  /\ cpc = "onFrame"
  /\ pool' = Recycled(cframe) /\ cframe' = None
  /\ captureMutex' = None /\ cpc' = "test"
  /\ UNCHANGED <<captureRest, mIsCapturing, asleep, queue, winVars, mode, locked>>

\* The end of do_capture_surface, without capture_mutex: the window is released, ...
ReleaseWindow ==
  /\ cpc = "leave"
  /\ IF window # None
       THEN cpc' = "forget" /\ locked' = window
            /\ windowRefs' = Released(window)
       ELSE cpc' = "notify" /\ UNCHANGED <<locked, windowRefs>>
  /\ UNCHANGED <<captureRest, mIsCapturing, syncVars, queueVars, window, hasty, mode, cframe>>

\* ... and forgotten.
ForgetWindow ==
  /\ cpc = "forget"
  /\ window' = None /\ locked' = None /\ cpc' = "notify"
  /\ UNCHANGED <<captureRest, mIsCapturing, syncVars, queueVars, windowRefs, hasty, mode, cframe>>

NotifyCapture ==
  /\ cpc = "notify"
  /\ Broadcast /\ mode' = "idle" /\ cpc' = "loop"
  /\ UNCHANGED <<captureRest, mIsCapturing, captureMutex, queueVars, winVars, cframe, locked>>

-----------------------------------------------------------------------------
(* setFrameCallback() and setCaptureDisplay().                             *)

setterRest == <<queueVars, prevVars, valid, capVars, starts>>

Goto(t, s) == tpc' = [tpc EXCEPT ![t] = s]

\* A thread comes with a new global reference, or a new window of its own.
CallSetter(t) ==
  /\ tpc[t] = "idle" /\ sets < MaxSets
  /\ sets' = sets + 1
  /\ \/ \E x \in (Callbacks \ refs) \cup {None} :
          /\ call' = [call EXCEPT ![t] = "setFrameCallback"] /\ arg' = [arg EXCEPT ![t] = x]
          /\ refs' = IF x = None THEN refs ELSE refs \cup {x}
          /\ UNCHANGED windowRefs
     \/ \E w \in {w \in Windows : windowRefs[w] = 0 /\ w # window} \cup {None} :
          /\ call' = [call EXCEPT ![t] = "setCaptureDisplay"] /\ arg' = [arg EXCEPT ![t] = w]
          /\ windowRefs' = IF w = None THEN windowRefs ELSE [windowRefs EXCEPT ![w] = 1]
          /\ UNCHANGED refs
  /\ Goto(t, "lock")
  /\ UNCHANGED <<setterRest, flagVars, syncVars, obj, window, hasty>>

\* Is there something of this kind to wait for?
Assigned(t) == IF call[t] = "setCaptureDisplay" THEN window # None ELSE obj # None

LockSetter(t) ==
  /\ tpc[t] = "lock" /\ captureMutex = None
  /\ captureMutex' = t
  /\ IF mIsRunning /\ mIsCapturing
       THEN /\ mIsCapturing' = FALSE
            /\ Goto(t, IF Assigned(t) THEN "signal" ELSE "set")
       ELSE Goto(t, "set") /\ UNCHANGED mIsCapturing
  /\ UNCHANGED <<setterRest, mIsRunning, asleep, objVars, winVars, call, arg, sets>>

SignalSetter(t) ==
  /\ tpc[t] = "signal"
  /\ Signal /\ Goto(t, "sleep")
  /\ UNCHANGED <<setterRest, flagVars, captureMutex, objVars, winVars, call, arg, sets>>

SleepSetter(t) ==
  /\ tpc[t] = "sleep"
  /\ asleep' = asleep \cup {t} /\ captureMutex' = None /\ Goto(t, "wake")
  /\ UNCHANGED <<setterRest, flagVars, objVars, winVars, call, arg, sets>>

WakeSetter(t) ==
  /\ tpc[t] = "wake" /\ t \notin asleep /\ captureMutex = None
  /\ captureMutex' = t /\ Goto(t, "set")
  /\ UNCHANGED <<setterRest, flagVars, asleep, objVars, winVars, call, arg, sets>>

\* stopPreview() of the Java class begins with setFrameCallback(null, 0).
Done(t) == Goto(t, IF call[t] = "stopPreview" THEN "stop" ELSE "idle") /\ captureMutex' = None

\* The old reference is deleted; the new one also, if its class has no onFrame().
SetCallback(t) ==
  /\ tpc[t] = "set" /\ call[t] # "setCaptureDisplay"
  /\ IF obj = arg[t] THEN UNCHANGED objVars
     ELSE \/ obj' = arg[t] /\ refs' = refs \ {obj}
          \/ obj' = None /\ refs' = refs \ {obj, arg[t]}
  /\ Done(t)
  /\ UNCHANGED <<setterRest, flagVars, asleep, winVars, call, arg, sets>>

\* Is the capture thread between choosing the window and giving it back?
InSurfaceLoop == mode = "surface"

\* Mutant: mCaptureWindow is not released.
ReplaceWindow_Leaks(t) ==
  /\ tpc[t] = "set" /\ call[t] = "setCaptureDisplay"
  /\ IF window = arg[t] THEN Done(t) ELSE Goto(t, "store") /\ UNCHANGED captureMutex
  /\ hasty' = (hasty \/ (window # arg[t] /\ InSurfaceLoop))
  /\ UNCHANGED <<setterRest, flagVars, asleep, objVars, window, windowRefs, call, arg, sets>>

\* The current window is released, ...
ReplaceWindow(t) ==
  /\ tpc[t] = "set" /\ call[t] = "setCaptureDisplay"
  /\ IF window = arg[t] THEN Done(t) /\ UNCHANGED windowRefs
     ELSE /\ Goto(t, "store") /\ UNCHANGED captureMutex
          /\ windowRefs' = Released(window)
  /\ hasty' = (hasty \/ (window # arg[t] /\ InSurfaceLoop))
  /\ UNCHANGED <<setterRest, flagVars, asleep, objVars, window, call, arg, sets>>

\* Mutant: the early way out forgets the mutex.
StoreWindow_StaysLocked(t) ==
  /\ tpc[t] = "store"
  /\ \/ window' = arg[t] /\ Done(t) /\ UNCHANGED windowRefs
     \/ /\ arg[t] # None
        /\ window' = None /\ windowRefs' = Released(arg[t])
        /\ Goto(t, "idle") /\ UNCHANGED captureMutex
  /\ UNCHANGED <<setterRest, flagVars, asleep, objVars, hasty, call, arg, sets>>

\* ... and the new one stored, unless its format does not fit.
StoreWindow(t) ==
  /\ tpc[t] = "store"
  /\ \/ window' = arg[t] /\ UNCHANGED windowRefs
     \/ /\ arg[t] # None
        /\ window' = None /\ windowRefs' = Released(arg[t])
  /\ Done(t)
  /\ UNCHANGED <<setterRest, flagVars, asleep, objVars, hasty, call, arg, sets>>

-----------------------------------------------------------------------------
(* startPreview() and stopPreview().                                       *)

\* Only when no thread of an earlier preview is left.
StartPreview ==
  /\ tpc[App] = "idle" /\ ~mIsRunning /\ starts < MaxStarts
  /\ ppc = "none" /\ cpc \in {"none", "ended"}
  /\ mIsRunning' = TRUE /\ ppc' = "start" /\ starts' = starts + 1
  /\ UNCHANGED <<mIsCapturing, syncVars, queueVars, objVars, winVars, pframe, valid, capVars,
                 tpc, call, arg, sets>>

CallStop ==
  /\ tpc[App] = "idle" /\ mIsRunning
  /\ call' = [call EXCEPT ![App] = "stopPreview"] /\ arg' = [arg EXCEPT ![App] = None]
  /\ Goto(App, "lock")
  /\ UNCHANGED <<flagVars, syncVars, queueVars, objVars, winVars, prevVars, valid, capVars,
                 starts, sets>>

stopRest == <<mIsCapturing, objVars, hasty, pframe, call, arg, starts, sets>>

ClearIsRunning ==
  /\ tpc[App] = "stop"
  /\ mIsRunning' = FALSE /\ Goto(App, "signalStop")
  /\ UNCHANGED <<stopRest, syncVars, queueVars, window, windowRefs, ppc, valid, capVars>>

SignalStop ==
  /\ tpc[App] = "signalStop"
  /\ Signal /\ Goto(App, "exchange")
  /\ UNCHANGED <<stopRest, mIsRunning, captureMutex, queueVars, window, windowRefs, ppc, valid,
                 capVars>>

ExchangeValid ==
  /\ tpc[App] = "exchange"
  /\ valid' = FALSE /\ Goto(App, IF valid THEN "joinCapture" ELSE "joinPreview")
  /\ UNCHANGED <<stopRest, mIsRunning, syncVars, queueVars, window, windowRefs, ppc, capVars>>

JoinCaptureThread ==
  /\ tpc[App] = "joinCapture" /\ cpc = "ended"
  /\ cpc' = "none" /\ Goto(App, "joinPreview")
  /\ UNCHANGED <<stopRest, mIsRunning, syncVars, queueVars, window, windowRefs, ppc, valid, mode,
                 cframe, locked>>

JoinPreviewThread ==
  /\ tpc[App] = "joinPreview" /\ ppc = "end"
  /\ ppc' = "none" /\ Goto(App, "clearFrame")
  /\ UNCHANGED <<stopRest, mIsRunning, syncVars, queueVars, window, windowRefs, valid, capVars>>

ClearCaptureFrame ==
  /\ tpc[App] = "clearFrame" /\ captureMutex = None
  /\ pool' = Recycled(queue) /\ queue' = None /\ Goto(App, "clearWindow")
  /\ UNCHANGED <<stopRest, mIsRunning, syncVars, window, windowRefs, ppc, valid, capVars>>

ClearCaptureWindow ==
  /\ tpc[App] = "clearWindow" /\ captureMutex = None
  /\ window' = None
  /\ windowRefs' = Released(window)
  /\ hasty' = (hasty \/ (window # None /\ InSurfaceLoop))
  /\ Goto(App, "idle")
  /\ UNCHANGED <<mIsCapturing, objVars, pframe, call, arg, starts, sets, mIsRunning, syncVars,
                 queueVars, ppc, valid, capVars>>

-----------------------------------------------------------------------------
PreviewStep == CreateCaptureThread \/ SetValid \/ PreviewFrame \/ AddCaptureFrame \/ EndPreview

CaptureStep ==
  \/ StartCapture \/ TestRunning \/ ChooseLoop \/ TestCapturing
  \/ WaitCaptureFrame \/ TakeCaptureFrame \/ DrawCaptureFrame \/ PostCaptureFrame
  \/ CaptureCallback \/ OnFrameReturns
  \/ ReleaseWindow \/ ForgetWindow \/ NotifyCapture

Setter(t) ==
  \/ LockSetter(t) \/ SignalSetter(t) \/ SleepSetter(t) \/ WakeSetter(t)
  \/ SetCallback(t) \/ ReplaceWindow(t) \/ StoreWindow(t)

Stopper ==
  \/ ClearIsRunning \/ SignalStop \/ ExchangeValid \/ JoinCaptureThread
  \/ JoinPreviewThread \/ ClearCaptureFrame \/ ClearCaptureWindow

CaptureNext ==
  \/ PreviewStep \/ CaptureStep \/ SpuriousWake
  \/ StartPreview \/ CallStop \/ Stopper
  \/ \E t \in Threads : CallSetter(t) \/ Setter(t)

CaptureSpec == CaptureInit /\ [][CaptureNext]_captureVars

\* Every thread that can go on does; the camera goes on delivering frames, and
\* onFrame() returns.
CaptureFairSpec ==
  /\ CaptureSpec
  /\ WF_captureVars(PreviewStep) /\ WF_captureVars(CaptureStep) /\ WF_captureVars(Stopper)
  /\ \A t \in Threads : WF_captureVars(Setter(t))

-----------------------------------------------------------------------------
CallSteps ==
  {"idle", "lock", "signal", "sleep", "wake", "set", "store", "stop", "signalStop", "exchange",
   "joinCapture", "joinPreview", "clearFrame", "clearWindow"}

CaptureTypeOK ==
  /\ mIsRunning \in BOOLEAN /\ mIsCapturing \in BOOLEAN /\ valid \in BOOLEAN /\ hasty \in BOOLEAN
  /\ captureMutex \in Threads \cup {None, Capture} /\ asleep \subseteq Threads \cup {Capture}
  /\ {queue, pframe, cframe} \subseteq Frames \cup {None} /\ pool \subseteq Frames
  /\ obj \in Callbacks \cup {None} /\ refs \subseteq Callbacks
  /\ {window, locked} \subseteq Windows \cup {None} /\ windowRefs \in [Windows -> Nat]
  /\ ppc \in {"none", "start", "setValid", "loop", "add", "end"}
  /\ cpc \in {"none", "start", "loop", "choose", "test", "wait", "asleep", "draw", "post",
              "callback", "onFrame", "leave", "forget", "notify", "ended"}
  /\ mode \in {"idle", "surface"}
  /\ tpc \in [Threads -> CallSteps]
  /\ call \in [Threads -> {"none", "setFrameCallback", "setCaptureDisplay", "stopPreview"}]
  /\ arg \in [Threads -> Callbacks \cup Windows \cup {None}]
  /\ starts \in 0 .. MaxStarts /\ sets \in 0 .. MaxSets

\* onFrame() is called on an object whose global reference exists: although
\* setFrameCallback() goes on whoever woke it, capture_mutex keeps it from
\* deleting the object while the capture thread is in the callback.
OnFrameHasCallback == cpc = "onFrame" => obj \in refs

\* A frame is in one place only: the preview thread's, the queue, the capture
\* thread's or the pool; so nobody writes to a frame another still reads
\* (addCaptureFrame, waitCaptureFrame, clearCaptureFrame, do_capture_callback).
FramesOnce ==
  /\ {queue, pframe, cframe} \cap pool = {}
  /\ queue # None => queue \notin {pframe, cframe}
  /\ pframe # None => pframe # cframe

\* Does the preview, or a call about to store or drop it, own a reference of w?
Owns(w) ==
  window = w /\ cpc # "forget" /\ \A t \in Threads : tpc[t] # "store"

Brings(t, w) ==
  /\ call[t] = "setCaptureDisplay" /\ arg[t] = w
  /\ tpc[t] \in {"lock", "signal", "sleep", "wake", "set", "store"}

\* As long as no window was changed while the capture thread used one, a capture
\* window has the references of its holders: it is neither leaked nor released
\* twice, although the capture thread releases it without capture_mutex.
WindowRefsExact ==
  ~hasty => \A w \in Windows :
    windowRefs[w] = (IF Owns(w) THEN 1 ELSE 0) + Cardinality({t \in Threads : Brings(t, w)})

\* The capture thread went to sleep after both signals of stopPreview().
MissedStop == ~mIsRunning /\ cpc = "asleep" /\ Capture \in asleep

\* stopPreview() returns, unless the capture thread sleeps for ever.
StopPreviewReturns == tpc[App] = "stop" ~> (tpc[App] = "idle" \/ MissedStop)
=============================================================================
