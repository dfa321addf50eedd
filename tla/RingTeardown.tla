----------------------------- MODULE RingTeardown -----------------------------
(***************************************************************************)
(* Who may still touch a FrameBufferRing when UVCPreview deletes it        *)
(* (UVCPreview.cpp: setFrameBufferRing, allocateRingBuffer,                *)
(* destroyRingBuffer, clearRingBuffer, startPreview, stopPreview).         *)
(*                                                                         *)
(* Four threads: the application's (one method at a time, by contract),    *)
(* libuvc's callback thread, the conversion thread and the preview thread. *)
(* Each access to an atomic both sides use is an action of its own.  A     *)
(* thread is "using" a ring from the moment it holds a pointer it will     *)
(* follow until it drops the pointer.                                      *)
(***************************************************************************)
EXTENDS Naturals, FiniteSets

CONSTANTS Rings,           \* FrameBufferRing objects
          Null,            \* no object
          Calls,           \* the methods the application uses ("reallocateRingBuffer" is
                   \* allocateRingBuffer() while the preview runs)
          MaxCalls,        \* bound: calls of the application
          MaxFrames,       \* MAX_FRAME, the length of the preview queue
          DrainMayTimeOut  \* can a callback last longer than the drain's 100 ms?

ASSUME NullAssumption == Null \notin Rings
ASSUME BoundAssumption == MaxCalls \in Nat /\ MaxFrames \in Nat
ASSUME DrainAssumption == DrainMayTimeOut \in BOOLEAN

VARIABLES
  mUseRingBuffer, mRingBufferInjected, mFrameBufferRing,
  mCallbacksInFlight, mIsRunning,
  mConversionThreadRunning, mConversionThreadValid,
  mPreviewWindow,          \* is there a surface?
  mSurfaceReady,
  previewFrames,           \* length of the preview thread's queue
  heap,                    \* "unused", "live" or "deleted", for each ring
  deletes,                 \* how often the preview deleted each ring
  destroyed,               \* rings their owner destroyed
  handles,                 \* rings the application has a handle to
  streaming,               \* does libuvc deliver frames?
  cb, cbRing,              \* the callback's step and ring
  conv, convRing,          \* the conversion thread's
  pv, pvRing,              \* the preview thread's
  app, arg, oldRing, calls \* the application's step, argument and local, calls made

flagVars   == <<mUseRingBuffer, mRingBufferInjected, mFrameBufferRing>>
heapVars   == <<heap, deletes, destroyed, handles>>
cbVars     == <<cb, cbRing, mCallbacksInFlight, streaming>>
convVars   == <<conv, convRing, mConversionThreadRunning, mConversionThreadValid>>
pvVars     == <<pv, pvRing, previewFrames>>
appVars    == <<app, arg, oldRing, calls>>
windowVars == <<mIsRunning, mPreviewWindow, mSurfaceReady>>
vars == <<flagVars, heapVars, cbVars, convVars, pvVars, appVars, windowVars>>

Init ==
  /\ mUseRingBuffer = FALSE /\ mRingBufferInjected = FALSE /\ mFrameBufferRing = Null
  /\ mCallbacksInFlight = 0 /\ mIsRunning = FALSE
  /\ mConversionThreadRunning = FALSE /\ mConversionThreadValid = FALSE
  /\ mPreviewWindow = FALSE /\ mSurfaceReady = FALSE /\ previewFrames = 0
  /\ heap = [r \in Rings |-> "unused"] /\ deletes = [r \in Rings |-> 0]
  /\ destroyed = {} /\ handles = {}
  /\ streaming = FALSE
  /\ cb = "idle" /\ cbRing = Null
  /\ conv = "none" /\ convRing = Null
  /\ pv = "none" /\ pvRing = Null
  /\ app = "idle" /\ arg = Null /\ oldRing = Null /\ calls = 0

-----------------------------------------------------------------------------
(* Plausible mistakes in this code, each of which some property rejects.    *)

\* Delete without waiting for the callbacks.
Drain_Skipped ==
  /\ app = "drain"
  /\ app' = "exchange"
  /\ UNCHANGED <<arg, oldRing, calls, flagVars, heapVars, cbVars, convVars, pvVars, windowVars>>

StopConversionThread_FlagKept ==
  /\ app \in {"stopConv", "abort"}
  /\ app' = IF app = "stopConv" THEN "joinConv" ELSE "abortJoin"
  /\ UNCHANGED <<convVars, arg, oldRing, calls, flagVars, heapVars, cbVars, pvVars, windowVars>>

JoinPreviewThread_Skipped ==
  /\ app = "joinPreview"
  /\ app' = "finish"
  /\ UNCHANGED <<arg, oldRing, calls, flagVars, heapVars, cbVars, convVars, pvVars, windowVars>>

\* The pointer to a ring about to be deleted is kept.
ForgetRing_Kept ==
  /\ app = "destroy"
  /\ oldRing' = IF mRingBufferInjected THEN Null ELSE mFrameBufferRing
  /\ app' = "destroyOld"
  /\ UNCHANGED <<flagVars, arg, calls, heapVars, cbVars, convVars, pvVars, windowVars>>

\* Every ring is taken for an injected one.
DestroyOld_Leaks ==
  /\ app = "destroyOld"
  /\ oldRing' = Null
  /\ app' = "ownRing"
  /\ UNCHANGED <<heapVars, arg, calls, flagVars, cbVars, convVars, pvVars, windowVars>>

-----------------------------------------------------------------------------
(* The USB callback                                                         *)

\* A frame that passes the validation, isRunning() included.
FrameArrives ==
  /\ cb = "idle" /\ streaming /\ mIsRunning
  /\ cb' = "running"
  /\ UNCHANGED <<cbRing, mCallbacksInFlight, streaming, flagVars, heapVars, convVars, pvVars,
                 appVars, windowVars>>

LoadUse ==
  /\ cb = "running"
  /\ cb' = IF mUseRingBuffer THEN "enter" ELSE "legacy"
  /\ UNCHANGED <<cbRing, mCallbacksInFlight, streaming, flagVars, heapVars, convVars, pvVars,
                 appVars, windowVars>>

\* addPreviewFrame(), or the frame is dropped for want of a surface.
AddPreviewFrame ==
  /\ cb = "legacy"
  /\ previewFrames' = IF mSurfaceReady /\ mIsRunning /\ previewFrames < MaxFrames
                      THEN previewFrames + 1 ELSE previewFrames
  /\ cb' = "idle"
  /\ UNCHANGED <<cbRing, mCallbacksInFlight, streaming, flagVars, heapVars, convVars, pv, pvRing,
                 appVars, windowVars>>

EnterGuard ==
  /\ cb = "enter"
  /\ mCallbacksInFlight' = mCallbacksInFlight + 1
  /\ cb' = "load"
  /\ UNCHANGED <<cbRing, streaming, flagVars, heapVars, convVars, pvVars, appVars, windowVars>>

LoadRing ==
  /\ cb = "load"
  /\ cbRing' = mFrameBufferRing
  /\ cb' = "check"
  /\ UNCHANGED <<mCallbacksInFlight, streaming, flagVars, heapVars, convVars, pvVars, appVars, windowVars>>

CheckInjected ==
  /\ cb = "check"
  /\ cb' = IF mRingBufferInjected /\ cbRing # Null THEN "using" ELSE "leave"
  /\ UNCHANGED <<cbRing, mCallbacksInFlight, streaming, flagVars, heapVars, convVars, pvVars,
                 appVars, windowVars>>

EnqueueDone ==
  /\ cb = "using"
  /\ cb' = "leave"
  /\ UNCHANGED <<cbRing, mCallbacksInFlight, streaming, flagVars, heapVars, convVars, pvVars,
                 appVars, windowVars>>

LeaveGuard ==
  /\ cb = "leave"
  /\ mCallbacksInFlight' = mCallbacksInFlight - 1
  /\ cbRing' = Null
  /\ cb' = "idle"
  /\ UNCHANGED <<streaming, flagVars, heapVars, convVars, pvVars, appVars, windowVars>>

CallbackNext ==
  \/ FrameArrives \/ LoadUse \/ AddPreviewFrame
  \/ EnterGuard \/ LoadRing \/ CheckInjected \/ EnqueueDone \/ LeaveGuard

-----------------------------------------------------------------------------
(* The conversion thread: the ring is loaded once, when the thread starts   *)

ConversionLoad ==
  /\ conv = "start"
  /\ convRing' = mFrameBufferRing
  /\ conv' = IF mFrameBufferRing = Null THEN "none" ELSE "check"
  /\ UNCHANGED <<mConversionThreadRunning, mConversionThreadValid, flagVars, heapVars, cbVars, pvVars,
                 appVars, windowVars>>

ConversionCheck ==
  /\ conv = "check"
  /\ conv' = IF mConversionThreadRunning THEN "using" ELSE "none"
  /\ convRing' = IF mConversionThreadRunning THEN convRing ELSE Null
  /\ UNCHANGED <<mConversionThreadRunning, mConversionThreadValid, flagVars, heapVars, cbVars, pvVars,
                 appVars, windowVars>>

\* Dequeue a frame and convert it, or wait for a signal (at most 100 ms).
ConversionTurn ==
  /\ conv = "using"
  /\ conv' = "check"
  /\ UNCHANGED <<convRing, mConversionThreadRunning, mConversionThreadValid, flagVars, heapVars, cbVars,
                 pvVars, appVars, windowVars>>

ConversionNext == ConversionLoad \/ ConversionCheck \/ ConversionTurn

-----------------------------------------------------------------------------
(* The preview thread                                                       *)

\* prepare_preview() and uvc_start_streaming_bandwidth(), which may fail.
StartStreaming ==
  /\ pv = "start"
  /\ \/ pv' = "loop" /\ streaming' = TRUE /\ previewFrames' = 0
     \/ pv' = "none" /\ UNCHANGED <<streaming, previewFrames>>
  /\ UNCHANGED <<pvRing, cb, cbRing, mCallbacksInFlight, flagVars, heapVars, convVars, appVars, windowVars>>

\* waitPreviewFrame(), and where the frame goes.
TakePreviewFrame ==
  /\ pv = "loop" /\ mIsRunning /\ previewFrames > 0
  /\ previewFrames' = previewFrames - 1
  /\ pv' = IF mUseRingBuffer THEN "load" ELSE "loop"
  /\ UNCHANGED <<pvRing, flagVars, heapVars, cbVars, convVars, appVars, windowVars>>

WriteFrameToRingBuffer ==
  /\ pv = "load"
  /\ pvRing' = mFrameBufferRing
  /\ pv' = IF mFrameBufferRing = Null THEN "loop" ELSE "using"
  /\ UNCHANGED <<previewFrames, flagVars, heapVars, cbVars, convVars, appVars, windowVars>>

WriteDone ==
  /\ pv = "using"
  /\ pvRing' = Null
  /\ pv' = "loop"
  /\ UNCHANGED <<previewFrames, flagVars, heapVars, cbVars, convVars, appVars, windowVars>>

\* uvc_stop_streaming() joins the callback's thread.
StopStreaming ==
  /\ pv = "loop" /\ ~mIsRunning
  /\ cb = "idle"
  /\ streaming' = FALSE
  /\ pv' = "none"
  /\ UNCHANGED <<pvRing, previewFrames, cb, cbRing, mCallbacksInFlight, flagVars, heapVars, convVars,
                 appVars, windowVars>>

PreviewNext == StartStreaming \/ TakePreviewFrame \/ WriteFrameToRingBuffer \/ WriteDone \/ StopStreaming

-----------------------------------------------------------------------------
(* The application: handles and flags                                       *)

Call(method) ==
  /\ app = "idle" /\ method \in Calls /\ calls < MaxCalls
  /\ calls' = calls + 1

Delete(r) ==
  /\ heap' = [heap EXCEPT ![r] = "deleted"]
  /\ deletes' = [deletes EXCEPT ![r] = @ + 1]
  /\ UNCHANGED <<destroyed, handles>>

\* Create a ring; whether the application gets a handle to it.
New(r, shared) ==
  /\ heap[r] = "unused"
  /\ heap' = [heap EXCEPT ![r] = "live"]
  /\ handles' = IF shared THEN handles \cup {r} ELSE handles
  /\ UNCHANGED <<deletes, destroyed>>

NativeFrameBufferAllocate ==
  /\ Call("nativeFrameBufferAllocate")
  /\ \E r \in Rings : New(r, TRUE)
  /\ UNCHANGED <<app, arg, oldRing, flagVars, cbVars, convVars, pvVars, windowVars>>

\* By the contract not while the preview has the ring.  The handle knows nothing
\* of the preview: if stopPreview() has deleted the ring, freed memory is looked
\* at, and deleted again if its magic number still stands.
NativeFrameBufferDestroy ==
  /\ Call("nativeFrameBufferDestroy")
  /\ \E r \in handles :
       /\ r # mFrameBufferRing
       /\ handles' = handles \ {r}
       /\ heap' = [heap EXCEPT ![r] = "deleted"]
       /\ destroyed' = destroyed \cup {r}
  /\ UNCHANGED <<deletes, app, arg, oldRing, flagVars, cbVars, convVars, pvVars, windowVars>>

SetPreviewDisplay ==
  /\ Call("setPreviewDisplay")
  /\ mPreviewWindow' = TRUE /\ mSurfaceReady' = TRUE
  /\ previewFrames' = IF mPreviewWindow THEN previewFrames ELSE 0
  /\ UNCHANGED <<mIsRunning, pv, pvRing, app, arg, oldRing, flagVars, heapVars, cbVars, convVars>>

SetUseRingBuffer ==
  /\ Call("setUseRingBuffer")
  /\ \E use \in BOOLEAN :
       /\ use => mFrameBufferRing # Null
       /\ mUseRingBuffer' = use
  /\ UNCHANGED <<mRingBufferInjected, mFrameBufferRing, app, arg, oldRing, heapVars, cbVars, convVars,
                 pvVars, windowVars>>

-----------------------------------------------------------------------------
(* allocateRingBuffer() and destroyRingBuffer()                             *)

AllocateRingBuffer ==
  /\ Call(IF mIsRunning THEN "reallocateRingBuffer" ELSE "allocateRingBuffer")
  /\ ~(mRingBufferInjected /\ mFrameBufferRing # Null)
  /\ IF mFrameBufferRing # Null THEN Delete(mFrameBufferRing) ELSE UNCHANGED heapVars
  /\ app' = "allocate"
  /\ UNCHANGED <<arg, oldRing, flagVars, cbVars, convVars, pvVars, windowVars>>

StoreAllocated ==
  /\ app = "allocate"
  /\ \/ \E r \in Rings : New(r, FALSE) /\ mFrameBufferRing' = r /\ app' = "ownRing"
     \/ mFrameBufferRing' = Null /\ app' = "idle" /\ UNCHANGED heapVars    \* no memory
  /\ UNCHANGED <<mUseRingBuffer, mRingBufferInjected, arg, oldRing, calls, cbVars, convVars, pvVars,
                 windowVars>>

DestroyRingBuffer ==
  /\ Call("destroyRingBuffer")
  /\ mUseRingBuffer' = FALSE
  /\ app' = "destroy"
  /\ UNCHANGED <<mRingBufferInjected, mFrameBufferRing, arg, oldRing, heapVars, cbVars, convVars, pvVars,
                 windowVars>>

ForgetRing ==
  /\ app = "destroy"
  /\ oldRing' = IF mRingBufferInjected THEN Null ELSE mFrameBufferRing
  /\ mFrameBufferRing' = Null
  /\ app' = "destroyOld"
  /\ UNCHANGED <<mUseRingBuffer, mRingBufferInjected, arg, calls, heapVars, cbVars, convVars, pvVars,
                 windowVars>>

DestroyOld ==
  /\ app = "destroyOld"
  /\ IF oldRing # Null THEN Delete(oldRing) ELSE UNCHANGED heapVars
  /\ oldRing' = Null
  /\ app' = "ownRing"
  /\ UNCHANGED <<arg, calls, flagVars, cbVars, convVars, pvVars, windowVars>>

\* The last store of both methods.
ClearInjected ==
  /\ app = "ownRing"
  /\ mRingBufferInjected' = FALSE
  /\ app' = "idle"
  /\ UNCHANGED <<mUseRingBuffer, mFrameBufferRing, arg, oldRing, calls, heapVars, cbVars, convVars, pvVars,
                 windowVars>>

-----------------------------------------------------------------------------
(* setFrameBufferRing()                                                     *)

\* startConversionThread(); pthread_create() may fail.  (Its early return for a
\* thread that is already valid is never taken: see FlagsAgree.)
StartConversionThread(ok, failed) ==
  \/ /\ mConversionThreadValid' = TRUE /\ mConversionThreadRunning' = TRUE
     /\ conv' = "start"
     /\ app' = ok
     /\ UNCHANGED convRing
  \/ /\ app' = failed
     /\ mConversionThreadRunning' = FALSE
     /\ UNCHANGED <<conv, convRing, mConversionThreadValid>>

\* The handle of a ring that stopPreview() has deleted is not used again.
SetFrameBufferRing ==
  /\ Call("setFrameBufferRing")
  /\ \E r \in handles :
       /\ heap[r] = "live"
       /\ \/ mFrameBufferRing = r /\ app' = "setInjected" /\ UNCHANGED heapVars
          \/ /\ mFrameBufferRing # r /\ ~mConversionThreadRunning
             /\ IF mFrameBufferRing # Null /\ ~mRingBufferInjected
                THEN Delete(mFrameBufferRing) ELSE UNCHANGED heapVars
             /\ app' = "storeRing"
       /\ arg' = r
  /\ UNCHANGED <<oldRing, flagVars, cbVars, convVars, pvVars, windowVars>>

StoreRing ==
  /\ app = "storeRing"
  /\ mFrameBufferRing' = arg
  /\ app' = "setInjected"
  /\ UNCHANGED <<mUseRingBuffer, mRingBufferInjected, arg, oldRing, calls, heapVars, cbVars, convVars,
                 pvVars, windowVars>>

SetInjected ==
  /\ app = "setInjected"
  /\ mRingBufferInjected' = TRUE
  /\ app' = "setUse"
  /\ UNCHANGED <<mUseRingBuffer, mFrameBufferRing, arg, oldRing, calls, heapVars, cbVars, convVars, pvVars,
                 windowVars>>

SetUse ==
  /\ app = "setUse"
  /\ mUseRingBuffer' = TRUE
  /\ app' = "lateBinding"
  /\ UNCHANGED <<mRingBufferInjected, mFrameBufferRing, arg, oldRing, calls, heapVars, cbVars, convVars,
                 pvVars, windowVars>>

\* A preview that is already running gets its conversion thread now.
LateBinding ==
  /\ app = "lateBinding"
  /\ IF mIsRunning /\ ~mConversionThreadRunning
     THEN StartConversionThread("idle", "idle")
     ELSE app' = "idle" /\ UNCHANGED convVars
  /\ arg' = Null
  /\ UNCHANGED <<oldRing, calls, flagVars, heapVars, cbVars, pvVars, windowVars>>

-----------------------------------------------------------------------------
(* startPreview()                                                           *)

StartPreview ==
  /\ Call("startPreview")
  /\ ~mIsRunning
  /\ IF mUseRingBuffer /\ mFrameBufferRing # Null
     THEN StartConversionThread("create", "idle")
     ELSE app' = "create" /\ UNCHANGED convVars
  /\ UNCHANGED <<arg, oldRing, flagVars, heapVars, cbVars, pvVars, windowVars>>

CreatePreviewThread ==
  /\ app = "create"
  /\ \/ /\ mPreviewWindow \/ mUseRingBuffer
        /\ mIsRunning' = TRUE
        /\ pv' = "start"
        /\ app' = "idle"
     \/ /\ mPreviewWindow \/ mUseRingBuffer
        /\ app' = "abort"              \* pthread_create() failed
        /\ UNCHANGED <<pv, mIsRunning>>
     \/ /\ ~(mPreviewWindow \/ mUseRingBuffer)
        /\ app' = "idle"
        /\ UNCHANGED <<pv, mIsRunning>>
  /\ UNCHANGED <<mPreviewWindow, mSurfaceReady, pvRing, previewFrames, arg, oldRing, calls, flagVars,
                 heapVars, cbVars, convVars>>

-----------------------------------------------------------------------------
(* stopPreview(), and clearRingBuffer() in it                               *)

StopPreview ==
  /\ Call("stopPreview")
  /\ mIsRunning' = FALSE
  /\ app' = IF mIsRunning THEN "clear" ELSE "finish"
  /\ UNCHANGED <<mPreviewWindow, mSurfaceReady, arg, oldRing, flagVars, heapVars, cbVars, convVars, pvVars>>

ClearUse ==
  /\ app = "clear"
  /\ mUseRingBuffer' = FALSE
  /\ app' = IF mUseRingBuffer THEN "clearDrain" ELSE "clearFast"
  /\ UNCHANGED <<mRingBufferInjected, mFrameBufferRing, arg, oldRing, calls, heapVars, cbVars, convVars,
                 pvVars, windowVars>>

\* A ring that was not in use is deleted without draining.
ClearInjectedFlag ==
  /\ app \in {"clearDrain", "clearFast"}
  /\ mRingBufferInjected' = FALSE
  /\ app' = IF app = "clearDrain" THEN "drain" ELSE "exchange"
  /\ UNCHANGED <<mUseRingBuffer, mFrameBufferRing, arg, oldRing, calls, heapVars, cbVars, convVars, pvVars,
                 windowVars>>

Drain ==
  /\ app = "drain"
  /\ mCallbacksInFlight = 0 \/ DrainMayTimeOut
  /\ app' = "exchange"
  /\ UNCHANGED <<arg, oldRing, calls, flagVars, heapVars, cbVars, convVars, pvVars, windowVars>>

ExchangeRing ==
  /\ app = "exchange"
  /\ oldRing' = mFrameBufferRing
  /\ mFrameBufferRing' = Null
  /\ app' = "deleteOld"
  /\ UNCHANGED <<mUseRingBuffer, mRingBufferInjected, arg, calls, heapVars, cbVars, convVars, pvVars,
                 windowVars>>

DeleteOld ==
  /\ app = "deleteOld"
  /\ IF oldRing # Null THEN Delete(oldRing) ELSE UNCHANGED heapVars
  /\ oldRing' = Null
  /\ app' = "stopConv"
  /\ UNCHANGED <<arg, calls, flagVars, cbVars, convVars, pvVars, windowVars>>

\* stopConversionThread(), also when startPreview() could not make its thread.
StopConversionThread ==
  /\ app \in {"stopConv", "abort"}
  /\ mConversionThreadRunning' = FALSE
  /\ app' = IF app = "stopConv" THEN "joinConv" ELSE "abortJoin"
  /\ UNCHANGED <<conv, convRing, mConversionThreadValid, arg, oldRing, calls, flagVars, heapVars, cbVars,
                 pvVars, windowVars>>

JoinConversionThread ==
  /\ app \in {"joinConv", "abortJoin"}
  /\ mConversionThreadValid => conv = "none"
  /\ mConversionThreadValid' = FALSE
  /\ app' = IF app = "joinConv" THEN "joinPreview" ELSE "idle"
  /\ UNCHANGED <<conv, convRing, mConversionThreadRunning, arg, oldRing, calls, flagVars, heapVars, cbVars,
                 pvVars, windowVars>>

JoinPreviewThread ==
  /\ app = "joinPreview"
  /\ pv = "none"
  /\ app' = "finish"
  /\ UNCHANGED <<arg, oldRing, calls, flagVars, heapVars, cbVars, convVars, pvVars, windowVars>>

Finish ==
  /\ app = "finish"
  /\ previewFrames' = 0
  /\ mPreviewWindow' = FALSE
  /\ app' = "idle"
  /\ UNCHANGED <<mIsRunning, mSurfaceReady, pv, pvRing, arg, oldRing, calls, flagVars, heapVars, cbVars,
                 convVars>>

-----------------------------------------------------------------------------
AppCall ==
  \/ NativeFrameBufferAllocate \/ NativeFrameBufferDestroy \/ SetPreviewDisplay \/ SetUseRingBuffer
  \/ AllocateRingBuffer \/ DestroyRingBuffer \/ SetFrameBufferRing \/ StartPreview \/ StopPreview

AppStep ==
  \/ StoreAllocated \/ ForgetRing \/ DestroyOld \/ ClearInjected
  \/ StoreRing \/ SetInjected \/ SetUse \/ LateBinding \/ CreatePreviewThread
  \/ ClearUse \/ ClearInjectedFlag \/ Drain \/ ExchangeRing \/ DeleteOld
  \/ StopConversionThread \/ JoinConversionThread \/ JoinPreviewThread \/ Finish

Next == CallbackNext \/ ConversionNext \/ PreviewNext \/ AppCall \/ AppStep

\* Every thread is scheduled; only the application's next call is its own choice.
Fairness == WF_vars(CallbackNext) /\ WF_vars(ConversionNext) /\ WF_vars(PreviewNext) /\ WF_vars(AppStep)

Spec == Init /\ [][Next]_vars /\ Fairness

-----------------------------------------------------------------------------
FlagTypes ==
  /\ mUseRingBuffer \in BOOLEAN /\ mRingBufferInjected \in BOOLEAN
  /\ mIsRunning \in BOOLEAN /\ streaming \in BOOLEAN
  /\ mConversionThreadRunning \in BOOLEAN /\ mConversionThreadValid \in BOOLEAN
  /\ mPreviewWindow \in BOOLEAN /\ mSurfaceReady \in BOOLEAN

CountTypes == mCallbacksInFlight \in 0 .. 1 /\ previewFrames \in 0 .. MaxFrames

RingTypes ==
  /\ mFrameBufferRing \in Rings \cup {Null} /\ arg \in Rings \cup {Null} /\ oldRing \in Rings \cup {Null}
  /\ cbRing \in Rings \cup {Null} /\ convRing \in Rings \cup {Null} /\ pvRing \in Rings \cup {Null}
  /\ heap \in [Rings -> {"unused", "live", "deleted"}]
  /\ deletes \in [Rings -> Nat]
  /\ destroyed \subseteq Rings /\ handles \subseteq Rings

StepTypes ==
  /\ cb \in {"idle", "running", "legacy", "enter", "load", "check", "using", "leave"}
  /\ conv \in {"none", "start", "check", "using"}
  /\ pv \in {"none", "start", "loop", "load", "using"}
  /\ app \in {"idle", "allocate", "destroy", "destroyOld", "ownRing", "storeRing", "setInjected", "setUse",
              "lateBinding", "create", "abort", "abortJoin", "clear", "clearDrain", "clearFast", "drain",
              "exchange", "deleteOld", "stopConv", "joinConv", "joinPreview", "finish"}

TypeOK == FlagTypes /\ CountTypes /\ RingTypes /\ StepTypes

(* A USB callback never follows a pointer to a deleted ring: the flags keep *)
(* new callbacks out and the drain waits for the one inside.                *)
CallbackRingIsLive == cb = "using" => heap[cbRing] = "live"

(* The conversion thread never works on a deleted ring.                     *)
ConversionRingIsLive == conv = "using" => heap[convRing] = "live"

(* "UVCPreview does NOT take ownership": a ring stays alive while the        *)
(* application has its handle.  The code does not keep this (README 7).     *)
HandlesStayLive == \A r \in handles : heap[r] = "live"

\* Who deletes which ring in a step.
DeletesAreOrdered ==
  \A r \in Rings :
    /\ deletes'[r] # deletes[r] => heap[r] = "live" /\ (r \in handles => app = "deleteOld")
    /\ r \in destroyed' \ destroyed => heap[r] = "live" \/ deletes[r] = 1

(* The preview deletes only rings that are alive, so none twice and none    *)
(* after its owner has, and of the rings with a handle only stopPreview()   *)
(* deletes one.  The owner's nativeFrameBufferDestroy() is a second         *)
(* deletion only of a ring that stopPreview() deleted (README 7).           *)
DeletesLiveRings == [][DeletesAreOrdered]_vars

(* Between two calls the pointer is null or leads to a live ring, and a     *)
(* ring the preview made itself is either that one or deleted.              *)
NothingDanglesOrLeaks ==
  app = "idle" =>
    /\ mFrameBufferRing # Null => heap[mFrameBufferRing] = "live"
    /\ \A r \in Rings : heap[r] = "live" => r \in handles \/ r = mFrameBufferRing

(* When stopPreview() has returned no thread of the preview runs: a handle  *)
(* to the camera may be destroyed and the preview started again.            *)
StoppedIsQuiet ==
  app = "idle" /\ ~mIsRunning => conv = "none" /\ pv = "none" /\ cb = "idle" /\ ~streaming

(* Whenever the conversion thread may be started, its two flags agree: no   *)
(* thread is started while another is still to be joined.                   *)
FlagsAgree == app \in {"idle", "lateBinding"} => mConversionThreadValid = mConversionThreadRunning

(* Every call returns: each join meets a thread that ends.                  *)
CallsReturn == app # "idle" ~> app = "idle"

==============================================================================
