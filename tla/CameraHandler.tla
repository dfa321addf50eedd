----------------------------- MODULE CameraHandler -----------------------------
(***************************************************************************)
(* The camera thread of usbCameraCommon (AbstractUVCCameraHandler and its   *)
(* CameraThread), around the recordings of module Recording.                *)
(*                                                                         *)
(* An application thread sends messages; one camera thread takes them, owns *)
(* the UVCCamera and ends itself when it is released and no longer records. *)
(* stopPreview() blocks until the camera thread has stopped the preview, so *)
(* that the application may release the surface.  A recording that ends, on *)
(* its encoder's thread, sends a delayed message, or closes the camera on   *)
(* that thread itself when the muxer and its path are gone.                 *)
(***************************************************************************)
EXTENDS Recording, Sequences

Calls == {"open", "start", "still", "record", "end", "stopPreview", "close", "release"}

CONSTANT Script            \* bound: the calls that the application may make first, second ...

ASSUME ScriptAssumption == Script \in Seq(SUBSET Calls)

VARIABLES
  looper,           \* the camera thread's Looper
  queue,            \* its messages
  delayed,          \* messages whose second is not over
  released,         \* mReleased
  camera,           \* whether there is a mUVCCamera
  streaming,        \* whose camera's native preview draws on the application's surface:
                    \* mUVCCamera's (Own), or the one that a recording's listener has taken
  previewing,       \* mIsPreviewing
  recording,        \* mIsRecording
  doing, step,      \* the message in work, and where
  unheard,          \* history: a recording has ended without sending its update
  call, tpc, calls  \* the application: its call, its step, how many so far

cameraVars == <<camera, streaming, previewing>>
appVars == <<call, tpc, calls>>
handlerVars == <<looper, queue, delayed, released, cameraVars, recording, doing, step, unheard, appVars>>

Messages == {"open", "close", "start", "stop", "still", "record", "end", "update", "release"}

HandlerInit ==
  /\ Init
  /\ looper = "running" /\ queue = <<>> /\ delayed = 0 /\ released = FALSE
  /\ camera = FALSE /\ streaming = {} /\ previewing = FALSE /\ recording = FALSE
  /\ doing = "none" /\ step = "none" /\ unheard = FALSE
  /\ call = "none" /\ tpc = "idle" /\ calls = 0

\* sendMessage(): a Looper that has quit takes none.
With(q, m) == IF looper = "running" THEN Append(q, m) ELSE q

\* removeMessages(m): the others keep their order.
Without(q, m) ==
  LET Kept[i \in 0..Len(q)] ==
        IF i = 0 THEN <<>> ELSE IF q[i] = m THEN Kept[i - 1] ELSE Append(Kept[i - 1], q[i])
  IN  Kept[Len(q)]

\* mSync.notifyAll(): the only waiter is the application in stopPreview().
WakeApp == tpc' = (IF tpc = "asleep" THEN "awake" ELSE tpc)

(***************************************************************************)
(* The camera thread: handleMessage(), one message after the other.        *)
(***************************************************************************)
First(m) == IF m \in {"open", "close", "release"} THEN "endRecording" ELSE m

TakeMessage ==
  /\ looper = "running" /\ doing = "none" /\ Idle /\ queue # <<>>
  /\ doing' = Head(queue) /\ step' = First(Head(queue)) /\ queue' = Tail(queue)
  /\ UNCHANGED <<vars, looper, delayed, released, cameraVars, recording, unheard, appVars>>

AtStep(here, next) ==
  /\ step = here /\ step' = next
  /\ doing' = (IF next = "none" THEN "none" ELSE doing)

\* handleStopRecording(), alone or as the beginning of handleClose().  (With a muxer it
\* ends with mUVCCamera.setFrameCallback(), whose exception would end the process if a
\* listener had just taken the camera.)
EndRecording ==
  /\ \/ AtStep("end", "none") \/ AtStep("endRecording", "takeCamera")
  /\ StopRecording(Own)
  /\ UNCHANGED <<looper, queue, delayed, released, cameraVars, recording, unheard, appVars>>

\* The rest of a start or a stop: until it is Idle, the thread does nothing else.  (A stop
\* may also be a listener's.)
WorkOnRecording == CameraStep /\ UNCHANGED handlerVars

AskEncoder ==
  /\ \E w \in Stoppers, e \in Encoders : StopEncoder(w, e)
  /\ UNCHANGED handlerVars

\* Where handleOpen() and handleRelease() go on after handleClose().
Closed == IF doing = "close" THEN "none" ELSE "closed"

\* handleClose(): take the camera out of mUVCCamera, ...
TakeCamera ==
  /\ Idle
  /\ AtStep("takeCamera", IF camera THEN "destroy" ELSE Closed) /\ camera' = FALSE
  /\ UNCHANGED <<vars, looper, queue, delayed, released, streaming, previewing, recording, unheard, appVars>>

\* ... stop its preview and destroy it.  mIsPreviewing is left as it is.
DestroyCamera ==
  /\ AtStep("destroy", Closed) /\ streaming' = streaming \ {Own}
  /\ UNCHANGED <<vars, looper, queue, delayed, released, camera, previewing, recording, unheard, appVars>>

\* handleOpen(), which may fail.
OpenCamera ==
  /\ doing = "open" /\ AtStep("closed", "none") /\ camera' \in BOOLEAN
  /\ UNCHANGED <<vars, looper, queue, delayed, released, streaming, previewing, recording, unheard, appVars>>

\* handleStartPreview(): the camera may refuse the size.
StartPreviewing ==
  /\ \/ AtStep("start", "none") /\ UNCHANGED streaming
     \/ AtStep("start", "previewing") /\ camera /\ ~previewing
        /\ streaming' = streaming \cup {Own}
  /\ UNCHANGED <<vars, looper, queue, delayed, released, camera, previewing, recording, unheard, appVars>>

Previewing ==
  /\ AtStep("previewing", "none") /\ previewing' = TRUE
  /\ UNCHANGED <<vars, looper, queue, delayed, released, camera, streaming, recording, unheard, appVars>>

\* handleStopPreview(): first the camera, ...
StopPreviewing_Flag ==      \* Mutant: the camera is stopped last
  /\ AtStep("stop", IF previewing THEN "notify" ELSE "none")
  /\ UNCHANGED <<vars, looper, queue, delayed, released, cameraVars, recording, unheard, appVars>>
StopPreviewing ==
  /\ AtStep("stop", IF previewing THEN "notify" ELSE "none")
  /\ streaming' = (IF previewing /\ camera THEN streaming \ {Own} ELSE streaming)
  /\ UNCHANGED <<vars, looper, queue, delayed, released, camera, previewing, recording, unheard, appVars>>

\* ... then the flag, and whoever waits for it.
NotifyStopped_Silent ==     \* Mutant: notifyAll() is forgotten
  /\ AtStep("notify", "none") /\ previewing' = FALSE
  /\ UNCHANGED <<vars, looper, queue, delayed, released, camera, streaming, recording, unheard, appVars>>
NotifyStopped ==
  /\ AtStep("notify", "none") /\ previewing' = FALSE /\ WakeApp
  /\ UNCHANGED <<vars, looper, queue, delayed, released, camera, streaming, recording, unheard, call, calls>>

\* handleCaptureStill() asks for its file to be scanned, unless it could not be written.
CaptureStill ==
  /\ AtStep("still", "none") /\ queue' \in {queue, With(queue, "update")}
  /\ UNCHANGED <<vars, looper, delayed, released, cameraVars, recording, unheard, appVars>>

\* handleStartRecording(): ignored without a camera, with a muxer, or when a new muxer
\* cannot be made (IOException).
Record ==
  /\ AtStep("record", "none")
  /\ (camera /\ StartRecording) \/ UNCHANGED vars
  /\ UNCHANGED <<looper, queue, delayed, released, cameraVars, recording, unheard, appVars>>

\* prepare() of an encoder, and onPrepared() if it has a codec: the surface goes to the
\* camera if there is one, and a view.
PrepareEncoder ==
  /\ Prepare
  /\ hpc = "audio" /\ codec' # codec => surface' = (IF camera /\ view THEN last ELSE surface)
  /\ recording' = (recording \/ codec' # codec)
  /\ UNCHANGED <<looper, queue, delayed, released, cameraVars, doing, step, unheard, appVars>>

\* handleUpdateMedia() releases a handler that was released before, or whose activity
\* is destroyed or collected, which may be at any time.
UpdateMedia ==
  /\ AtStep("update", "endRecording") \/ (~released /\ AtStep("update", "none"))
  /\ UNCHANGED <<vars, looper, queue, delayed, released, cameraVars, recording, unheard, appVars>>

\* The end of handleRelease(): a thread that records goes on for its encoders' sake.
Quit ==
  /\ doing \in {"update", "release"} /\ AtStep("closed", "none")
  /\ IF recording THEN UNCHANGED <<looper, queue, delayed, released>>
     ELSE looper' = "quitting" /\ queue' = <<>> /\ delayed' = 0 /\ released' = TRUE
  /\ UNCHANGED <<vars, cameraVars, recording, unheard, appVars>>

\* run() after the loop: mHandler is forgotten, and whoever waits is woken.
EndThread ==
  /\ looper = "quitting" /\ looper' = "ended" /\ WakeApp
  /\ UNCHANGED <<vars, queue, delayed, released, cameraVars, recording, doing, step, unheard, call, calls>>

CameraThread ==
  \/ TakeMessage \/ EndRecording \/ WorkOnRecording \/ TakeCamera \/ DestroyCamera
  \/ OpenCamera \/ StartPreviewing \/ Previewing \/ StopPreviewing \/ NotifyStopped
  \/ CaptureStill \/ Record \/ PrepareEncoder \/ UpdateMedia \/ Quit \/ EndThread

(***************************************************************************)
(* The encoders' listener, on the encoders' threads.                       *)
(***************************************************************************)
\* onStopped(): the video encoder's ends the recording and sends the update, to be
\* handled in a second.  Without the view an exception comes first; without the muxer
\* there is no path, and a handler that was released, or whose activity is gone, is
\* released here instead.
EncoderStopped_NoUpdate(e) ==  \* Mutant: nothing is sent when the recording has ended
  /\ OnStopped(e)
  /\ IF e[2] # Video THEN UNCHANGED <<recording, unheard>>
     ELSE /\ recording' = FALSE /\ unheard' = (unheard \/ ~view \/ e[1] \in collected)
          /\ view /\ e[1] \in collected /\ released => closing' # closing
  /\ UNCHANGED <<looper, queue, delayed, released, cameraVars, doing, step, appVars>>
EncoderStopped(e) ==
  /\ OnStopped(e)
  /\ IF e[2] # Video THEN UNCHANGED <<recording, delayed, unheard>>
     ELSE LET heard == view /\ e[1] \notin collected IN
          /\ recording' = FALSE
          /\ delayed' = (IF heard /\ looper = "running" THEN delayed + 1 ELSE delayed)
          /\ unheard' = (unheard \/ ~heard)
          /\ view /\ e[1] \in collected /\ released => closing' # closing
  /\ UNCHANGED <<looper, queue, released, cameraVars, doing, step, appVars>>

\* handleRelease() there: handleStopRecording() on whatever is recorded by now, ...
ListenerEnds(r) == StopRecording(r) /\ UNCHANGED handlerVars

\* ... handleClose(), which takes the camera and then stops its preview, ...  (With a
\* muxer, handleStopRecording() ends with mUVCCamera.setFrameCallback(), which throws if
\* the camera thread has taken the camera by then.)
ListenerTakes(r) ==
  /\ \E next \in IF camera THEN {"destroy"}
                  ELSE {"quit"} \cup (IF closing[r] = "stop" THEN {"none"} ELSE {}) :
       GoOn(r, {"stop", "take"}, next)
  /\ camera' = FALSE
  /\ streaming' = (IF camera /\ Own \in streaming THEN (streaming \ {Own}) \cup {r} ELSE streaming)
  /\ UNCHANGED <<looper, queue, delayed, released, previewing, recording, doing, step, unheard, appVars>>

ListenerDestroys(r) ==
  /\ GoOn(r, {"destroy"}, "quit") /\ streaming' = streaming \ {r}
  /\ UNCHANGED <<looper, queue, delayed, released, camera, previewing, recording, doing, step, unheard, appVars>>

\* ... and the end: a thread without a Looper can quit none, which throws.
ListenerReleases(r) ==
  /\ GoOn(r, {"quit"}, "none") /\ released' = (released \/ ~recording)
  /\ UNCHANGED <<looper, queue, delayed, cameraVars, recording, doing, step, unheard, appVars>>

Listener(r) ==
  ListenerEnds(r) \/ ListenerTakes(r) \/ ListenerDestroys(r) \/ ListenerReleases(r)

\* The second of sendMessageDelayed() is over.
UpdateIsDue ==
  /\ delayed > 0 /\ delayed' = delayed - 1 /\ queue' = With(queue, "update")
  /\ UNCHANGED <<vars, looper, released, cameraVars, recording, doing, step, unheard, appVars>>

(***************************************************************************)
(* The application.                                                        *)
(***************************************************************************)
AppUnchanged == UNCHANGED <<vars, looper, delayed, cameraVars, recording, doing, step, unheard>>

Calling(c) ==
  /\ tpc = "idle" /\ calls < Len(Script) /\ c \in Script[calls + 1]
  /\ calls' = calls + 1

\* open(), startPreview(), captureStill(), startRecording() and stopRecording(): all but
\* the last throw after release().
Send(m) ==
  /\ Calling(m) /\ (~released \/ m = "end")
  /\ queue' = With(queue, m)
  /\ UNCHANGED <<call, tpc, released>> /\ AppUnchanged

\* stopPreview() alone, or as a part of close(), which needs an open camera, or of
\* release(), which sets mReleased first.
Call(c) ==
  /\ Calling(c)
  /\ call' = c /\ tpc' = (IF c = "stopPreview" THEN "remove" ELSE "isOpened")
  /\ released' = (released \/ c = "release")
  /\ UNCHANGED queue /\ AppUnchanged

AppAt(here, next) ==
  /\ tpc = here /\ tpc' = next /\ call' = (IF next = "idle" THEN "none" ELSE call)
  /\ UNCHANGED <<calls, released>> /\ AppUnchanged

\* Where a call goes on when the preview has stopped, or there is nothing to close.
AfterStop == IF call = "stopPreview" THEN "idle" ELSE "sendClose"
AfterClose == IF call = "release" THEN "sendRelease" ELSE "idle"

IsOpened == AppAt("isOpened", IF camera THEN "remove" ELSE AfterClose) /\ UNCHANGED queue

\* removeMessages(MSG_PREVIEW_START), and stopRecording().
RemoveStart ==
  /\ AppAt("remove", "isPreviewing")
  /\ queue' = With(Without(queue, "start"), "end")

IsPreviewing ==
  AppAt("isPreviewing", IF camera /\ previewing THEN "sendStop" ELSE AfterStop) /\ UNCHANGED queue

\* Sends MSG_PREVIEW_STOP and waits, holding mSync in between.
SendStop == AppAt("sendStop", "asleep") /\ queue' = With(queue, "stop")

Woken == AppAt("awake", AfterStop) /\ UNCHANGED queue
SendClose == AppAt("sendClose", AfterClose) /\ queue' = With(queue, "close")
SendRelease == AppAt("sendRelease", "idle") /\ queue' = With(queue, "release")

InCall == IsOpened \/ RemoveStart \/ IsPreviewing \/ SendStop \/ Woken \/ SendClose \/ SendRelease

Application ==
  \/ \E m \in {"open", "start", "still", "record", "end"} : Send(m)
  \/ \E c \in {"stopPreview", "close", "release"} : Call(c)
  \/ InCall

EncoderThread(e) == EncoderStopped(e) \/ (EncoderStep(e) /\ UNCHANGED handlerVars)

HandlerNext ==
  \/ CameraThread \/ AskEncoder \/ UpdateIsDue \/ Application
  \/ \E e \in Encoders : EncoderThread(e)
  \/ \E r \in Recordings : Listener(r)
  \/ Environment /\ UNCHANGED handlerVars

HandlerSpec == HandlerInit /\ [][HandlerNext]_<<vars, handlerVars>>

\* A thread that can run does so at some time, a call that was begun goes on, and a
\* second comes to an end.  The encoders' codecs need not deliver anything.
HandlerFairSpec ==
  /\ HandlerSpec
  /\ WF_<<vars, handlerVars>>(CameraThread)
  /\ WF_<<vars, handlerVars>>(AskEncoder)
  /\ WF_<<vars, handlerVars>>(InCall)
  /\ WF_<<vars, handlerVars>>(UpdateIsDue)
  /\ WF_<<vars, handlerVars>>((\E e \in Encoders : Begin(e)) /\ UNCHANGED handlerVars)

(***************************************************************************)
(* Correctness.                                                            *)
(***************************************************************************)
\* A stopPreview() that waits will be woken, whatever was queued before its message:
\* that message is still to be handled and will find the preview running, or else the
\* thread is ending.  (One that comes to its wait after the end sleeps for ever.)
StopWillBeHeard ==
  tpc = "asleep" /\ looper = "running" =>
    previewing /\ (doing = "stop" \/ \E i \in DOMAIN queue : queue[i] = "stop")

\* When a stopPreview() that waited returns, the surface may be released: "wait for
\* actually preview stopped to avoid releasing Surface/SurfaceTexture while preview is
\* still running" (stopPreview).  The only camera that may still draw on it is one that a
\* listener has taken from the camera thread and is about to stop: for that one the
\* caller does not wait.
SurfaceMayGo == tpc = "awake" => \A c \in streaming : c # Own /\ closing[c] = "destroy"

\* After release() the camera thread does not go on for ever when it is not kept by a
\* recording: a recording that ends later sends the message that ends it.  The exception
\* is a recording that ended unheard: onStopped() threw because the view was collected,
\* or found no path because the muxer was.
ReleaseEnds == []<>(~released \/ recording \/ looper = "ended" \/ unheard)
===============================================================================
