------------------------------- MODULE Recording -------------------------------
(***************************************************************************)
(* Movie recording in usbCameraCommon (AbstractUVCCameraHandler's           *)
(* handleStartRecording, handleStopRecording and encoder listener,          *)
(* MediaMuxerWrapper, MediaEncoder with MediaSurfaceEncoder and             *)
(* MediaAudioEncoder).                                                      *)
(*                                                                         *)
(* A recording is one muxer and two encoders, each with a thread.  The      *)
(* muxer starts when as many encoders have started it as were added, and    *)
(* stops when as many have stopped it.  The camera thread starts and stops  *)
(* recordings; a stop is only requested, so the encoders of one recording   *)
(* may still be working when the next one starts.  The listener of a        *)
(* recording that ends, on its video encoder's thread, may release the      *)
(* camera thread itself, and with it stop the recording of then.            *)
(* synchronized blocks are single steps.                                    *)
(***************************************************************************)
EXTENDS Integers, FiniteSets

CONSTANTS MaxRecordings,   \* bound: recordings of one camera
          MaxDrain         \* bound: frames announced and not yet drained

ASSUME BoundsAssumption == MaxRecordings \in Nat \ {0} /\ MaxDrain \in Nat

Video == "video"
Audio == "audio"
Kinds == {Video, Audio}
Recordings == 1..MaxRecordings
Encoders == Recordings \X Kinds
None == 0                  \* no recording

\* Who may run handleStopRecording(): the camera thread, and the video encoder's thread
\* of each recording.
Own == 0
Stoppers == {Own} \cup Recordings

VARIABLES
  hpc,              \* the camera thread: its step
  last,             \* the recording it made last
  muxer,            \* mMuxer: the recording the handler knows of
  surface,          \* the recording whose input surface mUVCCamera captures to
  view,             \* whether mWeakCameraView still has its view
  asks,             \* the encoders that each handleStopRecording() has yet to ask
  closing,          \* the step of each recording's listener in handleRelease()
  count,            \* mStatredCount of each muxer
  file,             \* each MediaMuxer
  collected,        \* the muxers the garbage collector has taken
  tracks,           \* the tracks added to it
  pc, ending,        \* each encoder thread: its step, whether it drains to end
  codec,            \* mMediaCodec
  stop, drain,      \* mRequestStop, mRequestDrain
  capturing,        \* mIsCapturing
  joined            \* mMuxerStarted

camVars == <<hpc, last, muxer>>
muxVars == <<count, file, tracks, collected>>
reqVars == <<stop, drain, capturing>>
lisVars == <<view, asks, closing>>
vars == <<camVars, surface, muxVars, pc, ending, codec, reqVars, joined, lisVars>>

Init ==
  /\ hpc = "idle" /\ last = None /\ muxer = None /\ surface = None
  /\ view = TRUE /\ asks = [w \in Stoppers |-> {}] /\ closing = [r \in Recordings |-> "none"]
  /\ count = [r \in Recordings |-> 0] /\ file = [r \in Recordings |-> "new"]
  /\ tracks = [r \in Recordings |-> {}] /\ collected = {}
  /\ pc = [e \in Encoders |-> "none"] /\ ending = [e \in Encoders |-> FALSE]
  /\ codec = [e \in Encoders |-> "none"]
  /\ stop = [e \in Encoders |-> FALSE] /\ drain = [e \in Encoders |-> 0]
  /\ capturing = [e \in Encoders |-> FALSE] /\ joined = [e \in Encoders |-> FALSE]

\* mEncoderCount: the encoders whose constructor has added them.
EncoderCount(r) == Cardinality({k \in Kinds : pc[<<r, k>>] # "none"})

\* notifyAll on an encoder's mSync: only its own thread waits there once it runs.
Notified(e) == IF pc[e] = "asleep" THEN [pc EXCEPT ![e] = "loop"] ELSE pc

\* Whether the camera thread is not inside a start or a stop.
Idle == hpc = "idle" /\ asks[Own] = {}

(***************************************************************************)
(* The camera thread.                                                      *)
(***************************************************************************)
\* handleStartRecording(): a new muxer, then one encoder after the other; each
\* constructor starts its thread and waits until that has begun.
StartRecording ==
  /\ Idle /\ muxer = None /\ last < MaxRecordings
  /\ last' = last + 1 /\ hpc' = "video"
  /\ pc' = [pc EXCEPT ![<<last + 1, Video>>] = "born"]
  /\ UNCHANGED <<muxer, surface, muxVars, ending, codec, reqVars, joined, lisVars>>

AddAudio ==
  /\ hpc = "video" /\ pc[<<last, Video>>] # "born"
  /\ hpc' = "audio" /\ pc' = [pc EXCEPT ![<<last, Audio>>] = "born"]
  /\ UNCHANGED <<last, muxer, surface, muxVars, ending, codec, reqVars, joined, lisVars>>

\* prepare(): an encoder without a suitable codec stays without one; onPrepared()
\* of the video encoder hands its input surface to the camera, unless the view or the
\* camera is gone: the exception is caught.
Prepare ==
  /\ \/ hpc = "audio" /\ pc[<<last, Audio>>] # "born"
     \/ hpc = "prepare"
  /\ LET k == IF hpc = "audio" THEN Video ELSE Audio
         next == IF hpc = "audio" THEN "prepare" ELSE "start" IN
     /\ joined' = [joined EXCEPT ![<<last, k>>] = FALSE]
     /\ \/ /\ codec' = [codec EXCEPT ![<<last, k>>] = "started"]
           /\ surface' \in {surface, IF k = Video THEN last ELSE surface} /\ hpc' = next
        \/ UNCHANGED <<codec, surface>> /\ hpc' = next
        \/ UNCHANGED <<codec, surface>> /\ hpc' = "idle"        \* IOException
  /\ UNCHANGED <<last, muxer, muxVars, pc, ending, reqVars, lisVars>>

\* startRecording() of each encoder; then the handler publishes the muxer.
StartEncoder ==
  /\ hpc \in {"start", "start2"}
  /\ LET e == <<last, IF hpc = "start" THEN Video ELSE Audio>> IN
     /\ capturing' = [capturing EXCEPT ![e] = TRUE] /\ stop' = [stop EXCEPT ![e] = FALSE]
     /\ pc' = Notified(e)
  /\ hpc' = (IF hpc = "start" THEN "start2" ELSE "publish")
  /\ UNCHANGED <<last, muxer, surface, muxVars, ending, codec, drain, joined, lisVars>>

Publish ==
  /\ hpc = "publish" /\ hpc' = "idle" /\ muxer' = last
  /\ UNCHANGED <<last, surface, muxVars, pc, ending, codec, reqVars, joined, lisVars>>

StopRecording_Listener(w) ==   \* Mutant: the capture is left to onStopped()
  /\ IF w = Own THEN Idle /\ UNCHANGED closing
     ELSE /\ closing[w] = "begin"
          /\ closing' = [closing EXCEPT ![w] = IF muxer # None THEN "stop" ELSE "take"]
  /\ asks' = [asks EXCEPT ![w] = IF muxer # None THEN {muxer} \X Kinds ELSE {}]
  /\ muxer' = None
  /\ UNCHANGED <<hpc, last, surface, muxVars, pc, ending, codec, reqVars, joined, view>>
\* handleStopRecording(): forget the muxer, stop capturing, then ask the encoders, if
\* there is a muxer that knows them.  On an encoder's thread it is part of handleRelease().
StopRecording(w) ==
  /\ IF w = Own THEN Idle /\ UNCHANGED closing
     ELSE /\ closing[w] = "begin"
          /\ closing' = [closing EXCEPT ![w] = IF muxer # None THEN "stop" ELSE "take"]
  /\ asks' = [asks EXCEPT ![w] = IF muxer # None THEN {muxer} \X Kinds ELSE {}]
  /\ muxer' = None /\ surface' = None
  /\ UNCHANGED <<hpc, last, muxVars, pc, ending, codec, reqVars, joined, view>>

\* stopRecording() of each encoder, the video encoder's first.
StopEncoder(w, e) ==
  /\ e \in asks[w] /\ (e[2] = Audio => <<e[1], Video>> \notin asks[w])
  /\ asks' = [asks EXCEPT ![w] = @ \ {e}]
  /\ IF ~capturing[e] \/ stop[e]
     THEN UNCHANGED <<stop, pc>>
     ELSE stop' = [stop EXCEPT ![e] = TRUE] /\ pc' = Notified(e)
  /\ UNCHANGED <<camVars, surface, muxVars, ending, codec, drain, capturing, joined, view, closing>>

\* frameAvailableSoon(), from the view's renderer or from the audio thread.
FrameAvailableSoon(e) ==
  /\ capturing[e] /\ ~stop[e] /\ drain[e] < MaxDrain
  /\ drain' = [drain EXCEPT ![e] = @ + 1] /\ pc' = Notified(e)
  /\ UNCHANGED <<camVars, surface, muxVars, ending, codec, stop, capturing, joined, lisVars>>

(***************************************************************************)
(* An encoder thread.                                                      *)
(***************************************************************************)
At(e, here, next) == pc[e] = here /\ pc' = [pc EXCEPT ![e] = next]

Begin(e) ==
  /\ At(e, "born", "loop")
  /\ stop' = [stop EXCEPT ![e] = FALSE] /\ drain' = [drain EXCEPT ![e] = 0]
  /\ UNCHANGED <<camVars, surface, muxVars, ending, codec, capturing, joined, lisVars>>

\* The first synchronized block of the loop reads the requests ...
ReadRequests(e) ==
  /\ pc[e] = "loop"
  /\ \/ stop[e] /\ pc' = [pc EXCEPT ![e] = "drain"] /\ ending' = [ending EXCEPT ![e] = TRUE]
     \/ ~stop[e] /\ drain[e] > 0 /\ pc' = [pc EXCEPT ![e] = "drain"] /\ UNCHANGED ending
     \/ ~stop[e] /\ drain[e] = 0 /\ pc' = [pc EXCEPT ![e] = "sleep"] /\ UNCHANGED ending
  /\ drain' = [drain EXCEPT ![e] = IF @ > 0 THEN @ - 1 ELSE 0]
  /\ UNCHANGED <<camVars, surface, muxVars, codec, stop, capturing, joined, lisVars>>

\* ... and the second waits without reading them again: a request that comes between
\* the two is not heard.
Sleep(e) ==
  /\ At(e, "sleep", "asleep")
  /\ UNCHANGED <<camVars, surface, muxVars, ending, codec, reqVars, joined, lisVars>>

SpuriousWake(e) ==
  /\ At(e, "asleep", "loop")
  /\ UNCHANGED <<camVars, surface, muxVars, ending, codec, reqVars, joined, lisVars>>

\* drain() gives up after some time without output, at once without a codec or when
\* the encoder no longer captures.  The last one is two in a row: in between the end
\* of the stream is signalled with encode(null, 0), which queues nothing.
LeaveDrain(e) ==
  /\ At(e, "drain", IF ending[e] THEN "stopped" ELSE "loop")
  /\ UNCHANGED <<camVars, surface, muxVars, ending, codec, reqVars, joined, lisVars>>

\* INFO_OUTPUT_FORMAT_CHANGED comes once, before the first output.
AddTrack(e) ==
  /\ At(e, "drain", "join") /\ capturing[e] /\ codec[e] = "started" /\ ~joined[e]
  /\ e[1] \notin collected
  /\ file[e[1]] = "new"                     \* addTrack() throws after the start
  /\ tracks' = [tracks EXCEPT ![e[1]] = @ \cup {e[2]}]
  /\ joined' = [joined EXCEPT ![e] = TRUE]
  /\ UNCHANGED <<camVars, surface, count, file, collected, ending, codec, reqVars, lisVars>>

\* MediaMuxerWrapper.start()
StartMuxer_First(e) ==      \* Mutant: the muxer starts with the first encoder that joins
  LET r == e[1] IN
  /\ At(e, "join", "await")
  /\ count' = [count EXCEPT ![r] = @ + 1] /\ file' = [file EXCEPT ![r] = "started"]
  /\ UNCHANGED <<camVars, surface, tracks, collected, ending, codec, reqVars, joined, lisVars>>
StartMuxer(e) ==
  LET r == e[1] IN
  /\ At(e, "join", "await")
  /\ count' = [count EXCEPT ![r] = @ + 1]
  /\ file' = [file EXCEPT ![r] = IF EncoderCount(r) > 0 /\ count[r] + 1 = EncoderCount(r)
                                 THEN "started" ELSE @]
  /\ UNCHANGED <<camVars, surface, tracks, collected, ending, codec, reqVars, joined, lisVars>>

\* The rest of drain() waits until the muxer is started, whatever was requested.
MuxerIsStarted_Unchecked(e) ==  \* Mutant: it does not wait
  /\ At(e, "await", "drain")
  /\ UNCHANGED <<camVars, surface, muxVars, ending, codec, reqVars, joined, lisVars>>
MuxerIsStarted(e) ==
  /\ At(e, "await", "drain") /\ file[e[1]] = "started"
  /\ UNCHANGED <<camVars, surface, muxVars, ending, codec, reqVars, joined, lisVars>>

\* With output, drain() calls writeSampleData(), which writes to the MediaMuxer while
\* anyone has it started; nothing else changes, so this is no action.
Writes(e) ==
  /\ pc[e] = "drain" /\ capturing[e] /\ codec[e] = "started" /\ joined[e]
  /\ e[1] \notin collected /\ count[e[1]] > 0

\* release(): onStopped() first; the video encoder's stops the camera's capture, unless
\* the view is gone: the exception is caught.  Without the muxer there is no path, and
\* handleRelease() may follow.  The thread's last block sets what is set already.
OnStopped(e) ==
  /\ At(e, "stopped", "release")
  /\ IF e[2] = Audio \/ ~view THEN UNCHANGED <<surface, closing>>
     ELSE /\ surface' = None
          /\ \/ UNCHANGED closing
             \/ e[1] \in collected /\ closing' = [closing EXCEPT ![e[1]] = "begin"]
  /\ UNCHANGED <<camVars, muxVars, ending, codec, reqVars, joined, view, asks>>

\* The rest of handleRelease() on that thread: take the camera, stop and destroy it,
\* release the handler.  An exception of handleStopRecording() ends it early.
GoOn(r, here, next) ==
  /\ closing[r] \in here /\ asks[r] = {} /\ closing' = [closing EXCEPT ![r] = next]
  /\ surface' = (IF next = "destroy" THEN None ELSE surface)
  /\ UNCHANGED <<camVars, muxVars, pc, ending, codec, reqVars, joined, view, asks>>

Release(e) ==
  /\ e[2] = Video => closing[e[1]] = "none"        \* onStopped() has returned
  /\ At(e, "release", IF joined[e] /\ e[1] \notin collected THEN "leave" ELSE "done")
  /\ capturing' = [capturing EXCEPT ![e] = FALSE] /\ codec' = [codec EXCEPT ![e] = "none"]
  /\ UNCHANGED <<camVars, surface, muxVars, ending, stop, drain, joined, lisVars>>

\* MediaMuxerWrapper.stop(); an exception of MediaMuxer.stop() is caught.
StopMuxer(e) ==
  LET r == e[1] IN
  /\ At(e, "leave", "done")
  /\ count' = [count EXCEPT ![r] = @ - 1]
  /\ file' = [file EXCEPT ![r] = IF EncoderCount(r) > 0 /\ count[r] - 1 <= 0 THEN "stopped" ELSE @]
  /\ UNCHANGED <<camVars, surface, tracks, collected, ending, codec, reqVars, joined, lisVars>>

\* The encoders only have a WeakReference: once the handler has let go of a muxer, it
\* may be collected between two uses (local variables of drain() and release()).
Collect(r) ==
  /\ r <= last /\ r # muxer /\ (r = last => hpc = "idle") /\ r \notin collected
  /\ \A w \in Stoppers, k \in Kinds : <<r, k>> \notin asks[w]
  /\ \A k \in Kinds : pc[<<r, k>>] \notin {"drain", "join", "await", "leave"}
  /\ collected' = collected \cup {r}
  /\ UNCHANGED <<camVars, surface, count, file, tracks, pc, ending, codec, reqVars, joined, lisVars>>

\* So is the view; the camera works without it.
CollectView ==
  /\ view /\ view' = FALSE
  /\ UNCHANGED <<camVars, surface, muxVars, pc, ending, codec, reqVars, joined, asks, closing>>

\* What an encoder thread does on its own, and what a camera thread does inside a
\* start: the rest is shared with the handler.
EncoderStep(e) ==
  \/ Begin(e) \/ ReadRequests(e) \/ Sleep(e) \/ LeaveDrain(e) \/ AddTrack(e) \/ StartMuxer(e)
  \/ MuxerIsStarted(e) \/ Release(e) \/ StopMuxer(e)

CameraStep == AddAudio \/ StartEncoder \/ Publish

ListenerStep(r) ==
  \/ \E next \in {"destroy", "quit", "none"} : GoOn(r, {"stop", "take"}, next)
  \/ GoOn(r, {"destroy"}, "quit") \/ GoOn(r, {"quit"}, "none")

\* What may happen at any time.
Environment ==
  \/ CollectView
  \/ \E r \in Recordings : Collect(r)
  \/ \E e \in Encoders : FrameAvailableSoon(e) \/ SpuriousWake(e)

Next ==
  \/ StartRecording \/ Prepare \/ CameraStep
  \/ \E w \in Stoppers : StopRecording(w) \/ \E e \in Encoders : StopEncoder(w, e)
  \/ \E e \in Encoders : EncoderStep(e) \/ OnStopped(e)
  \/ \E r \in Recordings : ListenerStep(r)
  \/ Environment

Spec == Init /\ [][Next]_vars

(***************************************************************************)
(* Correctness.                                                            *)
(***************************************************************************)
\* Every variable keeps its type; in particular no muxer is stopped by more encoders
\* than have started it (mStatredCount).
TypeOK ==
  /\ hpc \in {"idle", "video", "audio", "prepare", "start", "start2", "publish"}
  /\ last \in 0..MaxRecordings /\ muxer \in 0..MaxRecordings /\ surface \in 0..MaxRecordings
  /\ view \in BOOLEAN /\ asks \in [Stoppers -> SUBSET Encoders]
  /\ closing \in [Recordings -> {"none", "begin", "stop", "take", "destroy", "quit"}]
  /\ count \in [Recordings -> 0..2] /\ file \in [Recordings -> {"new", "started", "stopped"}]
  /\ tracks \in [Recordings -> SUBSET Kinds] /\ collected \subseteq Recordings
  /\ pc \in [Encoders -> {"none", "born", "loop", "sleep", "asleep", "drain", "join", "await",
                          "stopped", "release", "leave", "done"}]
  /\ ending \in [Encoders -> BOOLEAN]
  /\ codec \in [Encoders -> {"none", "started"}]
  /\ stop \in [Encoders -> BOOLEAN] /\ drain \in [Encoders -> 0..MaxDrain]
  /\ capturing \in [Encoders -> BOOLEAN] /\ joined \in [Encoders -> BOOLEAN]

\* Nothing is written to a MediaMuxer that is not running, and no track is added to one
\* that is: both make it throw.  writeSampleData() only looks at mStatredCount.
MuxerIsReady ==
  \A e \in Encoders : /\ Writes(e) => file[e[1]] = "started"
                      /\ pc[e] = "drain" /\ capturing[e] /\ codec[e] = "started" /\ ~joined[e]
                           => file[e[1]] = "new"

\* A movie that was started has both its tracks and is closed once both encoders are
\* done with it, in whatever order they come and go: otherwise the file is unreadable.
\* (A muxer that was collected before is left to MediaMuxer's finalizer.)
MovieIsComplete ==
  \A r \in Recordings :
    /\ file[r] # "new" => tracks[r] = Kinds
    /\ r \notin collected /\ (\A k \in Kinds : pc[<<r, k>>] = "done") => file[r] # "started"

\* The camera never draws on the input surface of an encoder that has begun to release
\* it: MediaSurfaceEncoder releases the surface before onStopped() stops the capture.
\* (A camera that a listener has taken may do so until the listener has stopped it.)
CaptureSurfaceIsLive ==
  \A r \in Recordings :
    surface = r => pc[<<r, Video>>] \notin {"stopped", "release", "leave", "done"}
===============================================================================
