-------------------------- MODULE StreamCapture_proofs --------------------------
(***************************************************************************)
(* The threads at the two ends of do_preview(): libuvc's stream, which it  *)
(* starts and stops, and the capture thread, which it makes and hands its  *)
(* frames to.  Each is proved about for itself.                            *)
(*                                                                         *)
(* The stream, for any number of transfers, frames, payloads and retries,  *)
(* and a device that is unplugged at any time: what the user's callback is *)
(* given, that it is woken, and what uvc_stream_stop() leaves behind.  The *)
(* capture thread, for any number of frames, windows, callback objects and *)
(* application threads.                                                    *)
(***************************************************************************)
EXTENDS UvcStream, CaptureThread, FiniteSetTheorems, TLAPS

USE TransfersAssumption, BoundsAssumption

-----------------------------------------------------------------------------
(* The stream: the inductive invariant.                                    *)

\* The transfer whose callback runs is the handler thread's alone, and before the
\* stream is started nothing runs.
InCallback ==
  /\ hpc # "idle" => xfer[ht] = "callback"
  /\ spc = "none" => strmh = "none" /\ hpc = "idle" /\ upc = "none" /\ cancelled = {}
  /\ hpc \in {"swap", "swapped"} => seq < MaxFrames

\* cb_mutex is held across two steps by the user thread while it copies, and by
\* the closing thread until it waits.
MutexHolder ==
  /\ mutex = "user" <=> upc \in {"populate", "copy"}
  /\ mutex = "closer" => spc = "wait"

\* What is in the buffers: the frame being received, and the one held, of which
\* hold_seq and hold_bytes speak.
BufferContents ==
  /\ hpc # "swapped" => buf[outbuf].seq = seq
  /\ buf[holdbuf] = [seq |-> holdSeq, parts |-> holdParts]

\* The user thread's frame: its data follow its fields, and until they do the
\* held buffer is the one the fields were taken from.
CopiesFrame ==
  /\ upc # "copy" => frameData = frame
  /\ upc = "copy" => frame = [seq |-> holdSeq, parts |-> holdParts]

\* The closing thread joins when nothing is left that libusb could hand back.
Stopping ==
  /\ spc = "join" \/ stopped => \A t \in Transfers : xfer[t] = "null"
  /\ stopped => spc \in {"free", "closed"} /\ upc = "ended"

\* Everything but the types.
Parts == InCallback /\ MutexHolder /\ BufferContents /\ CopiesFrame /\ Stopping /\ WillBeWoken

StreamInv == TypeOK /\ Parts

LEMMA InitStream == Init => StreamInv
<1> SUFFICES ASSUME Init PROVE StreamInv  OBVIOUS
<1>1. (CHOOSE t \in Transfers : TRUE) \in Transfers
  OBVIOUS
<1>2. TypeOK
  <2>1. [seq |-> 0, parts |-> 0] \in Content
    BY DEF Content
  <2>2. buf \in [Buffers -> Content] /\ outbuf \in Buffers
    BY <2>1 DEF Init, Buffers
  <2>3. ht \in Transfers
    BY <1>1 DEF Init
  <2>4. xfer \in [Transfers -> {"null", "idle", "flying", "callback", "lost"}]
    BY DEF Init
  <2>5. NoFrame \in Content \cup {NoFrame} /\ 0 \in 0 .. MaxFrames /\ 0 \in 0 .. MaxParts
        /\ 0 \in 0 .. MaxRetries
    OBVIOUS
  <2> QED  BY <2>2, <2>3, <2>4, <2>5 DEF Init, TypeOK, Nobody
<1>3. buf[outbuf].seq = seq /\ buf[holdbuf] = [seq |-> holdSeq, parts |-> holdParts]
  BY DEF Init, holdbuf, Buffers
<1>4. InCallback /\ MutexHolder /\ CopiesFrame /\ Stopping /\ WillBeWoken
  BY DEF Init, InCallback, MutexHolder, CopiesFrame, Stopping, WillBeWoken, Nobody
<1> QED  BY <1>2, <1>3, <1>4 DEF StreamInv, Parts, BufferContents

\* Every variable keeps its type.
LEMMA NextTypes == StreamInv /\ [Next]_vars => TypeOK'
<1> SUFFICES ASSUME TypeOK, InCallback, [Next]_vars PROVE TypeOK'
  BY DEF StreamInv, Parts
<1> USE DEF TypeOK, InCallback, Nobody, xferVars, cbVars, frameVars, holdVars, userVars,
            lifeVars, handlerRest, userRest, closeRest, WokenUser, WokenStopper
<1>1. CASE Start
  BY <1>1 DEF Start
<1>2. CASE StartFails \/ CallClose \/ Unplug \/ Started
  <2>1. CASE StartFails
    BY <2>1 DEF StartFails
  <2>2. CASE CallClose
    BY <2>2 DEF CallClose
  <2>3. CASE Unplug
    BY <2>3 DEF Unplug
  <2>4. CASE Started
    BY <2>4 DEF Started
  <2> QED  BY <1>2, <2>1, <2>2, <2>3, <2>4
<1>3. ASSUME NEW t \in Transfers, Submit(t) PROVE TypeOK'
  <2>1. /\ xfer' \in [Transfers -> {"null", "idle", "flying", "callback", "lost"}]
        /\ \A u \in Transfers : xfer[u] = "flying" => xfer'[u] = "flying"
    BY <1>3 DEF Submit
  <2>2. /\ running' \in BOOLEAN /\ spc' \in {"submit", "free"}
        /\ UNCHANGED <<strmh, stopped, cancelled, cbVars, frameVars, holdVars, userVars, gone,
                       retries>>
    BY <1>3 DEF Submit
  <2> QED  BY <2>1, <2>2
<1>4. ASSUME NEW t \in Transfers, Reap(t) PROVE TypeOK'
  <2>1. /\ xfer' \in [Transfers -> {"null", "idle", "flying", "callback", "lost"}]
        /\ \A u \in cancelled' : u \in Transfers /\ xfer'[u] = "flying"
    BY <1>4 DEF Reap
  <2>2. retries' \in 0 .. MaxRetries
    BY <1>4 DEF Reap
  <2>3. /\ ht' \in Transfers /\ hpc' \in {"payload", "decide", "noDevice"} /\ resubmit' \in BOOLEAN
        /\ UNCHANGED <<handlerRest, running, flipped, frameVars, holdVars, upc>>
    BY <1>4 DEF Reap
  <2> QED  BY <2>1, <2>2, <2>3
<1>5. CASE NoDevice \/ Decide
  <2>1. /\ running' \in BOOLEAN /\ hpc' \in {"decide", "submit", "delete"}
        /\ UNCHANGED <<handlerRest, xferVars, ht, resubmit, flipped, frameVars, holdVars, upc,
                       retries>>
    BY <1>5 DEF NoDevice, Decide
  <2> QED  BY <2>1
<1>6. CASE ProcessPayload
  <2>1. ASSUME NEW n \in 0 .. MaxParts, Fill(n) PROVE buf' \in [Buffers -> Content]
    BY <2>1 DEF Fill, Content
  <2>2. buf[outbuf].parts \in 0 .. MaxParts
    BY DEF Content
  <2>3. buf' \in [Buffers -> Content]
    BY <1>6, <2>1, <2>2 DEF ProcessPayload
  <2>4. /\ hpc' \in {"payload", "swap", "decide"} /\ flipped' \in BOOLEAN /\ bfhErr' \in BOOLEAN
        /\ UNCHANGED <<handlerRest, running, xferVars, ht, resubmit, outbuf, seq, holdVars, upc,
                       retries>>
    BY <1>6 DEF ProcessPayload
  <2> QED  BY <2>3, <2>4
<1>7. CASE SwapBuffers
  <2>1. outbuf' \in Buffers /\ holdParts' \in 0 .. MaxParts
    BY <1>7 DEF SwapBuffers, holdbuf, Buffers, Content
  <2> QED  BY <1>7, <2>1 DEF SwapBuffers
<1>8. CASE NextFrame
  <2>1. seq' \in 0 .. MaxFrames
    BY <1>8 DEF NextFrame
  <2>2. [seq |-> seq + 1, parts |-> IF flipped THEN 1 ELSE 0] \in Content
    BY <1>8 DEF NextFrame, Content
  <2>3. buf' \in [Buffers -> Content]
    BY <1>8, <2>2 DEF NextFrame
  <2>4. /\ bfhErr' \in BOOLEAN /\ flipped' \in BOOLEAN /\ hpc' \in {"payload"}
        /\ UNCHANGED <<handlerRest, running, xferVars, ht, resubmit, outbuf, holdVars, upc,
                       retries>>
    BY <1>8 DEF NextFrame
  <2> QED  BY <2>1, <2>3, <2>4
<1>9. CASE Resubmit \/ DeleteTransfer
  BY <1>9 DEF Resubmit, DeleteTransfer
<1>10. CASE TestNewFrame
  BY <1>10 DEF TestNewFrame
<1>11. CASE PopulateFields \/ CopyData
  <2>1. [seq |-> holdSeq, parts |-> holdParts] \in Content /\ buf[holdbuf] \in Content
    BY DEF Content, holdbuf, Buffers
  <2> QED  BY <1>11, <2>1 DEF PopulateFields, CopyData
<1>12. CASE Deliver \/ UserCbReturns
  BY <1>12 DEF Deliver, UserCbReturns
<1>13. CASE StopRunning \/ JoinUserThread \/ FreeStream
  <2>1. /\ strmh' \in {"none", "open", "freed"} /\ running' \in BOOLEAN /\ stopped' \in BOOLEAN
        /\ spc' \in {"cancel", "free", "closed"}
        /\ UNCHANGED <<closeRest, mutex, cancelled, upc>>
    BY <1>13 DEF StopRunning, JoinUserThread, FreeStream
  <2> QED  BY <2>1
<1>14. CASE CancelTransfers
  BY <1>14 DEF CancelTransfers
<1>15. CASE WaitForTransfers
  <2>1. /\ mutex' = Nobody /\ spc' \in {"join", "asleep"} /\ upc' \in {upc, "test"}
        /\ UNCHANGED <<closeRest, strmh, stopped, running, cancelled>>
    BY <1>15 DEF WaitForTransfers
  <2> QED  BY <2>1
<1>16. CASE UNCHANGED vars
  BY <1>16 DEF vars
<1> QED
  BY <1>1, <1>2, <1>3, <1>4, <1>5, <1>6, <1>7, <1>8, <1>9, <1>10, <1>11, <1>12, <1>13, <1>14,
     <1>15, <1>16
  DEF Next, HandlerStep, Handler, User, Closer

\* The positions of the threads and what they have in their hands.
LEMMA NextParts == StreamInv /\ TypeOK' /\ [Next]_vars => Parts'
<1> SUFFICES ASSUME TypeOK, Parts, TypeOK', [Next]_vars PROVE Parts'
  BY DEF StreamInv
<1> USE DEF TypeOK, Parts, InCallback, MutexHolder, CopiesFrame, Stopping, WillBeWoken,
            Nobody, xferVars, cbVars, frameVars, holdVars, userVars, lifeVars, handlerRest,
            userRest, closeRest, WokenUser, WokenStopper
<1>1. CASE Start
  BY <1>1 DEF Start, BufferContents, holdbuf
<1>2. CASE StartFails \/ CallClose \/ Unplug \/ Started
  BY <1>2 DEF StartFails, CallClose, Unplug, Started, BufferContents, holdbuf
<1>3. ASSUME NEW t \in Transfers, Submit(t) PROVE Parts'
  BY <1>3 DEF Submit, BufferContents, holdbuf
<1>4. ASSUME NEW t \in Transfers, Reap(t) PROVE Parts'
  BY <1>4 DEF Reap, BufferContents, holdbuf
<1>5. CASE NoDevice \/ Decide
  BY <1>5 DEF NoDevice, Decide, BufferContents, holdbuf
<1>6. CASE ProcessPayload
  <2>1. BufferContents'
    BY <1>6 DEF ProcessPayload, Fill, BufferContents, holdbuf, Buffers
  <2> QED  BY <1>6, <2>1 DEF ProcessPayload
<1>7. CASE SwapBuffers
  <2>1. BufferContents'
    <3>1. holdbuf' = outbuf
      BY <1>7 DEF SwapBuffers, holdbuf, Buffers
    <3>2. buf[outbuf] = [seq |-> seq, parts |-> buf[outbuf].parts]
      BY <1>7 DEF SwapBuffers, BufferContents, Content
    <3> QED  BY <1>7, <3>1, <3>2 DEF SwapBuffers, BufferContents
  <2> QED  BY <1>7, <2>1 DEF SwapBuffers
<1>8. CASE NextFrame
  <2>1. BufferContents'
    BY <1>8 DEF NextFrame, BufferContents, holdbuf, Buffers
  <2> QED  BY <1>8, <2>1 DEF NextFrame
<1>9. CASE Resubmit \/ DeleteTransfer
  BY <1>9 DEF Resubmit, DeleteTransfer, BufferContents, holdbuf
<1>10. CASE TestNewFrame
  BY <1>10 DEF TestNewFrame, BufferContents, holdbuf
<1>11. CASE PopulateFields \/ CopyData
  BY <1>11 DEF PopulateFields, CopyData, BufferContents, holdbuf
<1>12. CASE Deliver \/ UserCbReturns
  BY <1>12 DEF Deliver, UserCbReturns, BufferContents, holdbuf
<1>13. CASE StopRunning \/ JoinUserThread \/ FreeStream
  BY <1>13 DEF StopRunning, JoinUserThread, FreeStream, BufferContents, holdbuf
<1>14. CASE WaitForTransfers \/ CancelTransfers
  BY <1>14 DEF WaitForTransfers, CancelTransfers, BufferContents, holdbuf
<1>15. CASE UNCHANGED vars
  BY <1>15 DEF vars, BufferContents, holdbuf
<1> QED
  BY <1>1, <1>2, <1>3, <1>4, <1>5, <1>6, <1>7, <1>8, <1>9, <1>10, <1>11, <1>12, <1>13, <1>14, <1>15
  DEF Next, HandlerStep, Handler, User, Closer

LEMMA NextStream == StreamInv /\ [Next]_vars => StreamInv'
  BY NextTypes, NextParts DEF StreamInv

-----------------------------------------------------------------------------
(* Every variable of the stream keeps its type; in particular only a       *)
(* transfer in flight is ever being cancelled.                             *)
THEOREM StreamTypeCorrect == Spec => []TypeOK
<1>1. StreamInv => TypeOK
  BY DEF StreamInv
<1> QED  BY InitStream, NextStream, <1>1, PTL DEF Spec

(* The frame the user's callback is given is one whole frame, although the *)
(* handler thread fills one buffer while the other is copied and swaps the *)
(* two as it likes, and although hold_bfh_err is read without cb_mutex.    *)
THEOREM StreamFrameWhole == Spec => []FrameIsWhole
<1>1. StreamInv => FrameIsWhole
  BY DEF StreamInv, Parts, CopiesFrame, FrameIsWhole
<1> QED  BY InitStream, NextStream, <1>1, PTL DEF Spec

(* _uvc_user_caller() never sleeps over a published frame, nor over the    *)
(* end of the stream without somebody who will broadcast cb_cond.          *)
THEOREM StreamWakesUser == Spec => []WillBeWoken
<1>1. StreamInv => WillBeWoken
  BY DEF StreamInv, Parts
<1> QED  BY InitStream, NextStream, <1>1, PTL DEF Spec

(* When uvc_stream_stop() has run to its end and the stream is freed, no   *)
(* transfer is in flight or in its callback and the user thread has ended, *)
(* however transfers failed, timed out or were cancelled meanwhile.        *)
THEOREM StreamStopsQuiet == Spec => []StoppedIsQuiet
<1>1. StreamInv => StoppedIsQuiet
  BY DEF StreamInv, Parts, TypeOK, InCallback, Stopping, StoppedIsQuiet, Quiet
<1> QED  BY InitStream, NextStream, <1>1, PTL DEF Spec

\* No frame is noted before it is published, or given before it is noted; the one
\* that is being copied cannot be replaced, because the user thread has cb_mutex.
Sequence ==
  /\ holdSeq <= seq /\ lastSeq <= holdSeq /\ frame.seq <= lastSeq
  /\ upc = "populate" => lastSeq = holdSeq

LEMMA SequenceTypes ==
  ASSUME TypeOK
  PROVE  /\ seq \in Int /\ holdSeq \in Int /\ lastSeq \in Int /\ frame.seq \in Int
         /\ [seq |-> holdSeq, parts |-> holdParts].seq = holdSeq
<1>1. frame.seq \in Int
  BY DEF TypeOK, Content, NoFrame
<1> QED  BY <1>1 DEF TypeOK

\* Four steps count frames; the others leave the numbers alone.
LEMMA NextSequence ==
  ASSUME StreamInv, Sequence, [Next]_vars
  PROVE  Sequence' /\ lastSeq' >= lastSeq /\ frame'.seq >= frame.seq
<1>t. /\ seq \in Int /\ holdSeq \in Int /\ lastSeq \in Int /\ frame.seq \in Int
      /\ [seq |-> holdSeq, parts |-> holdParts].seq = holdSeq
  BY SequenceTypes DEF StreamInv
<1>m. upc = "populate" => mutex # Nobody
  BY DEF StreamInv, Parts, MutexHolder, Nobody
<1>1. ASSUME UNCHANGED <<seq, holdSeq, lastSeq, frame>>, upc' = "populate" => upc = "populate"
      PROVE  Sequence' /\ lastSeq' >= lastSeq /\ frame'.seq >= frame.seq
  BY <1>1, <1>t DEF Sequence
<1>2. CASE SwapBuffers
  <2>1. /\ UNCHANGED <<seq, lastSeq, frame>> /\ holdSeq' = seq /\ upc # "populate"
        /\ upc' # "populate"
    BY <1>2, <1>m DEF SwapBuffers, WokenUser
  <2> QED  BY <2>1, <1>t DEF Sequence
<1>3. CASE NextFrame
  <2>1. UNCHANGED <<holdSeq, lastSeq, frame, upc>> /\ seq' = seq + 1
    BY <1>3 DEF NextFrame, holdVars, handlerRest
  <2> QED  BY <2>1, <1>t DEF Sequence
<1>4. CASE TestNewFrame
  <2>1. /\ UNCHANGED <<seq, holdSeq, frame>>
        /\ (lastSeq' = lastSeq /\ upc' # "populate") \/ lastSeq' = holdSeq
    BY <1>4 DEF TestNewFrame, userRest, frameVars, holdVars
  <2> QED  BY <2>1, <1>t DEF Sequence
<1>5. CASE PopulateFields
  <2>1. /\ UNCHANGED <<seq, holdSeq, lastSeq>> /\ upc = "populate" /\ upc' # "populate"
        /\ frame' = frame \/ frame' = [seq |-> holdSeq, parts |-> holdParts]
    BY <1>5 DEF PopulateFields, userRest, frameVars, holdVars
  <2>2. frame'.seq = frame.seq \/ frame'.seq = holdSeq
    BY <2>1
  <2> QED  BY <2>1, <2>2, <1>t DEF Sequence
<1>6. CASE CopyData \/ Deliver \/ UserCbReturns
  BY <1>6, <1>1 DEF CopyData, Deliver, UserCbReturns, userRest, frameVars, holdVars
<1>7. CASE NoDevice \/ ProcessPayload \/ Decide \/ Resubmit \/ DeleteTransfer
  BY <1>7, <1>1 DEF NoDevice, ProcessPayload, Decide, Resubmit, DeleteTransfer, WokenUser,
                    frameVars, holdVars, handlerRest
<1>8. CASE Start \/ StartFails \/ CallClose \/ Unplug \/ Started
  BY <1>8, <1>1 DEF Start, StartFails, CallClose, Unplug, Started, closeRest, userVars, frameVars,
                    holdVars
<1>9. ASSUME NEW t \in Transfers, Submit(t) \/ Reap(t)
      PROVE  Sequence' /\ lastSeq' >= lastSeq /\ frame'.seq >= frame.seq
  BY <1>9, <1>1 DEF Submit, Reap, userVars, frameVars, holdVars, handlerRest
<1>10. CASE StopRunning \/ CancelTransfers \/ WaitForTransfers \/ JoinUserThread \/ FreeStream
  BY <1>10, <1>1 DEF StopRunning, CancelTransfers, WaitForTransfers, JoinUserThread, FreeStream,
                     WokenUser, closeRest, frameVars, holdVars
<1>11. CASE UNCHANGED vars
  BY <1>11, <1>1 DEF vars, userVars, frameVars, holdVars
<1> QED
  BY <1>2, <1>3, <1>4, <1>5, <1>6, <1>7, <1>8, <1>9, <1>10, <1>11
  DEF Next, HandlerStep, Handler, User, Closer

(* The user's callback is given frames in the order of their numbers: none *)
(* older than one it has been given before, however the handler thread     *)
(* swaps the buffers between the steps of the user thread.                 *)
THEOREM StreamInOrder == Spec => FramesInOrder
<1>1. Init => Sequence
  BY DEF Init, Sequence, NoFrame
<1>2. StreamInv /\ Sequence /\ [Next]_vars => Sequence'
  BY NextSequence
<1>3. StreamInv /\ Sequence /\ [Next]_vars => [lastSeq' >= lastSeq /\ frame'.seq >= frame.seq]_vars
  BY NextSequence
<1> QED  BY InitStream, NextStream, <1>1, <1>2, <1>3, PTL DEF Spec, FramesInOrder

-----------------------------------------------------------------------------
(* The capture thread: the inductive invariant, beside FramesOnce.         *)

USE NoneAssumption, AppAssumption, CallsAssumption, CaptureAssumption

\* What a call brings: nothing, a callback object or a window, by its method.
ArgTypes ==
  \A t \in Threads :
    /\ call[t] \in {"none", "stopPreview"} => arg[t] = None
    /\ call[t] = "setFrameCallback" => arg[t] \in Callbacks \cup {None}
    /\ call[t] = "setCaptureDisplay" => arg[t] \in Windows \cup {None}
    /\ tpc[t] = "store" => call[t] = "setCaptureDisplay"

\* capture_mutex is held by the call between its wait and its end, and by the
\* capture thread in the callback.
MutexKept ==
  /\ \A t \in Threads : tpc[t] \in {"signal", "sleep", "set", "store"} => captureMutex = t
  /\ cpc = "onFrame" => captureMutex = Capture /\ obj # None

\* A callback object on its way to mFrameCallbackObj.
Offers(t) ==
  /\ call[t] = "setFrameCallback" /\ arg[t] # None
  /\ tpc[t] \in {"lock", "signal", "sleep", "wake", "set", "store"}

\* The object in use, and each that is on its way, has a reference of its own.
CallbackRefs ==
  /\ obj # None => obj \in refs
  /\ \A t \in Threads : Offers(t) =>
       /\ arg[t] \in refs /\ arg[t] # obj
       /\ \A u \in Threads : Offers(u) /\ arg[u] = arg[t] => u = t

\* The capture thread gives its window back at the end of the surface loop only,
\* and, as long as the history is not hasty, no call is between the two halves of
\* a change meanwhile.  A capture thread is made when there is none.
LoopMode ==
  /\ cpc \in {"leave", "forget"} => mode = "surface"
  /\ ~hasty /\ mode = "surface" => \A t \in Threads : tpc[t] # "store"
  /\ ppc = "start" => cpc \in {"none", "ended"}

\* A window on its way is not the preview's, nor another call's, and a window has
\* one reference for whoever holds it.
WindowHolders ==
  ~hasty => \A w \in Windows :
    /\ \A t \in Threads : Brings(t, w) =>
         window # w /\ \A u \in Threads : Brings(u, w) => u = t
    /\ windowRefs[w] = IF Owns(w) \/ \E t \in Threads : Brings(t, w) THEN 1 ELSE 0

CaptureInv ==
  /\ CaptureTypeOK /\ ArgTypes /\ MutexKept /\ FramesOnce /\ CallbackRefs
  /\ LoopMode /\ WindowHolders

LEMMA InitCapture == CaptureInit => CaptureInv
<1> SUFFICES ASSUME CaptureInit PROVE CaptureInv  OBVIOUS
<1>1. CaptureTypeOK
  <2>1. windowRefs \in [Windows -> Nat]
    BY DEF CaptureInit
  <2>2. tpc \in [Threads -> CallSteps] /\ arg \in [Threads -> Callbacks \cup Windows \cup {None}]
    BY DEF CaptureInit, CallSteps
  <2>3. call \in [Threads -> {"none", "setFrameCallback", "setCaptureDisplay", "stopPreview"}]
    BY DEF CaptureInit
  <2>4. /\ mIsRunning \in BOOLEAN /\ mIsCapturing \in BOOLEAN /\ valid \in BOOLEAN
        /\ hasty \in BOOLEAN /\ captureMutex \in Threads \cup {None, Capture}
        /\ asleep \subseteq Threads \cup {Capture} /\ pool \subseteq Frames
    BY DEF CaptureInit
  <2>5. /\ {queue, pframe, cframe} \subseteq Frames \cup {None}
        /\ {window, locked} \subseteq Windows \cup {None}
        /\ obj \in Callbacks \cup {None} /\ refs \subseteq Callbacks
        /\ starts \in 0 .. MaxStarts /\ sets \in 0 .. MaxSets
    BY DEF CaptureInit
  <2>6. ppc = "none" /\ cpc = "none" /\ mode = "idle"
    BY DEF CaptureInit
  <2> QED  BY <2>1, <2>2, <2>3, <2>4, <2>5, <2>6 DEF CaptureTypeOK
<1>2. ArgTypes /\ MutexKept /\ CallbackRefs /\ LoopMode
  BY DEF CaptureInit, ArgTypes, MutexKept, CallbackRefs, Offers, LoopMode
<1>3. FramesOnce /\ WindowHolders
  BY DEF CaptureInit, FramesOnce, WindowHolders, Owns, Brings
<1> QED  BY <1>1, <1>2, <1>3 DEF CaptureInv


LEMMA CaptureTypes == CaptureInv /\ [CaptureNext]_captureVars => CaptureTypeOK'
<1> SUFFICES ASSUME CaptureTypeOK, ArgTypes, [CaptureNext]_captureVars PROVE CaptureTypeOK'
  BY DEF CaptureInv
<1> USE DEF CaptureTypeOK, flagVars, syncVars, queueVars, objVars, winVars, prevVars, capVars,
            callVars, previewRest, captureRest, setterRest, stopRest, Goto, Signal, Broadcast,
            Recycled, Released, Done, Capture
<1>1. CASE PreviewStep
  <2>1. CASE CreateCaptureThread
    BY <2>1 DEF CreateCaptureThread
  <2>2. CASE SetValid
    BY <2>2 DEF SetValid
  <2>3. CASE PreviewFrame
    BY <2>3 DEF PreviewFrame
  <2>4. CASE AddCaptureFrame
    BY <2>4 DEF AddCaptureFrame
  <2>5. CASE EndPreview
    BY <2>5 DEF EndPreview
  <2> QED  BY <1>1, <2>1, <2>2, <2>3, <2>4, <2>5 DEF PreviewStep
<1>2. CASE CaptureStep
  <2>1. CASE StartCapture
    BY <2>1 DEF StartCapture
  <2>2. CASE TestRunning
    BY <2>2 DEF TestRunning
  <2>3. CASE ChooseLoop
    BY <2>3 DEF ChooseLoop
  <2>4. CASE TestCapturing
    BY <2>4 DEF TestCapturing
  <2>5. CASE WaitCaptureFrame
    BY <2>5 DEF WaitCaptureFrame
  <2>6. CASE TakeCaptureFrame
    BY <2>6 DEF TakeCaptureFrame
  <2>7. CASE DrawCaptureFrame
    BY <2>7 DEF DrawCaptureFrame
  <2>8. CASE PostCaptureFrame
    BY <2>8 DEF PostCaptureFrame
  <2>9. CASE CaptureCallback
    BY <2>9 DEF CaptureCallback
  <2>10. CASE OnFrameReturns
    BY <2>10 DEF OnFrameReturns
  <2>11. CASE ReleaseWindow
    BY <2>11 DEF ReleaseWindow
  <2>12. CASE ForgetWindow
    BY <2>12 DEF ForgetWindow
  <2>13. CASE NotifyCapture
    BY <2>13 DEF NotifyCapture
  <2> QED
    BY <1>2, <2>1, <2>2, <2>3, <2>4, <2>5, <2>6, <2>7, <2>8, <2>9, <2>10, <2>11, <2>12, <2>13
    DEF CaptureStep
<1>3. CASE SpuriousWake
  BY <1>3 DEF SpuriousWake
<1>4. CASE StartPreview
  BY <1>4 DEF StartPreview
<1>5. CASE CallStop
  BY <1>5 DEF CallStop, CallSteps
<1>6. CASE Stopper
  <2>1. CASE ClearIsRunning
    <3>1. tpc' \in [Threads -> CallSteps]
      BY <2>1 DEF ClearIsRunning, CallSteps
    <3>2. /\ mIsRunning' \in BOOLEAN
          /\ UNCHANGED <<stopRest, syncVars, queueVars, window, windowRefs, ppc, valid, capVars>>
      BY <2>1 DEF ClearIsRunning
    <3> QED  BY <3>1, <3>2
  <2>2. CASE SignalStop
    BY <2>2 DEF SignalStop, CallSteps
  <2>3. CASE ExchangeValid
    <3>1. tpc' \in [Threads -> CallSteps]
      BY <2>3 DEF ExchangeValid, CallSteps
    <3>2. /\ valid' \in BOOLEAN
          /\ UNCHANGED <<stopRest, mIsRunning, syncVars, queueVars, window, windowRefs, ppc,
                         capVars>>
      BY <2>3 DEF ExchangeValid
    <3> QED  BY <3>1, <3>2
  <2>4. CASE JoinCaptureThread
    BY <2>4 DEF JoinCaptureThread, CallSteps
  <2>5. CASE JoinPreviewThread
    BY <2>5 DEF JoinPreviewThread, CallSteps
  <2>6. CASE ClearCaptureFrame
    BY <2>6 DEF ClearCaptureFrame, CallSteps
  <2>7. CASE ClearCaptureWindow
    BY <2>7 DEF ClearCaptureWindow, CallSteps
  <2> QED  BY <1>6, <2>1, <2>2, <2>3, <2>4, <2>5, <2>6, <2>7 DEF Stopper
<1>7. ASSUME NEW t \in Threads, CallSetter(t) PROVE CaptureTypeOK'
  BY <1>7 DEF CallSetter, CallSteps
<1>8. ASSUME NEW t \in Threads, Setter(t) PROVE CaptureTypeOK'
  <2>1. CASE LockSetter(t)
    <3>1. tpc' \in [Threads -> CallSteps]
      BY <2>1 DEF LockSetter, CallSteps
    <3>2. /\ captureMutex' = t /\ mIsCapturing' \in BOOLEAN
          /\ UNCHANGED <<setterRest, mIsRunning, asleep, objVars, winVars, call, arg, sets>>
      BY <2>1 DEF LockSetter
    <3> QED  BY <3>1, <3>2
  <2>2. CASE SignalSetter(t)
    BY <2>2 DEF SignalSetter, CallSteps
  <2>3. CASE SleepSetter(t)
    BY <2>3 DEF SleepSetter, CallSteps
  <2>4. CASE WakeSetter(t)
    BY <2>4 DEF WakeSetter, CallSteps
  <2>5. CASE SetCallback(t)
    BY <2>5 DEF SetCallback, CallSteps, ArgTypes
  <2>6. CASE ReplaceWindow(t)
    BY <2>6 DEF ReplaceWindow, CallSteps
  <2>7. CASE StoreWindow(t)
    BY <2>7 DEF StoreWindow, CallSteps, ArgTypes
  <2> QED  BY <1>8, <2>1, <2>2, <2>3, <2>4, <2>5, <2>6, <2>7 DEF Setter
<1>9. CASE UNCHANGED captureVars
  BY <1>9 DEF captureVars
<1> QED  BY <1>1, <1>2, <1>3, <1>4, <1>5, <1>6, <1>7, <1>8, <1>9 DEF CaptureNext

\* Who holds capture_mutex, and what a call brings.
LEMMA CaptureCalls == CaptureInv /\ [CaptureNext]_captureVars => ArgTypes' /\ MutexKept'
<1> SUFFICES ASSUME CaptureTypeOK, ArgTypes, MutexKept, [CaptureNext]_captureVars
             PROVE  ArgTypes' /\ MutexKept'
  BY DEF CaptureInv
<1> USE DEF CaptureTypeOK, CallSteps, ArgTypes, MutexKept, flagVars, syncVars, queueVars, objVars,
            winVars, prevVars, capVars, callVars, Goto
<1>1. CASE PreviewStep \/ SpuriousWake \/ StartPreview \/ UNCHANGED captureVars
  <2>1. /\ UNCHANGED <<tpc, call, arg, obj, captureMutex>>
        /\ cpc' = "onFrame" => cpc = "onFrame"
    BY <1>1 DEF PreviewStep, CreateCaptureThread, SetValid, PreviewFrame, AddCaptureFrame,
       EndPreview, SpuriousWake, StartPreview, captureVars, previewRest
  <2> QED  BY <2>1
<1>2. CASE CaptureStep
  <2>1. UNCHANGED <<tpc, call, arg, obj>>
    BY <1>2 DEF CaptureStep, StartCapture, TestRunning, ChooseLoop, TestCapturing,
       WaitCaptureFrame, TakeCaptureFrame, DrawCaptureFrame, PostCaptureFrame, CaptureCallback,
       OnFrameReturns, ReleaseWindow, ForgetWindow, NotifyCapture, captureRest
  <2>2. CASE CaptureCallback \/ OnFrameReturns
    BY <2>1, <2>2 DEF CaptureCallback, OnFrameReturns
  <2>3. CASE ~(CaptureCallback \/ OnFrameReturns)
    <3>1. captureMutex' = captureMutex /\ cpc' # "onFrame"
      BY <1>2, <2>3 DEF CaptureStep, StartCapture, TestRunning, ChooseLoop, TestCapturing,
         WaitCaptureFrame, TakeCaptureFrame, DrawCaptureFrame, PostCaptureFrame,
         ReleaseWindow, ForgetWindow, NotifyCapture, captureRest
    <3> QED  BY <2>1, <3>1
  <2> QED  BY <2>2, <2>3
<1>3. CASE CallStop
  BY <1>3 DEF CallStop
<1>4. CASE Stopper
  <2>1. /\ UNCHANGED <<call, arg, obj, captureMutex>>
        /\ \A t \in Threads : tpc'[t] # tpc[t] => tpc'[t] \notin {"signal", "sleep", "set", "store"}
        /\ cpc' = "onFrame" => cpc = "onFrame"
    BY <1>4 DEF Stopper, ClearIsRunning, SignalStop, ExchangeValid, JoinCaptureThread,
       JoinPreviewThread, ClearCaptureFrame, ClearCaptureWindow, stopRest
  <2> QED  BY <2>1
<1>5. ASSUME NEW t \in Threads, CallSetter(t) PROVE ArgTypes' /\ MutexKept'
  BY <1>5 DEF CallSetter, setterRest
<1>6. ASSUME NEW t \in Threads, Setter(t) PROVE ArgTypes' /\ MutexKept'
  <2>1. CASE LockSetter(t)
    BY <2>1 DEF LockSetter, setterRest
  <2>2. CASE SignalSetter(t)
    BY <2>2 DEF SignalSetter, setterRest
  <2>3. CASE SleepSetter(t)
    BY <2>3 DEF SleepSetter, setterRest
  <2>4. CASE WakeSetter(t)
    BY <2>4 DEF WakeSetter, setterRest
  <2>5. CASE SetCallback(t)
    BY <2>5 DEF SetCallback, Done, setterRest
  <2>6. CASE ReplaceWindow(t)
    BY <2>6 DEF ReplaceWindow, Done, setterRest
  <2>7. CASE StoreWindow(t)
    BY <2>7 DEF StoreWindow, Done, setterRest
  <2> QED  BY <1>6, <2>1, <2>2, <2>3, <2>4, <2>5, <2>6, <2>7 DEF Setter
<1> QED  BY <1>1, <1>2, <1>3, <1>4, <1>5, <1>6 DEF CaptureNext

\* The frames.
LEMMA CaptureFrames == CaptureInv /\ [CaptureNext]_captureVars => FramesOnce'
<1> SUFFICES ASSUME CaptureTypeOK, FramesOnce, [CaptureNext]_captureVars PROVE FramesOnce'
  BY DEF CaptureInv
<1> USE DEF CaptureTypeOK, FramesOnce, queueVars, prevVars, capVars, Recycled
<1>1. CASE PreviewFrame
  <2>1. pframe' \in pool /\ pool' = pool \ {pframe'} /\ UNCHANGED <<queue, cframe>>
    BY <1>1 DEF PreviewFrame
  <2> QED  BY <2>1
<1>2. CASE AddCaptureFrame
  BY <1>2 DEF AddCaptureFrame
<1>3. CASE StartCapture \/ ClearCaptureFrame
  BY <1>3 DEF StartCapture, captureRest, ClearCaptureFrame, stopRest
<1>4. CASE TakeCaptureFrame
  BY <1>4 DEF TakeCaptureFrame, captureRest
<1>5. CASE CaptureCallback \/ OnFrameReturns
  BY <1>5 DEF CaptureCallback, OnFrameReturns, captureRest
<1>6. CASE CreateCaptureThread \/ SetValid \/ EndPreview \/ SpuriousWake \/ StartPreview \/ CallStop
           \/ UNCHANGED captureVars
  <2>1. UNCHANGED <<queue, pool, pframe, cframe>>
    BY <1>6 DEF CreateCaptureThread, SetValid, EndPreview, SpuriousWake, StartPreview, CallStop,
       captureVars, previewRest
  <2> QED  BY <2>1
<1>7. CASE \/ TestRunning \/ ChooseLoop \/ TestCapturing \/ WaitCaptureFrame \/ DrawCaptureFrame
           \/ PostCaptureFrame \/ ReleaseWindow \/ ForgetWindow \/ NotifyCapture
  <2>1. UNCHANGED <<queue, pool, pframe, cframe>>
    BY <1>7 DEF TestRunning, ChooseLoop, TestCapturing, WaitCaptureFrame, DrawCaptureFrame,
       PostCaptureFrame, ReleaseWindow, ForgetWindow, NotifyCapture, captureRest
  <2> QED  BY <2>1
<1>8. CASE \/ ClearIsRunning \/ SignalStop \/ ExchangeValid \/ JoinCaptureThread
           \/ JoinPreviewThread \/ ClearCaptureWindow
  <2>1. UNCHANGED <<queue, pool, pframe, cframe>>
    BY <1>8 DEF ClearIsRunning, SignalStop, ExchangeValid, JoinCaptureThread, JoinPreviewThread,
       ClearCaptureWindow, stopRest
  <2> QED  BY <2>1
<1>9. ASSUME NEW t \in Threads, CallSetter(t) \/ Setter(t) PROVE FramesOnce'
  <2>1. UNCHANGED <<queue, pool, pframe, cframe>>
    BY <1>9 DEF CallSetter, Setter, LockSetter, SignalSetter, SleepSetter, WakeSetter, SetCallback,
       ReplaceWindow, StoreWindow, setterRest
  <2> QED  BY <2>1
<1> QED
  BY <1>1, <1>2, <1>3, <1>4, <1>5, <1>6, <1>7, <1>8, <1>9
  DEF CaptureNext, PreviewStep, CaptureStep, Stopper

\* The callback objects.
LEMMA CaptureCallbacks == CaptureInv /\ [CaptureNext]_captureVars => CallbackRefs'
<1> SUFFICES ASSUME CaptureTypeOK, ArgTypes, CallbackRefs, [CaptureNext]_captureVars
             PROVE  CallbackRefs'
  BY DEF CaptureInv
<1> USE DEF CaptureTypeOK, CallSteps, ArgTypes, CallbackRefs, Offers, callVars, objVars, Goto
<1>1. CASE PreviewStep \/ CaptureStep \/ SpuriousWake \/ StartPreview \/ UNCHANGED captureVars
  <2>1. UNCHANGED <<tpc, call, arg, obj, refs>>
    <3>1. CASE CaptureStep
      BY <3>1 DEF CaptureStep, StartCapture, TestRunning, ChooseLoop, TestCapturing,
         WaitCaptureFrame, TakeCaptureFrame, DrawCaptureFrame, PostCaptureFrame, CaptureCallback,
         OnFrameReturns, ReleaseWindow, ForgetWindow, NotifyCapture, captureRest
    <3>2. CASE PreviewStep \/ SpuriousWake \/ StartPreview \/ UNCHANGED captureVars
      BY <3>2 DEF PreviewStep, CreateCaptureThread, SetValid, PreviewFrame, AddCaptureFrame,
         EndPreview, SpuriousWake, StartPreview, captureVars, previewRest
    <3> QED  BY <1>1, <3>1, <3>2
  <2> QED  BY <2>1
<1>2. CASE CallStop \/ Stopper
  <2>1. /\ UNCHANGED objVars
        /\ \A t \in Threads : Offers(t)' => Offers(t) /\ arg'[t] = arg[t]
    BY <1>2 DEF CallStop, Stopper, ClearIsRunning, SignalStop, ExchangeValid, JoinCaptureThread,
       JoinPreviewThread, ClearCaptureFrame, ClearCaptureWindow, stopRest
  <2> QED  BY <2>1
<1>3. ASSUME NEW t \in Threads, CallSetter(t) PROVE CallbackRefs'
  BY <1>3 DEF CallSetter
<1>4. ASSUME NEW t \in Threads, SetCallback(t) PROVE CallbackRefs'
  BY <1>4 DEF SetCallback, Done
<1>5. ASSUME NEW t \in Threads,
             \/ LockSetter(t) \/ SignalSetter(t) \/ SleepSetter(t) \/ WakeSetter(t)
             \/ ReplaceWindow(t) \/ StoreWindow(t)
      PROVE  CallbackRefs'
  <2>1. UNCHANGED objVars /\ UNCHANGED <<call, arg>>
    BY <1>5 DEF LockSetter, SignalSetter, SleepSetter, WakeSetter, ReplaceWindow, StoreWindow
  <2>2. \A u \in Threads : Offers(u)' => Offers(u)
    BY <1>5 DEF LockSetter, SignalSetter, SleepSetter, WakeSetter, ReplaceWindow, StoreWindow, Done
  <2> QED  BY <2>1, <2>2
<1> QED  BY <1>1, <1>2, <1>3, <1>4, <1>5 DEF CaptureNext, Setter

\* The surface loop, and the making of a capture thread.
LEMMA CaptureLoops == CaptureInv /\ [CaptureNext]_captureVars => LoopMode'
<1> SUFFICES ASSUME CaptureTypeOK, LoopMode, [CaptureNext]_captureVars PROVE LoopMode'
  BY DEF CaptureInv
<1> USE DEF CaptureTypeOK, CallSteps, LoopMode, winVars, prevVars, capVars, callVars, Goto
<1>1. CASE PreviewStep
  <2>1. UNCHANGED <<tpc, mode, hasty>> /\ (cpc' = cpc \/ cpc' = "start") /\ ppc' # "start"
    BY <1>1 DEF PreviewStep, CreateCaptureThread, SetValid, PreviewFrame, AddCaptureFrame,
       EndPreview, previewRest
  <2> QED  BY <2>1
<1>2. CASE CaptureStep
  <2>1. UNCHANGED <<tpc, ppc>> /\ cpc \notin {"none", "ended"} /\ (hasty => hasty')
    BY <1>2 DEF CaptureStep, StartCapture, TestRunning, ChooseLoop, TestCapturing,
       WaitCaptureFrame, TakeCaptureFrame, DrawCaptureFrame, PostCaptureFrame, CaptureCallback,
       OnFrameReturns, ReleaseWindow, ForgetWindow, NotifyCapture, captureRest
  <2>2. cpc' \in {"leave", "forget"} => mode' = "surface"
    BY <1>2 DEF CaptureStep, StartCapture, TestRunning, ChooseLoop, TestCapturing,
       WaitCaptureFrame, TakeCaptureFrame, DrawCaptureFrame, PostCaptureFrame, CaptureCallback,
       OnFrameReturns, ReleaseWindow, ForgetWindow, NotifyCapture
  <2>3. ~hasty' /\ mode' = "surface" =>
          mode = "surface" \/ \A t \in Threads : tpc[t] # "store"
    BY <1>2 DEF CaptureStep, StartCapture, TestRunning, ChooseLoop, TestCapturing,
       WaitCaptureFrame, TakeCaptureFrame, DrawCaptureFrame, PostCaptureFrame, CaptureCallback,
       OnFrameReturns, ReleaseWindow, ForgetWindow, NotifyCapture
  <2> QED  BY <2>1, <2>2, <2>3
<1>3. CASE SpuriousWake \/ UNCHANGED captureVars
  BY <1>3 DEF SpuriousWake, captureVars
<1>4. CASE StartPreview
  BY <1>4 DEF StartPreview
<1>5. CASE CallStop \/ Stopper
  <2>1. /\ \A t \in Threads : tpc'[t] = "store" => tpc[t] = "store"
        /\ cpc' = cpc \/ cpc' = "none"
        /\ ppc' = ppc \/ ppc' = "none"
        /\ mode' = mode /\ (hasty => hasty')
    BY <1>5 DEF CallStop, Stopper, ClearIsRunning, SignalStop, ExchangeValid, JoinCaptureThread,
       JoinPreviewThread, ClearCaptureFrame, ClearCaptureWindow, stopRest
  <2> QED  BY <2>1
<1>6. ASSUME NEW t \in Threads, CallSetter(t) \/ Setter(t) PROVE LoopMode'
  <2>1. UNCHANGED <<cpc, ppc, mode>>
    BY <1>6 DEF CallSetter, Setter, LockSetter, SignalSetter, SleepSetter, WakeSetter, SetCallback,
       ReplaceWindow, StoreWindow, setterRest
  <2>2. CASE ReplaceWindow(t)
    BY <2>1, <2>2 DEF ReplaceWindow, Done, InSurfaceLoop
  <2>3. CASE ~ReplaceWindow(t)
    <3>1. hasty' = hasty /\ \A u \in Threads : tpc'[u] = "store" => tpc[u] = "store"
      BY <1>6, <2>3 DEF CallSetter, Setter, LockSetter, SignalSetter, SleepSetter, WakeSetter,
         SetCallback, StoreWindow, Done
    <3> QED  BY <2>1, <3>1
  <2> QED  BY <2>2, <2>3
<1> QED  BY <1>1, <1>2, <1>3, <1>4, <1>5, <1>6 DEF CaptureNext

\* A step that changes neither the windows nor who holds them.
LEMMA WindowsFrame ==
  ASSUME WindowHolders, UNCHANGED <<window, windowRefs, call, arg>>, hasty => hasty',
         cpc' = "forget" <=> cpc = "forget",
         \A t \in Threads : tpc'[t] = "store" <=> tpc[t] = "store",
         \A t \in Threads, w \in Windows : Brings(t, w)' <=> Brings(t, w)
  PROVE  WindowHolders'
<1>1. \A w \in Windows : Owns(w)' <=> Owns(w)
  BY DEF Owns
<1> QED  BY <1>1 DEF WindowHolders

\* The windows and their references.
LEMMA CaptureWindows == CaptureInv /\ [CaptureNext]_captureVars => WindowHolders'
<1> SUFFICES ASSUME CaptureTypeOK, ArgTypes, MutexKept, LoopMode, WindowHolders,
                    [CaptureNext]_captureVars
             PROVE  WindowHolders'
  BY DEF CaptureInv
<1> USE DEF CaptureTypeOK, CallSteps
<1>1. CASE PreviewStep \/ SpuriousWake \/ StartPreview \/ UNCHANGED captureVars
  <2>1. /\ UNCHANGED <<window, windowRefs, hasty, tpc, call, arg>>
        /\ cpc' = cpc \/ (ppc = "start" /\ cpc' = "start")
    BY <1>1 DEF PreviewStep, CreateCaptureThread, SetValid, PreviewFrame, AddCaptureFrame,
       EndPreview, SpuriousWake, StartPreview, captureVars, previewRest, winVars, callVars, capVars
  <2> QED  BY <2>1, WindowsFrame DEF LoopMode, Brings
<1>2. CASE ReleaseWindow
  <2> SUFFICES ASSUME ~hasty PROVE WindowHolders'
    BY <1>2 DEF ReleaseWindow, WindowHolders
  <2>1. /\ UNCHANGED <<window, hasty, tpc, call, arg>> /\ cpc = "leave"
        /\ \A t \in Threads : tpc[t] # "store"
    BY <1>2 DEF ReleaseWindow, captureRest, callVars, LoopMode
  <2>2. CASE window = None
    BY <1>2, <2>1, <2>2, WindowsFrame DEF ReleaseWindow, Brings
  <2>3. CASE window # None
    <3>1. cpc' = "forget" /\ windowRefs' = Released(window)
      BY <1>2, <2>3 DEF ReleaseWindow
    <3>2. \A w \in Windows : ~Owns(w)' /\ (Owns(w) <=> window = w)
      BY <2>1, <3>1 DEF Owns
    <3>3. \A t \in Threads, w \in Windows : Brings(t, w)' <=> Brings(t, w)
      BY <2>1 DEF Brings
    <3> QED  BY <2>1, <3>1, <3>2, <3>3 DEF WindowHolders, Released
  <2> QED  BY <2>2, <2>3
<1>3. CASE ForgetWindow
  <2>1. /\ UNCHANGED <<windowRefs, hasty, tpc, call, arg>> /\ cpc = "forget" /\ window' = None
    BY <1>3 DEF ForgetWindow, captureRest, callVars
  <2>2. \A w \in Windows : ~Owns(w) /\ ~Owns(w)'
    BY <2>1 DEF Owns
  <2>3. \A t \in Threads, w \in Windows : Brings(t, w)' <=> Brings(t, w)
    BY <2>1 DEF Brings
  <2> QED  BY <2>1, <2>2, <2>3 DEF WindowHolders
<1>4. CASE CaptureStep /\ ~ReleaseWindow /\ ~ForgetWindow
  <2>1. /\ UNCHANGED <<window, windowRefs, tpc, call, arg>> /\ (hasty => hasty')
        /\ cpc # "forget" /\ cpc' # "forget"
    BY <1>4 DEF CaptureStep, StartCapture, TestRunning, ChooseLoop, TestCapturing,
       WaitCaptureFrame, TakeCaptureFrame, DrawCaptureFrame, PostCaptureFrame, CaptureCallback,
       OnFrameReturns, NotifyCapture, captureRest, winVars, callVars
  <2> QED  BY <2>1, WindowsFrame DEF Brings
<1>5. CASE ClearCaptureWindow
  <2>1. /\ UNCHANGED <<call, arg, cpc, mode>> /\ (hasty => hasty')
        /\ tpc' = [tpc EXCEPT ![App] = "idle"] /\ tpc[App] = "clearWindow" /\ captureMutex = None
        /\ window' = None /\ windowRefs' = Released(window)
    BY <1>5 DEF ClearCaptureWindow, capVars, Goto
  <2>2. \A t \in Threads, w \in Windows : Brings(t, w)' <=> Brings(t, w)
    BY <2>1 DEF Brings
  <2>3. \A t \in Threads : tpc[t] # "store"
    BY <2>1 DEF MutexKept
  <2>4. ~hasty' /\ window # None => cpc # "forget"
    BY <1>5 DEF ClearCaptureWindow, InSurfaceLoop, LoopMode
  <2>5. \A w \in Windows : ~Owns(w)' /\ (~hasty' => (Owns(w) <=> window = w))
    BY <2>1, <2>3, <2>4 DEF Owns
  <2> QED  BY <2>1, <2>2, <2>5 DEF WindowHolders, Released
<1>6. CASE CallStop \/ (Stopper /\ ~ClearCaptureWindow)
  <2>1. /\ UNCHANGED <<window, windowRefs, hasty>>
        /\ cpc' = cpc \/ (cpc = "ended" /\ cpc' = "none")
    BY <1>6 DEF CallStop, Stopper, ClearIsRunning, SignalStop, ExchangeValid, JoinCaptureThread,
       JoinPreviewThread, ClearCaptureFrame, stopRest, winVars, capVars
  <2>2. \A t \in Threads : tpc'[t] = "store" <=> tpc[t] = "store"
    BY <1>6 DEF CallStop, Stopper, ClearIsRunning, SignalStop, ExchangeValid, JoinCaptureThread,
       JoinPreviewThread, ClearCaptureFrame, Goto
  <2>3. \A t \in Threads, w \in Windows : Brings(t, w)' <=> Brings(t, w)
    BY <1>6 DEF CallStop, Stopper, ClearIsRunning, SignalStop, ExchangeValid, JoinCaptureThread,
       JoinPreviewThread, ClearCaptureFrame, Goto, stopRest, Brings
  <2>4. \A w \in Windows : Owns(w)' <=> Owns(w)
    BY <2>1, <2>2 DEF Owns
  <2> QED  BY <2>1, <2>3, <2>4 DEF WindowHolders
<1>7. ASSUME NEW t \in Threads, CallSetter(t) PROVE WindowHolders'
  <2>1. /\ UNCHANGED <<window, hasty, cpc>> /\ tpc[t] = "idle" /\ tpc' = [tpc EXCEPT ![t] = "lock"]
    BY <1>7 DEF CallSetter, setterRest, capVars, Goto
  <2>2. \A w \in Windows : Owns(w)' <=> Owns(w)
    BY <2>1 DEF Owns
  <2>3. \A u \in Threads \ {t}, w \in Windows : Brings(u, w)' <=> Brings(u, w)
    BY <1>7, <2>1 DEF CallSetter, Brings
  <2>4. \A w \in Windows : ~Brings(t, w)
    BY <2>1 DEF Brings
  <2>5. CASE windowRefs' = windowRefs /\ \A w \in Windows : ~Brings(t, w)'
    BY <2>1, <2>2, <2>3, <2>4, <2>5 DEF WindowHolders
  <2>6. ASSUME NEW x \in Windows, windowRefs[x] = 0, x # window, Brings(t, x)',
               windowRefs' = [windowRefs EXCEPT ![x] = 1]
        PROVE  WindowHolders'
    <3>1. \A w \in Windows : Brings(t, w)' <=> w = x
      BY <2>6 DEF Brings
    <3>2. ~hasty => ~Owns(x) /\ \A u \in Threads : ~Brings(u, x)
      BY <2>6 DEF WindowHolders
    <3> QED  BY <2>1, <2>2, <2>3, <2>4, <2>6, <3>1, <3>2 DEF WindowHolders
  <2>7. \/ windowRefs' = windowRefs /\ \A w \in Windows : ~Brings(t, w)'
        \/ \E x \in Windows : /\ windowRefs[x] = 0 /\ x # window /\ Brings(t, x)'
                              /\ windowRefs' = [windowRefs EXCEPT ![x] = 1]
    BY <1>7 DEF CallSetter, Brings, Goto
  <2> QED  BY <2>5, <2>6, <2>7
<1>8. ASSUME NEW t \in Threads,
             \/ LockSetter(t) \/ SignalSetter(t) \/ SleepSetter(t) \/ WakeSetter(t)
             \/ SetCallback(t)
      PROVE  WindowHolders'
  <2>1. UNCHANGED <<window, windowRefs, hasty, cpc, call, arg>>
    BY <1>8 DEF LockSetter, SignalSetter, SleepSetter, WakeSetter, SetCallback, setterRest, winVars,
       capVars
  <2>2. \A u \in Threads : tpc'[u] = "store" <=> tpc[u] = "store"
    BY <1>8 DEF LockSetter, SignalSetter, SleepSetter, WakeSetter, SetCallback, Done, Goto
  <2>3. \A u \in Threads, w \in Windows : Brings(u, w)' <=> Brings(u, w)
    BY <1>8 DEF LockSetter, SignalSetter, SleepSetter, WakeSetter, SetCallback, Done, Goto, Brings
  <2> QED  BY <2>1, <2>2, <2>3, WindowsFrame
<1>9. ASSUME NEW t \in Threads, ReplaceWindow(t) PROVE WindowHolders'
  <2> SUFFICES ASSUME ~hasty, ~hasty' PROVE WindowHolders'
    BY <1>9 DEF ReplaceWindow, WindowHolders
  <2>1. /\ UNCHANGED <<window, cpc, call, arg>> /\ tpc[t] = "set" /\ captureMutex = t
        /\ call[t] = "setCaptureDisplay" /\ arg[t] \in Windows \cup {None}
    BY <1>9 DEF ReplaceWindow, setterRest, capVars, MutexKept, ArgTypes
  <2>2. \A u \in Threads \ {t}, w \in Windows : Brings(u, w)' <=> Brings(u, w)
    BY <1>9, <2>1 DEF ReplaceWindow, Done, Goto, Brings
  <2>3. \A u \in Threads : tpc[u] # "store"
    BY <2>1 DEF MutexKept
  <2>4. CASE window = arg[t]
    <3>1. arg[t] = None
      BY <2>1, <2>4 DEF WindowHolders, Brings
    <3>2. \A w \in Windows : ~Brings(t, w) /\ ~Brings(t, w)'
      BY <2>1, <3>1 DEF Brings
    <3>3. windowRefs' = windowRefs /\ \A u \in Threads : tpc'[u] # "store"
      BY <1>9, <2>1, <2>3, <2>4 DEF ReplaceWindow, Done, Goto
    <3>4. \A w \in Windows : Owns(w)' <=> Owns(w)
      BY <2>1, <2>3, <3>3 DEF Owns
    <3> QED  BY <2>1, <2>2, <3>2, <3>3, <3>4 DEF WindowHolders
  <2>5. CASE window # arg[t]
    <3>1. /\ tpc' = [tpc EXCEPT ![t] = "store"] /\ windowRefs' = Released(window)
          /\ mode # "surface"
      BY <1>9, <2>5 DEF ReplaceWindow, Goto, InSurfaceLoop
    <3>2. \A w \in Windows : Brings(t, w)' <=> Brings(t, w)
      BY <2>1, <3>1 DEF Brings
    <3>3. \A w \in Windows : ~Owns(w)' /\ (Owns(w) <=> window = w)
      BY <2>1, <2>3, <3>1 DEF Owns, LoopMode
    <3> QED  BY <2>1, <2>2, <3>1, <3>2, <3>3 DEF WindowHolders, Released
  <2> QED  BY <2>4, <2>5
<1>10. ASSUME NEW t \in Threads, StoreWindow(t) PROVE WindowHolders'
  <2> SUFFICES ASSUME ~hasty PROVE WindowHolders'
    BY <1>10 DEF StoreWindow, WindowHolders
  <2>1. /\ UNCHANGED <<cpc, call, arg, hasty>> /\ tpc[t] = "store" /\ captureMutex = t
        /\ tpc' = [tpc EXCEPT ![t] = "idle"]
        /\ call[t] = "setCaptureDisplay" /\ arg[t] \in Windows \cup {None}
    BY <1>10 DEF StoreWindow, setterRest, capVars, MutexKept, ArgTypes, Done, Goto
  <2>2. \A u \in Threads \ {t}, w \in Windows : Brings(u, w)' <=> Brings(u, w)
    BY <2>1 DEF Brings
  <2>3. \A w \in Windows : (Brings(t, w) <=> arg[t] = w) /\ ~Brings(t, w)' /\ ~Owns(w)
    BY <2>1 DEF Brings, Owns
  <2>4. \A u \in Threads : tpc'[u] # "store"
    BY <2>1 DEF MutexKept
  <2>5. cpc # "forget"
    BY <2>1 DEF LoopMode
  <2>6. \A w \in Windows : Owns(w)' <=> window' = w
    BY <2>1, <2>4, <2>5 DEF Owns
  <2>7. CASE window' = arg[t] /\ windowRefs' = windowRefs
    BY <2>1, <2>2, <2>3, <2>6, <2>7 DEF WindowHolders
  <2>8. CASE window' = None /\ windowRefs' = Released(arg[t])
    BY <2>1, <2>2, <2>3, <2>6, <2>8 DEF WindowHolders, Released
  <2> QED  BY <1>10, <2>7, <2>8 DEF StoreWindow
<1> QED
  BY <1>1, <1>2, <1>3, <1>4, <1>5, <1>6, <1>7, <1>8, <1>9, <1>10
  DEF CaptureNext, Setter, CaptureStep

LEMMA NextCapture == CaptureInv /\ [CaptureNext]_captureVars => CaptureInv'
  BY CaptureTypes, CaptureCalls, CaptureFrames, CaptureCallbacks, CaptureLoops, CaptureWindows
  DEF CaptureInv

-----------------------------------------------------------------------------
(* Every variable of the capture thread and its callers keeps its type.    *)
THEOREM CaptureTypeCorrect == CaptureSpec => []CaptureTypeOK
<1>1. CaptureInv => CaptureTypeOK
  BY DEF CaptureInv
<1> QED  BY InitCapture, NextCapture, <1>1, PTL DEF CaptureSpec

(* onFrame() is never called on an object whose global reference           *)
(* setFrameCallback() has deleted, whoever woke its single wait, with any  *)
(* number of threads that set callbacks.                                   *)
THEOREM CaptureCallbackLive == CaptureSpec => []OnFrameHasCallback
<1>1. CaptureInv => OnFrameHasCallback
  BY DEF CaptureInv, MutexKept, CallbackRefs, OnFrameHasCallback
<1> QED  BY InitCapture, NextCapture, <1>1, PTL DEF CaptureSpec

(* A frame is the preview thread's, in captureQueu, the capture thread's   *)
(* or in the pool, and in one of them only.                                *)
THEOREM CaptureFramesOnce == CaptureSpec => []FramesOnce
<1>1. CaptureInv => FramesOnce
  BY DEF CaptureInv
<1> QED  BY InitCapture, NextCapture, <1>1, PTL DEF CaptureSpec

(* While no change of the window met the capture thread using one, each    *)
(* capture window has one reference for each of its holders: it is neither *)
(* leaked nor released twice, although do_capture_surface() releases it    *)
(* without capture_mutex.                                                  *)
THEOREM CaptureWindowRefs == CaptureSpec => []WindowRefsExact
<1>1. CaptureInv => WindowRefsExact
  <2> SUFFICES ASSUME CaptureInv, ~hasty, NEW w \in Windows
               PROVE  windowRefs[w] = (IF Owns(w) THEN 1 ELSE 0)
                                        + Cardinality({t \in Threads : Brings(t, w)})
    BY DEF WindowRefsExact
  <2> DEFINE B == {t \in Threads : Brings(t, w)}
  <2>1. CASE B = {}
    <3>1. Cardinality(B) = 0
      BY <2>1, FS_EmptySet
    <3> QED  BY <2>1, <3>1 DEF CaptureInv, WindowHolders
  <2>2. ASSUME NEW t \in Threads, Brings(t, w)
        PROVE  windowRefs[w] = (IF Owns(w) THEN 1 ELSE 0) + Cardinality(B)
    <3>1. B = {t} /\ ~Owns(w) /\ windowRefs[w] = 1
      BY <2>2 DEF CaptureInv, WindowHolders, Owns
    <3>2. Cardinality(B) = 1
      BY <3>1, FS_Singleton
    <3> QED  BY <3>1, <3>2
  <2> QED  BY <2>1, <2>2
<1> QED  BY InitCapture, NextCapture, <1>1, PTL DEF CaptureSpec

=================================================================================
