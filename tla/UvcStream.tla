-------------------------------- MODULE UvcStream --------------------------------
(***************************************************************************)
(* One stream of the libuvc fork (libuvc/src/stream.c), from               *)
(* uvc_stream_start_bandwidth() to uvc_stream_close().                     *)
(*                                                                         *)
(* Three threads share the stream handle.  The event handler thread runs   *)
(* the callbacks of the transfers one after the other: it assembles a      *)
(* frame in outbuf, swaps it with holdbuf, and resubmits the transfer or   *)
(* deletes it.  The user thread copies holdbuf and calls the user's        *)
(* callback.  The thread that closes the stream cancels the transfers,     *)
(* waits until each is deleted, and joins the user thread.  cb_mutex and   *)
(* cb_cond are the only synchronisation; running, hold_bfh_err and seq are *)
(* also read and written without them.                                     *)
(***************************************************************************)
EXTENDS Integers, FiniteSets

CONSTANTS Transfers,     \* strmh->transfers: LIBUVC_NUM_TRANSFER_BUFS of them
          MaxFrames,     \* bound: how many frames the camera sends
          MaxParts,      \* bound: how many payloads a frame has
          MaxRetries     \* bound: how many transfers end without a payload

ASSUME TransfersAssumption == IsFiniteSet(Transfers) /\ Transfers # {}
ASSUME BoundsAssumption == MaxFrames \in Nat /\ MaxParts \in Nat \ {0} /\ MaxRetries \in Nat

Buffers == 0 .. 1
Content == [seq : 0 .. MaxFrames, parts : 0 .. MaxParts]   \* what a buffer holds
NoFrame == [seq |-> -1, parts |-> 0]                       \* frame.data is NULL
Nobody  == "nobody"

VARIABLES
  strmh,       \* the stream handle: "none", "open" or "freed"
  running,     \* strmh->running
  xfer,        \* each transfer: "null" before it is allocated and once deleted,
               \* "idle", "flying", in its "callback", or "lost" when the
               \* resubmission failed
  cancelled,   \* the transfers in flight that libusb is cancelling
  hpc, ht,     \* the handler thread: its step and the transfer whose callback runs
  resubmit,    \* the callback's local of that name
  flipped,     \* is a payload waiting for the swap that its frame ID caused?
  buf, outbuf, \* the two buffers, and which of them is being filled
  seq, bfhErr, \* strmh->seq and bfh_err
  holdSeq, holdParts, holdErr,   \* hold_seq, hold_bytes and hold_bfh_err
  upc, lastSeq,                  \* the user thread: its step and last_seq
  frame, frameData,              \* strmh->frame: its fields and frame.data
  mutex,       \* who holds cb_mutex between two steps
  spc,         \* the thread that opens and closes the stream
  stopped,     \* did uvc_stream_stop() run to its end?
  gone,        \* has the device been unplugged?
  retries      \* how many transfers have ended without a payload

xferVars  == <<xfer, cancelled>>
cbVars    == <<hpc, ht, resubmit, flipped>>
frameVars == <<buf, outbuf, seq, bfhErr>>
holdVars  == <<holdSeq, holdParts, holdErr>>
userVars  == <<upc, lastSeq, frame, frameData, mutex>>
lifeVars  == <<strmh, spc, stopped>>
vars == <<lifeVars, running, xferVars, cbVars, frameVars, holdVars, userVars, gone, retries>>

Init ==
  /\ strmh = "none" /\ running = FALSE /\ spc = "none" /\ stopped = FALSE
  /\ xfer = [t \in Transfers |-> "null"] /\ cancelled = {}
  /\ hpc = "idle" /\ ht = CHOOSE t \in Transfers : TRUE
  /\ resubmit = TRUE /\ flipped = FALSE
  /\ buf = [b \in Buffers |-> [seq |-> 0, parts |-> 0]] /\ outbuf = 0
  /\ seq = 0 /\ bfhErr = FALSE
  /\ holdSeq = 0 /\ holdParts = 0 /\ holdErr = FALSE
  /\ upc = "none" /\ lastSeq = 0 /\ frame = NoFrame /\ frameData = NoFrame
  /\ mutex = Nobody /\ gone = FALSE /\ retries = 0

holdbuf == 1 - outbuf

\* Mutant: the closing thread is not woken.
WokenStopper_Not == spc

\* pthread_cond_broadcast(&strmh->cb_cond): both sleepers look again.
WokenUser    == IF upc = "asleep" THEN "test" ELSE upc
WokenStopper == IF spc = "asleep" THEN "wait" ELSE spc

-----------------------------------------------------------------------------
(* Starting the stream (uvc_start_streaming_bandwidth).                    *)

\* The altsetting is selected, the transfers are allocated, the user thread runs.
Start ==
  /\ spc = "none"
  /\ strmh' = "open" /\ running' = TRUE
  /\ xfer' = [t \in Transfers |-> "idle"]
  /\ upc' = "test" /\ spc' = "submit"
  /\ UNCHANGED <<stopped, cancelled, cbVars, frameVars, holdVars, lastSeq, frame, frameData,
                 mutex, gone, retries>>

\* Nothing usable was found, or the altsetting cannot be set: the stream is
\* closed again, with running = 0.
StartFails ==
  /\ spc = "none"
  /\ strmh' = "open" /\ spc' = "free"
  /\ UNCHANGED <<running, stopped, xferVars, cbVars, frameVars, holdVars, userVars, gone, retries>>

Submit(t) ==
  /\ spc = "submit" /\ xfer[t] = "idle"
  /\ \/ /\ ~gone
        /\ xfer' = [xfer EXCEPT ![t] = "flying"]
        /\ UNCHANGED <<running, spc>>
     \/ /\ running' = FALSE            \* goto fail, and uvc_stream_close()
        /\ spc' = "free"
        /\ UNCHANGED xfer
  /\ UNCHANGED <<strmh, stopped, cancelled, cbVars, frameVars, holdVars, userVars, gone, retries>>

Started ==
  /\ spc = "submit" /\ \A t \in Transfers : xfer[t] # "idle"
  /\ spc' = "started"
  /\ UNCHANGED <<strmh, stopped, running, xferVars, cbVars, frameVars, holdVars, userVars, gone, retries>>

Unplug ==
  /\ strmh = "open" /\ ~gone
  /\ gone' = TRUE
  /\ UNCHANGED <<lifeVars, running, xferVars, cbVars, frameVars, holdVars, userVars, retries>>

-----------------------------------------------------------------------------
(* The handler thread (_uvc_stream_callback).                              *)

handlerRest == <<lifeVars, lastSeq, frame, frameData, mutex, gone>>

\* libusb hands a transfer back: with data, cancelled, failed, or to be retried
\* (timed out, stalled, overflown).
Reap(t) ==
  /\ strmh = "open" /\ hpc = "idle" /\ xfer[t] = "flying"
  /\ ht' = t
  /\ xfer' = [xfer EXCEPT ![t] = "callback"] /\ cancelled' = cancelled \ {t}
  /\ \/ ~gone /\ hpc' = "payload" /\ resubmit' = TRUE /\ UNCHANGED retries
     \/ ~gone /\ retries < MaxRetries /\ retries' = retries + 1
              /\ hpc' = "decide" /\ resubmit' \in BOOLEAN
     \/ t \in cancelled /\ hpc' = "decide" /\ resubmit' = FALSE /\ UNCHANGED retries
     \/ gone /\ hpc' = "noDevice" /\ resubmit' = FALSE /\ UNCHANGED retries
  /\ UNCHANGED <<handlerRest, running, flipped, frameVars, holdVars, upc>>

NoDevice ==
  /\ hpc = "noDevice"
  /\ running' = FALSE /\ hpc' = "decide"
  /\ UNCHANGED <<handlerRest, xferVars, ht, resubmit, flipped, frameVars, holdVars, upc, retries>>

Fill(n) == buf' = [buf EXCEPT ![outbuf] = [seq |-> seq, parts |-> n]]

\* _uvc_process_payload and _uvc_process_payload_iso, for each packet of the
\* transfer: one more part of the frame; a damaged packet, or one that does not
\* fit; the end of the frame by its EOF bit, or by the frame ID of a packet that
\* belongs to the next one (flipped).
ProcessPayload ==
  /\ hpc = "payload"
  /\ LET got == buf[outbuf].parts IN
     \/ /\ got < MaxParts /\ Fill(got + 1)
        /\ UNCHANGED <<hpc, flipped, bfhErr>>
     \/ /\ bfhErr' = TRUE
        /\ UNCHANGED <<hpc, flipped, buf>>
     \/ /\ got > 0 /\ seq < MaxFrames
        /\ hpc' = "swap" /\ flipped' \in BOOLEAN
        /\ UNCHANGED <<buf, bfhErr>>
     \/ /\ hpc' = "decide"
        /\ UNCHANGED <<flipped, buf, bfhErr>>
  /\ UNCHANGED <<handlerRest, running, xferVars, ht, resubmit, outbuf, seq, holdVars, upc, retries>>

\* Mutant: the buffers are swapped without cb_mutex.
SwapBuffers_Unlocked ==
  /\ hpc = "swap"
  /\ outbuf' = holdbuf
  /\ holdSeq' = seq /\ holdParts' = buf[outbuf].parts /\ holdErr' = bfhErr
  /\ upc' = WokenUser /\ spc' = WokenStopper
  /\ hpc' = "swapped"
  /\ UNCHANGED <<strmh, stopped, running, xferVars, ht, resubmit, flipped, buf, seq, bfhErr,
                 lastSeq, frame, frameData, mutex, gone, retries>>

\* Mutant: cb_cond is not broadcast.
SwapBuffers_Silent ==
  /\ hpc = "swap" /\ mutex = Nobody
  /\ outbuf' = holdbuf
  /\ holdSeq' = seq /\ holdParts' = buf[outbuf].parts /\ holdErr' = bfhErr
  /\ hpc' = "swapped"
  /\ UNCHANGED <<strmh, stopped, running, xferVars, ht, resubmit, flipped, buf, seq, bfhErr, upc, spc,
                 lastSeq, frame, frameData, mutex, gone, retries>>

\* _uvc_swap_buffers, under cb_mutex.
SwapBuffers ==
  /\ hpc = "swap" /\ mutex = Nobody
  /\ outbuf' = holdbuf
  /\ holdSeq' = seq /\ holdParts' = buf[outbuf].parts /\ holdErr' = bfhErr
  /\ upc' = WokenUser /\ spc' = WokenStopper
  /\ hpc' = "swapped"
  /\ UNCHANGED <<strmh, stopped, running, xferVars, ht, resubmit, flipped, buf, seq, bfhErr,
                 lastSeq, frame, frameData, mutex, gone, retries>>

\* The rest of _uvc_swap_buffers, without cb_mutex.
NextFrame ==
  /\ hpc = "swapped"
  /\ seq' = seq + 1 /\ bfhErr' = FALSE
  /\ buf' = [buf EXCEPT ![outbuf] = [seq |-> seq + 1, parts |-> IF flipped THEN 1 ELSE 0]]
  /\ flipped' = FALSE /\ hpc' = "payload"
  /\ UNCHANGED <<handlerRest, running, xferVars, ht, resubmit, outbuf, holdVars, upc, retries>>

Decide ==
  /\ hpc = "decide"
  /\ hpc' = IF running /\ resubmit THEN "submit" ELSE "delete"
  /\ UNCHANGED <<handlerRest, running, xferVars, ht, resubmit, flipped, frameVars, holdVars, upc, retries>>

\* The result of libusb_submit_transfer() is not looked at.
Resubmit ==
  /\ hpc = "submit"
  /\ \E r \in {"flying", "lost"} :
       /\ gone => r = "lost"
       /\ xfer' = [xfer EXCEPT ![ht] = r]
  /\ hpc' = "idle"
  /\ UNCHANGED <<handlerRest, running, cancelled, ht, resubmit, flipped, frameVars, holdVars, upc, retries>>

\* _uvc_delete_transfer
DeleteTransfer ==
  /\ hpc = "delete" /\ mutex = Nobody
  /\ xfer' = [xfer EXCEPT ![ht] = "null"]
  /\ upc' = WokenUser /\ spc' = WokenStopper
  /\ hpc' = "idle"
  /\ UNCHANGED <<strmh, stopped, running, cancelled, ht, resubmit, flipped, frameVars, holdVars,
                 lastSeq, frame, frameData, mutex, gone, retries>>

-----------------------------------------------------------------------------
(* The user thread (_uvc_user_caller).                                     *)

userRest == <<lifeVars, running, xferVars, cbVars, frameVars, holdVars, gone, retries>>

\* With cb_mutex: sleep, end, or take note of the new frame and keep the mutex.
TestNewFrame ==
  /\ upc = "test" /\ mutex = Nobody /\ strmh = "open"
  /\ CASE ~running -> upc' = "ended" /\ UNCHANGED <<lastSeq, mutex>>
       [] running /\ lastSeq = holdSeq -> upc' = "asleep" /\ UNCHANGED <<lastSeq, mutex>>
       [] OTHER -> upc' = "populate" /\ lastSeq' = holdSeq /\ mutex' = "user"
  /\ UNCHANGED <<userRest, frame, frameData>>

\* _uvc_populate_frame, for a frame that is not damaged: its fields, ...
PopulateFields ==
  /\ upc = "populate"
  /\ IF holdErr
       THEN upc' = "deliver" /\ mutex' = Nobody /\ UNCHANGED frame
       ELSE upc' = "copy" /\ frame' = [seq |-> holdSeq, parts |-> holdParts] /\ UNCHANGED mutex
  /\ UNCHANGED <<userRest, lastSeq, frameData>>

\* ... and its data; then the mutex is given back.
CopyData ==
  /\ upc = "copy"
  /\ frameData' = buf[holdbuf]
  /\ upc' = "deliver" /\ mutex' = Nobody
  /\ UNCHANGED <<userRest, lastSeq, frame>>

\* hold_bfh_err is read again, without the mutex.
Deliver ==
  /\ upc = "deliver" /\ strmh = "open"
  /\ upc' = IF holdErr THEN "test" ELSE "userCb"
  /\ UNCHANGED <<userRest, lastSeq, frame, frameData, mutex>>

UserCbReturns ==
  /\ upc = "userCb" /\ strmh = "open"
  /\ upc' = "test"
  /\ UNCHANGED <<userRest, lastSeq, frame, frameData, mutex>>

-----------------------------------------------------------------------------
(* Closing the stream (uvc_stream_close and uvc_stream_stop).              *)

closeRest == <<xfer, cbVars, frameVars, holdVars, lastSeq, frame, frameData, gone, retries>>

CallClose ==
  /\ spc = "started"
  /\ spc' = IF running THEN "stop" ELSE "free"
  /\ UNCHANGED <<closeRest, mutex, strmh, stopped, running, cancelled, upc>>

StopRunning ==
  /\ spc = "stop"
  /\ spc' = IF running THEN "cancel" ELSE "free"
  /\ running' = FALSE
  /\ UNCHANGED <<closeRest, mutex, strmh, stopped, cancelled, upc>>

\* libusb_cancel_transfer() has an effect on transfers in flight only.
CancelTransfers ==
  /\ spc = "cancel" /\ mutex = Nobody
  /\ cancelled' = {t \in Transfers : xfer[t] = "flying"}
  /\ spc' = "wait" /\ mutex' = "closer"
  /\ UNCHANGED <<closeRest, strmh, stopped, running, upc>>

\* Mutant: the wait ends with the first transfer that is deleted.
WaitForTransfers_Any ==
  /\ spc = "wait" /\ mutex # "user"
  /\ mutex' = Nobody
  /\ IF \E t \in Transfers : xfer[t] = "null"
       THEN spc' = "join" /\ upc' = WokenUser
       ELSE spc' = "asleep" /\ UNCHANGED upc
  /\ UNCHANGED <<closeRest, strmh, stopped, running, cancelled>>

\* When every transfer is deleted the user thread is kicked awake; otherwise
\* pthread_cond_wait() gives the mutex back.
WaitForTransfers ==
  /\ spc = "wait" /\ mutex # "user"
  /\ mutex' = Nobody
  /\ IF \A t \in Transfers : xfer[t] = "null"
       THEN spc' = "join" /\ upc' = WokenUser
       ELSE spc' = "asleep" /\ UNCHANGED upc
  /\ UNCHANGED <<closeRest, strmh, stopped, running, cancelled>>

JoinUserThread ==
  /\ spc = "join" /\ upc = "ended"
  /\ spc' = "free" /\ stopped' = TRUE
  /\ UNCHANGED <<closeRest, mutex, strmh, running, cancelled, upc>>

\* The buffers, the mutex and the handle are freed.
FreeStream ==
  /\ spc = "free"
  /\ strmh' = "freed" /\ spc' = "closed"
  /\ UNCHANGED <<closeRest, mutex, stopped, running, cancelled, upc>>

-----------------------------------------------------------------------------
Handler ==
  NoDevice \/ ProcessPayload \/ SwapBuffers \/ NextFrame \/ Decide \/ Resubmit \/ DeleteTransfer

\* What the handler thread does with a freed stream is undefined and ends here.
HandlerStep == strmh = "open" /\ Handler

User == TestNewFrame \/ PopulateFields \/ CopyData \/ Deliver \/ UserCbReturns

Closer ==
  StopRunning \/ CancelTransfers \/ WaitForTransfers \/ JoinUserThread \/ FreeStream
    \/ Started \/ \E t \in Transfers : Submit(t)

Next ==
  \/ Start \/ StartFails \/ CallClose \/ Unplug
  \/ \E t \in Transfers : Reap(t)
  \/ HandlerStep \/ User \/ Closer

Spec == Init /\ [][Next]_vars

\* Every thread that can go on does; a transfer in flight ends (it has a timeout
\* of five seconds); the user's callback returns.
FairSpec ==
  /\ Spec
  /\ WF_vars(HandlerStep) /\ WF_vars(User) /\ WF_vars(Closer)
  /\ WF_vars(\E t \in Transfers : Reap(t))

-----------------------------------------------------------------------------
TypeOK ==
  /\ strmh \in {"none", "open", "freed"} /\ running \in BOOLEAN /\ stopped \in BOOLEAN
  /\ xfer \in [Transfers -> {"null", "idle", "flying", "callback", "lost"}]
  /\ \A t \in cancelled : t \in Transfers /\ xfer[t] = "flying"
  /\ hpc \in {"idle", "payload", "noDevice", "swap", "swapped", "decide", "submit", "delete"}
  /\ ht \in Transfers /\ resubmit \in BOOLEAN /\ flipped \in BOOLEAN
  /\ buf \in [Buffers -> Content] /\ outbuf \in Buffers
  /\ seq \in 0 .. MaxFrames /\ bfhErr \in BOOLEAN
  /\ holdSeq \in 0 .. MaxFrames /\ holdParts \in 0 .. MaxParts /\ holdErr \in BOOLEAN
  /\ upc \in {"none", "test", "asleep", "populate", "copy", "deliver", "userCb", "ended"}
  /\ lastSeq \in 0 .. MaxFrames
  /\ frame \in Content \cup {NoFrame} /\ frameData \in Content \cup {NoFrame}
  /\ mutex \in {Nobody, "user", "closer"}
  /\ spc \in {"none", "submit", "started", "stop", "cancel", "wait", "asleep", "join",
              "free", "closed"}
  /\ gone \in BOOLEAN /\ retries \in 0 .. MaxRetries

Quiet ==
  /\ \A t \in Transfers : xfer[t] \notin {"flying", "callback"}
  /\ upc \in {"none", "ended"} /\ hpc = "idle"

\* After uvc_stream_stop() nothing uses the stream that uvc_stream_close() frees:
\* no transfer is in flight or in its callback, and the user thread has ended.
StoppedIsQuiet == strmh = "freed" /\ stopped => Quiet

\* The same for every way to close, as "@pre Streaming must be stopped, and
\* threads must have died" asks.  After a failed submission or an unplugged device
\* the code does not keep this (README 7).
ClosedIsQuiet == strmh = "freed" => Quiet

\* What the user's callback is given is one frame: the data are those of the
\* frame whose fields go with them, complete up to the byte count, although the
\* handler thread goes on filling and swapping the buffers.
FrameIsWhole == upc = "userCb" => frameData = frame

\* The user thread never sleeps over a published frame or over the end of the
\* stream: whoever changes holdSeq wakes it, and whoever clears running will.
WillBeWoken ==
  upc = "asleep" =>
    /\ lastSeq = holdSeq
    /\ running \/ hpc \in {"decide", "delete"} \/ spc \in {"cancel", "wait", "asleep", "free", "closed"}

\* Frames are delivered in order: the user thread never takes note of an older
\* frame, and what the callback is given never goes back, although hold_bfh_err,
\* read again without the mutex, may let the same frame through twice.
FramesInOrder == [][lastSeq' >= lastSeq /\ frame'.seq >= frame.seq]_vars

\* uvc_stream_stop() returns: every transfer is handed back and deleted, and the
\* user thread ends -- unless a transfer was lost because its resubmission failed.
StopReturns ==
  spc = "cancel" ~> (strmh = "freed" \/ \E t \in Transfers : xfer[t] = "lost")
==============================================================================
