# UVCCamera: a TLA+ model of its concurrent parts

This directory models the concurrent parts of UVCCamera: the C++ code under
`src/lib/src/main/jni/UVCCamera` that carries frames from libuvc's callback to the
screen, the JNI boundary through which Java threads reach it, the libuvc fork that
runs the USB stream and the device, and the Java camera thread with its movie
recording (`usbCameraCommon`). Line numbers refer to the file named next to them.

Contents: 1 the system, 2 modules and code, 3 runs, 4 bounds, 5 assumptions and
fairness, 6 proofs, 7 what the models found, 8 what is not modelled, 9 plan.

## 1. The system

A UVC camera is opened by Java, which hands a file descriptor to the native
`UVCCamera`. libuvc's own thread calls `uvc_preview_frame_callback` for each frame.
From there a frame goes one of two ways:

```
 libusb events -> libuvc stream.c (double buffer, callback thread)
     |
     v  uvc_preview_frame_callback            (USB callback thread)
     |-- ring mode, injected ring --> pending queue (4 slots, lock-free) --eventfd-->
     |                                   do_conversion_loop           (conversion thread)
     |                                   -> triple buffer of AHardwareBuffers
     |                                   -> acquire/release over JNI  (GL thread)
     |                                   -> captureToFd               (any thread)
     |-- otherwise --> previewFrames (MAX_FRAME = 8) --> do_preview   (preview thread)
                                         -> own ring, or draw_preview_one -> ANativeWindow
                                         -> captureQueue              (capture thread) -> Java
```

Everything is started, stopped and rewired from Java threads while frames flow:
rings are allocated, injected and destroyed, surfaces attached and detached, the
preview started and stopped, the whole native object destroyed.

### Inventory

For each part: its state, its operations, what makes it hard, and what makes it
correct. "Modelled" names the module.

| part | state | operations | hard because | correct when | module |
|---|---|---|---|---|---|
| `HandleManager.h`, JNI create/destroy | 64 slots of generation, count, context; the search hint | `registerContext`, `acquire`, `~ScopedRef`, `invalidateAndFree` | no lock; Java threads race destruction; bounded drain; slots are reused | nobody uses a freed object; counts are exact; a handle names its own object; a stale handle stays stale | HandleManager |
| pending queue (`FrameBufferRing.cpp` 840-1039) | two indices, four slots, an eventfd | `enqueuePendingFrame`, `dequeuePendingFrame`, `completePendingFrame`, `signal/waitForSignal` | lock-free single producer, single consumer; conversion in place; wake-ups | a bounded FIFO of whole frames, no lost wake-up | PendingQueue, BoundedFifo |
| triple buffer (`FrameBufferRing.cpp` 200-520) | write, read and latest index; metadata, lock flag, fence and references of each slot | `lockWriteBuffer`, `unlockWriteBuffer`, `cancelWriteBuffer`, `acquireReadBuffer`, `releaseReadBuffer`, `setGpuReleaseFence`, `captureToFd` | producer and readers decide on each other's indices; GPU fences time out | readers and the GPU see whole frames; references balance; the producer is not stalled by a slot nobody reads | FrameRing, LatestFrame |
| ring lifecycle (`UVCPreview.cpp` 395-520, 1540-1910, 2740-3006) | `mUseRingBuffer`, `mRingBufferInjected`, `mFrameBufferRing`, `mCallbacksInFlight`, thread flags | `allocateRingBuffer`, `destroyRingBuffer`, `setFrameBufferRing`, `setUseRingBuffer`, `startPreview`, `stopPreview`, `clearRingBuffer` | four threads hold raw pointers to a ring that one of them deletes | the preview deletes live rings only, never under a user; every join ends | RingTeardown |
| surface changes (`UVCPreview.cpp` 880-1110, 2085-2230) | `mPreviewWindow`, `mPreviewState`, `mSwappingSurface`, `mIsRenderIdle`, two condition variables | `attachSurface`, `detachSurface`, `setPreviewDisplay`, the handshake in `do_preview` | a two-way handshake between mutexes, atomics and condition variables, with a timeout on one side only | windows released exactly once, nothing drawn to a released one, both sides return | SurfaceSwap |
| capture thread (`UVCPreview.cpp` 265-330, 1205-1440) | `captureQueu`, `mIsCapturing`, `capture_sync`, `mFrameCallbackObj`, `mCaptureWindow` | `addCaptureFrame`, `waitCaptureFrame`, `do_capture`, `setFrameCallback`, `setCaptureDisplay` | one condition variable for two purposes, waits without predicates, signals without the mutex | stop returns, a callback object is not used after it was replaced, each frame in one place, windows released once | CaptureThread |
| capture callback (dual emit) | a Java global reference, method ids, format | `setCaptureCallback`, `clearCaptureCallback`, `emitCaptureFrame` | the reference is deleted while the conversion thread may call it | no call through a deleted reference (the code does not ensure it, section 8) | |
| frame pool, telemetry | `mFramePool`; relaxed counters | `get_frame`, `recycle_frame`; increments | little: one mutex; no decision depends on a counter | each frame in one place | the capture frames in CaptureThread |
| `UVCCamera` (C++) with `uvc_open`, `uvc_close`, `uvc_exit` | the descriptor, the context, the device and its references, the device handle, preview and callbacks, the telemetry pointer | `connect`, `release`, `cleanup`, `hardReset`, destructor; libuvc's handler thread | a connect fails half-way; a camera is connected again; a thread of libuvc is joined | descriptors and references balance, the handler thread lives exactly as long as the open handle | CameraConnection |
| libuvc `stream.c` | two buffers, `running`, condition variable, transfers | transfer callback, `_uvc_swap_buffers`, user callback thread, `uvc_stream_stop` | three threads; transfers cancelled while they complete; the device is unplugged | the user sees whole frames, sleeps over none, stop returns and leaves nothing running | UvcStream |
| recording (`usbCameraCommon` encoders, muxer) | two encoders with a thread each, a muxer they share, requests | start, stop, `drain`, `release`, `onStopped` | two threads join and leave a muxer in any order; requests come between two blocks | the muxer runs exactly while both are in; the camera does not draw on a released surface | Recording |
| camera handler (`usbCameraCommon`) | a message queue, a camera thread, flags read by other threads | open, close, start and stop of preview and recording, still pictures, release | a blocking call waits on a thread that may be busy or end; recordings end later, on their own threads | the blocking call is woken when the preview has stopped; the thread ends after release | CameraHandler, with Recording inside |
| output mode, `forceStop` | `mOutputMode`, flags derived from it | `setOutputMode`, `forceStop` | skips the joins | no thread outlives the object | hard reset and cleanup in CameraConnection, the rest not |
| status, button, readiness callbacks | a Java global reference each | `setCallback`, `callback` from libuvc threads | the object may be deleted before the thread ends | as for the capture callback | the callback step in CameraConnection |
| `USBMonitor.java`, Flutter plugin and controller | device maps, permission requests, control blocks, camera resources | registration, broadcasts, open, close | main thread, handler thread and broadcasts share maps with check-then-put | section 8 | |
| rendering (`usbCameraCommon`), layout contract, `Parameters.cpp`, old pipelines, samples, vendored libraries | none, unused, or requests to one task | | | | not modelled |

### How the parts interact

* Calls: Java reaches every native operation through a handle; the JNI function holds
  a `ScopedRef` for the length of the call, and `nativeDestroy` waits for it.
* Shared atomics: the flags of RingTeardown and SurfaceSwap and the indices of the
  two buffers are read without a lock.
* Joins: `stopPreview` joins the capture, the conversion and the preview thread; the
  preview thread joins libuvc's user thread in `uvc_stop_streaming`; `uvc_close` joins the
  handler thread. UvcStream shows that the second of these joins ends, which RingTeardown
  and SurfaceSwap take for granted, CameraConnection when the handler thread is there to let it.
* Messages: the camera handler's queue, and the delayed message an ending recording sends.
* Wake-ups: the eventfd (callback to conversion thread), `preview_sync` (callback to
  preview thread), `mRenderThreadIdleCond` and `mSwappingCond` (surface handshake).

## 2. Modules and code

Every atomic access that another thread can observe is an action of its own; code
between two such accesses, and code under a mutex that is not released in the
middle, is one action. Accesses of data that take time (copying a frame, converting
it, drawing) have a beginning and an end. `PROJECT.json` maps each definition to its
lines.

### HandleManager

`generation`, `activeRefs`, `context` are the fields of `HandleSlot`, `hint` is
`mNextFreeHint`; `object` is the heap, `issued` the handles Java may hold a copy of, and
`nativePtr` the field `mNativePtr` of each wrapper. A user's steps `EnterAcquire`, `CountRef`,
`LoadGeneration`, `LoadContext`, `DropRef` are the accesses of `acquire()` and of the
destructor of its `ScopedRef`. The handle is one that was returned, or the 0 of a wrapper without
an object, which passes the `< 0` test. `CountRef` is the moment the `fetch_add` takes effect,
`counted` whether it has: with `memory_order_acquire` the loads that follow in the
program need not wait for it, and in the model they need not. `exposed` is a history, read by no
action: the callers whose loads passed their own `fetch_add`, and those whom a drain that gives up
after ten seconds (`GiveUpDrain`) leaves behind. An owner registers (`Create`, `ProbeGeneration`,
`ProbeContext`, `ClaimSlot`, `PublishGeneration`, `ReturnHandle`) or invalidates
(`Destroy`, `CheckGeneration`, `MarkDead`, `Drain` or `GiveUpDrain`, `TakeContext`, `Delete`). A refused
registration deletes the object, as `nativeCreate` does. An address is not reused:
`Ctx` is the identity of an object, not a pointer value. The generation is an
unbounded natural number; it is bounded in a run by the number of objects. (In the
code it is 32 bits wide; a wrap needs 2^31 registrations of one slot.)

### PendingQueue and BoundedFifo

The producer's steps are those of `enqueuePendingFrame` and `signalConversionThread`;
the consumer's are the loop of `do_conversion_loop` with `dequeuePendingFrame`,
`completePendingFrame` and `waitForSignal`. A frame is its number; a buffer being
overwritten holds `Torn`. `eventFd` is whether the counter is above zero, which is all
`poll` looks at. `BoundedFifo` is what the queue promises: frames are accepted in order
while there is room, refused and counted otherwise, and each one that waits is
removed. `PendingQueue` implements it: the queue is the window of slots between the
two indices, and a frame is decided when it is published or refused.

### FrameRing and LatestFrame

The slots' metadata, the three indices, the lock flags, the release fences and the
references are the fields of `FrameBufferRing`. The producer's steps follow
`lockWriteBuffer` (fence, then lock flag, then `AHardwareBuffer_lock`, which may fail),
`unlockWriteBuffer` (metadata, mailbox, next slot) and `cancelWriteBuffer`. A reader's
follow `acquireReadBuffer`; `Release` is `releaseReadBuffer`, which works on the shared
`mReadIndex`; `SetGpuReleaseFence` is the first half of
`nativeFrameBufferReleaseWithFence`, which looks for the frame by its number. A capture is one
more reader. Every reader may be preempted between its accesses, between the load of
`mLatestCompleted` (`LoadLatest`, line 409) and the store of `mReadIndex` (`StoreReadIndex`, 434) in
particular, and a fence may be late (`FenceTimesOut`). Three histories, read by no action, say what
the ring still protects. `lost` are the readers of which it has lost sight: the producer looked at
`mReadIndex` between the two accesses (`ChooseNext`, `Overtaken`), or another reader has stored
another slot there since (`Displaced`). `crossed` tells whether that second thing has ever happened,
`gpuReads` which frame the GPU is still to read from a slot: until its fence signals, the wait
for it times out, or a later release takes the fence away. `LatestFrame` is what the ring promises: a mailbox of one frame, with three instants,
the publication of the next frame, the acquisition of the newest, the release. `FrameRing`
implements it: the newest frame is what the pixels of the slot `mLatestCompleted` show, the held
one what those of the renderer's slot show from `LoadLatest` until `Release` or until the ring loses
the renderer, so that a torn or overwritten buffer would be seen as a step the mailbox does not have.
`Publish` and `LoadLatest` are the instants of publication and acquisition.

### RingTeardown

One process per thread: `cb` (libuvc's callback), `conv` (conversion), `pv` (preview)
and `app` (the Java thread in one of the preview's methods), each with a step and, for
the first three, the ring pointer it holds. Each method of the application is the
sequence of its stores to the flags; `ClearUse`, `ClearInjectedFlag`, `Drain`,
`ExchangeRing` and `DeleteOld` are `clearRingBuffer` inside `stopPreview`. Allocations and
thread creations may fail. `heap` is the rings' life, `deletes` counts how often the preview has
deleted each, `destroyed` are those their owner has destroyed, `handles` the rings
the application has a handle to. `NativeFrameBufferDestroy` takes any of them that the preview does not have, also
one that `stopPreview` has deleted: the handle knows nothing of the preview. The constant `Calls` is the set of methods the
application uses, which is how the contract is varied.

### SurfaceSwap

`swap`, `op`, `arg` are the owner of the surface inside `attachSurface` or
`detachSurface`: mutex, flag, test of the wait's predicate, going to sleep, waking,
change, end. `ctl` is the second thread, which starts and stops the preview and calls
`setPreviewDisplay`. `pv` is `do_preview`: the test of `mSwappingSurface`, the
announcement, the notification sent without `mSwapMutex`, parking, the local copy of
`mPreviewState`, and the frame. A sleeper is woken only if it sleeps when the
notification is sent. `refs` counts the references to each window. `orderly` is a
history variable: it records whether every change so far found the preview thread
parked or ended, which `HotHasWindow` needs (section 7).

### CameraConnection

A camera is its native object, its calling thread (`pc`, `call`) and the handler thread of
its libuvc context (`thread`). `connect` goes through `PrepareConnect` (mUsbFs, context,
`dup`), `LookUpDevice`, `OpenHandle` or `OpenFails`, `CreateHelpers`; each may fail, and
`FailConnect` is what `connectSimple` does then. Closing goes through `StopPreview`,
`DeleteHelpers`, `KillHandlerThread`, `CloseUsb`, `JoinHandlerThread`, `FreeHandle`,
`UnrefDevice`, `CloseFd` and `ExitContext`, and each of `release`, `cleanup` with its level,
`hardReset` and the destructor takes its part of the way. `owner` is the process's table of
descriptors, in which `dup` takes the lowest free number, so that a descriptor closed
once too often is somebody else's. `refs` counts all references to the camera's devices that are not
given back, those to devices nobody knows any more included. Three histories: `overwritten` counts the
connects that overwrote an `mDevice` still set, `mine` says whether `mFd` is a descriptor
`connect` made, or none after one that failed, and `stray` whether a camera that had none has
closed the 0 in its `mFd`. `HandleStatus`, `StatusHandled` and `TestKill` are
`_uvc_handle_events`; it runs callbacks under libusb's event lock, which `libusb_close`
waits for. A camera in `Reused` is connected again after it was released; any other gets
a new object for each connection.

### UvcStream

`hpc` is the handler thread in `_uvc_stream_callback`: a transfer is taken back (`Reap`,
with data, cancelled, to be retried, or because the device is gone), its payload goes to
`outbuf`, a complete frame is swapped (`SwapBuffers` under `cb_mutex`, `NextFrame` after
it), and the transfer is submitted again or deleted. `upc` is `_uvc_user_caller`, `spc` the
thread in `uvc_stream_start_bandwidth`, `uvc_stream_stop` and `uvc_stream_close`. A buffer
holds the number of its frame and how many payloads it has, so a frame mixed from two, or
cut short, is seen. `mutex` is who holds `cb_mutex` between two steps.

### CaptureThread

`ppc` is the part of `do_preview` that makes the capture thread and hands it frames, `cpc`
and `mode` the capture thread in its two inner loops, `tpc`, `call` and `arg` an application
thread in `setFrameCallback`, `setCaptureDisplay` or, for `App`, `stopPreview`. `asleep` is
who sleeps on `capture_sync`: a signal wakes any one of them, a broadcast all, and
`SpuriousWake` one for no reason. `refs` are the callback objects with a global reference.
`hasty` is a history variable: a window was changed while the capture thread was using one,
as may happen because the single wait of `setCaptureDisplay` goes on whoever woke it
(section 7); `WindowRefsExact` is about the histories without.

### Recording and CameraHandler

In Recording, a recording `r` is one muxer and two encoders `<<r, Video>>`, `<<r, Audio>>`, each a
thread: `loop`, `sleep`, `asleep` and `drain` are the two synchronized blocks of
`MediaEncoder.run` and its `drain`, `join` and `await` the start of the muxer,
`stopped`, `release` and `leave` its `release()`. `file` is the MediaMuxer behind the
muxer, which throws when it is used in the wrong state; `count` is `mStatredCount`.
`Collect` takes a muxer to which only the encoders' weak references are left, `CollectView` the view
of `mWeakCameraView`. A stop is a sequence: `StopRecording(w)` forgets the muxer and stops the
capture, `StopEncoder(w, e)` then asks each encoder of `asks[w]`. `w` is the camera thread (`Own`), or
the recording on whose encoder's thread the listener's `onStopped` runs `handleRelease` (`closing` is
its step, `GoOn` what it does after the stop).
CameraHandler extends it with the camera thread and the application: `queue` holds the messages,
`doing` and `step` the one in work, `delayed` the messages to come in a second. Its actions contain
Recording's where the code calls them (`EndRecording` is `handleStopRecording`, `Record` is
`handleStartRecording`, `EncoderStopped` the listener's `onStopped` around the encoder's own), and
leave them alone where not, so a step of the composition is a step of
Recording or none; one run checks the properties of both. `ListenerEnds`, `ListenerTakes`,
`ListenerDestroys` and `ListenerReleases` are `handleRelease` on the encoder's thread. `streaming` is
the set of the cameras that draw on the application's surface: the handler's own (`Own`), and one a listener
has taken and not yet stopped. `unheard` is a history: a recording has ended, and `onStopped` has sent
no update, because the view was collected and it threw, or the muxer was and there is no path. `Script`
says which calls the application may make first, second and so on. An application's call goes on step by step (`IsOpened`,
`RemoveStart`, `IsPreviewing`, `SendStop`, `Woken`, `SendClose`, `SendRelease`), each
reading flags the camera thread may change in between.

## 3. Runs

`MC<Module>.tla` only extends the module (MCHandleManager adds the symmetry set, MCCameraHandler the
value of `Script`); the configurations hold the values.

| run | question | result |
|---|---|---|
| handle_lifecycle | callers and one lifecycle thread on a table whose slots are reused, drains that give up, loads that pass the `fetch_add`: `NoUseAfterFree`, `HandleNamesItsObject`, `TableMatchesHeap`, `StaleStaysStale` | holds, 4,560,945 states |
| queue_fifo | `ConvertsWholeFrame`, `NoLostSignal`, and the refinement `ImplementsFifo` with its liveness | holds, 91,013 states |
| ring | a renderer and a capture, preempted anywhere, fences in time and late: `ReaderSeesWholeFrame`, `GpuSeesWholeFrame`, `RefsMatchHolders`, and the refinement `ImplementsMailbox` | holds, 5,646,684 states |
| teardown | an application that injects its own rings: `CallbackRingIsLive`, and `CallsReturn` (liveness) | holds, 55,024 states |
| teardown_own_ring | every method, drain may time out: `DeletesLiveRings`, `NothingDanglesOrLeaks`, `StoppedIsQuiet` | holds, 136,715 states |
| teardown_stop | does the conversion thread's ring outlive it? | `ConversionRingIsLive` violated |
| surface | swaps against a running preview: `WindowRefsExact`, `DrawsOnLiveWindow`, and `DetachReturns`, `ParkedResumes` (liveness) | holds, 469,089 states |
| camera | two cameras, failing connects, every order of releasing: `HandlerWithinHandle`, `DeviceRefsExact`, `OwnsItsFd`, `NoFdLeaks`, `HandlerRuns`, and `CallsReturn` (liveness) | holds, 576,153 states |
| camera_reconnect | has a camera that was released and connected again a handler thread? | `HandlerAlwaysRuns` violated |
| stream | frames, retries, unplugging and closing at any time: `FrameIsWhole`, `WillBeWoken`, `StoppedIsQuiet`, and `StopReturns` (liveness) | holds, 1,514,889 states |
| capture | callbacks and windows set by two threads while frames come and the preview stops: `OnFrameHasCallback`, `FramesOnce`, `WindowRefsExact`, and `StopPreviewReturns` (liveness) | holds, 721,298 states |
| camera_handler | the camera thread with a recording inside it, whose view and muxer may be collected: `MuxerIsReady`, `MovieIsComplete`, `CaptureSurfaceIsLive`, `StopWillBeHeard`, `SurfaceMayGo`, and `ReleaseEnds` (liveness) | holds, 1,555,816 states |

Each property of a holding run is broken by at least one mutant of the model, a
plausible mistake in the code (the operators with a suffix, such as `Drain_Skipped` or
`SwapBuffers_Silent`, next to the actions they change).

`CHECK_DEADLOCK FALSE` appears where the system may really stop: when the bounded
number of frames and calls is used up, every thread is idle or waits for more.

Properties that are proved need no run of their own: `RefsAreExact`, `ExclusiveSlots`,
`PublishedIsReady`, `NeverMeetsLock`, `MailboxIsWhole`, `PublishesInOrder`, `FramesInOrder`,
`FlagsAgree`, `ParkedDuringChange`, `HotHasWindow`, `DeletesItsOwn`, `WorksOnItsOwn` and the type invariants of all modules are theorems (section 6). Four
properties say what the code should do and does not; they are in the modules,
with the way to see them fail, and section 7 describes them: `AttachReturns`, `HandlesStayLive`,
`TelemetryIsLive`, `ClosedIsQuiet`.

## 4. Bounds

| constant | value | why it is enough |
|---|---|---|
| `Users`, `Owners`, `Ctx`, `NumSlots` | 2, 1, 3, 2 | three objects in two slots: a slot is reused while a stale handle to it is about; two callers meet in one slot; the table is full and a registration is refused. With one owner, `Create` and `Destroy` alternate in every order |
| `Size` | 4 | the real `PENDING_QUEUE_SIZE` |
| `MaxFrames` (queue) | 9 | the indices go round the ring twice, with refusals in between |
| `Count` | 3 | the real `FRAME_BUFFER_COUNT` |
| `Capturers`, `MaxFrames` (ring) | 1, 4 | a second reader; the three slots are written and the first once more, with and without fences, so that a reader can be overtaken and displaced. More frames with two readers are beyond a run of five minutes; the theorems hold for any number of both |
| `Rings` | 2 | a ring and the one that replaces it |
| `MaxCalls` (teardown) | 7, 6 for all methods | allocate, display, inject, start, stop and one more round of the interesting pair |
| `MaxFrames` (teardown, surface) | 2 | stands for `MAX_FRAME` = 8: an empty, a partly filled and a full queue |
| `Windows` | 2 | a window and the one that replaces it, on either path |
| `MaxSwaps`, `MaxCalls` (surface) | 3, 4 | attach, detach and attach again across start, stop and start |
| `Cameras`, `Reused`, `NumFds` | 2, 1, 3 | one camera connected again next to one that is not; two descriptors besides the one that is taken, so that a number is reused by the other camera and `dup` can fail |
| `MaxCalls` (camera) | 7 | create, connect, start, release or clean up, connect and destroy, and one call of the other camera in between; six in the other run, which needs no more |
| `Transfers` | 2 | stands for `LIBUVC_NUM_TRANSFER_BUFS`: one is deleted while the other is in flight or in its callback |
| `MaxFrames`, `MaxParts`, `MaxRetries` (stream) | 3, 2, 1 | three frames: the first is never delivered, the second held while the third fills the other buffer; a frame may lack a payload |
| `Frames`, `Windows`, `Callbacks`, `Threads` (capture) | 3, 2, 1, 2 | a frame for the preview thread, the queue and the capture thread at a time; a window and its successor; a setter next to the thread that stops |
| `MaxStarts`, `MaxSets` (capture) | 1, 2 | one preview from start to stop with two changes, also before and after it |
| `MaxRecordings`, `MaxDrain` | 1, 1 | one recording, its two encoders in every order, a stop asked for in every state. Two recordings, needed for a listener that stops another recording than its own, are beyond a run of five minutes: the theorems about them hold for any number |
| `Script` (handler) | `MCScript` | open; start or record; start, record or take a picture; open again, stop or release, which includes close and stop. The camera thread works the messages off while the recording goes on; the safety properties are theorems for any sequence of calls, and `ReleaseEnds` needs open, record and release |

## 5. Assumptions and fairness

* Memory: atomic accesses are sequentially consistent, with one exception. The count of
  `acquire()` in HandleManager may take effect after the loads that follow it. There the code's argument is of the
  kind that acquire and release do not support: a store, then a load of another location, on
  both sides. `CallbackGuard` (`UVCPreview.h` line 247) has the same shape, a
  `fetch_add` with `memory_order_acquire` before the loads of `mUseRingBuffer` and
  the ring; RingTeardown takes it to be ordered. FrameRing takes `mReadIndex`, which the
  readers store relaxed, as sequentially consistent. Weaker outcomes of other relaxed accesses are not modelled.
* `handle_lifecycle`: one lifecycle thread, as the header asks for registration
  (`HandleManager.h` 177-180, "single-threaded init"). The same lines call a race of two registrations
  benign, which is not so (section 7).
* Surface: its methods are called by one owner at a time, as
  `docs/ScopeCam-Integration-Guide.md` line 159 asks, and a window is attached only when it is not
  already held.
* Rings: the ring methods are called by one thread at a time. The owner of an injected ring does not destroy it while
  the preview has it, and injects only a ring that is alive, though it may still have the handle of one
  that `stopPreview` has deleted, and may destroy that. The pixels are taken to be written when
  `AHardwareBuffer_unlock` returns: its fence (`FrameBufferRing.cpp` 364-374) is not modelled.
* `teardown` assumes that no callback outlasts the drain of 100 ms (`DrainMayTimeOut = FALSE`), as
  `CallbackRingIsLive` needs; `teardown_own_ring` does without.
* `camera`: each object runs one method at a time. For `open`, `close`, `startPreview`, `stopPreview` and
  `destroy` of `UVCCamera.java` the keyword `synchronized` sees to that. `cleanup` (348), `releaseInterface`
  (356) and `hardReset` (365) are not synchronized: that the application does not call them beside
  another method is a contract. `hardReset`, which does not wait for the preview's threads, is called only
  when no stream runs, although `forceStop` may be meant for one that does.
* `capture`: a thread passes a new global reference or a new window, as
  the JNI functions make them. `stream`: the user's callback does not close its own stream.
* `camera_handler`: one application thread that keeps to `Script`; both encoders of a recording exist (the encoder
  types for video without audio, and for the raw surface, are left out); the wait in
  `stopPreview()` and the one in the encoder's constructor are not woken spuriously (an
  encoder's own waits may be). The camera thread does not die of an exception: line 601, the
  callback that `handleStopRecording` resets, would throw if a listener took the camera at that moment.
* `setPreviewDisplay` gets a window, and `mUseRingBuffer` is fixed from the start, in
  SurfaceSwap.

Fairness is weak fairness of whole threads and nothing more: the operating system keeps
scheduling a thread that can run. PendingQueue: a call that has begun goes on
(`Enqueue`), and the conversion thread runs (`Consume`), without the poll timeout.
RingTeardown: each of the four threads, but not the application's next call.
SurfaceSwap: the steps inside a call and the preview thread. CameraConnection: a thread inside
a method, and a handler thread that ends its callback and looks at its flag when `libusb_close`
wakes it. UvcStream: the three threads, and that a transfer in flight ends (its timeout is five
seconds, and a cancelled one comes back). CaptureThread: each thread, including the preview
thread, which goes on getting frames. CameraHandler: the camera thread, a call that has begun, a
delayed message, the requests of a stop that was begun (`AskEncoder`), and the start of an encoder's thread, which the camera thread waits for. Never
assumed: that frames
arrive (but in CaptureThread, where `stopPreview` needs none), that an encoder delivers
anything, that the application calls anything, that a wait's time limit runs out before a
notification comes, that a condition variable wakes spuriously. That
`detachSurface` is not stuck rests on its `wait_for` (`Expire`), as in the code.

## 6. Proofs

Every safety property the runs check, invariant or action property, is also a theorem, and so
is every type invariant. `<Module>_proofs.tla` extends the module it is about;
StreamCapture_proofs is about UvcStream and CaptureThread, CameraHandler_proofs about Recording
and CameraHandler. Every theorem is for all values of
the constants: any number of threads, slots, rings, windows, cameras, descriptors, transfers, frames,
recordings and calls. The
named assumptions of the modules (`CountAssumption`, `NullAssumption`, ...) are
evaluated by TLC in the runs. Each property and each inductive invariant was first checked
by TLC on the instance of its module's run. The shape is the same everywhere: `Init` implies
the invariant; one step per action shows that it is preserved, with one step under
it for each part the action disturbs; the properties follow from it; PTL puts the three together.

| module | theorems | further assumptions | inductive invariant |
|---|---|---|---|
| HandleManager_proofs | `TypeCorrect`, `ExactRefs` | none | `CountInv`: types, exact counts, an idle caller is not counted |
| | `HandlesAreRight`, `TableInStep`, `StaleForGood` | `SingleOwner` | `CountInv` and `TableInv` |
| | `NoFreeInUse` | `SingleOwner` | `SafeInv` |
| | `DestroyIsExact`, for `HSpec` (`Spec` with the history `names`) | `SingleOwner` | `CountInv`, `TableInv` and `NamesInv` |
| | `AcquireIsExact`, for `HSpec` | `SingleOwner` | `SafeInv` and `NamesInv` |
| PendingQueue_proofs | `QueueTypeCorrect`, `QueueExclusive`, `QueueWholeFrames`, `QueueReady`, `NoSignalLost`, `RingIsFifo` | none | `QueueInv` |
| FrameRing_proofs | `RingTypeCorrect` | none | `Typing` |
| | `RingMailboxWhole`, `RingPublishesInOrder` | none | `Typing` and `Published` |
| | `RingReaderWhole`, `RingGpuWhole`, `RingBalanced`, `RingNeverMeetsLock`, `RingIsMailbox` | none: any captures, readers preempted anywhere, fences that time out | `RingInv` |
| RingTeardown_proofs | `TeardownTypeCorrect`, `TeardownDeletesLiveRings`, `TeardownKeepsTrack`, `TeardownQuiet`, `TeardownFlagsAgree` | none: any set of calls, any drain | `SafeRings` |
| | `TeardownCallbackSafe` | `Calls \subseteq Injecting`, `DrainMayTimeOut = FALSE` | `SafeRings` with `FlagsFollow` and `CallbackKnows` |
| SurfaceSwap_proofs | `SurfaceTypeCorrect`, `SurfaceRefs`, `SurfaceDraws`, `SurfaceParked`, `SurfaceHot` | none | `SwapInv` |
| CameraConnection_proofs | `CameraTypeCorrect`, `CameraHandlerWithin`, `CameraRefs`, `CameraOwnsFd`, `CameraNoLeak`, `CameraHandlerRuns` | none: any set of reused cameras | `CameraInv` |
| StreamCapture_proofs | `StreamTypeCorrect`, `StreamFrameWhole`, `StreamWakesUser`, `StreamStopsQuiet` | none | `StreamInv` |
| | `StreamInOrder` | none | `StreamInv` and `Sequence` |
| | `CaptureTypeCorrect`, `CaptureCallbackLive`, `CaptureFramesOnce`, `CaptureWindowRefs` | none | `CaptureInv` |
| CameraHandler_proofs | `RecordingIsInvariant`, for `Spec` of Recording; `HandlerRecords`: `HandlerSpec => Spec` | none | `RecordingInv` |
| | `CallsAreInvariant`, `RecordingTypes`, `NothingIsWrittenTooSoon`, `MoviesAreComplete`, `SurfaceOutlivesCapture`, `WaitsAreHeard`, `SurfaceMayBeReleased`, for `HandlerSpec` | none | `RecordingInv`, `HandlerInv` and, for the last, `Taken` |

Why the properties are not inductive by themselves, and what is added:

* `NoUseAfterFree` is about a caller that has finished `acquire()`; whether it may
  finish was decided two loads earlier. `CallersPin` says what a caller knows between
  them: once the generation it loaded is the handle's, the slot keeps that generation, or the
  owner is in the drain for this very handle; and the drain does not end, because
  `CountedFirst` (whoever has loaded a generation and is not exposed is counted) and `RefsAreExact` make
  the count positive; when it gives up, whoever is counted becomes exposed. `ContextsLive` and
  `OwnerKnows` add that a registered context is alive and that a slot being claimed is
  empty, so that a reused slot cannot hand a caller a dead object. The exception `exposed` is as narrow as the
  code allows: a caller is added only at the load that passed its own `fetch_add`, or at the end of
  a drain that counts it in the slot it gives up on, and it leaves the set with its call.
* What a handle names is independent of the count and the drain: `TableInv` says that a
  handle in circulation has a live (odd) generation that its slot has reached (`HandlesOdd`), which slots and objects
  belong together at each step of the owner (`SlotsMatch`, `ContextsLive`, `OwnerKnows`), and what
  the Java objects may still hold (`WrappersKnow`). `SingleOwner` is the header's own rule; with two
  owners in `registerContext` the theorem is false (section 7).
* That no object is freed in use does not say that a caller works on the right one. `names` is a history
  variable: every pair of a handle and an object that some wrapper's `mNativePtr` has
  made. `NamesHold` says that no handle has ever meant two objects, and that the slot has the handle's object
  while the handle is in force: its generation is the slot's, or its owner is between the increment and
  the exchange of `invalidateAndFree`. With `CallersPin` a caller inside its `ScopedRef` has the object its
  handle was issued for; a destruction deletes that object even if the drain gave up, and even if
  the handle is a stale copy.
* `ExclusiveSlots` is inductive with the positions of the two threads; whole frames
  need `WindowReady`, what each slot between the two indices holds, and `FillingSteps`,
  what the callback has put in the slot that is not yet in the window. `NoLostSignal` is inductive
  beside them: the step that finds a slot without its flag, the one that could block wrongly,
  is not possible.
* `RingIsFifo` is the refinement step by step. The mapping's queue is the frames of the slots from
  the read index on, a modulus of the index for each; `WaitingIs` and `QueueIs` put both without the
  modulus, `PublishAppends` and `AdvanceRemoves` are the two steps that change the queue, and
  `QueueUnchanged` covers the others, in particular the copy into the slot that is not in it.
* The triple buffer needs `Shielded`: the slot of a reader the ring has not lost is neither the one
  written nor the one moved to. It is the newest slot until the reader has stored it, and what
  `mReadIndex` says from then on; `NextSlot` avoids both. `NextSlotFacts`, a lemma on the
  arithmetic of the ring, is where three slots are needed. `Whole` says what each slot and such a reader know of
  the frame, and that the number the renderer asked for is that of its own slot; `Fenced`, that the fence of what the GPU
  still reads is pending and the producer has not gone past it; `Balanced`, that `mReadIndex` is every reader's
  slot until two have been at different ones.
* The producer's half needs nothing of the readers: `Published` ties the newest slot to `mFrameCounter`, and
  needs only that `NextSlot` never returns the slot just published, whatever `mReadIndex` is.
  `RingIsMailbox` puts the halves together: by `NewestSteps` only `Publish` changes the newest pixels, by
  `HeldSteps` the renderer's change only as it loads the newest slot, releases it or is lost, and
  `LoadIsAcquire` says that this load takes the newest whole frame.
* In the teardown, `Owned` says at each step who answers for each live ring, in
  particular in the moments when the pointer of the preview leads to a ring that is
  already deleted (`destroyRingBuffer` inside `allocateRingBuffer`), and that a deleted ring was deleted by the preview once or
  by its owner. `Threads` ties the
  two flags of the conversion thread to the steps that start and join it. The last
  theorem needs the two flags to follow the pointer (`FlagsFollow`), which only an
  application that never allocates a ring of its own guarantees; `CallbackKnows` then says
  that a callback inside the count keeps `Drain` waiting, and one that arrives later
  finds the flag cleared.
* In the surface handshake each thread's position determines the flags between them
  (`Handshake`), and the holders of a window at every step determine its references
  (`Windowing`). `SurfaceHot` needs `Joined`, that a preview that is not running has no
  thread left.
* For a camera, the step of its calling thread determines the device handle and the helpers
  (`Position`), and with them the handler thread (`HandlerInv`) and the references (`RefsInv`).
  `FdInv` adds the descriptor in the hands of `connect` and that it is not the one in `mFd`, so
  that giving up one does not close the other. A camera whose `connect` succeeded (`mine`) owns what is in
  `mFd` unless that is 0 and a camera without a descriptor has closed 0 before (`stray`). `RefsInv` counts
  the devices lost by a connect over a kept `mDevice` (`overwritten`), which only a reused camera has. `DupIsFree`, from well-founded induction, is the one
  fact needed about `dup`. `OnceInv` is what a first connection may assume: nothing is left.
* In the stream, `FrameIsWhole` needs to know what the buffers hold (`BufferContents`), that
  `cb_mutex` is the user thread's while it copies (`MutexHolder`), and that the data follow the fields
  (`CopiesFrame`), also when a damaged frame leaves both as they were. `StoppedIsQuiet` needs that a
  callback that runs has its transfer (`InCallback`), so that no transfer is left once all are deleted.
  `FramesInOrder` needs the chain `frame.seq <= lastSeq <= holdSeq <= seq`, whose first link
  holds because `hold_seq` cannot change between the test and the copy, which `MutexHolder` knows.
* For the capture thread, a callback object on its way through `setFrameCallback` has a reference of
  its own and is not the one in use (`CallbackRefs`), and `capture_mutex` is held from the wait's end
  to the call's end (`MutexKept`). `WindowRefsExact` needs that a window has at most one holder
  (`WindowHolders`) and where the capture thread may be while a window is changed (`LoopMode`).
* `RecordingInv` determines for each recording which encoders there are (`Position`), what each has
  been asked and how far it may be (`Thread`), and what the muxer knows of both (`Muxer`): its
  count is the number of encoders between `join` and `leave` while anybody can reach it. It is
  proved of Recording alone, whose `Next` lets a recording be started and stopped at any time.
  `HandlerRecords` shows that the camera thread with its messages is one way of doing so, every step
  of it a step of Recording or none, and carries the three properties over; the listener's
  `handleRelease` on an encoder's thread is one of the ways in which Recording lets a recording be stopped.
* `HandlerInv` is about the calls: a `stopPreview()` that waits has its one message in the queue or in
  work (`Stopping`), and the handler's camera does not draw but while it is open or being destroyed (`Drawing`).
  `Taken` adds that any other camera that draws is one a listener is about to stop.
  `removeMessages` deletes all messages of a kind from a sequence of any length, by recursion on the
  length; `LeastNumber`, from well-founded induction on the numbers, proves of it what induction
  would (`KeptExists`, `WithoutFacts`).

Only model-checked is liveness, which under fairness is out of the proof system's reach:
`CallsReturn` of RingTeardown and of CameraConnection, `DetachReturns`, `ParkedResumes`, `StopReturns`,
`StopPreviewReturns`, `ReleaseEnds`, and that every waiting frame leaves the queue (the liveness part of
`ImplementsFifo`; its safety part is `RingIsFifo`). Nothing is said of `ENABLED`, and no module
has a recursive operator: what recursion there is (`Without` in CameraHandler) is a recursive function.

## 7. What the models found

Two runs end with a counterexample to something the repository says of the code:

* **teardown_stop.** `stopPreview` deletes the ring (`UVCPreview.cpp` 483) before it joins the
  conversion thread (486), which still works on it.
* **camera_reconnect.** `uvc_close` sets `kill_handler_thread` and nothing resets it, but the
  native object keeps its context. After `release`, `cleanup` or `hardReset` the next
  `connect` gets a handler thread that ends at once: no transfer completes, and `stopPreview`
  waits for ever.

Known limits of the code that the models reproduce or that their assumptions exclude,
each with its place. Where a constant, a property or a change of the configuration shows it in
TLC, it is named in brackets.

HandleManager, FrameRing:

* `acquire()` raises `activeRefs` with `memory_order_acquire` and then loads the generation;
  `invalidateAndFree` writes the generation and then reads the count. Without sequential
  consistency both can miss the other's store, and the object is deleted while a `ScopedRef`
  is held; `HandleManager.h` line 48 claims that no seq_cst is needed. The model has it, and
  `NoUseAfterFree` excepts the caller whose load passed its own `fetch_add` (`exposed`).
* The drain of `invalidateAndFree` gives up after ten seconds and deletes anyway
  (293): the callers it was waiting for are `exposed` as well.
* Two simultaneous registrations may claim the same slot, and both get the same handle
  (175). Lines 177-180 say that such races are benign, and that registration is single-threaded
  [two `Owners` break `HandleNamesItsObject`]. `SingleOwner` is the second of these statements.
* A call with handle 0, of a wrapper without a native object, names slot 0 with generation 0. During the first
  registration in that slot it finds the generation it expects and gets the object being registered.
* Between `acquireReadBuffer`'s load of `mLatestCompleted` (`FrameBufferRing.cpp` 409) and its
  store of `mReadIndex` (434) the producer may choose that slot and overwrite it, and the
  renderer may go back to an older frame: line 386 ("prevents the camera from overwriting the
  buffer the renderer is using") does not hold for a reader in `lost`. What is published stays whole and in
  order all the same.
* `captureToFd` and the renderer share `mReadIndex`. From the store of another slot on, the first reader is in
  `lost` too, and a release hits the other's slot: one buffer loses two references, the other stays
  locked. `RefsMatchHolders` is about the time before that first happens (`crossed`).
* After 33 ms the producer closes the fence and writes beside the GPU (257); `gpuReads` ends there.

Ring and surface, in `UVCPreview.cpp`:

* `clearRingBuffer` deletes an injected ring, of which line 1792 says that the caller is responsible for it.
  `RING_BUFFER_CONTRACT.md`, next to `UVCCamera.java`, says that the owner remains responsible for its
  destruction (line 32), which comes "exactly once before the handle becomes invalid" (20), and that after
  `stopPreview` the handle is invalid (45) [`HandlesStayLive` in `teardown`].
  An owner who destroys it after `stopPreview` does so a second time, or has `nativeFrameBufferDestroy` look for
  the magic number in freed memory. `DeletesLiveRings` says that this is the only double deletion.
* `attachSurface` waits without a time limit for a notification that is sent without the
  mutex, or, when the preview stops, not sent at all [`AttachReturns` in `surface`].
* The fast path of `clearRingBuffer` (1664) deletes a ring without draining when ring mode is
  off, although a callback may have entered before it was turned off; a callback that loaded a
  self-allocated ring may see `mRingBufferInjected` set by `setFrameBufferRing`, which has just
  deleted that ring (1898) [`CallbackRingIsLive` fails with the calls of `teardown_own_ring`].
* `destroyRingBuffer` on a running preview frees the ring under the conversion thread;
  `UVCCamera.java` line 1439 calls it safe.
* A ring injected into a running preview gets two producers until the preview stops (1955).
* `attachSurface` of the window already shown keeps one reference too many (2174).
* `setPreviewDisplay` does not update `mPreviewState`, `stopPreview` leaves `mSurfaceReady`
  set, and `do_preview`'s start looks at the window without its mutex, so the state can
  be HOT without a window; `HotHasWindow` is therefore stated for histories in which
  every change met a parked or ended preview thread (`orderly`).
* `attachSurface` sets the RING_BUFFER mode although there may be no ring.

Camera, in `UVCCamera.cpp` and libuvc's `device.c`:

* A connect that fails leaves `mUsbFs` set and `mFd` 0, and the `release` that follows closes
  descriptor 0, whoever owns it. `OwnsItsFd` says that a camera which has a descriptor loses
  it in this way only: when it is 0 and such a release has happened (`stray`).
* `cleanup(CAMERA)` and then `connect` overwrites the descriptor and the device of the first
  connection, which are lost. `DeviceRefsExact` counts the lost devices (`overwritten`);
  `NoFdLeaks` is about cameras that are not reused.
* `cleanup`, `releaseInterface` and `hardReset` are not `synchronized` in Java, and may run beside a
  `connect` or a `destroy` of the same object.
* The telemetry is a member of the injected ring. `stopPreview` or the preview's destructor
  deletes the ring, and the readiness state is then written to it [`TelemetryIsLive` in
  `camera`]. As `setTelemetry` comes after `connect`, `activeFdCount` goes to -1.
* The status and button callback objects are deleted before `uvc_close` ends the handler
  thread that calls them. Each connect leaks one reference of the `libusb_device`.

Stream, in `stream.c`:

* The result of a resubmission is ignored (1079): the transfer is never deleted, and
  `uvc_stream_stop` waits for it for ever; hence `lost` in `StopReturns`.
* After a failed submission, or when the device was unplugged, `running` is 0 already, and
  `uvc_stream_close` (2011) frees the stream without stopping it, under transfers in flight and
  the user thread [`ClosedIsQuiet` in `stream`]; the assertion there speaks of threads that must have died.
* `hold_bfh_err` is read again after the mutex was given back (1793): a good frame may be
  dropped for its successor's error, and a damaged one that was not copied delivered in the shape of its predecessor.
  `FrameIsWhole` and `FramesInOrder` hold nevertheless: what is delivered is one frame, perhaps the
  previous one again, never an older one.
* The user thread starts with `last_seq` 0 and the first frame has the number 0: it is never delivered.

Capture thread, in `UVCPreview.cpp`:

* `stopPreview` signals `capture_sync` without the mutex, and the thread may go to sleep after
  it has tested `mIsRunning` and missed both signals (1270): the join waits for ever, hence
  `MissedStop` in `StopPreviewReturns`.
* `setCaptureDisplay`'s single wait (1219) is woken by `addCaptureFrame`'s broadcast while the
  capture thread uses the window, which is then released under it, or a new window is
  released in place of the old one (`hasty`).
* `addCaptureFrame` neither queues nor recycles a frame that comes when the preview is not
  running. `setFrameCallback` with the object already set leaks the new global reference.

Recording and camera handler:

* A stop that comes between the two synchronized blocks of `MediaEncoder.run` (160) is lost:
  the encoder sleeps until a frame is announced, and after the stop none is. `drain()` waits for
  the muxer's start whatever was requested, so if the other encoder never joins, it does not end.
* The end of the stream is signalled with `encode(null, 0)`, which queues nothing; the last frames stay in the codec.
* `onStopped` of one recording's encoder, coming late, stops the capture of the next.
* The encoders refer to the muxer weakly. Once `handleStopRecording` has let go of it, it may be
  collected before they have stopped it, and the movie is left to `MediaMuxer`'s finalizer; hence
  `collected` in `MovieIsComplete`. The path is gone too, so no update is sent.
* The handler refers to the view weakly. When it is collected, `onStopped` throws after it has cleared
  `mIsRecording` (`AbstractUVCCameraHandler.java` 681), the exception is caught (696), the capture is
  not stopped and no update is sent.
* In both cases a handler that was released while it recorded is not ended by an update: its thread
  runs for ever, hence `unheard` in `ReleaseEnds`. Without the path `onStopped` calls `handleRelease` itself
  (690-693), on the encoder's thread: that sets `mReleased`, but `quit` is called on the Looper of a thread that has none
  and throws.
* `handleRelease` on the encoder's thread stops whatever is recorded by then, perhaps the next recording,
  and takes the camera out of `mUVCCamera` before it stops its preview: a `stopPreview` that waits may then
  come back while that camera still draws, hence the exception in `SurfaceMayGo`. The camera thread, in the
  middle of `handleStopRecording`, would meet a null `mUVCCamera` at line 601, uncaught.
* `handleClose` leaves `mIsPreviewing` TRUE: a camera that is opened again never previews.
* A second `stopPreview`, or one that comes to its wait (`AbstractUVCCameraHandler.java` 187)
  after the thread has ended, sleeps for ever; hence `looper = "running"` in `StopWillBeHeard`.
  One that finds `isPreviewing()` FALSE returns at once, although the message to start is
  in work, or `handleClose` has taken the camera and not destroyed it yet: the surface is then released
  under the preview. `SurfaceMayGo` is about the calls that waited.
* A recording of which only the audio encoder, or none, has a codec leaves `mIsRecording` TRUE,
  and the thread does not end; hence `recording` in `ReleaseEnds`.

## 8. What is not modelled, and why

* Inside the modelled parts: allocation and layout checks of `FrameBufferRing`, which run
  before the ring is shared; the magic numbers that poison a deleted ring, since the model knows
  directly whether a ring is alive; the preview's frame pool and conversions; `forceStop`;
  `setOutputMode` and `setPreviewDisplay(NULL)`; in `stream.c` the probing of formats and
  the polling interface (`uvc_stream_get_frame`); in CameraConnection the parameters libuvc reads
  from the device while it opens it.
* The capture callback: `clearCaptureCallback` and `setCaptureCallback` delete the global
  reference (`UVCPreview.cpp` 2351) while the conversion thread may be on its way to call it, and
  nothing is promised that the code keeps; a model would only repeat that sentence.
* `USBMonitor.java` and, on top of it, the Flutter plugin and controller. Reading, not
  modelling, showed why nothing of weight could be stated that holds: `UVCCamera.open` works on
  a clone of the `UsbControlBlock`, whose `close()` removes the device from `mCtrlBlocks` and so
  un-tracks the original, which is never closed; `openDevice()` and the runnable of
  `processConnect()` both look for a control block and then put one, on two threads;
  `destroy()` does not wait for a runnable that is making one. The plugin's camera id is the
  descriptor of the original connection, so a device opened twice overwrites the first camera's
  resources. What the descriptors do in native code is in CameraConnection.
* Pure input and output, or arithmetic: control transfers, pixel formats, descriptors
  (`Parameters.cpp`), layout checks, image encoding, telemetry counters.
* Java's monitor: `synchronized` on `open`, `close`, `startPreview`, `stopPreview` and `destroy` of
  `UVCCamera.java` is the reason why these do not overlap, and is not itself a variable. Overlaps with the methods
  that are not synchronized are excluded by contract (section 5).
* Rendering (`usbCameraCommon`): requests to one EGL task.
* Vendored libraries (libusb, libjpeg-turbo, rapidjson), which are most of the repository's
  lines, sample applications and the old pipeline classes.

## 9. Plan

Modelling is complete but for the points of section 8, and what the runs check for safety is
proved. What could still be added:

1. FrameRing after two readers have met: the references of all buffers together balance even when
   releases hit each other's slots, a sum over the slots that the installed induction facts do not give.
2. CameraConnection with `TelemetryIsLive`, and RingTeardown with `HandlesStayLive`, under the contracts
   that would make them true.
3. A promise of the stream like `LatestFrame`, under which `hold_bfh_err` is read once.
