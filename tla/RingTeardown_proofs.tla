------------------------- MODULE RingTeardown_proofs -------------------------
(***************************************************************************)
(* What the teardown of a ring guarantees for any rings, any number of     *)
(* calls and any queue length: for every application, what becomes of the  *)
(* rings and the threads; for one that injects its own rings, that the USB *)
(* callback is never left with a deleted one.                              *)
(***************************************************************************)
EXTENDS RingTeardown, TLAPS

USE NullAssumption, BoundAssumption

\* stopPreview() between its first store and the join of the preview thread.
Stopping == {"clear", "clearDrain", "clearFast", "drain", "exchange", "deleteOld", "stopConv",
             "joinConv", "joinPreview"}

-----------------------------------------------------------------------------
(* Which rings are alive, and who answers for them                          *)

\* mCallbacksInFlight is the callback's own guard.
InFlight == mCallbacksInFlight = IF cb \in {"load", "check", "using", "leave"} THEN 1 ELSE 0

Typing == TypeOK /\ InFlight

\* A ring the application has no handle to is the preview's, and the pointer of
\* the preview leads to a live ring but for the moment before it is overwritten.
Owned ==
  /\ \A r \in Rings : heap[r] # "deleted" => deletes[r] = 0
  /\ \A r \in Rings : heap[r] = "deleted" => deletes[r] = 1 \/ r \in destroyed
  /\ \A r \in destroyed : heap[r] = "deleted" /\ r \notin handles
  /\ \A r \in handles : heap[r] # "unused"
  /\ \A r \in Rings : heap[r] = "live" => r \in handles \/ r = mFrameBufferRing \/ r = oldRing
  /\ mFrameBufferRing # Null /\ app \notin {"allocate", "storeRing"} => heap[mFrameBufferRing] = "live"
  /\ mFrameBufferRing # Null /\ app = "allocate" => heap[mFrameBufferRing] = "deleted"
  /\ mFrameBufferRing # Null /\ app = "storeRing" /\ ~mRingBufferInjected =>
       heap[mFrameBufferRing] = "deleted"
  /\ mFrameBufferRing # Null /\ mRingBufferInjected /\ app # "ownRing" => mFrameBufferRing \in handles
  /\ mFrameBufferRing \in handles => mRingBufferInjected \/ app \in {"setInjected", "drain", "exchange"}
  /\ app = "destroyOld" => mFrameBufferRing = Null
  /\ app = "ownRing" => mFrameBufferRing \notin handles
  /\ oldRing \in handles => app = "deleteOld"
  /\ oldRing # Null => /\ app \in {"destroyOld", "deleteOld"}
                       /\ heap[oldRing] = "live" /\ mFrameBufferRing = Null
  /\ app \in {"storeRing", "setInjected"} => arg \in handles /\ heap[arg] = "live"
  /\ app = "setInjected" => mFrameBufferRing = arg

\* Which threads run.
Threads ==
  /\ app \in Stopping \cup {"create", "abort", "abortJoin", "finish"} => ~mIsRunning
  /\ ~mIsRunning /\ app \notin Stopping => pv = "none"
  /\ pv \in {"none", "start"} => cb = "idle" /\ ~streaming
  /\ conv # "none" => mConversionThreadValid
  /\ mConversionThreadValid =>
       mIsRunning \/ app \in (Stopping \ {"joinPreview"}) \cup {"create", "abort", "abortJoin"}
  /\ IF app \in {"joinConv", "abortJoin"} THEN ~mConversionThreadRunning
                                         ELSE mConversionThreadValid = mConversionThreadRunning
  /\ app = "create" /\ mConversionThreadValid => mUseRingBuffer

\* The methods of an application that injects its own rings.
Injecting == {"nativeFrameBufferAllocate", "setPreviewDisplay", "setFrameBufferRing", "startPreview",
              "stopPreview"}

\* For such an application the two flags follow the pointer ...
FlagsFollow ==
  /\ app \notin {"allocate", "ownRing", "destroy", "destroyOld"}
  /\ app \in {"idle", "storeRing", "lateBinding", "create", "abort", "abortJoin", "clear", "finish"} =>
       /\ mUseRingBuffer <=> mFrameBufferRing # Null
       /\ mRingBufferInjected <=> mFrameBufferRing # Null
  /\ app \in {"setInjected", "setUse"} => mFrameBufferRing # Null
  /\ app = "setUse" => mRingBufferInjected
  /\ app = "clearFast" => mFrameBufferRing = Null
  /\ app \in {"clearDrain", "clearFast"} => ~mUseRingBuffer
  /\ app \in {"drain", "exchange", "deleteOld", "stopConv", "joinConv", "joinPreview"} =>
       ~mUseRingBuffer /\ ~mRingBufferInjected
  /\ app \in {"deleteOld", "stopConv", "joinConv", "joinPreview"} => mFrameBufferRing = Null

\* ... and the callback knows no dead ring, except between the deletion and the
\* join, when the flag keeps it from using what it knows.
CallbackKnows ==
  /\ cb \notin {"check", "using", "leave"} => cbRing = Null
  /\ cb = "using" => cbRing # Null
  /\ cbRing # Null /\ app \notin {"stopConv", "joinConv", "joinPreview"} => heap[cbRing] = "live"
  /\ mFrameBufferRing # Null => heap[mFrameBufferRing] = "live"
  /\ app = "exchange" /\ mFrameBufferRing # Null => cb # "using"
  /\ app = "deleteOld" /\ oldRing # Null => cb # "using"
  /\ CallbackRingIsLive

-----------------------------------------------------------------------------
(* Initially                                                                *)

LEMMA InitTyping == Init => Typing
<1> SUFFICES ASSUME Init PROVE Typing  OBVIOUS
<1> USE DEF Init
<1>1. FlagTypes
  BY DEF FlagTypes
<1>2. CountTypes
  BY DEF CountTypes
<1>3. RingTypes
  BY DEF RingTypes
<1>4. StepTypes /\ InFlight
  BY DEF StepTypes, InFlight
<1> QED  BY <1>1, <1>2, <1>3, <1>4 DEF Typing, TypeOK

LEMMA InitRest == Init => Owned /\ Threads /\ FlagsFollow /\ CallbackKnows
  BY DEF Init, Owned, Threads, FlagsFollow, CallbackKnows, CallbackRingIsLive, Stopping

-----------------------------------------------------------------------------
(* Every step                                                               *)

\* The flags, the rings and the application's steps are the application's alone.
LEMMA ThreadsLeave ==
  ASSUME CallbackNext \/ ConversionNext \/ PreviewNext
  PROVE  UNCHANGED <<mUseRingBuffer, mRingBufferInjected, mFrameBufferRing, heap, deletes, destroyed, handles,
                     app, arg, oldRing, calls, mIsRunning, mPreviewWindow, mSurfaceReady>>
<1> USE DEF flagVars, heapVars, appVars, windowVars
<1>1. CASE CallbackNext
  BY <1>1 DEF CallbackNext, FrameArrives, LoadUse, AddPreviewFrame, EnterGuard, LoadRing,
              CheckInjected, EnqueueDone, LeaveGuard
<1>2. CASE ConversionNext
  BY <1>2 DEF ConversionNext, ConversionLoad, ConversionCheck, ConversionTurn
<1>3. CASE PreviewNext
  BY <1>3 DEF PreviewNext, StartStreaming, TakePreviewFrame, WriteFrameToRingBuffer, WriteDone,
              StopStreaming
<1> QED  BY <1>1, <1>2, <1>3

LEMMA NextFlagTypes ==
  ASSUME FlagTypes, [Next]_vars PROVE FlagTypes'
<1> USE DEF FlagTypes, flagVars, heapVars, cbVars, convVars, pvVars, appVars, windowVars
<1>1. CASE FrameArrives
  BY <1>1 DEF FrameArrives
<1>44. CASE LoadUse
  BY <1>44 DEF LoadUse
<1>2. CASE AddPreviewFrame
  BY <1>2 DEF AddPreviewFrame
<1>3. CASE EnterGuard
  BY <1>3 DEF EnterGuard
<1>4. CASE LoadRing
  BY <1>4 DEF LoadRing
<1>5. CASE CheckInjected
  BY <1>5 DEF CheckInjected
<1>6. CASE EnqueueDone
  BY <1>6 DEF EnqueueDone
<1>7. CASE LeaveGuard
  BY <1>7 DEF LeaveGuard
<1>8. CASE ConversionLoad
  BY <1>8 DEF ConversionLoad
<1>9. CASE ConversionCheck
  BY <1>9 DEF ConversionCheck
<1>10. CASE ConversionTurn
  BY <1>10 DEF ConversionTurn
<1>11. CASE StartStreaming
  BY <1>11 DEF StartStreaming
<1>12. CASE TakePreviewFrame
  BY <1>12 DEF TakePreviewFrame
<1>13. CASE WriteFrameToRingBuffer
  BY <1>13 DEF WriteFrameToRingBuffer
<1>14. CASE WriteDone
  BY <1>14 DEF WriteDone
<1>15. CASE StopStreaming
  BY <1>15 DEF StopStreaming
<1>16. CASE NativeFrameBufferAllocate
  BY <1>16 DEF NativeFrameBufferAllocate, New, Call
<1>17. CASE NativeFrameBufferDestroy
  BY <1>17 DEF NativeFrameBufferDestroy, Call
<1>18. CASE SetPreviewDisplay
  BY <1>18 DEF SetPreviewDisplay, Call
<1>19. CASE SetUseRingBuffer
  BY <1>19 DEF SetUseRingBuffer, Call
<1>20. CASE AllocateRingBuffer
  BY <1>20 DEF AllocateRingBuffer, Call, Delete
<1>21. CASE DestroyRingBuffer
  BY <1>21 DEF DestroyRingBuffer, Call
<1>22. CASE SetFrameBufferRing
  BY <1>22 DEF SetFrameBufferRing, Call, Delete
<1>23. CASE StartPreview
  BY <1>23 DEF StartPreview, Call, StartConversionThread
<1>24. CASE StopPreview
  BY <1>24 DEF StopPreview, Call
<1>25. CASE StoreAllocated
  BY <1>25 DEF StoreAllocated, New
<1>26. CASE ForgetRing
  BY <1>26 DEF ForgetRing
<1>27. CASE DestroyOld
  BY <1>27 DEF DestroyOld, Delete
<1>28. CASE ClearInjected
  BY <1>28 DEF ClearInjected
<1>29. CASE StoreRing
  BY <1>29 DEF StoreRing
<1>30. CASE SetInjected
  BY <1>30 DEF SetInjected
<1>31. CASE SetUse
  BY <1>31 DEF SetUse
<1>32. CASE LateBinding
  BY <1>32 DEF LateBinding, StartConversionThread
<1>33. CASE CreatePreviewThread
  BY <1>33 DEF CreatePreviewThread
<1>34. CASE ClearUse
  BY <1>34 DEF ClearUse
<1>35. CASE ClearInjectedFlag
  BY <1>35 DEF ClearInjectedFlag
<1>36. CASE Drain
  BY <1>36 DEF Drain
<1>37. CASE ExchangeRing
  BY <1>37 DEF ExchangeRing
<1>38. CASE DeleteOld
  BY <1>38 DEF DeleteOld, Delete
<1>39. CASE StopConversionThread
  BY <1>39 DEF StopConversionThread
<1>40. CASE JoinConversionThread
  BY <1>40 DEF JoinConversionThread
<1>41. CASE JoinPreviewThread
  BY <1>41 DEF JoinPreviewThread
<1>42. CASE Finish
  BY <1>42 DEF Finish
<1>43. CASE UNCHANGED vars
  BY <1>43 DEF vars
<1> QED
  BY <1>1, <1>2, <1>3, <1>4, <1>5, <1>6, <1>7, <1>8, <1>9, <1>10, <1>11, <1>12, <1>13, <1>14, <1>15,
     <1>16, <1>17, <1>18, <1>19, <1>20, <1>21, <1>22, <1>23, <1>24, <1>25, <1>26, <1>27, <1>28,
     <1>29, <1>30, <1>31, <1>32, <1>33, <1>34, <1>35, <1>36, <1>37, <1>38, <1>39, <1>40, <1>41,
     <1>42, <1>43, <1>44
  DEF Next, AppCall, AppStep, CallbackNext, ConversionNext, PreviewNext

LEMMA NextCounts ==
  ASSUME Typing, [Next]_vars PROVE (CountTypes /\ InFlight)'
<1> USE DEF Typing, TypeOK, StepTypes, CountTypes, InFlight, flagVars, heapVars, cbVars, convVars, pvVars, appVars, windowVars
<1>1. CASE FrameArrives
  BY <1>1 DEF FrameArrives
<1>44. CASE LoadUse
  BY <1>44 DEF LoadUse
<1>2. CASE AddPreviewFrame
  BY <1>2 DEF AddPreviewFrame
<1>3. CASE EnterGuard
  BY <1>3 DEF EnterGuard
<1>4. CASE LoadRing
  BY <1>4 DEF LoadRing
<1>5. CASE CheckInjected
  BY <1>5 DEF CheckInjected
<1>6. CASE EnqueueDone
  BY <1>6 DEF EnqueueDone
<1>7. CASE LeaveGuard
  BY <1>7 DEF LeaveGuard
<1>8. CASE ConversionLoad
  BY <1>8 DEF ConversionLoad
<1>9. CASE ConversionCheck
  BY <1>9 DEF ConversionCheck
<1>10. CASE ConversionTurn
  BY <1>10 DEF ConversionTurn
<1>11. CASE StartStreaming
  BY <1>11 DEF StartStreaming
<1>12. CASE TakePreviewFrame
  BY <1>12 DEF TakePreviewFrame
<1>13. CASE WriteFrameToRingBuffer
  BY <1>13 DEF WriteFrameToRingBuffer
<1>14. CASE WriteDone
  BY <1>14 DEF WriteDone
<1>15. CASE StopStreaming
  BY <1>15 DEF StopStreaming
<1>16. CASE NativeFrameBufferAllocate
  BY <1>16 DEF NativeFrameBufferAllocate, New, Call
<1>17. CASE NativeFrameBufferDestroy
  BY <1>17 DEF NativeFrameBufferDestroy, Call
<1>18. CASE SetPreviewDisplay
  BY <1>18 DEF SetPreviewDisplay, Call
<1>19. CASE SetUseRingBuffer
  BY <1>19 DEF SetUseRingBuffer, Call
<1>20. CASE AllocateRingBuffer
  BY <1>20 DEF AllocateRingBuffer, Call, Delete
<1>21. CASE DestroyRingBuffer
  BY <1>21 DEF DestroyRingBuffer, Call
<1>22. CASE SetFrameBufferRing
  BY <1>22 DEF SetFrameBufferRing, Call, Delete
<1>23. CASE StartPreview
  BY <1>23 DEF StartPreview, Call, StartConversionThread
<1>24. CASE StopPreview
  BY <1>24 DEF StopPreview, Call
<1>25. CASE StoreAllocated
  BY <1>25 DEF StoreAllocated, New
<1>26. CASE ForgetRing
  BY <1>26 DEF ForgetRing
<1>27. CASE DestroyOld
  BY <1>27 DEF DestroyOld, Delete
<1>28. CASE ClearInjected
  BY <1>28 DEF ClearInjected
<1>29. CASE StoreRing
  BY <1>29 DEF StoreRing
<1>30. CASE SetInjected
  BY <1>30 DEF SetInjected
<1>31. CASE SetUse
  BY <1>31 DEF SetUse
<1>32. CASE LateBinding
  BY <1>32 DEF LateBinding, StartConversionThread
<1>33. CASE CreatePreviewThread
  BY <1>33 DEF CreatePreviewThread
<1>34. CASE ClearUse
  BY <1>34 DEF ClearUse
<1>35. CASE ClearInjectedFlag
  BY <1>35 DEF ClearInjectedFlag
<1>36. CASE Drain
  BY <1>36 DEF Drain
<1>37. CASE ExchangeRing
  BY <1>37 DEF ExchangeRing
<1>38. CASE DeleteOld
  BY <1>38 DEF DeleteOld, Delete
<1>39. CASE StopConversionThread
  BY <1>39 DEF StopConversionThread
<1>40. CASE JoinConversionThread
  BY <1>40 DEF JoinConversionThread
<1>41. CASE JoinPreviewThread
  BY <1>41 DEF JoinPreviewThread
<1>42. CASE Finish
  BY <1>42 DEF Finish
<1>43. CASE UNCHANGED vars
  BY <1>43 DEF vars
<1> QED
  BY <1>1, <1>2, <1>3, <1>4, <1>5, <1>6, <1>7, <1>8, <1>9, <1>10, <1>11, <1>12, <1>13, <1>14, <1>15,
     <1>16, <1>17, <1>18, <1>19, <1>20, <1>21, <1>22, <1>23, <1>24, <1>25, <1>26, <1>27, <1>28,
     <1>29, <1>30, <1>31, <1>32, <1>33, <1>34, <1>35, <1>36, <1>37, <1>38, <1>39, <1>40, <1>41,
     <1>42, <1>43, <1>44
  DEF Next, AppCall, AppStep, CallbackNext, ConversionNext, PreviewNext

LEMMA NextRingTypes ==
  ASSUME RingTypes, [Next]_vars PROVE RingTypes'
<1> USE DEF RingTypes, flagVars, heapVars, cbVars, convVars, pvVars, appVars, windowVars
<1>1. CASE FrameArrives
  BY <1>1 DEF FrameArrives
<1>44. CASE LoadUse
  BY <1>44 DEF LoadUse
<1>2. CASE AddPreviewFrame
  BY <1>2 DEF AddPreviewFrame
<1>3. CASE EnterGuard
  BY <1>3 DEF EnterGuard
<1>4. CASE LoadRing
  BY <1>4 DEF LoadRing
<1>5. CASE CheckInjected
  BY <1>5 DEF CheckInjected
<1>6. CASE EnqueueDone
  BY <1>6 DEF EnqueueDone
<1>7. CASE LeaveGuard
  BY <1>7 DEF LeaveGuard
<1>8. CASE ConversionLoad
  BY <1>8 DEF ConversionLoad
<1>9. CASE ConversionCheck
  BY <1>9 DEF ConversionCheck
<1>10. CASE ConversionTurn
  BY <1>10 DEF ConversionTurn
<1>11. CASE StartStreaming
  BY <1>11 DEF StartStreaming
<1>12. CASE TakePreviewFrame
  BY <1>12 DEF TakePreviewFrame
<1>13. CASE WriteFrameToRingBuffer
  BY <1>13 DEF WriteFrameToRingBuffer
<1>14. CASE WriteDone
  BY <1>14 DEF WriteDone
<1>15. CASE StopStreaming
  BY <1>15 DEF StopStreaming
<1>16. CASE NativeFrameBufferAllocate
  BY <1>16 DEF NativeFrameBufferAllocate, New, Call
<1>17. CASE NativeFrameBufferDestroy
  BY <1>17 DEF NativeFrameBufferDestroy, Call
<1>18. CASE SetPreviewDisplay
  BY <1>18 DEF SetPreviewDisplay, Call
<1>19. CASE SetUseRingBuffer
  BY <1>19 DEF SetUseRingBuffer, Call
<1>20. CASE AllocateRingBuffer
  BY <1>20 DEF AllocateRingBuffer, Call, Delete
<1>21. CASE DestroyRingBuffer
  BY <1>21 DEF DestroyRingBuffer, Call
<1>22. CASE SetFrameBufferRing
  BY <1>22 DEF SetFrameBufferRing, Call, Delete
<1>23. CASE StartPreview
  BY <1>23 DEF StartPreview, Call, StartConversionThread
<1>24. CASE StopPreview
  BY <1>24 DEF StopPreview, Call
<1>25. CASE StoreAllocated
  BY <1>25 DEF StoreAllocated, New
<1>26. CASE ForgetRing
  BY <1>26 DEF ForgetRing
<1>27. CASE DestroyOld
  BY <1>27 DEF DestroyOld, Delete
<1>28. CASE ClearInjected
  BY <1>28 DEF ClearInjected
<1>29. CASE StoreRing
  BY <1>29 DEF StoreRing
<1>30. CASE SetInjected
  BY <1>30 DEF SetInjected
<1>31. CASE SetUse
  BY <1>31 DEF SetUse
<1>32. CASE LateBinding
  BY <1>32 DEF LateBinding, StartConversionThread
<1>33. CASE CreatePreviewThread
  BY <1>33 DEF CreatePreviewThread
<1>34. CASE ClearUse
  BY <1>34 DEF ClearUse
<1>35. CASE ClearInjectedFlag
  BY <1>35 DEF ClearInjectedFlag
<1>36. CASE Drain
  BY <1>36 DEF Drain
<1>37. CASE ExchangeRing
  BY <1>37 DEF ExchangeRing
<1>38. CASE DeleteOld
  BY <1>38 DEF DeleteOld, Delete
<1>39. CASE StopConversionThread
  BY <1>39 DEF StopConversionThread
<1>40. CASE JoinConversionThread
  BY <1>40 DEF JoinConversionThread
<1>41. CASE JoinPreviewThread
  BY <1>41 DEF JoinPreviewThread
<1>42. CASE Finish
  BY <1>42 DEF Finish
<1>43. CASE UNCHANGED vars
  BY <1>43 DEF vars
<1> QED
  BY <1>1, <1>2, <1>3, <1>4, <1>5, <1>6, <1>7, <1>8, <1>9, <1>10, <1>11, <1>12, <1>13, <1>14, <1>15,
     <1>16, <1>17, <1>18, <1>19, <1>20, <1>21, <1>22, <1>23, <1>24, <1>25, <1>26, <1>27, <1>28,
     <1>29, <1>30, <1>31, <1>32, <1>33, <1>34, <1>35, <1>36, <1>37, <1>38, <1>39, <1>40, <1>41,
     <1>42, <1>43, <1>44
  DEF Next, AppCall, AppStep, CallbackNext, ConversionNext, PreviewNext

LEMMA NextStepTypes ==
  ASSUME StepTypes, [Next]_vars PROVE StepTypes'
<1> USE DEF StepTypes, flagVars, heapVars, cbVars, convVars, pvVars, appVars, windowVars
<1>1. CASE FrameArrives
  BY <1>1 DEF FrameArrives
<1>44. CASE LoadUse
  BY <1>44 DEF LoadUse
<1>2. CASE AddPreviewFrame
  BY <1>2 DEF AddPreviewFrame
<1>3. CASE EnterGuard
  BY <1>3 DEF EnterGuard
<1>4. CASE LoadRing
  BY <1>4 DEF LoadRing
<1>5. CASE CheckInjected
  BY <1>5 DEF CheckInjected
<1>6. CASE EnqueueDone
  BY <1>6 DEF EnqueueDone
<1>7. CASE LeaveGuard
  BY <1>7 DEF LeaveGuard
<1>8. CASE ConversionLoad
  BY <1>8 DEF ConversionLoad
<1>9. CASE ConversionCheck
  BY <1>9 DEF ConversionCheck
<1>10. CASE ConversionTurn
  BY <1>10 DEF ConversionTurn
<1>11. CASE StartStreaming
  BY <1>11 DEF StartStreaming
<1>12. CASE TakePreviewFrame
  BY <1>12 DEF TakePreviewFrame
<1>13. CASE WriteFrameToRingBuffer
  BY <1>13 DEF WriteFrameToRingBuffer
<1>14. CASE WriteDone
  BY <1>14 DEF WriteDone
<1>15. CASE StopStreaming
  BY <1>15 DEF StopStreaming
<1>16. CASE NativeFrameBufferAllocate
  BY <1>16 DEF NativeFrameBufferAllocate, New, Call
<1>17. CASE NativeFrameBufferDestroy
  BY <1>17 DEF NativeFrameBufferDestroy, Call
<1>18. CASE SetPreviewDisplay
  BY <1>18 DEF SetPreviewDisplay, Call
<1>19. CASE SetUseRingBuffer
  BY <1>19 DEF SetUseRingBuffer, Call
<1>20. CASE AllocateRingBuffer
  BY <1>20 DEF AllocateRingBuffer, Call, Delete
<1>21. CASE DestroyRingBuffer
  BY <1>21 DEF DestroyRingBuffer, Call
<1>22. CASE SetFrameBufferRing
  BY <1>22 DEF SetFrameBufferRing, Call, Delete
<1>23. CASE StartPreview
  BY <1>23 DEF StartPreview, Call, StartConversionThread
<1>24. CASE StopPreview
  BY <1>24 DEF StopPreview, Call
<1>25. CASE StoreAllocated
  BY <1>25 DEF StoreAllocated, New
<1>26. CASE ForgetRing
  BY <1>26 DEF ForgetRing
<1>27. CASE DestroyOld
  BY <1>27 DEF DestroyOld, Delete
<1>28. CASE ClearInjected
  BY <1>28 DEF ClearInjected
<1>29. CASE StoreRing
  BY <1>29 DEF StoreRing
<1>30. CASE SetInjected
  BY <1>30 DEF SetInjected
<1>31. CASE SetUse
  BY <1>31 DEF SetUse
<1>32. CASE LateBinding
  BY <1>32 DEF LateBinding, StartConversionThread
<1>33. CASE CreatePreviewThread
  BY <1>33 DEF CreatePreviewThread
<1>34. CASE ClearUse
  BY <1>34 DEF ClearUse
<1>35. CASE ClearInjectedFlag
  BY <1>35 DEF ClearInjectedFlag
<1>36. CASE Drain
  BY <1>36 DEF Drain
<1>37. CASE ExchangeRing
  BY <1>37 DEF ExchangeRing
<1>38. CASE DeleteOld
  BY <1>38 DEF DeleteOld, Delete
<1>39. CASE StopConversionThread
  BY <1>39 DEF StopConversionThread
<1>40. CASE JoinConversionThread
  BY <1>40 DEF JoinConversionThread
<1>41. CASE JoinPreviewThread
  BY <1>41 DEF JoinPreviewThread
<1>42. CASE Finish
  BY <1>42 DEF Finish
<1>43. CASE UNCHANGED vars
  BY <1>43 DEF vars
<1> QED
  BY <1>1, <1>2, <1>3, <1>4, <1>5, <1>6, <1>7, <1>8, <1>9, <1>10, <1>11, <1>12, <1>13, <1>14, <1>15,
     <1>16, <1>17, <1>18, <1>19, <1>20, <1>21, <1>22, <1>23, <1>24, <1>25, <1>26, <1>27, <1>28,
     <1>29, <1>30, <1>31, <1>32, <1>33, <1>34, <1>35, <1>36, <1>37, <1>38, <1>39, <1>40, <1>41,
     <1>42, <1>43, <1>44
  DEF Next, AppCall, AppStep, CallbackNext, ConversionNext, PreviewNext

LEMMA NextTyping == ASSUME Typing, [Next]_vars PROVE Typing'
  BY NextFlagTypes, NextCounts, NextRingTypes, NextStepTypes DEF Typing, TypeOK

LEMMA NextOwned ==
  ASSUME Typing, Owned, [Next]_vars PROVE Owned'
<1> USE DEF Typing, TypeOK, FlagTypes, RingTypes, StepTypes, Owned, flagVars, heapVars, cbVars, convVars, pvVars, appVars, windowVars
<1>1. CASE CallbackNext \/ ConversionNext \/ PreviewNext
  BY <1>1, ThreadsLeave
<1>2. CASE NativeFrameBufferAllocate
  BY <1>2 DEF NativeFrameBufferAllocate, New, Call
<1>3. CASE NativeFrameBufferDestroy
  BY <1>3 DEF NativeFrameBufferDestroy, Call
<1>4. CASE SetPreviewDisplay
  BY <1>4 DEF SetPreviewDisplay, Call
<1>5. CASE SetUseRingBuffer
  BY <1>5 DEF SetUseRingBuffer, Call
<1>6. CASE AllocateRingBuffer
  BY <1>6 DEF AllocateRingBuffer, Call, Delete
<1>7. CASE DestroyRingBuffer
  BY <1>7 DEF DestroyRingBuffer, Call
<1>8. CASE SetFrameBufferRing
  BY <1>8 DEF SetFrameBufferRing, Call, Delete
<1>9. CASE StartPreview
  BY <1>9 DEF StartPreview, Call, StartConversionThread
<1>10. CASE StopPreview
  BY <1>10 DEF StopPreview, Call
<1>11. CASE StoreAllocated
  BY <1>11 DEF StoreAllocated, New
<1>12. CASE ForgetRing
  BY <1>12 DEF ForgetRing
<1>13. CASE DestroyOld
  BY <1>13 DEF DestroyOld, Delete
<1>14. CASE ClearInjected
  BY <1>14 DEF ClearInjected
<1>15. CASE StoreRing
  BY <1>15 DEF StoreRing
<1>16. CASE SetInjected
  BY <1>16 DEF SetInjected
<1>17. CASE SetUse
  BY <1>17 DEF SetUse
<1>18. CASE LateBinding
  BY <1>18 DEF LateBinding, StartConversionThread
<1>19. CASE CreatePreviewThread
  BY <1>19 DEF CreatePreviewThread
<1>20. CASE ClearUse
  BY <1>20 DEF ClearUse
<1>21. CASE ClearInjectedFlag
  BY <1>21 DEF ClearInjectedFlag
<1>22. CASE Drain
  BY <1>22 DEF Drain
<1>23. CASE ExchangeRing
  BY <1>23 DEF ExchangeRing
<1>24. CASE DeleteOld
  BY <1>24 DEF DeleteOld, Delete
<1>25. CASE StopConversionThread
  BY <1>25 DEF StopConversionThread
<1>26. CASE JoinConversionThread
  BY <1>26 DEF JoinConversionThread
<1>27. CASE JoinPreviewThread
  BY <1>27 DEF JoinPreviewThread
<1>28. CASE Finish
  BY <1>28 DEF Finish
<1>29. CASE UNCHANGED vars
  BY <1>29 DEF vars
<1> QED
  BY <1>1, <1>2, <1>3, <1>4, <1>5, <1>6, <1>7, <1>8, <1>9, <1>10, <1>11, <1>12, <1>13, <1>14, <1>15,
     <1>16, <1>17, <1>18, <1>19, <1>20, <1>21, <1>22, <1>23, <1>24, <1>25, <1>26, <1>27, <1>28,
     <1>29
  DEF Next, AppCall, AppStep

\* What a step may do to the rings.
LEMMA NextDeletes ==
  ASSUME Typing, Owned, [Next]_vars PROVE DeletesAreOrdered
<1> USE DEF DeletesAreOrdered, Typing, TypeOK, FlagTypes, RingTypes, StepTypes, Owned, flagVars, heapVars, cbVars, convVars, pvVars, appVars, windowVars
<1>1. CASE CallbackNext \/ ConversionNext \/ PreviewNext
  BY <1>1, ThreadsLeave
<1>2. CASE NativeFrameBufferAllocate
  BY <1>2 DEF NativeFrameBufferAllocate, New, Call
<1>3. CASE NativeFrameBufferDestroy
  BY <1>3 DEF NativeFrameBufferDestroy, Call
<1>4. CASE SetPreviewDisplay
  BY <1>4 DEF SetPreviewDisplay, Call
<1>5. CASE SetUseRingBuffer
  BY <1>5 DEF SetUseRingBuffer, Call
<1>6. CASE AllocateRingBuffer
  BY <1>6 DEF AllocateRingBuffer, Call, Delete
<1>7. CASE DestroyRingBuffer
  BY <1>7 DEF DestroyRingBuffer, Call
<1>8. CASE SetFrameBufferRing
  BY <1>8 DEF SetFrameBufferRing, Call, Delete
<1>9. CASE StartPreview
  BY <1>9 DEF StartPreview, Call, StartConversionThread
<1>10. CASE StopPreview
  BY <1>10 DEF StopPreview, Call
<1>11. CASE StoreAllocated
  BY <1>11 DEF StoreAllocated, New
<1>12. CASE ForgetRing
  BY <1>12 DEF ForgetRing
<1>13. CASE DestroyOld
  BY <1>13 DEF DestroyOld, Delete
<1>14. CASE ClearInjected
  BY <1>14 DEF ClearInjected
<1>15. CASE StoreRing
  BY <1>15 DEF StoreRing
<1>16. CASE SetInjected
  BY <1>16 DEF SetInjected
<1>17. CASE SetUse
  BY <1>17 DEF SetUse
<1>18. CASE LateBinding
  BY <1>18 DEF LateBinding, StartConversionThread
<1>19. CASE CreatePreviewThread
  BY <1>19 DEF CreatePreviewThread
<1>20. CASE ClearUse
  BY <1>20 DEF ClearUse
<1>21. CASE ClearInjectedFlag
  BY <1>21 DEF ClearInjectedFlag
<1>22. CASE Drain
  BY <1>22 DEF Drain
<1>23. CASE ExchangeRing
  BY <1>23 DEF ExchangeRing
<1>24. CASE DeleteOld
  BY <1>24 DEF DeleteOld, Delete
<1>25. CASE StopConversionThread
  BY <1>25 DEF StopConversionThread
<1>26. CASE JoinConversionThread
  BY <1>26 DEF JoinConversionThread
<1>27. CASE JoinPreviewThread
  BY <1>27 DEF JoinPreviewThread
<1>28. CASE Finish
  BY <1>28 DEF Finish
<1>29. CASE UNCHANGED vars
  BY <1>29 DEF vars
<1> QED
  BY <1>1, <1>2, <1>3, <1>4, <1>5, <1>6, <1>7, <1>8, <1>9, <1>10, <1>11, <1>12, <1>13, <1>14, <1>15,
     <1>16, <1>17, <1>18, <1>19, <1>20, <1>21, <1>22, <1>23, <1>24, <1>25, <1>26, <1>27, <1>28,
     <1>29
  DEF Next, AppCall, AppStep

LEMMA NextThreads ==
  ASSUME Typing, Threads, [Next]_vars PROVE Threads'
<1> USE DEF Typing, TypeOK, FlagTypes, StepTypes, Threads, Stopping, flagVars, heapVars, cbVars, convVars, pvVars, appVars, windowVars
<1>1. CASE FrameArrives
  BY <1>1 DEF FrameArrives
<1>44. CASE LoadUse
  BY <1>44 DEF LoadUse
<1>2. CASE AddPreviewFrame
  BY <1>2 DEF AddPreviewFrame
<1>3. CASE EnterGuard
  BY <1>3 DEF EnterGuard
<1>4. CASE LoadRing
  BY <1>4 DEF LoadRing
<1>5. CASE CheckInjected
  BY <1>5 DEF CheckInjected
<1>6. CASE EnqueueDone
  BY <1>6 DEF EnqueueDone
<1>7. CASE LeaveGuard
  BY <1>7 DEF LeaveGuard
<1>8. CASE ConversionLoad
  BY <1>8 DEF ConversionLoad
<1>9. CASE ConversionCheck
  BY <1>9 DEF ConversionCheck
<1>10. CASE ConversionTurn
  BY <1>10 DEF ConversionTurn
<1>11. CASE StartStreaming
  BY <1>11 DEF StartStreaming
<1>12. CASE TakePreviewFrame
  BY <1>12 DEF TakePreviewFrame
<1>13. CASE WriteFrameToRingBuffer
  BY <1>13 DEF WriteFrameToRingBuffer
<1>14. CASE WriteDone
  BY <1>14 DEF WriteDone
<1>15. CASE StopStreaming
  BY <1>15 DEF StopStreaming
<1>16. CASE NativeFrameBufferAllocate
  BY <1>16 DEF NativeFrameBufferAllocate, New, Call
<1>17. CASE NativeFrameBufferDestroy
  BY <1>17 DEF NativeFrameBufferDestroy, Call
<1>18. CASE SetPreviewDisplay
  BY <1>18 DEF SetPreviewDisplay, Call
<1>19. CASE SetUseRingBuffer
  BY <1>19 DEF SetUseRingBuffer, Call
<1>20. CASE AllocateRingBuffer
  BY <1>20 DEF AllocateRingBuffer, Call, Delete
<1>21. CASE DestroyRingBuffer
  BY <1>21 DEF DestroyRingBuffer, Call
<1>22. CASE SetFrameBufferRing
  BY <1>22 DEF SetFrameBufferRing, Call, Delete
<1>23. CASE StartPreview
  BY <1>23 DEF StartPreview, Call, StartConversionThread
<1>24. CASE StopPreview
  BY <1>24 DEF StopPreview, Call
<1>25. CASE StoreAllocated
  BY <1>25 DEF StoreAllocated, New
<1>26. CASE ForgetRing
  BY <1>26 DEF ForgetRing
<1>27. CASE DestroyOld
  BY <1>27 DEF DestroyOld, Delete
<1>28. CASE ClearInjected
  BY <1>28 DEF ClearInjected
<1>29. CASE StoreRing
  BY <1>29 DEF StoreRing
<1>30. CASE SetInjected
  BY <1>30 DEF SetInjected
<1>31. CASE SetUse
  BY <1>31 DEF SetUse
<1>32. CASE LateBinding
  BY <1>32 DEF LateBinding, StartConversionThread
<1>33. CASE CreatePreviewThread
  BY <1>33 DEF CreatePreviewThread
<1>34. CASE ClearUse
  BY <1>34 DEF ClearUse
<1>35. CASE ClearInjectedFlag
  BY <1>35 DEF ClearInjectedFlag
<1>36. CASE Drain
  BY <1>36 DEF Drain
<1>37. CASE ExchangeRing
  BY <1>37 DEF ExchangeRing
<1>38. CASE DeleteOld
  BY <1>38 DEF DeleteOld, Delete
<1>39. CASE StopConversionThread
  BY <1>39 DEF StopConversionThread
<1>40. CASE JoinConversionThread
  BY <1>40 DEF JoinConversionThread
<1>41. CASE JoinPreviewThread
  BY <1>41 DEF JoinPreviewThread
<1>42. CASE Finish
  BY <1>42 DEF Finish
<1>43. CASE UNCHANGED vars
  BY <1>43 DEF vars
<1> QED
  BY <1>1, <1>2, <1>3, <1>4, <1>5, <1>6, <1>7, <1>8, <1>9, <1>10, <1>11, <1>12, <1>13, <1>14, <1>15,
     <1>16, <1>17, <1>18, <1>19, <1>20, <1>21, <1>22, <1>23, <1>24, <1>25, <1>26, <1>27, <1>28,
     <1>29, <1>30, <1>31, <1>32, <1>33, <1>34, <1>35, <1>36, <1>37, <1>38, <1>39, <1>40, <1>41,
     <1>42, <1>43, <1>44
  DEF Next, AppCall, AppStep, CallbackNext, ConversionNext, PreviewNext

-----------------------------------------------------------------------------
(* Theorems for every application                                           *)

SafeRings == Typing /\ Owned /\ Threads

LEMMA SafeRingsAlways == Spec => []SafeRings
<1>1. Init => SafeRings
  BY InitTyping, InitRest DEF SafeRings
<1>2. SafeRings /\ [Next]_vars => SafeRings'
  BY NextTyping, NextOwned, NextThreads DEF SafeRings
<1> QED  BY <1>1, <1>2, PTL DEF Spec

(* Every variable keeps its type; in particular the in-flight count of     *)
(* callbacks is 0 or 1 at all times, and the preview queue stays within    *)
(* MAX_FRAME.                                                              *)
THEOREM TeardownTypeCorrect == Spec => []TypeOK
<1>1. SafeRings => TypeOK
  BY DEF SafeRings, Typing
<1> QED  BY SafeRingsAlways, <1>1, PTL

(* Whatever the application calls, and even if the drain times out:        *)
(* setFrameBufferRing, allocateRingBuffer, destroyRingBuffer and           *)
(* stopPreview delete only live rings; of the rings an application has a   *)
(* handle to, only stopPreview deletes one, and only then is the owner's   *)
(* nativeFrameBufferDestroy a second deletion.                             *)
THEOREM TeardownDeletesLiveRings == Spec => DeletesLiveRings
<1>1. SafeRings /\ [Next]_vars => DeletesAreOrdered
  BY NextDeletes DEF SafeRings
<1> QED  BY SafeRingsAlways, <1>1, PTL DEF Spec, DeletesLiveRings

(* Between two calls mFrameBufferRing is null or leads to a live ring, and *)
(* a live ring without a handle is that one: none is leaked.               *)
THEOREM TeardownKeepsTrack == Spec => []NothingDanglesOrLeaks
<1>1. SafeRings => NothingDanglesOrLeaks
  BY DEF SafeRings, Owned, NothingDanglesOrLeaks, Typing, TypeOK, RingTypes
<1> QED  BY SafeRingsAlways, <1>1, PTL

(* After stopPreview() neither the conversion thread, nor the preview      *)
(* thread, nor a USB callback is left running.                             *)
THEOREM TeardownQuiet == Spec => []StoppedIsQuiet
<1>1. SafeRings => StoppedIsQuiet
  BY DEF SafeRings, Threads, StoppedIsQuiet, Stopping
<1> QED  BY SafeRingsAlways, <1>1, PTL

(* startConversionThread() is never called while an earlier conversion     *)
(* thread has yet to be joined.                                            *)
THEOREM TeardownFlagsAgree == Spec => []FlagsAgree
<1>1. SafeRings => FlagsAgree
  BY DEF SafeRings, Threads, FlagsAgree
<1> QED  BY SafeRingsAlways, <1>1, PTL

-----------------------------------------------------------------------------
(* The callback's ring, for an application that injects its own             *)

LEMMA NextFlagsFollow ==
  ASSUME Calls \subseteq Injecting, Typing, Owned, FlagsFollow, [Next]_vars PROVE FlagsFollow'
<1> USE DEF Typing, TypeOK, FlagTypes, RingTypes, StepTypes, FlagsFollow, Injecting, flagVars, heapVars, cbVars, convVars, pvVars, appVars, windowVars
<1>1. CASE CallbackNext \/ ConversionNext \/ PreviewNext
  BY <1>1, ThreadsLeave
<1>2. CASE NativeFrameBufferAllocate
  BY <1>2 DEF NativeFrameBufferAllocate, New, Call
<1>3. CASE NativeFrameBufferDestroy
  BY <1>3 DEF NativeFrameBufferDestroy, Call
<1>4. CASE SetPreviewDisplay
  BY <1>4 DEF SetPreviewDisplay, Call
<1>5. CASE SetUseRingBuffer
  BY <1>5 DEF SetUseRingBuffer, Call
<1>6. CASE AllocateRingBuffer
  BY <1>6 DEF AllocateRingBuffer, Call, Delete
<1>7. CASE DestroyRingBuffer
  BY <1>7 DEF DestroyRingBuffer, Call
<1>8. CASE SetFrameBufferRing
  BY <1>8 DEF SetFrameBufferRing, Call, Delete
<1>9. CASE StartPreview
  BY <1>9 DEF StartPreview, Call, StartConversionThread
<1>10. CASE StopPreview
  BY <1>10 DEF StopPreview, Call
<1>11. CASE StoreAllocated
  BY <1>11 DEF StoreAllocated, New
<1>12. CASE ForgetRing
  BY <1>12 DEF ForgetRing
<1>13. CASE DestroyOld
  BY <1>13 DEF DestroyOld, Delete
<1>14. CASE ClearInjected
  BY <1>14 DEF ClearInjected
<1>15. CASE StoreRing
  BY <1>15 DEF StoreRing, Owned
<1>16. CASE SetInjected
  BY <1>16 DEF SetInjected
<1>17. CASE SetUse
  BY <1>17 DEF SetUse
<1>18. CASE LateBinding
  BY <1>18 DEF LateBinding, StartConversionThread
<1>19. CASE CreatePreviewThread
  BY <1>19 DEF CreatePreviewThread
<1>20. CASE ClearUse
  BY <1>20 DEF ClearUse
<1>21. CASE ClearInjectedFlag
  BY <1>21 DEF ClearInjectedFlag
<1>22. CASE Drain
  BY <1>22 DEF Drain
<1>23. CASE ExchangeRing
  BY <1>23 DEF ExchangeRing
<1>24. CASE DeleteOld
  BY <1>24 DEF DeleteOld, Delete
<1>25. CASE StopConversionThread
  BY <1>25 DEF StopConversionThread
<1>26. CASE JoinConversionThread
  BY <1>26 DEF JoinConversionThread
<1>27. CASE JoinPreviewThread
  BY <1>27 DEF JoinPreviewThread
<1>28. CASE Finish
  BY <1>28 DEF Finish
<1>29. CASE UNCHANGED vars
  BY <1>29 DEF vars
<1> QED
  BY <1>1, <1>2, <1>3, <1>4, <1>5, <1>6, <1>7, <1>8, <1>9, <1>10, <1>11, <1>12, <1>13, <1>14, <1>15,
     <1>16, <1>17, <1>18, <1>19, <1>20, <1>21, <1>22, <1>23, <1>24, <1>25, <1>26, <1>27, <1>28,
     <1>29
  DEF Next, AppCall, AppStep

LEMMA NextCallbackKnows ==
  ASSUME Calls \subseteq Injecting, DrainMayTimeOut = FALSE, SafeRings, FlagsFollow, CallbackKnows, [Next]_vars PROVE CallbackKnows'
<1> USE DEF SafeRings, Typing, TypeOK, FlagTypes, RingTypes, StepTypes, InFlight, FlagsFollow, CallbackKnows, CallbackRingIsLive, Injecting, flagVars, heapVars, cbVars, convVars, pvVars, appVars, windowVars
<1>1. CASE FrameArrives
  BY <1>1 DEF FrameArrives
<1>44. CASE LoadUse
  BY <1>44 DEF LoadUse
<1>2. CASE AddPreviewFrame
  BY <1>2 DEF AddPreviewFrame
<1>3. CASE EnterGuard
  BY <1>3 DEF EnterGuard
<1>4. CASE LoadRing
  BY <1>4 DEF LoadRing
<1>5. CASE CheckInjected
  BY <1>5 DEF CheckInjected
<1>6. CASE EnqueueDone
  BY <1>6 DEF EnqueueDone
<1>7. CASE LeaveGuard
  BY <1>7 DEF LeaveGuard
<1>8. CASE ConversionLoad
  BY <1>8 DEF ConversionLoad
<1>9. CASE ConversionCheck
  BY <1>9 DEF ConversionCheck
<1>10. CASE ConversionTurn
  BY <1>10 DEF ConversionTurn
<1>11. CASE StartStreaming
  BY <1>11 DEF StartStreaming
<1>12. CASE TakePreviewFrame
  BY <1>12 DEF TakePreviewFrame
<1>13. CASE WriteFrameToRingBuffer
  BY <1>13 DEF WriteFrameToRingBuffer
<1>14. CASE WriteDone
  BY <1>14 DEF WriteDone
<1>15. CASE StopStreaming
  BY <1>15 DEF StopStreaming
<1>16. CASE NativeFrameBufferAllocate
  BY <1>16 DEF NativeFrameBufferAllocate, New, Call
<1>17. CASE NativeFrameBufferDestroy
  BY <1>17 DEF NativeFrameBufferDestroy, Call
<1>18. CASE SetPreviewDisplay
  BY <1>18 DEF SetPreviewDisplay, Call
<1>19. CASE SetUseRingBuffer
  BY <1>19 DEF SetUseRingBuffer, Call
<1>20. CASE AllocateRingBuffer
  BY <1>20 DEF AllocateRingBuffer, Call, Delete
<1>21. CASE DestroyRingBuffer
  BY <1>21 DEF DestroyRingBuffer, Call
<1>22. CASE SetFrameBufferRing
  BY <1>22 DEF SetFrameBufferRing, Call, Delete
<1>23. CASE StartPreview
  BY <1>23 DEF StartPreview, Call, StartConversionThread
<1>24. CASE StopPreview
  BY <1>24 DEF StopPreview, Call
<1>25. CASE StoreAllocated
  BY <1>25 DEF StoreAllocated, New
<1>26. CASE ForgetRing
  BY <1>26 DEF ForgetRing
<1>27. CASE DestroyOld
  BY <1>27 DEF DestroyOld, Delete
<1>28. CASE ClearInjected
  BY <1>28 DEF ClearInjected
<1>29. CASE StoreRing
  BY <1>29 DEF StoreRing, Owned
<1>30. CASE SetInjected
  BY <1>30 DEF SetInjected
<1>31. CASE SetUse
  BY <1>31 DEF SetUse
<1>32. CASE LateBinding
  BY <1>32 DEF LateBinding, StartConversionThread
<1>33. CASE CreatePreviewThread
  BY <1>33 DEF CreatePreviewThread
<1>34. CASE ClearUse
  BY <1>34 DEF ClearUse
<1>35. CASE ClearInjectedFlag
  BY <1>35 DEF ClearInjectedFlag
<1>36. CASE Drain
  BY <1>36 DEF Drain
<1>37. CASE ExchangeRing
  BY <1>37 DEF ExchangeRing
<1>38. CASE DeleteOld
  BY <1>38 DEF DeleteOld, Delete
<1>39. CASE StopConversionThread
  BY <1>39 DEF StopConversionThread
<1>40. CASE JoinConversionThread
  BY <1>40 DEF JoinConversionThread
<1>41. CASE JoinPreviewThread
  BY <1>41 DEF JoinPreviewThread, Threads
<1>42. CASE Finish
  BY <1>42 DEF Finish
<1>43. CASE UNCHANGED vars
  BY <1>43 DEF vars
<1> QED
  BY <1>1, <1>2, <1>3, <1>4, <1>5, <1>6, <1>7, <1>8, <1>9, <1>10, <1>11, <1>12, <1>13, <1>14, <1>15,
     <1>16, <1>17, <1>18, <1>19, <1>20, <1>21, <1>22, <1>23, <1>24, <1>25, <1>26, <1>27, <1>28,
     <1>29, <1>30, <1>31, <1>32, <1>33, <1>34, <1>35, <1>36, <1>37, <1>38, <1>39, <1>40, <1>41,
     <1>42, <1>43, <1>44
  DEF Next, AppCall, AppStep, CallbackNext, ConversionNext, PreviewNext

(* The purpose of signalling, draining and only then destroying            *)
(* (clearRingBuffer): if no callback outlasts the drain, the USB callback  *)
(* of a preview with injected rings never follows a pointer to a deleted   *)
(* ring, whenever stopPreview() is called.                                 *)
THEOREM TeardownCallbackSafe ==
  ASSUME Calls \subseteq Injecting, DrainMayTimeOut = FALSE PROVE Spec => []CallbackRingIsLive
<1> DEFINE I == SafeRings /\ FlagsFollow /\ CallbackKnows
<1>1. Init => I
  BY InitTyping, InitRest DEF SafeRings
<1>2. I /\ [Next]_vars => I'
  <2> SUFFICES ASSUME I, [Next]_vars PROVE I'  OBVIOUS
  <2>1. SafeRings'
    BY NextTyping, NextOwned, NextThreads DEF SafeRings
  <2>2. FlagsFollow'
    BY NextFlagsFollow DEF SafeRings
  <2>3. CallbackKnows'
    BY NextCallbackKnows
  <2> QED  BY <2>1, <2>2, <2>3
<1>3. I => CallbackRingIsLive
  BY DEF CallbackKnows
<1> QED  BY <1>1, <1>2, <1>3, PTL DEF Spec

==============================================================================
