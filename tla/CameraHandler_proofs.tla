------------------------- MODULE CameraHandler_proofs -------------------------
(***************************************************************************)
(* Proofs about the camera thread of module CameraHandler and the           *)
(* recordings of module Recording, for any number of recordings, frames and *)
(* calls.                                                                   *)
(*                                                                          *)
(* The handler implements Recording, whose invariant RecordingInv says what *)
(* the camera thread, each encoder and each muxer know of one another.  The *)
(* handler's own invariant HandlerInv follows the one message to stop that a*)
(* caller may wait for.                                                     *)
(***************************************************************************)
EXTENDS CameraHandler, TLAPS, FiniteSetTheorems, WellFoundedInduction

USE DEF camVars, muxVars, reqVars, lisVars, handlerVars, cameraVars, appVars

(***************************************************************************)
(* Recordings.                                                              *)
(***************************************************************************)
\* The two encoders of a recording.
Vid(r) == <<r, Video>>
Aud(r) == <<r, Audio>>

\* Where an encoder's thread may be before it is asked to record.
Waiting == {"none", "born", "loop", "sleep", "asleep"}
Gone == {"leave", "done"}

\* An encoder that was never started.
Early(e) == ~stop[e] /\ ~ending[e] /\ ~joined[e] /\ drain[e] = 0 /\ pc[e] \in Waiting

\* Whether the muxer counts an encoder: between MediaMuxerWrapper.start() and stop().
In(e) == joined[e] /\ pc[e] \notin {"join", "done"}

Starting == {"video", "audio", "prepare", "start"}

\* The camera thread knows a muxer only when it is idle.  Whoever stops a recording has
\* forgotten its muxer and stopped its capture, and neither comes back.
Camera ==
  /\ muxer \in {None, last} /\ (hpc # "idle" => muxer = None /\ last # None)
  /\ \A w \in Stoppers : \A e \in asks[w] :
       e[1] <= last /\ muxer # e[1] /\ surface # e[1] /\ (e[1] = last => hpc = "idle")

\* Its step determines which encoders there are, and which of them record.
Position(r) ==
  /\ r > last => pc[Vid(r)] = "none" /\ pc[Aud(r)] = "none"
  /\ r < last \/ (r = last /\ hpc # "video") => pc[Vid(r)] # "none" /\ pc[Aud(r)] # "none"
  /\ r = last /\ hpc = "video" => pc[Vid(r)] # "none" /\ pc[Aud(r)] = "none"
  /\ r = last /\ hpc \in {"audio", "prepare", "start", "start2"} => pc[Vid(r)] # "born"
  /\ r = last /\ hpc \in {"prepare", "start", "start2"} => pc[Aud(r)] # "born"
  /\ r = last /\ hpc \in Starting => ~capturing[Vid(r)] /\ pc[Vid(r)] \in Waiting
  /\ r = last /\ hpc \in Starting \cup {"start2"} => ~capturing[Aud(r)] /\ pc[Aud(r)] \in Waiting
  /\ surface = r => ~stop[Vid(r)]
  /\ r \in collected => r <= last
  /\ closing[r] # "none" => pc[Vid(r)] = "release"

\* What an encoder thread has been asked, and how far it may be.
Thread(e) ==
  /\ IF capturing[e] THEN pc[e] \notin {"none", "born"} \cup Gone ELSE Early(e) \/ pc[e] \in Gone
  /\ ending[e] => stop[e]
  /\ pc[e] \in {"stopped", "release"} \cup Gone => ending[e]
  /\ pc[e] \in {"join", "await", "leave"} => joined[e] /\ e[1] \notin collected
  /\ joined[e] /\ pc[e] \notin {"join", "await"} => file[e[1]] # "new"

\* What the muxer knows of its encoders.
Muxer(r) ==
  /\ Video \in tracks[r] <=> joined[Vid(r)]
  /\ Audio \in tracks[r] <=> joined[Aud(r)]
  /\ r \notin collected =>
       count[r] = (IF In(Vid(r)) THEN 1 ELSE 0) + (IF In(Aud(r)) THEN 1 ELSE 0)
  /\ file[r] # "new" =>
       joined[Vid(r)] /\ joined[Aud(r)] /\ pc[Vid(r)] # "join" /\ pc[Aud(r)] # "join"
  /\ file[r] = "stopped" => pc[Vid(r)] = "done" /\ pc[Aud(r)] = "done"
  /\ file[r] = "started" /\ r \notin collected => pc[Vid(r)] # "done" \/ pc[Aud(r)] # "done"

RecordingInv ==
  /\ TypeOK /\ Camera
  /\ \A e \in Encoders : Thread(e)
  /\ \A r \in Recordings : Position(r) /\ Muxer(r)

LEMMA EncoderFacts ==
  /\ \A r \in Recordings :
       /\ Vid(r) \in Encoders /\ Aud(r) \in Encoders /\ Vid(r) # Aud(r)
       /\ Vid(r)[1] = r /\ Aud(r)[1] = r /\ Vid(r)[2] = Video /\ Aud(r)[2] = Audio
  /\ \A e \in Encoders :
       /\ e[1] \in Recordings /\ e[2] \in Kinds
       /\ e = IF e[2] = Video THEN Vid(e[1]) ELSE Aud(e[1])
  /\ Kinds = {Video, Audio} /\ Video # Audio
  BY DEF Vid, Aud, Encoders, Kinds, Video, Audio

LEMMA EncoderCountIs ==
  ASSUME NEW r, pc[Vid(r)] # "none", pc[Aud(r)] # "none"
  PROVE  EncoderCount(r) = 2
<1>1. {k \in Kinds : pc[<<r, k>>] # "none"} = {Video, Audio}
  BY DEF Kinds, Vid, Aud
<1>2. Video # Audio
  BY DEF Video, Audio
<1>3. IsFiniteSet({Video}) /\ Cardinality({Video}) = 1
  BY FS_Singleton
<1>4. Cardinality({Video} \cup {Audio}) = 2
  BY <1>2, <1>3, FS_AddElement
<1>5. {Video} \cup {Audio} = {Video, Audio}
  OBVIOUS
<1> QED  BY <1>1, <1>4, <1>5 DEF EncoderCount

\* An encoder, or a recording, that a step leaves alone.
Same(e) ==
  /\ pc'[e] = pc[e] /\ ending'[e] = ending[e] /\ stop'[e] = stop[e] /\ drain'[e] = drain[e]
  /\ capturing'[e] = capturing[e] /\ joined'[e] = joined[e]

LEMMA ThreadFrame ==
  ASSUME NEW e, Thread(e), Same(e), collected' = collected,
         file[e[1]] # "new" => file'[e[1]] # "new"
  PROVE  Thread(e)'
  BY DEF Thread, Same, Early

LEMMA MuxerFrame ==
  ASSUME NEW r, Muxer(r), Same(Vid(r)), Same(Aud(r)), collected' = collected,
         tracks'[r] = tracks[r], file'[r] = file[r], count'[r] = count[r]
  PROVE  Muxer(r)'
  BY DEF Muxer, Same, In

\* A step of one encoder and its muxer leaves the invariant of all the others.
LEMMA OneThread ==
  ASSUME NEW e \in Encoders, RecordingInv, TypeOK', Camera',
         \A q \in Recordings : Position(q)',
         \A f \in Encoders : f # e => Same(f),
         /\ \A q \in Recordings :
              q # e[1] => tracks'[q] = tracks[q] /\ file'[q] = file[q] /\ count'[q] = count[q]
         /\ collected' = collected,
         file[e[1]] # "new" => file'[e[1]] # "new",
         Thread(e)', Muxer(e[1])'
  PROVE  RecordingInv'
<1>1. /\ \A q \in Recordings : Muxer(q)
      /\ \A f \in Encoders : Thread(f)
  BY DEF RecordingInv
<1>2. ASSUME NEW f \in Encoders PROVE Thread(f)'
  BY <1>1, <1>2, EncoderFacts, ThreadFrame
<1>3. ASSUME NEW q \in Recordings, q # e[1] PROVE Muxer(q)'
  <2>1. Same(Vid(q)) /\ Same(Aud(q))
    BY <1>3, EncoderFacts
  <2> QED  BY <1>1, <1>3, <2>1, MuxerFrame
<1> QED  BY <1>2, <1>3 DEF RecordingInv

\* Taking the input surface from the camera disturbs nobody who stops a recording.
LEMMA AsksStand ==
  ASSUME TypeOK, Camera, UNCHANGED <<camVars, asks>>, surface' \in {surface, None}
  PROVE  Camera'
<1>1. ASSUME NEW w \in Stoppers, NEW e \in asks[w] PROVE e[1] # None
  BY <1>1, EncoderFacts, BoundsAssumption DEF TypeOK, Recordings, None
<1> QED  BY <1>1 DEF Camera

LEMMA FrameAvailableSoonKeeps ==
  \A e \in Encoders : RecordingInv /\ FrameAvailableSoon(e) => RecordingInv'
<1> SUFFICES ASSUME NEW e \in Encoders, RecordingInv, FrameAvailableSoon(e)
    PROVE  RecordingInv'
  OBVIOUS
<1>1. /\ TypeOK /\ Camera /\ \A r \in Recordings : Position(r) /\ Muxer(r)
      /\ \A f \in Encoders : Thread(f)
  BY DEF RecordingInv
<1>2. TypeOK'
  BY <1>1, EncoderFacts, BoundsAssumption DEF TypeOK, FrameAvailableSoon, Notified
<1>3. \A f \in Encoders : f # e => Same(f)
  BY <1>1 DEF TypeOK, Same, FrameAvailableSoon, Notified
<1>4. /\ \A q \in Recordings :
           q # e[1] => tracks'[q] = tracks[q] /\ file'[q] = file[q] /\ count'[q] = count[q]
      /\ collected' = collected
  BY <1>1 DEF TypeOK, FrameAvailableSoon, Notified
<1>5. Camera'
  BY <1>1 DEF Camera, FrameAvailableSoon, Notified
<1>6. ASSUME NEW q \in Recordings PROVE Position(q)'
  BY <1>1, <1>6, EncoderFacts
     DEF TypeOK, Position, Thread, Starting, Waiting, Gone, Early, FrameAvailableSoon, Notified
<1>7. Thread(e)'
  BY <1>1, EncoderFacts
     DEF TypeOK, Camera, Thread, Starting, Waiting, Gone, Early, FrameAvailableSoon, Notified
<1>8. file[e[1]] # "new" => file'[e[1]] # "new"
  BY <1>1, EncoderFacts DEF TypeOK, FrameAvailableSoon, Notified
<1>9. Muxer(e[1])'
  <2>1. /\ e[1] \in Recordings /\ Muxer(e[1]) /\ Thread(Vid(e[1])) /\ Thread(Aud(e[1]))
        /\ Vid(e[1]) # Aud(e[1]) /\ Vid(e[1]) \in Encoders /\ Aud(e[1]) \in Encoders
        /\ \/ e = Vid(e[1]) /\ e[2] = Video /\ Same(Aud(e[1]))
           \/ e = Aud(e[1]) /\ e[2] = Audio /\ Same(Vid(e[1]))
    BY <1>1, <1>3, EncoderFacts
  <2> QED
    BY <1>1, <2>1, EncoderFacts
       DEF TypeOK, Muxer, In, Same, Thread, Early, Waiting, Gone, FrameAvailableSoon, Notified
<1> QED  BY <1>2, <1>3, <1>4, <1>5, <1>7, <1>8, <1>9, <1>6, OneThread

LEMMA SpuriousWakeKeeps == \A e \in Encoders : RecordingInv /\ SpuriousWake(e) => RecordingInv'
<1> SUFFICES ASSUME NEW e \in Encoders, RecordingInv, SpuriousWake(e) PROVE RecordingInv'  OBVIOUS
<1>1. /\ TypeOK /\ Camera /\ \A r \in Recordings : Position(r) /\ Muxer(r)
      /\ \A f \in Encoders : Thread(f)
  BY DEF RecordingInv
<1>2. TypeOK'
  BY <1>1, EncoderFacts, BoundsAssumption DEF TypeOK, SpuriousWake, At
<1>3. \A f \in Encoders : f # e => Same(f)
  BY <1>1 DEF TypeOK, Same, SpuriousWake, At
<1>4. /\ \A q \in Recordings :
           q # e[1] => tracks'[q] = tracks[q] /\ file'[q] = file[q] /\ count'[q] = count[q]
      /\ collected' = collected
  BY <1>1 DEF TypeOK, SpuriousWake, At
<1>5. Camera'
  BY <1>1 DEF Camera, SpuriousWake, At
<1>6. ASSUME NEW q \in Recordings PROVE Position(q)'
  BY <1>1, <1>6, EncoderFacts
     DEF TypeOK, Position, Thread, Starting, Waiting, Gone, Early, SpuriousWake, At
<1>7. Thread(e)'
  BY <1>1, EncoderFacts
     DEF TypeOK, Camera, Thread, Starting, Waiting, Gone, Early, SpuriousWake, At
<1>8. file[e[1]] # "new" => file'[e[1]] # "new"
  BY <1>1, EncoderFacts DEF TypeOK, SpuriousWake, At
<1>9. Muxer(e[1])'
  <2>1. /\ e[1] \in Recordings /\ Muxer(e[1]) /\ Thread(Vid(e[1])) /\ Thread(Aud(e[1]))
        /\ Vid(e[1]) # Aud(e[1]) /\ Vid(e[1]) \in Encoders /\ Aud(e[1]) \in Encoders
        /\ \/ e = Vid(e[1]) /\ e[2] = Video /\ Same(Aud(e[1]))
           \/ e = Aud(e[1]) /\ e[2] = Audio /\ Same(Vid(e[1]))
    BY <1>1, <1>3, EncoderFacts
  <2>2. pc[e] = "asleep" /\ pc'[e] \in {"loop", "asleep"} /\ UNCHANGED <<joined, muxVars>>
    BY <1>1 DEF TypeOK, SpuriousWake, At
  <2> QED  BY <1>4, <2>1, <2>2 DEF Muxer, In, Same
<1> QED  BY <1>2, <1>3, <1>4, <1>5, <1>7, <1>8, <1>9, <1>6, OneThread

LEMMA BeginKeeps == \A e \in Encoders : RecordingInv /\ Begin(e) => RecordingInv'
<1> SUFFICES ASSUME NEW e \in Encoders, RecordingInv, Begin(e) PROVE RecordingInv'  OBVIOUS
<1>1. /\ TypeOK /\ Camera /\ \A r \in Recordings : Position(r) /\ Muxer(r)
      /\ \A f \in Encoders : Thread(f)
  BY DEF RecordingInv
<1>2. TypeOK'
  BY <1>1, EncoderFacts, BoundsAssumption DEF TypeOK, Begin, At
<1>3. \A f \in Encoders : f # e => Same(f)
  BY <1>1 DEF TypeOK, Same, Begin, At
<1>4. /\ \A q \in Recordings :
           q # e[1] => tracks'[q] = tracks[q] /\ file'[q] = file[q] /\ count'[q] = count[q]
      /\ collected' = collected
  BY <1>1 DEF TypeOK, Begin, At
<1>5. Camera'
  BY <1>1 DEF Camera, Begin, At
<1>6. ASSUME NEW q \in Recordings PROVE Position(q)'
  BY <1>1, <1>6, EncoderFacts
     DEF TypeOK, Position, Thread, Starting, Waiting, Gone, Early, Begin, At
<1>7. Thread(e)'
  BY <1>1, EncoderFacts DEF TypeOK, Camera, Thread, Starting, Waiting, Gone, Early, Begin, At
<1>8. file[e[1]] # "new" => file'[e[1]] # "new"
  BY <1>1, EncoderFacts DEF TypeOK, Begin, At
<1>9. Muxer(e[1])'
  <2>1. /\ e[1] \in Recordings /\ Muxer(e[1]) /\ Thread(Vid(e[1])) /\ Thread(Aud(e[1]))
        /\ Vid(e[1]) # Aud(e[1]) /\ Vid(e[1]) \in Encoders /\ Aud(e[1]) \in Encoders
        /\ \/ e = Vid(e[1]) /\ e[2] = Video /\ Same(Aud(e[1]))
           \/ e = Aud(e[1]) /\ e[2] = Audio /\ Same(Vid(e[1]))
    BY <1>1, <1>3, EncoderFacts
  <2> QED
    BY <1>1, <2>1, EncoderFacts
       DEF TypeOK, Muxer, In, Same, Thread, Early, Waiting, Gone, Begin, At
<1> QED  BY <1>2, <1>3, <1>4, <1>5, <1>7, <1>8, <1>9, <1>6, OneThread

LEMMA ReadRequestsKeeps == \A e \in Encoders : RecordingInv /\ ReadRequests(e) => RecordingInv'
<1> SUFFICES ASSUME NEW e \in Encoders, RecordingInv, ReadRequests(e) PROVE RecordingInv'  OBVIOUS
<1>1. /\ TypeOK /\ Camera /\ \A r \in Recordings : Position(r) /\ Muxer(r)
      /\ \A f \in Encoders : Thread(f)
  BY DEF RecordingInv
<1>2. TypeOK'
  <2>1. drain' \in [Encoders -> 0..MaxDrain]
    BY <1>1, BoundsAssumption DEF TypeOK, ReadRequests
  <2>2. pc' = [pc EXCEPT ![e] = "drain"] \/ pc' = [pc EXCEPT ![e] = "sleep"]
    BY DEF ReadRequests
  <2>3. ending' \in [Encoders -> BOOLEAN]
    BY <1>1 DEF TypeOK, ReadRequests
  <2> QED  BY <1>1, <2>1, <2>2, <2>3 DEF TypeOK, ReadRequests
<1>3. \A f \in Encoders : f # e => Same(f)
  BY <1>1 DEF TypeOK, Same, ReadRequests, At
<1>4. /\ \A q \in Recordings :
           q # e[1] => tracks'[q] = tracks[q] /\ file'[q] = file[q] /\ count'[q] = count[q]
      /\ collected' = collected
  BY <1>1 DEF TypeOK, ReadRequests, At
<1>5. Camera'
  BY <1>1 DEF Camera, ReadRequests, At
<1>6. ASSUME NEW q \in Recordings PROVE Position(q)'
  BY <1>1, <1>6, EncoderFacts
     DEF TypeOK, Position, Thread, Starting, Waiting, Gone, Early, ReadRequests, At
<1>7. Thread(e)'
  BY <1>1, EncoderFacts
     DEF TypeOK, Camera, Thread, Starting, Waiting, Gone, Early, ReadRequests, At
<1>8. file[e[1]] # "new" => file'[e[1]] # "new"
  BY <1>1, EncoderFacts DEF TypeOK, ReadRequests, At
<1>9. Muxer(e[1])'
  <2>1. /\ e[1] \in Recordings /\ Muxer(e[1]) /\ Thread(Vid(e[1])) /\ Thread(Aud(e[1]))
        /\ Vid(e[1]) # Aud(e[1]) /\ Vid(e[1]) \in Encoders /\ Aud(e[1]) \in Encoders
        /\ \/ e = Vid(e[1]) /\ e[2] = Video /\ Same(Aud(e[1]))
           \/ e = Aud(e[1]) /\ e[2] = Audio /\ Same(Vid(e[1]))
    BY <1>1, <1>3, EncoderFacts
  <2> QED
    BY <1>1, <2>1, EncoderFacts
       DEF TypeOK, Muxer, In, Same, Thread, Early, Waiting, Gone, ReadRequests, At
<1> QED  BY <1>2, <1>3, <1>4, <1>5, <1>7, <1>8, <1>9, <1>6, OneThread

LEMMA SleepKeeps == \A e \in Encoders : RecordingInv /\ Sleep(e) => RecordingInv'
<1> SUFFICES ASSUME NEW e \in Encoders, RecordingInv, Sleep(e) PROVE RecordingInv'  OBVIOUS
<1>1. /\ TypeOK /\ Camera /\ \A r \in Recordings : Position(r) /\ Muxer(r)
      /\ \A f \in Encoders : Thread(f)
  BY DEF RecordingInv
<1>2. TypeOK'
  BY <1>1, EncoderFacts, BoundsAssumption DEF TypeOK, Sleep, At
<1>3. \A f \in Encoders : f # e => Same(f)
  BY <1>1 DEF TypeOK, Same, Sleep, At
<1>4. /\ \A q \in Recordings :
           q # e[1] => tracks'[q] = tracks[q] /\ file'[q] = file[q] /\ count'[q] = count[q]
      /\ collected' = collected
  BY <1>1 DEF TypeOK, Sleep, At
<1>5. Camera'
  BY <1>1 DEF Camera, Sleep, At
<1>6. ASSUME NEW q \in Recordings PROVE Position(q)'
  BY <1>1, <1>6, EncoderFacts
     DEF TypeOK, Position, Thread, Starting, Waiting, Gone, Early, Sleep, At
<1>7. Thread(e)'
  BY <1>1, EncoderFacts DEF TypeOK, Camera, Thread, Starting, Waiting, Gone, Early, Sleep, At
<1>8. file[e[1]] # "new" => file'[e[1]] # "new"
  BY <1>1, EncoderFacts DEF TypeOK, Sleep, At
<1>9. Muxer(e[1])'
  <2>1. /\ e[1] \in Recordings /\ Muxer(e[1]) /\ Thread(Vid(e[1])) /\ Thread(Aud(e[1]))
        /\ Vid(e[1]) # Aud(e[1]) /\ Vid(e[1]) \in Encoders /\ Aud(e[1]) \in Encoders
        /\ \/ e = Vid(e[1]) /\ e[2] = Video /\ Same(Aud(e[1]))
           \/ e = Aud(e[1]) /\ e[2] = Audio /\ Same(Vid(e[1]))
    BY <1>1, <1>3, EncoderFacts
  <2>2. pc[e] = "sleep" /\ pc'[e] \in {"loop", "asleep"} /\ UNCHANGED <<joined, muxVars>>
    BY <1>1 DEF TypeOK, Sleep, At
  <2> QED  BY <1>4, <2>1, <2>2 DEF Muxer, In, Same
<1> QED  BY <1>2, <1>3, <1>4, <1>5, <1>7, <1>8, <1>9, <1>6, OneThread

LEMMA LeaveDrainKeeps == \A e \in Encoders : RecordingInv /\ LeaveDrain(e) => RecordingInv'
<1> SUFFICES ASSUME NEW e \in Encoders, RecordingInv, LeaveDrain(e) PROVE RecordingInv'  OBVIOUS
<1>1. /\ TypeOK /\ Camera /\ \A r \in Recordings : Position(r) /\ Muxer(r)
      /\ \A f \in Encoders : Thread(f)
  BY DEF RecordingInv
<1>2. TypeOK'
  BY <1>1, EncoderFacts, BoundsAssumption DEF TypeOK, LeaveDrain, At
<1>3. \A f \in Encoders : f # e => Same(f)
  BY <1>1 DEF TypeOK, Same, LeaveDrain, At
<1>4. /\ \A q \in Recordings :
           q # e[1] => tracks'[q] = tracks[q] /\ file'[q] = file[q] /\ count'[q] = count[q]
      /\ collected' = collected
  BY <1>1 DEF TypeOK, LeaveDrain, At
<1>5. Camera'
  BY <1>1 DEF Camera, LeaveDrain, At
<1>6. ASSUME NEW q \in Recordings PROVE Position(q)'
  BY <1>1, <1>6, EncoderFacts
     DEF TypeOK, Position, Thread, Starting, Waiting, Gone, Early, LeaveDrain, At
<1>7. Thread(e)'
  BY <1>1, EncoderFacts DEF TypeOK, Camera, Thread, Starting, Waiting, Gone, Early, LeaveDrain, At
<1>8. file[e[1]] # "new" => file'[e[1]] # "new"
  BY <1>1, EncoderFacts DEF TypeOK, LeaveDrain, At
<1>9. Muxer(e[1])'
  <2>1. /\ e[1] \in Recordings /\ Muxer(e[1]) /\ Thread(Vid(e[1])) /\ Thread(Aud(e[1]))
        /\ Vid(e[1]) # Aud(e[1]) /\ Vid(e[1]) \in Encoders /\ Aud(e[1]) \in Encoders
        /\ \/ e = Vid(e[1]) /\ e[2] = Video /\ Same(Aud(e[1]))
           \/ e = Aud(e[1]) /\ e[2] = Audio /\ Same(Vid(e[1]))
    BY <1>1, <1>3, EncoderFacts
  <2> QED
    BY <1>1, <2>1, EncoderFacts
       DEF TypeOK, Muxer, In, Same, Thread, Early, Waiting, Gone, LeaveDrain, At
<1> QED  BY <1>2, <1>3, <1>4, <1>5, <1>7, <1>8, <1>9, <1>6, OneThread

LEMMA AddTrackKeeps == \A e \in Encoders : RecordingInv /\ AddTrack(e) => RecordingInv'
<1> SUFFICES ASSUME NEW e \in Encoders, RecordingInv, AddTrack(e) PROVE RecordingInv'  OBVIOUS
<1>1. /\ TypeOK /\ Camera /\ \A r \in Recordings : Position(r) /\ Muxer(r)
      /\ \A f \in Encoders : Thread(f)
  BY DEF RecordingInv
<1>2. TypeOK'
  BY <1>1, EncoderFacts, BoundsAssumption DEF TypeOK, AddTrack, At
<1>3. \A f \in Encoders : f # e => Same(f)
  BY <1>1 DEF TypeOK, Same, AddTrack, At
<1>4. /\ \A q \in Recordings :
           q # e[1] => tracks'[q] = tracks[q] /\ file'[q] = file[q] /\ count'[q] = count[q]
      /\ collected' = collected
  BY <1>1 DEF TypeOK, AddTrack, At
<1>5. Camera'
  BY <1>1 DEF Camera, AddTrack, At
<1>6. ASSUME NEW q \in Recordings PROVE Position(q)'
  BY <1>1, <1>6, EncoderFacts
     DEF TypeOK, Position, Thread, Starting, Waiting, Gone, Early, AddTrack, At
<1>7. Thread(e)'
  BY <1>1, EncoderFacts DEF TypeOK, Camera, Thread, Starting, Waiting, Gone, Early, AddTrack, At
<1>8. file[e[1]] # "new" => file'[e[1]] # "new"
  BY <1>1, EncoderFacts DEF TypeOK, AddTrack, At
<1>9. Muxer(e[1])'
  <2>1. /\ e[1] \in Recordings /\ Muxer(e[1]) /\ Thread(Vid(e[1])) /\ Thread(Aud(e[1]))
        /\ Vid(e[1]) # Aud(e[1]) /\ Vid(e[1]) \in Encoders /\ Aud(e[1]) \in Encoders
        /\ \/ e = Vid(e[1]) /\ e[2] = Video /\ Same(Aud(e[1]))
           \/ e = Aud(e[1]) /\ e[2] = Audio /\ Same(Vid(e[1]))
    BY <1>1, <1>3, EncoderFacts
  <2> QED
    BY <1>1, <2>1, EncoderFacts
       DEF TypeOK, Muxer, In, Same, Thread, Early, Waiting, Gone, AddTrack, At
<1> QED  BY <1>2, <1>3, <1>4, <1>5, <1>7, <1>8, <1>9, <1>6, OneThread

LEMMA StartMuxerKeeps == \A e \in Encoders : RecordingInv /\ StartMuxer(e) => RecordingInv'
<1> SUFFICES ASSUME NEW e \in Encoders, RecordingInv, StartMuxer(e) PROVE RecordingInv'  OBVIOUS
<1>1. /\ TypeOK /\ Camera /\ \A r \in Recordings : Position(r) /\ Muxer(r)
      /\ \A f \in Encoders : Thread(f)
  BY DEF RecordingInv
<1>2. EncoderCount(e[1]) = 2
  <2>1. Thread(e) /\ pc[e] \in {"join", "leave"} /\ e[1] \in Recordings
    BY <1>1, EncoderFacts DEF StartMuxer, At
  <2>2. Thread(Vid(e[1])) /\ Thread(Aud(e[1])) /\ (e = Vid(e[1]) \/ e = Aud(e[1]))
    BY <1>1, <2>1, EncoderFacts
  <2>3. pc[Vid(e[1])] # "none" /\ pc[Aud(e[1])] # "none"
    <3>1. e[1] \in Nat /\ last \in Nat
      BY <1>1, <2>1, BoundsAssumption DEF TypeOK, Recordings
    <3>2. ~(e[1] > last) /\ ~(e[1] = last /\ hpc = "video")
      BY <1>1, <2>1, <2>2 DEF Position, Starting, Thread, Waiting, Gone
    <3> QED  BY <1>1, <2>1, <3>1, <3>2 DEF Position
  <2> QED  BY <2>3, EncoderCountIs
<1>3. Muxer(e[1]) /\ Thread(e) /\ Thread(Vid(e[1])) /\ Thread(Aud(e[1]))
  BY <1>1, EncoderFacts
<1>4. TypeOK'
  BY <1>1, <1>2, <1>3, EncoderFacts, BoundsAssumption
     DEF TypeOK, StartMuxer, At, Muxer, Thread, In
<1>5. \A f \in Encoders : f # e => Same(f)
  BY <1>1 DEF TypeOK, Same, StartMuxer, At
<1>6. /\ \A q \in Recordings :
           q # e[1] => tracks'[q] = tracks[q] /\ file'[q] = file[q] /\ count'[q] = count[q]
      /\ collected' = collected
  BY <1>1 DEF TypeOK, StartMuxer, At
<1>7. Camera'
  BY <1>1 DEF Camera, StartMuxer, At
<1>8. ASSUME NEW q \in Recordings PROVE Position(q)'
  BY <1>1, <1>8, EncoderFacts
     DEF TypeOK, Position, Thread, Starting, Waiting, Gone, Early, StartMuxer, At
<1>9. Thread(e)'
  BY <1>1, <1>2, <1>3, EncoderFacts
     DEF TypeOK, Camera, Thread, Starting, Waiting, Gone, Early, StartMuxer, At, Muxer, In
<1>10. file[e[1]] # "new" => file'[e[1]] # "new"
  BY <1>1, EncoderFacts DEF TypeOK, StartMuxer, At
<1>11. Muxer(e[1])'
  <2>1. /\ e[1] \in Recordings /\ Muxer(e[1]) /\ Thread(Vid(e[1])) /\ Thread(Aud(e[1]))
        /\ Vid(e[1]) # Aud(e[1]) /\ Vid(e[1]) \in Encoders /\ Aud(e[1]) \in Encoders
        /\ \/ e = Vid(e[1]) /\ e[2] = Video /\ Same(Aud(e[1]))
           \/ e = Aud(e[1]) /\ e[2] = Audio /\ Same(Vid(e[1]))
    BY <1>1, <1>5, EncoderFacts
  <2> QED
    BY <1>1, <1>2, <2>1, EncoderFacts
       DEF TypeOK, Muxer, In, Same, Thread, Early, Waiting, Gone, StartMuxer, At
<1> QED  BY <1>4, <1>5, <1>6, <1>7, <1>9, <1>10, <1>11, <1>8, OneThread

LEMMA MuxerIsStartedKeeps ==
  \A e \in Encoders : RecordingInv /\ MuxerIsStarted(e) => RecordingInv'
<1> SUFFICES ASSUME NEW e \in Encoders, RecordingInv, MuxerIsStarted(e) PROVE RecordingInv'  OBVIOUS
<1>1. /\ TypeOK /\ Camera /\ \A r \in Recordings : Position(r) /\ Muxer(r)
      /\ \A f \in Encoders : Thread(f)
  BY DEF RecordingInv
<1>2. TypeOK'
  BY <1>1, EncoderFacts, BoundsAssumption DEF TypeOK, MuxerIsStarted, At
<1>3. \A f \in Encoders : f # e => Same(f)
  BY <1>1 DEF TypeOK, Same, MuxerIsStarted, At
<1>4. /\ \A q \in Recordings :
           q # e[1] => tracks'[q] = tracks[q] /\ file'[q] = file[q] /\ count'[q] = count[q]
      /\ collected' = collected
  BY <1>1 DEF TypeOK, MuxerIsStarted, At
<1>5. Camera'
  BY <1>1 DEF Camera, MuxerIsStarted, At
<1>6. ASSUME NEW q \in Recordings PROVE Position(q)'
  BY <1>1, <1>6, EncoderFacts
     DEF TypeOK, Position, Thread, Starting, Waiting, Gone, Early, MuxerIsStarted, At
<1>7. Thread(e)'
  BY <1>1, EncoderFacts
     DEF TypeOK, Camera, Thread, Starting, Waiting, Gone, Early, MuxerIsStarted, At
<1>8. file[e[1]] # "new" => file'[e[1]] # "new"
  BY <1>1, EncoderFacts DEF TypeOK, MuxerIsStarted, At
<1>9. Muxer(e[1])'
  <2>1. /\ e[1] \in Recordings /\ Muxer(e[1]) /\ Thread(Vid(e[1])) /\ Thread(Aud(e[1]))
        /\ Vid(e[1]) # Aud(e[1]) /\ Vid(e[1]) \in Encoders /\ Aud(e[1]) \in Encoders
        /\ \/ e = Vid(e[1]) /\ e[2] = Video /\ Same(Aud(e[1]))
           \/ e = Aud(e[1]) /\ e[2] = Audio /\ Same(Vid(e[1]))
    BY <1>1, <1>3, EncoderFacts
  <2> QED
    BY <1>1, <2>1, EncoderFacts
       DEF TypeOK, Muxer, In, Same, Thread, Early, Waiting, Gone, MuxerIsStarted, At
<1> QED  BY <1>2, <1>3, <1>4, <1>5, <1>7, <1>8, <1>9, <1>6, OneThread

LEMMA OnStoppedKeeps == \A e \in Encoders : RecordingInv /\ OnStopped(e) => RecordingInv'
<1> SUFFICES ASSUME NEW e \in Encoders, RecordingInv, OnStopped(e) PROVE RecordingInv'  OBVIOUS
<1>1. /\ TypeOK /\ Camera /\ \A r \in Recordings : Position(r) /\ Muxer(r)
      /\ \A f \in Encoders : Thread(f)
  BY DEF RecordingInv
<1>2. TypeOK'
  BY <1>1, EncoderFacts, BoundsAssumption DEF TypeOK, None, OnStopped, At
<1>3. \A f \in Encoders : f # e => Same(f)
  BY <1>1 DEF TypeOK, Same, OnStopped, At
<1>4. /\ \A q \in Recordings :
           q # e[1] => tracks'[q] = tracks[q] /\ file'[q] = file[q] /\ count'[q] = count[q]
      /\ collected' = collected
  BY <1>1 DEF TypeOK, OnStopped, At
<1>5. Camera'
  BY <1>1, AsksStand DEF OnStopped
<1>6. ASSUME NEW q \in Recordings PROVE Position(q)'
  <2>1. /\ Position(q) /\ q # None /\ Vid(q) \in Encoders /\ Aud(q) \in Encoders
        /\ e = Vid(e[1]) \/ e[2] = Audio
    BY <1>1, <1>6, EncoderFacts, BoundsAssumption DEF Recordings, None
  <2>2. UNCHANGED <<last, hpc, capturing, stop, collected>>
    BY DEF OnStopped
  <2>3. /\ pc[e] = "stopped" /\ pc'[e] = "release"
        /\ \A f \in Encoders : f # e => pc'[f] = pc[f]
    BY <1>1 DEF TypeOK, OnStopped, At
  <2>4. surface' \in {surface, None}
    BY DEF OnStopped
  <2>5. closing'[q] # "none" => pc'[Vid(q)] = "release"
    <3>1. CASE closing' = closing
      BY <2>1, <2>3, <3>1 DEF Position
    <3>2. CASE closing' # closing
      <4>1. e[2] # Audio /\ closing' = [closing EXCEPT ![e[1]] = "begin"]
        BY <3>2 DEF OnStopped
      <4>2. CASE q = e[1]
        BY <2>1, <2>3, <4>1, <4>2
      <4>3. CASE q # e[1]
        BY <1>1, <2>1, <2>3, <4>1, <4>3 DEF TypeOK, Position
      <4> QED  BY <4>2, <4>3
    <3> QED  BY <3>1, <3>2
  <2>6. pc[e] \notin {"none", "born"} /\ ~(pc[e] \in Waiting) /\ ~(pc'[e] \in Waiting)
    BY <2>3 DEF Waiting
  <2> QED  BY <2>1, <2>2, <2>3, <2>4, <2>5, <2>6 DEF Position, Starting
<1>7. Thread(e)'
  BY <1>1, EncoderFacts DEF TypeOK, Camera, Thread, Starting, Waiting, Gone, Early, OnStopped, At
<1>8. file[e[1]] # "new" => file'[e[1]] # "new"
  BY <1>1, EncoderFacts DEF TypeOK, OnStopped, At
<1>9. Muxer(e[1])'
  <2>1. /\ e[1] \in Recordings /\ Muxer(e[1]) /\ Thread(Vid(e[1])) /\ Thread(Aud(e[1]))
        /\ Vid(e[1]) # Aud(e[1]) /\ Vid(e[1]) \in Encoders /\ Aud(e[1]) \in Encoders
        /\ \/ e = Vid(e[1]) /\ e[2] = Video /\ Same(Aud(e[1]))
           \/ e = Aud(e[1]) /\ e[2] = Audio /\ Same(Vid(e[1]))
    BY <1>1, <1>3, EncoderFacts
  <2>2. pc[e] = "stopped" /\ pc'[e] = "release" /\ UNCHANGED <<joined, muxVars>>
    BY <1>1 DEF TypeOK, OnStopped, At
  <2> QED  BY <1>4, <2>1, <2>2 DEF Muxer, In, Same
<1> QED  BY <1>2, <1>3, <1>4, <1>5, <1>7, <1>8, <1>9, <1>6, OneThread

LEMMA ReleaseKeeps == \A e \in Encoders : RecordingInv /\ Release(e) => RecordingInv'
<1> SUFFICES ASSUME NEW e \in Encoders, RecordingInv, Release(e) PROVE RecordingInv'  OBVIOUS
<1>1. /\ TypeOK /\ Camera /\ \A r \in Recordings : Position(r) /\ Muxer(r)
      /\ \A f \in Encoders : Thread(f)
  BY DEF RecordingInv
<1>2. TypeOK'
  BY <1>1, EncoderFacts, BoundsAssumption DEF TypeOK, Release, At
<1>3. \A f \in Encoders : f # e => Same(f)
  BY <1>1 DEF TypeOK, Same, Release, At
<1>4. /\ \A q \in Recordings :
           q # e[1] => tracks'[q] = tracks[q] /\ file'[q] = file[q] /\ count'[q] = count[q]
      /\ collected' = collected
  BY <1>1 DEF TypeOK, Release, At
<1>5. Camera'
  BY <1>1 DEF Camera, Release, At
<1>6. ASSUME NEW q \in Recordings PROVE Position(q)'
  BY <1>1, <1>6, EncoderFacts
     DEF TypeOK, Position, Thread, Starting, Waiting, Gone, Early, Release, At
<1>7. Thread(e)'
  BY <1>1, EncoderFacts DEF TypeOK, Camera, Thread, Starting, Waiting, Gone, Early, Release, At
<1>8. file[e[1]] # "new" => file'[e[1]] # "new"
  BY <1>1, EncoderFacts DEF TypeOK, Release, At
<1>9. Muxer(e[1])'
  <2>1. /\ e[1] \in Recordings /\ Muxer(e[1]) /\ Thread(Vid(e[1])) /\ Thread(Aud(e[1]))
        /\ Vid(e[1]) # Aud(e[1]) /\ Vid(e[1]) \in Encoders /\ Aud(e[1]) \in Encoders
        /\ \/ e = Vid(e[1]) /\ e[2] = Video /\ Same(Aud(e[1]))
           \/ e = Aud(e[1]) /\ e[2] = Audio /\ Same(Vid(e[1]))
    BY <1>1, <1>3, EncoderFacts
  <2>2. CASE joined[e] /\ e[1] \notin collected
    <3>1. pc'[e] = "leave" /\ pc[e] = "release"
      BY <1>1, <2>2 DEF TypeOK, Release, At
    <3>2. joined' = joined /\ tracks' = tracks /\ file' = file /\ count' = count
      BY DEF Release
    <3> QED  BY <1>4, <2>1, <2>2, <3>1, <3>2 DEF Muxer, In, Same
  <2>3. CASE ~(joined[e] /\ e[1] \notin collected)
    <3>1. pc'[e] = "done" /\ pc[e] = "release"
      BY <1>1, <2>3 DEF TypeOK, Release, At
    <3>2. joined' = joined /\ tracks' = tracks /\ file' = file /\ count' = count
      BY DEF Release
    <3> QED  BY <1>4, <2>1, <2>3, <3>1, <3>2 DEF Muxer, In, Same
  <2> QED  BY <2>2, <2>3
<1> QED  BY <1>2, <1>3, <1>4, <1>5, <1>7, <1>8, <1>9, <1>6, OneThread

LEMMA StopMuxerKeeps == \A e \in Encoders : RecordingInv /\ StopMuxer(e) => RecordingInv'
<1> SUFFICES ASSUME NEW e \in Encoders, RecordingInv, StopMuxer(e) PROVE RecordingInv'  OBVIOUS
<1>1. /\ TypeOK /\ Camera /\ \A r \in Recordings : Position(r) /\ Muxer(r)
      /\ \A f \in Encoders : Thread(f)
  BY DEF RecordingInv
<1>2. EncoderCount(e[1]) = 2
  <2>1. Thread(e) /\ pc[e] \in {"join", "leave"} /\ e[1] \in Recordings
    BY <1>1, EncoderFacts DEF StopMuxer, At
  <2>2. Thread(Vid(e[1])) /\ Thread(Aud(e[1])) /\ (e = Vid(e[1]) \/ e = Aud(e[1]))
    BY <1>1, <2>1, EncoderFacts
  <2>3. pc[Vid(e[1])] # "none" /\ pc[Aud(e[1])] # "none"
    <3>1. e[1] \in Nat /\ last \in Nat
      BY <1>1, <2>1, BoundsAssumption DEF TypeOK, Recordings
    <3>2. ~(e[1] > last) /\ ~(e[1] = last /\ hpc = "video")
      BY <1>1, <2>1, <2>2 DEF Position, Starting, Thread, Waiting, Gone
    <3> QED  BY <1>1, <2>1, <3>1, <3>2 DEF Position
  <2> QED  BY <2>3, EncoderCountIs
<1>3. Muxer(e[1]) /\ Thread(e) /\ Thread(Vid(e[1])) /\ Thread(Aud(e[1]))
  BY <1>1, EncoderFacts
<1>4. TypeOK'
  BY <1>1, <1>2, <1>3, EncoderFacts, BoundsAssumption DEF TypeOK, StopMuxer, At, Muxer, Thread, In
<1>5. \A f \in Encoders : f # e => Same(f)
  BY <1>1 DEF TypeOK, Same, StopMuxer, At
<1>6. /\ \A q \in Recordings :
           q # e[1] => tracks'[q] = tracks[q] /\ file'[q] = file[q] /\ count'[q] = count[q]
      /\ collected' = collected
  BY <1>1 DEF TypeOK, StopMuxer, At
<1>7. Camera'
  BY <1>1 DEF Camera, StopMuxer, At
<1>8. ASSUME NEW q \in Recordings PROVE Position(q)'
  BY <1>1, <1>8, EncoderFacts
     DEF TypeOK, Position, Thread, Starting, Waiting, Gone, Early, StopMuxer, At
<1>9. Thread(e)'
  BY <1>1, <1>2, <1>3, EncoderFacts
     DEF TypeOK, Camera, Thread, Starting, Waiting, Gone, Early, StopMuxer, At, Muxer, In
<1>10. file[e[1]] # "new" => file'[e[1]] # "new"
  BY <1>1, EncoderFacts DEF TypeOK, StopMuxer, At
<1>11. Muxer(e[1])'
  <2>1. /\ e[1] \in Recordings /\ Muxer(e[1]) /\ Thread(Vid(e[1])) /\ Thread(Aud(e[1]))
        /\ Vid(e[1]) # Aud(e[1]) /\ Vid(e[1]) \in Encoders /\ Aud(e[1]) \in Encoders
        /\ \/ e = Vid(e[1]) /\ e[2] = Video /\ Same(Aud(e[1]))
           \/ e = Aud(e[1]) /\ e[2] = Audio /\ Same(Vid(e[1]))
    BY <1>1, <1>5, EncoderFacts
  <2> QED
    BY <1>1, <1>2, <2>1, EncoderFacts
       DEF TypeOK, Muxer, In, Same, Thread, Early, Waiting, Gone, StopMuxer, At
<1> QED  BY <1>4, <1>5, <1>6, <1>7, <1>9, <1>10, <1>11, <1>8, OneThread

LEMMA StartRecordingKeeps == RecordingInv /\ StartRecording => RecordingInv'
<1> SUFFICES ASSUME RecordingInv, StartRecording PROVE RecordingInv'  OBVIOUS
<1>1. /\ TypeOK /\ Camera /\ \A r \in Recordings : Position(r) /\ Muxer(r)
      /\ \A f \in Encoders : Thread(f)
  BY DEF RecordingInv
<1>2. PICK e \in Encoders : e = Vid(last + 1) /\ last + 1 \in Recordings /\ e[1] = last + 1
  BY <1>1, EncoderFacts, BoundsAssumption DEF TypeOK, Camera, None, Recordings, StartRecording
<1>3. /\ UNCHANGED <<muxVars, ending, codec, drain, joined, lisVars>>
      /\ hpc' \in {"video", "audio", "start2", "publish", "idle"}
  BY DEF StartRecording
<1>4. pc[e] = "none" /\ pc' = [pc EXCEPT ![e] = "born"] /\ ~capturing[e] /\ Early(e)
  <2>1. pc[e] = "none"
    BY <1>1, <1>2, BoundsAssumption DEF Position, TypeOK, Recordings
  <2>2. ~capturing[e] /\ Early(e)
    BY <1>1, <1>2, <2>1 DEF Thread, Gone
  <2> QED  BY <1>2, <2>1, <2>2 DEF StartRecording, Vid
<1>5. TypeOK'
  <2>1. last' = e[1] /\ muxer' = muxer /\ surface' = surface /\ UNCHANGED reqVars
    BY <1>2 DEF StartRecording
  <2> QED  BY <1>1, <1>2, <1>3, <1>4, <2>1, BoundsAssumption DEF TypeOK, Recordings
<1>6. \A f \in Encoders : f # e => Same(f)
  BY <1>1, <1>2, <1>3, <1>4 DEF TypeOK, Same, StartRecording
<1>7. /\ UNCHANGED muxVars /\ joined' = joined
      /\ pc'[e] = "done" <=> pc[e] = "done"
      /\ pc'[e] = "join" <=> pc[e] = "join"
  BY <1>1, <1>2, <1>3, <1>4 DEF TypeOK
<1>8. Camera'
  <2>1. /\ muxer' = muxer /\ muxer = None /\ last' = last + 1 /\ hpc = "idle"
        /\ surface' = surface /\ asks' = asks /\ last \in Nat
    BY <1>1, BoundsAssumption DEF TypeOK, StartRecording, Idle
  <2>2. ASSUME NEW w \in Stoppers, NEW f \in asks[w]
        PROVE  f[1] <= last' /\ f[1] # last'
    <3>1. f[1] <= last /\ f[1] \in Nat
      BY <1>1, <2>2, EncoderFacts, BoundsAssumption DEF TypeOK, Camera, Recordings
    <3> QED  BY <2>1, <3>1
  <2> QED  BY <1>1, <2>1, <2>2 DEF Camera, None
<1>9. /\ capturing'[e] = capturing[e] /\ stop'[e] = stop[e] /\ pc'[e] = "born"
      /\ ending'[e] = ending[e] /\ joined'[e] = joined[e] /\ drain'[e] = drain[e]
  BY <1>1, <1>2, <1>3, <1>4 DEF TypeOK, StartRecording
<1>10. Thread(e)'
  BY <1>1, <1>2, <1>3, <1>4, <1>7, <1>9 DEF Thread, Early, Waiting, Gone
<1>11. ASSUME NEW q \in Recordings PROVE Position(q)'
  <2>1. Position(q) /\ q \in Nat /\ last \in Nat /\ collected' = collected /\ closing' = closing
    BY <1>3, <1>1, <1>7, <1>11, BoundsAssumption DEF TypeOK, Recordings
  <2>2. CASE q # e[1]
    <3>1. Same(Vid(q)) /\ Same(Aud(q))
      BY <1>6, <2>2, EncoderFacts
    <3>2. hpc = "idle" /\ last' = last + 1 /\ surface' = surface /\ closing' = closing
      BY DEF StartRecording, Idle
    <3> QED  BY <1>2, <2>1, <2>2, <3>1, <3>2 DEF Position, Same, Starting
  <2>3. CASE q = e[1]
    <3>1. (e = Vid(q) /\ Same(Aud(q))) \/ (e = Aud(q) /\ Same(Vid(q)))
      BY <1>6, <1>2, <2>3, EncoderFacts
    <3>2. Vid(q) # Aud(q) /\ Thread(Vid(q)) /\ Thread(Aud(q))
      BY <1>1, <1>11, EncoderFacts
    <3> QED  BY <1>1, <1>2, <1>4, <1>9, <2>1, <2>3, <3>1, <3>2, EncoderFacts
                DEF Position, Thread, Early, Same, Starting, Waiting, Camera, None, StartRecording
  <2> QED  BY <2>2, <2>3
<1>12. ASSUME NEW f \in Encoders, f # e PROVE Thread(f)'
  BY <1>1, <1>6, <1>7, <1>12, ThreadFrame
<1>13. ASSUME NEW q \in Recordings PROVE Muxer(q)'
  <2>1. /\ (pc'[Vid(q)] = "done" <=> pc[Vid(q)] = "done")
        /\ (pc'[Vid(q)] = "join" <=> pc[Vid(q)] = "join")
    BY <1>6, <1>7, <1>13, EncoderFacts DEF Same
  <2>2. /\ (pc'[Aud(q)] = "done" <=> pc[Aud(q)] = "done")
        /\ (pc'[Aud(q)] = "join" <=> pc[Aud(q)] = "join")
    BY <1>6, <1>7, <1>13, EncoderFacts DEF Same
  <2> QED  BY <1>1, <1>7, <1>13, <2>1, <2>2 DEF Muxer, In
<1> QED  BY <1>5, <1>8, <1>10, <1>12, <1>13, <1>11 DEF RecordingInv

LEMMA AddAudioKeeps == RecordingInv /\ AddAudio => RecordingInv'
<1> SUFFICES ASSUME RecordingInv, AddAudio PROVE RecordingInv'  OBVIOUS
<1>1. /\ TypeOK /\ Camera /\ \A r \in Recordings : Position(r) /\ Muxer(r)
      /\ \A f \in Encoders : Thread(f)
  BY DEF RecordingInv
<1>2. PICK e \in Encoders : e = Aud(last) /\ last \in Recordings /\ e[1] = last
  BY <1>1, EncoderFacts, BoundsAssumption DEF TypeOK, Camera, None, Recordings, AddAudio
<1>3. /\ UNCHANGED <<muxVars, ending, codec, drain, joined, lisVars>>
      /\ hpc' \in {"video", "audio", "start2", "publish", "idle"}
  BY DEF AddAudio
<1>4. pc[e] = "none" /\ pc' = [pc EXCEPT ![e] = "born"] /\ ~capturing[e] /\ Early(e)
  BY <1>1, <1>2, EncoderFacts DEF AddAudio, Position, Thread, Gone, Aud
<1>5. pc[Vid(last)] # "born"
  BY DEF AddAudio, Vid
<1>6. TypeOK'
  <2>1. last' = last /\ muxer' = muxer /\ surface' = surface /\ UNCHANGED reqVars
    BY DEF AddAudio
  <2> QED  BY <1>1, <1>2, <1>3, <1>4, <2>1 DEF TypeOK
<1>7. \A f \in Encoders : f # e => Same(f)
  BY <1>1, <1>2, <1>3, <1>4 DEF TypeOK, Same, AddAudio
<1>8. /\ UNCHANGED muxVars /\ joined' = joined
      /\ pc'[e] = "done" <=> pc[e] = "done"
      /\ pc'[e] = "join" <=> pc[e] = "join"
  BY <1>1, <1>2, <1>3, <1>4 DEF TypeOK
<1>9. Camera'
  BY <1>1, BoundsAssumption DEF TypeOK, Camera, None, Recordings, AddAudio
<1>10. /\ capturing'[e] = capturing[e] /\ stop'[e] = stop[e] /\ pc'[e] = "born"
      /\ ending'[e] = ending[e] /\ joined'[e] = joined[e] /\ drain'[e] = drain[e]
  BY <1>1, <1>2, <1>3, <1>4 DEF TypeOK, AddAudio
<1>11. Thread(e)'
  BY <1>1, <1>2, <1>3, <1>4, <1>8, <1>10 DEF Thread, Early, Waiting, Gone
<1>12. ASSUME NEW q \in Recordings PROVE Position(q)'
  <2>1. Position(q) /\ q \in Nat /\ last \in Nat /\ collected' = collected /\ closing' = closing
    BY <1>3, <1>1, <1>8, <1>12, BoundsAssumption DEF TypeOK, Recordings
  <2>2. CASE q # e[1]
    <3>1. Same(Vid(q)) /\ Same(Aud(q))
      BY <1>7, <2>2, EncoderFacts
    <3> QED  BY <1>1, <1>2, <2>1, <2>2, <3>1 DEF Position, Same, Starting, AddAudio
  <2>3. CASE q = e[1]
    <3>1. (e = Vid(q) /\ Same(Aud(q))) \/ (e = Aud(q) /\ Same(Vid(q)))
      BY <1>7, <1>2, <2>3, EncoderFacts
    <3>2. Vid(q) # Aud(q) /\ Thread(Vid(q)) /\ Thread(Aud(q))
      BY <1>1, <1>12, EncoderFacts
    <3> QED  BY <1>1, <1>2, <1>4, <1>10, <2>1, <2>3, <3>1, <3>2, <1>5, EncoderFacts
                DEF Position, Same, Starting, Waiting, Camera, None, AddAudio
  <2> QED  BY <2>2, <2>3
<1>13. ASSUME NEW f \in Encoders, f # e PROVE Thread(f)'
  BY <1>1, <1>7, <1>8, <1>13, ThreadFrame
<1>14. ASSUME NEW q \in Recordings PROVE Muxer(q)'
  <2>1. /\ (pc'[Vid(q)] = "done" <=> pc[Vid(q)] = "done")
        /\ (pc'[Vid(q)] = "join" <=> pc[Vid(q)] = "join")
    BY <1>7, <1>8, <1>14, EncoderFacts DEF Same
  <2>2. /\ (pc'[Aud(q)] = "done" <=> pc[Aud(q)] = "done")
        /\ (pc'[Aud(q)] = "join" <=> pc[Aud(q)] = "join")
    BY <1>7, <1>8, <1>14, EncoderFacts DEF Same
  <2> QED  BY <1>1, <1>8, <1>14, <2>1, <2>2 DEF Muxer, In
<1> QED  BY <1>6, <1>9, <1>11, <1>13, <1>14, <1>12 DEF RecordingInv

LEMMA PrepareKeeps == RecordingInv /\ Prepare => RecordingInv'
<1> SUFFICES ASSUME RecordingInv, Prepare PROVE RecordingInv'  OBVIOUS
<1>1. /\ TypeOK /\ Camera /\ \A r \in Recordings : Position(r) /\ Muxer(r)
      /\ \A f \in Encoders : Thread(f)
  BY DEF RecordingInv
<1>2. last \in Recordings /\ hpc \in {"audio", "prepare"}
  BY <1>1, BoundsAssumption DEF Prepare, Camera, TypeOK, Recordings, None
<1>3. /\ ~capturing[Vid(last)] /\ pc[Vid(last)] \in Waiting
      /\ ~capturing[Aud(last)] /\ pc[Aud(last)] \in Waiting
  BY <1>1, <1>2 DEF Position, Starting
<1>4. ~joined[Vid(last)] /\ ~joined[Aud(last)] /\ ~stop[Vid(last)]
  BY <1>1, <1>2, <1>3, EncoderFacts DEF Thread, Early, Waiting, Gone
<1>5. PICK e \in Encoders : /\ e \in {Vid(last), Aud(last)}
                            /\ joined' = [joined EXCEPT ![e] = FALSE]
                            /\ codec' = codec \/ codec' = [codec EXCEPT ![e] = "started"]
  BY <1>2, EncoderFacts DEF Prepare, Vid, Aud
<1>6. joined[e] = FALSE /\ joined \in [Encoders -> BOOLEAN]
  BY <1>1, <1>4, <1>5 DEF TypeOK
<1>7. joined' = joined
  BY <1>5, <1>6
<1>8. /\ last' = last /\ surface' \in {surface, last} /\ hpc' \in {"prepare", "start", "idle"}
      /\ UNCHANGED <<muxer, muxVars, pc, ending, reqVars, lisVars>>
  BY DEF Prepare
<1>9. TypeOK'
  BY <1>1, <1>2, <1>7, <1>5, <1>8, BoundsAssumption DEF TypeOK, Recordings
<1>10. (\A f \in Encoders : Same(f)) /\ UNCHANGED muxVars
  BY <1>1, <1>7 DEF Same, Prepare, Vid, Aud
<1>11. Camera'
  BY <1>1, BoundsAssumption, <1>2 DEF TypeOK, Camera, None, Recordings, Prepare, Vid, Aud
<1>12. ASSUME NEW q \in Recordings PROVE Position(q)'
  <2>1. Position(q) /\ Same(Vid(q)) /\ Same(Aud(q)) /\ collected' = collected
    BY <1>1, <1>10, <1>12, EncoderFacts
  <2>2. hpc \in {"audio", "prepare"} /\ (hpc = "prepare" => pc[Aud(last)] # "born")
    BY <1>1, <1>2 DEF Position
  <2>3. /\ hpc' \in {"prepare", "start", "idle"}
        /\ hpc' \in {"prepare", "start"} => pc[Vid(last)] # "born" /\ pc[Aud(last)] # "born"
    BY <1>1, <1>2, <2>2 DEF Position, Prepare, Aud
  <2>4. pc[Vid(last)] # "none" /\ pc[Aud(last)] # "none"
    BY <1>1, <1>2 DEF Position
  <2> QED  BY <1>2, <1>3, <1>4, <1>8, <2>1, <2>2, <2>3, <2>4 DEF Position, Starting, Same
<1>13. ASSUME NEW f \in Encoders PROVE Thread(f)'
  BY <1>1, <1>10, <1>13, ThreadFrame
<1>14. ASSUME NEW q \in Recordings PROVE Muxer(q)'
  BY <1>1, <1>10, <1>14, MuxerFrame, EncoderFacts
<1> QED  BY <1>9, <1>11, <1>13, <1>14, <1>12 DEF RecordingInv

LEMMA StartEncoderKeeps == RecordingInv /\ StartEncoder => RecordingInv'
<1> SUFFICES ASSUME RecordingInv, StartEncoder PROVE RecordingInv'  OBVIOUS
<1>1. /\ TypeOK /\ Camera /\ \A r \in Recordings : Position(r) /\ Muxer(r)
      /\ \A f \in Encoders : Thread(f)
  BY DEF RecordingInv
<1>2. PICK e \in Encoders :
       e = (IF hpc = "start" THEN Vid(last) ELSE Aud(last)) /\ last \in Recordings /\ e[1] = last
  BY <1>1, EncoderFacts, BoundsAssumption DEF TypeOK, Camera, None, Recordings, StartEncoder
<1>3. /\ UNCHANGED <<muxVars, ending, codec, drain, joined, lisVars>>
      /\ hpc' \in {"video", "audio", "start2", "publish", "idle"}
  BY DEF StartEncoder
<1>4. /\ pc[e] \in Waiting /\ pc[e] \notin {"none", "born"} /\ ~capturing[e]
      /\ capturing' = [capturing EXCEPT ![e] = TRUE] /\ stop' = [stop EXCEPT ![e] = FALSE]
      /\ pc' = IF pc[e] = "asleep" THEN [pc EXCEPT ![e] = "loop"] ELSE pc
      /\ Early(e)
  <2>1. /\ capturing' = [capturing EXCEPT ![e] = TRUE] /\ stop' = [stop EXCEPT ![e] = FALSE]
        /\ pc' = IF pc[e] = "asleep" THEN [pc EXCEPT ![e] = "loop"] ELSE pc
    BY <1>2 DEF StartEncoder, Vid, Aud, Notified
  <2>2. pc[e] \in Waiting /\ pc[e] \notin {"none", "born"} /\ ~capturing[e]
    BY <1>1, <1>2 DEF StartEncoder, Position, Starting
  <2>3. Early(e)
    BY <1>1, <1>2, <2>2 DEF Thread, Waiting, Gone
  <2> QED  BY <2>1, <2>2, <2>3
<1>5. TypeOK'
  <2>1. pc' = pc \/ pc' = [pc EXCEPT ![e] = "loop"]
    BY <1>4
  <2>2. last' = last /\ muxer' = muxer /\ surface' = surface
    BY DEF StartEncoder
  <2> QED  BY <1>1, <1>2, <1>3, <1>4, <2>1, <2>2 DEF TypeOK
<1>6. ASSUME NEW f \in Encoders, f # e PROVE Same(f)
  <2>1. pc'[f] = pc[f]
    BY <1>1, <1>4, <1>6 DEF TypeOK
  <2>2. capturing'[f] = capturing[f] /\ stop'[f] = stop[f]
    BY <1>1, <1>4, <1>6 DEF TypeOK
  <2>3. ending'[f] = ending[f] /\ drain'[f] = drain[f] /\ joined'[f] = joined[f]
    BY <1>3
  <2> QED  BY <2>1, <2>2, <2>3 DEF Same
<1>7. /\ UNCHANGED muxVars /\ joined' = joined
      /\ pc'[e] = "done" <=> pc[e] = "done"
      /\ pc'[e] = "join" <=> pc[e] = "join"
  BY <1>1, <1>2, <1>3, <1>4 DEF TypeOK
<1>8. Camera'
  BY <1>1, BoundsAssumption DEF TypeOK, Camera, None, Recordings, StartEncoder
<1>9. /\ capturing'[e] = TRUE /\ stop'[e] = FALSE /\ pc'[e] \in {"loop", pc[e]}
      /\ ending'[e] = ending[e] /\ joined'[e] = joined[e] /\ drain'[e] = drain[e]
  BY <1>1, <1>2, <1>3, <1>4 DEF TypeOK
<1>10. Thread(e)'
  BY <1>1, <1>2, <1>3, <1>4, <1>7, <1>9 DEF Thread, Early, Waiting, Gone
<1>11. ASSUME NEW q \in Recordings PROVE Position(q)'
  <2>1. Position(q) /\ q \in Nat /\ last \in Nat /\ collected' = collected /\ closing' = closing
    BY <1>3, <1>1, <1>7, <1>11, BoundsAssumption DEF TypeOK, Recordings
  <2>2. CASE q # e[1]
    <3>1. Same(Vid(q)) /\ Same(Aud(q))
      BY <1>6, <2>2, EncoderFacts
    <3> QED  BY <1>1, <1>2, <2>1, <2>2, <3>1 DEF Position, Same, Starting, StartEncoder
  <2>3. CASE q = e[1]
    <3>1. (e = Vid(q) /\ Same(Aud(q))) \/ (e = Aud(q) /\ Same(Vid(q)))
      BY <1>6, <1>2, <2>3, EncoderFacts
    <3>2. Vid(q) # Aud(q) /\ Thread(Vid(q)) /\ Thread(Aud(q))
      BY <1>1, <1>11, EncoderFacts
    <3>3. ASSUME NEW f \in {Vid(q), Aud(q)}
          PROVE  /\ pc'[f] = "none" <=> pc[f] = "none"
                 /\ pc[f] = "release" => pc'[f] = "release"
                 /\ pc'[f] = "born" <=> pc[f] = "born"
                 /\ stop'[f] => stop[f]
      BY <1>4, <1>9, <3>1, <3>3 DEF Same
    <3>4. q = last /\ last' = last /\ surface' = surface /\ q \in Nat
      BY <1>2, <2>1, <2>3 DEF StartEncoder
    <3>5. \/ hpc = "start" /\ hpc' = "start2" /\ Same(Aud(q))
          \/ hpc = "start2" /\ hpc' = "publish"
      BY <1>2, <2>3, <3>1, <3>2, <3>4 DEF StartEncoder
    <3> QED  BY <2>1, <3>3, <3>4, <3>5 DEF Position, Same, Starting, Waiting
  <2> QED  BY <2>2, <2>3
<1>12. ASSUME NEW f \in Encoders, f # e PROVE Thread(f)'
  BY <1>1, <1>6, <1>7, <1>12, ThreadFrame
<1>13. ASSUME NEW q \in Recordings PROVE Muxer(q)'
  <2>1. /\ (pc'[Vid(q)] = "done" <=> pc[Vid(q)] = "done")
        /\ (pc'[Vid(q)] = "join" <=> pc[Vid(q)] = "join")
    BY <1>6, <1>7, <1>13, EncoderFacts DEF Same
  <2>2. /\ (pc'[Aud(q)] = "done" <=> pc[Aud(q)] = "done")
        /\ (pc'[Aud(q)] = "join" <=> pc[Aud(q)] = "join")
    BY <1>6, <1>7, <1>13, EncoderFacts DEF Same
  <2> QED  BY <1>1, <1>7, <1>13, <2>1, <2>2 DEF Muxer, In
<1> QED  BY <1>5, <1>8, <1>10, <1>12, <1>13, <1>11 DEF RecordingInv

LEMMA PublishKeeps == RecordingInv /\ Publish => RecordingInv'
<1> SUFFICES ASSUME RecordingInv, Publish PROVE RecordingInv'  OBVIOUS
<1>1. /\ TypeOK /\ Camera /\ \A r \in Recordings : Position(r) /\ Muxer(r)
      /\ \A f \in Encoders : Thread(f)
  BY DEF RecordingInv
<1>2. TypeOK'
  BY <1>1, BoundsAssumption DEF TypeOK, None, Recordings, Publish
<1>3. (\A f \in Encoders : Same(f)) /\ UNCHANGED muxVars
  BY <1>1 DEF Same, Publish
<1>4. Camera'
  BY <1>1, BoundsAssumption DEF TypeOK, Camera, None, Recordings, Publish
<1>5. ASSUME NEW q \in Recordings PROVE Position(q)'
  <2>1. Position(q) /\ Same(Vid(q)) /\ Same(Aud(q)) /\ collected' = collected
    BY <1>1, <1>3, <1>5, EncoderFacts
  <2>2. last' = last
    BY DEF Publish
  <2> QED  BY <1>1, <2>1, <2>2, BoundsAssumption
              DEF TypeOK, Camera, Position, Starting, Same, None, Recordings, Publish
<1>6. ASSUME NEW f \in Encoders PROVE Thread(f)'
  BY <1>1, <1>3, <1>6, ThreadFrame
<1>7. ASSUME NEW q \in Recordings PROVE Muxer(q)'
  BY <1>1, <1>3, <1>7, MuxerFrame, EncoderFacts
<1> QED  BY <1>2, <1>4, <1>6, <1>7, <1>5 DEF RecordingInv

LEMMA StopRecordingKeeps ==
  \A w \in Stoppers : RecordingInv /\ StopRecording(w) => RecordingInv'
<1> SUFFICES ASSUME NEW w \in Stoppers, RecordingInv, StopRecording(w) PROVE RecordingInv'  OBVIOUS
<1>1. /\ TypeOK /\ Camera /\ \A r \in Recordings : Position(r) /\ Muxer(r)
      /\ \A f \in Encoders : Thread(f)
  BY DEF RecordingInv
<1>2. /\ muxer' = None /\ surface' = None /\ last' = last /\ hpc' = hpc /\ view' = view
      /\ asks' = [asks EXCEPT ![w] = IF muxer # None THEN {muxer} \X Kinds ELSE {}]
      /\ muxer # None => muxer = last /\ hpc = "idle" /\ muxer \in Recordings
  BY <1>1, BoundsAssumption DEF TypeOK, Camera, None, Recordings, StopRecording
<1>3. (\A f \in Encoders : Same(f)) /\ UNCHANGED muxVars
  BY <1>1 DEF Same, StopRecording
<1>4. TypeOK'
  <2>1. asks' \in [Stoppers -> SUBSET Encoders]
    BY <1>1, <1>2 DEF TypeOK, Encoders
  <2>2. closing' = closing \/ closing' = [closing EXCEPT ![w] = "stop"]
           \/ closing' = [closing EXCEPT ![w] = "take"]
    BY DEF StopRecording
  <2>3. closing' \in [Recordings -> {"none", "begin", "stop", "take", "destroy", "quit"}]
    BY <1>1, <2>2 DEF TypeOK
  <2>4. UNCHANGED <<pc, ending, codec, reqVars, joined>>
    BY DEF StopRecording
  <2> QED  BY <1>1, <1>2, <1>3, <2>1, <2>3, <2>4, BoundsAssumption DEF TypeOK, None
<1>5. Camera'
  <2>1. ASSUME NEW v \in Stoppers, NEW e \in asks'[v]
        PROVE  e[1] # None /\ e[1] <= last /\ (e[1] = last => hpc = "idle")
    <3>1. CASE v = w
      <4>1. muxer # None /\ e \in {muxer} \X Kinds
        BY <1>1, <1>2, <2>1, <3>1 DEF TypeOK
      <4> QED  BY <1>2, <4>1, BoundsAssumption DEF Recordings, None
    <3>2. CASE v # w
      <4>1. e \in asks[v] /\ e \in Encoders
        BY <1>1, <1>2, <2>1, <3>2 DEF TypeOK
      <4> QED  BY <1>1, <4>1, EncoderFacts, BoundsAssumption DEF Camera, Recordings, None
    <3> QED  BY <3>1, <3>2
  <2> QED  BY <1>1, <1>2, <2>1 DEF Camera
<1>6. ASSUME NEW q \in Recordings PROVE Position(q)'
  <2>1. Position(q) /\ Same(Vid(q)) /\ Same(Aud(q)) /\ collected' = collected /\ q # None
    BY <1>1, <1>3, <1>6, EncoderFacts, BoundsAssumption DEF Recordings, None
  <2>2. closing[q] = "none" => closing'[q] = "none"
    BY <1>1, <1>6 DEF TypeOK, StopRecording
  <2> QED  BY <1>2, <2>1, <2>2 DEF Position, Same
<1>7. ASSUME NEW f \in Encoders PROVE Thread(f)'
  BY <1>1, <1>3, <1>7, ThreadFrame
<1>8. ASSUME NEW q \in Recordings PROVE Muxer(q)'
  BY <1>1, <1>3, <1>8, MuxerFrame, EncoderFacts
<1> QED  BY <1>4, <1>5, <1>6, <1>7, <1>8 DEF RecordingInv

LEMMA StopEncoderKeeps ==
  \A w \in Stoppers, e \in Encoders : RecordingInv /\ StopEncoder(w, e) => RecordingInv'
<1> SUFFICES ASSUME NEW w \in Stoppers, NEW e \in Encoders, RecordingInv, StopEncoder(w, e)
    PROVE  RecordingInv'
  OBVIOUS
<1>1. /\ TypeOK /\ Camera /\ \A r \in Recordings : Position(r) /\ Muxer(r)
      /\ \A f \in Encoders : Thread(f)
  BY DEF RecordingInv
<1>2. /\ e[1] \in Recordings /\ e[1] <= last /\ surface # e[1] /\ (e[1] = last => hpc = "idle")
      /\ e = Vid(e[1]) \/ e = Aud(e[1])
  BY <1>1, EncoderFacts DEF Camera, StopEncoder
<1>3. /\ UNCHANGED <<hpc, last, muxer, surface, muxVars, ending, codec, drain, capturing, joined,
                     view, closing>>
      /\ asks' = [asks EXCEPT ![w] = @ \ {e}]
  BY DEF StopEncoder
<1>4. \/ stop' = stop /\ pc' = pc
      \/ /\ stop' = [stop EXCEPT ![e] = TRUE] /\ capturing[e]
         /\ pc' = IF pc[e] = "asleep" THEN [pc EXCEPT ![e] = "loop"] ELSE pc
  BY DEF StopEncoder, Notified
<1>5. TypeOK'
  <2>1. pc' = pc \/ pc' = [pc EXCEPT ![e] = "loop"]
    BY <1>4
  <2>2. asks' \in [Stoppers -> SUBSET Encoders]
    BY <1>1, <1>3 DEF TypeOK
  <2> QED  BY <1>1, <1>3, <1>4, <2>1, <2>2 DEF TypeOK
<1>6. \A f \in Encoders : f # e => Same(f)
  BY <1>1, <1>3, <1>4 DEF TypeOK, Same
<1>7. /\ UNCHANGED muxVars /\ joined' = joined
      /\ pc'[e] = "done" <=> pc[e] = "done"
      /\ pc'[e] = "join" <=> pc[e] = "join"
  BY <1>1, <1>3, <1>4 DEF TypeOK
<1>8. Camera'
  <2>1. ASSUME NEW v \in Stoppers PROVE asks'[v] \subseteq asks[v]
    BY <1>1, <1>3 DEF TypeOK
  <2> QED  BY <1>1, <1>3, <2>1 DEF Camera
<1>9. /\ capturing'[e] = capturing[e] /\ (stop[e] => stop'[e])
      /\ \/ pc'[e] = pc[e] /\ stop'[e] = stop[e]
         \/ capturing[e] /\ pc'[e] = pc[e]
         \/ capturing[e] /\ pc[e] = "asleep" /\ pc'[e] = "loop"
      /\ ending'[e] = ending[e] /\ joined'[e] = joined[e] /\ drain'[e] = drain[e]
  BY <1>1, <1>3, <1>4 DEF TypeOK
<1>10. Thread(e)'
  BY <1>1, <1>3, <1>4, <1>7, <1>9 DEF Thread, Early, Waiting, Gone
<1>11. ASSUME NEW q \in Recordings PROVE Position(q)'
  <2>1. Position(q) /\ q \in Nat /\ last \in Nat /\ collected' = collected
    BY <1>1, <1>7, <1>11, BoundsAssumption DEF TypeOK, Recordings
  <2>2. CASE q # e[1]
    <3>1. Same(Vid(q)) /\ Same(Aud(q))
      BY <1>6, <2>2, EncoderFacts
    <3> QED  BY <1>3, <2>1, <3>1 DEF Position, Same, Starting
  <2>3. CASE q = e[1]
    <3>1. (e = Vid(q) /\ Same(Aud(q))) \/ (e = Aud(q) /\ Same(Vid(q)))
      BY <1>2, <1>6, <2>3, EncoderFacts
    <3>2. Vid(q) # Aud(q) /\ Thread(Vid(q)) /\ Thread(Aud(q))
      BY <1>1, <1>11, EncoderFacts
    <3> QED  BY <1>2, <1>3, <1>9, <2>1, <2>3, <3>1, <3>2
                DEF Position, Same, Starting, Waiting
  <2> QED  BY <2>2, <2>3
<1>12. ASSUME NEW f \in Encoders, f # e PROVE Thread(f)'
  BY <1>1, <1>6, <1>7, <1>12, ThreadFrame
<1>13. ASSUME NEW q \in Recordings PROVE Muxer(q)'
  <2>1. /\ (pc'[Vid(q)] = "done" <=> pc[Vid(q)] = "done")
        /\ (pc'[Vid(q)] = "join" <=> pc[Vid(q)] = "join")
    BY <1>6, <1>7, <1>13, EncoderFacts DEF Same
  <2>2. /\ (pc'[Aud(q)] = "done" <=> pc[Aud(q)] = "done")
        /\ (pc'[Aud(q)] = "join" <=> pc[Aud(q)] = "join")
    BY <1>6, <1>7, <1>13, EncoderFacts DEF Same
  <2> QED  BY <1>1, <1>7, <1>13, <2>1, <2>2 DEF Muxer, In
<1> QED  BY <1>5, <1>8, <1>10, <1>12, <1>13, <1>11 DEF RecordingInv

\* A step that only lets the listener go on, or the view go.
LEMMA OthersKeep ==
  ASSUME RecordingInv, surface' \in {surface, None}, view' \in BOOLEAN,
         closing' \in [Recordings -> {"none", "begin", "stop", "take", "destroy", "quit"}],
         \A r \in Recordings : closing[r] = "none" => closing'[r] = "none",
         UNCHANGED <<camVars, muxVars, pc, ending, codec, reqVars, joined, asks>>
  PROVE  RecordingInv'
<1>1. /\ TypeOK /\ Camera /\ \A r \in Recordings : Position(r) /\ Muxer(r)
      /\ \A f \in Encoders : Thread(f)
  BY DEF RecordingInv
<1>2. None \in 0..MaxRecordings /\ None \notin Recordings
  BY BoundsAssumption DEF None, Recordings
<1>3. TypeOK'
  BY <1>1, <1>2 DEF TypeOK
<1>4. Camera'
  <2>1. ASSUME NEW w \in Stoppers, NEW e \in asks[w] PROVE e[1] # None
    BY <1>1, <1>2, <2>1, EncoderFacts DEF TypeOK
  <2> QED  BY <1>1, <2>1 DEF Camera
<1>5. ASSUME NEW q \in Recordings PROVE Position(q)' /\ Muxer(q)'
  BY <1>1, <1>2, <1>5 DEF Position, Muxer, In
<1>6. ASSUME NEW f \in Encoders PROVE Thread(f)'
  BY <1>1, <1>6 DEF Thread, Early
<1> QED  BY <1>3, <1>4, <1>5, <1>6 DEF RecordingInv

LEMMA ListenerStepKeeps == \A r \in Recordings : RecordingInv /\ ListenerStep(r) => RecordingInv'
<1> SUFFICES ASSUME NEW r \in Recordings, RecordingInv, ListenerStep(r) PROVE RecordingInv'  OBVIOUS
<1>1. PICK next \in {"destroy", "quit", "none"} : closing' = [closing EXCEPT ![r] = next]
  BY DEF ListenerStep, GoOn
<1>2. TypeOK
  BY DEF RecordingInv
<1>3. closing' \in [Recordings -> {"none", "begin", "stop", "take", "destroy", "quit"}]
  BY <1>1, <1>2 DEF TypeOK
<1>4. \A q \in Recordings : closing[q] = "none" => closing'[q] = "none"
  BY <1>1, <1>2 DEF TypeOK, ListenerStep, GoOn
<1>5. /\ surface' \in {surface, None} /\ view' = view
      /\ UNCHANGED <<camVars, muxVars, pc, ending, codec, reqVars, joined, asks>>
  BY DEF ListenerStep, GoOn
<1> QED  BY <1>2, <1>3, <1>4, <1>5, OthersKeep DEF TypeOK

LEMMA CollectViewKeeps == RecordingInv /\ CollectView => RecordingInv'
  BY OthersKeep DEF RecordingInv, TypeOK, CollectView

LEMMA CollectKeeps == \A r \in Recordings : RecordingInv /\ Collect(r) => RecordingInv'
<1> SUFFICES ASSUME NEW r \in Recordings, RecordingInv, Collect(r) PROVE RecordingInv'  OBVIOUS
<1>1. /\ TypeOK /\ Camera /\ \A q \in Recordings : Position(q) /\ Muxer(q)
      /\ \A f \in Encoders : Thread(f)
  BY DEF RecordingInv
<1>2. TypeOK'
  BY <1>1 DEF TypeOK, Collect
<1>3. Camera'
  BY <1>1 DEF Camera, Collect
<1>4. ASSUME NEW q \in Recordings PROVE Position(q)'
  <2>1. /\ Position(q) /\ r <= last /\ collected' = collected \cup {r}
        /\ UNCHANGED <<hpc, last, surface, pc, stop, capturing, closing>>
    BY <1>1, <1>4 DEF Collect
  <2> QED  BY <2>1 DEF Position
<1>5. ASSUME NEW f \in Encoders PROVE Thread(f)'
  <2>1. f[1] = r => pc[f] \notin {"join", "await", "leave"}
    BY <1>5, EncoderFacts DEF Collect, Vid, Aud
  <2>2. Thread(f)
    BY <1>1, <1>5
  <2> QED  BY <2>1, <2>2 DEF Thread, Early, Collect
<1>6. ASSUME NEW q \in Recordings PROVE Muxer(q)'
  BY <1>1, <1>6 DEF Muxer, In, Collect
<1> QED  BY <1>2, <1>3, <1>5, <1>6, <1>4 DEF RecordingInv

LEMMA RecordingInit == Init => RecordingInv
<1> SUFFICES ASSUME Init PROVE RecordingInv  OBVIOUS
<1>1. TypeOK
  BY BoundsAssumption DEF Init, TypeOK, None
<1>2. Camera
  BY DEF Init, Camera
<1>3. ASSUME NEW e \in Encoders PROVE Thread(e)
  BY <1>3 DEF Init, Thread, Early, Waiting, Gone
<1>4. ASSUME NEW r \in Recordings PROVE Position(r) /\ Muxer(r)
  <2>1. Vid(r) \in Encoders /\ Aud(r) \in Encoders /\ r \in Nat /\ r > 0
    BY EncoderFacts, BoundsAssumption DEF Recordings
  <2>2. /\ pc[Vid(r)] = "none" /\ pc[Aud(r)] = "none" /\ ~joined[Vid(r)] /\ ~joined[Aud(r)]
        /\ ~stop[Vid(r)] /\ last = 0 /\ hpc = "idle" /\ surface = 0 /\ r \notin collected
        /\ closing[r] = "none"
    BY <1>4, <2>1 DEF Init, None
  <2>3. tracks[r] = {} /\ count[r] = 0 /\ file[r] = "new"
    BY <1>4 DEF Init
  <2>4. Position(r)
    BY <2>1, <2>2 DEF Position, Starting
  <2>5. Muxer(r)
    BY <2>2, <2>3 DEF Muxer, In
  <2> QED  BY <2>4, <2>5
<1> QED  BY <1>1, <1>2, <1>3, <1>4 DEF RecordingInv

LEMMA RecordingStutters == RecordingInv /\ UNCHANGED vars => RecordingInv'
<1> SUFFICES ASSUME RecordingInv, UNCHANGED vars PROVE RecordingInv'  OBVIOUS
<1>1. UNCHANGED <<hpc, last, muxer, surface, count, file, tracks, collected, pc, ending, codec,
                  stop, drain, capturing, joined, view, asks, closing>>
  BY DEF vars
<1>2. TypeOK' /\ Camera'
  BY <1>1 DEF RecordingInv, TypeOK, Camera
<1>3. \A e \in Encoders : Thread(e)'
  BY <1>1 DEF RecordingInv, Thread, Early
<1>4. \A r \in Recordings : Position(r)' /\ Muxer(r)'
  BY <1>1 DEF RecordingInv, Position, Muxer, In
<1> QED  BY <1>2, <1>3, <1>4 DEF RecordingInv

LEMMA RecordingNext == RecordingInv /\ [Next]_vars => RecordingInv'
<1> SUFFICES ASSUME RecordingInv, [Next]_vars PROVE RecordingInv'  OBVIOUS
<1>1. CASE StartRecording \/ Prepare
  BY <1>1, StartRecordingKeeps, PrepareKeeps
<1>2. CASE CameraStep
  BY <1>2, AddAudioKeeps, StartEncoderKeeps, PublishKeeps DEF CameraStep
<1>3. CASE \E e \in Encoders : EncoderStep(e) \/ OnStopped(e)
  BY <1>3, BeginKeeps, ReadRequestsKeeps, SleepKeeps, LeaveDrainKeeps, AddTrackKeeps,
     StartMuxerKeeps,
     MuxerIsStartedKeeps, OnStoppedKeeps, ReleaseKeeps, StopMuxerKeeps
     DEF EncoderStep
<1>4. CASE Environment
  BY <1>4, CollectViewKeeps, CollectKeeps, FrameAvailableSoonKeeps, SpuriousWakeKeeps DEF Environment
<1>5. CASE \E w \in Stoppers : StopRecording(w) \/ \E e \in Encoders : StopEncoder(w, e)
  BY <1>5, StopRecordingKeeps, StopEncoderKeeps
<1>6. CASE \E r \in Recordings : ListenerStep(r)
  BY <1>6, ListenerStepKeeps
<1>7. CASE UNCHANGED vars
  BY <1>7, RecordingStutters
<1> QED  BY <1>1, <1>2, <1>3, <1>4, <1>5, <1>6, <1>7 DEF Next

\* The invariant of all recordings, whoever asks for them and when.
THEOREM RecordingIsInvariant == Spec => []RecordingInv
  BY RecordingInit, RecordingNext, PTL DEF Spec

LEMMA ReadyToWrite == RecordingInv => MuxerIsReady
<1> SUFFICES ASSUME RecordingInv, NEW e \in Encoders
    PROVE  /\ Writes(e) => file[e[1]] = "started"
           /\ pc[e] = "drain" /\ capturing[e] /\ codec[e] = "started" /\ ~joined[e]
                => file[e[1]] = "new"
  BY DEF MuxerIsReady
<1>1. /\ e[1] \in Recordings /\ Thread(e) /\ Muxer(e[1])
      /\ (e = Vid(e[1]) \/ e = Aud(e[1])) /\ file[e[1]] \in {"new", "started", "stopped"}
  BY EncoderFacts DEF RecordingInv, TypeOK
<1>2. Writes(e) => file[e[1]] = "started"
  BY <1>1 DEF Writes, Thread, Muxer
<1>3. ~joined[e] => file[e[1]] = "new"
  BY <1>1 DEF Muxer
<1> QED  BY <1>2, <1>3

LEMMA CompleteOnce == RecordingInv => MovieIsComplete
<1> SUFFICES ASSUME RecordingInv, NEW r \in Recordings
    PROVE  /\ file[r] # "new" => tracks[r] = Kinds
           /\ r \notin collected /\ (\A k \in Kinds : pc[<<r, k>>] = "done") => file[r] # "started"
  BY DEF MovieIsComplete
<1>1. Muxer(r) /\ tracks[r] \subseteq Kinds
  BY DEF RecordingInv, TypeOK
<1>2. file[r] # "new" => tracks[r] = Kinds
  BY <1>1, EncoderFacts DEF Muxer
<1>3. (\A k \in Kinds : pc[<<r, k>>] = "done") => pc[Vid(r)] = "done" /\ pc[Aud(r)] = "done"
  BY EncoderFacts DEF Vid, Aud
<1> QED  BY <1>1, <1>2, <1>3 DEF Muxer

LEMMA SurfaceIsLive == RecordingInv => CaptureSurfaceIsLive
<1> SUFFICES ASSUME RecordingInv, NEW r \in Recordings, surface = r
    PROVE  pc[Vid(r)] \notin {"stopped", "release", "leave", "done"}
  BY DEF CaptureSurfaceIsLive, Vid
<1>1. Position(r) /\ Thread(Vid(r))
  BY EncoderFacts DEF RecordingInv
<1> QED  BY <1>1 DEF Position, Thread, Gone

(***************************************************************************)
(* The camera thread and its callers.                                       *)
(***************************************************************************)
\* Whether, and how often, a message is in a queue.
Member(m, q) == \E i \in 1..Len(q) : q[i] = m
Once(m, q) == \A i, j \in 1..Len(q) : q[i] = m /\ q[j] = m => i = j

Steps == {"none", "endRecording", "takeCamera", "destroy", "closed", "start", "previewing", "stop",
          "notify", "still", "record", "end", "update"}

HandlerTyping ==
  /\ looper \in {"running", "quitting", "ended"} /\ queue \in Seq(Messages) /\ delayed \in Nat
  /\ released \in BOOLEAN /\ camera \in BOOLEAN /\ streaming \in SUBSET Stoppers
  /\ previewing \in BOOLEAN /\ recording \in BOOLEAN /\ unheard \in BOOLEAN
  /\ doing \in Messages \cup {"none"} /\ step \in Steps
  /\ call \in {"none", "stopPreview", "close", "release"} /\ calls \in Nat
  /\ tpc \in {"idle", "isOpened", "remove", "isPreviewing", "sendStop", "asleep", "awake",
              "sendClose", "sendRelease"}

\* The step of the camera thread says which message it works on, and none once it ends.
Working ==
  /\ step = "none" <=> doing = "none"
  /\ step \in {"stop", "notify"} <=> doing = "stop"
  /\ step \in {"start", "previewing"} <=> doing = "start"
  /\ looper # "running" => doing = "none"

\* Who answers for a preview that draws.
Drawing ==
  /\ Own \in streaming => camera \/ step = "destroy"
  /\ step \in {"destroy", "closed"} => ~camera
  /\ step = "notify" => Own \notin streaming
  /\ looper # "running" => ~camera /\ Own \notin streaming

\* The one message to stop that the application waits for, and what it may rely on.
Stopping ==
  /\ tpc \in {"isPreviewing", "sendStop", "asleep", "awake"} => ~Member("start", queue)
  /\ tpc = "awake" => doing # "start" /\ Own \notin streaming
  /\ tpc = "sendStop" => previewing
  /\ looper = "running" =>
       IF tpc = "asleep"
       THEN /\ previewing /\ Once("stop", queue)
            /\ doing = "stop" <=> ~Member("stop", queue)
       ELSE doing # "stop" /\ ~Member("stop", queue)

HandlerInv == HandlerTyping /\ Working /\ Drawing /\ Stopping

\* A function that lists what is kept of each beginning of a queue.
Keeps(f, q, m, n) ==
  f = [i \in 0..n |-> IF i = 0 THEN <<>>
                      ELSE IF q[i] = m THEN f[i - 1] ELSE Append(f[i - 1], q[i])]

\* A nonempty set of numbers has a least element: in place of an induction.
LEMMA LeastNumber ==
  ASSUME NEW T \in SUBSET Nat, T # {}
  PROVE  \E n \in T : \A k \in 0..(n - 1) : k \notin T
<1>1. PICK n \in T : \A k \in T : ~ (<<k, n>> \in OpToRel(<, Nat))
  BY NatLessThanWellFounded, WFMin, Zenon
<1>2. ASSUME NEW k \in T PROVE ~ (k < n)
  <2>1. <<k, n>> \in Nat \X Nat
    OBVIOUS
  <2> QED  BY <1>1, <1>2, <2>1 DEF OpToRel
<1>3. ASSUME NEW k \in 0..(n - 1) PROVE k \notin T
  BY <1>2, <1>3
<1> QED  BY <1>3

LEMMA KeptExists ==
  ASSUME NEW q, NEW m, Len(q) \in Nat
  PROVE  \E f : Keeps(f, q, m, Len(q))
<1> DEFINE Bad == {n \in Nat : ~ \E f : Keeps(f, q, m, n)}
<1>1. SUFFICES Bad = {}
  OBVIOUS
<1>2. SUFFICES ASSUME Bad # {} PROVE FALSE
  OBVIOUS
<1>3. PICK n \in Bad : \A k \in 0..(n - 1) : k \notin Bad
  BY <1>2, LeastNumber
<1>4. CASE n = 0
  <2>1. Keeps([i \in 0..0 |-> <<>>], q, m, 0)
    BY DEF Keeps
  <2> QED  BY <1>4, <2>1
<1>5. CASE n # 0
  <2>1. n - 1 \in 0..(n - 1) /\ n \in Nat
    BY <1>5
  <2>2. PICK f : Keeps(f, q, m, n - 1)
    BY <1>3, <2>1
  <2> DEFINE g == [i \in 0..n |-> IF i # n THEN f[i]
                                  ELSE IF q[n] = m THEN f[n - 1] ELSE Append(f[n - 1], q[n])]
  <2>3. ASSUME NEW i \in 0..n
        PROVE  g[i] = IF i = 0 THEN <<>> ELSE IF q[i] = m THEN g[i - 1] ELSE Append(g[i - 1], q[i])
    <3>1. CASE i = n
      <4>1. i # 0 /\ i - 1 \in 0..n /\ i - 1 # n
        BY <3>1, <2>1, <1>5
      <4>2. g[i - 1] = f[i - 1]
        BY <4>1
      <4> QED  BY <3>1, <4>1, <4>2
    <3>2. CASE i # n
      <4>1. i \in 0..(n - 1)
        BY <3>2, <2>1
      <4>2. f[i] = IF i = 0 THEN <<>> ELSE IF q[i] = m THEN f[i - 1] ELSE Append(f[i - 1], q[i])
        BY <2>2, <4>1 DEF Keeps
      <4>3. i # 0 => g[i - 1] = f[i - 1]
        BY <4>1, <2>1
      <4> QED  BY <3>2, <4>2, <4>3
    <3> QED  BY <3>1, <3>2
  <2> HIDE DEF g
  <2>4. g = [i \in 0..n |-> g[i]]
    BY DEF g
  <2>5. Keeps(g, q, m, n)
    BY <2>3, <2>4 DEF Keeps
  <2> QED  BY <2>5
<1> QED  BY <1>4, <1>5

\* What is left of a queue, and that nothing is added to it.
LEMMA WithoutFacts ==
  ASSUME NEW S, NEW q \in Seq(S), NEW m
  PROVE  /\ Without(q, m) \in Seq(S)
         /\ \A x : Member(x, Without(q, m)) => x # m /\ Member(x, q)
<1>1. Len(q) \in Nat
  OBVIOUS
<1>2. \E f : Keeps(f, q, m, Len(q))
  BY <1>1, KeptExists, Zenon
<1> DEFINE Kept == CHOOSE f : Keeps(f, q, m, Len(q))
<1>3. Keeps(Kept, q, m, Len(q))
  BY <1>2, Zenon
<1>4. Without(q, m) = Kept[Len(q)]
  BY DEF Without, Keeps
<1> HIDE DEF Kept
<1> DEFINE Good(s) == s \in Seq(S) /\ \A x : Member(x, s) => x # m /\ Member(x, q)
<1> DEFINE Bad == {n \in 0..Len(q) : ~ Good(Kept[n])}
<1>5. SUFFICES ASSUME Bad # {} PROVE FALSE
  BY <1>4
<1>6. PICK n \in Bad : \A k \in 0..(n - 1) : k \notin Bad
  <2>1. Bad \in SUBSET Nat /\ Bad # {}
    BY <1>1, <1>5
  <2> HIDE DEF Bad
  <2> QED  BY <2>1, LeastNumber, Zenon
<1>7. Kept[n] = IF n = 0 THEN <<>> ELSE IF q[n] = m THEN Kept[n - 1] ELSE Append(Kept[n - 1], q[n])
  BY <1>3 DEF Keeps
<1>8. CASE n = 0
  <2>1. Kept[n] = <<>>
    BY <1>7, <1>8
  <2>2. Good(<<>>)
    BY DEF Member
  <2> QED  BY <2>1, <2>2
<1>9. CASE n # 0
  <2>1. n \in 1..Len(q) /\ n - 1 \in 0..(n - 1) /\ n - 1 \in 0..Len(q)
    BY <1>9
  <2>2. Good(Kept[n - 1])
    BY <1>6, <2>1
  <2>3. CASE q[n] = m
    BY <1>7, <1>9, <2>2, <2>3
  <2>4. CASE q[n] # m
    <3>1. Kept[n] = Append(Kept[n - 1], q[n]) /\ q[n] \in S
      BY <1>7, <1>9, <2>1, <2>4
    <3>2. Kept[n] \in Seq(S)
      BY <2>2, <3>1
    <3>3. ASSUME NEW x, Member(x, Kept[n]) PROVE x # m /\ Member(x, q)
      <4>1. PICK i \in 1..Len(Kept[n]) : Kept[n][i] = x
        BY <3>3 DEF Member
      <4>2. CASE i \in 1..Len(Kept[n - 1])
        <5>1. Kept[n - 1][i] = x
          BY <2>2, <3>1, <4>1, <4>2
        <5> QED  BY <2>2, <4>2, <5>1 DEF Member
      <4>3. CASE i \notin 1..Len(Kept[n - 1])
        <5>1. x = q[n]
          BY <2>2, <3>1, <4>1, <4>3
        <5> QED  BY <2>1, <2>4, <5>1 DEF Member
      <4> QED  BY <4>2, <4>3
    <3> QED  BY <3>2, <3>3
  <2> QED  BY <2>3, <2>4
<1> QED  BY <1>8, <1>9

LEMMA WithFacts ==
  ASSUME NEW q \in Seq(Messages), NEW m \in Messages
  PROVE  /\ With(q, m) \in Seq(Messages)
         /\ \A x : Member(x, With(q, m)) => x = m \/ Member(x, q)
         /\ \A x : Member(x, q) => Member(x, With(q, m))
         /\ looper = "running" => Member(m, With(q, m))
         /\ \A x : Once(x, q) /\ x # m => Once(x, With(q, m))
         /\ ~ Member(m, q) => Once(m, With(q, m))
<1>1. CASE looper # "running"
  BY <1>1 DEF With, Once, Member
<1>2. CASE looper = "running"
  <2> DEFINE s == Append(q, m)
  <2>1. /\ With(q, m) = s /\ s \in Seq(Messages) /\ Len(s) = Len(q) + 1 /\ Len(q) \in Nat
        /\ s[Len(q) + 1] = m /\ \A i \in 1..Len(q) : s[i] = q[i]
    BY <1>2 DEF With
  <2> HIDE DEF s
  <2>2. \A i \in 1..Len(s) : i \in 1..Len(q) \/ i = Len(q) + 1
    BY <2>1
  <2>3. 1..Len(q) \subseteq 1..Len(s) /\ Len(q) + 1 \in 1..Len(s)
    BY <2>1
  <2>4. \A x : Member(x, s) => x = m \/ Member(x, q)
    BY <2>1, <2>2 DEF Member
  <2>5. (\A x : Member(x, q) => Member(x, s)) /\ Member(m, s)
    BY <2>1, <2>3 DEF Member
  <2>6. ASSUME NEW x, Once(x, q), x # m PROVE Once(x, s)
    BY <2>1, <2>2, <2>6 DEF Once
  <2>7. ASSUME ~ Member(m, q) PROVE Once(m, s)
    BY <2>1, <2>2, <2>7 DEF Once, Member
  <2> QED  BY <2>1, <2>4, <2>5, <2>6, <2>7
<1> QED  BY <1>1, <1>2

LEMMA TailFacts ==
  ASSUME NEW q \in Seq(Messages), q # <<>>
  PROVE  /\ Head(q) \in Messages /\ Tail(q) \in Seq(Messages) /\ Member(Head(q), q)
         /\ \A x : Member(x, Tail(q)) => Member(x, q)
         /\ \A x : Member(x, q) => x = Head(q) \/ Member(x, Tail(q))
         /\ \A x : Once(x, q) => Once(x, Tail(q))
         /\ Once(Head(q), q) => ~ Member(Head(q), Tail(q))
<1>1. /\ Len(q) \in Nat \ {0} /\ Len(Tail(q)) = Len(q) - 1 /\ Head(q) = q[1]
      /\ \A i \in 1..Len(Tail(q)) : Tail(q)[i] = q[i + 1]
      /\ Head(q) \in Messages /\ Tail(q) \in Seq(Messages)
  OBVIOUS
<1>2. \A i \in 1..Len(Tail(q)) : i + 1 \in 1..Len(q) /\ i + 1 # 1
  BY <1>1
<1>3. \A i \in 1..Len(q) : i = 1 \/ (i - 1 \in 1..Len(Tail(q)) /\ Tail(q)[i - 1] = q[i])
  BY <1>1
<1>4. 1 \in 1..Len(q)
  BY <1>1
<1>5. Member(Head(q), q) /\ \A x : Member(x, Tail(q)) => Member(x, q)
  BY <1>1, <1>2, <1>4 DEF Member
<1>6. \A x : Member(x, q) => x = Head(q) \/ Member(x, Tail(q))
  BY <1>1, <1>3 DEF Member
<1>7. ASSUME NEW x, Once(x, q) PROVE Once(x, Tail(q))
  <2>1. ASSUME NEW i \in 1..Len(Tail(q)), NEW j \in 1..Len(Tail(q)), Tail(q)[i] = x, Tail(q)[j] = x
        PROVE  i = j
    <3>1. i + 1 = j + 1
      BY <1>1, <1>2, <1>7, <2>1 DEF Once
    <3> QED  BY <3>1
  <2> QED  BY <2>1 DEF Once
<1>8. Once(Head(q), q) => ~ Member(Head(q), Tail(q))
  BY <1>1, <1>2, <1>4 DEF Once, Member
<1> QED  BY <1>1, <1>5, <1>6, <1>7, <1>8

LEMMA TakeMessageKeepsCalls == HandlerInv /\ TakeMessage => HandlerInv'
<1> SUFFICES ASSUME HandlerInv, TakeMessage PROVE HandlerInv'  OBVIOUS
<1>1. HandlerTyping /\ Working /\ Drawing /\ Stopping
  BY DEF HandlerInv
<1>2. /\ Head(queue) \in Messages /\ queue' \in Seq(Messages)
      /\ \A x : Member(x, queue') => Member(x, queue)
      /\ \A x : Member(x, queue) => x = Head(queue) \/ Member(x, queue')
      /\ Member(Head(queue), queue)
      /\ \A x : Once(x, queue) => Once(x, queue')
      /\ Once(Head(queue), queue) => ~ Member(Head(queue), queue')
  BY <1>1, TailFacts DEF HandlerTyping, TakeMessage
<1>3. HandlerTyping'
  BY <1>1, <1>2 DEF HandlerTyping, Steps, Messages, TakeMessage, First
<1>4. Working'
  BY <1>1, <1>2 DEF HandlerTyping, Working, Messages, TakeMessage, First
<1>5. Drawing'
  BY <1>1, <1>2 DEF HandlerTyping, Working, Drawing, Messages, TakeMessage, First
<1>6. Stopping'
  BY <1>1, <1>2 DEF HandlerTyping, Working, Drawing, Stopping, TakeMessage, First
<1> QED  BY <1>3, <1>4, <1>5, <1>6 DEF HandlerInv

LEMMA EndRecordingKeepsCalls == HandlerInv /\ EndRecording => HandlerInv'
<1> SUFFICES ASSUME HandlerInv, EndRecording PROVE HandlerInv'  OBVIOUS
<1>1. HandlerTyping /\ Working /\ Drawing /\ Stopping
  BY DEF HandlerInv
<1>2. queue' = queue
  BY DEF EndRecording, AtStep
<1>3. HandlerTyping'
  BY <1>1, <1>2 DEF HandlerTyping, Steps, Messages, EndRecording, AtStep
<1>4. Working'
  BY <1>1, <1>2 DEF HandlerTyping, Working, EndRecording, AtStep
<1>5. Drawing'
  BY <1>1, <1>2 DEF HandlerTyping, Working, Drawing, EndRecording, AtStep
<1>6. Stopping'
  BY <1>1, <1>2 DEF HandlerTyping, Working, Drawing, Stopping, EndRecording, AtStep
<1> QED  BY <1>3, <1>4, <1>5, <1>6 DEF HandlerInv

LEMMA WorkOnRecordingKeepsCalls == HandlerInv /\ WorkOnRecording => HandlerInv'
<1> SUFFICES ASSUME HandlerInv, WorkOnRecording PROVE HandlerInv'  OBVIOUS
<1>1. HandlerTyping /\ Working /\ Drawing /\ Stopping
  BY DEF HandlerInv
<1>2. queue' = queue
  BY DEF WorkOnRecording
<1>3. HandlerTyping'
  BY <1>1, <1>2 DEF HandlerTyping, Steps, Messages, WorkOnRecording
<1>4. Working'
  BY <1>1, <1>2 DEF HandlerTyping, Working, WorkOnRecording
<1>5. Drawing'
  BY <1>1, <1>2 DEF HandlerTyping, Working, Drawing, WorkOnRecording
<1>6. Stopping'
  BY <1>1, <1>2 DEF HandlerTyping, Working, Drawing, Stopping, WorkOnRecording
<1> QED  BY <1>3, <1>4, <1>5, <1>6 DEF HandlerInv

LEMMA TakeCameraKeepsCalls == HandlerInv /\ TakeCamera => HandlerInv'
<1> SUFFICES ASSUME HandlerInv, TakeCamera PROVE HandlerInv'  OBVIOUS
<1>1. HandlerTyping /\ Working /\ Drawing /\ Stopping
  BY DEF HandlerInv
<1>2. queue' = queue
  BY DEF TakeCamera, AtStep, Closed
<1>3. HandlerTyping'
  <2>1. doing' \in Messages \cup {"none"} /\ step' \in Steps
    BY <1>1 DEF HandlerTyping, Steps, TakeCamera, AtStep, Closed
  <2>2. looper' \in {"running", "quitting", "ended"} /\ queue' \in Seq(Messages) /\ delayed' \in Nat
    BY <1>1, <1>2 DEF HandlerTyping, TakeCamera, AtStep, Closed
  <2>3. /\ released' \in BOOLEAN /\ camera' \in BOOLEAN /\ streaming' \in SUBSET Stoppers
        /\ previewing' \in BOOLEAN /\ recording' \in BOOLEAN /\ unheard' \in BOOLEAN
    BY <1>1, <1>2 DEF HandlerTyping, TakeCamera, AtStep, Closed
  <2>4. call' = call /\ calls' = calls /\ tpc' = tpc
    BY DEF TakeCamera, AtStep, Closed
  <2> QED  BY <1>1, <2>1, <2>2, <2>3, <2>4 DEF HandlerTyping
<1>4. Working'
  BY <1>1, <1>2 DEF HandlerTyping, Working, TakeCamera, AtStep, Closed
<1>5. Drawing'
  BY <1>1, <1>2 DEF HandlerTyping, Working, Drawing, TakeCamera, AtStep, Closed
<1>6. Stopping'
  BY <1>1, <1>2 DEF HandlerTyping, Working, Drawing, Stopping, TakeCamera, AtStep, Closed
<1> QED  BY <1>3, <1>4, <1>5, <1>6 DEF HandlerInv

LEMMA ListenersAreOthers ==
  Own \notin Recordings /\ Recordings \subseteq Stoppers /\ Own \in Stoppers
  BY BoundsAssumption DEF Own, Recordings, Stoppers

LEMMA DestroyCameraKeepsCalls == HandlerInv /\ DestroyCamera => HandlerInv'
<1> SUFFICES ASSUME HandlerInv, DestroyCamera PROVE HandlerInv'  OBVIOUS
<1>1. HandlerTyping /\ Working /\ Drawing /\ Stopping
  BY DEF HandlerInv
<1>2. queue' = queue
  BY DEF DestroyCamera, AtStep, Closed
<1>3. HandlerTyping'
  <2>1. step' \in Steps /\ doing' \in Messages \cup {"none"}
    BY <1>1 DEF HandlerTyping, Steps, Messages, DestroyCamera, AtStep, Closed
  <2>2. UNCHANGED <<looper, delayed, released, camera, previewing, recording, unheard, call, tpc, calls>>
    BY DEF DestroyCamera, appVars
  <2>3. streaming' \in SUBSET Stoppers
    BY <1>1 DEF HandlerTyping, DestroyCamera
  <2> QED  BY <1>1, <1>2, <2>1, <2>2, <2>3 DEF HandlerTyping
<1>4. Working'
  BY <1>1, <1>2 DEF HandlerTyping, Working, DestroyCamera, AtStep, Closed
<1>5. Drawing'
  BY <1>1, <1>2 DEF HandlerTyping, Working, Drawing, DestroyCamera, AtStep, Closed
<1>6. Stopping'
  BY <1>1, <1>2 DEF HandlerTyping, Working, Drawing, Stopping, DestroyCamera, AtStep, Closed
<1> QED  BY <1>3, <1>4, <1>5, <1>6 DEF HandlerInv

LEMMA OpenCameraKeepsCalls == HandlerInv /\ OpenCamera => HandlerInv'
<1> SUFFICES ASSUME HandlerInv, OpenCamera PROVE HandlerInv'  OBVIOUS
<1>1. HandlerTyping /\ Working /\ Drawing /\ Stopping
  BY DEF HandlerInv
<1>2. queue' = queue
  BY DEF OpenCamera, AtStep
<1>3. HandlerTyping'
  BY <1>1, <1>2 DEF HandlerTyping, Steps, Messages, OpenCamera, AtStep
<1>4. Working'
  BY <1>1, <1>2 DEF HandlerTyping, Working, OpenCamera, AtStep
<1>5. Drawing'
  BY <1>1, <1>2 DEF HandlerTyping, Working, Drawing, OpenCamera, AtStep
<1>6. Stopping'
  BY <1>1, <1>2 DEF HandlerTyping, Working, Drawing, Stopping, OpenCamera, AtStep
<1> QED  BY <1>3, <1>4, <1>5, <1>6 DEF HandlerInv

LEMMA StartPreviewingKeepsCalls == HandlerInv /\ StartPreviewing => HandlerInv'
<1> SUFFICES ASSUME HandlerInv, StartPreviewing PROVE HandlerInv'  OBVIOUS
<1>1. HandlerTyping /\ Working /\ Drawing /\ Stopping
  BY DEF HandlerInv
<1>2. queue' = queue
  BY DEF StartPreviewing, AtStep
<1>3. HandlerTyping'
  <2>1. doing' \in Messages \cup {"none"} /\ step' \in Steps
    BY <1>1 DEF HandlerTyping, Steps, StartPreviewing, AtStep
  <2>2. looper' \in {"running", "quitting", "ended"} /\ queue' \in Seq(Messages) /\ delayed' \in Nat
    BY <1>1, <1>2 DEF HandlerTyping, StartPreviewing, AtStep
  <2>3. /\ released' \in BOOLEAN /\ camera' \in BOOLEAN /\ streaming' \in SUBSET Stoppers
        /\ previewing' \in BOOLEAN /\ recording' \in BOOLEAN /\ unheard' \in BOOLEAN
    BY <1>1, <1>2, ListenersAreOthers DEF HandlerTyping, StartPreviewing, AtStep
  <2>4. call' = call /\ calls' = calls /\ tpc' = tpc
    BY DEF StartPreviewing, AtStep
  <2> QED  BY <1>1, <2>1, <2>2, <2>3, <2>4 DEF HandlerTyping
<1>4. Working'
  BY <1>1, <1>2 DEF HandlerTyping, Working, StartPreviewing, AtStep
<1>5. Drawing'
  BY <1>1, <1>2 DEF HandlerTyping, Working, Drawing, StartPreviewing, AtStep
<1>6. Stopping'
  BY <1>1, <1>2 DEF HandlerTyping, Working, Drawing, Stopping, StartPreviewing, AtStep
<1> QED  BY <1>3, <1>4, <1>5, <1>6 DEF HandlerInv

LEMMA PreviewingKeepsCalls == HandlerInv /\ Previewing => HandlerInv'
<1> SUFFICES ASSUME HandlerInv, Previewing PROVE HandlerInv'  OBVIOUS
<1>1. HandlerTyping /\ Working /\ Drawing /\ Stopping
  BY DEF HandlerInv
<1>2. queue' = queue
  BY DEF Previewing, AtStep
<1>3. HandlerTyping'
  BY <1>1, <1>2 DEF HandlerTyping, Steps, Messages, Previewing, AtStep
<1>4. Working'
  BY <1>1, <1>2 DEF HandlerTyping, Working, Previewing, AtStep
<1>5. Drawing'
  BY <1>1, <1>2 DEF HandlerTyping, Working, Drawing, Previewing, AtStep
<1>6. Stopping'
  BY <1>1, <1>2 DEF HandlerTyping, Working, Drawing, Stopping, Previewing, AtStep
<1> QED  BY <1>3, <1>4, <1>5, <1>6 DEF HandlerInv

LEMMA StopPreviewingKeepsCalls == HandlerInv /\ StopPreviewing => HandlerInv'
<1> SUFFICES ASSUME HandlerInv, StopPreviewing PROVE HandlerInv'  OBVIOUS
<1>1. HandlerTyping /\ Working /\ Drawing /\ Stopping
  BY DEF HandlerInv
<1>2. queue' = queue
  BY DEF StopPreviewing, AtStep
<1>3. HandlerTyping'
  BY <1>1, <1>2 DEF HandlerTyping, Steps, Messages, StopPreviewing, AtStep
<1>4. Working'
  BY <1>1, <1>2 DEF HandlerTyping, Working, StopPreviewing, AtStep
<1>5. Drawing'
  BY <1>1, <1>2 DEF HandlerTyping, Working, Drawing, StopPreviewing, AtStep
<1>6. Stopping'
  BY <1>1, <1>2 DEF HandlerTyping, Working, Drawing, Stopping, StopPreviewing, AtStep
<1> QED  BY <1>3, <1>4, <1>5, <1>6 DEF HandlerInv

LEMMA NotifyStoppedKeepsCalls == HandlerInv /\ NotifyStopped => HandlerInv'
<1> SUFFICES ASSUME HandlerInv, NotifyStopped PROVE HandlerInv'  OBVIOUS
<1>1. HandlerTyping /\ Working /\ Drawing /\ Stopping
  BY DEF HandlerInv
<1>2. queue' = queue
  BY DEF NotifyStopped, AtStep, WakeApp
<1>3. HandlerTyping'
  BY <1>1, <1>2
     DEF HandlerTyping, Steps, Messages, NotifyStopped, AtStep, WakeApp
<1>4. Working'
  BY <1>1, <1>2 DEF HandlerTyping, Working, NotifyStopped, AtStep, WakeApp
<1>5. Drawing'
  BY <1>1, <1>2 DEF HandlerTyping, Working, Drawing, NotifyStopped, AtStep, WakeApp
<1>6. Stopping'
  BY <1>1, <1>2 DEF HandlerTyping, Working, Drawing, Stopping, NotifyStopped, AtStep, WakeApp
<1> QED  BY <1>3, <1>4, <1>5, <1>6 DEF HandlerInv

LEMMA CaptureStillKeepsCalls == HandlerInv /\ CaptureStill => HandlerInv'
<1> SUFFICES ASSUME HandlerInv, CaptureStill PROVE HandlerInv'  OBVIOUS
<1>1. HandlerTyping /\ Working /\ Drawing /\ Stopping
  BY DEF HandlerInv
<1>2. /\ queue' \in Seq(Messages)
      /\ \A x : Member(x, queue') => x = "update" \/ Member(x, queue)
      /\ \A x : Member(x, queue) => Member(x, queue')
      /\ \A x : Once(x, queue) /\ x # "update" => Once(x, queue')
  <2>1. queue \in Seq(Messages) /\ "update" \in Messages
    BY <1>1 DEF HandlerTyping, Messages
  <2>2. queue' = queue \/ queue' = With(queue, "update")
    BY DEF CaptureStill
  <2> QED  BY <2>1, <2>2, WithFacts
<1>3. HandlerTyping'
  BY <1>1, <1>2 DEF HandlerTyping, Steps, Messages, CaptureStill, AtStep
<1>4. Working'
  BY <1>1, <1>2 DEF HandlerTyping, Working, CaptureStill, AtStep
<1>5. Drawing'
  BY <1>1, <1>2 DEF HandlerTyping, Working, Drawing, CaptureStill, AtStep
<1>6. Stopping'
  BY <1>1, <1>2 DEF HandlerTyping, Working, Drawing, Stopping, CaptureStill, AtStep
<1> QED  BY <1>3, <1>4, <1>5, <1>6 DEF HandlerInv

LEMMA RecordKeepsCalls == HandlerInv /\ Record => HandlerInv'
<1> SUFFICES ASSUME HandlerInv, Record PROVE HandlerInv'  OBVIOUS
<1>1. HandlerTyping /\ Working /\ Drawing /\ Stopping
  BY DEF HandlerInv
<1>2. queue' = queue
  BY DEF Record, AtStep
<1>3. HandlerTyping'
  BY <1>1, <1>2 DEF HandlerTyping, Steps, Messages, Record, AtStep
<1>4. Working'
  BY <1>1, <1>2 DEF HandlerTyping, Working, Record, AtStep
<1>5. Drawing'
  BY <1>1, <1>2 DEF HandlerTyping, Working, Drawing, Record, AtStep
<1>6. Stopping'
  BY <1>1, <1>2 DEF HandlerTyping, Working, Drawing, Stopping, Record, AtStep
<1> QED  BY <1>3, <1>4, <1>5, <1>6 DEF HandlerInv

LEMMA PrepareEncoderKeepsCalls == HandlerInv /\ PrepareEncoder => HandlerInv'
<1> SUFFICES ASSUME HandlerInv, PrepareEncoder PROVE HandlerInv'  OBVIOUS
<1>1. HandlerTyping /\ Working /\ Drawing /\ Stopping
  BY DEF HandlerInv
<1>2. queue' = queue
  BY DEF PrepareEncoder
<1>3. HandlerTyping'
  BY <1>1, <1>2 DEF HandlerTyping, Steps, Messages, PrepareEncoder
<1>4. Working'
  BY <1>1, <1>2 DEF HandlerTyping, Working, PrepareEncoder
<1>5. Drawing'
  BY <1>1, <1>2 DEF HandlerTyping, Working, Drawing, PrepareEncoder
<1>6. Stopping'
  BY <1>1, <1>2 DEF HandlerTyping, Working, Drawing, Stopping, PrepareEncoder
<1> QED  BY <1>3, <1>4, <1>5, <1>6 DEF HandlerInv

LEMMA UpdateMediaKeepsCalls == HandlerInv /\ UpdateMedia => HandlerInv'
<1> SUFFICES ASSUME HandlerInv, UpdateMedia PROVE HandlerInv'  OBVIOUS
<1>1. HandlerTyping /\ Working /\ Drawing /\ Stopping
  BY DEF HandlerInv
<1>2. queue' = queue
  BY DEF UpdateMedia, AtStep
<1>3. HandlerTyping'
  BY <1>1, <1>2 DEF HandlerTyping, Steps, Messages, UpdateMedia, AtStep
<1>4. Working'
  BY <1>1, <1>2 DEF HandlerTyping, Working, UpdateMedia, AtStep
<1>5. Drawing'
  BY <1>1, <1>2 DEF HandlerTyping, Working, Drawing, UpdateMedia, AtStep
<1>6. Stopping'
  BY <1>1, <1>2 DEF HandlerTyping, Working, Drawing, Stopping, UpdateMedia, AtStep
<1> QED  BY <1>3, <1>4, <1>5, <1>6 DEF HandlerInv

LEMMA QuitKeepsCalls == HandlerInv /\ Quit => HandlerInv'
<1> SUFFICES ASSUME HandlerInv, Quit PROVE HandlerInv'  OBVIOUS
<1>1. HandlerTyping /\ Working /\ Drawing /\ Stopping
  BY DEF HandlerInv
<1>2. \/ queue' = queue /\ looper' = looper /\ released' = released /\ delayed' = delayed
      \/ queue' = <<>> /\ looper' = "quitting" /\ released' = TRUE /\ delayed' = 0
  BY DEF Quit
<1>3. <<>> \in Seq(Messages) /\ \A x : ~ Member(x, <<>>)
  BY DEF Member
<1>4. HandlerTyping'
  <2>1. doing' \in Messages \cup {"none"} /\ step' \in Steps
    BY <1>1 DEF HandlerTyping, Steps, Quit, AtStep
  <2>2. looper' \in {"running", "quitting", "ended"} /\ queue' \in Seq(Messages) /\ delayed' \in Nat
    <3>1. CASE queue' = queue /\ looper' = looper /\ delayed' = delayed
      BY <1>1, <3>1 DEF HandlerTyping
    <3>2. CASE queue' = <<>> /\ looper' = "quitting" /\ delayed' = 0
      BY <1>3, <3>2
    <3> QED  BY <1>2, <3>1, <3>2
  <2>3. /\ released' \in BOOLEAN /\ camera' \in BOOLEAN /\ streaming' \in SUBSET Stoppers
        /\ previewing' \in BOOLEAN /\ recording' \in BOOLEAN /\ unheard' \in BOOLEAN
    BY <1>1, <1>2, <1>3 DEF HandlerTyping, Quit, AtStep
  <2>4. call' = call /\ calls' = calls /\ tpc' = tpc
    BY DEF Quit, AtStep
  <2> QED  BY <1>1, <2>1, <2>2, <2>3, <2>4 DEF HandlerTyping
<1>5. Working'
  BY <1>1, <1>2, <1>3 DEF HandlerTyping, Working, Quit, AtStep
<1>6. Drawing'
  BY <1>1, <1>2, <1>3 DEF HandlerTyping, Working, Drawing, Quit, AtStep
<1>7. Stopping'
  BY <1>1, <1>2, <1>3 DEF HandlerTyping, Working, Drawing, Stopping, Quit, AtStep
<1> QED  BY <1>4, <1>5, <1>6, <1>7 DEF HandlerInv

LEMMA EndThreadKeepsCalls == HandlerInv /\ EndThread => HandlerInv'
<1> SUFFICES ASSUME HandlerInv, EndThread PROVE HandlerInv'  OBVIOUS
<1>1. HandlerTyping /\ Working /\ Drawing /\ Stopping
  BY DEF HandlerInv
<1>2. queue' = queue
  BY DEF EndThread, WakeApp
<1>3. HandlerTyping'
  BY <1>1, <1>2 DEF HandlerTyping, Steps, Messages, EndThread, WakeApp
<1>4. Working'
  BY <1>1, <1>2 DEF HandlerTyping, Working, EndThread, WakeApp
<1>5. Drawing'
  BY <1>1, <1>2 DEF HandlerTyping, Working, Drawing, EndThread, WakeApp
<1>6. Stopping'
  BY <1>1, <1>2 DEF HandlerTyping, Working, Drawing, Stopping, EndThread, WakeApp
<1> QED  BY <1>3, <1>4, <1>5, <1>6 DEF HandlerInv

LEMMA ListenerTakesKeepsCalls == \A r \in Recordings : HandlerInv /\ ListenerTakes(r) => HandlerInv'
<1> SUFFICES ASSUME NEW r \in Recordings, HandlerInv, ListenerTakes(r) PROVE HandlerInv'  OBVIOUS
<1>1. HandlerTyping /\ Working /\ Drawing /\ Stopping
  BY DEF HandlerInv
<1>2. /\ UNCHANGED <<looper, queue, delayed, previewing, recording, doing, step, unheard, appVars>>
      /\ released' \in BOOLEAN /\ camera' \in BOOLEAN /\ streaming' \in SUBSET Stoppers
      /\ camera' => camera
      /\ Own \in streaming' => Own \in streaming /\ (camera => camera')
  BY <1>1, ListenersAreOthers DEF HandlerTyping, ListenerTakes
<1>3. HandlerTyping'
  BY <1>1, <1>2 DEF HandlerTyping
<1>4. Working' /\ Drawing' /\ Stopping'
  BY <1>1, <1>2 DEF HandlerTyping, Working, Drawing, Stopping
<1> QED  BY <1>3, <1>4 DEF HandlerInv

LEMMA ListenerDestroysKeepsCalls == \A r \in Recordings : HandlerInv /\ ListenerDestroys(r) => HandlerInv'
<1> SUFFICES ASSUME NEW r \in Recordings, HandlerInv, ListenerDestroys(r) PROVE HandlerInv'  OBVIOUS
<1>1. HandlerTyping /\ Working /\ Drawing /\ Stopping
  BY DEF HandlerInv
<1>2. /\ UNCHANGED <<looper, queue, delayed, previewing, recording, doing, step, unheard, appVars>>
      /\ released' \in BOOLEAN /\ camera' \in BOOLEAN /\ streaming' \in SUBSET Stoppers
      /\ camera' => camera
      /\ Own \in streaming' => Own \in streaming /\ (camera => camera')
  BY <1>1, ListenersAreOthers DEF HandlerTyping, ListenerDestroys
<1>3. HandlerTyping'
  BY <1>1, <1>2 DEF HandlerTyping
<1>4. Working' /\ Drawing' /\ Stopping'
  BY <1>1, <1>2 DEF HandlerTyping, Working, Drawing, Stopping
<1> QED  BY <1>3, <1>4 DEF HandlerInv

LEMMA ListenerReleasesKeepsCalls == \A r \in Recordings : HandlerInv /\ ListenerReleases(r) => HandlerInv'
<1> SUFFICES ASSUME NEW r \in Recordings, HandlerInv, ListenerReleases(r) PROVE HandlerInv'  OBVIOUS
<1>1. HandlerTyping /\ Working /\ Drawing /\ Stopping
  BY DEF HandlerInv
<1>2. /\ UNCHANGED <<looper, queue, delayed, previewing, recording, doing, step, unheard, appVars>>
      /\ released' \in BOOLEAN /\ camera' \in BOOLEAN /\ streaming' \in SUBSET Stoppers
      /\ camera' => camera
      /\ Own \in streaming' => Own \in streaming /\ (camera => camera')
  BY <1>1, ListenersAreOthers DEF HandlerTyping, ListenerReleases
<1>3. HandlerTyping'
  BY <1>1, <1>2 DEF HandlerTyping
<1>4. Working' /\ Drawing' /\ Stopping'
  BY <1>1, <1>2 DEF HandlerTyping, Working, Drawing, Stopping
<1> QED  BY <1>3, <1>4 DEF HandlerInv

LEMMA UpdateIsDueKeepsCalls == HandlerInv /\ UpdateIsDue => HandlerInv'
<1> SUFFICES ASSUME HandlerInv, UpdateIsDue PROVE HandlerInv'  OBVIOUS
<1>1. HandlerTyping /\ Working /\ Drawing /\ Stopping
  BY DEF HandlerInv
<1>2. /\ queue' \in Seq(Messages)
      /\ \A x : Member(x, queue') => x = "update" \/ Member(x, queue)
      /\ \A x : Member(x, queue) => Member(x, queue')
      /\ \A x : Once(x, queue) /\ x # "update" => Once(x, queue')
  <2>1. queue \in Seq(Messages) /\ "update" \in Messages
    BY <1>1 DEF HandlerTyping, Messages
  <2>2. queue' = With(queue, "update")
    BY DEF UpdateIsDue
  <2> QED  BY <2>1, <2>2, WithFacts
<1>3. HandlerTyping'
  BY <1>1, <1>2 DEF HandlerTyping, Steps, Messages, UpdateIsDue
<1>4. Working'
  BY <1>1, <1>2 DEF HandlerTyping, Working, UpdateIsDue
<1>5. Drawing'
  BY <1>1, <1>2 DEF HandlerTyping, Working, Drawing, UpdateIsDue
<1>6. Stopping'
  BY <1>1, <1>2 DEF HandlerTyping, Working, Drawing, Stopping, UpdateIsDue
<1> QED  BY <1>3, <1>4, <1>5, <1>6 DEF HandlerInv

LEMMA IsOpenedKeepsCalls == HandlerInv /\ IsOpened => HandlerInv'
<1> SUFFICES ASSUME HandlerInv, IsOpened PROVE HandlerInv'  OBVIOUS
<1>1. HandlerTyping /\ Working /\ Drawing /\ Stopping
  BY DEF HandlerInv
<1>2. queue' = queue
  BY DEF IsOpened, AppAt, AfterClose, AppUnchanged
<1>3. HandlerTyping'
  BY <1>1, <1>2
     DEF HandlerTyping, Steps, Messages, IsOpened, AppAt, AfterClose, AppUnchanged
<1>4. Working'
  BY <1>1, <1>2 DEF HandlerTyping, Working, IsOpened, AppAt, AfterClose, AppUnchanged
<1>5. Drawing'
  BY <1>1, <1>2 DEF HandlerTyping, Working, Drawing, IsOpened, AppAt, AfterClose, AppUnchanged
<1>6. Stopping'
  BY <1>1, <1>2
     DEF HandlerTyping, Working, Drawing, Stopping, IsOpened, AppAt, AfterClose, AppUnchanged
<1> QED  BY <1>3, <1>4, <1>5, <1>6 DEF HandlerInv

LEMMA RemoveStartKeepsCalls == HandlerInv /\ RemoveStart => HandlerInv'
<1> SUFFICES ASSUME HandlerInv, RemoveStart PROVE HandlerInv'  OBVIOUS
<1>1. HandlerTyping /\ Working /\ Drawing /\ Stopping
  BY DEF HandlerInv
<1>2. /\ queue' \in Seq(Messages) /\ ~ Member("start", queue')
      /\ \A x : Member(x, queue') => x = "end" \/ Member(x, queue)
  <2>1. /\ queue \in Seq(Messages) /\ Without(queue, "start") \in Seq(Messages)
        /\ \A x : Member(x, Without(queue, "start")) => x # "start" /\ Member(x, queue)
    BY <1>1, WithoutFacts DEF HandlerTyping
  <2>2. "end" \in Messages /\ "end" # "start"
    BY DEF Messages
  <2> QED  BY <2>1, <2>2, WithFacts DEF RemoveStart
<1>3. HandlerTyping'
  BY <1>1, <1>2
     DEF HandlerTyping, Steps, Messages, RemoveStart, AppAt, AppUnchanged
<1>4. Working'
  BY <1>1, <1>2 DEF HandlerTyping, Working, RemoveStart, AppAt, AppUnchanged
<1>5. Drawing'
  BY <1>1, <1>2 DEF HandlerTyping, Working, Drawing, RemoveStart, AppAt, AppUnchanged
<1>6. Stopping'
  BY <1>1, <1>2 DEF HandlerTyping, Working, Drawing, Stopping, RemoveStart, AppAt, AppUnchanged
<1> QED  BY <1>3, <1>4, <1>5, <1>6 DEF HandlerInv

LEMMA IsPreviewingKeepsCalls == HandlerInv /\ IsPreviewing => HandlerInv'
<1> SUFFICES ASSUME HandlerInv, IsPreviewing PROVE HandlerInv'  OBVIOUS
<1>1. HandlerTyping /\ Working /\ Drawing /\ Stopping
  BY DEF HandlerInv
<1>2. queue' = queue
  BY DEF IsPreviewing, AppAt, AfterStop, AppUnchanged
<1>3. HandlerTyping'
  BY <1>1, <1>2
     DEF HandlerTyping, Steps, Messages, IsPreviewing, AppAt, AfterStop, AppUnchanged
<1>4. Working'
  BY <1>1, <1>2 DEF HandlerTyping, Working, IsPreviewing, AppAt, AfterStop, AppUnchanged
<1>5. Drawing'
  BY <1>1, <1>2 DEF HandlerTyping, Working, Drawing, IsPreviewing, AppAt, AfterStop, AppUnchanged
<1>6. Stopping'
  BY <1>1, <1>2
     DEF HandlerTyping, Working, Drawing, Stopping, IsPreviewing, AppAt, AfterStop, AppUnchanged
<1> QED  BY <1>3, <1>4, <1>5, <1>6 DEF HandlerInv

LEMMA SendStopKeepsCalls == HandlerInv /\ SendStop => HandlerInv'
<1> SUFFICES ASSUME HandlerInv, SendStop PROVE HandlerInv'  OBVIOUS
<1>1. HandlerTyping /\ Working /\ Drawing /\ Stopping
  BY DEF HandlerInv
<1>2. /\ queue' \in Seq(Messages)
      /\ \A x : Member(x, queue') => x = "stop" \/ Member(x, queue)
      /\ \A x : Member(x, queue) => Member(x, queue')
      /\ \A x : Once(x, queue) /\ x # "stop" => Once(x, queue')
      /\ looper = "running" => Member("stop", queue')
      /\ ~ Member("stop", queue) => Once("stop", queue')
  <2>1. queue \in Seq(Messages) /\ "stop" \in Messages
    BY <1>1 DEF HandlerTyping, Messages
  <2>2. queue' = With(queue, "stop")
    BY DEF SendStop
  <2> QED  BY <2>1, <2>2, WithFacts
<1>3. HandlerTyping'
  BY <1>1, <1>2 DEF HandlerTyping, Steps, Messages, SendStop, AppAt, AppUnchanged
<1>4. Working'
  BY <1>1, <1>2 DEF HandlerTyping, Working, SendStop, AppAt, AppUnchanged
<1>5. Drawing'
  BY <1>1, <1>2 DEF HandlerTyping, Working, Drawing, SendStop, AppAt, AppUnchanged
<1>6. Stopping'
  BY <1>1, <1>2 DEF HandlerTyping, Working, Drawing, Stopping, SendStop, AppAt, AppUnchanged
<1> QED  BY <1>3, <1>4, <1>5, <1>6 DEF HandlerInv

LEMMA WokenKeepsCalls == HandlerInv /\ Woken => HandlerInv'
<1> SUFFICES ASSUME HandlerInv, Woken PROVE HandlerInv'  OBVIOUS
<1>1. HandlerTyping /\ Working /\ Drawing /\ Stopping
  BY DEF HandlerInv
<1>2. queue' = queue
  BY DEF Woken, AppAt, AfterStop, AppUnchanged
<1>3. HandlerTyping'
  BY <1>1, <1>2
     DEF HandlerTyping, Steps, Messages, Woken, AppAt, AfterStop, AppUnchanged
<1>4. Working'
  BY <1>1, <1>2 DEF HandlerTyping, Working, Woken, AppAt, AfterStop, AppUnchanged
<1>5. Drawing'
  BY <1>1, <1>2 DEF HandlerTyping, Working, Drawing, Woken, AppAt, AfterStop, AppUnchanged
<1>6. Stopping'
  BY <1>1, <1>2
     DEF HandlerTyping, Working, Drawing, Stopping, Woken, AppAt, AfterStop, AppUnchanged
<1> QED  BY <1>3, <1>4, <1>5, <1>6 DEF HandlerInv

LEMMA SendCloseKeepsCalls == HandlerInv /\ SendClose => HandlerInv'
<1> SUFFICES ASSUME HandlerInv, SendClose PROVE HandlerInv'  OBVIOUS
<1>1. HandlerTyping /\ Working /\ Drawing /\ Stopping
  BY DEF HandlerInv
<1>2. /\ queue' \in Seq(Messages)
      /\ \A x : Member(x, queue') => x = "close" \/ Member(x, queue)
      /\ \A x : Member(x, queue) => Member(x, queue')
      /\ \A x : Once(x, queue) /\ x # "close" => Once(x, queue')
  <2>1. queue \in Seq(Messages) /\ "close" \in Messages
    BY <1>1 DEF HandlerTyping, Messages
  <2>2. queue' = With(queue, "close")
    BY DEF SendClose
  <2> QED  BY <2>1, <2>2, WithFacts
<1>3. HandlerTyping'
  BY <1>1, <1>2
     DEF HandlerTyping, Steps, Messages, SendClose, AppAt, AfterClose, AppUnchanged
<1>4. Working'
  BY <1>1, <1>2 DEF HandlerTyping, Working, SendClose, AppAt, AfterClose, AppUnchanged
<1>5. Drawing'
  BY <1>1, <1>2 DEF HandlerTyping, Working, Drawing, SendClose, AppAt, AfterClose, AppUnchanged
<1>6. Stopping'
  BY <1>1, <1>2
     DEF HandlerTyping, Working, Drawing, Stopping, SendClose, AppAt, AfterClose, AppUnchanged
<1> QED  BY <1>3, <1>4, <1>5, <1>6 DEF HandlerInv

LEMMA SendReleaseKeepsCalls == HandlerInv /\ SendRelease => HandlerInv'
<1> SUFFICES ASSUME HandlerInv, SendRelease PROVE HandlerInv'  OBVIOUS
<1>1. HandlerTyping /\ Working /\ Drawing /\ Stopping
  BY DEF HandlerInv
<1>2. /\ queue' \in Seq(Messages)
      /\ \A x : Member(x, queue') => x = "release" \/ Member(x, queue)
      /\ \A x : Member(x, queue) => Member(x, queue')
      /\ \A x : Once(x, queue) /\ x # "release" => Once(x, queue')
  <2>1. queue \in Seq(Messages) /\ "release" \in Messages
    BY <1>1 DEF HandlerTyping, Messages
  <2>2. queue' = With(queue, "release")
    BY DEF SendRelease
  <2> QED  BY <2>1, <2>2, WithFacts
<1>3. HandlerTyping'
  BY <1>1, <1>2
     DEF HandlerTyping, Steps, Messages, SendRelease, AppAt, AppUnchanged
<1>4. Working'
  BY <1>1, <1>2 DEF HandlerTyping, Working, SendRelease, AppAt, AppUnchanged
<1>5. Drawing'
  BY <1>1, <1>2 DEF HandlerTyping, Working, Drawing, SendRelease, AppAt, AppUnchanged
<1>6. Stopping'
  BY <1>1, <1>2 DEF HandlerTyping, Working, Drawing, Stopping, SendRelease, AppAt, AppUnchanged
<1> QED  BY <1>3, <1>4, <1>5, <1>6 DEF HandlerInv

LEMMA SendKeepsCalls ==
  \A m \in {"open", "start", "still", "record", "end"} : HandlerInv /\ Send(m) => HandlerInv'
<1> SUFFICES ASSUME NEW m \in {"open", "start", "still", "record", "end"}, HandlerInv, Send(m)
    PROVE  HandlerInv'
  OBVIOUS
<1>1. HandlerTyping /\ Working /\ Drawing /\ Stopping
  BY DEF HandlerInv
<1>2. /\ queue' \in Seq(Messages)
      /\ \A x : Member(x, queue') => x = m \/ Member(x, queue)
      /\ \A x : Member(x, queue) => Member(x, queue')
      /\ \A x : Once(x, queue) /\ x # m => Once(x, queue')
  <2>1. queue \in Seq(Messages) /\ m \in Messages
    BY <1>1 DEF HandlerTyping, Messages
  <2>2. queue' = With(queue, m)
    BY DEF Send
  <2> QED  BY <2>1, <2>2, WithFacts
<1>3. HandlerTyping'
  BY <1>1, <1>2 DEF HandlerTyping, Steps, Messages, Send, Calling, AppUnchanged
<1>4. Working'
  BY <1>1, <1>2 DEF HandlerTyping, Working, Send, Calling, AppUnchanged
<1>5. Drawing'
  BY <1>1, <1>2 DEF HandlerTyping, Working, Drawing, Send, Calling, AppUnchanged
<1>6. Stopping'
  BY <1>1, <1>2 DEF HandlerTyping, Working, Drawing, Stopping, Send, Calling, AppUnchanged
<1> QED  BY <1>3, <1>4, <1>5, <1>6 DEF HandlerInv

LEMMA CallKeepsCalls ==
  \A c \in {"stopPreview", "close", "release"} : HandlerInv /\ Call(c) => HandlerInv'
<1> SUFFICES ASSUME NEW c \in {"stopPreview", "close", "release"}, HandlerInv, Call(c)
    PROVE  HandlerInv'
  OBVIOUS
<1>1. HandlerTyping /\ Working /\ Drawing /\ Stopping
  BY DEF HandlerInv
<1>2. queue' = queue
  BY DEF Call, Calling, AppUnchanged
<1>3. HandlerTyping'
  BY <1>1, <1>2 DEF HandlerTyping, Steps, Messages, Call, Calling, AppUnchanged
<1>4. Working'
  BY <1>1, <1>2 DEF HandlerTyping, Working, Call, Calling, AppUnchanged
<1>5. Drawing'
  BY <1>1, <1>2 DEF HandlerTyping, Working, Drawing, Call, Calling, AppUnchanged
<1>6. Stopping'
  BY <1>1, <1>2 DEF HandlerTyping, Working, Drawing, Stopping, Call, Calling, AppUnchanged
<1> QED  BY <1>3, <1>4, <1>5, <1>6 DEF HandlerInv

LEMMA EncoderStoppedKeepsCalls ==
  \A e \in Encoders : HandlerInv /\ EncoderStopped(e) => HandlerInv'
<1> SUFFICES ASSUME NEW e \in Encoders, HandlerInv, EncoderStopped(e) PROVE HandlerInv'  OBVIOUS
<1>1. HandlerTyping /\ Working /\ Drawing /\ Stopping
  BY DEF HandlerInv
<1>2. UNCHANGED <<looper, queue, released, cameraVars, doing, step, appVars>>
  BY DEF EncoderStopped
<1>3. delayed' \in Nat /\ recording' \in BOOLEAN /\ unheard' \in BOOLEAN
  <2>1. delayed \in Nat /\ recording \in BOOLEAN /\ unheard \in BOOLEAN
    BY <1>1 DEF HandlerTyping
  <2>2. CASE e[2] # Video
    BY <2>1, <2>2 DEF EncoderStopped
  <2>3. CASE e[2] = Video
    <3> DEFINE heard == view /\ e[1] \notin collected
    <3>1. recording' = FALSE /\ unheard' = (unheard \/ ~heard)
      BY <2>3, Zenon DEF EncoderStopped
    <3>2. delayed' = (IF heard /\ looper = "running" THEN delayed + 1 ELSE delayed)
      BY <2>3 DEF EncoderStopped
    <3> HIDE DEF heard
    <3>3. unheard' \in BOOLEAN
      BY <2>1, <3>1, Zenon
    <3>4. delayed' = delayed + 1 \/ delayed' = delayed
      BY <3>2, Zenon
    <3>5. delayed' \in Nat
      BY <2>1, <3>4
    <3> QED  BY <3>1, <3>3, <3>5, Zenon
  <2> QED  BY <2>2, <2>3
<1>4. HandlerTyping'
  BY <1>1, <1>2, <1>3 DEF HandlerTyping
<1>5. Working' /\ Drawing' /\ Stopping'
  BY <1>1, <1>2 DEF Working, Drawing, Stopping
<1> QED  BY <1>4, <1>5 DEF HandlerInv

\* Whatever the handler does is a step of its recordings, or none.
LEMMA HandlerStepsAreRecordings == [HandlerNext]_<<vars, handlerVars>> => [Next]_vars
<1> SUFFICES ASSUME HandlerNext PROVE Next \/ UNCHANGED vars
  BY Zenon
<1>1. CASE CameraThread
  <2>1. EndRecording => Next \/ UNCHANGED vars
    BY ListenersAreOthers DEF EndRecording, Next
  <2>2. WorkOnRecording => Next
    BY DEF WorkOnRecording, Next
  <2>3. Record => Next \/ UNCHANGED vars
    BY DEF Record, Next
  <2>4. PrepareEncoder => Next
    BY DEF PrepareEncoder, Next
  <2>5. TakeMessage \/ TakeCamera \/ DestroyCamera \/ OpenCamera => UNCHANGED vars
    BY Zenon DEF TakeMessage, TakeCamera, DestroyCamera, OpenCamera
  <2>6. StartPreviewing \/ Previewing \/ StopPreviewing \/ NotifyStopped => UNCHANGED vars
    BY Zenon DEF StartPreviewing, Previewing, StopPreviewing, NotifyStopped
  <2>7. CaptureStill \/ UpdateMedia \/ Quit \/ EndThread => UNCHANGED vars
    BY Zenon DEF CaptureStill, UpdateMedia, Quit, EndThread
  <2> QED  BY <1>1, <2>1, <2>2, <2>3, <2>4, <2>5, <2>6, <2>7 DEF CameraThread
<1>2. CASE AskEncoder \/ UpdateIsDue
  BY <1>2 DEF AskEncoder, UpdateIsDue, Next
<1>3. CASE Application
  BY <1>3, Zenon
     DEF Application, Send, Call, InCall, IsOpened, RemoveStart, IsPreviewing, SendStop, Woken,
     SendClose, SendRelease, AppAt, AppUnchanged
<1>4. CASE \E e \in Encoders : EncoderThread(e)
  BY <1>4 DEF EncoderThread, EncoderStopped, Next
<1>5. CASE Environment /\ UNCHANGED handlerVars
  BY <1>5 DEF Next
<1>6. CASE \E r \in Recordings : Listener(r)
  <2>1. PICK r \in Recordings : Listener(r)
    BY <1>6
  <2>2. ListenerEnds(r) => Next
    BY ListenersAreOthers DEF ListenerEnds, Next
  <2>3. ListenerTakes(r) \/ ListenerDestroys(r) \/ ListenerReleases(r) => ListenerStep(r)
    BY DEF ListenerTakes, ListenerDestroys, ListenerReleases, ListenerStep
  <2> QED  BY <2>1, <2>2, <2>3 DEF Listener, Next
<1> QED  BY <1>1, <1>2, <1>3, <1>4, <1>5, <1>6 DEF HandlerNext

\* The camera thread and its encoders' listener implement module Recording: it stays
\* true of them that recordings start and stop in the order it allows.
THEOREM HandlerRecords == HandlerSpec => Spec
<1>1. HandlerInit => Init
  BY DEF HandlerInit
<1> QED  BY <1>1, HandlerStepsAreRecordings, PTL DEF HandlerSpec, Spec

LEMMA CallsInit == HandlerInit => HandlerInv
<1> SUFFICES ASSUME HandlerInit PROVE HandlerInv  OBVIOUS
<1>1. <<>> \in Seq(Messages) /\ \A x : ~ Member(x, <<>>)
  BY DEF Member
<1>2. HandlerTyping
  BY <1>1 DEF HandlerInit, HandlerTyping, Steps
<1>3. Working /\ Drawing /\ Stopping
  BY <1>1 DEF HandlerInit, Working, Drawing, Stopping
<1> QED  BY <1>2, <1>3 DEF HandlerInv

LEMMA CallsStutter == HandlerInv /\ UNCHANGED handlerVars => HandlerInv'
<1> SUFFICES ASSUME HandlerInv, UNCHANGED handlerVars PROVE HandlerInv'  OBVIOUS
<1>1. UNCHANGED <<looper, queue, delayed, released, camera, streaming, previewing, recording, doing,
                  step, unheard, call, tpc, calls>>
  OBVIOUS
<1> QED  BY <1>1 DEF HandlerInv, HandlerTyping, Working, Drawing, Stopping

LEMMA CallsNext == HandlerInv /\ [HandlerNext]_<<vars, handlerVars>> => HandlerInv'
<1> SUFFICES ASSUME HandlerInv, [HandlerNext]_<<vars, handlerVars>> PROVE HandlerInv'  OBVIOUS
<1>1. CASE CameraThread
  BY <1>1, TakeMessageKeepsCalls, EndRecordingKeepsCalls, WorkOnRecordingKeepsCalls,
     TakeCameraKeepsCalls,
     DestroyCameraKeepsCalls, OpenCameraKeepsCalls, StartPreviewingKeepsCalls, PreviewingKeepsCalls,
     StopPreviewingKeepsCalls, NotifyStoppedKeepsCalls, CaptureStillKeepsCalls, RecordKeepsCalls,
     PrepareEncoderKeepsCalls, UpdateMediaKeepsCalls, QuitKeepsCalls, EndThreadKeepsCalls
     DEF CameraThread
<1>2. CASE AskEncoder \/ UpdateIsDue
  BY <1>2, CallsStutter, UpdateIsDueKeepsCalls DEF AskEncoder
<1>3. CASE Application
  BY <1>3, SendKeepsCalls, CallKeepsCalls, IsOpenedKeepsCalls, RemoveStartKeepsCalls,
     IsPreviewingKeepsCalls,
     SendStopKeepsCalls, WokenKeepsCalls, SendCloseKeepsCalls, SendReleaseKeepsCalls
     DEF Application, InCall
<1>4. CASE \E e \in Encoders : EncoderThread(e)
  BY <1>4, EncoderStoppedKeepsCalls, CallsStutter DEF EncoderThread
<1>5. CASE \E r \in Recordings : Listener(r)
  BY <1>5, CallsStutter, ListenerTakesKeepsCalls, ListenerDestroysKeepsCalls, ListenerReleasesKeepsCalls
     DEF Listener, ListenerEnds
<1>6. CASE UNCHANGED handlerVars
  BY <1>6, CallsStutter
<1> QED  BY <1>1, <1>2, <1>3, <1>4, <1>5, <1>6 DEF HandlerNext

\* The invariant of the calls and the messages, however many calls are made.
THEOREM CallsAreInvariant == HandlerSpec => []HandlerInv
  BY CallsInit, CallsNext, PTL DEF HandlerSpec

\* The recordings of a camera thread keep the invariant of recordings.
LEMMA HandlerKeepsRecordings == HandlerSpec => []RecordingInv
  BY HandlerRecords, RecordingIsInvariant, PTL

\* handleStartRecording(), handleStopRecording() and the encoders: every variable keeps
\* its type, in particular a muxer is never stopped more often than it was started.
THEOREM RecordingTypes == HandlerSpec => []TypeOK
<1>1. RecordingInv => TypeOK
  BY DEF RecordingInv
<1> QED  BY <1>1, HandlerKeepsRecordings, PTL

\* drain() writes only to a MediaMuxer that runs, and adds a track only to one that
\* does not, although it looks at mStatredCount alone and the handler may already have
\* forgotten the muxer or started the next recording.
THEOREM NothingIsWrittenTooSoon == HandlerSpec => []MuxerIsReady
  BY ReadyToWrite, HandlerKeepsRecordings, PTL

\* MediaMuxerWrapper.start() and stop() count the encoders so that a movie has both
\* tracks once it starts and is closed once both are done, in whatever order they come.
THEOREM MoviesAreComplete == HandlerSpec => []MovieIsComplete
  BY CompleteOnce, HandlerKeepsRecordings, PTL

\* handleStopRecording() stops the capture before it asks the encoder to stop, so that
\* the camera never draws on an input surface that release() gives back.
THEOREM SurfaceOutlivesCapture == HandlerSpec => []CaptureSurfaceIsLive
  BY SurfaceIsLive, HandlerKeepsRecordings, PTL

\* A stopPreview() that waits for the camera thread has its message queued or in work
\* and finds the preview running, whatever else was sent before: it will be woken.
THEOREM WaitsAreHeard == HandlerSpec => []StopWillBeHeard
<1>1. HandlerInv => StopWillBeHeard
  <2> SUFFICES ASSUME HandlerInv, tpc = "asleep", looper = "running"
      PROVE  previewing /\ (doing = "stop" \/ \E i \in DOMAIN queue : queue[i] = "stop")
    BY DEF StopWillBeHeard
  <2>1. previewing /\ (doing = "stop" \/ Member("stop", queue)) /\ DOMAIN queue = 1..Len(queue)
    BY DEF HandlerInv, HandlerTyping, Stopping
  <2> QED  BY <2>1 DEF Member
<1> QED  BY <1>1, CallsAreInvariant, PTL

(***************************************************************************)
(* The cameras that listeners have taken.                                   *)
(***************************************************************************)
\* A listener that has taken a camera that draws is about to stop it.
Taken == \A r \in Recordings : r \in streaming => closing[r] = "destroy"

\* What leaves the listeners alone, and takes no camera from the camera thread.
LEMMA TakenStays ==
  ASSUME Taken, closing' = closing, streaming' \subseteq streaming \cup {Own}
  PROVE  Taken'
  BY ListenersAreOthers DEF Taken

LEMMA OthersTakeNone ==
  CameraThread \/ AskEncoder \/ UpdateIsDue \/ Application
  \/ (\E e \in Encoders : EncoderStep(e) /\ UNCHANGED handlerVars)
  \/ (Environment /\ UNCHANGED handlerVars) \/ UNCHANGED <<vars, handlerVars>>
  => closing' = closing /\ streaming' \subseteq streaming \cup {Own}
<1>1. CameraStep => closing' = closing
  BY DEF CameraStep, AddAudio, StartEncoder, Publish
<1>2. StartRecording \/ Prepare \/ StopRecording(Own) => closing' = closing
  BY DEF StartRecording, Prepare, StopRecording
<1>3. UNCHANGED vars => closing' = closing
  BY DEF vars
<1>4. EndRecording \/ WorkOnRecording \/ Record \/ PrepareEncoder
      => closing' = closing /\ streaming' = streaming
  BY <1>1, <1>2, <1>3 DEF EndRecording, WorkOnRecording, Record, PrepareEncoder
<1>5. TakeMessage \/ TakeCamera \/ OpenCamera \/ Previewing \/ NotifyStopped \/ CaptureStill
      \/ UpdateMedia \/ Quit \/ EndThread \/ UpdateIsDue
      => closing' = closing /\ streaming' = streaming
  BY <1>3 DEF TakeMessage, TakeCamera, OpenCamera, Previewing, NotifyStopped, CaptureStill,
     UpdateMedia, Quit, EndThread, UpdateIsDue
<1>6. DestroyCamera \/ StartPreviewing \/ StopPreviewing
      => closing' = closing /\ streaming' \subseteq streaming \cup {Own}
  BY <1>3 DEF DestroyCamera, StartPreviewing, StopPreviewing
<1>7. Application => closing' = closing /\ streaming' = streaming
  BY <1>3 DEF Application, Send, Call, InCall, IsOpened, RemoveStart, IsPreviewing, SendStop,
     Woken, SendClose, SendRelease, AppAt, AppUnchanged
<1>8. AskEncoder => closing' = closing /\ streaming' = streaming
  BY DEF AskEncoder, StopEncoder
<1>9. (\E e \in Encoders : EncoderStep(e)) => closing' = closing
  BY DEF EncoderStep, Begin, ReadRequests, Sleep, LeaveDrain, AddTrack, StartMuxer, MuxerIsStarted,
     Release, StopMuxer
<1>10. Environment => closing' = closing
  BY DEF Environment, CollectView, Collect, FrameAvailableSoon, SpuriousWake
<1> QED  BY <1>3, <1>4, <1>5, <1>6, <1>7, <1>8, <1>9, <1>10 DEF CameraThread

LEMMA ListenersTake ==
  ASSUME TypeOK, HandlerTyping, Taken, NEW r \in Recordings, Listener(r)
  PROVE  Taken'
<1>1. /\ \A q \in Recordings : q # r => closing'[q] = closing[q]
      /\ streaming' \subseteq streaming \cup {r}
  BY DEF TypeOK, Listener, ListenerEnds, ListenerTakes, ListenerDestroys, ListenerReleases,
     StopRecording, GoOn
<1>2. closing[r] = "destroy" \/ r \notin streaming
  BY DEF Taken
<1>3. CASE ListenerEnds(r) \/ ListenerReleases(r)
  <2>1. closing[r] # "destroy" /\ streaming' = streaming
    BY <1>3, ListenersAreOthers DEF ListenerEnds, ListenerReleases, StopRecording, GoOn
  <2> QED  BY <1>1, <1>2, <2>1 DEF Taken
<1>4. CASE ListenerTakes(r)
  <2>1. PICK next : GoOn(r, {"stop", "take"}, next) /\ (camera => next = "destroy")
    BY <1>4 DEF ListenerTakes
  <2>2. closing[r] # "destroy" /\ closing'[r] = next
    BY <2>1 DEF GoOn, TypeOK
  <2>3. camera \/ streaming' = streaming
    BY <1>4 DEF ListenerTakes
  <2> QED  BY <1>1, <1>2, <2>1, <2>2, <2>3 DEF Taken
<1>5. CASE ListenerDestroys(r)
  BY <1>1, <1>5 DEF ListenerDestroys, Taken
<1> QED  BY <1>3, <1>4, <1>5 DEF Listener

LEMMA EncoderStoppedTakesNone ==
  ASSUME RecordingInv, Taken, NEW e \in Encoders, EncoderStopped(e)
  PROVE  Taken'
<1>1. streaming' = streaming
  BY DEF EncoderStopped
<1>2. ASSUME NEW r \in Recordings, closing[r] = "destroy" PROVE closing'[r] = "destroy"
  <2>1. closing' = closing \/ closing' = [closing EXCEPT ![e[1]] = "begin"]
    BY DEF EncoderStopped, OnStopped
  <2>2. CASE r # e[1]
    BY <1>2, <2>1, <2>2 DEF RecordingInv, TypeOK
  <2>3. CASE r = e[1]
    <3>1. pc[Vid(r)] = "release" /\ pc[e] = "stopped"
      BY <1>2 DEF RecordingInv, Position, EncoderStopped, OnStopped, At
    <3>2. e[2] # Video
      BY <2>3, <3>1, EncoderFacts
    <3> QED  BY <1>2, <2>3, <3>2, EncoderFacts DEF EncoderStopped, OnStopped
  <2> QED  BY <2>2, <2>3
<1> QED  BY <1>1, <1>2 DEF Taken

LEMMA TakenNext ==
  RecordingInv /\ HandlerInv /\ Taken /\ [HandlerNext]_<<vars, handlerVars>> => Taken'
<1> SUFFICES ASSUME RecordingInv, HandlerInv, Taken, [HandlerNext]_<<vars, handlerVars>> PROVE Taken'
  OBVIOUS
<1>1. CASE \E r \in Recordings : Listener(r)
  BY <1>1, ListenersTake DEF HandlerInv, RecordingInv
<1>2. CASE \E e \in Encoders : EncoderStopped(e)
  BY <1>2, EncoderStoppedTakesNone
<1>3. CASE \/ CameraThread \/ AskEncoder \/ UpdateIsDue \/ Application
           \/ \E e \in Encoders : EncoderStep(e) /\ UNCHANGED handlerVars
           \/ Environment /\ UNCHANGED handlerVars
           \/ UNCHANGED <<vars, handlerVars>>
  BY <1>3, OthersTakeNone, TakenStays
<1> QED  BY <1>1, <1>2, <1>3 DEF HandlerNext, EncoderThread

\* When stopPreview() comes back from its wait, no camera draws but one that a listener
\* has taken from the camera thread and is about to stop: not because the flag says so,
\* but because no message to start it can have come in between.
THEOREM SurfaceMayBeReleased == HandlerSpec => []SurfaceMayGo
<1>1. HandlerInit => Taken
  BY DEF HandlerInit, Taken
<1>2. HandlerInv /\ Taken => SurfaceMayGo
  BY ListenersAreOthers DEF HandlerInv, HandlerTyping, Stopping, Taken, SurfaceMayGo, Stoppers
<1>3. HandlerSpec => []Taken
  BY <1>1, TakenNext, HandlerKeepsRecordings, CallsAreInvariant, PTL DEF HandlerSpec
<1> QED  BY <1>2, <1>3, CallsAreInvariant, PTL
===============================================================================
