----------------------------- MODULE WorkProofs -----------------------------
(***************************************************************************)
(* What work that outlives its request guarantees: video uploads and       *)
(* transcoding with either storage driver, for any number of uploads,      *)
(* parts and workers; offline copies and bulk enrolment, for any number of *)
(* rows, calls in flight, crashes and failures of storage.                 *)
(***************************************************************************)
EXTENDS Work, FiniteSetTheorems, SequenceTheorems, TLAPS

(* What of the assumption is used: only the model of the order in which    *)
(* parts are read needs them to be numbers.                                *)
LEMMA VideoFacts ==
  IsFiniteSet(Parts) /\ Parts # {} /\ None \notin Assets /\ MaxFaults \in Nat
  BY VideoAssumption

USE VideoFacts

-----------------------------------------------------------------------------
(* Types *)

LEMMA StepNames ==
  Step = {"idle", "announce", "open", "write", "read", "record", "gather", "create", "fill",
          "clear", "assemble", "queue", "lesson", "look", "insert"}
  BY DEF Step

LEMMA IdleType == Idle \in Call
  BY DEF Idle, Call, Step

LEMMA TypeInit == Init => TypeOK
<1> SUFFICES ASSUME Init PROVE TypeOK
  OBVIOUS
<1>1. call \in [Handlers -> Call]
  BY IdleType DEF Init
<1>2. worker \in [Workers -> Tick]
  BY DEF Init, Rest, Tick
<1>3. /\ lesson \in Lesson /\ jobs \in Seq(Job) /\ faults \in 0..MaxFaults
      /\ status \in [Assets -> AssetStatus]
  BY DEF Init, Lesson, VideoStatus, AssetStatus
<1> QED BY <1>1, <1>2, <1>3 DEF Init, TypeOK

(* The call record keeps its type whichever way a call moves. *)
LEMMA CallMoves ==
  ASSUME call \in [Handlers -> Call], NEW h \in Handlers
  PROVE  /\ call[h] \in Call
         /\ \A s \in Step : Goto(h, s) => call' \in [Handlers -> Call]
         /\ Return(h) => call' \in [Handlers -> Call]
         /\ \A c \in Call : Begin(h, c) => call' \in [Handlers -> Call]
<1>1. ASSUME NEW s \in Step, Goto(h, s) PROVE call' \in [Handlers -> Call]
  <2>1. [call[h] EXCEPT !.pc = s] \in Call
    BY DEF Call
  <2> QED BY <1>1, <2>1 DEF Goto
<1>2. Return(h) => call' \in [Handlers -> Call]
  BY IdleType DEF Return
<1> QED BY <1>1, <1>2 DEF Begin

(* A job keeps its upload whatever becomes of it. *)
LEMMA JobMoves ==
  ASSUME jobs \in Seq(Job), NEW w \in Workers, Current(w) \in DOMAIN jobs
  PROVE  /\ Subject(w) \in Assets
         /\ \A s \in JobState : SetJob(w, s) =>
              /\ jobs' \in Seq(Job)
              /\ DOMAIN jobs' = DOMAIN jobs
              /\ \A j \in DOMAIN jobs : jobs'[j].asset = jobs[j].asset
<1>0. jobs[Current(w)] \in Job
  OBVIOUS
<1>1. jobs[Current(w)] \in Job /\ Subject(w) \in Assets
  BY <1>0 DEF Subject, Job
<1>2. ASSUME NEW s \in JobState, SetJob(w, s)
      PROVE  /\ jobs' \in Seq(Job)
             /\ DOMAIN jobs' = DOMAIN jobs
             /\ \A j \in DOMAIN jobs : jobs'[j].asset = jobs[j].asset
  <2>1. [jobs[Current(w)] EXCEPT !.state = s] \in Job
    BY <1>1 DEF Job
  <2>2. jobs' = [jobs EXCEPT ![Current(w)] = [jobs[Current(w)] EXCEPT !.state = s]]
    BY <1>2 DEF SetJob
  <2>3. [jobs[Current(w)] EXCEPT !.state = s].asset = jobs[Current(w)].asset
    BY <1>1 DEF Job
  <2> QED BY <2>1, <2>2, <2>3
<1> QED BY <1>1, <1>2

(* A new job comes last. *)
LEMMA JobAdded ==
  ASSUME jobs \in Seq(Job), NEW j \in Job, jobs' = Append(jobs, j)
  PROVE  /\ jobs' \in Seq(Job)
         /\ DOMAIN jobs \subseteq DOMAIN jobs'
         /\ \A k \in DOMAIN jobs : jobs'[k] = jobs[k]
         /\ \A k \in DOMAIN jobs' : k \in DOMAIN jobs \/ jobs'[k] = j
  OBVIOUS

(* The tick of a worker keeps its type whichever way it moves. *)
LEMMA TickMoves ==
  ASSUME worker \in [Workers -> Tick], NEW w \in Workers
  PROVE  /\ worker[w] \in Tick
         /\ \A s \in {"idle", "mark", "transcode", "last", "finish", "show", "fail", "tell"} :
              Proceed(w, s) => worker' \in [Workers -> Tick]
         /\ EndTick(w) => worker' \in [Workers -> Tick]
<1>1. Rest \in Tick
  BY DEF Rest, Tick
<1>2. ASSUME NEW s \in {"idle", "mark", "transcode", "last", "finish", "show", "fail", "tell"},
             Proceed(w, s)
      PROVE  worker' \in [Workers -> Tick]
  <2>1. [worker[w] EXCEPT !.pc = s] \in Tick
    BY DEF Tick
  <2> QED BY <1>2, <2>1 DEF Proceed
<1> QED BY <1>1, <1>2 DEF EndTick

LEMMA TypeStep == IInv /\ [Next]_vars => TypeOK'
<1> SUFFICES ASSUME IInv, [Next]_vars PROVE TypeOK'
  OBVIOUS
<1>0. /\ TypeOK
      /\ \A h \in Handlers : call[h].pc # "idle" => call[h].asset \in Assets
      /\ \A w \in Workers : worker[w].pc # "idle" => worker[w].job \in DOMAIN jobs
  BY DEF IInv, CallOK, TickOK
<1> USE DEF TypeOK, files, storage, rows
<1>1. CASE VideoRequest
  <2>0. ASSUME NEW h \in Handlers, NEW c \in Call, Begin(h, c)
        PROVE  call' \in [Handlers -> Call] /\ overlapped' \in SUBSET {"calls", "ticks"}
    BY <1>0, <2>0, CallMoves DEF Begin
  <2>1. ASSUME NEW h \in Handlers, NEW a \in Assets, CreateUploadSession(h, a) PROVE TypeOK'
    <3>1. [Idle EXCEPT !.pc = "announce", !.asset = a] \in Call
      BY IdleType, StepNames DEF Call
    <3> QED BY <1>0, <2>0, <2>1, <3>1 DEF CreateUploadSession, SetStatus, AssetStatus
  <2>2. ASSUME NEW h \in Handlers, NEW a \in Assets, CompleteUpload(h, a) PROVE TypeOK'
    <3>1. Completing(a) \in Call
      BY <1>0, IdleType, StepNames DEF Call, Completing
    <3> QED BY <1>0, <2>0, <2>2, <3>1 DEF CompleteUpload
  <2>3. ASSUME NEW h \in Handlers, NEW a \in Assets, NEW p \in Parts,
               ReceivePart(h, a, p) \/ ReportPartComplete(h, a, p)
        PROVE  TypeOK'
    <3>1. /\ [Idle EXCEPT !.pc = "open", !.asset = a, !.part = {p}] \in Call
          /\ [Idle EXCEPT !.pc = "read", !.asset = a, !.part = {p}] \in Call
      BY IdleType, StepNames DEF Call
    <3> QED BY <1>0, <2>0, <2>3, <3>1 DEF ReceivePart, ReportPartComplete
  <2> QED BY <1>1, <2>1, <2>2, <2>3 DEF VideoRequest
<1>2. ASSUME NEW a \in Assets, NEW p \in Parts, PutToPresignedUrl(a, p) PROVE TypeOK'
  BY <1>0, <1>2 DEF PutToPresignedUrl
<1>3. ASSUME NEW h \in Handlers, CallStep(h) \/ Crash(h) PROVE TypeOK'
  <2>0. /\ call[h] \in Call
        /\ \A s \in Step : Goto(h, s) => call' \in [Handlers -> Call]
        /\ Return(h) => call' \in [Handlers -> Call]
        /\ call[h].pc # "idle" => call[h].asset \in Assets
        /\ call[h].seen \in SUBSET Parts /\ call[h].part \in SUBSET Parts
    <3>1. call[h] \in Call
      BY <1>0
    <3>2. call[h].seen \in SUBSET Parts /\ call[h].part \in SUBSET Parts
      BY <3>1 DEF Call
    <3> QED BY <1>0, <3>1, <3>2, CallMoves
  <2>1. CASE AnnounceUpload(h) \/ MarkLessonQueued(h)
    <3>1. /\ [lesson EXCEPT !.video = "uploading"] \in Lesson
          /\ [lesson EXCEPT !.video = "queued"] \in Lesson
      BY <1>0 DEF Lesson, VideoStatus
    <3> QED BY <1>0, <2>0, <2>1, <3>1, StepNames
          DEF AnnounceUpload, MarkLessonQueued, SetVideoStatus
  <2>2. CASE OpenPart(h) \/ WritePart(h)
    <3>1. call' \in [Handlers -> Call]
      BY <2>0, <2>2, StepNames DEF OpenPart, WritePart
    <3>2. call[h].asset \in Assets
      BY <2>0, <2>2 DEF OpenPart, WritePart, At
    <3>3. /\ stored' \in [Assets -> SUBSET Parts] /\ opened' \in [Assets -> SUBSET Parts]
      <4>1. CASE OpenPart(h)
        BY <1>0, <2>0, <3>2, <4>1 DEF OpenPart
      <4>2. CASE WritePart(h)
        BY <1>0, <2>0, <3>2, <4>2 DEF WritePart
      <4> QED BY <2>2, <4>1, <4>2
    <3>4. rewritten' \in SUBSET Assets
      BY <1>0, <2>2, <3>2 DEF OpenPart, WritePart, NoteRewrite
    <3> QED BY <1>0, <2>2, <3>1, <3>3, <3>4 DEF OpenPart, WritePart
  <2>3. CASE ReadParts(h)
    <3>1. parts[call[h].asset] \in SUBSET Parts
      BY <1>0, <2>0, <2>3 DEF ReadParts, At
    <3>2. [call[h] EXCEPT !.pc = "record", !.seen = parts[call[h].asset]] \in Call
      BY <2>0, <3>1, StepNames DEF Call
    <3>3. call' = [call EXCEPT ![h] =
                     [call[h] EXCEPT !.pc = "record", !.seen = parts[call[h].asset]]]
      BY <1>0, <2>3 DEF ReadParts
    <3> QED BY <1>0, <2>3, <3>2, <3>3 DEF ReadParts
  <2>4. CASE RecordPart(h)
    BY <1>0, <2>0, <2>4 DEF RecordPart, At
  <2>5. CASE ClearScratch(h) \/ AssembleInBucket(h)
    BY <1>0, <2>0, <2>5, StepNames DEF ClearScratch, AssembleInBucket, At
  <2>6. CASE AssembleThrows(h) \/ LookForJob(h)
    BY <1>0, <2>0, <2>6, StepNames DEF AssembleThrows, LookForJob
  <2>7. CASE MarkQueued(h)
    BY <1>0, <2>0, <2>7, StepNames DEF MarkQueued, SetStatus, AssetStatus, At
  <2>8. CASE InsertJob(h)
    <3>1. [asset |-> call[h].asset, state |-> "queued"] \in Job
      BY <2>0, <2>8 DEF InsertJob, At, Job, JobState
    <3>2. jobs' \in Seq(Job)
      BY <1>0, <2>8, <3>1, JobAdded DEF InsertJob
    <3> QED BY <1>0, <2>0, <2>8, <3>2 DEF InsertJob
  <2>9. CASE Crash(h)
    BY <1>0, <2>0, <2>9 DEF Crash
  <2>10. ASSUME NEW s \in Step, NEW S \in SUBSET Parts, NEW Q \in SUBSET Parts,
                call' = [call EXCEPT ![h] = [call[h] EXCEPT !.pc = s, !.seen = S, !.part = Q]]
         PROVE  call' \in [Handlers -> Call]
    <3>1. [call[h] EXCEPT !.pc = s, !.seen = S, !.part = Q] \in Call
      BY <2>0 DEF Call
    <3> QED BY <1>0, <2>10, <3>1
  <2>11. CASE GatherPart(h)
    <3>1. PICK s \in {"create", "gather"}, p \in call[h].seen :
            call' = [call EXCEPT ![h] =
                       [call[h] EXCEPT !.pc = s, !.seen = call[h].seen \ {p},
                          !.part = call[h].part \union ({p} \intersect stored[call[h].asset])]]
      BY <1>0, <2>11 DEF GatherPart
    <3>2. /\ s \in Step /\ call[h].seen \ {p} \in SUBSET Parts
          /\ call[h].part \union ({p} \intersect stored[call[h].asset]) \in SUBSET Parts
      BY <2>0, StepNames
    <3>3. call' \in [Handlers -> Call]
      BY <2>10, <3>1, <3>2
    <3> QED BY <1>0, <2>11, <3>3 DEF GatherPart
  <2>12. CASE OpenSource(h)
    <3>1. PICK s \in {"clear", "fill"} :
            call' = [call EXCEPT ![h] =
                       [call[h] EXCEPT !.pc = s, !.seen = call[h].part, !.part = {}]]
      BY <1>0, <2>12 DEF OpenSource
    <3>2. s \in Step /\ call[h].asset \in Assets
      BY <2>0, <2>12, StepNames DEF OpenSource, At
    <3>3. call' \in [Handlers -> Call]
      BY <2>0, <2>10, <3>1, <3>2
    <3>4. source' \in [Assets -> SUBSET Parts] /\ rewritten' \in SUBSET Assets
      BY <1>0, <2>12, <3>2 DEF OpenSource, NoteRewrite
    <3> QED BY <1>0, <2>12, <3>3, <3>4 DEF OpenSource
  <2>13. CASE FillSource(h)
    <3>1. PICK s \in {"clear", "fill"}, p \in call[h].seen :
            /\ call' = [call EXCEPT ![h] =
                          [call[h] EXCEPT !.pc = s, !.seen = call[h].seen \ {p}]]
            /\ source' = [source EXCEPT ![call[h].asset] = @ \union {p}]
      BY <1>0, <2>13 DEF FillSource
    <3>2. s \in Step /\ call[h].asset \in Assets
      BY <2>0, <2>13, StepNames DEF FillSource, At
    <3>3. [call[h] EXCEPT !.pc = s, !.seen = call[h].seen \ {p}] \in Call
      BY <2>0, <3>2 DEF Call
    <3>4. call' \in [Handlers -> Call]
      BY <1>0, <3>1, <3>3
    <3>5. source' \in [Assets -> SUBSET Parts]
      BY <1>0, <2>0, <3>1, <3>2
    <3> QED BY <1>0, <2>13, <3>4, <3>5 DEF FillSource
  <2> QED BY <1>3, <2>1, <2>2, <2>3, <2>4, <2>5, <2>6, <2>7, <2>8, <2>9, <2>11, <2>12, <2>13
        DEF CallStep
<1>4. ASSUME NEW w \in Workers, WorkerStep(w) \/ UploadFails(w) \/ WorkerCrash(w) PROVE TypeOK'
  <2>0. /\ \A s \in {"idle", "mark", "transcode", "last", "finish", "show", "fail", "tell"} :
             Proceed(w, s) => worker' \in [Workers -> Tick]
        /\ EndTick(w) => worker' \in [Workers -> Tick]
    BY <1>0, TickMoves
  <2>1. worker[w].pc # "idle" =>
          Subject(w) \in Assets /\ \A s \in JobState : SetJob(w, s) => jobs' \in Seq(Job)
    BY <1>0, JobMoves DEF Current
  <2>2. CASE PickJob(w)
    <3>1. PICK j \in Queued : worker' = [worker EXCEPT ![w] = [pc |-> "mark", job |-> j]]
      BY <2>2 DEF PickJob
    <3>2. [pc |-> "mark", job |-> j] \in Tick
      BY <1>0 DEF Queued, Tick
    <3> QED BY <1>0, <2>2, <3>1, <3>2 DEF PickJob
  <2>3. CASE MarkProcessing(w)
    BY <1>0, <2>0, <2>1, <2>3 DEF MarkProcessing, Now, JobState
  <2>4. CASE Transcode(w) \/ UploadRest(w)
    BY <1>0, <2>0, <2>1, <2>4 DEF Transcode, UploadRest, Now, Files
  <2>5. CASE TranscodeFails(w) \/ UploadFails(w) \/ WorkerCrash(w)
    <3>1. worker' \in [Workers -> Tick]
      BY <2>0, <2>5 DEF TranscodeFails, UploadFails, WorkerCrash
    <3>2. faults' \in 0..MaxFaults
      BY <1>0, <2>5 DEF TranscodeFails, UploadFails, WorkerCrash
    <3> QED BY <1>0, <2>5, <3>1, <3>2 DEF TranscodeFails, UploadFails, WorkerCrash
  <2>6. CASE FinishJob(w) \/ MarkJobFailed(w)
    BY <1>0, <2>0, <2>1, <2>6 DEF FinishJob, MarkJobFailed, Now, SetStatus, JobState, AssetStatus
  <2>7. CASE ShowInLesson(w) \/ MarkLessonFailed(w)
    <3>1. /\ [video |-> "ready", hls |-> TRUE] \in Lesson
          /\ [lesson EXCEPT !.video = "failed"] \in Lesson
      BY <1>0 DEF Lesson, VideoStatus
    <3> QED BY <1>0, <2>0, <2>7, <3>1 DEF ShowInLesson, MarkLessonFailed, SetVideoStatus
  <2> QED BY <1>4, <2>2, <2>3, <2>4, <2>5, <2>6, <2>7 DEF WorkerStep
<1>5. CASE UNCHANGED vars
  BY <1>0, <1>5 DEF vars
<1> QED BY <1>1, <1>2, <1>3, <1>4, <1>5 DEF Next
-----------------------------------------------------------------------------
(* Sources *)

(* Whoever has as many of the parts as there are has all.                  *)
LEMMA AllParts ==
  ASSUME NEW S \in SUBSET Parts, Cardinality(S) >= Cardinality(Parts)
  PROVE  S = Parts
<1>1. Cardinality(S) \in Nat /\ Cardinality(Parts) \in Nat
  BY FS_Subset, FS_CardinalityType
<1> QED BY <1>1, FS_Subset

(* The steps that write a source, or write over a file.                    *)
Writes(h) == OpenPart(h) \/ OpenSource(h) \/ FillSource(h) \/ AssembleInBucket(h)

LEMMA OthersWriteNone ==
  ASSUME Next, ~ \E h \in Handlers : Writes(h)
  PROVE  UNCHANGED <<source, rewritten>>
  BY DEF Writes, Next, VideoRequest, CallStep, WorkerStep, CreateUploadSession, CompleteUpload,
      ReceivePart, ReportPartComplete, PutToPresignedUrl, AnnounceUpload, WritePart, ReadParts,
      RecordPart, GatherPart, ClearScratch, AssembleThrows, MarkQueued, MarkLessonQueued,
      LookForJob, InsertJob, Crash, PickJob, MarkProcessing, Transcode, TranscodeFails,
      UploadRest, FinishJob, ShowInLesson, MarkJobFailed, MarkLessonFailed, UploadFails,
      WorkerCrash, files, storage

(* Such a step is about the call's own upload: a whole source stays whole, *)
(* or the upload is noted.                                                 *)
LEMMA WritesKeep ==
  ASSUME IInv, NEW h \in Handlers, Writes(h)
  PROVE  /\ call[h].asset \in Assets
         /\ \A b \in Assets : b = call[h].asset \/ (Sound(b)' <=> Sound(b))
         /\ \A b \in Assets : Sound(b) => Sound(b)'
         /\ BucketSources'
         /\ UNCHANGED <<rendition, lesson, jobs, status, driver>>
<1>0. /\ call[h] \in Call /\ CallOK(h) /\ source \in [Assets -> SUBSET Parts]
      /\ rewritten \in SUBSET Assets /\ BucketSources
  BY DEF IInv, TypeOK
<1>1. /\ call[h].pc \in {"open", "create", "fill", "assemble"} /\ call[h].asset \in Assets
      /\ UNCHANGED <<rendition, lesson, jobs, status, driver>>
  BY <1>0 DEF Writes, OpenPart, OpenSource, FillSource, AssembleInBucket, At, CallOK, files, rows
<1> DEFINE a == call[h].asset
           Fine ==
             /\ \A b \in Assets \ {a} :
                  source'[b] = source[b] /\ (b \in rewritten' <=> b \in rewritten)
             /\ a \in rewritten => a \in rewritten'
             /\ source[a] = Parts => source'[a] = Parts \/ a \in rewritten'
             /\ driver = "local" \/ (rewritten' = rewritten /\ source'[a] = Parts)
<1>2. ASSUME OpenPart(h) PROVE Fine
  <2>1. source' = source /\ driver = "local"
    BY <1>0, <1>2 DEF OpenPart, At, CallOK
  <2>2. rewritten' = rewritten \/ rewritten' = rewritten \union {a}
    BY <1>2 DEF OpenPart, NoteRewrite
  <2> QED BY <2>1, <2>2
<1>3. ASSUME OpenSource(h) PROVE Fine
  <2>1. source' = [source EXCEPT ![a] = {}] /\ driver = "local"
    BY <1>0, <1>3 DEF OpenSource, At, CallOK
  <2>2. rewritten' = rewritten \/ rewritten' = rewritten \union {a}
    BY <1>3 DEF OpenSource, NoteRewrite
  <2>3. source[a] = Parts => a \in rewritten'
    BY <1>3 DEF OpenSource, NoteRewrite
  <2> QED BY <1>0, <1>1, <2>1, <2>2, <2>3
<1>4. ASSUME FillSource(h) PROVE Fine
  <2>1. PICK p \in Parts : source' = [source EXCEPT ![a] = @ \union {p}]
    BY <1>0, <1>4 DEF FillSource, Call
  <2>2. driver = "local" /\ rewritten' = rewritten
    BY <1>0, <1>4 DEF FillSource, At, CallOK, files
  <2>3. source'[a] = source[a] \union {p} /\ \A b \in Assets \ {a} : source'[b] = source[b]
    BY <1>0, <1>1, <2>1
  <2> QED BY <2>2, <2>3
<1>5. ASSUME AssembleInBucket(h) PROVE Fine
  <2>1. source' = [source EXCEPT ![a] = Parts] /\ rewritten' = rewritten
    BY <1>0, <1>5 DEF AssembleInBucket, At, CallOK
  <2> QED BY <1>0, <1>1, <2>1
<1>6. Fine
  BY <1>2, <1>3, <1>4, <1>5 DEF Writes
<1>7. /\ \A b \in Assets : b = a \/ (Sound(b)' <=> Sound(b))
      /\ \A b \in Assets : Sound(b) => Sound(b)'
  <2> SUFFICES ASSUME NEW b \in Assets
               PROVE  (b = a \/ (Sound(b)' <=> Sound(b))) /\ (Sound(b) => Sound(b)')
    OBVIOUS
  <2>1. Sound(b)' <=> (source'[b] = Parts \/ b \in rewritten')
    BY DEF Sound
  <2>2. Sound(b) <=> (source[b] = Parts \/ b \in rewritten)
    BY DEF Sound
  <2> QED BY <1>6, <2>1, <2>2
<1>8. BucketSources'
  <2> SUFFICES ASSUME driver = "b2"
               PROVE  rewritten' = {} /\ \A b \in Assets : source'[b] \in {{}, Parts}
    BY <1>1 DEF BucketSources
  <2>1. rewritten = {} /\ \A b \in Assets : source[b] \in {{}, Parts}
    BY <1>0 DEF BucketSources
  <2> QED BY <1>6, <2>1
<1> HIDE DEF Fine
<1> QED BY <1>1, <1>7, <1>8

(* A sound source stays sound.                                             *)
LEMMA SourcesStep ==
  ASSUME IInv, Next
  PROVE  /\ BucketSources' /\ driver' = driver
         /\ \A a \in Assets : Sound(a) => Sound(a)'
<1>0. driver' = driver
  BY DEF Next, VideoRequest, CallStep, WorkerStep, CreateUploadSession, CompleteUpload,
    ReceivePart, ReportPartComplete, PutToPresignedUrl, AnnounceUpload, WritePart, ReadParts,
    RecordPart, GatherPart, ClearScratch, AssembleThrows, MarkQueued, MarkLessonQueued,
    LookForJob, InsertJob, Crash, PickJob, MarkProcessing, Transcode, TranscodeFails,
    UploadRest, FinishJob, ShowInLesson, MarkJobFailed, MarkLessonFailed, UploadFails,
    WorkerCrash, files, storage,
    OpenPart, OpenSource, FillSource, AssembleInBucket
<1>1. CASE \E h \in Handlers : Writes(h)
  <2>1. PICK h \in Handlers : Writes(h)
    BY <1>1
  <2>2. BucketSources' /\ \A b \in Assets : Sound(b) => Sound(b)'
    BY <2>1, WritesKeep
  <2> QED BY <1>0, <2>2
<1>2. CASE ~ \E h \in Handlers : Writes(h)
  BY <1>0, <1>2, OthersWriteNone DEF IInv, BucketSources, Sound
<1> QED BY <1>1, <1>2

(* What is kept of an upload's parts stays kept: a part's file is taken    *)
(* away by ClearScratch only, and a whole one opened anew is noted.        *)
LEMMA KeptStays ==
  ASSUME IInv, Next, NEW a \in Assets, NEW S \in SUBSET Parts, Kept(a, S)
  PROVE  Kept(a, S)'
<1>0. driver' = driver /\ (Sound(a) => Sound(a)') /\ stored \in [Assets -> SUBSET Parts]
  BY SourcesStep DEF IInv, TypeOK
<1>1. CASE stored[a] \subseteq stored'[a]
  BY <1>0, <1>1 DEF Kept
<1>2. ASSUME NEW h \in Handlers, OpenPart(h) PROVE Kept(a, S)'
  <2>1. /\ stored' = [stored EXCEPT ![call[h].asset] = @ \ call[h].part]
        /\ (\E p \in call[h].part : p \in stored[call[h].asset]) =>
             call[h].asset \in rewritten'
    BY <1>2 DEF OpenPart, NoteRewrite
  <2>2. CASE a # call[h].asset
    BY <1>0, <1>1, <2>1, <2>2
  <2>3. CASE a = call[h].asset /\ \E p \in call[h].part : p \in stored[a]
    BY <2>1, <2>3 DEF Kept, Sound
  <2>4. CASE a = call[h].asset /\ ~ \E p \in call[h].part : p \in stored[a]
    BY <1>0, <1>1, <2>1, <2>4
  <2> QED BY <2>2, <2>3, <2>4
<1>3. ASSUME NEW h \in Handlers, ClearScratch(h) PROVE Kept(a, S)'
  <2>1. /\ stored' = [stored EXCEPT ![call[h].asset] = {}] /\ Sound(call[h].asset)
    BY <1>3 DEF ClearScratch, At, IInv, CallOK
  <2> QED BY <1>0, <1>1, <2>1 DEF Kept
<1>4. ASSUME NEW h \in Handlers, AssembleInBucket(h) PROVE Kept(a, S)'
  BY <1>0, <1>4 DEF AssembleInBucket, At, IInv, CallOK, Kept
<1>5. CASE ~ \E h \in Handlers : OpenPart(h) \/ ClearScratch(h) \/ AssembleInBucket(h)
  <2>1. \/ stored' = stored
        \/ \E b \in Assets, p \in Parts : stored' = [stored EXCEPT ![b] = @ \union {p}]
        \/ \E h \in Handlers :
             stored' = [stored EXCEPT ![call[h].asset] = @ \union call[h].part]
    BY <1>5 DEF Next, VideoRequest, CallStep, WorkerStep, CreateUploadSession, CompleteUpload,
      ReceivePart, ReportPartComplete, PutToPresignedUrl, AnnounceUpload, WritePart, ReadParts,
      RecordPart, GatherPart, OpenSource, FillSource, AssembleThrows, MarkQueued,
      MarkLessonQueued, LookForJob, InsertJob, Crash, PickJob, MarkProcessing, Transcode,
      TranscodeFails, UploadRest, FinishJob, ShowInLesson, MarkJobFailed, MarkLessonFailed,
      UploadFails, WorkerCrash, files, storage
  <2>2. stored[a] \subseteq stored'[a]
    BY <1>0, <2>1
  <2> QED BY <1>1, <2>2
<1> QED BY <1>2, <1>3, <1>4, <1>5

(* A job stays with its upload, and a new job is of an upload with a       *)
(* source.                                                                 *)
LEMMA JobsStep ==
  ASSUME IInv, Next
  PROVE  /\ \A j \in DOMAIN jobs : j \in DOMAIN jobs' /\ jobs'[j].asset = jobs[j].asset
         /\ \A j \in DOMAIN jobs' \ DOMAIN jobs : Sound(jobs'[j].asset)
<1>1. CASE \E h \in Handlers : InsertJob(h)
  <2>1. PICK h \in Handlers : InsertJob(h)
    BY <1>1
  <2>2. Sound(call[h].asset) /\ call[h].asset \in Assets
    BY <2>1 DEF IInv, CallOK, InsertJob, At
  <2>3. [asset |-> call[h].asset, state |-> "queued"] \in Job
    BY <2>2 DEF Job, JobState
  <2>4. jobs \in Seq(Job)
    BY DEF IInv, TypeOK
  <2> QED BY <2>1, <2>2, <2>3, <2>4, JobAdded DEF InsertJob
<1>2. CASE \E w \in Workers : MarkProcessing(w) \/ FinishJob(w) \/ MarkJobFailed(w)
  <2>1. PICK w \in Workers : MarkProcessing(w) \/ FinishJob(w) \/ MarkJobFailed(w)
    BY <1>2
  <2>2. Current(w) \in DOMAIN jobs /\ jobs \in Seq(Job)
    BY <2>1 DEF IInv, TypeOK, TickOK, Current, MarkProcessing, FinishJob, MarkJobFailed, Now
  <2>3. \E s \in JobState : SetJob(w, s)
    BY <2>1 DEF MarkProcessing, FinishJob, MarkJobFailed, JobState
  <2> QED BY <2>2, <2>3, JobMoves
<1>3. CASE /\ ~ \E h \in Handlers : InsertJob(h)
           /\ ~ \E w \in Workers : MarkProcessing(w) \/ FinishJob(w) \/ MarkJobFailed(w)
  <2>1. jobs' = jobs
    BY <1>3 DEF Next, VideoRequest, CallStep, WorkerStep, CreateUploadSession, CompleteUpload,
      ReceivePart, ReportPartComplete, PutToPresignedUrl, AnnounceUpload, WritePart, ReadParts,
      RecordPart, GatherPart, OpenSource, FillSource, ClearScratch, OpenPart, AssembleInBucket,
      AssembleThrows, MarkQueued, MarkLessonQueued, LookForJob, Crash, PickJob, Transcode,
      TranscodeFails, UploadRest, ShowInLesson, MarkLessonFailed, UploadFails, WorkerCrash, rows
  <2> QED BY <2>1
<1> QED BY <1>1, <1>2, <1>3

(* An upload a job, a call or a tick has settled has a source.             *)
LEMMA SettledStep ==
  ASSUME IInv, Next
  PROVE  \A a \in Assets : status'[a] \in {"queued", "ready", "failed"} => Sound(a)
<1>0. status \in [Assets -> AssetStatus] /\ SettledHaveSources
  BY DEF IInv, TypeOK
<1>1. CASE \E h \in Handlers, a \in Assets : CreateUploadSession(h, a)
  <2>1. \E a \in Assets : status' = [status EXCEPT ![a] = "uploading"]
    BY <1>1 DEF CreateUploadSession, SetStatus
  <2> QED BY <1>0, <2>1 DEF SettledHaveSources
<1>2. CASE \E h \in Handlers : MarkQueued(h)
  <2>1. PICK h \in Handlers : MarkQueued(h)
    BY <1>2
  <2>2. Sound(call[h].asset) /\ status' = [status EXCEPT ![call[h].asset] = "queued"]
    BY <2>1 DEF IInv, CallOK, MarkQueued, At, SetStatus
  <2> QED BY <1>0, <2>2 DEF SettledHaveSources
<1>3. CASE \E w \in Workers : FinishJob(w) \/ MarkJobFailed(w)
  <2>1. PICK w \in Workers : FinishJob(w) \/ MarkJobFailed(w)
    BY <1>3
  <2>2. Current(w) \in DOMAIN jobs
    BY <2>1 DEF IInv, TickOK, FinishJob, MarkJobFailed, Now, Current
  <2>3. Sound(Subject(w))
    BY <2>2 DEF IInv, JobsHaveSources, Subject
  <2>4. \E s \in AssetStatus : status' = [status EXCEPT ![Subject(w)] = s]
    BY <2>1 DEF FinishJob, MarkJobFailed, SetStatus, AssetStatus
  <2> QED BY <1>0, <2>3, <2>4 DEF SettledHaveSources
<1>4. CASE /\ ~ \E h \in Handlers, a \in Assets : CreateUploadSession(h, a)
           /\ ~ \E h \in Handlers : MarkQueued(h)
           /\ ~ \E w \in Workers : FinishJob(w) \/ MarkJobFailed(w)
  <2>1. status' = status
    BY <1>4 DEF Next, VideoRequest, CallStep, WorkerStep, CompleteUpload,
      ReceivePart, ReportPartComplete, PutToPresignedUrl, AnnounceUpload, WritePart, ReadParts,
      RecordPart, GatherPart, OpenSource, FillSource, ClearScratch, OpenPart, AssembleInBucket,
      AssembleThrows, MarkLessonQueued, LookForJob, InsertJob, Crash, PickJob, MarkProcessing,
      Transcode, TranscodeFails, UploadRest, ShowInLesson, MarkLessonFailed, UploadFails,
      WorkerCrash, rows
  <2> QED BY <1>0, <2>1 DEF SettledHaveSources
<1> QED BY <1>1, <1>2, <1>3, <1>4

(* Files under the prefix are made from uploads with a source, and none is *)
(* ever taken away.                                                        *)
LEMMA RenditionStep ==
  ASSUME IInv, Next
  PROVE  \A f \in Files : /\ rendition'[f] # None => Sound(rendition'[f])
                          /\ rendition[f] # None => rendition'[f] # None
<1>0. /\ rendition \in [Files -> Assets \union {None}]
      /\ \A f \in Files : rendition[f] # None => Sound(rendition[f])
  BY DEF IInv, TypeOK, PlaylistIsWhole
<1>1. CASE \E w \in Workers : Transcode(w) \/ UploadRest(w)
  <2>1. PICK w \in Workers : Transcode(w) \/ UploadRest(w)
    BY <1>1
  <2>2. Current(w) \in DOMAIN jobs /\ jobs \in Seq(Job)
    BY <2>1 DEF IInv, TypeOK, TickOK, Transcode, UploadRest, Now, Current
  <2>3. Sound(Subject(w)) /\ Subject(w) # None
    BY <2>2, JobMoves DEF IInv, JobsHaveSources, Subject
  <2>4. \E f \in Files : rendition' = [rendition EXCEPT ![f] = Subject(w)]
    BY <2>1 DEF Transcode, UploadRest, Files
  <2> QED BY <1>0, <2>3, <2>4
<1>2. CASE ~ \E w \in Workers : Transcode(w) \/ UploadRest(w)
  <2>1. rendition' = rendition
    BY <1>2 DEF Next, VideoRequest, CallStep, WorkerStep, CreateUploadSession, CompleteUpload,
      ReceivePart, ReportPartComplete, PutToPresignedUrl, AnnounceUpload, WritePart, ReadParts,
      RecordPart, GatherPart, OpenSource, FillSource, ClearScratch, OpenPart, AssembleInBucket,
      AssembleThrows, MarkQueued, MarkLessonQueued, LookForJob, InsertJob, Crash, PickJob,
      MarkProcessing, TranscodeFails, FinishJob, ShowInLesson, MarkJobFailed, MarkLessonFailed,
      UploadFails, WorkerCrash, files, storage
  <2> QED BY <1>0, <2>1
<1> QED BY <1>1, <1>2

(* A lesson offers a playlist from the step on that shows a finished       *)
(* rendering, never less.                                                  *)
LEMMA LessonStep ==
  ASSUME IInv, Next
  PROVE  /\ lesson'.hls => lesson.hls \/ \A f \in Files : rendition'[f] # None
         /\ lesson.hls => lesson'.hls
<1>0. lesson \in Lesson
  BY DEF IInv, TypeOK
<1>1. CASE \E w \in Workers : ShowInLesson(w)
  <2>1. PICK w \in Workers : ShowInLesson(w)
    BY <1>1
  <2>2. /\ rendition["first"] # None /\ rendition["last"] # None
        /\ rendition' = rendition
        /\ lesson' = [video |-> "ready", hls |-> TRUE]
    BY <2>1 DEF IInv, TickOK, ShowInLesson, Now, storage
  <2> QED BY <2>2 DEF Files
<1>2. CASE \E s \in VideoStatus : SetVideoStatus(s)
  BY <1>0, <1>2 DEF SetVideoStatus, Lesson
<1>3. CASE lesson' = lesson
  BY <1>3
<1>4. \/ \E w \in Workers : ShowInLesson(w)
      \/ \E s \in VideoStatus : SetVideoStatus(s)
      \/ lesson' = lesson
  BY DEF Next, VideoRequest, CallStep, WorkerStep, CreateUploadSession, CompleteUpload,
    ReceivePart, ReportPartComplete, PutToPresignedUrl, AnnounceUpload, WritePart, ReadParts,
    RecordPart, GatherPart, OpenSource, FillSource, ClearScratch, OpenPart, AssembleInBucket,
    AssembleThrows, MarkQueued, MarkLessonQueued, LookForJob, InsertJob, Crash, PickJob,
    MarkProcessing, Transcode, TranscodeFails, UploadRest, FinishJob, MarkJobFailed,
    MarkLessonFailed, UploadFails, WorkerCrash, rows, VideoStatus
<1> QED BY <1>1, <1>2, <1>3, <1>4

-----------------------------------------------------------------------------
(* Calls and ticks *)

(* A call moves alone, keeps its upload, and goes on or returns.           *)
LEMMA CallShape ==
  ASSUME IInv, NEW h \in Handlers, CallStep(h) \/ Crash(h)
  PROVE  /\ ~IsIdle(h)
         /\ \A g \in Handlers \ {h} : call'[g] = call[g]
         /\ \/ call'[h] = Idle
            \/ /\ call'[h].asset = call[h].asset
               /\ call'[h].pc \notin {"idle", "announce"}
               /\ call'[h].pc = "write" => OpenPart(h)
               /\ call'[h].pc = "record" => ReadParts(h)
<1>0. call \in [Handlers -> Call] /\ call[h] \in Call
  BY DEF IInv, TypeOK
<1> DEFINE Moved(S) ==
             /\ \A g \in Handlers \ {h} : call'[g] = call[g]
             /\ call'[h].asset = call[h].asset /\ call'[h].pc \in S
<1>1. OpenPart(h) => Moved({"write"})
  BY <1>0 DEF OpenPart, Goto, Call
<1>2. ReadParts(h) => Moved({"record"})
  BY <1>0 DEF ReadParts, Call
<1>3. ASSUME GatherPart(h) PROVE Moved({"create", "gather"})
  <2>1. PICK s \in {"create", "gather"}, p \in call[h].seen :
          call' = [call EXCEPT ![h] =
                     [call[h] EXCEPT !.pc = s, !.seen = call[h].seen \ {p},
                        !.part = call[h].part \union ({p} \intersect stored[call[h].asset])]]
    BY <1>0, <1>3 DEF GatherPart
  <2> QED BY <1>0, <2>1 DEF Call
<1>4. ASSUME OpenSource(h) PROVE Moved({"clear", "fill"})
  <2>1. PICK s \in {"clear", "fill"} :
          call' = [call EXCEPT ![h] = [call[h] EXCEPT !.pc = s, !.seen = call[h].part, !.part = {}]]
    BY <1>0, <1>4 DEF OpenSource
  <2> QED BY <1>0, <2>1 DEF Call
<1>5. FillSource(h) => Moved({"clear", "fill"})
  BY <1>0 DEF FillSource, Call
<1>6. ASSUME NEW s \in {"read", "queue", "lesson", "look", "insert"}, Goto(h, s) PROVE Moved({s})
  BY <1>0, <1>6 DEF Goto, Call
<1>7. Return(h) => call'[h] = Idle /\ \A g \in Handlers \ {h} : call'[g] = call[g]
  BY <1>0 DEF Return
<1>8. \/ OpenPart(h) \/ ReadParts(h) \/ GatherPart(h) \/ OpenSource(h) \/ FillSource(h)
      \/ Return(h)
      \/ \E s \in {"read", "queue", "lesson", "look", "insert"} : Goto(h, s)
  BY DEF CallStep, AnnounceUpload, WritePart, RecordPart, ClearScratch, AssembleInBucket,
    AssembleThrows, MarkQueued, MarkLessonQueued, LookForJob, InsertJob, Crash
<1>9. ~IsIdle(h)
  BY DEF CallStep, AnnounceUpload, OpenPart, WritePart, ReadParts, RecordPart, GatherPart,
    OpenSource, FillSource, ClearScratch, AssembleInBucket, AssembleThrows, MarkQueued,
    MarkLessonQueued, LookForJob, InsertJob, Crash, IsIdle, At
<1> QED BY <1>1, <1>2, <1>3, <1>4, <1>5, <1>6, <1>7, <1>8, <1>9

(* What another call relies on holds after a call's step.                  *)
LEMMA OthersKeep ==
  ASSUME IInv, Next, NEW k \in Handlers, call'[k] = call[k],
         \A h \in Handlers : OpenPart(h) \/ OpenSource(h) \/ FillSource(h) => h # k,
         \A h \in Handlers \ {k} :
           ~OpenPart(h) /\ At(h, "write")' => At(h, "write") /\ call'[h] = call[h]
  PROVE  CallOK(k)'
<1> PICK c \in Call : c = call[k] /\ c = call'[k]
  BY DEF IInv, TypeOK
<1>0. /\ CallOK(k) /\ driver' = driver
      /\ \A a \in Assets : Sound(a) => Sound(a)'
      /\ \A a \in Assets, S \in SUBSET Parts : Kept(a, S) => Kept(a, S)'
      /\ parts \in [Assets -> SUBSET Parts] /\ source \in [Assets -> SUBSET Parts]
      /\ call \in [Handlers -> Call]
  BY SourcesStep, KeptStays DEF IInv, TypeOK
<1>1. c.pc \in Step /\ c.seen \in SUBSET Parts /\ c.part \in SUBSET Parts
  BY <1>0 DEF Call
<1>2. ASSUME c.pc = "write"
      PROVE  Sound(c.asset)' \/ ~ \E p \in c.part : PartInUse(k, c.asset, p)'
  <2>0. c.asset \in Assets
    BY <1>0, <1>2 DEF CallOK
  <2>1. CASE Sound(c.asset)
    BY <1>0, <2>0, <2>1
  <2>2. ASSUME NEW h \in Handlers, OpenPart(h), call[h].asset = c.asset,
               NEW p \in c.part, p \in call[h].part
        PROVE  c.asset \in rewritten'
    <3>1. PartInUse(h, c.asset, p)
      BY <1>2, <2>2 DEF PartInUse, At
    <3> QED BY <2>2, <3>1 DEF OpenPart, NoteRewrite
  <2>3. ASSUME NEW p \in c.part, PartInUse(k, c.asset, p)', ~Sound(c.asset)
        PROVE  c.asset \in rewritten'
    <3>1. PICK h \in Handlers \ {k} :
            At(h, "write")' /\ call'[h].asset = c.asset /\ p \in call'[h].part
      BY <2>3 DEF PartInUse
    <3>2. CASE OpenPart(h)
      <4>1. call'[h].asset = call[h].asset /\ call'[h].part = call[h].part
        BY <1>0, <3>2 DEF OpenPart, Goto, Call
      <4> QED BY <2>2, <3>1, <3>2, <4>1
    <3>3. CASE ~OpenPart(h)
      <4>1. At(h, "write") /\ call'[h] = call[h]
        BY <3>1, <3>3
      <4>2. PartInUse(k, c.asset, p)
        BY <3>1, <4>1 DEF PartInUse
      <4> QED BY <1>0, <1>2, <2>3, <4>2 DEF CallOK
    <3> QED BY <3>2, <3>3
  <2>4. CASE c.asset \in rewritten'
    BY <2>4 DEF Sound
  <2> QED BY <2>1, <2>3, <2>4
<1>3. ASSUME c.pc = "gather", ~Sound(c.asset)'
      PROVE  c.seen \subseteq stored'[c.asset] /\ c.part \union c.seen = Parts
  <2>1. c.asset \in Assets /\ driver = "local"
    BY <1>0, <1>3 DEF CallOK
  <2>2. c.seen \subseteq stored[c.asset] /\ c.part \union c.seen = Parts
    BY <1>0, <1>3, <2>1 DEF CallOK
  <2>3. Kept(c.asset, c.seen)'
    BY <1>0, <1>1, <2>1, <2>2 DEF Kept
  <2> QED BY <1>0, <1>3, <2>1, <2>2, <2>3 DEF Kept
<1>4. ASSUME c.pc = "fill"
      PROVE  Sound(c.asset)' \/ source'[c.asset] \union c.seen = Parts
  <2>0. c.asset \in Assets /\ driver = "local"
    BY <1>0, <1>4 DEF CallOK
  <2>1. CASE Sound(c.asset)
    BY <1>0, <2>0, <2>1
  <2>2. CASE source'[c.asset] = source[c.asset]
    BY <1>0, <1>4, <2>1, <2>2 DEF CallOK
  <2>3. ASSUME NEW h \in Handlers, OpenSource(h)
        PROVE  Sound(c.asset)' \/ source'[c.asset] = source[c.asset]
    <3>1. CASE call[h].asset = c.asset
      <4>1. SourceInUse(h, c.asset)
        BY <1>4, <2>3 DEF SourceInUse, At
      <4>2. c.asset \in rewritten'
        BY <2>3, <3>1, <4>1 DEF OpenSource, NoteRewrite
      <4> QED BY <4>2 DEF Sound
    <3>2. CASE call[h].asset # c.asset
      BY <1>0, <2>0, <2>3, <3>2 DEF OpenSource
    <3> QED BY <3>1, <3>2
  <2>4. ASSUME NEW h \in Handlers, FillSource(h), ~Sound(c.asset)
        PROVE  source'[c.asset] \union c.seen = Parts
    <3>1. PICK p \in Parts : source' = [source EXCEPT ![call[h].asset] = @ \union {p}]
      BY <1>0, <2>4 DEF FillSource, Call
    <3>2. source[c.asset] \union c.seen = Parts
      BY <1>0, <1>4, <2>4 DEF CallOK
    <3>3. source'[c.asset] = source[c.asset] \/ source'[c.asset] = source[c.asset] \union {p}
      BY <1>0, <2>0, <3>1
    <3> QED BY <3>2, <3>3
  <2>5. ASSUME NEW h \in Handlers, AssembleInBucket(h) PROVE FALSE
    BY <2>0, <2>5 DEF AssembleInBucket, At, IInv, CallOK
  <2>6. source' = source \/ \E h \in Handlers : OpenSource(h) \/ FillSource(h)
    <3>1. CASE \E h \in Handlers : OpenPart(h)
      BY <3>1 DEF OpenPart
    <3> QED BY <2>5, <3>1, OthersWriteNone DEF Writes
  <2> QED BY <2>1, <2>2, <2>3, <2>4, <2>6
<1>5. /\ c.pc # "idle" => c.asset \in Assets
      /\ c.pc \in {"open", "write", "gather", "create", "fill", "clear"} => driver' = "local"
      /\ c.pc \in {"read", "record"} => Kept(c.asset, c.part)'
      /\ c.pc = "record" => Kept(c.asset, c.seen)'
      /\ c.pc = "assemble" => driver' = "b2" /\ c.seen = Parts
      /\ c.pc \in {"gather", "fill"} => c.seen # {}
      /\ c.pc = "create" => Sound(c.asset)' \/ c.part = Parts
      /\ c.pc \in {"clear", "queue", "lesson", "look", "insert"} => Sound(c.asset)'
  BY <1>0, <1>1 DEF CallOK
<1> QED BY <1>2, <1>3, <1>4, <1>5 DEF CallOK

(* What a call relies on holds after its own step.                         *)
LEMMA OwnKeeps ==
  ASSUME IInv, Next, NEW h \in Handlers, CallStep(h)
  PROVE  CallOK(h)'
<1> PICK c \in Call : c = call[h]
  BY DEF IInv, TypeOK
<1> PICK d : d = call'[h]
  OBVIOUS
<1>0. /\ CallOK(h) /\ driver' = driver /\ call \in [Handlers -> Call]
      /\ \A a \in Assets : Sound(a) => Sound(a)'
      /\ \A a \in Assets, S \in SUBSET Parts : Kept(a, S) => Kept(a, S)'
      /\ parts \in [Assets -> SUBSET Parts] /\ source \in [Assets -> SUBSET Parts]
      /\ stored \in [Assets -> SUBSET Parts]
      /\ RecordedAreKept
  BY SourcesStep, KeptStays DEF IInv, TypeOK
<1>1. c.pc \in Step /\ c.seen \in SUBSET Parts /\ c.part \in SUBSET Parts
  BY <1>0 DEF Call
<1>2. CASE Return(h)
  BY <1>0, <1>2 DEF Return, Idle, CallOK
<1>3. CASE OpenPart(h)
  <2>1. c.asset \in Assets /\ driver = "local" /\ d = [c EXCEPT !.pc = "write"]
    BY <1>0, <1>3 DEF OpenPart, At, Goto, CallOK
  <2>2. d.pc = "write" /\ d.asset = c.asset /\ d.part = c.part
    BY <1>0, <2>1 DEF Call
  <2>3. ASSUME NEW p \in c.part, PartInUse(h, c.asset, p)' PROVE Sound(c.asset)'
    <3>1. \A k \in Handlers \ {h} : call'[k] = call[k]
      BY <1>0, <1>3 DEF OpenPart, Goto
    <3>2. PartInUse(h, c.asset, p)
      BY <2>3, <3>1 DEF PartInUse, At
    <3>3. c.asset \in rewritten'
      BY <1>3, <2>3, <3>2 DEF OpenPart, NoteRewrite
    <3> QED BY <3>3 DEF Sound
  <2> QED BY <1>0, <2>1, <2>2, <2>3 DEF CallOK
<1>4. CASE WritePart(h)
  <2>1. c.pc = "write" /\ c.asset \in Assets /\ d = [c EXCEPT !.pc = "read"]
    BY <1>0, <1>4 DEF WritePart, At, Goto, CallOK
  <2>2. d.pc = "read" /\ d.asset = c.asset /\ d.part = c.part
    BY <1>0, <2>1 DEF Call
  <2>3. ASSUME stored' = [stored EXCEPT ![c.asset] = @ \union c.part]
        PROVE  Kept(c.asset, c.part)'
    BY <1>0, <2>1, <2>3 DEF Kept
  <2>4. ASSUME \E p \in c.part : PartInUse(h, c.asset, p)
        PROVE  Kept(c.asset, c.part)'
    BY <1>0, <2>1, <2>4 DEF Kept, CallOK
  <2>5. Kept(c.asset, c.part)'
    BY <1>4, <2>3, <2>4 DEF WritePart
  <2> QED BY <2>1, <2>2, <2>5 DEF CallOK
<1>5. CASE ReadParts(h)
  <2>1. c.pc = "read" /\ c.asset \in Assets
        /\ d = [c EXCEPT !.pc = "record", !.seen = parts[c.asset]]
    BY <1>0, <1>5 DEF ReadParts, At, CallOK
  <2> PICK S \in SUBSET Parts : S = parts[c.asset]
    BY <1>0, <2>1
  <2>2. d.pc = "record" /\ d.asset = c.asset /\ d.part = c.part /\ d.seen = S
    BY <1>0, <2>1 DEF Call
  <2>3. Kept(c.asset, c.part) /\ Kept(c.asset, S)
    BY <1>0, <1>1, <2>1 DEF CallOK, RecordedAreKept
  <2>4. Kept(c.asset, c.part)' /\ Kept(c.asset, S)'
    BY <1>0, <1>1, <2>1, <2>3
  <2> QED BY <2>1, <2>2, <2>4 DEF CallOK
<1>6. CASE GatherPart(h)
  <2>1. PICK p \in c.seen :
          /\ p \in stored[c.asset] \union opened[c.asset]
          /\ d = [c EXCEPT !.pc = IF c.seen = {p} THEN "create" ELSE "gather",
                           !.seen = c.seen \ {p},
                           !.part = c.part \union ({p} \intersect stored[c.asset])]
    BY <1>0, <1>6 DEF GatherPart
  <2>2. c.pc = "gather" /\ c.asset \in Assets /\ driver = "local" /\ stored' = stored
    BY <1>0, <1>6 DEF GatherPart, At, CallOK, files, storage
  <2>3. /\ d.pc = IF c.seen = {p} THEN "create" ELSE "gather"
        /\ d.asset = c.asset /\ d.seen = c.seen \ {p}
        /\ d.part = c.part \union ({p} \intersect stored[c.asset])
    BY <1>0, <2>1 DEF Call
  <2>4. ASSUME ~Sound(c.asset)
        PROVE  d.seen \subseteq stored'[c.asset] /\ d.part \union d.seen = Parts
    BY <1>0, <1>1, <2>2, <2>3, <2>4 DEF CallOK
  <2>5. CASE c.seen = {p}
    <3>1. d.seen = {} /\ d.pc = "create"
      BY <2>3, <2>5
    <3>2. Sound(c.asset)' \/ d.part = Parts
      BY <1>0, <2>2, <2>4, <3>1
    <3> QED BY <1>0, <2>2, <2>3, <3>1, <3>2 DEF CallOK
  <2>6. CASE c.seen # {p}
    <3>1. d.seen # {} /\ d.pc = "gather"
      BY <2>1, <2>3, <2>6
    <3> QED BY <1>0, <2>2, <2>3, <2>4, <3>1 DEF CallOK
  <2> QED BY <2>5, <2>6
<1>7. CASE OpenSource(h)
  <2>1. /\ d = [c EXCEPT !.pc = IF c.part = {} THEN "clear" ELSE "fill",
                         !.seen = c.part, !.part = {}]
        /\ c.pc = "create" /\ c.asset \in Assets /\ driver = "local"
        /\ source' = [source EXCEPT ![c.asset] = {}]
    BY <1>0, <1>7 DEF OpenSource, At, CallOK
  <2>2. /\ d.pc = IF c.part = {} THEN "clear" ELSE "fill"
        /\ d.asset = c.asset /\ d.seen = c.part
    BY <1>0, <2>1 DEF Call
  <2>3. Sound(c.asset)' \/ c.part = Parts
    BY <1>0, <2>1 DEF CallOK
  <2>4. CASE c.part = {}
    <3>1. Sound(c.asset)' /\ d.pc = "clear"
      BY <2>2, <2>3, <2>4
    <3> QED BY <1>0, <2>1, <2>2, <3>1 DEF CallOK
  <2>5. CASE c.part # {}
    <3>1. source'[c.asset] = {} /\ d.pc = "fill"
      BY <1>0, <2>1, <2>2, <2>5
    <3> QED BY <1>0, <2>1, <2>2, <2>3, <2>5, <3>1 DEF CallOK
  <2> QED BY <2>4, <2>5
<1>8. CASE FillSource(h)
  <2>1. PICK p \in c.seen :
          /\ d = [c EXCEPT !.pc = IF c.seen = {p} THEN "clear" ELSE "fill", !.seen = c.seen \ {p}]
          /\ source' = [source EXCEPT ![c.asset] = @ \union {p}]
    BY <1>0, <1>8 DEF FillSource
  <2>2. c.pc = "fill" /\ c.asset \in Assets /\ driver = "local"
    BY <1>0, <1>8 DEF FillSource, At, CallOK
  <2>3. /\ d.pc = IF c.seen = {p} THEN "clear" ELSE "fill"
        /\ d.asset = c.asset /\ d.seen = c.seen \ {p}
    BY <1>0, <2>1 DEF Call
  <2>4. Sound(c.asset)' \/ source'[c.asset] \union d.seen = Parts
    BY <1>0, <1>1, <2>1, <2>2, <2>3 DEF CallOK
  <2>5. CASE c.seen = {p}
    <3>1. d.seen = {} /\ d.pc = "clear"
      BY <2>3, <2>5
    <3>2. Sound(c.asset)'
      BY <2>4, <3>1 DEF Sound
    <3> QED BY <1>0, <2>2, <2>3, <3>1, <3>2 DEF CallOK
  <2>6. CASE c.seen # {p}
    <3>1. d.seen # {} /\ d.pc = "fill"
      BY <2>1, <2>3, <2>6
    <3> QED BY <1>0, <2>2, <2>3, <2>4, <3>1 DEF CallOK
  <2> QED BY <2>5, <2>6
<1>9. CASE ClearScratch(h)
  <2>1. d = [c EXCEPT !.pc = "queue"] /\ c.asset \in Assets /\ Sound(c.asset)
    BY <1>0, <1>9 DEF ClearScratch, At, Goto, CallOK
  <2>2. d.pc = "queue" /\ d.asset = c.asset
    BY <1>0, <2>1 DEF Call
  <2> QED BY <1>0, <2>1, <2>2 DEF CallOK
<1>10. CASE AssembleInBucket(h)
  <2>1. d = [c EXCEPT !.pc = "queue"] /\ c.asset \in Assets
        /\ source' = [source EXCEPT ![c.asset] = Parts]
    BY <1>0, <1>10 DEF AssembleInBucket, At, Goto, CallOK
  <2>2. d.pc = "queue" /\ d.asset = c.asset /\ source'[c.asset] = Parts
    BY <1>0, <2>1 DEF Call
  <2> QED BY <2>1, <2>2 DEF CallOK, Sound
<1>11. ASSUME NEW s \in {"queue", "lesson", "look"}, NEW t \in {"lesson", "look", "insert"},
              At(h, s), Goto(h, t)
       PROVE  CallOK(h)'
  <2>1. d = [c EXCEPT !.pc = t] /\ c.asset \in Assets /\ Sound(c.asset)
    BY <1>0, <1>11 DEF At, Goto, CallOK
  <2>2. d.pc = t /\ d.asset = c.asset
    BY <1>0, <2>1 DEF Call
  <2> QED BY <1>0, <2>1, <2>2 DEF CallOK
<1>12. \/ Return(h)
       \/ OpenPart(h) \/ WritePart(h) \/ ReadParts(h) \/ GatherPart(h) \/ OpenSource(h)
       \/ FillSource(h) \/ ClearScratch(h) \/ AssembleInBucket(h)
       \/ \E s \in {"queue", "lesson", "look"}, t \in {"lesson", "look", "insert"} :
             At(h, s) /\ Goto(h, t)
  <2>1. CASE AnnounceUpload(h) \/ RecordPart(h) \/ AssembleThrows(h) \/ InsertJob(h)
    BY <2>1 DEF AnnounceUpload, RecordPart, AssembleThrows, InsertJob
  <2>2. CASE MarkQueued(h) \/ MarkLessonQueued(h)
    BY <2>2 DEF MarkQueued, MarkLessonQueued
  <2>3. CASE LookForJob(h)
    <3>1. At(h, "look") /\ (Return(h) \/ Goto(h, "insert"))
      BY <2>3 DEF LookForJob
    <3> QED BY <3>1
  <2> QED BY <2>1, <2>2, <2>3 DEF CallStep
<1> QED BY <1>2, <1>3, <1>4, <1>5, <1>6, <1>7, <1>8, <1>9, <1>10, <1>11, <1>12

(* What a request that begins relies on.                                   *)
LEMMA BeginKeeps ==
  ASSUME IInv, Next, NEW h \in Handlers, NEW a \in Assets,
         \/ CreateUploadSession(h, a) \/ CompleteUpload(h, a)
         \/ \E p \in Parts : ReceivePart(h, a, p) \/ ReportPartComplete(h, a, p)
  PROVE  /\ CallOK(h)' /\ IsIdle(h)
         /\ \A k \in Handlers \ {h} : call'[k] = call[k]
         /\ ~At(h, "write")'
<1>0. /\ call \in [Handlers -> Call] /\ parts \in [Assets -> SUBSET Parts]
      /\ driver' = driver /\ RecordedAreKept /\ driver \in {"local", "b2"}
      /\ \A S \in SUBSET Parts : Kept(a, S) => Kept(a, S)'
  BY SourcesStep, KeptStays DEF IInv, TypeOK
<1>1. ASSUME NEW c, Begin(h, c)
      PROVE  /\ IsIdle(h) /\ call'[h] = c
             /\ \A k \in Handlers \ {h} : call'[k] = call[k]
  BY <1>0, <1>1 DEF Begin
<1>2. CASE CreateUploadSession(h, a)
  <2>1. PICK c \in {[Idle EXCEPT !.pc = "announce", !.asset = a]} : Begin(h, c)
    BY <1>2 DEF CreateUploadSession
  <2>2. c.pc = "announce" /\ c.asset = a
    BY <2>1 DEF Idle
  <2> QED BY <1>1, <2>1, <2>2 DEF CallOK, At
<1>3. CASE CompleteUpload(h, a)
  <2>1. parts[a] = Parts /\ Begin(h, Completing(a)) /\ stored' = stored
    BY <1>0, <1>3, AllParts DEF CompleteUpload, files, storage
  <2>2. call'[h] = Completing(a)
    BY <1>1, <2>1
  <2>3. /\ call'[h].asset = a /\ call'[h].seen = Parts /\ call'[h].part = {}
        /\ call'[h].pc = IF driver = "local" THEN "gather" ELSE "assemble"
    BY <2>1, <2>2 DEF Completing, Idle
  <2>4. Kept(a, Parts)'
    BY <1>0, <2>1 DEF RecordedAreKept
  <2>5. CASE driver = "local"
    BY <1>0, <1>1, <2>1, <2>3, <2>4, <2>5 DEF CallOK, Kept, At
  <2>6. CASE driver = "b2"
    BY <1>0, <1>1, <2>1, <2>3, <2>6 DEF CallOK, At
  <2> QED BY <1>0, <2>5, <2>6
<1>4. ASSUME NEW p \in Parts, ReceivePart(h, a, p)
      PROVE  /\ CallOK(h)' /\ IsIdle(h)
             /\ \A k \in Handlers \ {h} : call'[k] = call[k]
             /\ ~At(h, "write")'
  <2>1. PICK c \in {[Idle EXCEPT !.pc = "open", !.asset = a, !.part = {p}]} : Begin(h, c)
    BY <1>4 DEF ReceivePart
  <2>2. c.pc = "open" /\ c.asset = a /\ driver = "local"
    BY <1>4, <2>1 DEF Idle, ReceivePart
  <2> QED BY <1>0, <1>1, <2>1, <2>2 DEF CallOK, At
<1>5. ASSUME NEW p \in Parts, ReportPartComplete(h, a, p)
      PROVE  /\ CallOK(h)' /\ IsIdle(h)
             /\ \A k \in Handlers \ {h} : call'[k] = call[k]
             /\ ~At(h, "write")'
  <2>1. PICK c \in {[Idle EXCEPT !.pc = "read", !.asset = a, !.part = {p}]} : Begin(h, c)
    BY <1>5 DEF ReportPartComplete
  <2>2. c.pc = "read" /\ c.asset = a /\ driver = "b2"
    BY <1>5, <2>1 DEF Idle, ReportPartComplete
  <2> QED BY <1>0, <1>1, <2>1, <2>2 DEF CallOK, At, Kept
<1> QED BY <1>2, <1>3, <1>4, <1>5

(* What a call in flight relies on holds after every step.                 *)
LEMMA CallsStep ==
  ASSUME IInv, Next, NEW k \in Handlers
  PROVE  CallOK(k)'
<1>0. call \in [Handlers -> Call]
  BY DEF IInv, TypeOK
<1>1. CASE call' = call
  <2>1. \A h \in Handlers : ~OpenPart(h) /\ ~OpenSource(h) /\ ~FillSource(h)
    <3> SUFFICES ASSUME NEW h \in Handlers, OpenPart(h) \/ OpenSource(h) \/ FillSource(h)
                 PROVE  FALSE
      OBVIOUS
    <3>1. call[h] \in Call /\ CallOK(h)
      BY <1>0 DEF IInv
    <3>2. CASE OpenPart(h)
      <4>1. call'[h].pc = "write" /\ call[h].pc = "open"
        BY <1>0, <3>1, <3>2 DEF OpenPart, Goto, At, Call
      <4> QED BY <1>1, <4>1
    <3>3. CASE OpenSource(h)
      <4>1. call'[h].pc # "create" /\ call[h].pc = "create"
        BY <1>0, <3>1, <3>3 DEF OpenSource, At, Call
      <4> QED BY <1>1, <4>1
    <3>4. CASE FillSource(h)
      <4>1. PICK p \in call[h].seen : call'[h].seen = call[h].seen \ {p}
        BY <1>0, <3>1, <3>4 DEF FillSource, Call
      <4> QED BY <1>1, <4>1
    <3> QED BY <3>2, <3>3, <3>4
  <2> QED BY <1>1, <2>1, OthersKeep DEF At
<1>2. ASSUME NEW h \in Handlers, CallStep(h) \/ Crash(h) PROVE CallOK(k)'
  <2>0. /\ call[h] \in Call
        /\ \A g \in Handlers \ {h} : call'[g] = call[g]
        /\ ~OpenPart(h) => ~At(h, "write")'
    BY <1>0, <1>2, CallShape DEF At, Idle
  <2>1. CASE k = h /\ CallStep(h)
    BY <2>1, OwnKeeps
  <2>2. CASE k = h /\ Crash(h)
    BY <1>0, <2>2 DEF Crash, Return, Idle, CallOK
  <2>3. CASE k # h
    <3>1. call'[k] = call[k]
      BY <2>0, <2>3
    <3>2. \A g \in Handlers : OpenPart(g) \/ OpenSource(g) \/ FillSource(g) => g # k
      <4> SUFFICES ASSUME OpenPart(k) \/ OpenSource(k) \/ FillSource(k) PROVE FALSE
        OBVIOUS
      <4>0. call[k] \in Call
        BY <1>0
      <4>1. CASE OpenPart(k)
        <5>1. call'[k].pc = "write" /\ call[k].pc = "open"
          BY <1>0, <4>0, <4>1 DEF OpenPart, Goto, At, Call
        <5> QED BY <3>1, <5>1
      <4>2. CASE OpenSource(k)
        <5>1. call'[k].pc # "create" /\ call[k].pc = "create"
          BY <1>0, <4>0, <4>2 DEF OpenSource, At, Call
        <5> QED BY <3>1, <5>1
      <4>3. CASE FillSource(k)
        <5>1. PICK p \in call[k].seen : call'[k].seen = call[k].seen \ {p}
          BY <1>0, <4>0, <4>3 DEF FillSource, Call
        <5> QED BY <3>1, <5>1
      <4> QED BY <4>1, <4>2, <4>3
    <3>3. \A g \in Handlers \ {k} :
            ~OpenPart(g) /\ At(g, "write")' => At(g, "write") /\ call'[g] = call[g]
      BY <2>0 DEF At
    <3> QED BY <3>1, <3>2, <3>3, OthersKeep
  <2> QED BY <1>2, <2>1, <2>2, <2>3
<1>3. ASSUME NEW h \in Handlers, NEW a \in Assets,
             \/ CreateUploadSession(h, a) \/ CompleteUpload(h, a)
             \/ \E p \in Parts : ReceivePart(h, a, p) \/ ReportPartComplete(h, a, p)
      PROVE  CallOK(k)'
  <2>1. /\ CallOK(h)' /\ \A g \in Handlers \ {h} : call'[g] = call[g]
        /\ ~At(h, "write")' /\ IsIdle(h)
    BY <1>3, BeginKeeps
  <2>2. CASE k # h
    <3>1. call'[k] = call[k]
      BY <2>1, <2>2
    <3>2. \A g \in Handlers : ~OpenPart(g) /\ ~OpenSource(g) /\ ~FillSource(g)
      <4>1. files' = files /\ storage' = storage /\ \E c : Begin(h, c)
        BY <1>3 DEF CreateUploadSession, CompleteUpload, ReceivePart, ReportPartComplete, storage
      <4>2. overlapped' = overlapped' /\ call'[h].pc # "idle"
        BY <1>0, <1>3 DEF CreateUploadSession, CompleteUpload, ReceivePart, ReportPartComplete,
          Begin, Completing, Idle
      <4>3. ASSUME NEW g \in Handlers, OpenPart(g) \/ OpenSource(g) \/ FillSource(g) PROVE FALSE
        <5>1. call[g].pc # "idle" /\ \A f \in Handlers \ {g} : call'[f] = call[f]
          BY <1>0, <4>3 DEF OpenPart, OpenSource, FillSource, At, Goto
        <5> QED BY <2>1, <4>2, <5>1 DEF IsIdle
      <4> QED BY <4>3
    <3> QED BY <2>1, <3>1, <3>2, OthersKeep DEF At
  <2> QED BY <2>1, <2>2
<1>4. \/ call' = call
      \/ \E h \in Handlers : CallStep(h) \/ Crash(h)
      \/ \E h \in Handlers, a \in Assets :
           \/ CreateUploadSession(h, a) \/ CompleteUpload(h, a)
           \/ \E p \in Parts : ReceivePart(h, a, p) \/ ReportPartComplete(h, a, p)
  BY DEF Next, VideoRequest, PutToPresignedUrl, WorkerStep, PickJob, MarkProcessing, Transcode,
    TranscodeFails, UploadRest, FinishJob, ShowInLesson, MarkJobFailed, MarkLessonFailed,
    UploadFails, WorkerCrash
<1> QED BY <1>1, <1>2, <1>3, <1>4

(* Recorded parts are kept.                                                *)
LEMMA RecordedStep ==
  ASSUME IInv, Next
  PROVE  RecordedAreKept'
<1>0. /\ parts \in [Assets -> SUBSET Parts] /\ RecordedAreKept
      /\ \A a \in Assets, S \in SUBSET Parts : Kept(a, S) => Kept(a, S)'
  BY KeptStays DEF IInv, TypeOK
<1>1. CASE parts' = parts
  BY <1>0, <1>1 DEF RecordedAreKept, Kept
<1>2. ASSUME NEW h \in Handlers, RecordPart(h) PROVE RecordedAreKept'
  <2>0. call[h] \in Call /\ CallOK(h)
    BY DEF IInv, TypeOK
  <2>1. /\ call[h].asset \in Assets /\ Kept(call[h].asset, call[h].part)
        /\ Kept(call[h].asset, call[h].seen)
        /\ call[h].seen \in SUBSET Parts /\ call[h].part \in SUBSET Parts
        /\ parts' = [parts EXCEPT ![call[h].asset] = call[h].seen \union call[h].part]
    BY <1>2, <2>0 DEF RecordPart, At, CallOK, Call
  <2>2. Kept(call[h].asset, call[h].seen \union call[h].part)
    BY <2>1 DEF Kept
  <2>3. \A a \in Assets : Kept(a, parts'[a])
    BY <1>0, <2>1, <2>2 DEF RecordedAreKept
  <2>4. \A a \in Assets : parts'[a] \in SUBSET Parts
    BY <1>0, <2>1
  <2>5. UNCHANGED <<driver, source, rewritten, stored>>
    BY <1>2 DEF RecordPart, storage, files
  <2> QED BY <2>3, <2>5 DEF RecordedAreKept, Kept, Sound
<1>3. ~(\E h \in Handlers : RecordPart(h)) => parts' = parts
  BY DEF Next, VideoRequest, CallStep, WorkerStep, CreateUploadSession, CompleteUpload,
    ReceivePart, ReportPartComplete, PutToPresignedUrl, AnnounceUpload, OpenPart, WritePart,
    ReadParts, GatherPart, OpenSource, FillSource, ClearScratch, AssembleInBucket,
    AssembleThrows, MarkQueued, MarkLessonQueued, LookForJob, InsertJob, Crash, PickJob,
    MarkProcessing, Transcode, TranscodeFails, UploadRest, FinishJob, ShowInLesson,
    MarkJobFailed, MarkLessonFailed, UploadFails, WorkerCrash, rows
<1> QED BY <1>1, <1>2, <1>3

(* What a tick relies on holds after every step.                           *)
LEMMA TicksStep ==
  ASSUME IInv, Next, NEW v \in Workers
  PROVE  TickOK(v)'
<1>0. /\ worker \in [Workers -> Tick] /\ worker[v] \in Tick /\ TickOK(v)
      /\ \A j \in DOMAIN jobs : j \in DOMAIN jobs'
      /\ \A f \in Files : rendition[f] # None => rendition'[f] # None
      /\ "first" \in Files /\ "last" \in Files
  BY JobsStep, RenditionStep DEF IInv, TypeOK, Files
<1>1. CASE worker'[v] = worker[v]
  BY <1>0, <1>1 DEF TickOK
<1>2. CASE \E w \in Workers : EndTick(w)
  BY <1>0, <1>1, <1>2 DEF EndTick, Rest, TickOK
<1>3. ASSUME NEW w \in Workers, PickJob(w) PROVE TickOK(v)'
  <2>1. PICK j \in DOMAIN jobs : worker' = [worker EXCEPT ![w] = [pc |-> "mark", job |-> j]]
    BY <1>3 DEF PickJob, Queued
  <2> QED BY <1>0, <1>1, <2>1 DEF TickOK
<1>4. ASSUME NEW w \in Workers, Transcode(w) \/ UploadRest(w) PROVE TickOK(v)'
  <2>0. worker[w] \in Tick /\ TickOK(w)
    BY <1>0 DEF IInv
  <2>1. Current(w) \in DOMAIN jobs /\ jobs \in Seq(Job)
    BY <1>4, <2>0 DEF IInv, TypeOK, TickOK, Transcode, UploadRest, Now, Current
  <2>2. Subject(w) # None /\ rendition \in [Files -> Assets \union {None}]
    BY <2>1, JobMoves DEF IInv, TypeOK
  <2>3. CASE Transcode(w)
    <3>1. rendition'["first"] # None
      BY <2>2, <2>3, <1>0 DEF Transcode
    <3> QED BY <1>0, <1>1, <2>0, <2>3, <3>1 DEF Transcode, Proceed, Now, TickOK, Tick
  <2>4. CASE UploadRest(w)
    <3>1. rendition'["last"] # None
      BY <2>2, <2>4, <1>0 DEF UploadRest
    <3> QED BY <1>0, <1>1, <2>0, <2>4, <3>1 DEF UploadRest, Proceed, Now, TickOK, Tick
  <2> QED BY <1>4, <2>3, <2>4
<1>5. ASSUME NEW w \in Workers,
             \/ Now(w, "finish") /\ Proceed(w, "show")
             \/ \E s \in {"mark", "transcode", "last", "fail"} :
                \E t \in {"transcode", "fail", "tell"} : Now(w, s) /\ Proceed(w, t)
      PROVE  TickOK(v)'
  <2>0. worker[w] \in Tick /\ TickOK(w)
    BY <1>0 DEF IInv
  <2> QED BY <1>0, <1>1, <1>5, <2>0 DEF Proceed, Now, TickOK, Tick
<1>6. \/ worker' = worker
      \/ \E w \in Workers :
           \/ EndTick(w) \/ PickJob(w) \/ Transcode(w) \/ UploadRest(w)
           \/ Now(w, "finish") /\ Proceed(w, "show")
           \/ \E s \in {"mark", "transcode", "last", "fail"} :
              \E t \in {"transcode", "fail", "tell"} : Now(w, s) /\ Proceed(w, t)
  BY DEF Next, VideoRequest, CallStep, WorkerStep, CreateUploadSession, CompleteUpload,
    ReceivePart, ReportPartComplete, PutToPresignedUrl, AnnounceUpload, WritePart, ReadParts,
    RecordPart, OpenPart, GatherPart, OpenSource, FillSource, ClearScratch, AssembleInBucket,
    AssembleThrows, MarkQueued, MarkLessonQueued, LookForJob, InsertJob, Crash, MarkProcessing,
    TranscodeFails, FinishJob, ShowInLesson, MarkJobFailed, MarkLessonFailed, UploadFails,
    WorkerCrash
<1> QED BY <1>1, <1>2, <1>3, <1>4, <1>5, <1>6

-----------------------------------------------------------------------------
(* The invariant *)

LEMMA InvInit == Init => IInv
<1> SUFFICES ASSUME Init PROVE IInv
  OBVIOUS
<1>1. BucketSources /\ JobsHaveSources /\ SettledHaveSources /\ PlaylistIsWhole
  BY DEF Init, BucketSources, JobsHaveSources, SettledHaveSources, PlaylistIsWhole
<1>2. RecordedAreKept /\ \A h \in Handlers : CallOK(h)
  BY DEF Init, CallOK, Idle, RecordedAreKept, Kept
<1>3. \A w \in Workers : TickOK(w)
  BY DEF Init, TickOK, Rest
<1> QED BY <1>1, <1>2, <1>3, TypeInit DEF IInv

LEMMA InvStep == IInv /\ [Next]_vars => IInv'
<1> SUFFICES ASSUME IInv, [Next]_vars PROVE IInv'
  OBVIOUS
<1>1. CASE UNCHANGED vars
  BY <1>1 DEF IInv, TypeOK, BucketSources, JobsHaveSources, SettledHaveSources, PlaylistIsWhole,
    RecordedAreKept, Kept, Sound, PartInUse, At, CallOK, TickOK, vars, files, storage, rows
<1>2. CASE Next
  <2>0. TypeOK' /\ BucketSources' /\ \A a \in Assets : Sound(a) => Sound(a)'
    BY <1>2, TypeStep, SourcesStep
  <2>1. JobsHaveSources'
    <3>1. ASSUME NEW j \in DOMAIN jobs'
          PROVE  jobs'[j].asset \in Assets /\ Sound(jobs'[j].asset)
      <4>1. jobs'[j] \in Job
        BY <2>0 DEF TypeOK
      <4>2. Sound(jobs'[j].asset)
        BY <1>2, JobsStep DEF IInv, JobsHaveSources
      <4> QED BY <4>1, <4>2 DEF Job
    <3>2. \A b \in Assets : Sound(b) => source'[b] = Parts \/ b \in rewritten'
      BY <2>0 DEF Sound
    <3> QED BY <3>1, <3>2 DEF JobsHaveSources, Sound
  <2>2. SettledHaveSources'
    BY <1>2, <2>0, SettledStep DEF SettledHaveSources
  <2>3. PlaylistIsWhole'
    <3>0. \A b \in Assets : Sound(b) => source'[b] = Parts \/ b \in rewritten'
      BY <2>0 DEF Sound
    <3>1. \A f \in Files : rendition'[f] # None =>
            source'[rendition'[f]] = Parts \/ rendition'[f] \in rewritten'
      BY <1>2, <2>0, <3>0, RenditionStep DEF TypeOK
    <3>2. lesson'.hls => \A f \in Files : rendition'[f] # None
      BY <1>2, LessonStep, RenditionStep DEF IInv, PlaylistIsWhole
    <3> QED BY <3>1, <3>2 DEF PlaylistIsWhole, Sound
  <2> QED BY <1>2, <2>0, <2>1, <2>2, <2>3, CallsStep, TicksStep, RecordedStep DEF IInv
<1> QED BY <1>1, <1>2

(* Jobs, queued, ready and failed uploads have a source put together from  *)
(* all parts, and an offered playlist is made of such sources: in every    *)
(* interleaving of calls and workers, whatever crashes, in the middle of a *)
(* write too.  Not promised for an upload one of whose files was opened    *)
(* anew when it was whole or another call was writing it; a bucket has no  *)
(* such uploads.                                                           *)
THEOREM Invariant == Spec => []IInv
<1> QED BY InvInit, InvStep, PTL DEF Spec

(* Rows, objects, calls and ticks have their types.                        *)
THEOREM TypeCorrect == Spec => []TypeOK
<1>1. IInv => TypeOK
  BY DEF IInv
<1> QED BY <1>1, Invariant, PTL

-----------------------------------------------------------------------------
(* Refinement *)

LEMMA MapStep == IInv /\ [Next]_vars => [P!Next]_(P!vars)
<1> SUFFICES ASSUME IInv, [Next]_vars PROVE P!Next \/ UNCHANGED P!vars
  OBVIOUS
<1> DEFINE Playable == {a \in Assets : Sound(a)}
           Playing == IF Manifest(TRUE) THEN {Served(f) : f \in Files} ELSE {}
<1>1. CASE UNCHANGED vars
  BY <1>1 DEF vars, files, storage, rows, P!vars, Manifest, Served, Sound
<1>2. ASSUME Next, NEW h \in Handlers, Writes(h) PROVE P!Next \/ UNCHANGED P!vars
  <2>1. /\ call[h].asset \in Assets
        /\ \A a \in Assets : a = call[h].asset \/ (Sound(a)' <=> Sound(a))
        /\ \A a \in Assets : Sound(a) => Sound(a)'
        /\ rendition' = rendition /\ lesson' = lesson
    BY <1>2, WritesKeep
  <2>2. PICK b \in Assets : b = call[h].asset
    BY <2>1
  <2>3. Playable' = Playable \/ Playable' = Playable \union {b}
    <3>1. \A a \in Assets \ {b} : a \in Playable' <=> a \in Playable
      BY <2>1, <2>2
    <3>2. b \in Playable => b \in Playable'
      BY <2>1, <2>2
    <3> QED BY <3>1, <3>2
  <2>4. Playing' = Playing
    BY <2>1 DEF Manifest, Served
  <2> QED BY <2>3, <2>4 DEF P!Next, P!Assemble, P!vars
<1>3. CASE Next /\ UNCHANGED <<source, rewritten>>
  <2>1. Playable' = Playable
    BY <1>3 DEF Sound
  <2>2. CASE lesson'.hls
    <3>1. \A f \in Files : rendition'[f] # None /\ Sound(rendition'[f])
      BY <1>3, <2>2, LessonStep, RenditionStep DEF IInv, PlaylistIsWhole
    <3>2. rendition' \in [Files -> Assets \union {None}]
      BY TypeStep DEF TypeOK
    <3>3. \A f \in Files : rendition'[f] \in Playable
      BY <3>1, <3>2
    <3>4. Playing' = {rendition'[f] : f \in Files}
      BY <2>2 DEF Manifest, Served
    <3>5. Playing' # {} /\ Playing' \subseteq Playable /\ Playing' \in SUBSET Assets
      BY <3>2, <3>3, <3>4 DEF Files
    <3> QED BY <2>1, <3>5 DEF P!Next, P!Play
  <2>3. CASE ~lesson'.hls
    <3>1. ~lesson.hls
      BY <1>3, <2>3, LessonStep
    <3>2. Playing = {} /\ Playing' = {}
      BY <2>3, <3>1 DEF Manifest
    <3> QED BY <2>1, <3>2 DEF P!vars
  <2> QED BY <2>2, <2>3
<1> QED BY <1>1, <1>2, <1>3, OthersWriteNone

(* The pipeline implements Publication: a player is served files made of   *)
(* uploads put together from all their parts, as long as no file of them   *)
(* was written over, and what can be played once always can.               *)
THEOREM ImplementsPublication == Spec => PublicationSpec
<1>1. Init => P!Init
  <2> SUFFICES ASSUME Init PROVE P!Init
    OBVIOUS
  <2>1. {a \in Assets : Sound(a)} = {}
    BY DEF Init, Sound
  <2>2. ~Manifest(TRUE)
    BY DEF Init, Manifest
  <2> QED BY <2>1, <2>2 DEF P!Init
<1> QED BY <1>1, MapStep, Invariant, PTL DEF Spec, PublicationSpec, P!Spec

-----------------------------------------------------------------------------
(* Recorded parts *)

(* As long as calls never overlapped, one at most is in flight, and what   *)
(* it read of the recorded parts is still what is recorded.                *)
Alone ==
  "calls" \notin overlapped =>
    /\ \A h, k \in Handlers : ~IsIdle(h) /\ ~IsIdle(k) => h = k
    /\ \A h \in Handlers : At(h, "record") => parts[call[h].asset] \subseteq call[h].seen

LEMMA AloneStep == IInv /\ Alone /\ [Next]_vars => Alone'
<1> SUFFICES ASSUME IInv, Alone, [Next]_vars, "calls" \notin overlapped' PROVE Alone'
  BY DEF Alone
<1>0. call \in [Handlers -> Call] /\ parts \in [Assets -> SUBSET Parts]
  BY DEF IInv, TypeOK
<1>1. CASE call' = call /\ parts' = parts /\ overlapped \subseteq overlapped'
  BY <1>1 DEF Alone, IsIdle, At
<1>2. ASSUME NEW h \in Handlers, NEW c, Begin(h, c), parts' = parts, c.pc # "record"
      PROVE  Alone'
  <2>1. \A k \in Handlers \ {h} : IsIdle(k) /\ call'[k] = call[k]
    BY <1>0, <1>2 DEF Begin
  <2>2. call'[h] = c
    BY <1>0, <1>2 DEF Begin
  <2> QED BY <1>2, <2>1, <2>2 DEF Alone, IsIdle, At
<1>3. ASSUME NEW h \in Handlers, CallStep(h) \/ Crash(h) PROVE Alone'
  <2>1. ~IsIdle(h) /\ overlapped' = overlapped
    <3>1. overlapped' = overlapped
      BY <1>3 DEF CallStep, AnnounceUpload, OpenPart, WritePart, ReadParts, RecordPart,
        GatherPart, OpenSource, FillSource, ClearScratch, AssembleInBucket, AssembleThrows,
        MarkQueued, MarkLessonQueued, LookForJob, InsertJob, Crash
    <3> QED BY <1>3, <3>1, CallShape
  <2>2. \A k \in Handlers \ {h} : IsIdle(k) /\ call'[k] = call[k]
    <3>1. "calls" \notin overlapped
      BY <2>1
    <3> QED BY <1>3, <2>1, <3>1, CallShape DEF Alone
  <2>3. CASE ReadParts(h)
    <3>1. call'[h].asset = call[h].asset /\ call'[h].seen = parts[call[h].asset] /\ parts' = parts
      BY <1>0, <2>3 DEF ReadParts, rows, Call
    <3> QED BY <2>2, <3>1 DEF Alone, IsIdle, At
  <2>4. CASE ~ReadParts(h)
    <3>1. call'[h].pc # "record"
      BY <1>3, <2>4, CallShape DEF Idle
    <3> QED BY <2>2, <3>1 DEF Alone, IsIdle, At
  <2> QED BY <2>3, <2>4
<1>4. ASSUME NEW h \in Handlers, NEW a \in Assets,
             CreateUploadSession(h, a) \/ CompleteUpload(h, a)
      PROVE  Alone'
  <2>1. CASE CreateUploadSession(h, a)
    BY <1>2, <2>1 DEF CreateUploadSession, Idle
  <2>2. CASE CompleteUpload(h, a)
    <3>1. PICK c \in {Completing(a)} : Begin(h, c)
      BY <2>2 DEF CompleteUpload
    <3>2. c.pc # "record" /\ parts' = parts
      BY <2>2, <3>1 DEF CompleteUpload, Completing, Idle, rows
    <3> QED BY <1>2, <3>1, <3>2
  <2> QED BY <1>4, <2>1, <2>2
<1>5. ASSUME NEW h \in Handlers, NEW a \in Assets, NEW p \in Parts,
             ReceivePart(h, a, p) \/ ReportPartComplete(h, a, p)
      PROVE  Alone'
  <2>1. CASE ReceivePart(h, a, p)
    BY <1>2, <2>1 DEF ReceivePart, Idle, rows
  <2>2. CASE ReportPartComplete(h, a, p)
    BY <1>2, <2>2 DEF ReportPartComplete, Idle, rows
  <2> QED BY <1>5, <2>1, <2>2
<1>6. \/ call' = call /\ parts' = parts /\ overlapped \subseteq overlapped'
      \/ VideoRequest
      \/ \E h \in Handlers : CallStep(h) \/ Crash(h)
  BY DEF Next, WorkerStep, PutToPresignedUrl, PickJob, MarkProcessing, Transcode, TranscodeFails,
    UploadRest, FinishJob, ShowInLesson, MarkJobFailed, MarkLessonFailed, UploadFails,
    WorkerCrash, vars, rows
<1> QED BY <1>1, <1>3, <1>4, <1>5, <1>6 DEF VideoRequest

LEMMA AloneKeeps ==
  IInv /\ Alone /\ [Next]_vars =>
    ("calls" \notin overlapped' => \A a \in Assets : parts[a] \subseteq parts'[a])
<1> SUFFICES ASSUME IInv, Alone, [Next]_vars, "calls" \notin overlapped'
             PROVE  \A a \in Assets : parts[a] \subseteq parts'[a]
  OBVIOUS
<1>1. CASE \E h \in Handlers : RecordPart(h)
  <2>1. PICK h \in Handlers : RecordPart(h)
    BY <1>1
  <2>2. parts[call[h].asset] \subseteq call[h].seen
    BY <2>1 DEF Alone, RecordPart
  <2> QED BY <2>1, <2>2 DEF RecordPart, IInv, TypeOK
<1>2. CASE ~ \E h \in Handlers : RecordPart(h)
  <2>1. parts' = parts
    BY <1>2 DEF Next, VideoRequest, CallStep, WorkerStep, CreateUploadSession, CompleteUpload,
      ReceivePart, ReportPartComplete, PutToPresignedUrl, AnnounceUpload, WritePart, ReadParts,
      OpenPart, GatherPart, OpenSource, FillSource, ClearScratch, AssembleInBucket, AssembleThrows,
      MarkQueued, MarkLessonQueued, LookForJob, InsertJob, Crash, PickJob, MarkProcessing,
      Transcode, TranscodeFails, UploadRest, FinishJob, ShowInLesson, MarkJobFailed,
      MarkLessonFailed, UploadFails, WorkerCrash, vars, rows
  <2> QED BY <2>1
<1> QED BY <1>1, <1>2

(* As long as no two calls have overlapped, a part once recorded stays     *)
(* recorded: recordPart's read and write lose nothing by themselves.       *)
THEOREM PartsStay == Spec => PartsKept
<1>1. Init => Alone
  BY DEF Init, Alone, IsIdle, At, Idle
<1>2. IInv /\ Alone /\ [Next]_vars =>
        [ "calls" \notin overlapped' => \A a \in Assets : parts[a] \subseteq parts'[a] ]_vars
  BY AloneKeeps
<1> QED BY <1>1, <1>2, AloneStep, Invariant, PTL DEF Spec, PartsKept
-----------------------------------------------------------------------------
(* What the lesson says of its video.  An upload that is announced is new: *)
(* no other call, no whole source and no job is about it.                  *)

NewUploads ==
  /\ \A a \in Assets : status[a] = "none" => ~Sound(a)
  /\ \A h \in Handlers : ~IsIdle(h) => status[call[h].asset] # "none"
  /\ \A h \in Handlers : At(h, "announce") =>
       /\ status[call[h].asset] = "uploading" /\ ~Sound(call[h].asset)
       /\ \A k \in Handlers \ {h} : ~IsIdle(k) => call[k].asset # call[h].asset

(* A job is queued, or a call that marked an upload as queued is about to  *)
(* see to it: in either case a worker will yet write to the lesson.        *)
Coming ==
  \/ \E h \in Handlers : call[h].pc \in {"lesson", "look", "insert"}
  \/ Queued # {}

(* Without faults, and as long as no two workers ran at once, what the     *)
(* lesson says, or is about to be told, is so or will be overwritten.      *)
LessonTrue ==
  /\ \A v, w \in Workers : ~Now(v, "idle") /\ ~Now(w, "idle") => v = w
  /\ \A w \in Workers :
       /\ Now(w, "show") => status[Subject(w)] = "ready" \/ Coming
       /\ Now(w, "tell") => status[Subject(w)] = "failed" \/ Coming
  /\ lesson.video # "none" =>
       \/ Coming
       \/ \E w \in Workers : ~Now(w, "idle")
       \/ \E a \in Assets : status[a] = lesson.video

Told == faults = 0 /\ "ticks" \notin overlapped => LessonTrue

LEMMA NewUploadsInit == Init => NewUploads /\ Told
<1> SUFFICES ASSUME Init PROVE NewUploads /\ Told
  OBVIOUS
<1>1. NewUploads
  BY DEF Init, NewUploads, IsIdle, At, Idle, Sound
<1>2. Told
  BY DEF Init, Told, LessonTrue, Now, Rest
<1> QED BY <1>1, <1>2

LEMMA CallFacts ==
  ASSUME IInv, NEW h \in Handlers, CallStep(h) \/ Crash(h)
  PROVE  /\ ~IsIdle(h) /\ call[h].asset \in Assets
         /\ \A k \in Handlers \ {h} : call'[k] = call[k]
         /\ IsIdle(h)' \/ (call'[h].asset = call[h].asset /\ ~At(h, "announce")')
         /\ \A a \in Assets :
              a = call[h].asset \/ (status'[a] = status[a] /\ (Sound(a)' <=> Sound(a)))
         /\ status[call[h].asset] # "none" => status'[call[h].asset] # "none"
         /\ worker' = worker /\ overlapped' = overlapped
<1>0. /\ call \in [Handlers -> Call] /\ call[h] \in Call /\ CallOK(h)
      /\ status \in [Assets -> AssetStatus] /\ source \in [Assets -> SUBSET Parts]
  BY DEF IInv, TypeOK
<1>1. ~IsIdle(h) /\ call[h].asset \in Assets
  BY <1>0, CallShape DEF CallOK, IsIdle
<1>2. /\ \A k \in Handlers \ {h} : call'[k] = call[k]
      /\ IsIdle(h)' \/ (call'[h].asset = call[h].asset /\ ~At(h, "announce")')
  BY CallShape DEF IsIdle, Idle, At
<1>6. /\ worker' = worker /\ overlapped' = overlapped
      /\ status' = status \/ SetStatus(call[h].asset, "queued")
  BY DEF CallStep, AnnounceUpload, WritePart, ReadParts, RecordPart, OpenPart, GatherPart,
    OpenSource, FillSource, ClearScratch, AssembleInBucket, AssembleThrows, MarkQueued,
    MarkLessonQueued, LookForJob, InsertJob, Crash, files, storage, rows
<1>7. /\ \A a \in Assets \ {call[h].asset} : status'[a] = status[a]
      /\ status[call[h].asset] # "none" => status'[call[h].asset] # "none"
  BY <1>0, <1>1, <1>6 DEF SetStatus
<1>8. \A a \in Assets : a = call[h].asset \/ (Sound(a)' <=> Sound(a))
  <2>1. CASE Writes(h)
    BY <2>1, WritesKeep
  <2>2. CASE ~Writes(h)
    <3>1. UNCHANGED <<source, rewritten>>
      BY <2>2 DEF Writes, CallStep, AnnounceUpload, WritePart, ReadParts, RecordPart, GatherPart,
        ClearScratch, AssembleThrows, MarkQueued, MarkLessonQueued, LookForJob, InsertJob, Crash,
        files, storage
    <3> QED BY <3>1 DEF Sound
  <2> QED BY <2>1, <2>2
<1> QED BY <1>1, <1>2, <1>6, <1>7, <1>8

(* A worker touches the status of an upload with a sound source, and no    *)
(* call and no source.                                                     *)
LEMMA WorkerFacts ==
  ASSUME IInv, NEW w \in Workers, WorkerStep(w) \/ UploadFails(w) \/ WorkerCrash(w)
  PROVE  /\ call' = call /\ UNCHANGED <<source, rewritten>>
         /\ \A v \in Workers \ {w} : worker'[v] = worker[v]
         /\ \A a \in Assets : status'[a] = status[a] \/ (Sound(a) /\ status'[a] # "none")
<1>0. /\ worker \in [Workers -> Tick] /\ worker[w] \in Tick /\ TickOK(w)
      /\ status \in [Assets -> AssetStatus] /\ jobs \in Seq(Job)
  BY DEF IInv, TypeOK
<1>1. call' = call /\ UNCHANGED <<source, rewritten>>
  BY DEF WorkerStep, PickJob, MarkProcessing, Transcode, TranscodeFails, UploadRest, FinishJob,
    ShowInLesson, MarkJobFailed, MarkLessonFailed, UploadFails, WorkerCrash, files, storage, rows
<1>2. \A v \in Workers \ {w} : worker'[v] = worker[v]
  BY <1>0 DEF WorkerStep, PickJob, MarkProcessing, Transcode, TranscodeFails, UploadRest, FinishJob,
    ShowInLesson, MarkJobFailed, MarkLessonFailed, UploadFails, WorkerCrash, Proceed, EndTick
<1>3. CASE FinishJob(w) \/ MarkJobFailed(w)
  <2>1. Current(w) \in DOMAIN jobs
    BY <1>0, <1>3 DEF FinishJob, MarkJobFailed, Now, TickOK, Current
  <2>2. Subject(w) \in Assets /\ Sound(Subject(w))
    BY <1>0, <2>1, JobMoves DEF IInv, JobsHaveSources, Subject
  <2>3. PICK s \in {"ready", "failed"} : status' = [status EXCEPT ![Subject(w)] = s]
    BY <1>3 DEF FinishJob, MarkJobFailed, SetStatus
  <2>4. \A a \in Assets : status'[a] = status[a] \/ (Sound(a) /\ status'[a] # "none")
    BY <1>0, <2>2, <2>3
  <2> QED BY <1>1, <1>2, <2>4
<1>4. CASE status' = status
  BY <1>1, <1>2, <1>4
<1> QED BY <1>3, <1>4 DEF WorkerStep, PickJob, MarkProcessing, Transcode, TranscodeFails,
      UploadRest, ShowInLesson, MarkLessonFailed, UploadFails, WorkerCrash, rows

LEMMA NewUploadsStep == IInv /\ NewUploads /\ [Next]_vars => NewUploads'
<1> SUFFICES ASSUME IInv, NewUploads, [Next]_vars PROVE NewUploads'
  OBVIOUS
<1>0. /\ call \in [Handlers -> Call] /\ status \in [Assets -> AssetStatus]
      /\ source \in [Assets -> SUBSET Parts]
      /\ \A k \in Handlers : ~IsIdle(k) => call[k].asset \in Assets
  BY DEF IInv, TypeOK, CallOK, IsIdle
<1>1. CASE UNCHANGED <<call, status, source, rewritten>>
  BY <1>1 DEF NewUploads, IsIdle, At, Sound
<1>2. ASSUME NEW h \in Handlers, NEW a \in Assets, CreateUploadSession(h, a) PROVE NewUploads'
  <2>1. /\ call'[h].pc = "announce" /\ call'[h].asset = a /\ IsIdle(h)
        /\ \A k \in Handlers \ {h} : call'[k] = call[k]
    BY <1>0, <1>2 DEF CreateUploadSession, Begin, Idle
  <2>2. /\ status[a] = "none" /\ status'[a] = "uploading"
        /\ UNCHANGED <<source, rewritten>> /\ ~Sound(a)
        /\ \A b \in Assets \ {a} : status'[b] = status[b]
    BY <1>0, <1>2 DEF CreateUploadSession, SetStatus, files, storage, NewUploads
  <2>3. \A k \in Handlers \ {h} : ~IsIdle(k) => call[k].asset \in Assets \ {a}
    BY <1>0, <2>2 DEF NewUploads
  <2> QED BY <1>0, <2>1, <2>2, <2>3 DEF NewUploads, IsIdle, At, Sound
<1>3. ASSUME NEW h \in Handlers, NEW a \in Assets, NEW c, Begin(h, c), Known(a), c.asset = a,
             c.pc \in {"gather", "assemble", "open", "read"},
             UNCHANGED <<status, source, rewritten>>
      PROVE  NewUploads'
  <2>1. call'[h] = c /\ \A k \in Handlers \ {h} : call'[k] = call[k]
    BY <1>0, <1>3 DEF Begin
  <2> QED BY <1>0, <1>3, <2>1 DEF NewUploads, Known, IsIdle, At, Sound
<1>4. CASE VideoRequest
  <2>1. PICK h \in Handlers, a \in Assets :
          \/ CreateUploadSession(h, a) \/ CompleteUpload(h, a)
          \/ \E p \in Parts : ReceivePart(h, a, p) \/ ReportPartComplete(h, a, p)
    BY <1>4 DEF VideoRequest
  <2>2. CASE CompleteUpload(h, a)
    BY <1>3, <2>2 DEF CompleteUpload, Completing, Idle, files, storage, rows
  <2>3. ASSUME NEW p \in Parts, ReceivePart(h, a, p) PROVE NewUploads'
    BY <1>3, <2>3 DEF ReceivePart, Idle, files, storage, rows
  <2>4. ASSUME NEW p \in Parts, ReportPartComplete(h, a, p) PROVE NewUploads'
    BY <1>3, <2>4 DEF ReportPartComplete, Idle, files, storage, rows
  <2> QED BY <1>2, <2>1, <2>2, <2>3, <2>4
<1>5. ASSUME NEW h \in Handlers, CallStep(h) \/ Crash(h) PROVE NewUploads'
  BY <1>0, <1>5, CallFacts DEF NewUploads, IsIdle, At
<1>6. ASSUME NEW w \in Workers, WorkerStep(w) \/ UploadFails(w) \/ WorkerCrash(w) PROVE NewUploads'
  BY <1>0, <1>6, WorkerFacts DEF NewUploads, IsIdle, At, Sound
<1>7. ASSUME NEW a \in Assets, NEW p \in Parts, PutToPresignedUrl(a, p) PROVE NewUploads'
  BY <1>1, <1>7 DEF PutToPresignedUrl, rows
<1>8. CASE UNCHANGED vars
  BY <1>1, <1>8 DEF vars, files, storage, rows
<1> QED BY <1>4, <1>5, <1>6, <1>7, <1>8 DEF Next

(* What is coming stays coming while calls run on. *)
LEMMA ComingCall ==
  ASSUME IInv, NEW h \in Handlers, CallStep(h)
  PROVE  /\ Coming => Coming'
         /\ status' # status => Coming'
         /\ \A w \in Workers : worker[w].job \in DOMAIN jobs => Subject(w)' = Subject(w)
         /\ AnnounceUpload(h) \/ Coming' \/ lesson' = lesson
<1>0. /\ call \in [Handlers -> Call] /\ call[h] \in Call /\ CallOK(h) /\ jobs \in Seq(Job)
  BY DEF IInv, TypeOK
<1>1. ~IsIdle(h) /\ call[h].asset \in Assets /\ worker' = worker
      /\ \A k \in Handlers \ {h} : call'[k] = call[k]
  BY CallFacts
<1>2. ASSUME NEW s \in {"lesson", "look", "insert"}, Goto(h, s) PROVE Coming'
  BY <1>0, <1>2 DEF Goto, Coming, Call
<1>3. CASE InsertJob(h)
  <2>1. [asset |-> call[h].asset, state |-> "queued"] \in Job
    BY <1>1 DEF Job, JobState
  <2>2. Len(jobs) + 1 \in DOMAIN jobs' /\ jobs'[Len(jobs) + 1].state = "queued"
    BY <1>0, <1>3, <2>1 DEF InsertJob
  <2>3. Coming'
    BY <2>2 DEF Coming, Queued
  <2>4. \A k \in DOMAIN jobs : jobs'[k] = jobs[k]
    BY <1>0, <1>3, <2>1, JobAdded DEF InsertJob
  <2> QED BY <1>1, <1>3, <2>3, <2>4 DEF Subject, Current, InsertJob
<1>4. CASE LookForJob(h) /\ Return(h)
  <2>1. PICK j \in DOMAIN jobs : jobs[j] = [asset |-> call[h].asset, state |-> "queued"]
    <3>1. ~Goto(h, "insert")
      BY <1>0, <1>4 DEF Goto, Return, Idle, Call
    <3> QED BY <1>4, <3>1 DEF LookForJob
  <2>2. jobs' = jobs /\ status' = status /\ lesson' = lesson
    BY <1>4 DEF LookForJob, rows
  <2>3. Coming'
    BY <2>1, <2>2 DEF Coming, Queued
  <2> QED BY <1>1, <2>2, <2>3 DEF Subject, Current
<1>5. CASE MarkQueued(h) \/ MarkLessonQueued(h) \/ (LookForJob(h) /\ ~Return(h))
  <2>1. Coming' /\ jobs' = jobs
    BY <1>2, <1>5 DEF MarkQueued, MarkLessonQueued, LookForJob, rows
  <2> QED BY <1>1, <2>1 DEF Subject, Current
<1>6. CASE AnnounceUpload(h) \/ WritePart(h) \/ ReadParts(h) \/ RecordPart(h)
           \/ OpenPart(h) \/ GatherPart(h) \/ OpenSource(h) \/ FillSource(h) \/ ClearScratch(h)
           \/ AssembleInBucket(h) \/ AssembleThrows(h)
  <2>1. jobs' = jobs /\ status' = status /\ (AnnounceUpload(h) \/ lesson' = lesson)
    BY <1>6 DEF AnnounceUpload, WritePart, ReadParts, RecordPart, OpenPart, GatherPart, OpenSource,
      FillSource, ClearScratch, AssembleInBucket, AssembleThrows, rows
  <2>2. call[h].pc \notin {"lesson", "look", "insert"}
    BY <1>6 DEF AnnounceUpload, WritePart, ReadParts, RecordPart, OpenPart, GatherPart, OpenSource,
      FillSource, ClearScratch, AssembleInBucket, AssembleThrows, At
  <2>3. Coming => Coming'
    BY <1>1, <2>1, <2>2 DEF Coming, Queued
  <2> QED BY <1>1, <2>1, <2>3 DEF Subject, Current
<1> QED BY <1>3, <1>4, <1>5, <1>6 DEF CallStep

LEMMA ToldByCall ==
  ASSUME IInv, NewUploads, LessonTrue, NEW h \in Handlers, CallStep(h)
  PROVE  LessonTrue'
<1>0. /\ \A w \in Workers : ~Now(w, "idle") => worker[w].job \in DOMAIN jobs
      /\ worker' = worker /\ call[h].asset \in Assets
      /\ Coming => Coming'
      /\ status' # status => Coming'
      /\ \A w \in Workers : worker[w].job \in DOMAIN jobs => Subject(w)' = Subject(w)
      /\ AnnounceUpload(h) \/ Coming' \/ lesson' = lesson
  BY CallFacts, ComingCall DEF IInv, TickOK, Now
<1>1. \A v, w \in Workers : ~Now(v, "idle")' /\ ~Now(w, "idle")' => v = w
  BY <1>0 DEF LessonTrue, Now
<1>2. ASSUME NEW w \in Workers
      PROVE  /\ Now(w, "show")' => status'[Subject(w)'] = "ready" \/ Coming'
             /\ Now(w, "tell")' => status'[Subject(w)'] = "failed" \/ Coming'
  BY <1>0 DEF LessonTrue, Now
<1>3. ASSUME lesson'.video # "none", ~Coming'
      PROVE  \/ \E w \in Workers : ~Now(w, "idle")'
             \/ \E a \in Assets : status'[a] = lesson'.video
  <2>1. CASE AnnounceUpload(h)
    <3>1. status[call[h].asset] = "uploading" /\ status' = status
      BY <2>1 DEF AnnounceUpload, NewUploads
    <3>2. lesson'.video = "uploading"
      BY <2>1 DEF AnnounceUpload, SetVideoStatus, IInv, TypeOK, Lesson
    <3> QED BY <1>0, <3>1, <3>2
  <2>2. CASE lesson' = lesson /\ status' = status
    BY <1>0, <1>3, <2>2 DEF LessonTrue, Now
  <2> QED BY <1>0, <1>3, <2>1, <2>2
<1> QED BY <1>1, <1>2, <1>3 DEF LessonTrue

LEMMA ToldByRequest ==
  ASSUME IInv, NewUploads, LessonTrue,
         VideoRequest \/ \E a \in Assets, p \in Parts : PutToPresignedUrl(a, p)
  PROVE  LessonTrue'
<1>0. /\ call \in [Handlers -> Call] /\ status \in [Assets -> AssetStatus]
      /\ \A w \in Workers : ~Now(w, "idle") => worker[w].job \in DOMAIN jobs
  BY DEF IInv, TypeOK, TickOK, Now
<1>1. UNCHANGED <<worker, jobs, lesson>>
  BY DEF VideoRequest, CreateUploadSession, CompleteUpload, ReceivePart, ReportPartComplete,
    PutToPresignedUrl, rows
<1>2. Coming => Coming'
  <2>1. \A h \in Handlers : IsIdle(h) \/ call'[h] = call[h]
    BY <1>0 DEF VideoRequest, CreateUploadSession, CompleteUpload, ReceivePart,
      ReportPartComplete, PutToPresignedUrl, Begin
  <2> QED BY <1>1, <2>1 DEF Coming, Queued, IsIdle
<1>3. \A a \in Assets : status'[a] = status[a] \/ status[a] = "none"
  BY <1>0 DEF VideoRequest, CreateUploadSession, CompleteUpload, ReceivePart, ReportPartComplete,
    PutToPresignedUrl, SetStatus, rows
<1>4. \A w \in Workers : ~Now(w, "idle") => Subject(w) \in Assets /\ Subject(w)' = Subject(w)
  BY <1>0, <1>1, JobMoves DEF Subject, Current, IInv, TypeOK
<1> QED BY <1>1, <1>2, <1>3, <1>4 DEF LessonTrue, Now

LEMMA ToldByWorker ==
  ASSUME IInv, LessonTrue, NEW w \in Workers, WorkerStep(w), "ticks" \notin overlapped'
  PROVE  LessonTrue'
<1>0. /\ worker \in [Workers -> Tick] /\ worker[w] \in Tick /\ TickOK(w)
      /\ status \in [Assets -> AssetStatus] /\ jobs \in Seq(Job) /\ lesson \in Lesson
  BY DEF IInv, TypeOK
<1>1. /\ call' = call /\ \A v \in Workers \ {w} : worker'[v] = worker[v]
  BY WorkerFacts
<1>2. \A v \in Workers \ {w} : Now(v, "idle") /\ Now(v, "idle")'
  <2>1. CASE PickJob(w)
    BY <1>1, <2>1 DEF PickJob, Now
  <2>2. CASE ~Now(w, "idle")
    BY <1>1, <2>2 DEF LessonTrue, Now
  <2> QED BY <2>1, <2>2 DEF WorkerStep, MarkProcessing, Transcode, TranscodeFails, UploadRest,
        FinishJob, ShowInLesson, MarkJobFailed, MarkLessonFailed, Now
<1>3. ASSUME ~Now(w, "idle")', Now(w, "show")' => status'[Subject(w)'] = "ready",
             Now(w, "tell")' => status'[Subject(w)'] = "failed"
      PROVE  LessonTrue'
  BY <1>2, <1>3 DEF LessonTrue, Now
<1>4. ASSUME NEW s \in {"transcode", "last", "finish", "fail"}, Proceed(w, s) PROVE LessonTrue'
  BY <1>0, <1>3, <1>4 DEF Proceed, Now, Tick
<1>5. CASE PickJob(w)
  BY <1>0, <1>3, <1>5 DEF PickJob, Now
<1>6. CASE FinishJob(w) \/ MarkJobFailed(w)
  <2>1. Current(w) \in DOMAIN jobs /\ Current(w)' = Current(w)
    BY <1>0, <1>6 DEF FinishJob, MarkJobFailed, Now, TickOK, Current, Proceed, Tick
  <2>2. PICK s \in {"done", "failed"} : SetJob(w, s)
    BY <1>6 DEF FinishJob, MarkJobFailed
  <2>3. Subject(w) \in Assets /\ Subject(w)' = Subject(w)
    BY <1>0, <2>1, <2>2, JobMoves DEF Subject, JobState
  <2>4. CASE FinishJob(w)
    BY <1>0, <1>3, <2>3, <2>4 DEF FinishJob, SetStatus, Proceed, Now, Tick
  <2>5. CASE MarkJobFailed(w)
    BY <1>0, <1>3, <2>3, <2>5 DEF MarkJobFailed, SetStatus, Proceed, Now, Tick
  <2> QED BY <1>6, <2>4, <2>5
<1>7. CASE ShowInLesson(w) \/ MarkLessonFailed(w)
  <2>1. Now(w, "idle")' /\ UNCHANGED <<call, jobs, status>>
    BY <1>0, <1>7 DEF ShowInLesson, MarkLessonFailed, EndTick, Rest, Now
  <2>2. Subject(w) \in Assets
    BY <1>0, <1>7, JobMoves DEF ShowInLesson, MarkLessonFailed, Now, TickOK, Current
  <2>3. Coming' = Coming
    BY <2>1 DEF Coming, Queued
  <2>4. status[Subject(w)] = lesson'.video \/ Coming
    BY <1>0, <1>7 DEF ShowInLesson, MarkLessonFailed, SetVideoStatus, LessonTrue, Lesson
  <2>5. \A v \in Workers : Now(v, "idle")'
    BY <1>2, <2>1
  <2> QED BY <2>1, <2>2, <2>3, <2>4, <2>5 DEF LessonTrue, Now
<1> QED BY <1>4, <1>5, <1>6, <1>7 DEF WorkerStep, MarkProcessing, Transcode, TranscodeFails,
      UploadRest

LEMMA ToldStep == IInv /\ NewUploads /\ Told /\ [Next]_vars => Told'
<1> SUFFICES ASSUME IInv, NewUploads, Told, [Next]_vars, faults' = 0, "ticks" \notin overlapped'
             PROVE  LessonTrue'
  BY DEF Told
<1>1. ASSUME LessonTrue, UNCHANGED vars PROVE LessonTrue'
  BY <1>1 DEF LessonTrue, Now, Subject, Current, Coming, Queued, vars, rows
<1>2. ASSUME \/ \E h \in Handlers : Crash(h)
             \/ \E w \in Workers : UploadFails(w) \/ WorkerCrash(w)
      PROVE  FALSE
  BY <1>2 DEF Crash, UploadFails, WorkerCrash, IInv, TypeOK
<1>3. faults = 0 /\ "ticks" \notin overlapped
  BY <1>2 DEF Next, VideoRequest, CreateUploadSession, CompleteUpload, ReceivePart,
    ReportPartComplete, Begin, PutToPresignedUrl, CallStep, AnnounceUpload, WritePart, ReadParts,
    RecordPart, OpenPart, GatherPart, OpenSource, FillSource, ClearScratch, AssembleInBucket,
    AssembleThrows, MarkQueued, MarkLessonQueued, LookForJob, InsertJob, WorkerStep, PickJob,
    MarkProcessing, Transcode, TranscodeFails, UploadRest, FinishJob, ShowInLesson, MarkJobFailed,
    MarkLessonFailed, vars
<1>4. LessonTrue
  BY <1>3 DEF Told
<1> QED BY <1>1, <1>2, <1>4, ToldByCall, ToldByRequest, ToldByWorker DEF Next

(* Without crashes and storage failures, and as long as no two workers ran *)
(* at once: once all calls and jobs are done with, the lesson says of its  *)
(* video what one of its uploads says, whatever calls overlapped.          *)
THEOREM LessonIsTrue == Spec => []LessonAgrees
<1>1. Told => LessonAgrees
  BY DEF Told, LessonTrue, LessonAgrees, Resting, Coming, UploadStatus, IsIdle
<1> QED BY <1>1, NewUploadsInit, NewUploadsStep, ToldStep, Invariant, PTL DEF Spec

-----------------------------------------------------------------------------
(* Beside video: offline copies and bulk enrolment                         *)
HIDE VideoFacts
USE WorkAssumption

-----------------------------------------------------------------------------
(* Offline copies *)

LEMMA FetchNames ==
  /\ Downloads!Step = {"idle", "insert", "process", "put", "finish", "answer", "load", "overdue",
                       "ended", "expire", "found", "delete", "revoke", "read", "touch"}
  /\ Downloads!NoRow \in Downloads!Copy /\ Downloads!Idle \in Downloads!Fetch
  BY DEF Downloads!Step, Downloads!NoRow, Downloads!Copy, Downloads!Idle, Downloads!Fetch

(* A call's record keeps its type whichever way the call moves. *)
LEMMA FetchMoves ==
  ASSUME fetch \in [Handlers -> Downloads!Fetch], NEW f \in Handlers
  PROVE  /\ \A s \in Downloads!Step : Downloads!Goto(f, s) =>
              /\ fetch' \in [Handlers -> Downloads!Fetch]
              /\ fetch'[f] = [fetch[f] EXCEPT !.pc = s]
              /\ \A g \in Handlers \ {f} : fetch'[g] = fetch[g]
         /\ Downloads!Return(f) =>
              /\ fetch' \in [Handlers -> Downloads!Fetch]
              /\ fetch'[f] = Downloads!Idle
              /\ \A g \in Handlers \ {f} : fetch'[g] = fetch[g]
         /\ \A c \in Downloads!Fetch : Downloads!Begin(f, c) =>
              /\ fetch' \in [Handlers -> Downloads!Fetch]
              /\ fetch'[f] = c
              /\ \A g \in Handlers \ {f} : fetch'[g] = fetch[g]
<1>1. ASSUME NEW s \in Downloads!Step, Downloads!Goto(f, s)
      PROVE  /\ fetch' \in [Handlers -> Downloads!Fetch]
             /\ fetch'[f] = [fetch[f] EXCEPT !.pc = s]
             /\ \A g \in Handlers \ {f} : fetch'[g] = fetch[g]
  <2>1. [fetch[f] EXCEPT !.pc = s] \in Downloads!Fetch
    BY DEF Downloads!Fetch
  <2> QED BY <1>1, <2>1 DEF Downloads!Goto
<1>2. ASSUME NEW c \in Downloads!Fetch, fetch' = [fetch EXCEPT ![f] = c]
      PROVE  /\ fetch' \in [Handlers -> Downloads!Fetch]
             /\ fetch'[f] = c
             /\ \A g \in Handlers \ {f} : fetch'[g] = fetch[g]
  BY <1>2
<1> QED BY <1>1, <1>2, FetchNames DEF Downloads!Return, Downloads!Begin

LEMMA DownloadsInit == Downloads!Init => Downloads!IInv
<1> SUFFICES ASSUME Downloads!Init PROVE Downloads!IInv
  OBVIOUS
<1>1. Downloads!TypeOK
  <2>1. fetch \in [Handlers -> Downloads!Fetch] /\ copies \in [Copies -> Downloads!Copy]
    BY FetchNames DEF Downloads!Init
  <2>2. hitches \in 0..MaxHitches
    BY DEF Downloads!Init
  <2> QED BY <2>1, <2>2 DEF Downloads!Init, Downloads!TypeOK
<1>2. \A f \in Handlers : fetch[f].pc = "idle" /\ ~fetch[f].after /\ ~fetch[f].row.key
  BY DEF Downloads!Init, Downloads!Idle, Downloads!NoRow
<1>3. \A c \in Copies : copies[c].status = "none" /\ ~copies[c].key
  BY DEF Downloads!Init, Downloads!NoRow
<1> QED BY <1>1, <1>2, <1>3 DEF Downloads!IInv, Downloads!ReadyHasFile, Downloads!EndedIsRefused,
      Downloads!FetchOK, Downloads!Making

(* One call moves: what it relies on holds of it after the step, and the   *)
(* rows and files that the others rely on stay.                            *)
LEMMA OneFetchMoves ==
  ASSUME Downloads!IInv, Downloads!TypeOK', NEW f \in Handlers,
         \A g \in Handlers \ {f} : fetch'[g] = fetch[g],
         Downloads!FetchOK(f)',
         fetch'[f].pc \in {"read", "touch"} => ~fetch'[f].after,
         fetch'[f].pc \in Downloads!Making =>
           \/ fetch[f].pc \in Downloads!Making /\ fetch'[f].copy = fetch[f].copy
           \/ copies[fetch'[f].copy].status = "none",
         ended' = ended,
         \A c \in Copies :
           /\ copies[c].status # "none" => copies'[c].status # "none"
           /\ copies[c].key => copies'[c].key
           /\ copies'[c].key => copies[c].key \/ (fetch[f].pc = "finish" /\ fetch[f].copy = c)
           /\ copies'[c].status = "ready" => copies'[c].key
           /\ copies'[c].status = "none" => ~copies'[c].key,
         \A c \in bundles : c \in bundles' \/ (fetch[f].pc = "delete" /\ fetch[f].copy = c),
         Downloads!ReadyHasFile'
  PROVE  Downloads!IInv'
<1>0. /\ \A g \in Handlers : Downloads!FetchOK(g) /\ fetch[g] \in Downloads!Fetch
      /\ Downloads!EndedIsRefused
  BY DEF Downloads!IInv, Downloads!TypeOK
<1>1. ASSUME NEW g \in Handlers \ {f} PROVE Downloads!FetchOK(g)'
  <2> DEFINE c == fetch[g]
  <2>0. fetch'[g] = c
    OBVIOUS
  <2>1. c.pc \notin {"idle", "insert"} => c.copy \in Copies /\ copies'[c.copy].status # "none"
    BY <1>0 DEF Downloads!FetchOK
  <2>2. /\ c.after => ended'
        /\ c.pc = "found" /\ c.after => c.row.status # "ready"
        /\ c.pc \in Downloads!Making \union {"insert"} => ~c.row.key
        /\ c.pc = "delete" => c.row.key
    BY <1>0 DEF Downloads!FetchOK
  <2>3. c.row.key => c.copy \in Copies /\ copies'[c.copy].key
    BY <1>0 DEF Downloads!FetchOK
  <2>4. ASSUME c.pc \in Downloads!Making
        PROVE  /\ ~copies'[c.copy].key
               /\ \A k \in Handlers \ {g} :
                    ~(fetch'[k].copy = c.copy /\ fetch'[k].pc \in Downloads!Making)
    <3>1. /\ c.copy \in Copies /\ copies[c.copy].status # "none" /\ ~copies[c.copy].key
          /\ \A k \in Handlers \ {g} :
               ~(fetch[k].copy = c.copy /\ fetch[k].pc \in Downloads!Making)
      BY <1>0, <2>4 DEF Downloads!FetchOK, Downloads!Making
    <3>2. ~copies'[c.copy].key
      BY <3>1 DEF Downloads!Making
    <3>3. ~(fetch'[f].copy = c.copy /\ fetch'[f].pc \in Downloads!Making)
      BY <3>1
    <3> QED BY <3>1, <3>2, <3>3
  <2>5. c.pc = "finish" => c.copy \in bundles'
    <3> SUFFICES ASSUME c.pc = "finish" PROVE c.copy \in bundles'
      OBVIOUS
    <3>1. c.copy \in bundles /\ ~copies[c.copy].key
      BY <1>0 DEF Downloads!FetchOK, Downloads!Making
    <3>2. ~(fetch[f].pc = "delete" /\ fetch[f].copy = c.copy)
      BY <1>0, <3>1 DEF Downloads!FetchOK
    <3> QED BY <3>1, <3>2
  <2> QED BY <2>0, <2>1, <2>2, <2>3, <2>4, <2>5 DEF Downloads!FetchOK
<1>2. Downloads!EndedIsRefused'
  BY <1>0 DEF Downloads!EndedIsRefused
<1>3. \A g \in Handlers : Downloads!FetchOK(g)'
  BY <1>1
<1> QED BY <1>2, <1>3 DEF Downloads!IInv

(* The checks on a copy, and what is answered: the rows and files stay.    *)
LEMMA OnlyFetchMoves ==
  ASSUME Downloads!IInv, NEW f \in Handlers, UNCHANGED <<copies, overdue, ended, bundles>>,
         tangled' \in BOOLEAN, hitches' \in 0..MaxHitches, hitches' >= hitches,
         fetch' \in [Handlers -> Downloads!Fetch],
         \A g \in Handlers \ {f} : fetch'[g] = fetch[g],
         fetch[f].pc = "revoke" => hitches' > 0,
         \/ fetch'[f].pc \notin Downloads!Making
         \/ fetch[f].pc \in Downloads!Making /\ fetch'[f].copy = fetch[f].copy,
         Downloads!FetchOK(f)', fetch'[f].pc \in {"read", "touch"} => ~fetch'[f].after
  PROVE  Downloads!IInv'
<1>0. Downloads!TypeOK /\ Downloads!ReadyHasFile
  BY DEF Downloads!IInv
<1>1. Downloads!TypeOK'
  BY <1>0 DEF Downloads!TypeOK
<1>2. Downloads!ReadyHasFile'
  <2> SUFFICES ASSUME NEW c \in Copies, copies[c].status = "ready", hitches' = 0, c \notin bundles
               PROVE  \E g \in Handlers : fetch'[g].pc = "revoke" /\ fetch'[g].copy = c
    BY DEF Downloads!ReadyHasFile, Downloads!At
  <2>1. hitches = 0
    BY <1>0 DEF Downloads!TypeOK
  <2>2. PICK g \in Handlers : fetch[g].pc = "revoke" /\ fetch[g].copy = c
    BY <1>0, <2>1 DEF Downloads!ReadyHasFile, Downloads!At
  <2> QED BY <2>2
<1>3. \A c \in Copies :
        /\ copies[c].status = "ready" => copies[c].key
        /\ copies[c].status = "none" => ~copies[c].key
  BY DEF Downloads!IInv
<1>4. fetch'[f].pc \in Downloads!Making =>
        fetch[f].pc \in Downloads!Making /\ fetch'[f].copy = fetch[f].copy
  OBVIOUS
<1> QED BY <1>1, <1>2, <1>3, <1>4, OneFetchMoves

LEMMA CreateStep ==
  ASSUME Downloads!IInv, NEW f \in Handlers,
         \/ Downloads!CreateOfflineDownload(f)
         \/ \E c \in Copies, verb \in {"get", "file", "cancel"} : Downloads!LoadOwned(f, c, verb)
  PROVE  Downloads!IInv'
<1>0. /\ Downloads!TypeOK /\ fetch[f].pc = "idle"
      /\ \A g \in Handlers : Downloads!FetchOK(g)
  BY DEF Downloads!IInv, Downloads!CreateOfflineDownload, Downloads!LoadOwned, Downloads!Begin,
     Downloads!At
<1>1. /\ UNCHANGED <<copies, overdue, ended, bundles, hitches>>
      /\ tangled' \in BOOLEAN /\ hitches' \in 0..MaxHitches /\ hitches' >= hitches
  <2>1. UNCHANGED <<copies, overdue, ended, bundles, hitches>>
    BY DEF Downloads!CreateOfflineDownload, Downloads!LoadOwned, Downloads!clock
  <2>2. tangled' = (tangled \/ \E g \in Handlers \ {f} : ~Downloads!At(g, "idle"))
    BY DEF Downloads!CreateOfflineDownload, Downloads!LoadOwned, Downloads!Begin
  <2>3. tangled' \in BOOLEAN
    BY <2>2
  <2> QED BY <1>0, <2>1, <2>3 DEF Downloads!TypeOK
<1>2. CASE Downloads!CreateOfflineDownload(f)
  <2> DEFINE c == [Downloads!Idle EXCEPT !.pc = "insert", !.verb = "create"]
  <2>1. c \in Downloads!Fetch /\ c.pc = "insert" /\ ~c.after /\ ~c.row.key
    BY FetchNames DEF Downloads!Idle, Downloads!Fetch, Downloads!NoRow
  <2>2. Downloads!Begin(f, c)
    BY <1>2 DEF Downloads!CreateOfflineDownload
  <2> HIDE DEF c
  <2>3. /\ fetch' \in [Handlers -> Downloads!Fetch] /\ fetch'[f] = c
        /\ \A g \in Handlers \ {f} : fetch'[g] = fetch[g]
    BY <1>0, <2>1, <2>2, FetchMoves DEF Downloads!TypeOK
  <2>4. Downloads!FetchOK(f)'
    BY <2>1, <2>3 DEF Downloads!FetchOK, Downloads!Making
  <2> QED BY <1>0, <1>1, <2>1, <2>3, <2>4, OnlyFetchMoves DEF Downloads!Making
<1>3. ASSUME NEW d \in Copies, NEW verb \in {"get", "file", "cancel"},
             Downloads!LoadOwned(f, d, verb)
      PROVE  Downloads!IInv'
  <2> DEFINE c == [pc |-> "overdue", copy |-> d, verb |-> verb, row |-> copies[d], after |-> ended]
  <2>1. /\ c \in Downloads!Fetch /\ c.pc = "overdue" /\ c.copy = d /\ c.after = ended
        /\ c.row = copies[d]
    BY <1>0, FetchNames DEF Downloads!Fetch, Downloads!TypeOK
  <2>2. Downloads!Begin(f, c) /\ copies[d].status # "none"
    BY <1>3 DEF Downloads!LoadOwned
  <2> HIDE DEF c
  <2>3. /\ fetch' \in [Handlers -> Downloads!Fetch] /\ fetch'[f] = c
        /\ \A g \in Handlers \ {f} : fetch'[g] = fetch[g]
    BY <1>0, <2>1, <2>2, FetchMoves DEF Downloads!TypeOK
  <2>4. Downloads!FetchOK(f)'
    BY <1>1, <2>1, <2>2, <2>3 DEF Downloads!FetchOK, Downloads!Making
  <2> QED BY <1>0, <1>1, <2>1, <2>3, <2>4, OnlyFetchMoves DEF Downloads!Making
<1> QED BY <1>2, <1>3

(* Looking at a copy, opening, reading and sending its file, and the end   *)
(* of a call by a crash.                                                   *)
LEMMA LookStep ==
  ASSUME Downloads!IInv, NEW f \in Handlers,
         \/ Downloads!CheckEnrolment(f) \/ Downloads!GetOfflineDownload(f)
         \/ Downloads!OpenFile(f) \/ Downloads!ReadFile(f) \/ Downloads!SendFile(f)
         \/ Downloads!StartCancel(f) \/ Downloads!DeleteFails(f) \/ Downloads!Crash(f)
  PROVE  Downloads!IInv'
<1>0. /\ Downloads!TypeOK /\ Downloads!FetchOK(f) /\ fetch[f] \in Downloads!Fetch
      /\ fetch[f].pc \in {"read", "touch"} => ~fetch[f].after
  BY DEF Downloads!IInv, Downloads!TypeOK, Downloads!EndedIsRefused
<1>1. /\ UNCHANGED <<copies, overdue, ended, bundles, tangled>> /\ tangled' \in BOOLEAN
      /\ hitches' \in 0..MaxHitches /\ hitches' >= hitches
      /\ fetch[f].pc = "revoke" => hitches' > 0
  BY <1>0 DEF Downloads!CheckEnrolment, Downloads!GetOfflineDownload, Downloads!OpenFile,
     Downloads!ReadFile, Downloads!SendFile, Downloads!StartCancel, Downloads!DeleteFails,
     Downloads!Crash, Downloads!Hitch, Downloads!clock, Downloads!TypeOK, Downloads!At
<1>2. CASE Downloads!Return(f)
  <2>1. /\ fetch' \in [Handlers -> Downloads!Fetch] /\ fetch'[f] = Downloads!Idle
        /\ \A g \in Handlers \ {f} : fetch'[g] = fetch[g]
    BY <1>0, <1>2, FetchMoves DEF Downloads!TypeOK
  <2>2. fetch'[f].pc = "idle" /\ ~fetch'[f].after /\ ~fetch'[f].row.key
    BY <2>1 DEF Downloads!Idle, Downloads!NoRow
  <2>3. Downloads!FetchOK(f)'
    BY <2>2 DEF Downloads!FetchOK, Downloads!Making
  <2> QED BY <1>1, <2>1, <2>2, <2>3, OnlyFetchMoves DEF Downloads!Making
<1>3. ASSUME NEW s \in {"expire", "found", "read", "touch", "delete", "revoke"},
             Downloads!Goto(f, s), fetch[f].pc \in {"ended", "found", "read", "delete"},
             s = "found" /\ fetch[f].after => fetch[f].row.status # "ready",
             s \in {"read", "touch"} => ~fetch[f].after,
             s = "delete" => fetch[f].row.key
      PROVE  Downloads!IInv'
  <2>0. s \in Downloads!Step
    BY FetchNames
  <2>1. /\ fetch' \in [Handlers -> Downloads!Fetch] /\ fetch'[f] = [fetch[f] EXCEPT !.pc = s]
        /\ \A g \in Handlers \ {f} : fetch'[g] = fetch[g]
    BY <1>0, <1>3, <2>0, FetchMoves DEF Downloads!TypeOK
  <2>2. /\ fetch'[f].pc = s /\ fetch'[f].copy = fetch[f].copy /\ fetch'[f].row = fetch[f].row
        /\ fetch'[f].after = fetch[f].after
    BY <1>0, <2>1 DEF Downloads!Fetch
  <2>3. Downloads!FetchOK(f)'
    BY <1>0, <1>1, <1>3, <2>2 DEF Downloads!FetchOK, Downloads!Making
  <2>4. fetch'[f].pc \in {"read", "touch"} => ~fetch'[f].after
    BY <1>3, <2>2
  <2>5. fetch'[f].pc \notin Downloads!Making
    BY <1>3, <2>2 DEF Downloads!Making
  <2> QED BY <1>1, <2>1, <2>3, <2>4, <2>5, OnlyFetchMoves
<1>4. CASE Downloads!CheckEnrolment(f)
  <2>1. fetch[f].after => ended
    BY <1>0 DEF Downloads!FetchOK
  <2> QED BY <1>3, <1>4, <2>1 DEF Downloads!CheckEnrolment, Downloads!At
<1>5. CASE Downloads!OpenFile(f)
  <2>1. fetch[f].row.status = "ready" => ~fetch[f].after
    BY <1>0, <1>5 DEF Downloads!FetchOK, Downloads!OpenFile, Downloads!At
  <2> QED BY <1>2, <1>3, <1>5, <2>1 DEF Downloads!OpenFile, Downloads!At
<1>6. CASE Downloads!ReadFile(f)
  BY <1>0, <1>2, <1>3, <1>6 DEF Downloads!ReadFile, Downloads!At
<1>7. CASE Downloads!StartCancel(f) \/ Downloads!DeleteFails(f)
  BY <1>3, <1>7 DEF Downloads!StartCancel, Downloads!DeleteFails, Downloads!At
<1> QED BY <1>2, <1>4, <1>5, <1>6, <1>7
        DEF Downloads!GetOfflineDownload, Downloads!SendFile, Downloads!Crash

(* Writes to a row: the call's own.                                        *)
LEMMA RowStep ==
  ASSUME Downloads!IInv, NEW f \in Handlers, NEW d \in Copies, NEW row \in Downloads!Copy,
         copies' = [copies EXCEPT ![d] = row],
         UNCHANGED <<overdue, ended, bundles, tangled, hitches>>,
         fetch' \in [Handlers -> Downloads!Fetch],
         \A g \in Handlers \ {f} : fetch'[g] = fetch[g],
         Downloads!FetchOK(f)', fetch'[f].pc \notin {"read", "touch"},
         fetch'[f].pc \in Downloads!Making =>
           \/ fetch[f].pc \in Downloads!Making /\ fetch'[f].copy = fetch[f].copy
           \/ copies[fetch'[f].copy].status = "none",
         row.status # "none", copies[d].key => row.key,
         row.key => copies[d].key \/ (fetch[f].pc = "finish" /\ fetch[f].copy = d),
         row.status = "ready" => row.key /\ d \in bundles,
         fetch[f].pc = "revoke" => fetch[f].copy = d
  PROVE  Downloads!IInv'
<1>0. Downloads!TypeOK /\ Downloads!ReadyHasFile
  BY DEF Downloads!IInv
<1>1. Downloads!TypeOK'
  BY <1>0 DEF Downloads!TypeOK
<1>2. copies'[d] = row /\ \A c \in Copies \ {d} : copies'[c] = copies[c]
  BY <1>0 DEF Downloads!TypeOK
<1>3. Downloads!ReadyHasFile'
  <2> SUFFICES ASSUME NEW c \in Copies, copies'[c].status = "ready", hitches = 0, c \notin bundles
               PROVE  \E g \in Handlers : fetch'[g].pc = "revoke" /\ fetch'[g].copy = c
    BY DEF Downloads!ReadyHasFile, Downloads!At
  <2>1. c # d /\ copies[c].status = "ready"
    BY <1>2
  <2>2. PICK g \in Handlers : fetch[g].pc = "revoke" /\ fetch[g].copy = c
    BY <1>0, <2>1 DEF Downloads!ReadyHasFile, Downloads!At
  <2> QED BY <2>1, <2>2
<1>4. \A c \in Copies :
        /\ copies[c].status # "none" => copies'[c].status # "none"
        /\ copies[c].key => copies'[c].key
        /\ copies'[c].key => copies[c].key \/ (fetch[f].pc = "finish" /\ fetch[f].copy = c)
        /\ copies'[c].status = "ready" => copies'[c].key
        /\ copies'[c].status = "none" => ~copies'[c].key
  BY <1>2 DEF Downloads!IInv
<1> QED BY <1>1, <1>3, <1>4, OneFetchMoves

LEMMA MakeStep ==
  ASSUME Downloads!IInv, NEW f \in Handlers,
         \/ \E c \in Copies : Downloads!InsertCopy(f, c)
         \/ Downloads!MarkProcessing(f) \/ Downloads!MarkReady(f)
  PROVE  Downloads!IInv'
<1>0. /\ Downloads!TypeOK /\ Downloads!FetchOK(f) /\ fetch[f] \in Downloads!Fetch
      /\ \A g \in Handlers : Downloads!FetchOK(g)
      /\ \A c \in Copies : copies[c] \in Downloads!Copy
  BY DEF Downloads!IInv, Downloads!TypeOK
<1>1. UNCHANGED <<overdue, ended, bundles, tangled, hitches>>
  BY DEF Downloads!InsertCopy, Downloads!MarkProcessing, Downloads!MarkReady, Downloads!clock
<1>2. ASSUME NEW c \in Copies, Downloads!InsertCopy(f, c) PROVE Downloads!IInv'
  <2> DEFINE row == [copies[c] EXCEPT !.status = "queued"]
  <2>1. row \in Downloads!Copy /\ row.status = "queued" /\ row.key = copies[c].key
    BY <1>0 DEF Downloads!Copy
  <2>2. /\ copies' = [copies EXCEPT ![c] = row] /\ copies'[c].key = copies[c].key
        /\ copies'[c].status = "queued" /\ ~copies[c].key /\ copies[c].status = "none"
        /\ fetch[f].pc = "insert"
    BY <1>0, <1>2, <2>1
       DEF Downloads!InsertCopy, Downloads!At, Downloads!IInv, Downloads!TypeOK
  <2>3. /\ fetch' \in [Handlers -> Downloads!Fetch]
        /\ \A g \in Handlers \ {f} : fetch'[g] = fetch[g]
        /\ fetch'[f].pc = "process" /\ fetch'[f].copy = c /\ fetch'[f].row = fetch[f].row
        /\ fetch'[f].after = fetch[f].after
    <3>1. /\ [fetch[f] EXCEPT !.pc = "process", !.copy = c] \in Downloads!Fetch
          /\ fetch' = [fetch EXCEPT ![f] = [fetch[f] EXCEPT !.pc = "process", !.copy = c]]
      BY <1>0, <1>2, FetchNames DEF Downloads!InsertCopy, Downloads!Fetch
    <3> QED BY <1>0, <3>1 DEF Downloads!TypeOK, Downloads!Fetch
  <2>4. \A g \in Handlers \ {f} : ~(fetch[g].copy = c /\ fetch[g].pc \in Downloads!Making)
    BY <1>0, <2>2 DEF Downloads!FetchOK, Downloads!Making
  <2>5. Downloads!FetchOK(f)'
    BY <1>0, <1>1, <2>2, <2>3, <2>4 DEF Downloads!FetchOK, Downloads!Making
  <2> QED BY <1>1, <2>1, <2>2, <2>3, <2>5, RowStep
<1>3. CASE Downloads!MarkProcessing(f)
  <2> DEFINE d == fetch[f].copy
             row == [copies[d] EXCEPT !.status = "processing"]
  <2>0. d \in Copies /\ fetch[f].pc = "process"
    BY <1>0, <1>3 DEF Downloads!MarkProcessing, Downloads!At, Downloads!FetchOK
  <2>1. row \in Downloads!Copy /\ row.status = "processing" /\ row.key = copies[d].key
    BY <1>0, <2>0 DEF Downloads!Copy
  <2>2. copies' = [copies EXCEPT ![d] = row] /\ copies'[d] = row
    BY <1>0, <1>3, <2>0, <2>1 DEF Downloads!MarkProcessing, Downloads!SetCopy, Downloads!TypeOK
  <2>3. /\ fetch' \in [Handlers -> Downloads!Fetch] /\ fetch'[f] = [fetch[f] EXCEPT !.pc = "put"]
        /\ \A g \in Handlers \ {f} : fetch'[g] = fetch[g]
    BY <1>0, <1>3, FetchMoves, FetchNames DEF Downloads!MarkProcessing, Downloads!TypeOK
  <2>4. /\ fetch'[f].pc = "put" /\ fetch'[f].copy = d /\ fetch'[f].row = fetch[f].row
        /\ fetch'[f].after = fetch[f].after
    BY <1>0, <2>3 DEF Downloads!Fetch
  <2>5. Downloads!FetchOK(f)'
    BY <1>0, <1>1, <2>0, <2>1, <2>2, <2>3, <2>4 DEF Downloads!FetchOK, Downloads!Making
  <2> QED BY <1>1, <2>0, <2>1, <2>2, <2>3, <2>4, <2>5, RowStep DEF Downloads!Making
<1>4. CASE Downloads!MarkReady(f)
  <2> DEFINE d == fetch[f].copy
             row == [status |-> "ready", key |-> TRUE]
  <2>0. d \in Copies /\ fetch[f].pc = "finish" /\ d \in bundles
    BY <1>0, <1>4 DEF Downloads!MarkReady, Downloads!At, Downloads!FetchOK
  <2>1. row \in Downloads!Copy
    BY DEF Downloads!Copy
  <2>2. copies' = [copies EXCEPT ![d] = row]
    BY <1>4 DEF Downloads!MarkReady
  <2>3. /\ fetch' \in [Handlers -> Downloads!Fetch] /\ fetch'[f] = Downloads!Idle
        /\ \A g \in Handlers \ {f} : fetch'[g] = fetch[g]
    BY <1>0, <1>4, FetchMoves DEF Downloads!MarkReady, Downloads!TypeOK
  <2>4. fetch'[f].pc = "idle" /\ ~fetch'[f].after /\ ~fetch'[f].row.key
    BY <2>3 DEF Downloads!Idle, Downloads!NoRow
  <2>5. Downloads!FetchOK(f)'
    BY <2>4 DEF Downloads!FetchOK, Downloads!Making
  <2> QED BY <1>1, <2>0, <2>1, <2>2, <2>3, <2>4, <2>5, RowStep DEF Downloads!Making
<1> QED BY <1>2, <1>3, <1>4

LEMMA EndStep ==
  ASSUME Downloads!IInv, NEW f \in Handlers,
         \/ Downloads!CheckOverdue(f) \/ Downloads!ExpireWithEnrolment(f)
         \/ Downloads!MarkRevoked(f)
  PROVE  Downloads!IInv'
<1> DEFINE d == fetch[f].copy
<1>0. /\ Downloads!TypeOK /\ Downloads!FetchOK(f) /\ fetch[f] \in Downloads!Fetch
      /\ d \in Copies /\ copies[d].status # "none" /\ copies[d] \in Downloads!Copy
      /\ fetch[f].pc \notin Downloads!Making /\ fetch[f].row \in Downloads!Copy
  <2>1. Downloads!TypeOK /\ Downloads!FetchOK(f) /\ fetch[f] \in Downloads!Fetch
    BY DEF Downloads!IInv, Downloads!TypeOK
  <2>2. fetch[f].pc \in {"overdue", "expire", "revoke"}
    BY DEF Downloads!CheckOverdue, Downloads!ExpireWithEnrolment, Downloads!MarkRevoked,
       Downloads!At
  <2> QED BY <2>1, <2>2 DEF Downloads!FetchOK, Downloads!Making, Downloads!TypeOK, Downloads!Fetch
<1>1. UNCHANGED <<overdue, ended, bundles, tangled, hitches>>
  BY DEF Downloads!CheckOverdue, Downloads!ExpireWithEnrolment, Downloads!MarkRevoked,
     Downloads!clock
<1>2. ASSUME copies' = [copies EXCEPT ![d].status = "expired"],
             fetch' = [fetch EXCEPT ![f].pc = "found", ![f].row.status = "expired"],
             fetch[f].pc # "revoke"
      PROVE  Downloads!IInv'
  <2> DEFINE row == [copies[d] EXCEPT !.status = "expired"]
             mine == [fetch[f] EXCEPT !.pc = "found",
                                      !.row = [fetch[f].row EXCEPT !.status = "expired"]]
  <2>1. row \in Downloads!Copy /\ row.status = "expired" /\ row.key = copies[d].key
    BY <1>0 DEF Downloads!Copy
  <2>2. copies' = [copies EXCEPT ![d] = row] /\ copies'[d] = row
    BY <1>0, <1>2 DEF Downloads!TypeOK
  <2>3. /\ mine \in Downloads!Fetch /\ mine.pc = "found" /\ mine.copy = d
        /\ mine.row.status = "expired" /\ mine.row.key = fetch[f].row.key
        /\ mine.after = fetch[f].after
    BY <1>0, FetchNames DEF Downloads!Fetch, Downloads!Copy
  <2>4. fetch' = [fetch EXCEPT ![f] = mine]
    BY <1>2
  <2>5. /\ fetch' \in [Handlers -> Downloads!Fetch] /\ fetch'[f] = mine
        /\ \A g \in Handlers \ {f} : fetch'[g] = fetch[g]
    BY <1>0, <2>3, <2>4 DEF Downloads!TypeOK
  <2> HIDE DEF mine, row
  <2>6. Downloads!FetchOK(f)'
    BY <1>0, <1>1, <2>1, <2>2, <2>3, <2>5 DEF Downloads!FetchOK, Downloads!Making
  <2>7. fetch'[f].pc \notin Downloads!Making /\ fetch'[f].pc \notin {"read", "touch"}
    BY <2>3, <2>5 DEF Downloads!Making
  <2>8. /\ row.status # "none" /\ row.status # "ready" /\ (copies[d].key => row.key)
        /\ row.key => copies[d].key
    BY <2>1
  <2> QED BY <1>0, <1>1, <1>2, <2>1, <2>2, <2>5, <2>6, <2>7, <2>8, RowStep
<1>3. CASE Downloads!ExpireWithEnrolment(f)
  BY <1>2, <1>3 DEF Downloads!ExpireWithEnrolment, Downloads!At
<1>4. CASE Downloads!CheckOverdue(f)
  <2>1. CASE Downloads!Goto(f, "ended") /\ copies' = copies
    <3>1. /\ fetch' \in [Handlers -> Downloads!Fetch]
          /\ fetch'[f] = [fetch[f] EXCEPT !.pc = "ended"]
          /\ \A g \in Handlers \ {f} : fetch'[g] = fetch[g]
      BY <1>0, <2>1, FetchMoves, FetchNames DEF Downloads!TypeOK
    <3>2. /\ fetch'[f].pc = "ended" /\ fetch'[f].copy = d /\ fetch'[f].row = fetch[f].row
          /\ fetch'[f].after = fetch[f].after
      BY <1>0, <3>1 DEF Downloads!Fetch
    <3>3. Downloads!FetchOK(f)'
      BY <1>0, <1>1, <2>1, <3>2 DEF Downloads!FetchOK, Downloads!Making
    <3>4. tangled' \in BOOLEAN /\ hitches' \in 0..MaxHitches /\ hitches' >= hitches
      BY <1>0, <1>1 DEF Downloads!TypeOK
    <3>5. fetch[f].pc # "revoke" /\ fetch'[f].pc \notin Downloads!Making
      BY <1>4, <3>2 DEF Downloads!CheckOverdue, Downloads!At, Downloads!Making
    <3> QED BY <1>1, <2>1, <3>1, <3>2, <3>3, <3>4, <3>5, OnlyFetchMoves
  <2> QED BY <1>2, <1>4, <2>1 DEF Downloads!CheckOverdue, Downloads!At
<1>5. CASE Downloads!MarkRevoked(f)
  <2> DEFINE row == [copies[d] EXCEPT !.status = "revoked"]
  <2>1. row \in Downloads!Copy /\ row.status = "revoked" /\ row.key = copies[d].key
    BY <1>0 DEF Downloads!Copy
  <2>2. copies' = [copies EXCEPT ![d] = row]
    BY <1>5 DEF Downloads!MarkRevoked, Downloads!SetCopy
  <2>3. /\ fetch' \in [Handlers -> Downloads!Fetch] /\ fetch'[f] = Downloads!Idle
        /\ \A g \in Handlers \ {f} : fetch'[g] = fetch[g]
    BY <1>0, <1>5, FetchMoves DEF Downloads!MarkRevoked, Downloads!TypeOK
  <2>4. fetch'[f].pc = "idle" /\ ~fetch'[f].after /\ ~fetch'[f].row.key
    BY <2>3 DEF Downloads!Idle, Downloads!NoRow
  <2>5. Downloads!FetchOK(f)'
    BY <2>4 DEF Downloads!FetchOK, Downloads!Making
  <2> HIDE DEF row
  <2> QED BY <1>0, <1>1, <2>1, <2>2, <2>3, <2>4, <2>5, RowStep DEF Downloads!Making
<1> QED BY <1>3, <1>4, <1>5

(* The file: put by the call that makes the copy, taken away by one that   *)
(* cancels it and will then revoke the row.                                *)
LEMMA FileStep ==
  ASSUME Downloads!IInv, NEW f \in Handlers, Downloads!PutFile(f) \/ Downloads!DeleteFile(f)
  PROVE  Downloads!IInv'
<1> DEFINE d == fetch[f].copy
<1>0. /\ Downloads!TypeOK /\ Downloads!FetchOK(f) /\ fetch[f] \in Downloads!Fetch
      /\ Downloads!ReadyHasFile
  BY DEF Downloads!IInv, Downloads!TypeOK
<1>1. UNCHANGED <<copies, overdue, ended, tangled, hitches>>
  BY DEF Downloads!PutFile, Downloads!DeleteFile, Downloads!clock
<1>2. fetch[f].pc \in {"put", "delete"} /\ d \in Copies
  <2>1. fetch[f].pc \in {"put", "delete"}
    BY DEF Downloads!PutFile, Downloads!DeleteFile, Downloads!At
  <2> QED BY <1>0, <2>1 DEF Downloads!FetchOK
<1>3. PICK s \in {"finish", "revoke"} :
        /\ Downloads!Goto(f, s)
        /\ s = "finish" => fetch[f].pc = "put" /\ bundles' = bundles \union {d}
        /\ s = "revoke" => fetch[f].pc = "delete" /\ bundles' = bundles \ {d}
  BY DEF Downloads!PutFile, Downloads!DeleteFile, Downloads!At
<1>4. /\ fetch' \in [Handlers -> Downloads!Fetch] /\ fetch'[f] = [fetch[f] EXCEPT !.pc = s]
      /\ \A g \in Handlers \ {f} : fetch'[g] = fetch[g]
  <2>1. s \in Downloads!Step
    BY FetchNames
  <2> QED BY <1>0, <1>3, <2>1, FetchMoves DEF Downloads!TypeOK
<1>5. /\ fetch'[f].pc = s /\ fetch'[f].copy = d /\ fetch'[f].row = fetch[f].row
      /\ fetch'[f].after = fetch[f].after
  BY <1>0, <1>4 DEF Downloads!Fetch
<1>6. Downloads!FetchOK(f)'
  BY <1>0, <1>1, <1>2, <1>3, <1>4, <1>5 DEF Downloads!FetchOK, Downloads!Making
<1>7. Downloads!TypeOK'
  BY <1>0, <1>1, <1>2, <1>3, <1>4 DEF Downloads!TypeOK
<1>8. Downloads!ReadyHasFile'
  <2> SUFFICES ASSUME NEW c \in Copies, copies[c].status = "ready", hitches = 0, c \notin bundles'
               PROVE  \E g \in Handlers : fetch'[g].pc = "revoke" /\ fetch'[g].copy = c
    BY <1>1 DEF Downloads!ReadyHasFile, Downloads!At
  <2>1. CASE c \in bundles
    BY <1>3, <1>5, <2>1
  <2>2. CASE c \notin bundles
    <3>1. PICK g \in Handlers : fetch[g].pc = "revoke" /\ fetch[g].copy = c
      BY <1>0, <2>2 DEF Downloads!ReadyHasFile, Downloads!At
    <3>2. g # f
      BY <1>2, <3>1
    <3> QED BY <1>4, <3>1, <3>2
  <2> QED BY <2>1, <2>2
<1>9. /\ fetch'[f].pc \in Downloads!Making => fetch[f].pc \in Downloads!Making
      /\ fetch'[f].pc \notin {"read", "touch"}
      /\ \A c \in bundles : c \in bundles' \/ (fetch[f].pc = "delete" /\ fetch[f].copy = c)
      /\ \A c \in Copies :
           /\ copies[c].status = "ready" => copies[c].key
           /\ copies[c].status = "none" => ~copies[c].key
  BY <1>3, <1>5 DEF Downloads!Making, Downloads!IInv
<1> QED BY <1>1, <1>4, <1>5, <1>6, <1>7, <1>8, <1>9, OneFetchMoves

LEMMA DownloadsFrame ==
  ASSUME Downloads!IInv,
         UNCHANGED downloadVars \/ Downloads!EnrolmentEnds \/ \E c \in Copies : Downloads!CopyRunsOut(c)
  PROVE  Downloads!IInv'
<1>1. UNCHANGED <<copies, bundles, fetch, tangled, hitches>> /\ (ended => ended')
  BY DEF downloadVars, Downloads!EnrolmentEnds, Downloads!CopyRunsOut
<1>2. Downloads!TypeOK'
  <2>1. overdue' \subseteq Copies /\ ended' \in BOOLEAN
    BY DEF downloadVars, Downloads!EnrolmentEnds, Downloads!CopyRunsOut, Downloads!IInv,
       Downloads!TypeOK
  <2> QED BY <1>1, <2>1 DEF Downloads!IInv, Downloads!TypeOK
<1>3. \A f \in Handlers : Downloads!FetchOK(f)'
  BY <1>1 DEF Downloads!IInv, Downloads!FetchOK
<1>4. Downloads!ReadyHasFile' /\ Downloads!EndedIsRefused'
  BY <1>1 DEF Downloads!IInv, Downloads!ReadyHasFile, Downloads!EndedIsRefused, Downloads!At
<1> QED BY <1>1, <1>2, <1>3, <1>4 DEF Downloads!IInv

LEMMA DownloadsStep == Downloads!IInv /\ (Downloads!Next \/ UNCHANGED downloadVars) => Downloads!IInv'
<1> SUFFICES ASSUME Downloads!IInv, Downloads!Next \/ UNCHANGED downloadVars
             PROVE  Downloads!IInv'
  OBVIOUS
<1>1. ASSUME NEW f \in Handlers,
             Downloads!FetchStep(f) \/ Downloads!DeleteFails(f) \/ Downloads!Crash(f)
      PROVE  Downloads!IInv'
  BY <1>1, LookStep, MakeStep, EndStep, FileStep DEF Downloads!FetchStep
<1>2. CASE Downloads!OfflineRequest
  BY <1>2, CreateStep DEF Downloads!OfflineRequest
<1> QED BY <1>1, <1>2, DownloadsFrame DEF Downloads!Next

(* A copy shown as ready has its file, unless a cancellation is under way  *)
(* or something failed; a file is never answered to a request made after   *)
(* the enrolment ended; and the call that makes a copy is the only one:    *)
(* for any number of copies and overlapping calls, crashes and failures.   *)
THEOREM CopiesAreSound == WorkSpec => []DownloadsInv
<1>1. WorkInit => Downloads!IInv
  BY DownloadsInit DEF WorkInit
<1>2. Downloads!IInv /\ [WorkNext]_everything => Downloads!IInv'
  BY DownloadsStep DEF WorkNext, VideoMoves, DownloadMoves, BulkMoves, everything
<1>3. WorkSpec => []Downloads!IInv
  BY <1>1, <1>2, PTL DEF WorkSpec
<1> QED BY <1>3, PTL DEF DownloadsInv

-----------------------------------------------------------------------------
(* Bulk enrolment: rows and their counts *)

LEMMA Uploaded ==
  ASSUME NEW u \in Bulk!Uploads
  PROVE  u \in Seq(Bulk!Line) /\ Len(u) \in 1..MaxLines /\ DOMAIN u = 1..Len(u)
<1>1. PICK n \in 1..MaxLines : u \in [1..n -> Bulk!Line]
  BY DEF Bulk!Uploads
<1>2. u \in Seq(Bulk!Line)
  BY <1>1, SeqDef
<1>3. Len(u) \in Nat /\ DOMAIN u = 1..Len(u)
  BY <1>2, LenProperties
<1>4. DOMAIN u = 1..n
  BY <1>1
<1>5. Len(u) = n
  BY <1>1, <1>3, <1>4
<1> QED BY <1>1, <1>2, <1>3, <1>5

(* As many rows as there are, at most, have any one status.                *)
LEMMA Counts ==
  ASSUME NEW table \in Seq(Bulk!Row), NEW s
  PROVE  /\ IsFiniteSet(Bulk!Having(table, s))
         /\ Cardinality(Bulk!Having(table, s)) \in Nat
         /\ Cardinality(Bulk!Having(table, s)) <= Len(table)
<1>1. Len(table) \in Nat /\ DOMAIN table = 1..Len(table)
  BY LenProperties
<1>2. IsFiniteSet(1..Len(table)) /\ Cardinality(1..Len(table)) = Len(table)
  BY <1>1, FS_Interval
<1>3. Bulk!Having(table, s) \subseteq 1..Len(table)
  BY <1>1 DEF Bulk!Having
<1> QED BY <1>2, <1>3, FS_Subset, FS_CardinalityType

(* A valid row is settled: one valid row less, one more of the new status. *)
SettlesRow(table, k, s, new) ==
  /\ table \in Seq(Bulk!Row) /\ new \in Seq(Bulk!Row) /\ DOMAIN new = DOMAIN table
  /\ k \in DOMAIN table /\ table[k].status = "valid" /\ new[k].status = s
  /\ \A i \in DOMAIN table \ {k} : new[i] = table[i]

LEMMA CountsChange ==
  ASSUME NEW table, NEW k, NEW s \in {"skipped", "enrolled"}, NEW new, SettlesRow(table, k, s, new)
  PROVE  /\ Cardinality(Bulk!Having(new, "valid")) = Cardinality(Bulk!Having(table, "valid")) - 1
         /\ Cardinality(Bulk!Having(new, s)) = Cardinality(Bulk!Having(table, s)) + 1
         /\ \A t \in {"skipped", "enrolled"} \ {s} : Bulk!Having(new, t) = Bulk!Having(table, t)
<1>3. Bulk!Having(new, "valid") = Bulk!Having(table, "valid") \ {k} /\ k \in Bulk!Having(table, "valid")
  BY DEF SettlesRow, Bulk!Having
<1>4. Bulk!Having(new, s) = Bulk!Having(table, s) \union {k} /\ k \notin Bulk!Having(table, s)
  BY DEF SettlesRow, Bulk!Having
<1>5. \A t \in {"skipped", "enrolled"} \ {s} : Bulk!Having(new, t) = Bulk!Having(table, t)
  BY DEF SettlesRow, Bulk!Having
<1>8. \A t : IsFiniteSet(Bulk!Having(table, t)) /\ Cardinality(Bulk!Having(table, t)) \in Nat
  BY Counts DEF SettlesRow
<1>6. Cardinality(Bulk!Having(new, "valid")) = Cardinality(Bulk!Having(table, "valid")) - 1
  BY <1>3, <1>8, FS_RemoveElement
<1>7. Cardinality(Bulk!Having(new, s)) = Cardinality(Bulk!Having(table, s)) + 1
  BY <1>4, <1>8, FS_AddElement
<1> QED BY <1>5, <1>6, <1>7

(* The instance counts as this module does.                                *)
LEMMA SameCardinality == \A S : Bulk!Cardinality(S) = Cardinality(S)
BY DEF Bulk!Cardinality, Cardinality

LEMMA ValidCountType ==
  ASSUME NEW u \in Bulk!Uploads
  PROVE  Bulk!ValidCount(u) \in 0..MaxLines
<1> DEFINE V == {i \in DOMAIN u : Bulk!IsValid(u, i)}
<1>1. Len(u) \in 1..MaxLines /\ DOMAIN u = 1..Len(u)
  BY Uploaded
<1>2. IsFiniteSet(1..Len(u)) /\ Cardinality(1..Len(u)) = Len(u)
  BY <1>1, FS_Interval
<1>3. V \subseteq 1..Len(u)
  BY <1>1
<1>4. Cardinality(V) \in Nat /\ Cardinality(V) <= Len(u)
  BY <1>2, <1>3, FS_Subset, FS_CardinalityType
<1>5. Bulk!ValidCount(u) = Cardinality(V)
  BY SameCardinality DEF Bulk!ValidCount
<1> QED BY <1>1, <1>4, <1>5

LEMMA VerdictType ==
  ASSUME NEW u, NEW i
  PROVE  Bulk!StoredVerdict(u, i) \in {"valid", "invalid"}
BY DEF Bulk!StoredVerdict

(* Where no address is repeated, what is written of a line is its own      *)
(* verdict.                                                                *)
LEMMA OwnVerdict ==
  ASSUME NEW u \in Bulk!Uploads, NEW i \in DOMAIN u, Bulk!NoRepeats(u)
  PROVE  Bulk!StoredVerdict(u, i) = IF Bulk!IsValid(u, i) THEN "valid" ELSE "invalid"
<1> DEFINE First(k) == /\ u[k].email = u[i].email
                       /\ \A m \in 1..(k - 1) : u[m].email # u[i].email
<1>0. Len(u) \in 1..MaxLines /\ DOMAIN u = 1..Len(u)
  BY Uploaded
<1>1. \A k \in DOMAIN u : First(k) => k = i
  BY DEF Bulk!NoRepeats
<1>2. First(i)
  <2> SUFFICES ASSUME NEW m \in 1..(i - 1) PROVE u[m].email # u[i].email
    OBVIOUS
  <2>1. m \in DOMAIN u /\ m # i
    BY <1>0
  <2> QED BY <2>1 DEF Bulk!NoRepeats
<1>3. (CHOOSE k \in DOMAIN u : First(k)) = i
  BY <1>1, <1>2
<1> QED BY <1>3 DEF Bulk!StoredVerdict

(* When all rows are written, the valid ones are those counted as valid,   *)
(* and none is enrolled or skipped yet.                                    *)
LEMMA WrittenCounts ==
  ASSUME NEW u \in Bulk!Uploads, NEW table \in Seq(Bulk!Row), Len(table) = Len(u),
         \A i \in DOMAIN table :
           table[i] = [email |-> u[i].email, status |-> Bulk!StoredVerdict(u, i)]
  PROVE  /\ Cardinality(Bulk!Having(table, "enrolled")) = 0
         /\ Cardinality(Bulk!Having(table, "skipped")) = 0
         /\ Bulk!NoRepeats(table) => Cardinality(Bulk!Having(table, "valid")) = Bulk!ValidCount(u)
<1>0. DOMAIN table = DOMAIN u
  BY Uploaded, LenProperties
<1>1. \A i \in DOMAIN table : table[i].status \in {"valid", "invalid"} /\ table[i].email = u[i].email
  BY VerdictType
<1>2. Bulk!Having(table, "enrolled") = {} /\ Bulk!Having(table, "skipped") = {}
  BY <1>1 DEF Bulk!Having
<1>3. ASSUME Bulk!NoRepeats(table)
      PROVE  Cardinality(Bulk!Having(table, "valid")) = Bulk!ValidCount(u)
  <2>1. Bulk!NoRepeats(u)
    BY <1>0, <1>1, <1>3 DEF Bulk!NoRepeats
  <2>2. \A i \in DOMAIN u : table[i].status = "valid" <=> Bulk!IsValid(u, i)
    BY <1>0, <2>1, OwnVerdict
  <2>3. Bulk!Having(table, "valid") = {i \in DOMAIN u : Bulk!IsValid(u, i)}
    BY <1>0, <2>2 DEF Bulk!Having
  <2> QED BY <2>3, SameCardinality DEF Bulk!ValidCount
<1> QED BY <1>2, <1>3, FS_EmptySet
-----------------------------------------------------------------------------
(* Bulk enrolment: what a step of one job leaves alone *)

LEMMA RowsCounted ==
  ASSUME Bulk!TypeOK, NEW j \in Jobs, NEW s
  PROVE  /\ bulkRows[j] \in Seq(Bulk!Row)
         /\ Bulk!RowsWith(j, s) = Cardinality(Bulk!Having(bulkRows[j], s))
         /\ Bulk!RowsWith(j, s) \in Nat /\ Bulk!RowsWith(j, s) <= Len(bulkRows[j])
<1>1. bulkRows[j] \in Seq(Bulk!Row)
  BY DEF Bulk!TypeOK
<1>2. Bulk!RowsWith(j, s) = Cardinality(Bulk!Having(bulkRows[j], s))
  BY SameCardinality DEF Bulk!RowsWith
<1> QED BY <1>1, <1>2, Counts

LEMMA RowsCountedNext ==
  ASSUME Bulk!TypeOK', NEW j \in Jobs, NEW s
  PROVE  /\ bulkRows'[j] \in Seq(Bulk!Row)
         /\ Bulk!RowsWith(j, s)' = Cardinality(Bulk!Having(bulkRows'[j], s))
         /\ Bulk!RowsWith(j, s)' \in Nat /\ Bulk!RowsWith(j, s)' <= Len(bulkRows'[j])
<1>1. bulkRows'[j] \in Seq(Bulk!Row)
  BY DEF Bulk!TypeOK
<1>2. Bulk!RowsWith(j, s)' = Cardinality(Bulk!Having(bulkRows'[j], s))
  BY SameCardinality DEF Bulk!RowsWith
<1> QED BY <1>1, <1>2, Counts

(* A job whose own records do not change keeps its invariant while the     *)
(* roster grows.                                                           *)
LEMMA JobFrame ==
  ASSUME NEW k \in Jobs, bulkJobs'[k] = bulkJobs[k], bulkRows'[k] = bulkRows[k],
         runner'[k] = runner[k], roster \subseteq roster',
         Bulk!TrueReport(k), Bulk!EnrolledAre(k), Bulk!JobOK(k)
  PROVE  Bulk!TrueReport(k)' /\ Bulk!EnrolledAre(k)' /\ Bulk!JobOK(k)'
<1>1. Bulk!TrueReport(k)'
  BY DEF Bulk!TrueReport, Bulk!RowsWith
<1>2. Bulk!EnrolledAre(k)'
  BY DEF Bulk!EnrolledAre
<1>3. /\ Bulk!Written(k) => Bulk!Written(k)'
      /\ Bulk!Counted(k) => Bulk!Counted(k)'
  BY DEF Bulk!Written, Bulk!Counted, Bulk!RowsWith
<1>4. Bulk!JobOK(k)'
  BY <1>3 DEF Bulk!JobOK, Bulk!At, Bulk!MoreRows, Bulk!ThisRow
<1> QED BY <1>1, <1>2, <1>4

LEMMA OneJobMoves ==
  ASSUME Bulk!BulkInv, Bulk!TypeOK', NEW j \in Jobs,
         \A k \in Jobs \ {j} : /\ bulkJobs'[k] = bulkJobs[k] /\ bulkRows'[k] = bulkRows[k]
                               /\ runner'[k] = runner[k],
         roster \subseteq roster',
         Bulk!TrueReport(j)', Bulk!EnrolledAre(j)', Bulk!JobOK(j)'
  PROVE  Bulk!BulkInv'
<1>1. ASSUME NEW k \in Jobs
      PROVE  Bulk!TrueReport(k)' /\ Bulk!EnrolledAre(k)' /\ Bulk!JobOK(k)'
  <2>1. CASE k = j
    BY <2>1
  <2>2. CASE k # j
    BY <2>2, JobFrame DEF Bulk!BulkInv
  <2> QED BY <2>1, <2>2
<1> QED BY <1>1 DEF Bulk!BulkInv

LEMMA BulkFacts ==
  ASSUME Bulk!BulkInv, NEW j \in Jobs
  PROVE  /\ Bulk!TypeOK /\ Bulk!TrueReport(j) /\ Bulk!EnrolledAre(j) /\ Bulk!JobOK(j)
         /\ bulkJobs[j] \in Bulk!Job /\ bulkRows[j] \in Seq(Bulk!Row) /\ runner[j] \in Bulk!Runner
         /\ Len(bulkRows[j]) \in Nat /\ DOMAIN bulkRows[j] = 1..Len(bulkRows[j])
         /\ Bulk!At(j, "idle") \/ bulkJobs[j].status \notin {"none", "completed"}
<1>1. Bulk!TypeOK /\ Bulk!TrueReport(j) /\ Bulk!EnrolledAre(j) /\ Bulk!JobOK(j)
  BY DEF Bulk!BulkInv
<1>2. bulkJobs[j] \in Bulk!Job /\ bulkRows[j] \in Seq(Bulk!Row) /\ runner[j] \in Bulk!Runner
  BY <1>1 DEF Bulk!TypeOK
<1>3. Bulk!At(j, "idle") \/ bulkJobs[j].status \notin {"none", "completed"}
  BY <1>1 DEF Bulk!JobOK
<1> QED BY <1>1, <1>2, <1>3, LenProperties

-----------------------------------------------------------------------------
(* Bulk enrolment: the steps *)

LEMMA IdleRunner ==
  /\ Bulk!Idle \in Bulk!Runner
  /\ \A u \in Bulk!Uploads : [Bulk!Idle EXCEPT !.pc = "insert", !.upload = u] \in Bulk!Runner
<1>1. 1 \in 1..(MaxLines + 1) /\ 0 \in 0..MaxLines
  OBVIOUS
<1>2. Bulk!Idle \in Bulk!Runner
  BY <1>1 DEF Bulk!Idle, Bulk!Runner
<1>3. ASSUME NEW u \in Bulk!Uploads
      PROVE  [Bulk!Idle EXCEPT !.pc = "insert", !.upload = u] \in Bulk!Runner
  BY <1>2 DEF Bulk!Runner
<1> QED BY <1>2, <1>3

LEMMA BulkInit == Bulk!Init => Bulk!BulkInv
<1> SUFFICES ASSUME Bulk!Init PROVE Bulk!BulkInv
  OBVIOUS
<1>1. Bulk!Idle \in Bulk!Runner
  BY IdleRunner
<1>2. Bulk!TypeOK
  <2>1. bulkJobs \in [Jobs -> Bulk!Job] /\ accidents \in 0..MaxAccidents
    BY DEF Bulk!Init, Bulk!Job
  <2>2. bulkRows \in [Jobs -> Seq(Bulk!Row)]
    BY DEF Bulk!Init
  <2> QED BY <1>1, <2>1, <2>2 DEF Bulk!Init, Bulk!TypeOK
<1>3. ASSUME NEW j \in Jobs
      PROVE  Bulk!TrueReport(j) /\ Bulk!EnrolledAre(j) /\ Bulk!JobOK(j)
  <2>1. /\ bulkJobs[j].status = "none" /\ bulkRows[j] = <<>> /\ runner[j].pc = "idle"
        /\ Len(bulkRows[j]) = 0 /\ DOMAIN bulkRows[j] = {}
    BY DEF Bulk!Init, Bulk!Idle
  <2>2. Bulk!TrueReport(j)
    BY <2>1 DEF Bulk!TrueReport
  <2>3. Bulk!EnrolledAre(j)
    BY <2>1 DEF Bulk!EnrolledAre
  <2>4. Bulk!JobOK(j)
    BY <2>1 DEF Bulk!JobOK, Bulk!At
  <2> QED BY <2>2, <2>3, <2>4
<1> QED BY <1>2, <1>3 DEF Bulk!BulkInv

LEMMA CreateJobStep ==
  ASSUME Bulk!BulkInv, NEW j \in Jobs, NEW upload \in Bulk!Uploads,
         Bulk!CreateBulkEnrolmentJob(j, upload)
  PROVE  Bulk!BulkInv'
<1> USE DEF Bulk!CreateBulkEnrolmentJob
<1>0. /\ Bulk!TypeOK /\ Bulk!JobOK(j) /\ bulkJobs[j].status = "none" /\ bulkRows[j] = <<>>
      /\ bulkJobs[j] \in Bulk!Job
  BY BulkFacts DEF Bulk!JobOK
<1>1. Bulk!ValidCount(upload) \in 0..MaxLines /\ Len(upload) \in 1..MaxLines
  BY ValidCountType, Uploaded
<1>2. /\ bulkJobs' \in [Jobs -> Bulk!Job] /\ bulkJobs'[j].status = "pending"
      /\ bulkJobs'[j].valid = Bulk!ValidCount(upload)
      /\ \A k \in Jobs \ {j} : bulkJobs'[k] = bulkJobs[k]
  BY <1>0, <1>1 DEF Bulk!TypeOK, Bulk!Job
<1>3. [Bulk!Idle EXCEPT !.pc = "insert", !.upload = upload] \in Bulk!Runner
  BY IdleRunner
<1>4. /\ runner' \in [Jobs -> Bulk!Runner] /\ runner'[j].pc = "insert" /\ runner'[j].at = 1
      /\ runner'[j].upload = upload /\ runner'[j].enrolled = 0 /\ runner'[j].skipped = 0
      /\ \A k \in Jobs \ {j} : runner'[k] = runner[k]
  BY <1>0, <1>3 DEF Bulk!TypeOK, Bulk!Idle
<1>5. Bulk!TypeOK'
  BY <1>0, <1>2, <1>4 DEF Bulk!TypeOK
<1>6. bulkRows'[j] = <<>> /\ Len(bulkRows'[j]) = 0 /\ DOMAIN bulkRows'[j] = {}
  BY <1>0
<1>7. Bulk!TrueReport(j)' /\ Bulk!EnrolledAre(j)'
  BY <1>2, <1>6 DEF Bulk!TrueReport, Bulk!EnrolledAre
<1>8. Bulk!Written(j)'
  BY <1>1, <1>2, <1>4, <1>6 DEF Bulk!Written
<1>9. Bulk!JobOK(j)'
  BY <1>2, <1>4, <1>6, <1>8 DEF Bulk!JobOK, Bulk!At
<1> QED BY <1>2, <1>4, <1>5, <1>7, <1>9, OneJobMoves

LEMMA InsertRowStep ==
  ASSUME Bulk!BulkInv, NEW j \in Jobs, Bulk!InsertRow(j)
  PROVE  Bulk!BulkInv'
<1> DEFINE r == runner[j]
           row == [email |-> r.upload[r.at].email,
                   status |-> Bulk!StoredVerdict(r.upload, r.at)]
<1>0. /\ Bulk!TypeOK /\ Bulk!Written(j) /\ bulkJobs[j].status \notin {"none", "completed"}
      /\ r \in Bulk!Runner /\ r.pc = "insert" /\ r.at <= Len(r.upload)
      /\ bulkRows[j] \in Seq(Bulk!Row) /\ Len(bulkRows[j]) \in Nat
      /\ DOMAIN bulkRows[j] = 1..Len(bulkRows[j])
  BY BulkFacts DEF Bulk!InsertRow, Bulk!At, Bulk!JobOK
<1>1. r.upload \in Seq(Bulk!Line) /\ Len(r.upload) \in 1..MaxLines /\ r.at \in 1..Len(r.upload)
  BY <1>0, Uploaded DEF Bulk!Written, Bulk!Runner
<1>2. row \in Bulk!Row
  <2>1. r.upload[r.at] \in Bulk!Line
    BY <1>1
  <2> QED BY <2>1, VerdictType DEF Bulk!Row, Bulk!Line
<1>3. /\ runner' \in [Jobs -> Bulk!Runner] /\ runner'[j] = [r EXCEPT !.at = r.at + 1]
      /\ \A k \in Jobs \ {j} : runner'[k] = runner[k]
  <2>1. r.at + 1 \in 1..(MaxLines + 1)
    BY <1>1
  <2>2. [r EXCEPT !.at = r.at + 1] \in Bulk!Runner
    BY <1>0, <2>1 DEF Bulk!Runner
  <2> QED BY <1>0, <2>2 DEF Bulk!InsertRow, Bulk!TypeOK
<1>4. /\ bulkRows' \in [Jobs -> Seq(Bulk!Row)] /\ bulkRows'[j] = Append(bulkRows[j], row)
      /\ \A k \in Jobs \ {j} : bulkRows'[k] = bulkRows[k]
  <2>1. Append(bulkRows[j], row) \in Seq(Bulk!Row)
    BY <1>0, <1>2
  <2> QED BY <1>0, <2>1 DEF Bulk!InsertRow, Bulk!TypeOK
<1>5. UNCHANGED <<bulkJobs, roster, meddled, accidents>>
  BY DEF Bulk!InsertRow
<1>6. Bulk!TypeOK'
  BY <1>0, <1>3, <1>4, <1>5 DEF Bulk!TypeOK
<1>7. /\ runner'[j].pc = "insert" /\ runner'[j].at = r.at + 1 /\ runner'[j].upload = r.upload
      /\ runner'[j].enrolled = r.enrolled /\ runner'[j].skipped = r.skipped
  BY <1>0, <1>3 DEF Bulk!Runner
<1>8. /\ Len(bulkRows'[j]) = r.at /\ DOMAIN bulkRows'[j] = 1..r.at
      /\ bulkRows'[j][r.at] = row
      /\ \A i \in 1..(r.at - 1) : bulkRows'[j][i] = bulkRows[j][i]
  BY <1>0, <1>1, <1>2, <1>4 DEF Bulk!Written
<1>9. ASSUME NEW i \in 1..r.at
      PROVE  bulkRows'[j][i] =
               [email |-> r.upload[i].email, status |-> Bulk!StoredVerdict(r.upload, i)]
  <2>1. CASE i = r.at
    BY <1>8, <2>1
  <2>2. CASE i # r.at
    <3>1. i \in 1..(r.at - 1) /\ i \in DOMAIN bulkRows[j]
      BY <1>0, <1>1, <2>2 DEF Bulk!Written
    <3> QED BY <1>0, <1>8, <3>1 DEF Bulk!Written
  <2> QED BY <2>1, <2>2
<1>10. \A i \in DOMAIN bulkRows'[j] : bulkRows'[j][i].status # "enrolled"
  <2> SUFFICES ASSUME NEW i \in 1..r.at PROVE bulkRows'[j][i].status # "enrolled"
    BY <1>8
  <2>1. bulkRows'[j][i] =
          [email |-> r.upload[i].email, status |-> Bulk!StoredVerdict(r.upload, i)]
    BY <1>9
  <2>2. bulkRows'[j][i].status = Bulk!StoredVerdict(r.upload, i)
    BY <2>1
  <2> QED BY <2>2, VerdictType
<1>13. Bulk!Written(j)'
  <2>1. /\ r.upload \in Bulk!Uploads /\ r.enrolled = 0 /\ r.skipped = 0
        /\ bulkJobs[j].valid = Bulk!ValidCount(r.upload)
    BY <1>0 DEF Bulk!Written
  <2>2. bulkJobs'[j].valid = Bulk!ValidCount(runner'[j].upload)
    BY <1>5, <1>7, <2>1
  <2>3. \A i \in DOMAIN bulkRows'[j] :
          bulkRows'[j][i] = [email |-> runner'[j].upload[i].email,
                             status |-> Bulk!StoredVerdict(runner'[j].upload, i)]
    BY <1>7, <1>8, <1>9
  <2>4. Len(bulkRows'[j]) = runner'[j].at - 1 /\ runner'[j].at <= Len(runner'[j].upload) + 1
    BY <1>1, <1>7, <1>8
  <2> QED BY <1>7, <2>1, <2>2, <2>3, <2>4 DEF Bulk!Written, Bulk!ValidCount, Bulk!StoredVerdict,
               Bulk!IsValid
<1>11. Bulk!TrueReport(j)' /\ Bulk!EnrolledAre(j)'
  BY <1>0, <1>5, <1>10 DEF Bulk!TrueReport, Bulk!EnrolledAre
<1>12. Bulk!JobOK(j)'
  BY <1>0, <1>1, <1>5, <1>7, <1>8, <1>13 DEF Bulk!JobOK, Bulk!At
<1> QED BY <1>3, <1>4, <1>5, <1>6, <1>11, <1>12, OneJobMoves

LEMMA AnswerStep ==
  ASSUME Bulk!BulkInv, NEW j \in Jobs, Bulk!AnswerJob(j)
  PROVE  Bulk!BulkInv'
<1> DEFINE r == runner[j]
           table == bulkRows[j]
<1>0. /\ Bulk!TypeOK /\ Bulk!Written(j) /\ bulkJobs[j].status \notin {"none", "completed"}
      /\ r \in Bulk!Runner /\ r.pc = "insert" /\ r.at > Len(r.upload)
      /\ table \in Seq(Bulk!Row) /\ Len(table) \in Nat /\ DOMAIN table = 1..Len(table)
      /\ Bulk!EnrolledAre(j)
  BY BulkFacts DEF Bulk!AnswerJob, Bulk!At, Bulk!JobOK
<1>1. r.upload \in Bulk!Uploads /\ Len(r.upload) \in 1..MaxLines /\ Len(table) = Len(r.upload)
  BY <1>0, Uploaded DEF Bulk!Written, Bulk!Runner
<1>2. UNCHANGED <<bulkJobs, bulkRows, roster, meddled, accidents>>
  BY DEF Bulk!AnswerJob
<1>3. /\ runner' \in [Jobs -> Bulk!Runner] /\ runner'[j].pc = "start" /\ runner'[j].at = 1
      /\ runner'[j].enrolled = 0 /\ runner'[j].skipped = 0
      /\ \A k \in Jobs \ {j} : runner'[k] = runner[k]
  <2>0. 1 \in 1..(MaxLines + 1) /\ r \in Bulk!Runner
    BY <1>0
  <2>1. [r EXCEPT !.pc = "start", !.at = 1] \in Bulk!Runner
    BY <2>0 DEF Bulk!Runner
  <2>2. runner' = [runner EXCEPT ![j] = [r EXCEPT !.pc = "start", !.at = 1]]
    BY <1>0 DEF Bulk!AnswerJob, Bulk!TypeOK, Bulk!Runner
  <2>3. r.enrolled = 0 /\ r.skipped = 0
    BY <1>0 DEF Bulk!Written
  <2> QED BY <1>0, <2>1, <2>2, <2>3 DEF Bulk!TypeOK, Bulk!Runner
<1>4. Bulk!TypeOK'
  BY <1>0, <1>2, <1>3 DEF Bulk!TypeOK
<1>5. /\ Bulk!RowsWith(j, "enrolled") = 0 /\ Bulk!RowsWith(j, "skipped") = 0
      /\ Bulk!NoRepeats(table) => Bulk!RowsWith(j, "valid") = Bulk!ValidCount(r.upload)
  <2>1. \A i \in DOMAIN table :
          table[i] = [email |-> r.upload[i].email, status |-> Bulk!StoredVerdict(r.upload, i)]
    BY <1>0 DEF Bulk!Written
  <2> QED BY <1>0, <1>1, <2>1, WrittenCounts, RowsCounted
<1>6. Bulk!Counted(j)'
  <2>1. \A s : Bulk!RowsWith(j, s)' = Bulk!RowsWith(j, s)
    BY <1>2 DEF Bulk!RowsWith
  <2>2. bulkJobs[j].valid = Bulk!ValidCount(r.upload) /\ Bulk!ValidCount(r.upload) \in Nat
    BY <1>0, <1>1, ValidCountType DEF Bulk!Written
  <2> QED BY <1>0, <1>2, <1>3, <1>5, <2>1, <2>2 DEF Bulk!Counted
<1>7. Bulk!TrueReport(j)' /\ Bulk!EnrolledAre(j)'
  BY <1>0, <1>2 DEF Bulk!TrueReport, Bulk!EnrolledAre
<1>8. Bulk!JobOK(j)'
  BY <1>0, <1>1, <1>2, <1>3, <1>6 DEF Bulk!JobOK, Bulk!At
<1> QED BY <1>2, <1>3, <1>4, <1>7, <1>8, OneJobMoves
(* The job is taken up, the enrolments are read, and rows are passed over: *)
(* no row and no count changes.                                            *)
LEMMA ReadStep ==
  ASSUME Bulk!BulkInv, NEW j \in Jobs,
         Bulk!MarkProcessing(j) \/ Bulk!ReadEnrolments(j) \/ Bulk!PassRow(j)
  PROVE  Bulk!BulkInv'
<1> DEFINE r == runner[j]
           table == bulkRows[j]
<1>0. /\ Bulk!TypeOK /\ Bulk!Counted(j) /\ bulkJobs[j].status \notin {"none", "completed"}
      /\ r \in Bulk!Runner /\ r.pc \in {"start", "read", "row"}
      /\ table \in Seq(Bulk!Row) /\ Len(table) \in Nat /\ Len(table) <= MaxLines
      /\ Bulk!EnrolledAre(j)
  BY BulkFacts DEF Bulk!MarkProcessing, Bulk!ReadEnrolments, Bulk!PassRow, Bulk!At, Bulk!JobOK
<1>1. UNCHANGED <<bulkRows, roster, meddled, accidents>>
  BY DEF Bulk!MarkProcessing, Bulk!ReadEnrolments, Bulk!PassRow
<1>2. /\ bulkJobs' \in [Jobs -> Bulk!Job] /\ bulkJobs'[j].valid = bulkJobs[j].valid
      /\ bulkJobs'[j].status \notin {"none", "completed"}
      /\ \A k \in Jobs \ {j} : bulkJobs'[k] = bulkJobs[k]
  <2>1. CASE bulkJobs' = bulkJobs
    BY <1>0, <2>1 DEF Bulk!TypeOK
  <2>2. CASE bulkJobs' = [bulkJobs EXCEPT ![j].status = "processing"]
    <3>1. bulkJobs[j] \in Bulk!Job
      BY <1>0 DEF Bulk!TypeOK
    <3>2. [bulkJobs[j] EXCEPT !.status = "processing"] \in Bulk!Job
      BY <3>1 DEF Bulk!Job
    <3> QED BY <1>0, <2>2, <3>1, <3>2 DEF Bulk!TypeOK, Bulk!Job
  <2> QED BY <2>1, <2>2 DEF Bulk!MarkProcessing, Bulk!ReadEnrolments, Bulk!PassRow
<1>3. /\ runner' \in [Jobs -> Bulk!Runner] /\ runner'[j].pc \in {"read", "row"}
      /\ runner'[j].enrolled = r.enrolled /\ runner'[j].skipped = r.skipped
      /\ \/ runner'[j].at = r.at
         \/ /\ runner'[j].at = r.at + 1 /\ r.at <= Len(table) /\ table[r.at].status # "valid"
      /\ \A k \in Jobs \ {j} : runner'[k] = runner[k]
  <2>1. r \in Bulk!Runner /\ roster \in SUBSET Emails
    BY <1>0 DEF Bulk!TypeOK
  <2>2. CASE Bulk!MarkProcessing(j)
    <3>1. [r EXCEPT !.pc = "read"] \in Bulk!Runner
      BY <2>1 DEF Bulk!Runner
    <3>2. runner' = [runner EXCEPT ![j] = [r EXCEPT !.pc = "read"]]
      BY <2>2 DEF Bulk!MarkProcessing, Bulk!Goto
    <3> QED BY <1>0, <3>1, <3>2 DEF Bulk!TypeOK, Bulk!Runner
  <2>3. CASE Bulk!ReadEnrolments(j)
    <3>1. [r EXCEPT !.pc = "row", !.known = roster] \in Bulk!Runner
      BY <2>1 DEF Bulk!Runner
    <3>2. runner' = [runner EXCEPT ![j] = [r EXCEPT !.pc = "row", !.known = roster]]
      BY <1>0, <2>3 DEF Bulk!ReadEnrolments, Bulk!TypeOK
    <3> QED BY <1>0, <3>1, <3>2 DEF Bulk!TypeOK, Bulk!Runner
  <2>4. CASE Bulk!PassRow(j)
    <3>1. r.at <= Len(table) /\ table[r.at].status # "valid" /\ r.pc = "row"
      BY <2>4 DEF Bulk!PassRow, Bulk!MoreRows, Bulk!ThisRow, Bulk!At
    <3>2. r.at + 1 \in 1..(MaxLines + 1)
      BY <1>0, <3>1 DEF Bulk!Runner
    <3>3. [r EXCEPT !.at = r.at + 1] \in Bulk!Runner
      BY <2>1, <3>2 DEF Bulk!Runner
    <3>4. runner' = [runner EXCEPT ![j] = [r EXCEPT !.at = r.at + 1]]
      BY <2>4 DEF Bulk!PassRow
    <3> QED BY <1>0, <3>1, <3>3, <3>4 DEF Bulk!TypeOK, Bulk!Runner
  <2> QED BY <2>2, <2>3, <2>4
<1>4. Bulk!TypeOK'
  BY <1>0, <1>1, <1>2, <1>3 DEF Bulk!TypeOK
<1>5. Bulk!Counted(j)'
  <2>1. \A s : Bulk!RowsWith(j, s)' = Bulk!RowsWith(j, s)
    BY <1>1 DEF Bulk!RowsWith
  <2>2. /\ r.enrolled = Bulk!RowsWith(j, "enrolled") /\ r.skipped = Bulk!RowsWith(j, "skipped")
        /\ Bulk!RowsWith(j, "enrolled") \in Nat
    BY <1>0, RowsCounted DEF Bulk!Counted
  <2>3. /\ runner'[j].at <= Len(table) + 1
        /\ \A i \in 1..(runner'[j].at - 1) : table[i].status # "valid"
    <3>1. /\ r.at \in Nat \ {0} /\ r.at <= Len(table) + 1 /\ Len(table) \in Nat
          /\ \A i \in 1..(r.at - 1) : table[i].status # "valid"
      BY <1>0 DEF Bulk!Counted, Bulk!Runner
    <3>2. CASE runner'[j].at = r.at
      BY <3>1, <3>2
    <3>3. CASE runner'[j].at = r.at + 1 /\ r.at <= Len(table) /\ table[r.at].status # "valid"
      <4>1. \A i \in 1..r.at : i \in 1..(r.at - 1) \/ i = r.at
        BY <3>1
      <4> QED BY <3>1, <3>3, <4>1
    <3> QED BY <1>3, <3>2, <3>3
  <2> QED BY <1>0, <1>1, <1>2, <1>3, <2>1, <2>2, <2>3 DEF Bulk!Counted
<1>6. Bulk!TrueReport(j)' /\ Bulk!EnrolledAre(j)'
  BY <1>0, <1>1, <1>2 DEF Bulk!TrueReport, Bulk!EnrolledAre
<1>7. Bulk!JobOK(j)'
  BY <1>0, <1>1, <1>2, <1>3, <1>5 DEF Bulk!JobOK, Bulk!At
<1> QED BY <1>1, <1>2, <1>3, <1>4, <1>6, <1>7, OneJobMoves

(* A job stops: it clashed with somebody else's enrolment, or crashed.     *)
LEMMA StopStep ==
  ASSUME Bulk!BulkInv, NEW j \in Jobs, Bulk!EnrolClashes(j) \/ Bulk!Crash(j)
  PROVE  Bulk!BulkInv'
<1>0. /\ Bulk!TypeOK /\ bulkJobs[j].status \notin {"none", "completed"}
      /\ Bulk!EnrolledAre(j) /\ Len(bulkRows[j]) <= MaxLines
  BY BulkFacts DEF Bulk!EnrolClashes, Bulk!Crash, Bulk!At, Bulk!JobOK
<1>1. /\ UNCHANGED <<bulkJobs, bulkRows, roster, meddled>>
      /\ accidents' \in {accidents, accidents + 1} /\ (accidents' = accidents \/ accidents < MaxAccidents)
      /\ runner' = [runner EXCEPT ![j] = Bulk!Idle]
  BY DEF Bulk!EnrolClashes, Bulk!Crash
<1>2. /\ runner' \in [Jobs -> Bulk!Runner] /\ runner'[j].pc = "idle"
      /\ \A k \in Jobs \ {j} : runner'[k] = runner[k]
  <2>1. runner'[j] = Bulk!Idle /\ \A k \in Jobs \ {j} : runner'[k] = runner[k]
    BY <1>0, <1>1 DEF Bulk!TypeOK
  <2> QED BY <1>0, <1>1, <2>1, IdleRunner DEF Bulk!TypeOK, Bulk!Idle
<1>3. Bulk!TypeOK'
  BY <1>0, <1>1, <1>2 DEF Bulk!TypeOK
<1>4. Bulk!TrueReport(j)' /\ Bulk!EnrolledAre(j)' /\ Bulk!JobOK(j)'
  BY <1>0, <1>1, <1>2 DEF Bulk!TrueReport, Bulk!EnrolledAre, Bulk!JobOK, Bulk!At
<1> QED BY <1>1, <1>2, <1>3, <1>4, OneJobMoves

(* The job completes: it has passed every row, so none is left valid.      *)
LEMMA CompleteStep ==
  ASSUME Bulk!BulkInv, NEW j \in Jobs, Bulk!CompleteJob(j)
  PROVE  Bulk!BulkInv'
<1> DEFINE r == runner[j]
           table == bulkRows[j]
<1>0. /\ Bulk!TypeOK /\ Bulk!Counted(j) /\ r \in Bulk!Runner /\ r.pc = "row"
      /\ r.at > Len(table) /\ table \in Seq(Bulk!Row) /\ Len(table) \in Nat
      /\ DOMAIN table = 1..Len(table) /\ Len(table) <= MaxLines
      /\ Bulk!EnrolledAre(j) /\ bulkJobs[j] \in Bulk!Job
  <2>1. r.pc = "row" /\ ~(r.at <= Len(table))
    BY DEF Bulk!CompleteJob, Bulk!At, Bulk!MoreRows
  <2>2. /\ Bulk!TypeOK /\ Bulk!JobOK(j) /\ r \in Bulk!Runner /\ table \in Seq(Bulk!Row)
        /\ Len(table) \in Nat /\ DOMAIN table = 1..Len(table)
        /\ Bulk!EnrolledAre(j) /\ bulkJobs[j] \in Bulk!Job
    BY BulkFacts
  <2>3. Len(table) <= MaxLines /\ Bulk!Counted(j)
    BY <2>1, <2>2 DEF Bulk!JobOK
  <2>4. r.at \in Nat
    BY <2>2 DEF Bulk!Runner
  <2> QED BY <2>1, <2>2, <2>3, <2>4
<1>1. UNCHANGED <<bulkRows, roster, meddled, accidents>>
  BY DEF Bulk!CompleteJob
<1>2. /\ runner' \in [Jobs -> Bulk!Runner] /\ runner'[j].pc = "idle"
      /\ \A k \in Jobs \ {j} : runner'[k] = runner[k]
  <2>1. runner' = [runner EXCEPT ![j] = Bulk!Idle]
    BY DEF Bulk!CompleteJob
  <2>2. runner'[j] = Bulk!Idle /\ \A k \in Jobs \ {j} : runner'[k] = runner[k]
    BY <1>0, <2>1 DEF Bulk!TypeOK
  <2> QED BY <1>0, <2>1, <2>2, IdleRunner DEF Bulk!TypeOK, Bulk!Idle
<1>3. /\ bulkJobs' \in [Jobs -> Bulk!Job] /\ bulkJobs'[j].status = "completed"
      /\ bulkJobs'[j].enrolled = r.enrolled /\ bulkJobs'[j].skipped = r.skipped
      /\ bulkJobs'[j].valid = bulkJobs[j].valid
      /\ \A k \in Jobs \ {j} : bulkJobs'[k] = bulkJobs[k]
  <2> DEFINE job == [bulkJobs[j] EXCEPT !.status = "completed", !.enrolled = r.enrolled,
                                        !.skipped = r.skipped]
  <2>1. r.enrolled \in 0..MaxLines /\ r.skipped \in 0..MaxLines
    BY <1>0 DEF Bulk!Runner
  <2>2. job \in Bulk!Job
    BY <1>0, <2>1 DEF Bulk!Job
  <2>3. bulkJobs' = [bulkJobs EXCEPT ![j] = job]
    BY <1>0 DEF Bulk!CompleteJob, Bulk!TypeOK, Bulk!Job
  <2> QED BY <1>0, <2>2, <2>3 DEF Bulk!TypeOK, Bulk!Job
<1>4. Bulk!TypeOK'
  BY <1>0, <1>1, <1>2, <1>3 DEF Bulk!TypeOK
<1>5. /\ Bulk!RowsWith(j, "valid") = 0
      /\ r.enrolled = Bulk!RowsWith(j, "enrolled") /\ Bulk!RowsWith(j, "enrolled") \in Nat
      /\ r.skipped = Bulk!RowsWith(j, "skipped") /\ Bulk!RowsWith(j, "skipped") \in Nat
      /\ Bulk!NoRepeats(table) =>
           bulkJobs[j].valid =
             Bulk!RowsWith(j, "valid") + Bulk!RowsWith(j, "enrolled") + Bulk!RowsWith(j, "skipped")
  <2>1. Bulk!Having(table, "valid") = {}
    BY <1>0 DEF Bulk!Counted, Bulk!Having, Bulk!Runner
  <2>2. Bulk!RowsWith(j, "valid") = 0
    BY <1>0, <2>1, RowsCounted, FS_EmptySet
  <2> QED BY <1>0, <2>2, RowsCounted DEF Bulk!Counted
<1>6. Bulk!TrueReport(j)'
  <2>1. \A s : Bulk!RowsWith(j, s)' = Bulk!RowsWith(j, s)
    BY <1>1 DEF Bulk!RowsWith
  <2> QED BY <1>1, <1>3, <1>5, <2>1 DEF Bulk!TrueReport
<1>7. Bulk!EnrolledAre(j)' /\ Bulk!JobOK(j)'
  BY <1>0, <1>1, <1>2, <1>3 DEF Bulk!EnrolledAre, Bulk!JobOK, Bulk!At
<1> QED BY <1>1, <1>2, <1>3, <1>4, <1>6, <1>7, OneJobMoves

(* A valid row is there to be dealt with.                                  *)
LEMMA ValidRow ==
  ASSUME Bulk!BulkInv, NEW j \in Jobs,
         Bulk!SkipRow(j) \/ Bulk!EnrolRow(j) \/ Bulk!MarkEnrolled(j)
  PROVE  /\ Bulk!TypeOK /\ Bulk!Counted(j) /\ Bulk!EnrolledAre(j)
         /\ bulkJobs[j].status \notin {"none", "completed"}
         /\ runner[j] \in Bulk!Runner /\ runner[j].at \in 1..Len(bulkRows[j])
         /\ bulkRows[j] \in Seq(Bulk!Row) /\ Len(bulkRows[j]) \in 0..MaxLines
         /\ DOMAIN bulkRows[j] = 1..Len(bulkRows[j])
         /\ bulkRows[j][runner[j].at].status = "valid"
<1>1. /\ Bulk!TypeOK /\ Bulk!JobOK(j) /\ Bulk!EnrolledAre(j)
      /\ runner[j] \in Bulk!Runner /\ bulkRows[j] \in Seq(Bulk!Row)
      /\ Len(bulkRows[j]) \in Nat /\ DOMAIN bulkRows[j] = 1..Len(bulkRows[j])
      /\ runner[j].pc = "idle" \/ bulkJobs[j].status \notin {"none", "completed"}
  BY BulkFacts DEF Bulk!At
<1>2. /\ runner[j].pc \in {"row", "mark"}
      /\ runner[j].at <= Len(bulkRows[j]) /\ bulkRows[j][runner[j].at].status = "valid"
  <2>1. CASE Bulk!SkipRow(j) \/ Bulk!EnrolRow(j)
    BY <2>1 DEF Bulk!SkipRow, Bulk!EnrolRow, Bulk!At, Bulk!MoreRows, Bulk!ThisRow
  <2>2. CASE Bulk!MarkEnrolled(j)
    BY <1>1, <2>2 DEF Bulk!MarkEnrolled, Bulk!JobOK, Bulk!At, Bulk!MoreRows, Bulk!ThisRow
  <2> QED BY <2>1, <2>2
<1>3. Len(bulkRows[j]) <= MaxLines /\ Bulk!Counted(j)
  BY <1>1, <1>2 DEF Bulk!JobOK
<1>4. runner[j].at \in 1..Len(bulkRows[j])
  BY <1>1, <1>2 DEF Bulk!Runner
<1> QED BY <1>1, <1>2, <1>3, <1>4

(* A row is settled: what its job knows of the counts holds for one valid  *)
(* row less, and one row more of the new status.                           *)
LEMMA RowSettled ==
  ASSUME Bulk!BulkInv, NEW j \in Jobs, NEW s \in {"skipped", "enrolled"},
         Bulk!SkipRow(j) \/ Bulk!MarkEnrolled(j), Bulk!SetRow(j, s)
  PROVE  /\ bulkRows' \in [Jobs -> Seq(Bulk!Row)]
         /\ \A k \in Jobs \ {j} : bulkRows'[k] = bulkRows[k]
         /\ Len(bulkRows'[j]) = Len(bulkRows[j]) /\ DOMAIN bulkRows'[j] = DOMAIN bulkRows[j]
         /\ \A i \in DOMAIN bulkRows[j] : bulkRows'[j][i].email = bulkRows[j][i].email
         /\ \A i \in DOMAIN bulkRows[j] \ {runner[j].at} : bulkRows'[j][i] = bulkRows[j][i]
         /\ bulkRows'[j][runner[j].at].status = s
         /\ Bulk!RowsWith(j, "valid")' = Bulk!RowsWith(j, "valid") - 1
         /\ Bulk!RowsWith(j, s)' = Bulk!RowsWith(j, s) + 1
         /\ Bulk!RowsWith(j, s)' \in 0..MaxLines
         /\ \A t \in {"skipped", "enrolled"} \ {s} : Bulk!RowsWith(j, t)' = Bulk!RowsWith(j, t)
<1> DEFINE table == bulkRows[j]
           at == runner[j].at
           new == [table EXCEPT ![at] = [table[at] EXCEPT !.status = s]]
<1>0. /\ Bulk!TypeOK /\ table \in Seq(Bulk!Row) /\ Len(table) \in 0..MaxLines
      /\ DOMAIN table = 1..Len(table) /\ at \in 1..Len(table) /\ table[at].status = "valid"
  BY ValidRow
<1>1. table[at] \in Bulk!Row /\ [table[at] EXCEPT !.status = s] \in Bulk!Row
  <2>1. table[at] \in Bulk!Row
    BY <1>0
  <2> QED BY <2>1 DEF Bulk!Row
<1>2. new \in Seq(Bulk!Row)
  BY <1>0, <1>1
<1>3. bulkRows' = [bulkRows EXCEPT ![j] = new]
  BY DEF Bulk!SetRow
<1>4. bulkRows'[j] = new /\ \A k \in Jobs \ {j} : bulkRows'[k] = bulkRows[k]
  BY <1>0, <1>3 DEF Bulk!TypeOK
<1>5. bulkRows' \in [Jobs -> Seq(Bulk!Row)]
  BY <1>0, <1>2, <1>3 DEF Bulk!TypeOK
<1>6. /\ DOMAIN new = DOMAIN table /\ new[at].status = s /\ new[at].email = table[at].email
      /\ \A i \in DOMAIN table \ {at} : new[i] = table[i]
  BY <1>0, <1>1 DEF Bulk!Row
<1>13. Len(new) = Len(table)
  BY <1>0, <1>2, <1>6, LenProperties
<1>7. /\ Cardinality(Bulk!Having(new, "valid")) = Cardinality(Bulk!Having(table, "valid")) - 1
      /\ Cardinality(Bulk!Having(new, s)) = Cardinality(Bulk!Having(table, s)) + 1
      /\ \A t \in {"skipped", "enrolled"} \ {s} : Bulk!Having(new, t) = Bulk!Having(table, t)
  <2> HIDE DEF new
  <2>1. SettlesRow(table, at, s, new)
    BY <1>0, <1>2, <1>6 DEF SettlesRow
  <2> QED BY <2>1, CountsChange
<1>8. \A t : Bulk!RowsWith(j, t)' = Cardinality(Bulk!Having(new, t))
  BY <1>4, SameCardinality DEF Bulk!RowsWith
<1>9. \A t : Bulk!RowsWith(j, t) = Cardinality(Bulk!Having(table, t))
  BY SameCardinality DEF Bulk!RowsWith
<1>10. Cardinality(Bulk!Having(new, s)) \in Nat /\ Cardinality(Bulk!Having(new, s)) <= Len(new)
  BY <1>2, Counts
<1> HIDE DEF new
<1>11. Bulk!RowsWith(j, s)' \in 0..MaxLines
  BY <1>0, <1>7, <1>8, <1>10, <1>13
<1>12. \A i \in DOMAIN table : new[i].email = table[i].email
  BY <1>6
<1> QED BY <1>12, <1>13, <1>6, <1>4, <1>5, <1>7, <1>8, <1>9, <1>11

LEMMA SameRepeats ==
  ASSUME NEW table, NEW new, DOMAIN new = DOMAIN table,
         \A i \in DOMAIN table : new[i].email = table[i].email
  PROVE  Bulk!NoRepeats(new) => Bulk!NoRepeats(table)
BY DEF Bulk!NoRepeats

(* The row after a settled one: the rows passed stay settled.              *)
LEMMA SkipStep ==
  ASSUME Bulk!BulkInv, NEW j \in Jobs, Bulk!SkipRow(j) \/ Bulk!MarkEnrolled(j)
  PROVE  Bulk!BulkInv'
<1> DEFINE r == runner[j]
           table == bulkRows[j]
<1>0. /\ Bulk!TypeOK /\ Bulk!Counted(j) /\ Bulk!EnrolledAre(j)
      /\ bulkJobs[j].status \notin {"none", "completed"}
      /\ r \in Bulk!Runner /\ r.at \in 1..Len(table)
      /\ table \in Seq(Bulk!Row) /\ Len(table) \in 0..MaxLines /\ DOMAIN table = 1..Len(table)
      /\ table[r.at].status = "valid"
  BY ValidRow
<1>1. UNCHANGED <<bulkJobs, roster, meddled, accidents>>
  BY DEF Bulk!SkipRow, Bulk!MarkEnrolled
<1>2. PICK s \in {"skipped", "enrolled"} :
        /\ Bulk!SetRow(j, s)
        /\ s = "skipped" => Bulk!SkipRow(j)
        /\ s = "enrolled" => Bulk!MarkEnrolled(j)
  BY DEF Bulk!SkipRow, Bulk!MarkEnrolled
<1>3. /\ bulkRows' \in [Jobs -> Seq(Bulk!Row)]
      /\ \A k \in Jobs \ {j} : bulkRows'[k] = bulkRows[k]
      /\ Len(bulkRows'[j]) = Len(table) /\ DOMAIN bulkRows'[j] = DOMAIN table
      /\ \A i \in DOMAIN table : bulkRows'[j][i].email = table[i].email
      /\ \A i \in DOMAIN table \ {r.at} : bulkRows'[j][i] = table[i]
      /\ bulkRows'[j][r.at].status = s
      /\ Bulk!RowsWith(j, "valid")' = Bulk!RowsWith(j, "valid") - 1
      /\ Bulk!RowsWith(j, s)' = Bulk!RowsWith(j, s) + 1
      /\ Bulk!RowsWith(j, s)' \in 0..MaxLines
      /\ \A t \in {"skipped", "enrolled"} \ {s} : Bulk!RowsWith(j, t)' = Bulk!RowsWith(j, t)
  BY <1>2, RowSettled
<1>4. /\ Bulk!RowsWith(j, "valid") \in Nat /\ Bulk!RowsWith(j, "enrolled") \in Nat
      /\ Bulk!RowsWith(j, "skipped") \in Nat
  BY <1>0, RowsCounted
<1>5. /\ r.skipped = Bulk!RowsWith(j, "skipped") /\ r.at <= Len(table) + 1
      /\ r.pc = "row" => r.enrolled = Bulk!RowsWith(j, "enrolled")
      /\ r.pc = "mark" => r.enrolled = Bulk!RowsWith(j, "enrolled") + 1
      /\ \A i \in 1..(r.at - 1) : table[i].status # "valid"
      /\ Bulk!NoRepeats(table) =>
           bulkJobs[j].valid =
             Bulk!RowsWith(j, "valid") + Bulk!RowsWith(j, "enrolled") + Bulk!RowsWith(j, "skipped")
  BY <1>0, <1>4 DEF Bulk!Counted
<1>6. /\ runner' \in [Jobs -> Bulk!Runner] /\ runner'[j].pc = "row" /\ runner'[j].at = r.at + 1
      /\ runner'[j].enrolled = Bulk!RowsWith(j, "enrolled")'
      /\ runner'[j].skipped = Bulk!RowsWith(j, "skipped")'
      /\ \A k \in Jobs \ {j} : runner'[k] = runner[k]
  <2>1. r.at + 1 \in 1..(MaxLines + 1) /\ r \in Bulk!Runner
    BY <1>0
  <2>2. CASE s = "skipped"
    <3>1. r.pc = "row" /\ runner' = [runner EXCEPT ![j] = [r EXCEPT !.at = r.at + 1, !.skipped = r.skipped + 1]]
      BY <1>0, <1>2, <2>2 DEF Bulk!SkipRow, Bulk!At, Bulk!TypeOK, Bulk!Runner
    <3>2. r.skipped + 1 \in 0..MaxLines
      BY <1>3, <1>5, <2>2
    <3>3. [r EXCEPT !.at = r.at + 1, !.skipped = r.skipped + 1] \in Bulk!Runner
      BY <2>1, <3>2 DEF Bulk!Runner
    <3>4. runner'[j] = [r EXCEPT !.at = r.at + 1, !.skipped = r.skipped + 1]
      BY <1>0, <3>1 DEF Bulk!TypeOK
    <3>5. /\ runner'[j].pc = "row" /\ runner'[j].at = r.at + 1
          /\ runner'[j].enrolled = r.enrolled /\ runner'[j].skipped = r.skipped + 1
      <4>1. \A q \in Bulk!Runner : LET n == [q EXCEPT !.at = r.at + 1, !.skipped = r.skipped + 1] IN
              n.pc = q.pc /\ n.at = r.at + 1 /\ n.enrolled = q.enrolled
                /\ n.skipped = r.skipped + 1
        BY DEF Bulk!Runner
      <4> QED BY <2>1, <3>1, <3>4, <4>1
    <3> QED BY <1>0, <1>3, <1>5, <2>2, <3>1, <3>3, <3>5 DEF Bulk!TypeOK
  <2>3. CASE s = "enrolled"
    <3>1. r.pc = "mark" /\ runner' = [runner EXCEPT ![j] = [r EXCEPT !.pc = "row", !.at = r.at + 1]]
      BY <1>0, <1>2, <2>3 DEF Bulk!MarkEnrolled, Bulk!At, Bulk!TypeOK, Bulk!Runner
    <3>3. [r EXCEPT !.pc = "row", !.at = r.at + 1] \in Bulk!Runner
      BY <2>1 DEF Bulk!Runner
    <3>4. runner'[j] = [r EXCEPT !.pc = "row", !.at = r.at + 1]
      BY <1>0, <3>1 DEF Bulk!TypeOK
    <3>5. \A q \in Bulk!Runner : LET n == [q EXCEPT !.pc = "row", !.at = r.at + 1] IN
            n.pc = "row" /\ n.at = r.at + 1 /\ n.enrolled = q.enrolled /\ n.skipped = q.skipped
      BY DEF Bulk!Runner
    <3>6. /\ runner'[j].pc = "row" /\ runner'[j].at = r.at + 1
          /\ runner'[j].enrolled = r.enrolled /\ runner'[j].skipped = r.skipped
      BY <2>1, <3>4, <3>5
    <3> QED BY <1>0, <1>3, <1>5, <2>3, <3>1, <3>3, <3>6 DEF Bulk!TypeOK
  <2> QED BY <2>2, <2>3
<1>7. Bulk!TypeOK'
  BY <1>0, <1>1, <1>3, <1>6 DEF Bulk!TypeOK
<1>8. Bulk!Counted(j)'
  <2>1. Bulk!NoRepeats(bulkRows'[j]) =>
          bulkJobs'[j].valid = Bulk!RowsWith(j, "valid")' + Bulk!RowsWith(j, "enrolled")'
                                 + Bulk!RowsWith(j, "skipped")'
    <3>1. Bulk!NoRepeats(bulkRows'[j]) => Bulk!NoRepeats(table)
      BY <1>3, SameRepeats
    <3>2. bulkJobs'[j].valid = bulkJobs[j].valid
      BY <1>1
    <3>3. CASE s = "skipped"
      <4>1. Bulk!RowsWith(j, "enrolled")' = Bulk!RowsWith(j, "enrolled")
        BY <1>3, <3>3
      <4> QED BY <1>3, <1>4, <1>5, <3>1, <3>2, <3>3, <4>1
    <3>4. CASE s = "enrolled"
      <4>1. Bulk!RowsWith(j, "skipped")' = Bulk!RowsWith(j, "skipped")
        BY <1>3, <3>4
      <4> QED BY <1>3, <1>4, <1>5, <3>1, <3>2, <3>4, <4>1
    <3> QED BY <3>3, <3>4
  <2>2. \A i \in 1..r.at : bulkRows'[j][i].status # "valid"
    <3> SUFFICES ASSUME NEW i \in 1..r.at PROVE bulkRows'[j][i].status # "valid"
      OBVIOUS
    <3>1. CASE i = r.at
      BY <1>2, <1>3, <3>1
    <3>2. CASE i # r.at
      <4>1. i \in 1..(r.at - 1) /\ i \in DOMAIN table \ {r.at}
        BY <1>0, <3>2
      <4> QED BY <1>3, <1>5, <4>1
    <3> QED BY <3>1, <3>2
  <2>3. Bulk!RowsWith(j, "enrolled")' \in Nat
    BY <1>7, RowsCountedNext
  <2> QED BY <1>0, <1>3, <1>6, <2>1, <2>2, <2>3 DEF Bulk!Counted, Bulk!NoRepeats
<1>9. Bulk!TrueReport(j)'
  BY <1>0, <1>1 DEF Bulk!TrueReport
<1>10. Bulk!EnrolledAre(j)'
  <2> SUFFICES ASSUME NEW i \in DOMAIN table, bulkRows'[j][i].status = "enrolled"
               PROVE  bulkRows'[j][i].email \in roster
    BY <1>1, <1>3 DEF Bulk!EnrolledAre
  <2>1. CASE i = r.at
    <3>1. Bulk!MarkEnrolled(j)
      BY <1>2, <1>3, <2>1
    <3>2. table[r.at].email \in roster
      BY <3>1, BulkFacts DEF Bulk!MarkEnrolled, Bulk!JobOK, Bulk!At, Bulk!ThisRow
    <3> QED BY <1>3, <2>1, <3>2
  <2>2. CASE i # r.at
    BY <1>0, <1>3, <2>2 DEF Bulk!EnrolledAre
  <2> QED BY <2>1, <2>2
<1>11. Bulk!JobOK(j)'
  BY <1>0, <1>1, <1>3, <1>6, <1>8 DEF Bulk!JobOK, Bulk!At
<1> QED BY <1>1, <1>3, <1>6, <1>7, <1>9, <1>10, <1>11, OneJobMoves

(* A learner is enrolled, and the row is still to be marked: with it, no   *)
(* more are enrolled than there are rows.                                  *)
LEMMA EnrolStep ==
  ASSUME Bulk!BulkInv, NEW j \in Jobs, Bulk!EnrolRow(j)
  PROVE  Bulk!BulkInv'
<1> DEFINE r == runner[j]
           table == bulkRows[j]
           email == table[r.at].email
<1>0. /\ Bulk!TypeOK /\ Bulk!Counted(j) /\ Bulk!EnrolledAre(j)
      /\ bulkJobs[j].status \notin {"none", "completed"}
      /\ r \in Bulk!Runner /\ r.at \in 1..Len(table)
      /\ table \in Seq(Bulk!Row) /\ Len(table) \in 0..MaxLines /\ DOMAIN table = 1..Len(table)
      /\ table[r.at].status = "valid"
  BY ValidRow
<1>1. UNCHANGED <<bulkJobs, bulkRows, accidents>> /\ roster' = roster \union {email}
  BY DEF Bulk!EnrolRow, Bulk!ThisRow
<1>2. email \in Emails
  <2>1. table[r.at] \in Bulk!Row
    BY <1>0
  <2> QED BY <2>1 DEF Bulk!Row
<1>3. r.pc = "row" /\ meddled' \in BOOLEAN
  BY <1>0 DEF Bulk!EnrolRow, Bulk!At, Bulk!TypeOK, Bulk!Interferes
<1>4. r.enrolled = Bulk!RowsWith(j, "enrolled") /\ r.enrolled + 1 \in 0..MaxLines
  <2>1. /\ IsFiniteSet(Bulk!Having(table, "enrolled"))
        /\ Cardinality(Bulk!Having(table, "enrolled")) \in Nat
    BY <1>0, Counts
  <2>2. Bulk!RowsWith(j, "enrolled") = Cardinality(Bulk!Having(table, "enrolled"))
    BY <1>0, RowsCounted
  <2>3. r.enrolled = Bulk!RowsWith(j, "enrolled")
    BY <1>0, <1>3, <2>1, <2>2 DEF Bulk!Counted
  <2> DEFINE H == Bulk!Having(table, "enrolled") \union {r.at}
  <2>4. H \subseteq (1..Len(table)) /\ r.at \notin Bulk!Having(table, "enrolled")
    BY <1>0 DEF Bulk!Having
  <2>5. Cardinality(H) = Cardinality(Bulk!Having(table, "enrolled")) + 1
    BY <2>1, <2>4, FS_AddElement
  <2>6. IsFiniteSet(1..Len(table)) /\ Cardinality(1..Len(table)) = Len(table)
    BY <1>0, FS_Interval
  <2>7. Cardinality(H) <= Len(table)
    <3>1. H \in SUBSET (1..Len(table))
      BY <2>4
    <3> HIDE DEF H
    <3>2. Cardinality(H) <= Cardinality(1..Len(table))
      BY <2>6, <3>1, FS_Subset
    <3> QED BY <2>6, <3>2
  <2> HIDE DEF H
  <2> QED BY <1>0, <2>1, <2>2, <2>3, <2>5, <2>7
<1>5. /\ runner' \in [Jobs -> Bulk!Runner] /\ runner'[j].pc = "mark" /\ runner'[j].at = r.at
      /\ runner'[j].enrolled = r.enrolled + 1 /\ runner'[j].skipped = r.skipped
      /\ \A k \in Jobs \ {j} : runner'[k] = runner[k]
  <2> DEFINE n(q) == [q EXCEPT !.pc = "mark", !.known = q.known \union {email},
                               !.enrolled = q.enrolled + 1]
  <2>1. runner' = [runner EXCEPT ![j] = n(r)]
    BY <1>0 DEF Bulk!EnrolRow, Bulk!ThisRow, Bulk!TypeOK, Bulk!Runner
  <2>2. ASSUME NEW q \in Bulk!Runner, q.enrolled + 1 \in 0..MaxLines
        PROVE  /\ n(q) \in Bulk!Runner /\ n(q).pc = "mark" /\ n(q).at = q.at
               /\ n(q).enrolled = q.enrolled + 1 /\ n(q).skipped = q.skipped
    BY <1>2, <2>2 DEF Bulk!Runner
  <2>3. runner'[j] = n(r) /\ \A k \in Jobs \ {j} : runner'[k] = runner[k]
    BY <1>0, <2>1 DEF Bulk!TypeOK
  <2>4. r \in Bulk!Runner /\ r.enrolled + 1 \in 0..MaxLines
    BY <1>0, <1>4
  <2>5. /\ n(r) \in Bulk!Runner /\ n(r).pc = "mark" /\ n(r).at = r.at
        /\ n(r).enrolled = r.enrolled + 1 /\ n(r).skipped = r.skipped
    <3> HIDE DEF n
    <3> QED BY <2>2, <2>4
  <2> HIDE DEF n
  <2> QED BY <1>0, <2>1, <2>3, <2>5 DEF Bulk!TypeOK
<1>6. Bulk!TypeOK'
  BY <1>0, <1>1, <1>2, <1>3, <1>5 DEF Bulk!TypeOK
<1>7. Bulk!Counted(j)'
  <2>1. \A s : Bulk!RowsWith(j, s)' = Bulk!RowsWith(j, s)
    BY <1>1 DEF Bulk!RowsWith
  <2>2. Bulk!NoRepeats(bulkRows'[j]) => Bulk!NoRepeats(table)
    BY <1>1
  <2> QED BY <1>0, <1>1, <1>4, <1>5, <2>1, <2>2 DEF Bulk!Counted
<1>8. Bulk!TrueReport(j)' /\ Bulk!EnrolledAre(j)'
  BY <1>0, <1>1 DEF Bulk!TrueReport, Bulk!EnrolledAre
<1>9. Bulk!JobOK(j)'
  <2>1. runner'[j].at <= Len(bulkRows'[j]) /\ bulkRows'[j][runner'[j].at] = table[r.at]
    BY <1>0, <1>1, <1>5
  <2> QED BY <1>0, <1>1, <1>5, <1>7, <2>1
       DEF Bulk!JobOK, Bulk!At, Bulk!MoreRows, Bulk!ThisRow
<1> QED BY <1>1, <1>5, <1>6, <1>8, <1>9, OneJobMoves

LEMMA BulkFrame ==
  ASSUME Bulk!BulkInv,
         UNCHANGED bulkVars \/ \E email \in Emails : Bulk!EnrolElsewhere(email)
  PROVE  Bulk!BulkInv'
<1>1. /\ UNCHANGED <<bulkJobs, bulkRows, runner, accidents>>
      /\ roster \subseteq roster' /\ roster' \subseteq roster \union Emails
      /\ meddled' \in {meddled, TRUE}
  BY DEF bulkVars, Bulk!EnrolElsewhere
<1>2. Bulk!TypeOK'
  BY <1>1 DEF Bulk!BulkInv, Bulk!TypeOK
<1>3. ASSUME NEW k \in Jobs
      PROVE  Bulk!TrueReport(k)' /\ Bulk!EnrolledAre(k)' /\ Bulk!JobOK(k)'
  BY <1>1, JobFrame DEF Bulk!BulkInv
<1> QED BY <1>2, <1>3 DEF Bulk!BulkInv

LEMMA BulkStep == Bulk!BulkInv /\ (Bulk!Next \/ UNCHANGED bulkVars) => Bulk!BulkInv'
<1> SUFFICES ASSUME Bulk!BulkInv, Bulk!Next \/ UNCHANGED bulkVars
             PROVE  Bulk!BulkInv'
  OBVIOUS
<1>1. ASSUME NEW j \in Jobs, Bulk!RunnerStep(j) \/ Bulk!Crash(j)
      PROVE  Bulk!BulkInv'
  BY <1>1, InsertRowStep, AnswerStep, ReadStep, SkipStep, EnrolStep, StopStep, CompleteStep
     DEF Bulk!RunnerStep
<1>2. CASE Bulk!BulkRequest
  BY <1>2, CreateJobStep DEF Bulk!BulkRequest
<1> QED BY <1>1, <1>2, BulkFrame DEF Bulk!Next

(* A completed job has dealt with every row, and its counts are those of   *)
(* its rows; a learner it reports as enrolled is: for any number of jobs   *)
(* run at once, uploads of any length, whoever enrols meanwhile and        *)
(* wherever a job stops.                                                   *)
THEOREM ReportsAreTrue == WorkSpec => []BulkReportIsTrue
<1>1. WorkInit => Bulk!BulkInv
  BY BulkInit DEF WorkInit
<1>2. Bulk!BulkInv /\ [WorkNext]_everything => Bulk!BulkInv'
  BY BulkStep DEF WorkNext, VideoMoves, DownloadMoves, BulkMoves, everything
<1>3. WorkSpec => []Bulk!BulkInv
  BY <1>1, <1>2, PTL DEF WorkSpec
<1> QED BY <1>3, PTL DEF BulkReportIsTrue
=============================================================================
