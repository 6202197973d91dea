------------------------------- MODULE Video -------------------------------
(***************************************************************************)
(* Video lessons, apps/api/src/modules/video and src/storage, for one      *)
(* lesson: uploads in parts, the queue of transcode jobs in the database,  *)
(* the workers that poll it (one per server process), and what a player is *)
(* served.  The statements of a call and of a worker's tick are awaited    *)
(* one by one.                                                             *)
(*                                                                         *)
(* An upload is one row of video_assets.  Its file is known by the set of  *)
(* its parts, a rendering by the upload each of its files was made from:   *)
(* all renderings of a lesson are written under one prefix.  The local     *)
(* driver writes files in place: a file is opened empty and filled, and a  *)
(* crash or another call may come in between.                              *)
(*                                                                         *)
(* The numbers of the parts a client reports to the B2 driver are checked  *)
(* by no code: clients are assumed to keep to those of their upload, as    *)
(* the studio's page does.                                                 *)
(***************************************************************************)
EXTENDS Naturals, FiniteSets, Sequences

CONSTANTS
  Assets,        \* uploads to the lesson
  Parts,         \* the numbers of the parts of a file
  Handlers,      \* calls that may be in flight at once
  Workers,       \* server processes with TRANSCODE_WORKER=on
  None,          \* no upload
  MaxFaults      \* bound: crashes, storage failures

ASSUME VideoAssumption ==
  /\ Parts \subseteq Nat /\ IsFiniteSet(Parts) /\ Parts # {}
  /\ None \notin Assets
  /\ MaxFaults \in Nat

VARIABLES
  driver,      \* the storage driver of the deployment
  status,      \* video_assets.status; "none": no such row
  parts,       \* video_assets.parts
  stored,      \* parts the storage holds whole for the upload
  opened,      \* part files that are not whole: opened, not yet written
  source,      \* parts in the source object; {}: no object, or an empty one
  lesson,      \* lessons.video_status; is lessons.hls_prefix set?
  rendition,   \* files under the prefix: the upload each was made from
  jobs,        \* transcode_jobs by creation time
  call,        \* the calls in flight
  worker,      \* the workers' ticks
  overlapped,  \* history: have two calls, or two ticks, ever run at once?
  rewritten,   \* history: uploads with a file opened anew when it was whole
               \*   or another call was writing it
  faults       \* faults so far

files == <<stored, opened, rewritten>>
storage == <<files, source, rendition>>
rows == <<status, parts, lesson, jobs>>
vars == <<driver, storage, rows, call, worker, overlapped, faults>>

AssetStatus == {"none", "uploading", "queued", "ready", "failed"}
VideoStatus == {"none", "uploading", "queued", "ready", "failed"}
JobState    == {"queued", "processing", "done", "failed"}
Job         == [asset : Assets, state : JobState]
Lesson      == [video : VideoStatus, hls : BOOLEAN]
Files       == {"first", "last"}

Step == {"idle", "announce", "open", "write", "read", "record",
         "gather", "create", "fill", "clear", "assemble",
         "queue", "lesson", "look", "insert"}
Call == [pc : Step, asset : Assets \union {None}, seen : SUBSET Parts, part : SUBSET Parts]
Idle == [pc |-> "idle", asset |-> None, seen |-> {}, part |-> {}]

Tick == [pc : {"idle", "mark", "transcode", "last", "finish", "show", "fail", "tell"},
         job : Nat]
Rest == [pc |-> "idle", job |-> 0]

(* Rows, objects, calls and ticks have their types. *)
TypeOK ==
  /\ driver \in {"local", "b2"}
  /\ status \in [Assets -> AssetStatus]
  /\ parts \in [Assets -> SUBSET Parts]
  /\ stored \in [Assets -> SUBSET Parts]
  /\ opened \in [Assets -> SUBSET Parts]
  /\ source \in [Assets -> SUBSET Parts]
  /\ rewritten \in SUBSET Assets
  /\ lesson \in Lesson
  /\ rendition \in [Files -> Assets \union {None}]
  /\ jobs \in Seq(Job)
  /\ call \in [Handlers -> Call]
  /\ worker \in [Workers -> Tick]
  /\ overlapped \in SUBSET {"calls", "ticks"}
  /\ faults \in 0..MaxFaults

Init ==
  /\ driver \in {"local", "b2"}
  /\ status = [a \in Assets |-> "none"]
  /\ parts = [a \in Assets |-> {}]
  /\ stored = [a \in Assets |-> {}]
  /\ opened = [a \in Assets |-> {}]
  /\ source = [a \in Assets |-> {}]
  /\ rewritten = {}
  /\ lesson = [video |-> "none", hls |-> FALSE]
  /\ rendition = [f \in Files |-> None]
  /\ jobs = <<>>
  /\ call = [h \in Handlers |-> Idle]
  /\ worker = [w \in Workers |-> Rest]
  /\ overlapped = {}
  /\ faults = 0

-----------------------------------------------------------------------------
(* Helpers *)

IsIdle(h) == call[h].pc = "idle"
At(h, step) == call[h].pc = step
Goto(h, step) == call' = [call EXCEPT ![h].pc = step]
Return(h) == call' = [call EXCEPT ![h] = Idle]
Begin(h, c) ==
  /\ IsIdle(h)
  /\ call' = [call EXCEPT ![h] = c]
  /\ overlapped' = overlapped \union
                     {o \in {"calls"} : \E k \in Handlers \ {h} : ~IsIdle(k)}

HasSource(a) == source[a] # {}

(* The client learns of an upload from the answer to its creation. *)
Known(a) ==
  /\ status[a] # "none"
  /\ \A h \in Handlers : ~(At(h, "announce") /\ call[h].asset = a)

(* Another call has opened the same part, or the source, of the upload and *)
(* is writing it.                                                          *)
PartInUse(h, a, p) ==
  \E k \in Handlers \ {h} : At(k, "write") /\ call[k].asset = a /\ p \in call[k].part
SourceInUse(h, a) ==
  \E k \in Handlers \ {h} : At(k, "fill") /\ call[k].asset = a
NoteRewrite(a, again) == rewritten' = IF again THEN rewritten \union {a} ELSE rewritten

SetStatus(a, s) == status' = [status EXCEPT ![a] = s]
SetVideoStatus(s) == lesson' = [lesson EXCEPT !.video = s]

-----------------------------------------------------------------------------
(* createUploadSession: the row, then the lesson. *)

CreateUploadSession(h, a) ==
  /\ status[a] = "none"
  /\ Begin(h, [Idle EXCEPT !.pc = "announce", !.asset = a])
  /\ SetStatus(a, "uploading")
  /\ UNCHANGED <<driver, storage, parts, lesson, jobs, worker, faults>>

AnnounceUpload(h) ==
  /\ At(h, "announce")
  /\ SetVideoStatus("uploading")
  /\ Return(h)
  /\ UNCHANGED <<driver, storage, status, parts, jobs, worker, overlapped, faults>>

-----------------------------------------------------------------------------
(* Parts *)

(* receivePart (local driver): the status is checked, then the part is     *)
(* written to scratch (writePart), then recorded.                          *)
ReceivePart(h, a, p) ==
  /\ driver = "local"
  /\ Known(a) /\ status[a] = "uploading"
  /\ Begin(h, [Idle EXCEPT !.pc = "open", !.asset = a, !.part = {p}])
  /\ UNCHANGED <<driver, storage, rows, worker, faults>>

(* The part's file is opened empty, whatever it held ...                   *)
OpenPart(h) ==
  /\ At(h, "open")
  /\ LET a == call[h].asset IN
     /\ stored' = [stored EXCEPT ![a] = @ \ call[h].part]
     /\ opened' = [opened EXCEPT ![a] = @ \union call[h].part]
     /\ NoteRewrite(a, \E p \in call[h].part : p \in stored[a] \/ PartInUse(h, a, p))
  /\ Goto(h, "write")
  /\ UNCHANGED <<driver, source, rendition, rows, worker, overlapped, faults>>

(* ... and written; with another call still writing it may not be whole.   *)
WritePart(h) ==
  /\ At(h, "write")
  /\ LET a == call[h].asset IN
     \/ /\ stored' = [stored EXCEPT ![a] = @ \union call[h].part]
        /\ opened' = [opened EXCEPT ![a] = @ \ call[h].part]
     \/ /\ \E p \in call[h].part : PartInUse(h, a, p)
        /\ UNCHANGED <<stored, opened>>
  /\ Goto(h, "read")
  /\ UNCHANGED <<driver, source, rewritten, rendition, rows, worker, overlapped, faults>>

(* partUploadUrl (B2 driver) presigns a URL, and the browser puts the part *)
(* straight to the bucket while the multipart upload is open.              *)
PutToPresignedUrl(a, p) ==
  /\ driver = "b2"
  /\ Known(a) /\ status[a] = "uploading"
  /\ ~HasSource(a)
  /\ stored' = [stored EXCEPT ![a] = @ \union {p}]
  /\ UNCHANGED <<driver, opened, rewritten, source, rendition, rows, call, worker,
                 overlapped, faults>>

(* reportPartComplete (B2 driver): the client reports a part it has put,   *)
(* and nothing but the ownership is checked (the driver is not: the client *)
(* goes by the putMethod it was answered).                                 *)
ReportPartComplete(h, a, p) ==
  /\ driver = "b2"
  /\ Known(a)
  /\ p \in stored[a] \/ HasSource(a)
  /\ Begin(h, [Idle EXCEPT !.pc = "read", !.asset = a, !.part = {p}])
  /\ UNCHANGED <<driver, storage, rows, worker, faults>>

(* recordPart reads the list of parts, adds one, and writes the list back. *)
ReadParts(h) ==
  /\ At(h, "read")
  /\ call' = [call EXCEPT ![h].pc = "record", ![h].seen = parts[call[h].asset]]
  /\ UNCHANGED <<driver, storage, rows, worker, overlapped, faults>>

Mutant_RecordPart_Overwrite(h) ==
  /\ At(h, "record")
  /\ parts' = [parts EXCEPT ![call[h].asset] = call[h].part]
  /\ Return(h)
  /\ UNCHANGED <<driver, storage, status, lesson, jobs, worker, overlapped, faults>>

RecordPart(h) ==
  /\ At(h, "record")
  /\ parts' = [parts EXCEPT ![call[h].asset] = call[h].seen \union call[h].part]
  /\ Return(h)
  /\ UNCHANGED <<driver, storage, status, lesson, jobs, worker, overlapped, faults>>

-----------------------------------------------------------------------------
(* completeUpload *)

Completing(a) ==
  [Idle EXCEPT !.pc = IF driver = "local" THEN "gather" ELSE "assemble",
               !.asset = a, !.seen = parts[a]]

Mutant_CompleteUpload_AnyParts(h, a) ==
  /\ Known(a) /\ status[a] = "uploading"
  /\ Begin(h, Completing(a))
  /\ UNCHANGED <<driver, storage, rows, worker, faults>>

(* The upload is in progress and as many parts are recorded as the file    *)
(* has.                                                                    *)
CompleteUpload(h, a) ==
  /\ Known(a) /\ status[a] = "uploading"
  /\ Cardinality(parts[a]) >= Cardinality(Parts)
  /\ Begin(h, Completing(a))
  /\ UNCHANGED <<driver, storage, rows, worker, faults>>

(* completeMultipartUpload (storage/local.ts): the parts' files are read   *)
(* one after the other; of one that is not whole nothing counts.           *)
Least(p, S) == \A q \in S : p <= q

GatherPart(h) ==
  /\ At(h, "gather")
  /\ LET a == call[h].asset IN \E p \in call[h].seen :
     /\ Least(p, call[h].seen)
     /\ p \in stored[a] \union opened[a]
     /\ call' = [call EXCEPT ![h].pc = IF call[h].seen = {p} THEN "create" ELSE "gather",
                             ![h].seen = @ \ {p},
                             ![h].part = @ \union ({p} \intersect stored[a])]
  /\ UNCHANGED <<driver, storage, rows, worker, overlapped, faults>>

(* The source is opened empty, whatever it held ...                        *)
OpenSource(h) ==
  /\ At(h, "create")
  /\ LET a == call[h].asset IN
     /\ source' = [source EXCEPT ![a] = {}]
     /\ NoteRewrite(a, source[a] = Parts \/ SourceInUse(h, a))
  /\ call' = [call EXCEPT ![h].pc = IF call[h].part = {} THEN "clear" ELSE "fill",
                          ![h].seen = call[h].part, ![h].part = {}]
  /\ UNCHANGED <<driver, stored, opened, rendition, rows, worker, overlapped, faults>>

(* ... filled, ...                                                         *)
FillSource(h) ==
  /\ At(h, "fill")
  /\ LET a == call[h].asset IN \E p \in call[h].seen :
     /\ Least(p, call[h].seen)
     /\ source' = [source EXCEPT ![a] = @ \union {p}]
     /\ call' = [call EXCEPT ![h].pc = IF call[h].seen = {p} THEN "clear" ELSE "fill",
                             ![h].seen = @ \ {p}]
  /\ UNCHANGED <<driver, files, rendition, rows, worker, overlapped, faults>>

(* ... and the scratch directory removed.                                  *)
ClearScratch(h) ==
  /\ At(h, "clear")
  /\ stored' = [stored EXCEPT ![call[h].asset] = {}]
  /\ opened' = [opened EXCEPT ![call[h].asset] = {}]
  /\ Goto(h, "queue")
  /\ UNCHANGED <<driver, rewritten, source, rendition, rows, worker, overlapped, faults>>

(* completeMultipartUpload (storage/b2.ts): the bucket does the same, once *)
(* for each multipart upload.                                              *)
AssembleInBucket(h) ==
  LET a == call[h].asset IN
  /\ At(h, "assemble")
  /\ ~HasSource(a)
  /\ call[h].seen \subseteq stored[a]
  /\ source' = [source EXCEPT ![a] = call[h].seen]
  /\ stored' = [stored EXCEPT ![a] = {}]
  /\ Goto(h, "queue")
  /\ UNCHANGED <<driver, opened, rewritten, rendition, rows, worker, overlapped, faults>>

(* A part's file is gone, or the multipart upload is closed: the driver    *)
(* throws, and the upload stays as it is.                                  *)
AssembleThrows(h) ==
  LET a == call[h].asset IN
  /\ \/ /\ At(h, "gather")
        /\ \E p \in call[h].seen :
             Least(p, call[h].seen) /\ p \notin stored[a] \union opened[a]
     \/ At(h, "assemble") /\ (HasSource(a) \/ ~ call[h].seen \subseteq stored[a])
  /\ Return(h)
  /\ UNCHANGED <<driver, storage, rows, worker, overlapped, faults>>

MarkQueued(h) ==
  /\ At(h, "queue")
  /\ SetStatus(call[h].asset, "queued")
  /\ Goto(h, "lesson")
  /\ UNCHANGED <<driver, storage, parts, lesson, jobs, worker, overlapped, faults>>

Mutant_MarkLessonQueued_Clears(h) ==
  /\ At(h, "lesson")
  /\ lesson' = [video |-> "queued", hls |-> FALSE]
  /\ Goto(h, "look")
  /\ UNCHANGED <<driver, storage, status, parts, jobs, worker, overlapped, faults>>

MarkLessonQueued(h) ==
  /\ At(h, "lesson")
  /\ SetVideoStatus("queued")
  /\ Goto(h, "look")
  /\ UNCHANGED <<driver, storage, status, parts, jobs, worker, overlapped, faults>>

(* queueTranscodeForAsset looks for a queued job of the upload ...         *)
LookForJob(h) ==
  /\ At(h, "look")
  /\ IF \E j \in DOMAIN jobs : jobs[j] = [asset |-> call[h].asset, state |-> "queued"]
       THEN Return(h)
       ELSE Goto(h, "insert")
  /\ UNCHANGED <<driver, storage, rows, worker, overlapped, faults>>

Mutant_InsertJob_Skip(h) ==
  /\ At(h, "insert")
  /\ Return(h)
  /\ UNCHANGED <<driver, storage, rows, worker, overlapped, faults>>

(* ... and inserts one if there is none.                                   *)
InsertJob(h) ==
  /\ At(h, "insert")
  /\ jobs' = Append(jobs, [asset |-> call[h].asset, state |-> "queued"])
  /\ Return(h)
  /\ UNCHANGED <<driver, storage, status, parts, lesson, worker, overlapped, faults>>

-----------------------------------------------------------------------------
(* processNextTranscodeJob, a tick of a worker; the overlap guard of       *)
(* startTranscodeWorker keeps a worker to one tick at a time.              *)

Now(w, step) == worker[w].pc = step
Proceed(w, step) == worker' = [worker EXCEPT ![w].pc = step]
EndTick(w) == worker' = [worker EXCEPT ![w] = Rest]
Current(w) == worker[w].job
Subject(w) == jobs[Current(w)].asset
SetJob(w, s) == jobs' = [jobs EXCEPT ![Current(w)].state = s]

Queued == {j \in DOMAIN jobs : jobs[j].state = "queued"}

(* The oldest queued job is selected ...                                   *)
PickJob(w) ==
  /\ Now(w, "idle")
  /\ \E j \in Queued :
       /\ \A k \in Queued : j <= k
       /\ worker' = [worker EXCEPT ![w] = [pc |-> "mark", job |-> j]]
  /\ overlapped' = overlapped \union
                     {o \in {"ticks"} : \E v \in Workers \ {w} : ~Now(v, "idle")}
  /\ UNCHANGED <<driver, storage, rows, call, faults>>

(* ... and then marked as being processed, by id.                          *)
MarkProcessing(w) ==
  /\ Now(w, "mark")
  /\ SetJob(w, "processing")
  /\ Proceed(w, "transcode")
  /\ UNCHANGED <<driver, storage, status, parts, lesson, call, overlapped, faults>>

(* The source is read, probed and transcoded into a scratch directory, and *)
(* the first files are put under the lesson's prefix.                      *)
Transcode(w) ==
  /\ Now(w, "transcode")
  /\ HasSource(Subject(w))
  /\ rendition' = [rendition EXCEPT !["first"] = Subject(w)]
  /\ Proceed(w, "last")
  /\ UNCHANGED <<driver, files, source, rows, call, overlapped, faults>>

(* No source, or a file ffmpeg cannot probe or transcode.                  *)
TranscodeFails(w) ==
  /\ Now(w, "transcode")
  /\ Proceed(w, "fail")
  /\ UNCHANGED <<driver, storage, rows, call, overlapped, faults>>

(* uploadDirToStorage puts the other files.                                *)
UploadRest(w) ==
  /\ Now(w, "last")
  /\ rendition' = [rendition EXCEPT !["last"] = Subject(w)]
  /\ Proceed(w, "finish")
  /\ UNCHANGED <<driver, files, source, rows, call, overlapped, faults>>

UploadFails(w) ==
  /\ Now(w, "last")
  /\ faults < MaxFaults
  /\ faults' = faults + 1
  /\ Proceed(w, "fail")
  /\ UNCHANGED <<driver, storage, rows, call, overlapped>>

(* One transaction: the upload is ready and the job done.                  *)
FinishJob(w) ==
  /\ Now(w, "finish")
  /\ SetStatus(Subject(w), "ready")
  /\ SetJob(w, "done")
  /\ Proceed(w, "show")
  /\ UNCHANGED <<driver, storage, parts, lesson, call, overlapped, faults>>

ShowInLesson(w) ==
  /\ Now(w, "show")
  /\ lesson' = [video |-> "ready", hls |-> TRUE]
  /\ EndTick(w)
  /\ UNCHANGED <<driver, storage, status, parts, jobs, call, overlapped, faults>>

(* markJobFailed: one transaction, then the lesson.                        *)
MarkJobFailed(w) ==
  /\ Now(w, "fail")
  /\ SetStatus(Subject(w), "failed")
  /\ SetJob(w, "failed")
  /\ Proceed(w, "tell")
  /\ UNCHANGED <<driver, storage, parts, lesson, call, overlapped, faults>>

Mutant_MarkLessonFailed_Skip(w) ==
  /\ Now(w, "tell")
  /\ EndTick(w)
  /\ UNCHANGED <<driver, storage, rows, call, overlapped, faults>>

MarkLessonFailed(w) ==
  /\ Now(w, "tell")
  /\ SetVideoStatus("failed")
  /\ EndTick(w)
  /\ UNCHANGED <<driver, storage, status, parts, jobs, call, overlapped, faults>>

-----------------------------------------------------------------------------
(* A process dies: its calls and its worker's tick are gone.               *)

Crash(h) ==
  /\ ~IsIdle(h)
  /\ faults < MaxFaults
  /\ faults' = faults + 1
  /\ Return(h)
  /\ UNCHANGED <<driver, storage, rows, worker, overlapped>>

WorkerCrash(w) ==
  /\ ~Now(w, "idle")
  /\ faults < MaxFaults
  /\ faults' = faults + 1
  /\ EndTick(w)
  /\ UNCHANGED <<driver, storage, rows, call, overlapped>>

-----------------------------------------------------------------------------
(* What a page or a player is answered *)

(* The last job of an upload, if it has one. *)
LastJob(a) == {j \in DOMAIN jobs :
                 jobs[j].asset = a /\ \A k \in DOMAIN jobs : jobs[k].asset = a => k <= j}

(* getUploadStatus: the upload and its last job. *)
UploadStatus(a) == [status |-> status[a], jobState |-> {jobs[j].state : j \in LastJob(a)}]

(* buildLessonVideoPayload: the manifest's address is for enrolled         *)
(* learners, and there once a rendering was.                               *)
Manifest(enrolled) == enrolled /\ lesson.hls

(* The media route streams the file under the prefix.                      *)
Served(f) == IF lesson.hls THEN rendition[f] ELSE None

-----------------------------------------------------------------------------
(* The routes: what can begin, with what. *)
VideoRequest ==
  \E h \in Handlers, a \in Assets :
    \/ CreateUploadSession(h, a)
    \/ CompleteUpload(h, a)
    \/ \E p \in Parts : ReceivePart(h, a, p) \/ ReportPartComplete(h, a, p)

CallStep(h) ==
  \/ AnnounceUpload(h)
  \/ OpenPart(h) \/ WritePart(h) \/ ReadParts(h) \/ RecordPart(h)
  \/ GatherPart(h) \/ OpenSource(h) \/ FillSource(h) \/ ClearScratch(h)
  \/ AssembleInBucket(h) \/ AssembleThrows(h)
  \/ MarkQueued(h) \/ MarkLessonQueued(h)
  \/ LookForJob(h) \/ InsertJob(h)

WorkerStep(w) ==
  \/ PickJob(w) \/ MarkProcessing(w)
  \/ Transcode(w) \/ TranscodeFails(w)
  \/ UploadRest(w)
  \/ FinishJob(w) \/ ShowInLesson(w)
  \/ MarkJobFailed(w) \/ MarkLessonFailed(w)

Next ==
  \/ VideoRequest
  \/ \E a \in Assets, p \in Parts : PutToPresignedUrl(a, p)
  \/ \E h \in Handlers : CallStep(h) \/ Crash(h)
  \/ \E w \in Workers : WorkerStep(w) \/ UploadFails(w) \/ WorkerCrash(w)

Spec == Init /\ [][Next]_vars

(* A call in flight runs on, and each worker polls and runs on.            *)
Fairness ==
  /\ \A h \in Handlers : WF_vars(CallStep(h))
  /\ \A w \in Workers : WF_vars(WorkerStep(w))

FairSpec == Spec /\ Fairness

-----------------------------------------------------------------------------
(* Properties *)

(* The source is put together from all parts.  Of an upload one of whose   *)
(* files was opened anew when it was whole or in use (two completions at   *)
(* once, a part sent again) nothing is promised: the local driver writes   *)
(* files in place, and a reader may find them half written.                *)
Sound(a) == source[a] = Parts \/ a \in rewritten

(* Safety: jobs, queued, ready and failed uploads have a source put        *)
(* together from all parts, and an offered playlist is made of such        *)
(* sources, even if calls overlap and processes die, in the middle of a    *)
(* write too, as long as no file was written over.  A bucket has no half   *)
(* written source at all.                                                  *)
BucketSources == driver = "b2" => rewritten = {} /\ \A a \in Assets : source[a] \in {{}, Parts}
JobsHaveSources == \A j \in DOMAIN jobs : Sound(jobs[j].asset)
SettledHaveSources ==
  \A a \in Assets : status[a] \in {"queued", "ready", "failed"} => Sound(a)
PlaylistIsWhole ==
  \A f \in Files : IF lesson.hls THEN rendition[f] # None /\ Sound(rendition[f])
                   ELSE rendition[f] # None => Sound(rendition[f])

(* Parts recorded by the local driver are in scratch until the source is   *)
(* whole.                                                                  *)
Kept(a, S) == driver = "b2" \/ Sound(a) \/ S \subseteq stored[a]
RecordedAreKept == \A a \in Assets : Kept(a, parts[a])

(* What a call in flight and a tick rely on. *)
CallOK(h) ==
  LET c == call[h] IN
  /\ c.pc # "idle" => c.asset \in Assets
  /\ c.pc \in {"open", "write", "gather", "create", "fill", "clear"} => driver = "local"
  /\ c.pc = "write" => Sound(c.asset) \/ ~ \E p \in c.part : PartInUse(h, c.asset, p)
  /\ c.pc \in {"read", "record"} => Kept(c.asset, c.part)
  /\ c.pc = "record" => Kept(c.asset, c.seen)
  /\ c.pc = "assemble" => driver = "b2" /\ c.seen = Parts
  /\ c.pc \in {"gather", "fill"} => c.seen # {}
  /\ c.pc = "gather" =>
       Sound(c.asset) \/ (c.seen \subseteq stored[c.asset] /\ c.part \union c.seen = Parts)
  /\ c.pc = "create" => Sound(c.asset) \/ c.part = Parts
  /\ c.pc = "fill" => Sound(c.asset) \/ source[c.asset] \union c.seen = Parts
  /\ c.pc \in {"clear", "queue", "lesson", "look", "insert"} => Sound(c.asset)

TickOK(w) ==
  LET t == worker[w] IN
  /\ t.pc # "idle" => t.job \in DOMAIN jobs
  /\ t.pc \in {"last", "finish", "show"} => rendition["first"] # None
  /\ t.pc \in {"finish", "show"} => rendition["last"] # None

(* The inductive invariant. *)
IInv ==
  /\ TypeOK
  /\ BucketSources /\ JobsHaveSources /\ SettledHaveSources
  /\ PlaylistIsWhole
  /\ RecordedAreKept
  /\ \A h \in Handlers : CallOK(h)
  /\ \A w \in Workers : TickOK(w)

(* The pipeline implements what Publication promises. *)
P == INSTANCE Publication WITH
       playable <- {a \in Assets : Sound(a)},
       playing <- IF Manifest(TRUE) THEN {Served(f) : f \in Files} ELSE {}
PublicationSpec == P!Spec

(* Action property, as long as no two calls ever overlapped: a part once   *)
(* recorded stays recorded, so an upload gets complete.                    *)
PartsKept ==
  []["calls" \notin overlapped' => \A a \in Assets : parts[a] \subseteq parts'[a]]_vars

(* Safety without faults, as long as no two workers ran at once (they may  *)
(* pick the same job): once everything has come to rest, the lesson says   *)
(* of its video what one of its uploads says.                              *)
Resting ==
  /\ \A h \in Handlers : IsIdle(h)
  /\ \A w \in Workers : Now(w, "idle")
  /\ Queued = {}
LessonAgrees ==
  faults = 0 /\ "ticks" \notin overlapped /\ Resting /\ lesson.video # "none" =>
    \E a \in Assets : UploadStatus(a).status = lesson.video

(* Liveness without faults: what is queued gets ready or failed.           *)
QueuedSettles ==
  \A a \in Assets :
    status[a] = "queued" ~> (status[a] \in {"ready", "failed"} \/ faults > 0)
=============================================================================
