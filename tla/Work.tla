-------------------------------- MODULE Work --------------------------------
(* Work that outlives the request that asks for it: the upload and         *)
(* transcoding of a lesson video (the module extended), offline copies and *)
(* bulk enrolment.  They share no state and are explored next to each      *)
(* other: `moves' names the one a behaviour is about.                      *)
EXTENDS Video

CONSTANTS
  Copies, MaxHitches,                          \* of offline copies
  Emails, Active, Jobs, MaxLines, MaxAccidents  \* of bulk enrolment

ASSUME WorkAssumption ==
  /\ MaxHitches \in Nat
  /\ MaxLines \in Nat
  /\ MaxAccidents \in Nat

VARIABLES
  moves,
  copies, overdue, ended, bundles, fetch, tangled, hitches,
  bulkJobs, bulkRows, roster, runner, meddled, accidents

downloadVars == <<copies, overdue, ended, bundles, fetch, tangled, hitches>>
bulkVars == <<bulkJobs, bulkRows, roster, runner, meddled, accidents>>
everything == <<moves, vars, downloadVars, bulkVars>>

Downloads == INSTANCE Offline WITH Fetchers <- Handlers, NoCopy <- None, files <- bundles
Bulk == INSTANCE BulkEnrolment

WorkInit ==
  /\ moves \in {"video", "downloads", "bulk"}
  /\ moves = "video" \/ driver = "local"
  /\ Init /\ Downloads!Init /\ Bulk!Init

VideoMoves    == moves = "video" /\ UNCHANGED <<moves, downloadVars, bulkVars>>
DownloadMoves == moves = "downloads" /\ UNCHANGED <<moves, vars, bulkVars>>
BulkMoves     == moves = "bulk" /\ UNCHANGED <<moves, vars, downloadVars>>

WorkNext ==
  \/ VideoMoves /\ Next
  \/ DownloadMoves /\ Downloads!Next
  \/ BulkMoves /\ Bulk!Next

WorkSpec == WorkInit /\ [][WorkNext]_everything

(* What runs on: the calls in flight, the workers, the jobs.  `moves'      *)
(* never changes, so that a behaviour is fair here when it is fair for its *)
(* component.                                                              *)
CallRuns(h) ==
  \/ VideoMoves /\ CallStep(h)
  \/ DownloadMoves /\ Downloads!FetchStep(h)
WorkerRuns(w) == VideoMoves /\ WorkerStep(w)
JobRuns(j) == BulkMoves /\ Bulk!RunnerStep(j)

-----------------------------------------------------------------------------
(* Properties *)

(* Of offline copies: ready means a file to fetch, an ended enrolment is   *)
(* refused.                                                                *)
DownloadsInv == Downloads!IInv

(* Of bulk enrolment: a report that says what was done.                    *)
BulkReportIsTrue == Bulk!BulkInv
=============================================================================
