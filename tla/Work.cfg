\* One upload of two parts, two calls in flight, two workers, two crashes or storage
\* failures, under both storage drivers; one offline copy; one bulk job.  Work that
\* is done, or lost in a crash, may rest: deadlock is not checked.
SPECIFICATION WorkSpec
CONSTANTS
  Assets = {a1}
  Parts = {1, 2}
  Handlers = {h1, h2}
  Workers = {w1, w2}
  None = None
  Copies = {c1}
  MaxHitches = 1
  Emails = {amina, baraka, nobody}
  Active = {amina, baraka}
  Jobs = {j1}
  MaxLines = 3
  MaxAccidents = 1
  MaxFaults = 2
SYMMETRY WorkSymmetry
INVARIANT IInv
INVARIANT LessonAgrees
INVARIANT DownloadsInv
INVARIANT BulkReportIsTrue
PROPERTY PublicationSpec
PROPERTY PartsKept
CHECK_DEADLOCK FALSE
