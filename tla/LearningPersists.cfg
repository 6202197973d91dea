\* The documented promise on completed lessons, on a course of one lesson.
\* The system may come to rest.
SPECIFICATION Spec
CONSTANTS
  Lessons = {l1}
  Handlers = {h1, h2}
  Numbers = {n1}
  None = None
  MaxEdits = 0
  MaxFaults = 0
PROPERTY CompletionPersists
CHECK_DEADLOCK FALSE
