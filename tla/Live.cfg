\* One order, without faults; one attempt and one certificate of a course of one
\* published lesson without quiz, with one crash or failure each; one upload in one
\* part with one worker, one offline copy and one bulk job of two lines, without
\* faults; two calls in flight.  Under the fairness of the event loop, of workers
\* that poll and of clients that try again.  Everything may come to rest: deadlock is
\* not checked.
SPECIFICATION FairSpec
CONSTANT Handlers = {h1, h2}
PROPERTY PaidLeadsToAccess
PROPERTY TimedAttemptCloses
PROPERTY SubmissionCompletesLesson
PROPERTY EligibleGetsCertificate
PROPERTY QueuedSettles
PROPERTY CopiesGetReady
 
CHECK_DEADLOCK FALSE
