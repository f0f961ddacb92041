SPECIFICATION FairSpec
CONSTANTS
  Requests = {r1, r2}
  MaxJobs = 3
  MaxSize = 2
  MaxRetries = 1
  MaxFaults = 1
  Stop = Stop
INVARIANTS TypeOK OpenJobsAreTracked OneJobPrinting SubmissionOrder
PROPERTIES NothingSentAfterVerdict EventuallySettled ImplementsLifecycle
