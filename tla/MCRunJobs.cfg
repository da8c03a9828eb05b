\* One tab and two jobs.  The tab can give up on the first job, or lose the
\* answer with its id, and click again: both jobs can be under way at once, or
\* the first long over when the second one sweeps.
CONSTANTS
  j1 = j1
  j2 = j2
  c1 = c1
  Jobs <- MCJobs
  Clients <- MCClients
  Elsewhere = Elsewhere
  Nobody = Nobody
SPECIFICATION FairSpec
INVARIANTS TypeOK ToldTheTruth
PROPERTIES JobsMoveForward JobsEnd
