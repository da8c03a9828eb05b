CONSTANTS
  j1 = j1
  j2 = j2
  c1 = c1
  Jobs <- MCJobs
  Clients <- MCClients
  Elsewhere = Elsewhere
  Nobody = Nobody
SPECIFICATION Spec
INVARIANT DoneMeansResult
