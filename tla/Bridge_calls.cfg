CONSTANTS
  None = None
  Calls = {c1, c2}
  Listeners = {l1, l2}
  Reconcilers = {r1}
  Buffer = 1
SPECIFICATION FairSpec
INVARIANTS NeverAppliedTwice FallbackNeverSent ReportedOkWasApplied  
 
