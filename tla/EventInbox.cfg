SPECIFICATION FairSpec
CONSTANTS
  Events = {activated, approved, changed, unknown}
  Workers = {w1, w2}
  NoWorker = NoWorker
  NoEvent = NoEvent
  Activations = {activated}
  Approvals = {approved}
  Orphans = {unknown}
  Malformed = {changed}
  MaxFaults = 2
INVARIANTS
  RecordIsHonest
  OneOrderPerDecision
  FailedIsNotApplied
  InboxInvariant
PROPERTIES
  AppliesAtMostOnce
  AppliedIsAcknowledged
  EventLands
