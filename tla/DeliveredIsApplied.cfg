SPECIFICATION Spec
CONSTANTS
  Events = {activated, approved}
  Workers = {w1, w2}
  NoWorker = NoWorker
  NoEvent = NoEvent
  Activations = {activated}
  Approvals = {approved}
  Orphans = {}
  Malformed = {}
  MaxFaults = 1
INVARIANTS
  DeliveredIsApplied
