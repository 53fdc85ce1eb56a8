SPECIFICATION MCCrmBookSpec
CONSTANTS
  Accounts = {a1}
  NoAccount = NoAccount
  Base = {}
  CrmLinked = {a1}
  Arcs = {1, 2}
  OpeningArc = 1
  MaxChanges = 1
  WindowDays = 0
  NoticeDays = 1
  QuickMaxDays = 0
  Writers = {w1, w2}
  Readers = {r1}
  CrmEnabled = TRUE
  QuickEnabled = TRUE
  Editable = {}
  MaxDay = 1
  MaxFaults = 0
  MaxPost = 1
  ReportsNormal = TRUE
  Resent = {a1}
  Offered <- OneOfEachForm
SYMMETRY SlotSymmetry
INVARIANTS
  CrmBookInvariant
  WaitingIsUndecided
  NoticeOrCompletion
  NewWaterfallReconciles
PROPERTIES
  ChargeFollowsOrder
  ClosingIsTimed
  CrmBookKeepsContract
