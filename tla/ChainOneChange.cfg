SPECIFICATION OpeningSpec
CONSTANTS
  Accounts = {a1}
  NoAccount = NoAccount
  Base = {a1}
  CrmLinked = {a1}
  Arcs = {1, 2}
  OpeningArc = 1
  MaxChanges = 1
  WindowDays = 1
  NoticeDays = 1
  QuickMaxDays = 1
  Writers = {w1, w2}
  Readers = {r1}
  CrmEnabled = TRUE
  QuickEnabled = FALSE
  Editable = {}
  MaxDay = 2
  MaxFaults = 1
  Staff = {"ADMIN", "SAM_HEAD", "ACCOUNTS", "SUPER_ADMIN_2"}
  HeadTeam = {a1}
  Offered <- LateForms
SYMMETRY WriterSymmetry
INVARIANTS
  ApprovedPassedEveryGate
  ApprovedTookEffect
  NoticeIsServed
  BaseWaterfallReconciles
PROPERTIES
  ChargeMovesBySignature
  ChainKeepsContract
