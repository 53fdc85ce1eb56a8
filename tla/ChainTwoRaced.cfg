SPECIFICATION Spec
CONSTANTS
  Accounts = {a1}
  NoAccount = NoAccount
  Base = {a1}
  CrmLinked = {}
  Arcs = {1}
  OpeningArc = 1
  MaxChanges = 2
  WindowDays = 0
  NoticeDays = 0
  QuickMaxDays = 0
  Writers = {w1, w2}
  Readers = {r1}
  CrmEnabled = TRUE
  QuickEnabled = FALSE
  Editable = {a1}
  MaxDay = 0
  MaxFaults = 0
  Staff = {"ADMIN"}
  HeadTeam = {a1}
  Offered <- SlowForms
SYMMETRY WriterSymmetry
INVARIANTS
  ChainInvariant
