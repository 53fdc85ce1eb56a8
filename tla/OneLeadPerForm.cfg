SPECIFICATION OfficeSpec
CONSTANTS
  u1 = u1
  u2 = u2
  u3 = u3
  c1 = c1
  s1 = s1
  s2 = s2
  t1 = t1
  r1 = r1
  Users = {u1, u2, u3}
  NoUser = NoUser
  Rosters <- Teams
  Customers = {k1}
  Desks = {d1, d2}
  Patches <- Edits
  MaxRequests = 2
  TokenDays = 0
  LastDay = 1
  LeadForms = {f1, f2}
  NoLeadForm = NoLeadForm
  Clerks = {clerk1, clerk2}
  MaxDispatches = 3
  MaxLeadFaults = 1
  LeadsEnabled = TRUE
  PageSize = 2
  CrmLimit = 2
  Clients = {a1}
  NoClient = NoClient
  MaxMeetings = 2
  Secretaries = {sec1, sec2}
  LastDate = 1
  MaxMoms = 1
  MaxMailFaults = 1
  Booked = {0}
  MailOn = TRUE
  Topics = {t1}
  NoTopic = NoTopic
  Readers = {r1}
  NoReader = NoReader
  Follows <- ScopeOfReader
  MaxEntries = 2
  Runners = {run1, run2}
  Batch = 1
  LastTime = 2
  MaxStateFaults = 1
  Circuits = {c1}
  NoCircuit = NoCircuit
  BulkSheets <- BulkBooks
  LeadSheets <- LeadBooks
  SamNames <- Directories
  Sams = {s1, s2}
  NoSam = NoSam
  Uploads = {up1, up2}
  MaxUploads = 2
  OpeningArc = 2
  FirstYear = 2025
  LastYear = 2027
INVARIANTS
  OneLeadPerForm
