------------------------------- MODULE MCOffice -------------------------------
(***************************************************************************)
(* The desks around the workflow, in one small instance.  They share no    *)
(* state, so interleaving them says nothing of any of them: "scene" is the *)
(* one that is at work in a behavior, the others stay as they began.       *)
(***************************************************************************)
EXTENDS StaffDesk, LeadDispatch, MeetingDesk, AuditFeed, Workbooks, Calendar, TLC

CONSTANTS u1, u2, u3    \* users
CONSTANT c1             \* a circuit
CONSTANTS s1, s2        \* users a workbook may name
CONSTANTS t1, r1        \* a topic and its reader

VARIABLE scene

officeVars == <<scene, staffVars, leadVars, meetingVars, feedVars, workbookVars, now>>

-----------------------------------------------------------------------------
(* Inputs                                                                  *)

\* One ADMIN, a head and a SAM; or two ADMINs and an unused id.
Teams == { u1 :> "ADMIN" @@ u2 :> "SAM_HEAD" @@ u3 :> "SAM",
           u1 :> "ADMIN" @@ u2 :> "ADMIN" @@ u3 :> "NONE" }

\* Promotion of a SAM, demotion of an ADMIN, and a SAM under a new head.
Edits == [role : {"SAM_HEAD"}, sethead : {TRUE}, head : {NoUser}]
           \cup [role : {"SAM"}, sethead : {TRUE}, head : {u2}]

ScopeOfReader == r1 :> {t1}

BulkCells(circuit, type, arc, day0) == [circuit |-> circuit, type |-> type, arc |-> arc, date |-> day0]
LeadCells(lead, status, arc, sam) == [lead |-> lead, status |-> status, arc |-> arc, sam |-> sam]

\* Rows out of order, a row after a disconnection, and rows of every fault.
BulkBooks ==
  { << BulkCells(c1, "DOWNGRADE", 1, 1), BulkCells(c1, "UPGRADE", 3, 0) >>,
    << BulkCells(c1, "UPGRADE", 3, 0), BulkCells(c1, "DISCONNECTION", Blank, 1),
       BulkCells(c1, "RATE_REVISION", 3, Blank) >>,
    << BulkCells(c1, "BOGUS", 3, 0), BulkCells(NoCircuit, "UPGRADE", 3, 0),
       BulkCells(c1, "RATE_REVISION", 2, 1), BulkCells(c1, "UPGRADE", Bad, 0) >> }

\* A user by address, a first name that may be ambiguous, and faulty rows.
LeadBooks ==
  { << LeadCells(c1, "BLANK", 3, "email") >>,
    << LeadCells(c1, "closed", Blank, "first"), LeadCells(NoCircuit, "paused", 1, "none") >>,
    << LeadCells(c1, "BOGUS", 3, "none"), LeadCells(c1, "new", Bad, "none") >> }

Directories == { [email |-> {s1}, first |-> {s1}], [email |-> {s1}, first |-> {s1, s2}] }

-----------------------------------------------------------------------------
Scenes == {"staff", "leads", "meetings", "feed", "books", "calendar"}

OfficeInit ==
  /\ scene \in Scenes
  /\ StaffInit /\ LeadInit /\ MeetingInit /\ FeedInit /\ WorkbookInit /\ CalendarInit
  /\ scene # "staff" => /\ role = CHOOSE roster \in Rosters : TRUE
                        /\ head = [u \in Users |-> NoUser]
  /\ scene # "books" => account = [k \in Circuits |-> NoAccount]

\* Nobody is at work.
Closed ==
  /\ desk = [d \in Desks |-> FreeDesk]
  /\ clerk = [k \in Clerks |-> AtCounter]
  /\ secretary = [k \in Secretaries |-> AtRest]
  /\ runner = [k \in Runners |-> Idle]
  /\ upload = [i \in Uploads |-> NoUpload]
  /\ UNCHANGED officeVars

OfficeNext ==
  \/ /\ scene = "staff" /\ StaffNext
     /\ UNCHANGED <<scene, leadVars, meetingVars, feedVars, workbookVars, now>>
  \/ /\ scene = "leads" /\ LeadNext
     /\ UNCHANGED <<scene, staffVars, meetingVars, feedVars, workbookVars, now>>
  \/ /\ scene = "meetings" /\ MeetingNext
     /\ UNCHANGED <<scene, staffVars, leadVars, feedVars, workbookVars, now>>
  \/ /\ scene = "feed" /\ FeedNext
     /\ UNCHANGED <<scene, staffVars, leadVars, meetingVars, workbookVars, now>>
  \/ /\ scene = "books" /\ WorkbookNext
     /\ UNCHANGED <<scene, staffVars, leadVars, meetingVars, feedVars, now>>
  \/ /\ scene = "calendar" /\ NextMonth
     /\ UNCHANGED <<scene, staffVars, leadVars, meetingVars, feedVars, workbookVars>>
  \/ Closed

OfficeSpec == OfficeInit /\ [][OfficeNext]_officeVars

\* The requests of a desk are alike (the symmetries that save the most).
RequestSymmetry ==
  UNION {Permutations(Desks), Permutations(Secretaries), Permutations(Runners)}

\* The types of all desks.
OfficeTypeOK ==
  StaffTypeOK /\ LeadTypeOK /\ MeetingTypeOK /\ FeedTypeOK /\ WorkbookTypeOK
=============================================================================
