---------------------------- MODULE LeadDispatch ----------------------------
(***************************************************************************)
(* Leads sent to the CRM: leads.controller.ts create() and                 *)
(* leads.service.ts commit().  A dispatch row is written before the CRM is *)
(* called and settled with its answer; the answer may be lost, the local   *)
(* update may fail after the CRM accepted, the process may die anywhere.   *)
(***************************************************************************)
EXTENDS Integers, FiniteSets

CONSTANTS
  LeadForms,     \* form mounts: what an operator takes for one lead
  NoLeadForm,    \* the form of a row not yet written
  Clerks,        \* requests in flight
  MaxDispatches, \* bound: rows of sam_lead_dispatches
  MaxLeadFaults, \* bound: failed calls and restarts
  LeadsEnabled,  \* LEAD_DISPATCH_ENABLED
  PageSize,      \* the limit of a page: 50 unless the request says, 200 at most
  CrmLimit       \* the leads the CRM is asked for: 200

ASSUME LeadAssumption ==
  /\ NoLeadForm \notin LeadForms
  /\ MaxDispatches \in Nat
  /\ MaxLeadFaults \in Nat
  /\ LeadsEnabled \in BOOLEAN
  /\ PageSize \in Nat
  /\ CrmLimit \in Nat

VARIABLES
  dispatch,    \* sam_lead_dispatches; a row stands for its samLeadId too
  crmLeads,    \* the samLeadIds the CRM has a lead for
  clerk,       \* the handlers in flight
  told,        \* what the operators of a form were told
  leadFaults   \* failed calls and restarts so far

leadVars == <<dispatch, crmLeads, clerk, told, leadFaults>>

Dispatches == 1..MaxDispatches

NoDispatch == [form |-> NoLeadForm, status |-> "NONE", reason |-> "NONE", crmId |-> FALSE]

\* A free request slot.
AtCounter == [pc |-> "free", form |-> NoLeadForm, id |-> 0, answer |-> "NONE"]

Sent == {i \in Dispatches : dispatch[i].status # "NONE"}

Doing(k, pc) == clerk[k].pc = pc

Proceed(k, job) == clerk' = [clerk EXCEPT ![k] = job]

Tell(k, word) ==
  /\ Proceed(k, AtCounter)
  /\ told' = [told EXCEPT ![clerk[k].form] = @ \cup {word}]

-----------------------------------------------------------------------------
(* create(): the form arrives, the BDM and the operator are looked up      *)

\* The bound on rows: every insert in flight keeps its place.
RoomForADispatch ==
  Cardinality(Sent) + Cardinality({k \in Clerks : clerk[k].pc \in {"lookup", "insert"}})
    < MaxDispatches

Submit(k, f) ==
  /\ RoomForADispatch
  /\ clerk[k] = AtCounter
  /\ Proceed(k, [AtCounter EXCEPT !.pc = "lookup", !.form = f])
  /\ UNCHANGED <<dispatch, crmLeads, told, leadFaults>>

\* The CRM has no such BDM or no answer, the operator's row is gone, or the
\* feature is off: nothing has been written.
LookupRefused(k) ==
  /\ Doing(k, "lookup")
  /\ Tell(k, "REFUSED")
  /\ UNCHANGED <<dispatch, crmLeads, leadFaults>>

LookupDone(k) ==
  /\ Doing(k, "lookup")
  /\ LeadsEnabled
  /\ Proceed(k, [clerk[k] EXCEPT !.pc = "insert"])
  /\ UNCHANGED <<dispatch, crmLeads, told, leadFaults>>

-----------------------------------------------------------------------------
(* commit()                                                                *)

\* Mutant of InsertRow: the row left to be written when the CRM has answered.
InsertRowLater(k) ==
  \E i \in Dispatches :
    /\ i = Cardinality(Sent) + 1
    /\ Doing(k, "insert")
    /\ Proceed(k, [clerk[k] EXCEPT !.pc = "crm", !.id = i])
    /\ UNCHANGED <<dispatch, crmLeads, told, leadFaults>>

\* A fresh samLeadId with every call; the row starts as FAILED, pending.
InsertRow(k) ==
  \E i \in Dispatches :
    /\ i = Cardinality(Sent) + 1
    /\ Doing(k, "insert")
    /\ dispatch' = [dispatch EXCEPT ![i] =
         [form |-> clerk[k].form, status |-> "FAILED", reason |-> "PENDING", crmId |-> FALSE]]
    /\ Proceed(k, [clerk[k] EXCEPT !.pc = "crm", !.id = i])
    /\ UNCHANGED <<crmLeads, told, leadFaults>>

\* The CRM makes one lead of a samLeadId.
CrmAccepts(k) ==
  LET i == clerk[k].id IN
  /\ Doing(k, "crm")
  /\ crmLeads' = crmLeads \cup {i}
  /\ Proceed(k, [clerk[k] EXCEPT !.pc = "settle",
                               !.answer = IF i \in crmLeads THEN "DEDUPED" ELSE "SENT"])
  /\ UNCHANGED <<dispatch, told, leadFaults>>

\* The CRM refuses the lead.
CrmRefuses(k) ==
  /\ Doing(k, "crm")
  /\ Proceed(k, [clerk[k] EXCEPT !.pc = "fail"])
  /\ UNCHANGED <<dispatch, crmLeads, told, leadFaults>>

\* The CRM takes the lead and its answer never comes.
CrmAnswerLost(k) ==
  /\ leadFaults < MaxLeadFaults
  /\ Doing(k, "crm")
  /\ crmLeads' = crmLeads \cup {clerk[k].id}
  /\ Proceed(k, [clerk[k] EXCEPT !.pc = "fail"])
  /\ leadFaults' = leadFaults + 1
  /\ UNCHANGED <<dispatch, told>>

SettleRow(k) ==
  LET i == clerk[k].id IN
  /\ Doing(k, "settle")
  /\ dispatch' = [dispatch EXCEPT ![i] =
       [@ EXCEPT !.status = clerk[k].answer, !.reason = "NONE", !.crmId = TRUE]]
  /\ Proceed(k, [clerk[k] EXCEPT !.pc = "answer"])
  /\ UNCHANGED <<crmLeads, told, leadFaults>>

\* The update is inside the try block: its error counts as a refusal.
SettleFails(k) ==
  /\ leadFaults < MaxLeadFaults
  /\ Doing(k, "settle")
  /\ Proceed(k, [clerk[k] EXCEPT !.pc = "fail", !.answer = "NONE"])
  /\ leadFaults' = leadFaults + 1
  /\ UNCHANGED <<dispatch, crmLeads, told>>

\* Mutant of FailRow: status and reason swapped.
FailRowSwapped(k) ==
  /\ Doing(k, "fail")
  /\ dispatch' = [dispatch EXCEPT ![clerk[k].id].status = "ERROR", ![clerk[k].id].reason = "FAILED"]
  /\ Proceed(k, [clerk[k] EXCEPT !.pc = "answer", !.answer = "FAILED"])
  /\ UNCHANGED <<crmLeads, told, leadFaults>>

FailRow(k) ==
  LET i == clerk[k].id IN
  /\ Doing(k, "fail")
  /\ dispatch' = [dispatch EXCEPT ![i] = [@ EXCEPT !.status = "FAILED", !.reason = "ERROR"]]
  /\ Proceed(k, [clerk[k] EXCEPT !.pc = "answer", !.answer = "FAILED"])
  /\ UNCHANGED <<crmLeads, told, leadFaults>>

\* The audit row, whose failure is swallowed, and the response.
Reply(k) ==
  /\ Doing(k, "answer")
  /\ Tell(k, IF clerk[k].answer = "FAILED" THEN "REJECTED" ELSE "CREATED")
  /\ UNCHANGED <<dispatch, crmLeads, leadFaults>>

\* A database call outside the try block throws, or the process restarts.
ClerkLost(k) ==
  /\ leadFaults < MaxLeadFaults
  /\ clerk[k] # AtCounter
  /\ Proceed(k, AtCounter)
  /\ leadFaults' = leadFaults + 1
  /\ UNCHANGED <<dispatch, crmLeads, told>>

LeadInit ==
  /\ dispatch = [i \in Dispatches |-> NoDispatch]
  /\ crmLeads = {}
  /\ clerk = [k \in Clerks |-> AtCounter]
  /\ told = [f \in LeadForms |-> {}]
  /\ leadFaults = 0

\* A handler goes on after its await.
LeadStep(k) ==
  \/ LookupRefused(k)
  \/ LookupDone(k)
  \/ InsertRow(k)
  \/ CrmAccepts(k)
  \/ CrmRefuses(k)
  \/ SettleRow(k)
  \/ FailRow(k)
  \/ Reply(k)

LeadFault(k) == CrmAnswerLost(k) \/ SettleFails(k) \/ ClerkLost(k)

LeadNext ==
  \E k \in Clerks : (\E f \in LeadForms : Submit(k, f)) \/ LeadStep(k) \/ LeadFault(k)

LeadSpec == LeadInit /\ [][LeadNext]_leadVars

-----------------------------------------------------------------------------
(* The "My leads" page: listDispatches() and listWithLiveStatus()          *)

\* Rows are numbered as they were created.
Newer(i) == {j \in Sent : j > i}

\* The newest rows, as many as the limit.
Page == {i \in Sent : Cardinality(Newer(i)) < PageSize}

\* What the CRM may answer: its leads, or some of them when they are too many.
LiveLists ==
  {list \in SUBSET crmLeads :
     /\ Cardinality(list) <= CrmLimit
     /\ Cardinality(crmLeads) <= CrmLimit => list = crmLeads}

\* What the page shows of row i: its own status and whether the CRM's list has a
\* lead under its samLeadId.
Shown(i, list) == [status |-> dispatch[i].status, live |-> i \in list]

-----------------------------------------------------------------------------
(* Properties                                                              *)

\* A row of the table, and a handler in flight.
DispatchRow ==
  [form : LeadForms \cup {NoLeadForm}, status : {"NONE", "FAILED", "SENT", "DEDUPED"},
   reason : {"NONE", "PENDING", "ERROR"}, crmId : BOOLEAN]

LeadJob ==
  [pc : {"free", "lookup", "insert", "crm", "settle", "fail", "answer"},
   form : LeadForms \cup {NoLeadForm}, id : Dispatches \cup {0},
   answer : {"NONE", "SENT", "DEDUPED", "FAILED"}]

LeadTypeOK ==
  /\ dispatch \in [Dispatches -> DispatchRow]
  /\ crmLeads \subseteq Dispatches
  /\ clerk \in [Clerks -> LeadJob]
  /\ told \in [LeadForms -> SUBSET {"REFUSED", "REJECTED", "CREATED"}]
  /\ leadFaults \in Nat

\* A page has the row, or is full of newer ones.
Listed(i) == i \in Page \/ Cardinality(Newer(i)) >= PageSize

\* "Doing this BEFORE the CRM call means a network failure still leaves a
\* discoverable row": whatever is lost, clicked twice or cut short, a lead the CRM
\* took is missing from the page only behind a page full of newer rows, a row shown
\* as sent is shown with its lead unless the CRM has more leads than it is asked
\* for, and an operator who was told that the lead is created finds a sent row of
\* the form, under the same limit.
EveryLeadIsOnThePage ==
  /\ \A i \in crmLeads : Listed(i)
  /\ \A list \in LiveLists, i \in Page :
       Shown(i, list).status \in {"SENT", "DEDUPED"} =>
         Shown(i, list).live \/ Cardinality(crmLeads) > CrmLimit
  /\ \A f \in LeadForms : "CREATED" \in told[f] =>
       \E i \in crmLeads \cap Sent :
         dispatch[i].form = f /\ dispatch[i].crmId /\ Listed(i)

-----------------------------------------------------------------------------
(* What the comments promise and the code does not keep                    *)

\* "a double-click -> second call returns DEDUPED": the CRM gets one lead for
\* each form mount.
OneLeadPerForm ==
  \A i, j \in crmLeads : dispatch[i].form = dispatch[j].form => i = j
=============================================================================
