---------------------------- MODULE CrmBookProofs ----------------------------
(***************************************************************************)
(* Theorems of CrmBook, for any number of accounts, rows, handlers, days   *)
(* and faults, and for any webhooks under way.                             *)
(***************************************************************************)
EXTENDS MCCrmBook, FiguresProofs, TLAPS

-----------------------------------------------------------------------------
(* Types of the records the handlers build                                 *)

LEMMA NewRowType ==
  ASSUME DomainAssumption,
         NEW a \in Accounts \cup {NoAccount}, NEW form \in Forms \cup {NoForm},
         NEW oldArc \in Nat, NEW day \in Nat
  PROVE  NewRow(a, form, oldArc, day) \in Row
<1>1. 0 \in Nat /\ Arcs \subseteq Nat
  BY DEF DomainAssumption
<1>2. form.newArc \in Nat
  <2>1. form.newArc \in Arcs \cup {0}
    BY DEF Forms, NoForm
  <2>2. QED
    BY <1>1, <2>1
<1>3. /\ form.type \in ChangeTypes \cup {"NONE"}
      /\ form.mode \in {"NONE", "NORMAL", "QUICK"}
      /\ form.days \in Nat
  BY DEF Forms, NoForm, ChangeTypes, ChargeTypes, DomainAssumption
<1>4. QED
  BY <1>2, <1>3 DEF NewRow, Row, ApprovalStatus, PendingStages, Days, Never, CrmStatus

LEMMA BackfilledRowType ==
  ASSUME DomainAssumption,
         NEW a \in Accounts, NEW oldArc \in Nat, NEW day \in Nat, NEW effectiveDate \in Nat
  PROVE  BackfilledRow(a, oldArc, day, effectiveDate) \in Row
<1>1. NormalDisconnection \in Forms
  BY DEF NormalDisconnection, Forms
<1>2. NewRow(a, NormalDisconnection, oldArc, day) \in Row
  BY <1>1, NewRowType
<1>3. QED
  BY <1>2 DEF BackfilledRow, Row, Days, CrmStatus

LEMMA IdleType == Idle \in Request
  BY DEF Idle, Request

\* A decision webhook as it is taken.
LEMMA DecidedCallType ==
  ASSUME NEW c \in Changes, NEW says \in Decisions, NEW day \in Nat,
         NEW pc \in {"decidedCrm", "decidedTx"}
  PROVE  [Idle EXCEPT !.pc = pc, !.c = c, !.seen = says, !.born = day] \in Request
  BY DEF Idle, Request

\* A call of commit() as it is read: its form, and the account as it was.
LEMMA FormCallType ==
  ASSUME NEW a \in Accounts, NEW form \in Forms, NEW now \in ContractStatus,
         NEW charge \in Nat, NEW day \in Nat
  PROVE  [Idle EXCEPT !.pc = "commitTx", !.a = a, !.form = form,
                      !.seen = now, !.arc = charge, !.born = day] \in Request
  BY ZenonT(30) DEF Request, Idle

\* A call that holds a row and where the CRM stands with its order.
LEMMA ReportCallType ==
  ASSUME NEW pc \in {"refreshTx", "activationTx"}, NEW c \in Changes, NEW mark \in OrderStatus,
         today \in Nat
  PROVE  [Idle EXCEPT !.pc = pc, !.c = c, !.crm = mark, !.born = today] \in Request
  BY ZenonT(30) DEF Request, Idle

LEMMA ReportsType ==
  ASSUME post \subseteq Webhooks, NEW c \in Changes, NEW stage \in OrderStatus, Reports(c, stage)
  PROVE  post' \subseteq Webhooks
  BY DEF Reports, Sends, Webhooks

LEMMA WriteType ==
  ASSUME change \in [Changes -> Row], NEW c \in Changes, NEW row \in Row, Write(c, row)
  PROVE  change' \in [Changes -> Row]
  BY DEF Write

LEMMA ResumeType ==
  ASSUME req \in [Slots -> Request], NEW s \in Slots, NEW call \in Request, Resume(s, call)
  PROVE  req' \in [Slots -> Request]
  BY DEF Resume

\* A handler goes on: to another await, another row, another rest of its list.
LEMMA CallEdits ==
  ASSUME NEW q \in Request,
         NEW pc \in {"route", "autoRetainTx", "applyTx", "sweep", "push", "orderCrm", "orderTx"},
         NEW c \in Changes \cup {0}, NEW due \in SUBSET Changes
  PROVE  /\ [q EXCEPT !.pc = pc, !.c = c, !.due = due] \in Request
         /\ [q EXCEPT !.pc = pc, !.due = due] \in Request
         /\ [q EXCEPT !.pc = pc, !.c = c] \in Request
         /\ [q EXCEPT !.pc = pc] \in Request
         /\ [q EXCEPT !.due = due] \in Request
<1>1. [q EXCEPT !.pc = pc] \in Request
  BY DEF Request
<1>2. \A r \in Request : [r EXCEPT !.c = c] \in Request /\ [r EXCEPT !.due = due] \in Request
  BY DEF Request
<1>3. /\ [[q EXCEPT !.pc = pc] EXCEPT !.c = c] \in Request
      /\ [[q EXCEPT !.pc = pc] EXCEPT !.due = due] \in Request
      /\ [[[q EXCEPT !.pc = pc] EXCEPT !.c = c] EXCEPT !.due = due] \in Request
  BY <1>1, <1>2
<1>4. QED
  BY <1>1, <1>2, <1>3

\* What a handler at an await past the insertion of its row knows about that row.
LEMMA HeldRow ==
  ASSUME CrmBookTypeOK, BookInOrder, HandlersHoldTheirRows, NEW s \in Slots,
         req[s].pc \in {"autoRetain", "autoRetainTx", "route", "push", "orderCrm", "orderTx",
                       "retainTx", "proceedCrm", "proceedTx", "refreshTx", "activationTx",
                       "decidedCrm", "decidedTx", "statusTx", "applyTx"}
  PROVE  /\ req[s] \in Request
         /\ req[s].born \in Nat
         /\ req[s].c \in Changes
         /\ req[s].c < nextId
         /\ change[req[s].c] \in Row
         /\ change[req[s].c].acct \in Accounts
         /\ change[req[s].c].type \in ChangeTypes
<1>1. req[s] \in Request /\ HoldsRow(req[s])
  BY DEF CrmBookTypeOK, LedgerTypeOK, HandlersHoldTheirRows
<1>2. req[s].c \in Changes /\ req[s].c < nextId
  BY <1>1 DEF HoldsRow, Raises
<1>3. change[req[s].c] \in Row
  BY <1>2 DEF CrmBookTypeOK, LedgerTypeOK
<1>4. change[req[s].c].acct \in Accounts /\ change[req[s].c].type \in ChangeTypes
  BY <1>2 DEF BookInOrder
<1>5. QED
  BY <1>1, <1>2, <1>3, <1>4 DEF Request

LEMMA InitType ==
  ASSUME DomainAssumption, CrmBookInit
  PROVE  CrmBookTypeOK
<1>1. BlankRow \in Row
  BY NewRowType DEF BlankRow
<1>2. arc \in [Accounts -> Nat]
  BY DEF CrmBookInit, LedgerInit, DomainAssumption
<1>3. LedgerTypeOK
  BY <1>1, <1>2, IdleType DEF CrmBookInit, LedgerInit, LedgerTypeOK, ContractStatus
<1>4. QED
  BY <1>3 DEF CrmBookInit, CrmBookTypeOK

\* What statusChanged writes has its type.
LEMMA StatusRowType ==
  ASSUME today \in Nat, NEW row \in Row, NEW says \in OrderStatus,
         NEW seen, NEW now \in ContractStatus
  PROVE  RowAfterStatus(row, says) \in Row /\ StatusAfter(says, seen, now) \in ContractStatus
<1>1. [row EXCEPT !.crm = says] \in Row
  BY DEF Row, CrmStatus
<1>2. today + row.days \in Days
  BY DEF Row, Days
<1>3. RowAfterStatus(row, says) \in Row
  <2> DEFINE quick == row.mode = "QUICK"
             marked == [row EXCEPT !.crm = says]
             stamped == [marked EXCEPT !.retention = "PROCEED",
                                       !.quick = IF quick THEN "APPROVED" ELSE @,
                                       !.sched = IF quick THEN today + row.days ELSE @]
  <2>1. stamped \in Row
    <3> DEFINE Stamp(q, d) == [marked EXCEPT !.retention = "PROCEED", !.quick = q, !.sched = d]
    <3> HIDE DEF marked
    <3>1. \A q \in {"NONE", "APPROVED", "REJECTED"}, d \in Days : Stamp(q, d) \in Row
      BY <1>1 DEF Row, marked
    <3>2. PICK q \in {"NONE", "APPROVED", "REJECTED"}, d \in Days :
            /\ q = IF quick THEN "APPROVED" ELSE marked.quick
            /\ d = IF quick THEN today + row.days ELSE marked.sched
      BY <1>1, <1>2 DEF Row, marked
    <3>3. Stamp(q, d) = stamped
      BY <3>2
    <3> HIDE DEF stamped, Stamp
    <3>4. QED
      BY <3>1, <3>3
  <2>2. [marked EXCEPT !.applied = TRUE] \in Row /\ [marked EXCEPT !.quick = "REJECTED"] \in Row
    BY <1>1 DEF Row
  <2>3. RowAfterStatus(row, says)
          \in {stamped, [marked EXCEPT !.applied = TRUE], [marked EXCEPT !.quick = "REJECTED"], marked}
    <3> HIDE DEF marked, quick
    <3>1. CASE says = "DOCS"
      BY <3>1 DEF RowAfterStatus, marked, quick
    <3>2. CASE says # "DOCS"
      BY <3>2 DEF RowAfterStatus, marked, quick
    <3>3. QED
      BY <3>1, <3>2
  <2>4. QED
    BY <1>1, <2>1, <2>2, <2>3
<1>4. StatusAfter(says, seen, now) \in ContractStatus
  BY DEF StatusAfter, ContractStatus
<1>5. QED
  BY <1>3, <1>4

-----------------------------------------------------------------------------
(* CrmBookTypeOK is preserved                                              *)

LEMMA SharedTypeStep ==
  ASSUME DomainAssumption, LedgerAssumption, CrmBookTypeOK, BookInOrder, HandlersHoldTheirRows,
         \/ \E s \in Writers : SharedStep(s)
         \/ \E s \in Readers : SweepRead(s)
         \/ \E s \in Slots : ApplyStep(s)
         \/ Around
  PROVE  LedgerTypeOK'
<1> USE IdleType DEF CrmBookTypeOK, LedgerTypeOK, Slots
<1>1. ASSUME NEW s \in Writers, NEW a \in Accounts, NEW form \in Offered, CommitRead(s, a, form)
      PROVE  LedgerTypeOK'
  <2> DEFINE call == [Idle EXCEPT !.pc = "commitTx", !.a = a, !.form = form,
                                  !.seen = status[a], !.arc = arc[a], !.born = today]
  <2>1. form \in Forms
    BY DEF LedgerAssumption
  <2>2. call \in Request
    BY <2>1, FormCallType
  <2>3. req' \in [Slots -> Request]
    BY <1>1, <2>2, ResumeType DEF CommitRead, Start
  <2>4. QED
    BY <1>1, <2>3 DEF CommitRead
<1>2. ASSUME NEW s \in Writers, CommitTx(s)
      PROVE  LedgerTypeOK'
  <2>1. /\ req[s] \in Request
        /\ req[s].a \in Accounts /\ req[s].form \in Forms /\ req[s].arc \in Nat
        /\ nextId \in Changes
    BY <1>2 DEF CommitTx, At, HandlersHoldTheirRows, HoldsRow, Request
  <2>2. NewRow(req[s].a, req[s].form, req[s].arc, today) \in Row
    BY <2>1, NewRowType
  <2>3. change' \in [Changes -> Row]
    BY <1>2, <2>1, <2>2, WriteType DEF CommitTx
  <2>4. \A pc \in {"autoRetain", "route"} :
          [Idle EXCEPT !.pc = pc, !.a = req[s].a, !.c = nextId, !.born = req[s].born] \in Request
    BY ZenonT(30), <2>1 DEF Request, Idle
  <2>5. req' \in [Slots -> Request]
    BY <1>2, <2>4, ResumeType DEF CommitTx
  <2>6. QED
    BY <1>2, <2>3, <2>5 DEF CommitTx
<1>3. ASSUME NEW s \in Writers, AutoRetainFind(s)
      PROVE  LedgerTypeOK'
  <2>1. \E call \in Request : Resume(s, call)
    <3>1. ASSUME NEW c \in Changes
          PROVE  [req[s] EXCEPT !.pc = "autoRetainTx", !.due = {c}] \in Request
      <4>1. {c} \in SUBSET Changes /\ 0 \in Changes \cup {0}
        OBVIOUS
      <4>2. QED
        BY <4>1, CallEdits
    <3>2. [req[s] EXCEPT !.pc = "route"] \in Request
      BY DEF Request
    <3>3. QED
      BY <1>3, <3>1, <3>2 DEF AutoRetainFind, Undecided, Raised
  <2>2. req' \in [Slots -> Request]
    BY <2>1, ResumeType
  <2>3. QED
    BY <1>3, <2>2 DEF AutoRetainFind
<1>4. ASSUME NEW s \in Writers, AutoRetainTx(s)
      PROVE  LedgerTypeOK'
  <2>1. PICK c \in req[s].due : /\ Write(c, [change[c] EXCEPT !.retention = "RETAIN"])
                                /\ MoveAccount(c, "ACTIVE")
    BY <1>4 DEF AutoRetainTx
  <2>2. req[s] \in Request /\ c \in Changes /\ change[c] \in Row
    BY DEF Request
  <2>3. [change[c] EXCEPT !.retention = "RETAIN"] \in Row
    BY <2>2 DEF Row
  <2>4. change' \in [Changes -> Row]
    BY <2>1, <2>2, <2>3, WriteType
  <2>5. [req[s] EXCEPT !.pc = "route", !.due = {}] \in Request
    <3>1. {} \in SUBSET Changes /\ 0 \in Changes \cup {0}
      OBVIOUS
    <3>2. QED
      BY <2>2, <3>1, CallEdits
  <2>6. req' \in [Slots -> Request]
    BY <1>4, <2>5, ResumeType DEF AutoRetainTx
  <2>7. status' \in [Accounts -> ContractStatus]
    BY <2>1 DEF MoveAccount, ContractStatus
  <2>8. QED
    BY <1>4, <2>4, <2>6, <2>7 DEF AutoRetainTx
<1>5. ASSUME NEW s \in Writers, NEW c \in Raised, NEW decision \in {"RETAIN", "PROCEED"},
             RetentionRead(s, c, decision)
      PROVE  LedgerTypeOK'
  <2> DEFINE call(pc) == [Idle EXCEPT !.pc = pc, !.c = c, !.born = today]
  <2>1. \A pc \in {"retainTx", "proceedCrm", "proceedTx"} : call(pc) \in Request
    BY ZenonT(30) DEF Request, Raised, Idle
  <2>2. \E pc \in {"retainTx", "proceedCrm", "proceedTx"} : Resume(s, call(pc))
    BY <1>5 DEF RetentionRead, Start
  <2>3. req' \in [Slots -> Request]
    BY <2>1, <2>2, ResumeType
  <2>4. QED
    BY <1>5, <2>3 DEF RetentionRead
<1>6. ASSUME NEW s \in Writers, RetainTx(s)
      PROVE  LedgerTypeOK'
  <2>1. req[s].c \in Changes /\ change[req[s].c] \in Row
    BY <1>6, HeldRow DEF RetainTx, At
  <2>2. [change[req[s].c] EXCEPT !.retention = "RETAIN"] \in Row
    BY <2>1 DEF Row
  <2>3. change' \in [Changes -> Row]
    BY <1>6, <2>1, <2>2, WriteType DEF RetainTx
  <2>4. req' \in [Slots -> Request]
    BY <1>6, ResumeType DEF RetainTx, Finish
  <2>5. status' \in [Accounts -> ContractStatus]
    BY <1>6 DEF RetainTx, MoveAccount, ContractStatus
  <2>6. QED
    BY <1>6, <2>3, <2>4, <2>5 DEF RetainTx
<1>7. ASSUME NEW s \in Writers, NEW a \in Accounts, BackfillRead(s, a)
      PROVE  LedgerTypeOK'
  <2>1. [Idle EXCEPT !.pc = "backfillTx", !.a = a, !.arc = arc[a], !.born = today] \in Request
    BY ZenonT(30) DEF Request, Idle
  <2>2. req' \in [Slots -> Request]
    BY <1>7, <2>1, ResumeType DEF BackfillRead, Start
  <2>3. QED
    BY <1>7, <2>2 DEF BackfillRead
<1>8. ASSUME NEW s \in Writers, BackfillTx(s)
      PROVE  LedgerTypeOK'
  <2>1. req[s].a \in Accounts /\ req[s].arc \in Nat /\ nextId \in Changes
    BY <1>8 DEF BackfillTx, At, HandlersHoldTheirRows, HoldsRow, Request
  <2>2. PICK effectiveDate \in 0..MaxDay :
          Write(nextId, BackfilledRow(req[s].a, req[s].arc, today, effectiveDate))
    BY <1>8 DEF BackfillTx
  <2>3. BackfilledRow(req[s].a, req[s].arc, today, effectiveDate) \in Row
    BY <2>1, BackfilledRowType DEF LedgerAssumption
  <2>4. change' \in [Changes -> Row]
    BY <2>1, <2>2, <2>3, WriteType
  <2>5. req' \in [Slots -> Request]
    BY <1>8, ResumeType DEF BackfillTx, Finish
  <2>6. /\ status' \in [Accounts -> ContractStatus]
        /\ arc' \in [Accounts -> Nat]
    BY <1>8 DEF BackfillTx, ContractStatus
  <2>7. QED
    BY <1>8, <2>4, <2>5, <2>6 DEF BackfillTx
<1>9. ASSUME NEW s \in Readers, SweepRead(s)
      PROVE  LedgerTypeOK'
  <2>1. [Idle EXCEPT !.pc = "sweep", !.due = Due, !.born = today] \in Request
    BY ZenonT(30) DEF Request, Due, Idle
  <2>2. req' \in [Slots -> Request]
    BY <1>9, <2>1, ResumeType DEF SweepRead, Start
  <2>3. QED
    BY <1>9, <2>2 DEF SweepRead
<1>10. ASSUME NEW s \in Slots, ApplyRead(s)
       PROVE  LedgerTypeOK'
  <2>1. req[s] \in Request /\ req[s].due \subseteq Changes
    BY DEF Request
  <2>2. ASSUME NEW c \in req[s].due
        PROVE  /\ [req[s] EXCEPT !.pc = "applyTx", !.c = c, !.due = req[s].due \ {c}] \in Request
               /\ [req[s] EXCEPT !.due = req[s].due \ {c}] \in Request
    <3>1. req[s].due \ {c} \in SUBSET Changes /\ c \in Changes \cup {0}
      BY <2>1
    <3>2. QED
      BY <2>1, <3>1, CallEdits
  <2>3. \E call \in Request : Resume(s, call)
    BY <1>10, <2>2 DEF ApplyRead
  <2>4. req' \in [Slots -> Request]
    BY <2>3, ResumeType
  <2>5. QED
    BY <1>10, <2>4 DEF ApplyRead
<1>11. ASSUME NEW s \in Slots, ApplyTx(s)
       PROVE  LedgerTypeOK'
  <2>1. req[s].c \in Changes /\ change[req[s].c] \in Row /\ req[s] \in Request
    BY <1>11, HeldRow DEF ApplyTx, At
  <2>2. [change[req[s].c] EXCEPT !.applied = TRUE] \in Row
    BY <2>1 DEF Row
  <2>3. change' \in [Changes -> Row]
    BY <1>11, <2>1, <2>2, WriteType DEF ApplyTx
  <2>4. [req[s] EXCEPT !.pc = "sweep", !.c = 0] \in Request
    <3>1. {} \in SUBSET Changes /\ 0 \in Changes \cup {0}
      OBVIOUS
    <3>2. QED
      BY <2>1, <3>1, CallEdits
  <2>5. req' \in [Slots -> Request]
    BY <1>11, <2>4, ResumeType DEF ApplyTx
  <2>6. change[req[s].c].newArc \in Nat
    BY <2>1 DEF Row
  <2>7. /\ status' \in [Accounts -> ContractStatus]
        /\ arc' \in [Accounts -> Nat]
    BY <1>11, <2>6 DEF ApplyTx, ApplyToAccount, ContractStatus
  <2>8. QED
    BY <1>11, <2>3, <2>5, <2>7 DEF ApplyTx
<1>12. ASSUME NEW s \in Slots, CallFails(s)
       PROVE  LedgerTypeOK'
  BY <1>12, ResumeType DEF CallFails, Finish
<1>13. CASE Restart
  BY <1>13 DEF Restart
<1>14. ASSUME NEW a \in Accounts, AdminUpdate(a)
       PROVE  LedgerTypeOK'
  <2>1. Arcs \subseteq Nat
    BY DEF DomainAssumption
  <2>2. /\ status' \in [Accounts -> ContractStatus]
        /\ arc' \in [Accounts -> Nat]
    BY <1>14, <2>1 DEF AdminUpdate
  <2>3. QED
    BY <1>14, <2>1, <2>2 DEF AdminUpdate
<1>15. CASE Tick
  BY <1>15 DEF Tick
<1>16. CASE BookClosed
  BY <1>16 DEF BookClosed, vars
<1>17. QED
  BY <1>1, <1>2, <1>3, <1>4, <1>5, <1>6, <1>7, <1>8, <1>9, <1>10, <1>11, <1>12, <1>13, <1>14,
     <1>15, <1>16
  DEF SharedStep, ApplyStep, Around

LEMMA NewBookTypeStep ==
  ASSUME DomainAssumption, LedgerAssumption, CrmBookTypeOK, BookInOrder, HandlersHoldTheirRows,
         NEW s \in Writers, NewBookStep(s)
  PROVE  CrmBookTypeOK'
<1> USE IdleType DEF CrmBookTypeOK, LedgerTypeOK, Slots
<1>1. CASE EnterPendingQuickApproval(s)
  <2>1. [req[s] EXCEPT !.pc = "push"] \in Request
    BY DEF Request
  <2>2. req' \in [Slots -> Request]
    BY <1>1, <2>1, ResumeType DEF EnterPendingQuickApproval
  <2>3. status' \in [Accounts -> ContractStatus]
    BY <1>1 DEF EnterPendingQuickApproval, MoveAccount, ContractStatus
  <2>4. QED
    BY <1>1, <2>2, <2>3 DEF EnterPendingQuickApproval, crmVars
<1>2. CASE PushQuick(s)
  <2>1. req' \in [Slots -> Request]
    BY <1>2, ResumeType DEF PushQuick, Finish
  <2>2. QED
    BY <1>2, <2>1 DEF PushQuick, ledgerVars
<1>3. CASE EnterProbableChurn(s)
  <2>1. req[s].c \in Changes /\ change[req[s].c] \in Row
    BY <1>3, HeldRow DEF EnterProbableChurn, OfNewBook, At
  <2>2. PICK effectiveDate \in 0..MaxDay :
          Write(req[s].c, [change[req[s].c] EXCEPT !.prompt = effectiveDate + WindowDays])
    BY <1>3 DEF EnterProbableChurn
  <2>3. effectiveDate + WindowDays \in Days
    BY DEF LedgerAssumption, DomainAssumption, Days
  <2>4. [change[req[s].c] EXCEPT !.prompt = effectiveDate + WindowDays] \in Row
    BY <2>1, <2>3 DEF Row
  <2>5. change' \in [Changes -> Row]
    BY <2>1, <2>2, <2>4, WriteType
  <2>6. req' \in [Slots -> Request]
    BY <1>3, ResumeType DEF EnterProbableChurn, Finish
  <2>7. status' \in [Accounts -> ContractStatus]
    BY <1>3 DEF EnterProbableChurn, MoveAccount, ContractStatus
  <2>8. QED
    BY <1>3, <2>5, <2>6, <2>7 DEF EnterProbableChurn, crmVars
<1>4. CASE RouteArcChange(s)
  <2>1. req[s].c \in Changes /\ req[s] \in Request
    BY <1>4, HeldRow DEF RouteArcChange, OfNewBook, At
  <2>2. /\ [req[s] EXCEPT !.pc = "sweep", !.due = {req[s].c}] \in Request
        /\ [req[s] EXCEPT !.pc = "orderCrm"] \in Request
    <3>1. {req[s].c} \in SUBSET Changes /\ 0 \in Changes \cup {0}
      BY <2>1
    <3>2. QED
      BY <2>1, <3>1, CallEdits
  <2>3. req' \in [Slots -> Request]
    BY <1>4, <2>2, ResumeType DEF RouteArcChange
  <2>4. QED
    BY <1>4, <2>3 DEF RouteArcChange, ledgerVars, crmVars
<1>5. CASE OrderCrm(s)
  <2>1. req[s] \in Request
    OBVIOUS
  <2>2. [req[s] EXCEPT !.pc = "orderTx"] \in Request
    BY <2>1 DEF Request
  <2>3. req' \in [Slots -> Request]
    BY <1>5, <2>2, ResumeType DEF OrderCrm, Finish
  <2>4. /\ orders' \in [Changes -> Nat]
        /\ crmAt' \in [Changes -> OrderStatus \cup {"NONE"}]
    BY <1>5 DEF OrderCrm, TakeOrder, OrderStatus
  <2>5. QED
    BY <1>5, <2>3, <2>4 DEF OrderCrm
<1>6. CASE OrderTx(s)
  <2>1. req[s].c \in Changes /\ change[req[s].c] \in Row
    BY <1>6, HeldRow DEF OrderTx, At
  <2>2. [change[req[s].c] EXCEPT !.crm = "ORDERED"] \in Row
    BY <2>1 DEF Row, CrmStatus, OrderStatus
  <2>3. change' \in [Changes -> Row]
    BY <1>6, <2>1, <2>2, WriteType DEF OrderTx
  <2>4. req' \in [Slots -> Request]
    BY <1>6, ResumeType DEF OrderTx, Finish
  <2>5. QED
    BY <1>6, <2>1, <2>3, <2>4 DEF OrderTx
<1>7. CASE ProceedOrder(s)
  <2>1. req[s] \in Request
    OBVIOUS
  <2>2. \A mark \in {"ORDERED", "FAILED"} :
          [req[s] EXCEPT !.pc = "proceedTx", !.crm = mark] \in Request
    BY ZenonT(30), <2>1 DEF Request, OrderStatus
  <2>3. \E mark \in {"ORDERED", "FAILED"} :
          Resume(s, [req[s] EXCEPT !.pc = "proceedTx", !.crm = mark])
    BY <1>7 DEF ProceedOrder, ProceedCrm
  <2>4. req' \in [Slots -> Request]
    BY <2>2, <2>3, ResumeType
  <2>5. orders' \in [Changes -> Nat]
    BY <1>7 DEF ProceedOrder, ProceedCrm
  <2>6. crmAt' \in [Changes -> OrderStatus \cup {"NONE"}]
    BY <1>7 DEF ProceedOrder, OrderStatus
  <2>7. UNCHANGED <<status, arc, change, nextId, today, edited, faults, linked, asked, post, activated>>
    BY <1>7 DEF ProceedOrder, ProceedCrm
  <2>8. QED
    BY <2>4, <2>5, <2>6, <2>7
<1>8. CASE Proceed(s)
  <2>1. /\ req[s].c \in Changes /\ change[req[s].c] \in Row
        /\ req[s].born \in Nat /\ req[s] \in Request
    BY <1>8, HeldRow DEF Proceed, ProceedTx, At
  <2> DEFINE mark == IF req[s].crm = "NONE" THEN change[req[s].c].crm ELSE req[s].crm
  <2>2. req[s].born + NoticeDays \in Days /\ mark \in CrmStatus
    BY <2>1 DEF DomainAssumption, Days, Row, Request, CrmStatus
  <2>3. [change[req[s].c] EXCEPT !.retention = "PROCEED",
                                 !.sched = req[s].born + NoticeDays,
                                 !.crm = mark] \in Row
    BY ZenonT(30), <2>1, <2>2 DEF Row
  <2>4. change' \in [Changes -> Row]
    BY <1>8, <2>1, <2>3, WriteType DEF Proceed, ProceedTx
  <2>5. req' \in [Slots -> Request]
    BY <1>8, ResumeType DEF Proceed, ProceedTx, Finish
  <2>6. status' \in [Accounts -> ContractStatus]
    BY <1>8 DEF Proceed, ProceedTx, MoveAccount, ContractStatus
  <2>7. linked' \subseteq Changes
    BY <1>8, <2>1 DEF Proceed
  <2>8. UNCHANGED <<arc, nextId, orders, today, edited, faults, crmAt, asked, post, activated>>
    BY <1>8 DEF Proceed, ProceedTx
  <2>9. QED
    BY <2>4, <2>5, <2>6, <2>7, <2>8
<1>9. ASSUME NEW c \in Raised, RefreshRead(s, c)
      PROVE  CrmBookTypeOK'
  <2>1. [Idle EXCEPT !.pc = "refreshTx", !.c = c, !.crm = crmAt[c], !.born = today] \in Request
    BY <1>9, ReportCallType DEF RefreshRead, Raised
  <2>2. req' \in [Slots -> Request]
    BY <1>9, <2>1, ResumeType DEF RefreshRead, Start
  <2>3. QED
    BY <1>9, <2>2 DEF RefreshRead, ledgerVars, crmVars
<1>10. ASSUME NEW c \in Raised, SetActivationDate(s, c)
       PROVE  CrmBookTypeOK'
  <2>1. PICK stands \in {"IN_FLIGHT", "COMPLETED"} :
          /\ crmAt' = [crmAt EXCEPT ![c] = stands]
          /\ \/ Resume(s, [Idle EXCEPT !.pc = "activationTx", !.c = c, !.crm = stands,
                                       !.born = today])
             \/ UNCHANGED req
          /\ Reports(c, stands)
    BY <1>10 DEF SetActivationDate
  <2>2. c \in Changes /\ stands \in OrderStatus
    BY DEF Raised, OrderStatus
  <2>3. [Idle EXCEPT !.pc = "activationTx", !.c = c, !.crm = stands, !.born = today] \in Request
    BY <2>2, ReportCallType
  <2>4. req' \in [Slots -> Request]
    BY <2>1, <2>3, ResumeType
  <2>5. crmAt' \in [Changes -> OrderStatus \cup {"NONE"}]
    BY <2>1, <2>2
  <2>6. post' \subseteq Webhooks
    BY <2>1, <2>2, ReportsType
  <2>7. QED
    BY <1>10, <2>4, <2>5, <2>6 DEF SetActivationDate, ledgerVars
<1>11. CASE RefreshTx(s)
  <2>1. req[s].c \in Changes /\ change[req[s].c] \in Row /\ req[s] \in Request
    BY <1>11, HeldRow DEF RefreshTx, At
  <2>2. req[s].crm \in OrderStatus
    BY <1>11 DEF HandlersHoldTheirRows, HoldsRow, RefreshTx, At
  <2>3. [change[req[s].c] EXCEPT !.crm = req[s].crm] \in Row
    BY <2>1, <2>2 DEF Row, CrmStatus
  <2>4. change' \in [Changes -> Row]
    BY <1>11, <2>1, <2>3, WriteType DEF RefreshTx
  <2>5. [req[s] EXCEPT !.pc = "sweep", !.due = {req[s].c}] \in Request
    <3>1. {req[s].c} \in SUBSET Changes /\ 0 \in Changes \cup {0}
      BY <2>1
    <3>2. QED
      BY <2>1, <3>1, CallEdits
  <2>6. req' \in [Slots -> Request]
    BY <1>11, <2>5, ResumeType DEF RefreshTx
  <2>7. QED
    BY <1>11, <2>4, <2>6 DEF RefreshTx, crmVars
<1>12. CASE ActivationTx(s)
  <2>1. req[s].c \in Changes /\ change[req[s].c] \in Row /\ req[s] \in Request
    BY <1>12, HeldRow DEF ActivationTx, At
  <2>2. req[s].crm \in OrderStatus
    BY <1>12 DEF HandlersHoldTheirRows, HoldsRow, ActivationTx, At
  <2>3. [change[req[s].c] EXCEPT !.crm = req[s].crm] \in Row
    BY <2>1, <2>2 DEF Row, CrmStatus
  <2>4. change' \in [Changes -> Row]
    BY <1>12, <2>1, <2>3, WriteType DEF ActivationTx
  <2>5. [req[s] EXCEPT !.pc = "sweep", !.due = {req[s].c}] \in Request
    <3>1. {req[s].c} \in SUBSET Changes
      BY <2>1
    <3>2. QED
      BY <2>1, <3>1, CallEdits
  <2>6. req' \in [Slots -> Request]
    BY <1>12, <2>5, ResumeType DEF ActivationTx
  <2>7. QED
    BY <1>12, <2>4, <2>6 DEF ActivationTx, crmVars
<1>13. QED
  BY <1>1, <1>2, <1>3, <1>4, <1>5, <1>6, <1>7, <1>8, <1>9, <1>10, <1>11, <1>12
  DEF NewBookStep

LEMMA WebhookTypeStep ==
  ASSUME DomainAssumption, LedgerAssumption, CrmBookTypeOK, BookInOrder, HandlersHoldTheirRows,
         CrmKnowsRows, NEW s \in Writers, WebhookStep(s)
  PROVE  CrmBookTypeOK'
<1> USE IdleType DEF CrmBookTypeOK, LedgerTypeOK, Slots
<1>1. ASSUME NEW w \in post, DecidedRead(s, w)
      PROVE  CrmBookTypeOK'
  <2>1. w.c \in Changes /\ w.says \in Decisions /\ today \in Nat
    BY <1>1 DEF DecidedRead, Webhooks
  <2>2. ASSUME NEW pc \in {"decidedCrm", "decidedTx"}
        PROVE  [Idle EXCEPT !.pc = pc, !.c = w.c, !.seen = w.says, !.born = today] \in Request
    BY <2>1, <2>2, DecidedCallType
  <2>3. \E pc \in {"decidedCrm", "decidedTx"} :
          Resume(s, [Idle EXCEPT !.pc = pc, !.c = w.c, !.seen = w.says, !.born = today])
    BY <1>1 DEF DecidedRead, Start
  <2>4. req' \in [Slots -> Request]
    BY <2>2, <2>3, ResumeType
  <2>5. QED
    BY <1>1, <2>4 DEF DecidedRead, ledgerVars
<1>2. ASSUME NEW w \in post, StatusRead(s, w)
      PROVE  CrmBookTypeOK'
  <2>1. w.c \in Changes /\ w.says \in OrderStatus /\ Raises(w.c)
    <3>1. w.c \in Changes /\ w.says \in OrderStatus
      BY <1>2 DEF StatusRead, Webhooks
    <3>2. QED
      BY <3>1 DEF CrmKnowsRows
  <2>2. status[change[w.c].acct] \in ContractStatus
    BY <2>1 DEF Raises, BookInOrder
  <2>3. [Idle EXCEPT !.pc = "statusTx", !.c = w.c, !.crm = w.says,
                     !.seen = status[change[w.c].acct], !.born = today] \in Request
    <3>1. \A says \in OrderStatus, now \in ContractStatus :
            [Idle EXCEPT !.pc = "statusTx", !.c = w.c, !.crm = says,
                         !.seen = now, !.born = today] \in Request
      BY ZenonT(30), <2>1 DEF Request, Idle
    <3>2. QED
      BY <2>1, <2>2, <3>1
  <2>4. req' \in [Slots -> Request]
    BY <1>2, <2>3, ResumeType DEF StatusRead, Start
  <2>5. QED
    BY <1>2, <2>4 DEF StatusRead, ledgerVars
<1>3. CASE DecidedCrm(s)
  <2>1. req[s] \in Request
    OBVIOUS
  <2>2. \A mark \in {"ORDERED", "FAILED"} :
          [req[s] EXCEPT !.pc = "decidedTx", !.crm = mark] \in Request
    BY ZenonT(30), <2>1 DEF Request, OrderStatus
  <2>3. \E mark \in {"ORDERED", "FAILED"} :
          Resume(s, [req[s] EXCEPT !.pc = "decidedTx", !.crm = mark])
    BY <1>3 DEF DecidedCrm
  <2>4. req' \in [Slots -> Request]
    BY <2>2, <2>3, ResumeType
  <2>5. /\ orders' \in [Changes -> Nat]
        /\ crmAt' \in [Changes -> OrderStatus \cup {"NONE"}]
    BY <1>3 DEF DecidedCrm, TakeOrder, OrderStatus
  <2>6. QED
    BY <1>3, <2>4, <2>5 DEF DecidedCrm
<1>4. CASE DecidedTx(s)
  <2>1. /\ req[s].c \in Changes /\ change[req[s].c] \in Row
        /\ req[s].born \in Nat /\ req[s] \in Request
    BY <1>4, HeldRow DEF DecidedTx, At
  <2> DEFINE mark == IF req[s].crm = "NONE" THEN change[req[s].c].crm ELSE req[s].crm
             approved == [change[req[s].c] EXCEPT !.quick = "APPROVED", !.retention = "PROCEED",
                                                  !.sched = req[s].born + change[req[s].c].days,
                                                  !.crm = mark]
             rejected == [change[req[s].c] EXCEPT !.quick = "REJECTED", !.retention = "RETAIN"]
  <2>2. req[s].born + change[req[s].c].days \in Days /\ mark \in CrmStatus
    BY <2>1 DEF Days, Row, Request, CrmStatus
  <2>3. approved \in Row /\ rejected \in Row
    BY ZenonT(30), <2>1, <2>2 DEF Row
  <2>4. \E row \in {approved, rejected} : Write(req[s].c, row)
    BY <1>4 DEF DecidedTx
  <2>5. change' \in [Changes -> Row]
    BY <2>1, <2>3, <2>4, WriteType
  <2>6. req' \in [Slots -> Request]
    BY <1>4, ResumeType DEF DecidedTx, Finish
  <2>7. status' \in [Accounts -> ContractStatus]
    BY <1>4 DEF DecidedTx, MoveAccount, ContractStatus
  <2>8. linked' \subseteq Changes
    BY <1>4, <2>1 DEF DecidedTx
  <2>9. QED
    BY <1>4, <2>5, <2>6, <2>7, <2>8 DEF DecidedTx
<1>5. CASE StatusTx(s)
  <2>1. /\ req[s].c \in Changes /\ change[req[s].c] \in Row
        /\ change[req[s].c].acct \in Accounts
    BY <1>5, HeldRow DEF StatusTx, At
  <2>2. req[s].crm \in OrderStatus
    BY <1>5 DEF HandlersHoldTheirRows, HoldsRow, StatusTx, At
  <2>3. /\ RowAfterStatus(change[req[s].c], req[s].crm) \in Row
        /\ StatusAfter(req[s].crm, req[s].seen, status[change[req[s].c].acct]) \in ContractStatus
    BY <2>1, <2>2, StatusRowType
  <2>4. change' \in [Changes -> Row]
    BY <1>5, <2>1, <2>3, WriteType DEF StatusTx
  <2>5. req' \in [Slots -> Request]
    BY <1>5, ResumeType DEF StatusTx, Finish
  <2>6. status' \in [Accounts -> ContractStatus]
    BY <1>5, <2>1, <2>3 DEF StatusTx, MoveAccount
  <2>7. linked' \subseteq Changes
    BY <1>5, <2>1 DEF StatusTx
  <2>8. QED
    BY <1>5, <2>4, <2>5, <2>6, <2>7 DEF StatusTx
<1>6. QED
  BY <1>1, <1>2, <1>3, <1>4, <1>5 DEF WebhookStep

LEMMA CrmSideTypeStep ==
  ASSUME DomainAssumption, CrmBookTypeOK, CrmSide
  PROVE  CrmBookTypeOK'
<1> USE DEF CrmBookTypeOK, LedgerTypeOK
<1>1. ASSUME NEW a \in Accounts, Reactivate(a)
      PROVE  CrmBookTypeOK'
  <2>1. Arcs \subseteq Nat
    BY DEF DomainAssumption
  <2>2. arc' \in [Accounts -> Nat] /\ activated' \subseteq Resent
    BY <1>1, <2>1 DEF Reactivate
  <2>3. QED
    BY <1>1, <2>2 DEF Reactivate
<1>2. ASSUME NEW c \in Changes, CrmAdminDecides(c)
      PROVE  CrmBookTypeOK'
  <2>1. /\ asked' \in [Changes -> {"NONE", "ASKED", "APPROVED", "REJECTED"}]
        /\ crmAt' \in [Changes -> OrderStatus \cup {"NONE"}]
    BY <1>2 DEF CrmAdminDecides, OrderStatus
  <2>2. post' \subseteq Webhooks
    BY <1>2 DEF CrmAdminDecides, Sends, Webhooks, OrderStatus, Decisions
  <2>3. QED
    BY <1>2, <2>1, <2>2 DEF CrmAdminDecides, vars
<1>3. ASSUME NEW c \in Changes, CrmWorks(c)
      PROVE  CrmBookTypeOK'
  <2>1. PICK to \in NextInCrm(c) :
          /\ crmAt' = [crmAt EXCEPT ![c] = to]
          /\ Reports(c, to)
    BY <1>3 DEF CrmWorks
  <2>2. to \in OrderStatus
    BY DEF NextInCrm, OrderStatus
  <2>3. crmAt' \in [Changes -> OrderStatus \cup {"NONE"}] /\ post' \subseteq Webhooks
    BY <2>1, <2>2, ReportsType
  <2>4. QED
    BY <1>3, <2>3 DEF CrmWorks, vars
<1>4. QED
  BY <1>1, <1>2, <1>3 DEF CrmSide

LEMMA TypeStep ==
  ASSUME DomainAssumption, LedgerAssumption, CrmBookTypeOK, BookInOrder, HandlersHoldTheirRows,
         CrmKnowsRows, [CrmBookNext]_crmBookVars
  PROVE  CrmBookTypeOK'
<1>1. ASSUME LedgerTypeOK', UNCHANGED crmVars
      PROVE  CrmBookTypeOK'
  BY <1>1 DEF CrmBookTypeOK, crmVars
<1>2. CASE UNCHANGED crmBookVars
  BY <1>2 DEF CrmBookTypeOK, LedgerTypeOK, crmBookVars, vars, crmVars
<1>3. QED
  BY <1>1, <1>2, SharedTypeStep, NewBookTypeStep, WebhookTypeStep, CrmSideTypeStep DEF CrmBookNext

-----------------------------------------------------------------------------
(* What a step may do to the rows and the accounts                         *)

\* What no step takes back from a row.
RowKept(c) ==
  /\ change'[c].acct = change[c].acct
  /\ change'[c].type = change[c].type
  /\ change'[c].mode = change[c].mode
  /\ change'[c].oldArc = change[c].oldArc
  /\ change'[c].newArc = change[c].newArc
  /\ change'[c].raisedOn = change[c].raisedOn
  /\ change'[c].stage = change[c].stage
  /\ change[c].retention # "NONE" => change'[c].retention # "NONE"
  /\ change[c].applied => change'[c].applied
  /\ change'[c].crm = "BACKFILL_LOCAL" <=> change[c].crm = "BACKFILL_LOCAL"

\* A handler is about to write the CRM's word, or a decision, on row c without a date
\* for the sweep.
LateWord(c) == \E s \in Writers : req[s].c = c /\ Undated(s)

\* Row c is edited, and its account moved, as the workflow allows.
EditsRow(c) ==
  LET a == change[c].acct IN
  /\ c \in Changes /\ c < nextId /\ nextId' = nextId
  /\ \A d \in Changes \ {c} : change'[d] = change[d]
  /\ \A b \in Accounts \ {a} : status'[b] = status[b]
  /\ UNCHANGED <<edited, asked, crmAt, post, today>>
  /\ linked' = linked \/ (linked' = linked \cup {c} /\ Raises(c))
  /\ RowKept(c)
  /\ change'[c].quick # change[c].quick => asked[c] \in {"APPROVED", "REJECTED"}
  /\ UnderNotice(c) /\ change'[c].sched # change[c].sched => change'[c].sched >= NoticeEnd(c)
  /\ UnderNotice(c) /\ change'[c].applied /\ ~change[c].applied
       => today >= NoticeEnd(c) \/ crmAt[c] = "COMPLETED"
  /\ status'[a] = "TERMINATED" =>
       \/ status[a] = "TERMINATED"
       \/ change[c].type = "DISCONNECTION" /\ change'[c].applied
  /\ status'[a] = "PENDING_APPROVAL" => status[a] = "PENDING_APPROVAL"
  /\ status'[a] = "PENDING_QUICK_APPROVAL" =>
       \/ status[a] = "PENDING_QUICK_APPROVAL" /\ change'[c].quick = change[c].quick
       \/ change[c].mode = "QUICK" /\ change'[c].quick = "NONE"
  /\ status'[a] = "DISCONNECTING" =>
       \/ status[a] = "DISCONNECTING" /\ (WillClose(c) => WillClose(c)')
       \/ WillClose(c)'
       \/ LateWord(c)

\* A row is inserted: undecided, or applied with its account terminated.
InsertsRow ==
  LET row == change'[nextId] IN
  /\ nextId \in Changes /\ nextId' = nextId + 1
  /\ \A d \in Changes \ {nextId} : change'[d] = change[d]
  /\ UNCHANGED <<edited, today, crmVars>>
  /\ row.acct \in Accounts
  /\ row.type \in ChangeTypes
  /\ row.mode # "NONE" <=> row.type = "DISCONNECTION"
  /\ row.raisedOn = today
  /\ row.quick = "NONE"
  /\ row.stage = "NOT_REQUIRED"
  /\ \E s \in Inserting : req[s].a = row.acct /\ req[s].arc = row.oldArc
  /\ \/ /\ row.crm = "NONE"
        /\ row.sched = Never
        /\ ~row.applied
        /\ UNCHANGED status
     \/ /\ row.crm = "BACKFILL_LOCAL"
        /\ row.type = "DISCONNECTION"
        /\ row.retention # "NONE"
        /\ row.applied
        /\ status' = [status EXCEPT ![row.acct] = "TERMINATED"]

\* The rows are left alone, and the accounts but for an ADMIN edit.
LeavesRows ==
  /\ UNCHANGED <<change, nextId, linked>>
  /\ today' \in {today, today + 1}
  /\ \/ UNCHANGED <<status, edited>>
     \/ \E a \in Accounts : AdminUpdate(a)

\* commit() and the backfill insert.
LEMMA Inserts ==
  ASSUME DomainAssumption, CrmBookInvariant, NEW s \in Writers, CommitTx(s) \/ BackfillTx(s),
         UNCHANGED crmVars
  PROVE  InsertsRow
<1> USE DEF CrmBookInvariant, CrmBookTypeOK, LedgerTypeOK, Slots
<1>1. CASE CommitTx(s)
  <2>1. req[s].a \in Accounts /\ req[s].form \in Forms /\ nextId \in Changes
    BY <1>1 DEF CommitTx, At, HandlersHoldTheirRows, HoldsRow
  <2>2. /\ req[s].form.type \in ChangeTypes
        /\ req[s].form.mode # "NONE" <=> req[s].form.type = "DISCONNECTION"
    BY <2>1 DEF Forms, ChangeTypes, ChargeTypes
  <2>3. /\ change'[nextId] = NewRow(req[s].a, req[s].form, req[s].arc, today)
        /\ \A d \in Changes \ {nextId} : change'[d] = change[d]
    BY <1>1, <2>1 DEF CommitTx, Write
  <2>4. s \in Inserting
    BY <1>1 DEF CommitTx, At, Inserting
  <2>5. QED
    BY <1>1, <2>1, <2>2, <2>3, <2>4 DEF CommitTx, NewRow, InsertsRow
<1>2. CASE BackfillTx(s)
  <2>1. req[s].a \in Accounts /\ nextId \in Changes
    BY <1>2 DEF BackfillTx, At, HandlersHoldTheirRows, HoldsRow
  <2>2. PICK effectiveDate \in 0..MaxDay :
          Write(nextId, BackfilledRow(req[s].a, req[s].arc, today, effectiveDate))
    BY <1>2 DEF BackfillTx
  <2>3. /\ change'[nextId] = BackfilledRow(req[s].a, req[s].arc, today, effectiveDate)
        /\ \A d \in Changes \ {nextId} : change'[d] = change[d]
    BY <2>1, <2>2 DEF Write
  <2>4. /\ change'[nextId].acct = req[s].a /\ change'[nextId].raisedOn = today
        /\ change'[nextId].type = "DISCONNECTION" /\ change'[nextId].mode = "NORMAL"
        /\ change'[nextId].quick = "NONE" /\ change'[nextId].crm = "BACKFILL_LOCAL"
        /\ change'[nextId].retention = "PROCEED" /\ change'[nextId].applied = TRUE
        /\ change'[nextId].stage = "NOT_REQUIRED" /\ change'[nextId].oldArc = req[s].arc
    BY <2>3 DEF BackfilledRow, NewRow, NormalDisconnection
  <2>5. s \in Inserting
    BY <1>2 DEF BackfillTx, At, Inserting
  <2>6. QED
    BY <1>2, <2>1, <2>3, <2>4, <2>5 DEF BackfillTx, ChangeTypes, InsertsRow
<1>3. QED
  BY <1>1, <1>2

\* A handler at the row it holds, and the step that writes it.
LEMMA WritesHeldRow ==
  ASSUME CrmBookInvariant, NEW c \in Changes, NEW row, NEW to, Write(c, row),
         MoveAccount(c, to) \/ UNCHANGED status
  PROVE  /\ change'[c] = row
         /\ \A d \in Changes \ {c} : change'[d] = change[d]
         /\ \A b \in Accounts \ {change[c].acct} : status'[b] = status[b]
         /\ MoveAccount(c, to) /\ change[c].acct \in Accounts => status'[change[c].acct] = to
  BY DEF CrmBookInvariant, CrmBookTypeOK, LedgerTypeOK, Write, MoveAccount

\* The retention decisions.
LEMMA RetentionEdits ==
  ASSUME DomainAssumption, CrmBookInvariant, NEW s \in Writers,
         \/ (AutoRetainTx(s) \/ RetainTx(s)) /\ UNCHANGED crmVars
         \/ Proceed(s)
  PROVE  \E c \in Changes : EditsRow(c)
<1> USE DEF CrmBookInvariant, CrmBookTypeOK, LedgerTypeOK, Slots
<1>1. ASSUME NEW c \in Changes, c < nextId, Write(c, [change[c] EXCEPT !.retention = "RETAIN"]),
             MoveAccount(c, "ACTIVE"), UNCHANGED <<nextId, edited, today, crmVars>>
      PROVE  EditsRow(c)
  <2>1. change[c] \in Row /\ change[c].acct \in Accounts
    BY <1>1 DEF BookInOrder
  <2>2. /\ change'[c] = [change[c] EXCEPT !.retention = "RETAIN"]
        /\ \A d \in Changes \ {c} : change'[d] = change[d]
        /\ \A b \in Accounts \ {change[c].acct} : status'[b] = status[b]
        /\ status'[change[c].acct] = "ACTIVE"
    BY <1>1, <2>1, WritesHeldRow
  <2>3. RowKept(c) /\ change'[c].quick = change[c].quick /\ change'[c].sched = change[c].sched
          /\ change'[c].applied = change[c].applied
    BY <2>1, <2>2 DEF RowKept, Row
  <2>4. UNCHANGED <<nextId, edited, linked, asked, crmAt, post, today>>
    BY <1>1 DEF crmVars
  <2>5. QED
    BY <1>1, <2>1, <2>2, <2>3, <2>4 DEF EditsRow
<1>2. CASE AutoRetainTx(s) /\ UNCHANGED crmVars
  <2>1. PICK c \in req[s].due : /\ Write(c, [change[c] EXCEPT !.retention = "RETAIN"])
                                /\ MoveAccount(c, "ACTIVE")
    BY <1>2 DEF AutoRetainTx
  <2>2. c \in Changes /\ c < nextId
    BY DEF Request, HandlersHoldTheirRows, HoldsRow
  <2>3. QED
    BY <1>1, <1>2, <2>1, <2>2 DEF AutoRetainTx
<1>3. CASE RetainTx(s) /\ UNCHANGED crmVars
  <2>1. req[s].c \in Changes /\ req[s].c < nextId
    BY <1>3, HeldRow DEF RetainTx, At
  <2>2. QED
    BY <1>1, <1>3, <2>1 DEF RetainTx
<1>4. CASE Proceed(s)
  <2>0. PICK c : c = req[s].c
    OBVIOUS
  <2> DEFINE mark == IF req[s].crm = "NONE" THEN change[c].crm ELSE req[s].crm
             row == [change[c] EXCEPT !.retention = "PROCEED",
                                      !.sched = req[s].born + NoticeDays, !.crm = mark]
  <2>1. /\ c \in Changes /\ c < nextId /\ change[c] \in Row /\ change[c].acct \in Accounts
        /\ req[s].born \in Nat /\ req[s] \in Request
    BY <1>4, <2>0, HeldRow DEF Proceed, ProceedTx, At
  <2>2. Raises(c) /\ change[c].type = "DISCONNECTION" /\ req[s].born >= change[c].raisedOn
    BY <1>4, <2>0 DEF HandlersHoldTheirRows, HoldsRow, Proceed, ProceedTx, At
  <2>3. /\ change'[c] = row
        /\ \A d \in Changes \ {c} : change'[d] = change[d]
        /\ \A b \in Accounts \ {change[c].acct} : status'[b] = status[b]
        /\ status'[change[c].acct] = "DISCONNECTING"
    <3>1. Write(c, row) /\ MoveAccount(c, "DISCONNECTING")
      BY <1>4, <2>0 DEF Proceed, ProceedTx
    <3>2. QED
      BY <2>1, <3>1, WritesHeldRow
  <2>4. mark # "BACKFILL_LOCAL"
    BY <2>1, <2>2 DEF Raises, Request, OrderStatus
  <2>5. /\ change'[c].retention = "PROCEED" /\ change'[c].sched = req[s].born + NoticeDays
        /\ change'[c].quick = change[c].quick /\ change'[c].applied = change[c].applied
        /\ change'[c].crm = mark
    BY <2>1, <2>3 DEF Row
  <2>6. RowKept(c)
    BY <2>1, <2>2, <2>3, <2>4 DEF RowKept, Row, Raises
  <2>7. change'[c].sched >= NoticeEnd(c) /\ change'[c].sched # Never
    BY <2>1, <2>2, <2>5 DEF NoticeEnd, Row, DomainAssumption, Never
  <2>8. WillClose(c)' \/ LateWord(c)
    <3>1. CASE change[c].applied
      BY <1>4, <2>0, <3>1 DEF LateWord, Undated, Proceed, ProceedTx
    <3>2. CASE ~change[c].applied
      BY <2>2, <2>5, <2>6, <2>7, <3>2 DEF WillClose, RowKept
    <3>3. QED
      BY <3>1, <3>2
  <2>9. /\ UNCHANGED <<nextId, edited, asked, crmAt, post, today>>
        /\ linked' = linked \/ linked' = linked \cup {c}
    BY <1>4, <2>0 DEF Proceed, ProceedTx
  <2>10. EditsRow(c)
    BY <2>1, <2>2, <2>3, <2>5, <2>6, <2>7, <2>8, <2>9 DEF EditsRow
  <2>11. QED
    BY <2>1, <2>10
<1>5. QED
  BY <1>2, <1>3, <1>4

\* The steps that note the status of an order edit nothing else.
LEMMA MarkEdits ==
  ASSUME CrmBookInvariant, NEW c \in Changes, Raises(c), NEW mark \in OrderStatus,
         Write(c, [change[c] EXCEPT !.crm = mark]),
         linked' = linked \/ linked' = linked \cup {c},
         UNCHANGED <<status, nextId, edited, crmAt, asked, post, today>>
  PROVE  EditsRow(c)
<1>1. change[c] \in Row /\ c < nextId /\ mark # "BACKFILL_LOCAL"
  BY DEF CrmBookInvariant, CrmBookTypeOK, LedgerTypeOK, Raises, OrderStatus
<1>2. /\ change'[c] = [change[c] EXCEPT !.crm = mark]
      /\ \A d \in Changes \ {c} : change'[d] = change[d]
  BY DEF CrmBookInvariant, CrmBookTypeOK, LedgerTypeOK, Write
<1>3. /\ RowKept(c) /\ change'[c].quick = change[c].quick /\ change'[c].sched = change[c].sched
      /\ change'[c].applied = change[c].applied /\ change'[c].retention = change[c].retention
      /\ change'[c].type = change[c].type
  BY <1>1, <1>2 DEF RowKept, Row, Raises
<1>4. WillClose(c) => WillClose(c)'
  BY <1>3 DEF WillClose
<1>5. QED
  BY <1>1, <1>2, <1>3, <1>4 DEF EditsRow

LEMMA NewBookEdits ==
  ASSUME DomainAssumption, LedgerAssumption, CrmBookInvariant, NEW s \in Writers,
         \/ EnterPendingQuickApproval(s) \/ EnterProbableChurn(s)
         \/ OrderTx(s) \/ RefreshTx(s) \/ ActivationTx(s)
  PROVE  \E c \in Changes : EditsRow(c)
<1> USE DEF CrmBookInvariant, CrmBookTypeOK, LedgerTypeOK, Slots
<1>1. PICK c : c = req[s].c
  OBVIOUS
<1>2. /\ c \in Changes /\ c < nextId /\ Raises(c)
      /\ change[c] \in Row /\ change[c].acct \in Accounts
  <2>1. req[s].pc \in {"route", "orderTx", "refreshTx", "activationTx"}
    BY DEF EnterPendingQuickApproval, EnterProbableChurn, OfNewBook, OrderTx, RefreshTx,
           ActivationTx, At
  <2>2. QED
    BY <1>1, <2>1, HeldRow DEF HandlersHoldTheirRows, HoldsRow
<1>3. CASE EnterPendingQuickApproval(s)
  <2>1. change[c].mode = "QUICK" /\ asked[c] = "NONE"
    BY <1>1, <1>3 DEF EnterPendingQuickApproval, OfNewBook, At, RoutedOnce, Routing
  <2>2. change[c].quick = "NONE"
    BY <1>2, <2>1 DEF CrmKnowsRows, Row
  <2>3. /\ change' = change /\ UNCHANGED <<nextId, edited, today, linked, crmAt, asked, post>>
        /\ \A b \in Accounts \ {change[c].acct} : status'[b] = status[b]
        /\ status'[change[c].acct] = "PENDING_QUICK_APPROVAL"
    BY <1>1, <1>2, <1>3 DEF EnterPendingQuickApproval, MoveAccount, crmVars
  <2>4. RowKept(c)
    BY <2>3 DEF RowKept
  <2>5. EditsRow(c)
    BY <1>2, <2>1, <2>2, <2>3, <2>4 DEF EditsRow
  <2>6. QED
    BY <1>2, <2>5
<1>4. CASE EnterProbableChurn(s)
  <2>1. PICK effectiveDate \in 0..MaxDay :
          Write(c, [change[c] EXCEPT !.prompt = effectiveDate + WindowDays])
    BY <1>1, <1>4 DEF EnterProbableChurn
  <2>2. /\ change'[c] = [change[c] EXCEPT !.prompt = effectiveDate + WindowDays]
        /\ \A d \in Changes \ {c} : change'[d] = change[d]
        /\ \A b \in Accounts \ {change[c].acct} : status'[b] = status[b]
        /\ status'[change[c].acct] = "PROBABLE_CHURN"
    BY <1>1, <1>2, <1>4, <2>1, WritesHeldRow DEF EnterProbableChurn
  <2>3. RowKept(c) /\ change'[c].quick = change[c].quick /\ change'[c].sched = change[c].sched
          /\ change'[c].applied = change[c].applied
    BY <1>2, <2>2 DEF RowKept, Row
  <2>4. UNCHANGED <<nextId, edited, today, linked, crmAt, asked, post>>
    BY <1>4 DEF EnterProbableChurn, crmVars
  <2>5. EditsRow(c)
    BY <1>2, <2>2, <2>3, <2>4 DEF EditsRow
  <2>6. QED
    BY <1>2, <2>5
<1>5. CASE OrderTx(s)
  <2>1. EditsRow(c)
    BY <1>1, <1>2, <1>5, MarkEdits DEF OrderTx, OrderStatus
  <2>2. QED
    BY <1>2, <2>1
<1>6. CASE RefreshTx(s)
  <2>1. req[s].crm \in OrderStatus
    BY <1>6 DEF HandlersHoldTheirRows, HoldsRow, RefreshTx, At
  <2>2. EditsRow(c)
    BY <1>1, <1>2, <1>6, <2>1, MarkEdits DEF RefreshTx, crmVars
  <2>3. QED
    BY <1>2, <2>2
<1>7. CASE ActivationTx(s)
  <2>1. req[s].crm \in OrderStatus
    BY <1>7 DEF HandlersHoldTheirRows, HoldsRow, ActivationTx, At
  <2>2. EditsRow(c)
    BY <1>1, <1>2, <1>7, <2>1, MarkEdits DEF ActivationTx, crmVars
  <2>3. QED
    BY <1>2, <2>2
<1>8. QED
  BY <1>3, <1>4, <1>5, <1>6, <1>7

\* The decision of the CRM's admin, as the old webhook brings it.
LEMMA DecidedEdits ==
  ASSUME DomainAssumption, CrmBookInvariant, NEW s \in Writers, DecidedTx(s)
  PROVE  \E c \in Changes : EditsRow(c)
<1> USE DEF CrmBookInvariant, CrmBookTypeOK, LedgerTypeOK, Slots
<1>1. PICK c : c = req[s].c
  OBVIOUS
<1>2. /\ c \in Changes /\ c < nextId /\ Raises(c) /\ Decided(c, req[s].seen)
      /\ req[s].seen \in Decisions
      /\ change[c] \in Row /\ change[c].acct \in Accounts
      /\ req[s] \in Request /\ req[s].born \in Nat
  BY <1>1, HeldRow DEF DecidedTx, At, HandlersHoldTheirRows, HoldsRow
<1>3. change[c].mode = "QUICK" /\ change[c].type = "DISCONNECTION"
  <2>1. asked[c] # "NONE"
    BY <1>2 DEF Decided
  <2>2. change[c].mode = "QUICK"
    BY <1>2, <2>1 DEF CrmKnowsRows
  <2>3. QED
    BY <1>2, <2>2 DEF BookInOrder
<1>4. UNCHANGED <<nextId, edited, today, crmAt, asked, post>>
      /\ (linked' = linked \/ linked' = linked \cup {c})
  BY <1>1 DEF DecidedTx
<1>5. ~UnderNotice(c)
  BY <1>3 DEF UnderNotice
<1>6. CASE req[s].seen = "APPROVE_QUICK"
  <2> DEFINE mark == IF req[s].crm = "NONE" THEN change[c].crm ELSE req[s].crm
  <2>1. PICK row : row = [change[c] EXCEPT !.quick = "APPROVED", !.retention = "PROCEED",
                                           !.sched = req[s].born + change[c].days,
                                           !.crm = mark]
    OBVIOUS
  <2>2. Write(c, row) /\ MoveAccount(c, "DISCONNECTING")
    BY <1>1, <1>6, <2>1 DEF DecidedTx
  <2>3. /\ change'[c] = row
        /\ \A d \in Changes \ {c} : change'[d] = change[d]
        /\ \A b \in Accounts \ {change[c].acct} : status'[b] = status[b]
        /\ status'[change[c].acct] = "DISCONNECTING"
    BY <1>2, <2>2, WritesHeldRow
  <2>4. mark # "BACKFILL_LOCAL"
    BY <1>2 DEF Raises, Request, OrderStatus
  <2>5. /\ row.acct = change[c].acct /\ row.type = change[c].type /\ row.mode = change[c].mode
        /\ row.oldArc = change[c].oldArc /\ row.newArc = change[c].newArc
        /\ row.raisedOn = change[c].raisedOn /\ row.stage = change[c].stage
        /\ row.retention = "PROCEED" /\ row.applied = change[c].applied
        /\ row.crm # "BACKFILL_LOCAL" /\ row.sched = req[s].born + change[c].days
    BY <1>2, <2>1, <2>4 DEF Row
  <2>6. RowKept(c)
    BY <1>2, <2>3, <2>5 DEF RowKept, Raises
  <2>7. row.sched # Never
    BY <1>2, <2>5 DEF Row, Never
  <2>8. WillClose(c)' \/ LateWord(c)
    <3>1. CASE change[c].applied
      BY <1>1, <3>1 DEF LateWord, Undated, DecidedTx
    <3>2. CASE ~change[c].applied
      BY <1>3, <2>3, <2>5, <2>7, <3>2 DEF WillClose
    <3>3. QED
      BY <3>1, <3>2
  <2>9. EditsRow(c)
    BY <1>2, <1>4, <1>5, <2>3, <2>5, <2>6, <2>8 DEF EditsRow, Decided
  <2>10. QED
    BY <1>2, <2>9
<1>7. CASE req[s].seen # "APPROVE_QUICK"
  <2>1. PICK row : row = [change[c] EXCEPT !.quick = "REJECTED", !.retention = "RETAIN"]
    OBVIOUS
  <2>2. Write(c, row) /\ MoveAccount(c, "ACTIVE")
    BY <1>1, <1>7, <2>1 DEF DecidedTx
  <2>3. /\ change'[c] = row
        /\ \A d \in Changes \ {c} : change'[d] = change[d]
        /\ \A b \in Accounts \ {change[c].acct} : status'[b] = status[b]
        /\ status'[change[c].acct] = "ACTIVE"
    BY <1>2, <2>2, WritesHeldRow
  <2>4. RowKept(c) /\ change'[c].applied = change[c].applied
    BY <1>2, <2>1, <2>3 DEF RowKept, Row
  <2>5. EditsRow(c)
    BY <1>2, <1>4, <1>5, <2>3, <2>4 DEF EditsRow, Decided
  <2>6. QED
    BY <1>2, <2>5
<1>8. QED
  BY <1>6, <1>7

\* The status of an order, as the new webhook brings it.
LEMMA StatusEdits ==
  ASSUME CrmBookInvariant, NEW s \in Writers, StatusTx(s)
  PROVE  \E c \in Changes : EditsRow(c)
<1> USE DEF CrmBookInvariant, CrmBookTypeOK, LedgerTypeOK, Slots
<1>1. PICK c, says, row : /\ c = req[s].c /\ says = req[s].crm
                          /\ row = RowAfterStatus(change[c], says)
  OBVIOUS
<1>2. /\ c \in Changes /\ c < nextId /\ Raises(c) /\ SaysTruth(c, says)
      /\ says \in OrderStatus
      /\ change[c] \in Row /\ change[c].acct \in Accounts
  BY <1>1, HeldRow DEF StatusTx, At, HandlersHoldTheirRows, HoldsRow
<1>3. /\ change[c].type = "DISCONNECTION"
      /\ \/ change[c].mode = "QUICK" /\ Decided(c, says)
         \/ change[c].mode = "NORMAL" /\ (says = "COMPLETED" => crmAt[c] = "COMPLETED")
  <2>1. CASE Decided(c, says)
    <3>1. asked[c] # "NONE"
      BY <2>1 DEF Decided
    <3>2. change[c].mode = "QUICK"
      BY <1>2, <3>1 DEF CrmKnowsRows
    <3>3. QED
      BY <1>2, <2>1, <3>2 DEF BookInOrder
  <2>2. CASE change[c].mode = "NORMAL" /\ (says = "COMPLETED" => crmAt[c] = "COMPLETED")
    BY <1>2, <2>2 DEF BookInOrder
  <2>3. QED
    BY <1>2, <2>1, <2>2 DEF SaysTruth
<1>4. /\ UNCHANGED <<nextId, edited, today, crmAt, asked, post>>
      /\ linked' = linked \/ linked' = linked \cup {c}
  BY <1>1 DEF StatusTx
<1>5. /\ change'[c] = row
      /\ \A d \in Changes \ {c} : change'[d] = change[d]
      /\ \A b \in Accounts \ {change[c].acct} : status'[b] = status[b]
      /\ status'[change[c].acct] = StatusAfter(says, req[s].seen, status[change[c].acct])
  BY <1>1, <1>2, WritesHeldRow DEF StatusTx
<1> DEFINE quick == change[c].mode = "QUICK"
<1>6. /\ row.acct = change[c].acct /\ row.type = change[c].type /\ row.mode = change[c].mode
      /\ row.oldArc = change[c].oldArc /\ row.newArc = change[c].newArc
      /\ row.raisedOn = change[c].raisedOn /\ row.stage = change[c].stage
      /\ row.crm = says
      /\ row.retention = IF says = "DOCS" THEN "PROCEED" ELSE change[c].retention
      /\ row.sched = IF says = "DOCS" /\ quick THEN today + change[c].days ELSE change[c].sched
      /\ row.applied = (says = "COMPLETED" \/ change[c].applied)
      /\ says \notin {"DOCS", "REJECTED"} \/ ~quick => row.quick = change[c].quick
  <2>1. CASE says = "DOCS"
    BY <1>1, <1>2, <2>1 DEF RowAfterStatus, Row
  <2>2. CASE says = "COMPLETED"
    BY <1>1, <1>2, <2>2 DEF RowAfterStatus, Row
  <2>3. CASE says = "REJECTED"
    BY <1>1, <1>2, <2>3 DEF RowAfterStatus, Row
  <2>4. CASE says \notin {"DOCS", "COMPLETED", "REJECTED"}
    BY <1>1, <1>2, <2>4 DEF RowAfterStatus, Row
  <2>5. QED
    BY <2>1, <2>2, <2>3, <2>4
<1>7. /\ UnderNotice(c) => change'[c].sched = change[c].sched
      /\ UnderNotice(c) /\ change'[c].applied /\ ~change[c].applied => crmAt[c] = "COMPLETED"
      /\ change'[c].quick # change[c].quick => asked[c] \in {"APPROVED", "REJECTED"}
  BY <1>3, <1>5, <1>6 DEF UnderNotice, Decided
<1>8. RowKept(c)
  BY <1>2, <1>5, <1>6 DEF RowKept, Raises, OrderStatus
<1>9. /\ status'[change[c].acct] = "TERMINATED" =>
           \/ status[change[c].acct] = "TERMINATED"
           \/ change'[c].applied
      /\ status'[change[c].acct] = "PENDING_QUICK_APPROVAL" =>
           /\ status[change[c].acct] = "PENDING_QUICK_APPROVAL"
           /\ change'[c].quick = change[c].quick
      /\ status'[change[c].acct] = "PENDING_APPROVAL" => status[change[c].acct] = "PENDING_APPROVAL"
  BY <1>2, <1>5, <1>6 DEF StatusAfter, OrderStatus
<1>10. status'[change[c].acct] = "DISCONNECTING" =>
         \/ status[change[c].acct] = "DISCONNECTING" /\ (WillClose(c) => WillClose(c)')
         \/ WillClose(c)'
         \/ LateWord(c)
  <2>1. CASE says = "DOCS" /\ quick /\ ~change[c].applied
    <3>1. today + change[c].days # Never
      BY <1>2 DEF Row, Never
    <3>2. QED
      BY <1>3, <1>5, <1>6, <2>1, <3>1 DEF WillClose
  <2>2. CASE says = "IN_FLIGHT" \/ (says = "DOCS" /\ (change[c].applied \/ ~quick))
    BY <1>1, <2>2 DEF LateWord, Undated, StatusTx
  <2>3. CASE says = "COMPLETED"
    BY <1>5, <2>3 DEF StatusAfter
  <2>4. CASE says \notin {"DOCS", "IN_FLIGHT", "COMPLETED"}
    <3>1. WillClose(c) => WillClose(c)'
      BY <1>5, <1>6, <2>4 DEF WillClose
    <3>2. status'[change[c].acct] = "DISCONNECTING" => status[change[c].acct] = "DISCONNECTING"
      BY <1>5, <2>4 DEF StatusAfter
    <3>3. QED
      BY <3>1, <3>2
  <2>5. QED
    BY <2>1, <2>2, <2>3, <2>4
<1>11. EditsRow(c)
  BY <1>2, <1>3, <1>4, <1>7, <1>5, <1>8, <1>9, <1>10 DEF EditsRow
<1>12. QED
  BY <1>2, <1>11

\* applyChangeToAccount, from the sweep, from a refresh, from commit().
LEMMA ApplyEdits ==
  ASSUME CrmBookInvariant, NEW s \in Slots, ApplyTx(s), UNCHANGED crmVars
  PROVE  \E c \in Changes : EditsRow(c)
<1> USE DEF CrmBookInvariant, CrmBookTypeOK, LedgerTypeOK
<1>1. PICK c : c = req[s].c
  OBVIOUS
<1>2. /\ c \in Changes /\ c < nextId /\ MayApply(c)
      /\ change[c] \in Row /\ change[c].acct \in Accounts
  BY <1>1, HeldRow DEF ApplyTx, At, HandlersHoldTheirRows, HoldsRow
<1>3. /\ change'[c] = [change[c] EXCEPT !.applied = TRUE]
      /\ \A d \in Changes \ {c} : change'[d] = change[d]
  BY <1>1, <1>2 DEF ApplyTx, Write
<1>4. /\ \A b \in Accounts \ {change[c].acct} : status'[b] = status[b]
      /\ \/ status'[change[c].acct] = status[change[c].acct]
         \/ /\ status'[change[c].acct] = "TERMINATED"
            /\ change[c].type = "DISCONNECTION"
  BY <1>1, <1>2 DEF ApplyTx, ApplyToAccount
<1>5. /\ RowKept(c) /\ change'[c].quick = change[c].quick /\ change'[c].sched = change[c].sched
      /\ change'[c].applied /\ change'[c].retention = change[c].retention
      /\ change'[c].type = change[c].type
  BY <1>2, <1>3 DEF RowKept, Row
<1>6. UNCHANGED <<nextId, edited, today, linked, crmAt, asked, post>>
  BY DEF ApplyTx, crmVars
<1>7. status'[change[c].acct] = "DISCONNECTING" =>
        status[change[c].acct] = "DISCONNECTING" /\ (WillClose(c) => WillClose(c)')
  <2>1. CASE change[c].type = "DISCONNECTION"
    BY <1>1, <1>2, <2>1 DEF ApplyTx, ApplyToAccount
  <2>2. CASE change[c].type # "DISCONNECTION"
    BY <1>4, <2>2 DEF WillClose
  <2>3. QED
    BY <2>1, <2>2
<1>8. EditsRow(c)
  BY <1>2, <1>3, <1>4, <1>5, <1>6, <1>7 DEF EditsRow, MayApply
<1>9. QED
  BY <1>2, <1>8

\* Every step inserts a row, edits one, or leaves the rows alone.
LEMMA RowSteps ==
  ASSUME DomainAssumption, LedgerAssumption, CrmBookInvariant, [CrmBookNext]_crmBookVars
  PROVE  InsertsRow \/ (\E c \in Changes : EditsRow(c)) \/ LeavesRows
<1> DEFINE Goal == InsertsRow \/ (\E c \in Changes : EditsRow(c)) \/ LeavesRows
<1>1. ASSUME NEW s \in Writers, SharedStep(s), UNCHANGED crmVars
      PROVE  Goal
  <2>1. CASE CommitTx(s) \/ BackfillTx(s)
    BY <1>1, <2>1, Inserts
  <2>2. CASE AutoRetainTx(s) \/ RetainTx(s)
    BY <1>1, <2>2, RetentionEdits
  <2>3. CASE \/ \E a \in Accounts, form \in Offered : CommitRead(s, a, form)
             \/ \E c \in Raised, decision \in {"RETAIN", "PROCEED"} : RetentionRead(s, c, decision)
             \/ \E a \in Accounts : BackfillRead(s, a)
             \/ AutoRetainFind(s)
    BY <1>1, <2>3
    DEF CommitRead, RetentionRead, BackfillRead, AutoRetainFind, LeavesRows, crmVars
  <2>4. QED
    BY <1>1, <2>1, <2>2, <2>3 DEF SharedStep
<1>2. ASSUME NEW s \in Writers, NewBookStep(s)
      PROVE  Goal
  <2>1. CASE \/ EnterPendingQuickApproval(s) \/ EnterProbableChurn(s)
             \/ OrderTx(s) \/ RefreshTx(s) \/ ActivationTx(s)
    BY <2>1, NewBookEdits
  <2>2. CASE Proceed(s)
    BY <2>2, RetentionEdits
  <2>3. CASE \/ PushQuick(s) \/ RouteArcChange(s) \/ OrderCrm(s) \/ ProceedOrder(s)
             \/ \E c \in Raised : RefreshRead(s, c) \/ SetActivationDate(s, c)
    BY <2>3
    DEF PushQuick, RouteArcChange, OrderCrm, ProceedOrder, ProceedCrm, RefreshRead,
        SetActivationDate, LeavesRows, ledgerVars, crmVars
  <2>4. QED
    BY <1>2, <2>1, <2>2, <2>3 DEF NewBookStep
<1>3. ASSUME NEW s \in Writers, WebhookStep(s)
      PROVE  Goal
  <2>1. CASE DecidedTx(s)
    BY <2>1, DecidedEdits
  <2>2. CASE StatusTx(s)
    BY <2>2, StatusEdits
  <2>3. CASE DecidedCrm(s) \/ \E w \in post : DecidedRead(s, w) \/ StatusRead(s, w)
    BY <2>3 DEF DecidedCrm, DecidedRead, StatusRead, LeavesRows, ledgerVars
  <2>4. QED
    BY <1>3, <2>1, <2>2, <2>3 DEF WebhookStep
<1>4. ASSUME NEW s \in Slots, ApplyStep(s), UNCHANGED crmVars
      PROVE  Goal
  <2>1. CASE ApplyTx(s)
    BY <1>4, <2>1, ApplyEdits
  <2>2. CASE ApplyRead(s)
    BY <1>4, <2>2 DEF ApplyRead, LeavesRows, crmVars
  <2>3. QED
    BY <1>4, <2>1, <2>2 DEF ApplyStep
<1>5. ASSUME NEW s \in Readers, SweepRead(s), UNCHANGED crmVars
      PROVE  Goal
  BY <1>5 DEF SweepRead, LeavesRows, crmVars
<1>6. ASSUME Around, UNCHANGED crmVars
      PROVE  Goal
  BY <1>6 DEF Around, Tick, Restart, BookClosed, vars, CallFails, AdminUpdate, LeavesRows, crmVars
<1>7. CASE CrmSide
  BY <1>7 DEF CrmSide, Reactivate, CrmAdminDecides, CrmWorks, LeavesRows, vars
<1>8. CASE UNCHANGED crmBookVars
  BY <1>8 DEF crmBookVars, vars, crmVars, LeavesRows
<1>9. QED
  BY <1>1, <1>2, <1>3, <1>4, <1>5, <1>6, <1>7, <1>8 DEF CrmBookNext

-----------------------------------------------------------------------------
(* The rows, the days and the CRM's side only grow                         *)

\* The CRM takes back no decision, and completes an order other than a QUICK one for
\* good; it hears of a QUICK request from the push, of an order from its handler.
CrmRemembers ==
  \A c \in Changes :
    /\ asked[c] # "NONE" => asked'[c] # "NONE"
    /\ asked[c] \in {"APPROVED", "REJECTED"} => asked'[c] = asked[c]
    /\ asked'[c] # "NONE" => asked[c] # "NONE" \/ (Raises(c) /\ change[c].mode = "QUICK")
    /\ change[c].mode # "QUICK" /\ crmAt[c] = "COMPLETED" => crmAt'[c] = "COMPLETED"
    /\ crmAt'[c] # "NONE" => crmAt[c] # "NONE" \/ Raises(c)

LEMMA TheCrmRemembers ==
  ASSUME CrmBookInvariant, [CrmBookNext]_crmBookVars
  PROVE  CrmRemembers
<1> USE DEF CrmBookInvariant, CrmBookTypeOK
<1>1. ASSUME UNCHANGED <<asked, crmAt>>
      PROVE  CrmRemembers
  BY <1>1 DEF CrmRemembers
<1>2. ASSUME NEW s \in Writers, PushQuick(s)
      PROVE  CrmRemembers
  <2>1. PICK c : c = req[s].c
    OBVIOUS
  <2>2. Raises(c) /\ change[c].mode = "QUICK" /\ asked[c] = "NONE"
    BY <1>2, <2>1 DEF PushQuick, At, Slots, HandlersHoldTheirRows, HoldsRow, RoutedOnce, Routing
  <2>3. asked' \in {asked, [asked EXCEPT ![c] = "ASKED"]} /\ crmAt' = crmAt
    BY <1>2, <2>1 DEF PushQuick
  <2>4. QED
    BY <2>2, <2>3 DEF CrmRemembers
<1>3. ASSUME NEW d \in Changes, crmAt[d] \notin {"NONE", "COMPLETED"}, asked' = asked,
             NEW to, crmAt' = [crmAt EXCEPT ![d] = to]
      PROVE  CrmRemembers
  BY <1>3 DEF CrmRemembers
<1>4. ASSUME NEW d \in Changes, Raises(d), UNCHANGED asked,
             crmAt' \in {crmAt, [crmAt EXCEPT ![d] = IF @ = "NONE" THEN "ORDERED" ELSE @]}
      PROVE  CrmRemembers
  BY <1>4 DEF CrmRemembers
<1>5. ASSUME NEW s \in Writers, OrderCrm(s) \/ ProceedOrder(s) \/ DecidedCrm(s)
      PROVE  CrmRemembers
  <2>1. PICK d : d = req[s].c
    OBVIOUS
  <2>2. d \in Changes /\ Raises(d)
    <3>1. req[s].pc \in {"orderCrm", "proceedCrm", "decidedCrm"} /\ s \in Slots
      BY <1>5 DEF OrderCrm, ProceedOrder, ProceedCrm, DecidedCrm, At, Slots
    <3>2. QED
      BY <2>1, <3>1, HeldRow DEF HandlersHoldTheirRows, HoldsRow
  <2>3. /\ UNCHANGED asked
        /\ crmAt' \in {crmAt, [crmAt EXCEPT ![d] = IF @ = "NONE" THEN "ORDERED" ELSE @]}
    BY <1>5, <2>1 DEF OrderCrm, ProceedOrder, DecidedCrm, TakeOrder
  <2>4. QED
    BY <1>4, <2>2, <2>3
<1>6. ASSUME NEW s \in Writers, NEW c \in Raised, SetActivationDate(s, c)
      PROVE  CrmRemembers
  BY <1>3, <1>6 DEF SetActivationDate, Raised
<1>7. ASSUME NEW d \in Changes, CrmAdminDecides(d)
      PROVE  CrmRemembers
  <2>1. Raises(d) /\ change[d].mode = "QUICK"
    BY <1>7 DEF CrmAdminDecides, CrmKnowsRows
  <2>2. \A c \in Changes \ {d} : asked'[c] = asked[c] /\ crmAt'[c] = crmAt[c]
    BY <1>7 DEF CrmAdminDecides
  <2>3. asked[d] = "ASKED" /\ asked'[d] # "NONE"
    BY <1>7 DEF CrmAdminDecides
  <2>4. QED
    BY <2>1, <2>2, <2>3 DEF CrmRemembers
<1>8. ASSUME NEW d \in Changes, CrmWorks(d)
      PROVE  CrmRemembers
  <2>1. PICK to \in NextInCrm(d) : crmAt' = [crmAt EXCEPT ![d] = to]
    BY <1>8 DEF CrmWorks
  <2>2. crmAt[d] \notin {"NONE", "COMPLETED"}
    BY <2>1 DEF NextInCrm
  <2>3. QED
    BY <1>3, <1>8, <2>1, <2>2 DEF CrmWorks
<1>9. ASSUME NEW s \in Writers, NewBookStep(s)
      PROVE  CrmRemembers
  <2>1. CASE PushQuick(s)
    BY <1>2, <2>1
  <2>2. CASE OrderCrm(s) \/ ProceedOrder(s)
    BY <1>5, <2>2
  <2>3. CASE \E c \in Raised : SetActivationDate(s, c)
    BY <1>6, <2>3
  <2>4. CASE \/ EnterPendingQuickApproval(s) \/ EnterProbableChurn(s) \/ RouteArcChange(s)
             \/ OrderTx(s) \/ Proceed(s) \/ RefreshTx(s) \/ ActivationTx(s)
             \/ \E c \in Raised : RefreshRead(s, c)
    BY <1>1, <2>4
    DEF EnterPendingQuickApproval, EnterProbableChurn, RouteArcChange, OrderTx, Proceed,
        RefreshTx, ActivationTx, RefreshRead, crmVars
  <2>5. QED
    BY <1>9, <2>1, <2>2, <2>3, <2>4 DEF NewBookStep
<1>10. ASSUME NEW s \in Writers, WebhookStep(s)
       PROVE  CrmRemembers
  <2>1. CASE DecidedCrm(s)
    BY <1>5, <2>1
  <2>2. CASE DecidedTx(s) \/ StatusTx(s) \/ \E w \in post : DecidedRead(s, w) \/ StatusRead(s, w)
    BY <1>1, <2>2 DEF DecidedTx, StatusTx, DecidedRead, StatusRead
  <2>3. QED
    BY <1>10, <2>1, <2>2 DEF WebhookStep
<1>11. CASE CrmSide
  BY <1>1, <1>7, <1>8, <1>11 DEF CrmSide, Reactivate
<1>12. CASE UNCHANGED crmVars
  BY <1>1, <1>12 DEF crmVars
<1>13. CASE UNCHANGED crmBookVars
  BY <1>12, <1>13 DEF crmBookVars
<1>14. QED
  BY <1>9, <1>10, <1>11, <1>12, <1>13 DEF CrmBookNext

\* Rows are kept, days pass.
LEMMA TheBookGrows ==
  ASSUME DomainAssumption, LedgerAssumption, CrmBookInvariant, [CrmBookNext]_crmBookVars
  PROVE  /\ nextId \in Nat /\ nextId' \in Nat /\ nextId' >= nextId
         /\ today \in Nat /\ today' \in Nat /\ today' >= today
         /\ \A c \in Changes : c \in Nat /\ change[c] \in Row
         /\ \A c \in Changes : c < nextId => RowKept(c)
<1>1. nextId \in Nat /\ today \in Nat /\ \A c \in Changes : c \in Nat /\ change[c] \in Row
  BY DEF CrmBookInvariant, CrmBookTypeOK, LedgerTypeOK, Changes, DomainAssumption
<1>2. CASE InsertsRow
  BY <1>1, <1>2 DEF InsertsRow, RowKept
<1>3. ASSUME NEW d \in Changes, EditsRow(d)
      PROVE  /\ nextId' = nextId /\ today' = today
             /\ \A c \in Changes : c < nextId => RowKept(c)
  BY <1>3 DEF EditsRow, RowKept
<1>4. CASE LeavesRows
  BY <1>1, <1>4 DEF LeavesRows, RowKept
<1>5. QED
  BY <1>1, <1>2, <1>3, <1>4, RowSteps

LEMMA BookInOrderStep ==
  ASSUME DomainAssumption, LedgerAssumption, CrmBookInvariant, [CrmBookNext]_crmBookVars
  PROVE  BookInOrder'
<1> SUFFICES ASSUME NEW c \in Changes
             PROVE  IF c < nextId'
                    THEN /\ change'[c].acct \in Accounts
                         /\ change'[c].type \in ChangeTypes
                         /\ change'[c].mode # "NONE" <=> change'[c].type = "DISCONNECTION"
                         /\ change'[c].raisedOn <= today'
                         /\ change'[c].crm = "BACKFILL_LOCAL" => change'[c].retention # "NONE"
                    ELSE change'[c] = BlankRow
  BY DEF BookInOrder
<1>1. /\ nextId \in Nat /\ nextId' \in Nat /\ nextId' >= nextId
      /\ today \in Nat /\ today' \in Nat /\ today' >= today
      /\ c \in Nat /\ change[c].raisedOn \in Nat
      /\ c < nextId => RowKept(c)
  <2>1. change[c] \in Row
    BY TheBookGrows
  <2>2. QED
    BY <2>1, TheBookGrows DEF Row
<1>2. CASE c < nextId
  <2>1. /\ change[c].acct \in Accounts
        /\ change[c].type \in ChangeTypes
        /\ change[c].mode # "NONE" <=> change[c].type = "DISCONNECTION"
        /\ change[c].raisedOn <= today
        /\ change[c].crm = "BACKFILL_LOCAL" => change[c].retention # "NONE"
    BY <1>2 DEF CrmBookInvariant, BookInOrder
  <2>2. QED
    BY <1>1, <1>2, <2>1 DEF RowKept
<1>3. CASE c >= nextId
  <2>1. change[c] = BlankRow
    BY <1>1, <1>3 DEF CrmBookInvariant, BookInOrder
  <2>2. CASE InsertsRow
    <3>1. CASE c = nextId
      BY <1>1, <2>2, <3>1 DEF InsertsRow
    <3>2. CASE c # nextId
      BY <1>1, <1>3, <2>1, <2>2, <3>2 DEF InsertsRow
    <3>3. QED
      BY <3>1, <3>2
  <2>3. ASSUME NEW d \in Changes, EditsRow(d)
        PROVE  change'[c] = BlankRow /\ ~(c < nextId')
    BY <1>1, <1>3, <2>1, <2>3 DEF EditsRow
  <2>4. CASE LeavesRows
    BY <1>1, <1>3, <2>1, <2>4 DEF LeavesRows
  <2>5. QED
    BY <2>2, <2>3, <2>4, RowSteps
<1>4. QED
  BY <1>1, <1>2, <1>3

\* A row commit() has raised stays one.
LEMMA RaisesStays ==
  ASSUME DomainAssumption, LedgerAssumption, CrmBookInvariant, [CrmBookNext]_crmBookVars,
         NEW c, Raises(c)
  PROVE  c \in Changes /\ Raises(c)' /\ RowKept(c)
  BY TheBookGrows DEF Raises, RowKept

\* What was true when the CRM said it stays true.
LEMMA TruthStays ==
  ASSUME DomainAssumption, LedgerAssumption, CrmBookInvariant, [CrmBookNext]_crmBookVars,
         NEW c, Raises(c), NEW says, SaysTruth(c, says)
  PROVE  SaysTruth(c, says)'
<1>1. c \in Changes /\ change'[c].mode = change[c].mode
  BY RaisesStays DEF RowKept
<1>2. CASE Decided(c, says)
  BY <1>1, <1>2, TheCrmRemembers DEF SaysTruth, Decided, CrmRemembers
<1>3. CASE change[c].mode = "NORMAL" /\ (says = "COMPLETED" => crmAt[c] = "COMPLETED")
  BY <1>1, <1>3, TheCrmRemembers DEF SaysTruth, CrmRemembers
<1>4. QED
  BY <1>2, <1>3 DEF SaysTruth

\* What the CRM reports is the truth.
LEMMA ReportIsTrue ==
  ASSUME CrmBookInvariant, NEW d \in Changes, crmAt[d] # "NONE", NEW stage, Reports(d, stage),
         crmAt' = [crmAt EXCEPT ![d] = stage], UNCHANGED <<asked, change, nextId>>,
         NEW w \in post', w \notin post
  PROVE  Raises(w.c)' /\ SaysTruth(w.c, w.says)'
<1>1. Raises(d) /\ crmAt'[d] = stage
  BY DEF CrmBookInvariant, CrmBookTypeOK, CrmKnowsRows
<1>2. w.c = d /\ w.says = stage /\ ReportsOn(d)
  BY DEF Reports, Sends
<1>3. CASE asked[d] = "APPROVED"
  BY <1>1, <1>2, <1>3 DEF SaysTruth, Decided, Raises
<1>4. CASE change[d].mode = "NORMAL"
  BY <1>1, <1>2, <1>4 DEF SaysTruth, Raises
<1>5. QED
  BY <1>2, <1>3, <1>4 DEF ReportsOn

\* A webhook that is under way after a step says what the CRM decided or did.
LEMMA WebhooksSayTruth ==
  ASSUME DomainAssumption, LedgerAssumption, CrmBookInvariant, [CrmBookNext]_crmBookVars,
         NEW w \in post'
  PROVE  Raises(w.c)' /\ SaysTruth(w.c, w.says)'
<1> USE DEF CrmBookInvariant, CrmBookTypeOK
<1> DEFINE Goal == Raises(w.c)' /\ SaysTruth(w.c, w.says)'
<1>1. ASSUME w \in post
      PROVE  Goal
  BY <1>1, RaisesStays, TruthStays DEF CrmKnowsRows
<1>2. ASSUME NEW d \in Changes, CrmAdminDecides(d), w \notin post
      PROVE  Goal
  <2>1. w.c = d /\ Decided(d, w.says)'
    BY <1>2 DEF CrmAdminDecides, Sends, Decided
  <2>2. Raises(d)'
    BY <1>2 DEF CrmAdminDecides, CrmKnowsRows, Raises, vars
  <2>3. QED
    BY <2>1, <2>2 DEF SaysTruth
<1>3. ASSUME NEW d \in Changes, CrmWorks(d), w \notin post
      PROVE  Goal
  <2>1. PICK to \in NextInCrm(d) : crmAt' = [crmAt EXCEPT ![d] = to] /\ Reports(d, to)
    BY <1>3 DEF CrmWorks
  <2>2. crmAt[d] # "NONE" /\ UNCHANGED <<asked, change, nextId>>
    BY <1>3, <2>1 DEF NextInCrm, CrmWorks, vars
  <2>3. QED
    BY <1>3, <2>1, <2>2, ReportIsTrue
<1>4. ASSUME NEW s \in Writers, NEW d \in Raised, SetActivationDate(s, d), w \notin post
      PROVE  Goal
  <2>1. PICK stands : crmAt' = [crmAt EXCEPT ![d] = stands] /\ Reports(d, stands)
    BY <1>4 DEF SetActivationDate
  <2>2. d \in Changes /\ crmAt[d] # "NONE" /\ UNCHANGED <<asked, change, nextId>>
    BY <1>4 DEF SetActivationDate, ledgerVars, Raised
  <2>3. QED
    BY <1>4, <2>1, <2>2, ReportIsTrue
<1>5. CASE post' \subseteq post
  BY <1>1, <1>5
<1>6. ASSUME NEW s \in Writers, NewBookStep(s)
      PROVE  post' \subseteq post \/ \E d \in Raised : SetActivationDate(s, d)
  BY <1>6
  DEF NewBookStep, EnterPendingQuickApproval, PushQuick, EnterProbableChurn, RouteArcChange,
      OrderCrm, OrderTx, ProceedOrder, Proceed, RefreshRead, RefreshTx, ActivationTx, crmVars
<1>7. ASSUME NEW s \in Writers, WebhookStep(s)
      PROVE  post' \subseteq post
  BY <1>7 DEF WebhookStep, DecidedRead, StatusRead, DecidedCrm, DecidedTx, StatusTx
<1>8. ASSUME NEW a \in Accounts, Reactivate(a)
      PROVE  post' = post
  BY <1>8 DEF Reactivate
<1>9. CASE UNCHANGED crmVars \/ UNCHANGED crmBookVars
  BY <1>5, <1>9 DEF crmBookVars, crmVars
<1>10. QED
  BY <1>1, <1>2, <1>3, <1>4, <1>5, <1>6, <1>7, <1>8, <1>9 DEF CrmBookNext, CrmSide

LEMMA CrmKnowsRowsStep ==
  ASSUME DomainAssumption, LedgerAssumption, CrmBookInvariant, [CrmBookNext]_crmBookVars
  PROVE  CrmKnowsRows'
<1> USE DEF CrmBookInvariant, CrmBookTypeOK
<1>1. ASSUME NEW c \in Changes, Raises(c)
      PROVE  Raises(c)' /\ RowKept(c)
  BY <1>1, TheBookGrows DEF Raises, RowKept
<1>2. ASSUME NEW c \in linked'
      PROVE  Raises(c)'
  <2>1. c \in linked \/ Raises(c)
    BY RowSteps DEF InsertsRow, EditsRow, LeavesRows, crmVars
  <2>2. Raises(c)
    BY <2>1 DEF CrmKnowsRows
  <2>3. QED
    BY <1>1, <2>2 DEF Raises
<1>3. ASSUME NEW c \in Changes, asked'[c] # "NONE"
      PROVE  Raises(c)' /\ change'[c].mode = "QUICK"
  <2>1. Raises(c) /\ change[c].mode = "QUICK"
    BY <1>3, TheCrmRemembers DEF CrmRemembers, CrmKnowsRows
  <2>2. QED
    BY <1>1, <2>1 DEF RowKept
<1>4. ASSUME NEW c \in Changes, change'[c].quick # "NONE"
      PROVE  asked'[c] \in {"APPROVED", "REJECTED"}
  <2>1. asked[c] \in {"APPROVED", "REJECTED"}
    <3>1. CASE InsertsRow
      BY <1>4, <3>1 DEF InsertsRow, CrmKnowsRows
    <3>2. ASSUME NEW d \in Changes, EditsRow(d)
          PROVE  asked[c] \in {"APPROVED", "REJECTED"}
      BY <1>4, <3>2 DEF EditsRow, CrmKnowsRows
    <3>3. CASE LeavesRows
      BY <1>4, <3>3 DEF LeavesRows, CrmKnowsRows
    <3>4. QED
      BY <3>1, <3>2, <3>3, RowSteps
  <2>2. QED
    BY <2>1, TheCrmRemembers DEF CrmRemembers
<1>5. ASSUME NEW c \in Changes, crmAt'[c] # "NONE"
      PROVE  Raises(c)'
  <2>1. Raises(c)
    BY <1>5, TheCrmRemembers DEF CrmRemembers, CrmKnowsRows
  <2>2. QED
    BY <1>1, <2>1
<1>6. QED
  BY <1>2, <1>3, <1>4, <1>5, WebhooksSayTruth DEF CrmKnowsRows

-----------------------------------------------------------------------------
(* The properties of rows and accounts are preserved                       *)

LEMMA NoticeStep ==
  ASSUME DomainAssumption, LedgerAssumption, CrmBookInvariant, [CrmBookNext]_crmBookVars
  PROVE  NoticeIsScheduled' /\ NoticeOrCompletion'
<1> SUFFICES ASSUME NEW c \in Changes, UnderNotice(c)'
             PROVE  /\ change'[c].sched # Never => change'[c].sched >= NoticeEnd(c)'
                    /\ change'[c].applied => today' >= NoticeEnd(c)' \/ crmAt'[c] = "COMPLETED"
  BY DEF NoticeIsScheduled, NoticeOrCompletion
<1>1. /\ today \in Nat /\ today' \in Nat /\ today' >= today
      /\ c < nextId => RowKept(c)
      /\ c \in Nat /\ nextId \in Nat
      /\ change[c].raisedOn \in Nat /\ NoticeDays \in Nat
  <2>1. change[c] \in Row
    BY TheBookGrows
  <2>2. QED
    BY <2>1, TheBookGrows DEF Row, DomainAssumption
<1>2. CASE c < nextId
  <2>1. UnderNotice(c) /\ NoticeEnd(c)' = NoticeEnd(c) /\ NoticeEnd(c) \in Nat
    BY <1>1, <1>2 DEF UnderNotice, NoticeEnd, RowKept
  <2>2. /\ change[c].sched # Never => change[c].sched >= NoticeEnd(c)
        /\ change[c].applied => today >= NoticeEnd(c) \/ crmAt[c] = "COMPLETED"
    BY <2>1 DEF CrmBookInvariant, NoticeIsScheduled, NoticeOrCompletion
  <2>3. \/ /\ change'[c].sched = change[c].sched
           /\ change'[c].applied = change[c].applied
        \/ /\ change'[c].sched # change[c].sched => change'[c].sched >= NoticeEnd(c)
           /\ change'[c].applied /\ ~change[c].applied
                => today >= NoticeEnd(c) \/ crmAt[c] = "COMPLETED"
    <3>1. CASE InsertsRow
      BY <1>1, <1>2, <3>1 DEF InsertsRow
    <3>2. ASSUME NEW d \in Changes, EditsRow(d), d # c
          PROVE  change'[c] = change[c]
      BY <3>2 DEF EditsRow
    <3>3. CASE EditsRow(c)
      BY <2>1, <3>3 DEF EditsRow
    <3>4. CASE LeavesRows
      BY <3>4 DEF LeavesRows
    <3>5. QED
      BY <3>1, <3>2, <3>3, <3>4, RowSteps
  <2>4. crmAt[c] = "COMPLETED" => crmAt'[c] = "COMPLETED"
    BY <2>1, TheCrmRemembers DEF CrmRemembers, UnderNotice
  <2>5. QED
    BY <1>1, <2>1, <2>2, <2>3, <2>4
<1>3. CASE c >= nextId
  <2>1. change[c].type = "NONE"
    <3>1. change[c] = BlankRow
      BY <1>1, <1>3 DEF CrmBookInvariant, BookInOrder
    <3>2. QED
      BY <3>1 DEF BlankRow, NewRow, NoForm
  <2>2. InsertsRow /\ c = nextId
    <3>1. change'[c] # change[c]
      BY <2>1 DEF UnderNotice
    <3>2. QED
      BY <1>1, <1>3, <3>1, RowSteps DEF InsertsRow, EditsRow, LeavesRows
  <2>3. change'[c].sched = Never /\ ~change'[c].applied
    BY <2>2 DEF InsertsRow, UnderNotice
  <2>4. QED
    BY <2>3
<1>4. QED
  BY <1>1, <1>2, <1>3

\* A row that is there stays a raised one.
LEMMA RaisedRows ==
  ASSUME DomainAssumption, LedgerAssumption, CrmBookInvariant, [CrmBookNext]_crmBookVars,
         NEW c \in Raised
  PROVE  /\ c \in Changes /\ c < nextId /\ RowKept(c)
         /\ change[c].type \in ChangeTypes
         /\ c \in Raised'
<1>1. c \in Changes /\ change[c].type # "NONE"
  BY DEF Raised
<1>2. /\ \A d \in Changes : d \in Nat
      /\ nextId \in Nat
      /\ BlankRow.type = "NONE"
  BY TheBookGrows DEF BlankRow, NewRow, NoForm
<1>3. c < nextId /\ change[c].type \in ChangeTypes
  BY <1>1, <1>2 DEF CrmBookInvariant, BookInOrder
<1>4. RowKept(c)
  BY <1>1, <1>3, TheBookGrows
<1>5. QED
  BY <1>1, <1>3, <1>4 DEF RowKept, Raised

LEMMA TerminationStep ==
  ASSUME DomainAssumption, LedgerAssumption, CrmBookInvariant, [CrmBookNext]_crmBookVars
  PROVE  NewTerminationIsBooked'
<1> SUFFICES ASSUME NEW a \in Accounts, a \notin edited', status'[a] = "TERMINATED"
             PROVE  \E c \in Raised' : /\ change'[c].acct = a
                                       /\ change'[c].type = "DISCONNECTION"
                                       /\ change'[c].applied
  BY DEF NewTerminationIsBooked
<1>1. ASSUME status[a] = "TERMINATED", a \notin edited
      PROVE  \E c \in Raised' : /\ change'[c].acct = a
                                /\ change'[c].type = "DISCONNECTION"
                                /\ change'[c].applied
  <2>1. PICK c \in Raised : /\ change[c].acct = a
                            /\ change[c].type = "DISCONNECTION"
                            /\ change[c].applied
    BY <1>1 DEF CrmBookInvariant, NewTerminationIsBooked
  <2>2. QED
    BY <2>1, RaisedRows DEF RowKept
<1>2. CASE InsertsRow
  <2>1. CASE status'[a] = status[a]
    BY <1>1, <1>2, <2>1 DEF InsertsRow
  <2>2. CASE status'[a] # status[a]
    <3>1. /\ nextId \in Changes
          /\ change'[nextId].acct = a
          /\ change'[nextId].type = "DISCONNECTION"
          /\ change'[nextId].applied
      BY <1>2, <2>2 DEF InsertsRow, CrmBookInvariant, CrmBookTypeOK, LedgerTypeOK
    <3>2. QED
      BY <3>1 DEF Raised
  <2>3. QED
    BY <2>1, <2>2
<1>3. ASSUME NEW c \in Changes, EditsRow(c)
      PROVE  \E d \in Raised' : /\ change'[d].acct = a
                                /\ change'[d].type = "DISCONNECTION"
                                /\ change'[d].applied
  <2>1. a \notin edited
    BY <1>3 DEF EditsRow
  <2>2. CASE status[a] = "TERMINATED"
    BY <1>1, <2>1, <2>2
  <2>3. CASE status[a] # "TERMINATED"
    <3>1. /\ change[c].acct = a /\ change[c].type = "DISCONNECTION"
          /\ change'[c].applied /\ RowKept(c)
      BY <1>3, <2>3 DEF EditsRow
    <3>2. QED
      BY <3>1 DEF RowKept, Raised
  <2>4. QED
    BY <2>2, <2>3
<1>4. CASE LeavesRows
  BY <1>1, <1>4 DEF LeavesRows, AdminUpdate, CrmBookInvariant, CrmBookTypeOK, LedgerTypeOK
<1>5. QED
  BY <1>2, <1>3, <1>4, RowSteps

LEMMA WaitingStep ==
  ASSUME DomainAssumption, LedgerAssumption, CrmBookInvariant, [CrmBookNext]_crmBookVars
  PROVE  WaitingIsUndecided'
<1> SUFFICES ASSUME NEW a \in Accounts, a \notin edited', status'[a] = "PENDING_QUICK_APPROVAL"
             PROVE  \E c \in Raised' : /\ change'[c].acct = a
                                       /\ change'[c].mode = "QUICK"
                                       /\ change'[c].quick = "NONE"
  BY DEF WaitingIsUndecided
<1> DEFINE Queued == \E c \in Raised' : /\ change'[c].acct = a
                                        /\ change'[c].mode = "QUICK"
                                        /\ change'[c].quick = "NONE"
<1>1. ASSUME status[a] = "PENDING_QUICK_APPROVAL", a \notin edited
      PROVE  \E c \in Raised : /\ change[c].acct = a
                               /\ change[c].mode = "QUICK"
                               /\ change[c].quick = "NONE"
  BY <1>1 DEF CrmBookInvariant, WaitingIsUndecided
<1>2. ASSUME NEW c \in Raised, change[c].acct = a, change[c].mode = "QUICK",
             change'[c].quick = "NONE"
      PROVE  Queued
  BY <1>2, RaisedRows DEF RowKept
<1>3. CASE InsertsRow
  <2>1. status[a] = "PENDING_QUICK_APPROVAL" /\ a \notin edited
    BY <1>3 DEF InsertsRow, CrmBookInvariant, CrmBookTypeOK, LedgerTypeOK
  <2>2. PICK c \in Raised : /\ change[c].acct = a
                            /\ change[c].mode = "QUICK"
                            /\ change[c].quick = "NONE"
    BY <1>1, <2>1
  <2>3. c # nextId
    BY <2>2, RaisedRows, TheBookGrows
  <2>4. change'[c].quick = "NONE"
    BY <1>3, <2>2, <2>3 DEF InsertsRow, Raised
  <2>5. QED
    BY <1>2, <2>2, <2>4
<1>4. ASSUME NEW c \in Changes, EditsRow(c)
      PROVE  Queued
  <2>1. a \notin edited
    BY <1>4 DEF EditsRow
  <2>2. CASE a = change[c].acct /\ change[c].mode = "QUICK" /\ change'[c].quick = "NONE"
    BY <1>4, <2>2 DEF EditsRow, RowKept, Raised, CrmBookInvariant, BookInOrder, ChangeTypes, ChargeTypes
  <2>3. CASE ~(a = change[c].acct /\ change[c].mode = "QUICK" /\ change'[c].quick = "NONE")
    <3>1. /\ status[a] = "PENDING_QUICK_APPROVAL"
          /\ a = change[c].acct => change'[c].quick = change[c].quick
      BY <1>4, <2>3 DEF EditsRow
    <3>2. PICK d \in Raised : /\ change[d].acct = a
                              /\ change[d].mode = "QUICK"
                              /\ change[d].quick = "NONE"
      BY <1>1, <2>1, <3>1
    <3>3. change'[d].quick = "NONE"
      BY <1>4, <3>1, <3>2 DEF EditsRow, Raised
    <3>4. QED
      BY <1>2, <3>2, <3>3
  <2>4. QED
    BY <2>2, <2>3
<1>5. CASE LeavesRows
  <2>1. status[a] = "PENDING_QUICK_APPROVAL" /\ a \notin edited
    BY <1>5 DEF LeavesRows, AdminUpdate, CrmBookInvariant, CrmBookTypeOK, LedgerTypeOK
  <2>2. QED
    BY <1>1, <1>2, <1>5, <2>1 DEF LeavesRows
<1>6. QED
  BY <1>3, <1>4, <1>5, RowSteps

\* An account comes to be closing by nobody only by a word that has no date.
LEMMA ClosingStep ==
  ASSUME DomainAssumption, LedgerAssumption, CrmBookInvariant, [CrmBookNext]_crmBookVars,
         NEW a \in Accounts \ edited', ClosesByNobody(a)', ~ClosesByNobody(a)
  PROVE  \E s \in Writers : Undated(s) /\ change[req[s].c].acct = a
<1>1. /\ status'[a] = "DISCONNECTING"
      /\ ~\E c \in Raised' : change'[c].acct = a /\ WillClose(c)'
  BY DEF ClosesByNobody
<1>2. ASSUME status[a] = "DISCONNECTING"
      PROVE  \E c \in Raised : change[c].acct = a /\ WillClose(c)
  BY <1>2 DEF ClosesByNobody
<1>3. ASSUME NEW c \in Raised, change[c].acct = a
      PROVE  ~WillClose(c)'
  BY <1>1, <1>3, RaisedRows DEF RowKept
<1>4. ASSUME NEW c \in Raised, WillClose(c), change'[c] = change[c]
      PROVE  WillClose(c)'
  BY <1>4 DEF WillClose
<1>5. CASE InsertsRow
  <2>1. status[a] = "DISCONNECTING"
    BY <1>1, <1>5 DEF InsertsRow, CrmBookInvariant, CrmBookTypeOK, LedgerTypeOK
  <2>2. PICK c \in Raised : change[c].acct = a /\ WillClose(c)
    BY <1>2, <2>1
  <2>3. c # nextId
    BY <2>2, RaisedRows, TheBookGrows
  <2>4. change'[c] = change[c]
    BY <1>5, <2>3 DEF InsertsRow, Raised
  <2>5. QED
    BY <1>3, <1>4, <2>2, <2>4
<1>6. ASSUME NEW c \in Changes, EditsRow(c)
      PROVE  \E s \in Writers : Undated(s) /\ change[req[s].c].acct = a
  <2>1. c \in Raised
    BY <1>6 DEF EditsRow, Raised, CrmBookInvariant, BookInOrder, ChangeTypes, ChargeTypes
  <2>2. CASE a = change[c].acct /\ LateWord(c)
    BY <2>2 DEF LateWord
  <2>3. CASE ~(a = change[c].acct /\ LateWord(c))
    <3>1. /\ status[a] = "DISCONNECTING"
          /\ a = change[c].acct => (WillClose(c) => WillClose(c)')
      BY <1>1, <1>3, <1>6, <2>1, <2>3 DEF EditsRow
    <3>2. PICK d \in Raised : change[d].acct = a /\ WillClose(d)
      BY <1>2, <3>1
    <3>3. CASE d = c
      BY <1>3, <2>1, <3>1, <3>2, <3>3
    <3>4. CASE d # c
      <4>1. change'[d] = change[d]
        BY <1>6, <3>4 DEF EditsRow, Raised
      <4>2. QED
        BY <1>3, <1>4, <3>2, <4>1
    <3>5. QED
      BY <3>3, <3>4
  <2>4. QED
    BY <2>2, <2>3
<1>7. CASE LeavesRows
  <2>1. status[a] = "DISCONNECTING" /\ change' = change
    BY <1>1, <1>7 DEF LeavesRows, AdminUpdate, CrmBookInvariant, CrmBookTypeOK, LedgerTypeOK
  <2>2. QED
    BY <1>2, <1>3, <1>4, <2>1
<1>8. QED
  BY <1>5, <1>6, <1>7, RowSteps

-----------------------------------------------------------------------------
(* What a handler in flight holds stays sound                              *)

\* Only disconnections are QUICK.
LEMMA ChargesAreNotQuick ==
  ASSUME CrmBookInvariant, NEW c \in Changes, c < nextId, change[c].type \in ChargeTypes
  PROVE  change[c].mode = "NONE"
  BY DEF CrmBookInvariant, BookInOrder, ChargeTypes

LEMMA HandlersHold ==
  ASSUME CrmBookInvariant, NEW s \in Slots
  PROVE  req[s] \in Request /\ HoldsRow(req[s])
  BY DEF CrmBookInvariant, CrmBookTypeOK, LedgerTypeOK, HandlersHoldTheirRows

\* While it waits, the rows it holds are kept, the days pass, the CRM remembers.
LEMMA HeldRowsAreKept ==
  ASSUME DomainAssumption, LedgerAssumption, CrmBookInvariant, [CrmBookNext]_crmBookVars,
         NEW q \in Request, HoldsRow(q)
  PROVE  HoldsRow(q)'
<1>1. /\ nextId \in Nat /\ nextId' \in Nat /\ nextId' >= nextId
      /\ today \in Nat /\ today' \in Nat /\ today' >= today
      /\ \A c \in Changes : c \in Nat /\ change[c] \in Row
      /\ \A c \in Changes : c < nextId => RowKept(c)
  BY TheBookGrows
<1>2. CrmRemembers
  BY TheCrmRemembers
<1>3. ASSUME NEW c, Raises(c)
      PROVE  Raises(c)' /\ RowKept(c) /\ c \in Changes
  BY <1>1, <1>3 DEF Raises, RowKept
<1>4. ASSUME NEW c \in Changes, c < nextId, MayApply(c)
      PROVE  MayApply(c)'
  <2>1. RowKept(c) /\ change[c].raisedOn \in Nat /\ NoticeDays \in Nat
    BY <1>1, <1>4 DEF Row, DomainAssumption
  <2>2. /\ UnderNotice(c)' => UnderNotice(c)
        /\ NoticeEnd(c)' = NoticeEnd(c) /\ NoticeEnd(c) \in Nat
    BY <2>1 DEF UnderNotice, NoticeEnd, RowKept
  <2>3. /\ UnderNotice(c) => today >= NoticeEnd(c) \/ crmAt[c] = "COMPLETED"
        /\ change[c].type \in ChargeTypes /\ change[c].acct \in CrmLinked => crmAt[c] = "COMPLETED"
    BY <1>4 DEF MayApply
  <2>4. UnderNotice(c)' => today' >= NoticeEnd(c)' \/ crmAt'[c] = "COMPLETED"
    BY <1>1, <1>2, <2>2, <2>3 DEF UnderNotice, CrmRemembers
  <2>5. change'[c].type \in ChargeTypes /\ change'[c].acct \in CrmLinked => crmAt'[c] = "COMPLETED"
    BY <1>2, <1>4, <2>1, <2>3, ChargesAreNotQuick DEF RowKept, CrmRemembers
  <2>6. QED
    BY <2>4, <2>5 DEF MayApply
<1>5. /\ \A c \in Changes : \A says : Decided(c, says) => Decided(c, says)'
      /\ \A c, says : Raises(c) /\ SaysTruth(c, says) => SaysTruth(c, says)'
  BY <1>2, TruthStays DEF Decided, CrmRemembers
<1>6. ASSUME NEW c \in q.due
      PROVE  c < nextId' /\ (q.pc \in {"sweep", "applyTx"} => MayApply(c)')
  <2>1. c \in Changes /\ c < nextId /\ (q.pc \in {"sweep", "applyTx"} => MayApply(c))
    BY DEF HoldsRow, Request
  <2>2. QED
    BY <1>1, <1>4, <2>1
<1>7. q.pc = "applyTx" => q.c \in Changes /\ q.c < nextId' /\ MayApply(q.c)'
  BY <1>1, <1>4 DEF HoldsRow
<1>8. q.pc \in {"autoRetain", "autoRetainTx", "route", "push", "orderCrm", "orderTx", "retainTx",
                "proceedCrm", "proceedTx", "refreshTx", "activationTx", "decidedCrm", "decidedTx",
                "statusTx"}
        => Raises(q.c)' /\ RowKept(q.c) /\ q.c \in Changes
  BY <1>3 DEF HoldsRow
<1>9. /\ q.pc \in {"decidedCrm", "decidedTx"} => q.seen \in Decisions /\ Decided(q.c, q.seen)'
      /\ q.pc = "statusTx" => SaysTruth(q.c, q.crm)'
  BY <1>5, <1>8 DEF HoldsRow
<1>10. /\ q.pc \in {"autoRetain", "autoRetainTx", "route"} => change'[q.c].acct = q.a
       /\ q.pc = "push" => change'[q.c].mode = "QUICK"
       /\ q.pc \in {"proceedCrm", "proceedTx"}
            => change'[q.c].type = "DISCONNECTION" /\ q.born >= change'[q.c].raisedOn
       /\ q.pc \in {"refreshTx", "activationTx"} /\ q.crm = "COMPLETED"
             /\ change'[q.c].mode # "QUICK"
            => crmAt'[q.c] = "COMPLETED"
  BY <1>2, <1>8 DEF HoldsRow, RowKept, CrmRemembers
<1>11. QED
  BY <1>6, <1>7, <1>8, <1>9, <1>10 DEF HoldsRow

\* A handler may go on with a call when it holds what the call needs and, while the
\* row is not routed, keeps the row to itself.
MayGoOn(s, call) ==
  /\ HoldsRow(call)'
  /\ call.pc \in Routing =>
       \/ req[s].pc \in Routing /\ call.c = req[s].c
       \/ \A t \in Slots : req[t].pc \in Routing => req[t].c < call.c

LEMMA IdleMayGoOn ==
  ASSUME NEW s \in Slots
  PROVE  MayGoOn(s, Idle)
  BY DEF MayGoOn, HoldsRow, Routing, Idle

\* The other handlers keep what they hold, and the CRM's admin hears of no row that
\* another handler is still routing.
LEMMA OthersHold ==
  ASSUME DomainAssumption, LedgerAssumption, CrmBookInvariant, [CrmBookNext]_crmBookVars,
         NEW s \in Slots, NEW call, MayGoOn(s, call), Resume(s, call),
         call.pc \in Routing => asked'[call.c] = "NONE",
         \A c \in Changes : asked'[c] = asked[c] \/ (req[s].pc = "push" /\ req[s].c = c)
  PROVE  HandlersHoldTheirRows' /\ RoutedOnce'
<1>1. /\ req'[s] = call
      /\ \A t \in Slots \ {s} : req'[t] = req[t]
  BY DEF CrmBookInvariant, CrmBookTypeOK, LedgerTypeOK, Resume
<1>2. ASSUME NEW t \in Slots
      PROVE  HoldsRow(req[t])'
  <2>1. PICK q : q = req'[t]
    OBVIOUS
  <2>2. CASE t = s
    BY <1>1, <2>1, <2>2 DEF MayGoOn
  <2>3. CASE t # s
    <3>1. q \in Request /\ HoldsRow(q)
      BY <1>1, <2>1, <2>3, HandlersHold
    <3>2. HoldsRow(q)'
      BY <3>1, HeldRowsAreKept
    <3>3. QED
      BY <2>1, <3>2
  <2>4. QED
    BY <2>2, <2>3
<1>3. ASSUME NEW t \in Slots, req[t].pc \in Routing
      PROVE  /\ req[t].c \in Changes /\ asked[req[t].c] = "NONE" /\ req[t].c \in Nat
             /\ \A u \in Slots \ {t} : req[u].pc \in Routing => req[u].c # req[t].c
  BY <1>3, HandlersHold, TheBookGrows
  DEF CrmBookInvariant, RoutedOnce, HoldsRow, Raises, Routing
<1>4. ASSUME NEW t \in Slots \ {s}, req[t].pc \in Routing
      PROVE  asked'[req[t].c] = "NONE"
  BY <1>3, <1>4 DEF Routing
<1>5. ASSUME NEW t \in Slots \ {s}, req[t].pc \in Routing, call.pc \in Routing
      PROVE  req[t].c # call.c
  BY <1>3, <1>5 DEF MayGoOn
<1>6. RoutedOnce'
  <2> SUFFICES ASSUME NEW t \in Slots, req'[t].pc \in Routing
               PROVE  /\ asked'[req'[t].c] = "NONE"
                      /\ \A u \in Slots \ {t} : req'[u].pc \in Routing => req'[u].c # req'[t].c
    BY DEF RoutedOnce
  <2>1. CASE t = s
    BY <1>1, <1>5, <2>1
  <2>2. CASE t # s
    BY <1>1, <1>3, <1>4, <1>5, <2>2
  <2>3. QED
    BY <2>1, <2>2
<1>7. QED
  BY <1>2, <1>6 DEF HandlersHoldTheirRows

LEMMA SharedHoldStep ==
  ASSUME DomainAssumption, LedgerAssumption, CrmBookInvariant, [CrmBookNext]_crmBookVars,
         NEW s \in Writers, SharedStep(s), UNCHANGED crmVars
  PROVE  HandlersHoldTheirRows' /\ RoutedOnce'
<1> USE DEF Slots
<1> DEFINE Goal == HandlersHoldTheirRows' /\ RoutedOnce'
<1>a. /\ nextId \in Nat /\ nextId' \in Nat /\ nextId' >= nextId
      /\ today \in Nat /\ today' \in Nat /\ today' >= today
      /\ \A c \in Changes : c \in Nat /\ change[c] \in Row
      /\ \A c \in Changes : c < nextId => RowKept(c)
  BY TheBookGrows
<1>r. PICK r : r = req[s]
  OBVIOUS
<1>b. r = req[s] /\ r \in Request /\ HoldsRow(r) /\ HoldsRow(r)'
  BY <1>r, HandlersHold, HeldRowsAreKept
<1>c. ASSUME NEW call, MayGoOn(s, call), Resume(s, call),
             call.pc \in Routing => asked'[call.c] = "NONE"
      PROVE  Goal
  BY <1>c, OthersHold DEF crmVars
<1>d. ASSUME Finish(s)
      PROVE  Goal
  BY <1>c, <1>d, IdleMayGoOn DEF Finish, Routing, Idle
<1>1. ASSUME NEW a \in Accounts, NEW form \in Offered, CommitRead(s, a, form)
      PROVE  Goal
  <2>1. PICK q : q = [Idle EXCEPT !.pc = "commitTx", !.a = a, !.form = form,
                                  !.seen = status[a], !.arc = arc[a], !.born = today]
    OBVIOUS
  <2>2. q.pc = "commitTx" /\ q.a \in Accounts /\ q.form \in Forms /\ q.due = {}
    BY <2>1 DEF Idle, LedgerAssumption
  <2>3. MayGoOn(s, q) /\ q.pc \notin Routing
    BY <2>2 DEF MayGoOn, HoldsRow, Routing
  <2>4. QED
    BY <1>1, <1>c, <2>1, <2>3 DEF CommitRead, Start
<1>2. CASE CommitTx(s)
  <2>1. PICK pc \in {"autoRetain", "route"} :
          Resume(s, [Idle EXCEPT !.pc = pc, !.a = req[s].a, !.c = nextId, !.born = req[s].born])
    BY <1>2 DEF CommitTx
  <2>2. PICK q : q = [Idle EXCEPT !.pc = pc, !.a = req[s].a, !.c = nextId, !.born = req[s].born]
    OBVIOUS
  <2>3. q.pc = pc /\ q.a = req[s].a /\ q.c = nextId /\ q.due = {}
    BY <2>2 DEF Idle
  <2>4. req[s].a \in Accounts /\ nextId \in Changes /\ nextId' = nextId + 1
    BY <1>2, <1>b DEF CommitTx, At, HoldsRow
  <2>5. change'[nextId].acct = req[s].a /\ change'[nextId].crm = "NONE"
    BY <1>2, <2>4 DEF CommitTx, Write, NewRow, CrmBookInvariant, CrmBookTypeOK, LedgerTypeOK
  <2>6. asked[nextId] = "NONE"
    BY <1>a, <2>4 DEF CrmBookInvariant, CrmKnowsRows, Raises
  <2>7. HoldsRow(q)'
    BY <1>a, <2>3, <2>4, <2>5 DEF HoldsRow, Raises
  <2>8. \A t \in Slots : req[t].pc \in Routing => req[t].c < q.c
    BY <2>3, HandlersHold DEF HoldsRow, Raises, Routing
  <2>9. QED
    BY <1>c, <2>1, <2>2, <2>3, <2>6, <2>7, <2>8 DEF MayGoOn, crmVars
<1>3. CASE AutoRetainFind(s)
  <2>1. /\ r.pc = "autoRetain" /\ nextId' = nextId
        /\ asked[r.c] = "NONE"
    BY <1>3, <1>b DEF AutoRetainFind, CrmBookInvariant, RoutedOnce, Routing, At
  <2>2. ASSUME NEW pc \in {"route", "autoRetainTx"}, NEW due \in SUBSET Changes,
               \A c \in due : c < nextId,
               Resume(s, [r EXCEPT !.pc = pc, !.due = due])
        PROVE  Goal
    <3>1. PICK q : q = [r EXCEPT !.pc = pc, !.due = due]
      OBVIOUS
    <3>2. q.pc = pc /\ q.a = r.a /\ q.c = r.c /\ q.due = due
      BY <1>b, <3>1 DEF Request
    <3>3. HoldsRow(q)'
      BY <1>b, <2>1, <2>2, <3>2 DEF HoldsRow
    <3>4. MayGoOn(s, q)
      BY <1>b, <2>1, <3>2, <3>3 DEF MayGoOn, Routing
    <3>5. QED
      BY <1>c, <2>1, <2>2, <3>1, <3>2, <3>4 DEF crmVars
  <2>3. CASE Resume(s, [req[s] EXCEPT !.pc = "route"])
    <3>1. [r EXCEPT !.pc = "route"] = [r EXCEPT !.pc = "route", !.due = r.due]
      BY <1>b DEF Request
    <3>2. r.due \in SUBSET Changes /\ \A c \in r.due : c < nextId
      BY <1>b DEF Request, HoldsRow
    <3>3. QED
      BY <1>b, <2>2, <2>3, <3>1, <3>2
  <2>4. ASSUME NEW c \in Undecided(req[s].a),
               Resume(s, [req[s] EXCEPT !.pc = "autoRetainTx", !.due = {c}])
        PROVE  Goal
    <3>1. c \in Changes /\ c < nextId
      BY RaisedRows DEF Undecided
    <3>2. {c} \in SUBSET Changes /\ \A d \in {c} : d < nextId
      BY <3>1
    <3>3. QED
      BY <1>b, <2>2, <2>4, <3>2
  <2>5. QED
    BY <1>3, <2>3, <2>4 DEF AutoRetainFind
<1>4. CASE AutoRetainTx(s)
  <2>1. /\ r.pc = "autoRetainTx" /\ asked[r.c] = "NONE"
        /\ Resume(s, [r EXCEPT !.pc = "route", !.due = {}])
    BY <1>4, <1>b DEF AutoRetainTx, CrmBookInvariant, RoutedOnce, Routing, At
  <2>2. PICK q : q = [r EXCEPT !.pc = "route", !.due = {}]
    OBVIOUS
  <2>3. q.pc = "route" /\ q.a = r.a /\ q.c = r.c /\ q.due = {}
    BY <1>b, <2>2 DEF Request
  <2>4. HoldsRow(q)'
    BY <1>b, <2>1, <2>3 DEF HoldsRow
  <2>5. MayGoOn(s, q)
    BY <1>b, <2>1, <2>3, <2>4 DEF MayGoOn, Routing
  <2>6. QED
    BY <1>c, <2>1, <2>2, <2>3, <2>5 DEF crmVars
<1>5. ASSUME NEW c \in Raised, NEW decision \in {"RETAIN", "PROCEED"},
             RetentionRead(s, c, decision)
      PROVE  Goal
  <2>1. PICK pc \in {"retainTx", "proceedCrm", "proceedTx"} :
          Resume(s, [Idle EXCEPT !.pc = pc, !.c = c, !.born = today])
    BY <1>5 DEF RetentionRead, Start
  <2>2. PICK q : q = [Idle EXCEPT !.pc = pc, !.c = c, !.born = today]
    OBVIOUS
  <2>3. q.pc = pc /\ q.c = c /\ q.due = {} /\ q.born = today
    BY <2>2 DEF Idle
  <2>4. /\ c \in Changes /\ c < nextId /\ UNCHANGED <<change, nextId>>
        /\ change[c].type = "DISCONNECTION" /\ change[c].retention = "NONE"
    BY <1>5, RaisedRows DEF RetentionRead
  <2>5. change[c].crm # "BACKFILL_LOCAL" /\ change[c].raisedOn <= today
    BY <2>4 DEF CrmBookInvariant, BookInOrder
  <2>6. HoldsRow(q)'
    BY <1>a, <2>3, <2>4, <2>5 DEF HoldsRow, Raises, Row
  <2>7. QED
    BY <1>c, <2>1, <2>2, <2>3, <2>6 DEF MayGoOn, Routing
<1>6. ASSUME NEW a \in Accounts, BackfillRead(s, a)
      PROVE  Goal
  <2>1. PICK q : q = [Idle EXCEPT !.pc = "backfillTx", !.a = a, !.arc = arc[a], !.born = today]
    OBVIOUS
  <2>2. q.pc = "backfillTx" /\ q.a \in Accounts /\ q.due = {}
    BY <2>1 DEF Idle
  <2>3. MayGoOn(s, q) /\ q.pc \notin Routing
    BY <2>2 DEF MayGoOn, HoldsRow, Routing
  <2>4. QED
    BY <1>6, <1>c, <2>1, <2>3 DEF BackfillRead, Start
<1>7. CASE RetainTx(s) \/ BackfillTx(s)
  BY <1>7, <1>d DEF RetainTx, BackfillTx
<1>8. QED
  BY <1>1, <1>2, <1>3, <1>4, <1>5, <1>6, <1>7 DEF SharedStep

LEMMA NewBookHoldStep ==
  ASSUME DomainAssumption, LedgerAssumption, CrmBookInvariant, [CrmBookNext]_crmBookVars,
         NEW s \in Writers, NewBookStep(s)
  PROVE  HandlersHoldTheirRows' /\ RoutedOnce'
<1> USE DEF Slots
<1> DEFINE Goal == HandlersHoldTheirRows' /\ RoutedOnce'
<1>a. /\ nextId \in Nat /\ nextId' \in Nat /\ nextId' >= nextId
      /\ \A c \in Changes : c \in Nat /\ change[c] \in Row
      /\ \A c \in Changes : c < nextId => RowKept(c)
  BY TheBookGrows
<1>r. PICK r : r = req[s]
  OBVIOUS
<1>b. r = req[s] /\ r \in Request /\ HoldsRow(r) /\ HoldsRow(r)'
  BY <1>r, HandlersHold, HeldRowsAreKept
<1>c. ASSUME NEW call, MayGoOn(s, call), Resume(s, call),
             call.pc \in Routing => asked'[call.c] = "NONE",
             asked' = asked
      PROVE  Goal
  BY <1>c, OthersHold
<1>d. ASSUME Finish(s), asked' = asked
      PROVE  Goal
  BY <1>c, <1>d, IdleMayGoOn DEF Finish, Routing, Idle
<1>1. CASE EnterPendingQuickApproval(s)
  <2>1. r.pc = "route" /\ asked[r.c] = "NONE" /\ asked' = asked /\ r \in Request
    BY <1>1, <1>b
    DEF EnterPendingQuickApproval, OfNewBook, CrmBookInvariant, RoutedOnce, Routing, At, crmVars
  <2>2. CASE Resume(s, Idle)
    BY <1>d, <2>1, <2>2 DEF Finish
  <2>3. CASE Resume(s, [r EXCEPT !.pc = "push"])
    <3>1. PICK q : q = [r EXCEPT !.pc = "push"]
      OBVIOUS
    <3>2. q.pc = "push" /\ q.c = r.c /\ q.due = r.due
      BY <2>1, <3>1 DEF Request
    <3>3. change[r.c].mode = "QUICK" /\ change' = change
      BY <1>1, <1>b DEF EnterPendingQuickApproval
    <3>4. HoldsRow(q)'
      BY <1>b, <2>1, <3>2, <3>3 DEF HoldsRow
    <3>5. MayGoOn(s, q)
      BY <1>b, <2>1, <3>2, <3>4 DEF MayGoOn, Routing
    <3>6. QED
      BY <1>c, <2>1, <2>3, <3>1, <3>2, <3>5
  <2>4. QED
    BY <1>1, <1>b, <2>2, <2>3 DEF EnterPendingQuickApproval
<1>2. CASE PushQuick(s)
  <2>1. \A c \in Changes : asked'[c] = asked[c] \/ (req[s].pc = "push" /\ req[s].c = c)
    BY <1>2 DEF PushQuick, At, CrmBookInvariant, CrmBookTypeOK
  <2>2. MayGoOn(s, Idle) /\ Idle.pc \notin Routing /\ Resume(s, Idle)
    BY <1>2, IdleMayGoOn DEF PushQuick, Finish, Routing, Idle
  <2>3. QED
    BY <2>1, <2>2, OthersHold
<1>3. CASE RouteArcChange(s)
  <2>1. /\ r.pc = "route" /\ asked[r.c] = "NONE" /\ asked' = asked
        /\ r.a \in Accounts /\ Raises(r.c) /\ Raises(r.c)' /\ change[r.c].acct = r.a
        /\ UNCHANGED <<change, nextId>>
    BY <1>3, <1>b
    DEF RouteArcChange, OfNewBook, CrmBookInvariant, RoutedOnce, Routing, At, HoldsRow,
        ledgerVars, crmVars
  <2>2. CASE Resume(s, Idle)
    BY <1>d, <2>1, <2>2 DEF Finish
  <2>3. CASE Resume(s, [r EXCEPT !.pc = "orderCrm"])
    <3>1. PICK q : q = [r EXCEPT !.pc = "orderCrm"]
      OBVIOUS
    <3>2. q.pc = "orderCrm" /\ q.c = r.c /\ q.due = r.due
      BY <1>b, <3>1 DEF Request
    <3>3. HoldsRow(q)'
      BY <1>b, <2>1, <3>2 DEF HoldsRow
    <3>4. QED
      BY <1>c, <2>1, <2>3, <3>1, <3>2, <3>3 DEF MayGoOn, Routing
  <2>4. CASE /\ r.a \notin CrmLinked
             /\ Resume(s, [r EXCEPT !.pc = "sweep", !.due = {r.c}])
    <3>1. PICK q : q = [r EXCEPT !.pc = "sweep", !.due = {r.c}]
      OBVIOUS
    <3>2. q.pc = "sweep" /\ q.due = {r.c}
      BY <1>b, <3>1 DEF Request
    <3>3. change[r.c].type \in ChargeTypes /\ r.c \in Changes
      BY <1>3, <1>b, <2>1 DEF RouteArcChange, Raises
    <3>4. MayApply(r.c)' /\ r.c < nextId'
      BY <2>1, <2>4, <3>3 DEF MayApply, UnderNotice, Raises, ChargeTypes
    <3>5. HoldsRow(q)'
      BY <3>2, <3>4 DEF HoldsRow
    <3>6. QED
      BY <1>c, <2>1, <2>4, <3>1, <3>2, <3>5 DEF MayGoOn, Routing
  <2>5. QED
    BY <1>3, <1>b, <2>2, <2>3, <2>4 DEF RouteArcChange, IsLinkedAccount
<1>4. CASE OrderCrm(s)
  <2>1. r.pc = "orderCrm" /\ asked' = asked
    BY <1>4, <1>b DEF OrderCrm, At
  <2>2. CASE Finish(s)
    BY <1>d, <2>1, <2>2
  <2>3. CASE Resume(s, [r EXCEPT !.pc = "orderTx"])
    <3>1. PICK q : q = [r EXCEPT !.pc = "orderTx"]
      OBVIOUS
    <3>2. q.pc = "orderTx" /\ q.c = r.c /\ q.due = r.due
      BY <1>b, <3>1 DEF Request
    <3>3. HoldsRow(q)'
      BY <1>b, <2>1, <3>2 DEF HoldsRow
    <3>4. QED
      BY <1>c, <2>1, <2>3, <3>1, <3>2, <3>3 DEF MayGoOn, Routing
  <2>4. QED
    BY <1>4, <1>b, <2>2, <2>3 DEF OrderCrm
<1>5. CASE ProceedOrder(s)
  <2>1. PICK mark \in {"ORDERED", "FAILED"} :
          Resume(s, [r EXCEPT !.pc = "proceedTx", !.crm = mark])
    BY <1>5, <1>b DEF ProceedOrder, ProceedCrm
  <2>2. r.pc = "proceedCrm" /\ asked' = asked
    BY <1>5, <1>b DEF ProceedOrder, ProceedCrm, At
  <2>3. PICK q : q = [r EXCEPT !.pc = "proceedTx", !.crm = mark]
    OBVIOUS
  <2>4. q.pc = "proceedTx" /\ q.c = r.c /\ q.due = r.due /\ q.born = r.born
    BY <1>b, <2>3 DEF Request
  <2>5. HoldsRow(q)'
    BY <1>b, <2>2, <2>4 DEF HoldsRow
  <2>6. QED
    BY <1>c, <2>1, <2>2, <2>3, <2>4, <2>5 DEF MayGoOn, Routing
<1>6. ASSUME NEW c \in Raised, RefreshRead(s, c)
      PROVE  Goal
  <2>1. PICK q : q = [Idle EXCEPT !.pc = "refreshTx", !.c = c, !.crm = crmAt[c], !.born = today]
    OBVIOUS
  <2>2. q.pc = "refreshTx" /\ q.c = c /\ q.due = {} /\ q.crm = crmAt[c]
    BY <2>1 DEF Idle
  <2>3. /\ crmAt[c] \in OrderStatus /\ UNCHANGED <<change, nextId, crmAt, asked>>
        /\ Raises(c)
    BY <1>6 DEF RefreshRead, ledgerVars, crmVars, CrmBookInvariant, CrmKnowsRows
  <2>4. HoldsRow(q)'
    BY <2>2, <2>3 DEF HoldsRow, Raises
  <2>5. QED
    BY <1>6, <1>c, <2>1, <2>2, <2>3, <2>4 DEF MayGoOn, Routing, RefreshRead, Start
<1>7. ASSUME NEW c \in Raised, SetActivationDate(s, c)
      PROVE  Goal
  <2>1. Raises(c) /\ UNCHANGED <<change, nextId, asked>> /\ r = Idle
    BY <1>7, <1>b DEF SetActivationDate, ledgerVars, CrmBookInvariant, CrmKnowsRows
  <2>2. CASE UNCHANGED req
    <3>1. req' = [req EXCEPT ![s] = Idle]
      BY <1>b, <2>1, <2>2 DEF CrmBookInvariant, CrmBookTypeOK, LedgerTypeOK
    <3>2. QED
      BY <1>d, <2>1, <3>1 DEF Finish, Resume
  <2>3. ASSUME NEW stands \in {"IN_FLIGHT", "COMPLETED"}, crmAt' = [crmAt EXCEPT ![c] = stands],
               Resume(s, [Idle EXCEPT !.pc = "activationTx", !.c = c, !.crm = stands, !.born = today])
        PROVE  Goal
    <3>1. PICK q : q = [Idle EXCEPT !.pc = "activationTx", !.c = c, !.crm = stands, !.born = today]
      OBVIOUS
    <3>2. q.pc = "activationTx" /\ q.c = c /\ q.due = {} /\ q.crm = stands
      BY <3>1 DEF Idle
    <3>3. q.crm \in OrderStatus /\ crmAt'[c] = q.crm
      BY <2>3, <3>2 DEF OrderStatus, CrmBookInvariant, CrmBookTypeOK, Raised
    <3>4. HoldsRow(q)'
      BY <2>1, <3>2, <3>3 DEF HoldsRow, Raises
    <3>5. QED
      BY <1>c, <2>1, <2>3, <3>1, <3>2, <3>4 DEF MayGoOn, Routing
  <2>4. QED
    BY <1>7, <2>2, <2>3 DEF SetActivationDate
<1>8. ASSUME r.pc \in {"refreshTx", "activationTx"}, r.crm = "COMPLETED",
             nextId' = nextId, UNCHANGED crmVars,
             Resume(s, [r EXCEPT !.pc = "sweep", !.due = {r.c}])
      PROVE  Goal
  <2>1. Raises(r.c) /\ Raises(r.c)' /\ RowKept(r.c) /\ r.c \in Changes /\ UNCHANGED <<asked, crmAt>>
    BY <1>8, <1>a, <1>b DEF HoldsRow, Raises, crmVars
  <2>2. PICK q : q = [r EXCEPT !.pc = "sweep", !.due = {r.c}]
    OBVIOUS
  <2>3. q.pc = "sweep" /\ q.due = {r.c}
    BY <1>b, <2>2 DEF Request
  <2>4. change[r.c].mode = "QUICK" \/ crmAt[r.c] = "COMPLETED"
    BY <1>8, <1>b DEF HoldsRow
  <2>5. change[r.c].mode = "QUICK" => change[r.c].type \notin ChargeTypes
    BY <2>1, ChargesAreNotQuick DEF Raises
  <2>6. MayApply(r.c)' /\ r.c < nextId'
    BY <2>1, <2>4, <2>5 DEF MayApply, UnderNotice, Raises, RowKept
  <2>7. HoldsRow(q)'
    BY <2>3, <2>6 DEF HoldsRow
  <2>8. QED
    BY <1>8, <1>c, <2>1, <2>2, <2>3, <2>7 DEF MayGoOn, Routing
<1>9. CASE RefreshTx(s) \/ ActivationTx(s)
  <2>1. r.pc \in {"refreshTx", "activationTx"} /\ nextId' = nextId /\ UNCHANGED crmVars
    BY <1>9, <1>b DEF RefreshTx, ActivationTx, At
  <2>2. CASE Resume(s, Idle)
    BY <1>d, <2>1, <2>2 DEF Finish, crmVars
  <2>3. \/ Resume(s, Idle)
        \/ r.crm = "COMPLETED" /\ Resume(s, [r EXCEPT !.pc = "sweep", !.due = {r.c}])
    BY <1>9, <1>b DEF RefreshTx, ActivationTx
  <2>4. QED
    BY <1>8, <2>1, <2>2, <2>3
<1>10. CASE EnterProbableChurn(s) \/ OrderTx(s) \/ Proceed(s)
  BY <1>10, <1>d DEF EnterProbableChurn, OrderTx, Proceed, ProceedTx, crmVars
<1>11. QED
  BY <1>1, <1>2, <1>3, <1>4, <1>5, <1>6, <1>7, <1>9, <1>10 DEF NewBookStep

LEMMA WebhookHoldStep ==
  ASSUME DomainAssumption, LedgerAssumption, CrmBookInvariant, [CrmBookNext]_crmBookVars,
         NEW s \in Writers, WebhookStep(s)
  PROVE  HandlersHoldTheirRows' /\ RoutedOnce'
<1> USE DEF Slots
<1> DEFINE Goal == HandlersHoldTheirRows' /\ RoutedOnce'
<1>r. PICK r : r = req[s]
  OBVIOUS
<1>b. r = req[s] /\ r \in Request /\ HoldsRow(r) /\ HoldsRow(r)'
  BY <1>r, HandlersHold, HeldRowsAreKept
<1>c. ASSUME NEW call, HoldsRow(call)', call.pc \notin Routing, Resume(s, call), asked' = asked
      PROVE  Goal
  BY <1>c, OthersHold DEF MayGoOn
<1>d. ASSUME NEW w \in post
      PROVE  /\ w.c \in Changes /\ Raises(w.c) /\ Raises(w.c)'
             /\ SaysTruth(w.c, w.says) /\ SaysTruth(w.c, w.says)'
             /\ change[w.c].mode = "QUICK" => Decided(w.c, w.says)
  BY RaisesStays, TruthStays DEF CrmBookInvariant, CrmKnowsRows, SaysTruth
<1>1. ASSUME NEW w \in post, DecidedRead(s, w)
      PROVE  Goal
  <2>1. PICK pc \in {"decidedCrm", "decidedTx"} :
          Resume(s, [Idle EXCEPT !.pc = pc, !.c = w.c, !.seen = w.says, !.born = today])
    BY <1>1 DEF DecidedRead, Start
  <2>2. PICK q : q = [Idle EXCEPT !.pc = pc, !.c = w.c, !.seen = w.says, !.born = today]
    OBVIOUS
  <2>3. q.pc = pc /\ q.c = w.c /\ q.seen = w.says /\ q.due = {}
    BY <2>2 DEF Idle
  <2>4. Decided(w.c, w.says)' /\ asked' = asked /\ w.says \in Decisions
    BY <1>1, <1>d DEF DecidedRead, Decided
  <2>5. HoldsRow(q)'
    BY <1>d, <2>3, <2>4 DEF HoldsRow
  <2>6. QED
    BY <1>c, <2>1, <2>2, <2>3, <2>4, <2>5 DEF Routing
<1>2. ASSUME NEW w \in post, StatusRead(s, w)
      PROVE  Goal
  <2>1. PICK q : q = [Idle EXCEPT !.pc = "statusTx", !.c = w.c, !.crm = w.says,
                                  !.seen = status[change[w.c].acct], !.born = today]
    OBVIOUS
  <2>2. q.pc = "statusTx" /\ q.c = w.c /\ q.crm = w.says /\ q.due = {}
    BY <2>1 DEF Idle
  <2>3. SaysTruth(w.c, w.says)' /\ asked' = asked /\ w.says \in OrderStatus
    BY <1>2, <1>d DEF StatusRead
  <2>4. HoldsRow(q)'
    BY <1>d, <2>2, <2>3 DEF HoldsRow
  <2>5. QED
    BY <1>2, <1>c, <2>1, <2>2, <2>3, <2>4 DEF Routing, StatusRead, Start
<1>3. CASE DecidedCrm(s)
  <2>1. PICK mark \in {"ORDERED", "FAILED"} :
          Resume(s, [r EXCEPT !.pc = "decidedTx", !.crm = mark])
    BY <1>3, <1>b DEF DecidedCrm
  <2>2. r.pc = "decidedCrm" /\ asked' = asked
    BY <1>3, <1>b DEF DecidedCrm, At
  <2>3. PICK q : q = [r EXCEPT !.pc = "decidedTx", !.crm = mark]
    OBVIOUS
  <2>4. q.pc = "decidedTx" /\ q.c = r.c /\ q.due = r.due /\ q.seen = r.seen
    BY <1>b, <2>3 DEF Request
  <2>5. HoldsRow(q)'
    BY <1>b, <2>2, <2>4 DEF HoldsRow
  <2>6. QED
    BY <1>c, <2>1, <2>2, <2>3, <2>4, <2>5 DEF Routing
<1>4. CASE DecidedTx(s) \/ StatusTx(s)
  <2>1. Resume(s, Idle) /\ asked' = asked
    BY <1>4 DEF DecidedTx, StatusTx, Finish
  <2>2. HoldsRow(Idle)' /\ Idle.pc \notin Routing
    BY DEF HoldsRow, Idle, Routing
  <2>3. QED
    BY <1>c, <2>1, <2>2
<1>5. QED
  BY <1>1, <1>2, <1>3, <1>4 DEF WebhookStep

\* The sweep and its writes.
LEMMA SweepHoldStep ==
  ASSUME DomainAssumption, LedgerAssumption, CrmBookInvariant, [CrmBookNext]_crmBookVars,
         NEW s \in Slots, SweepRead(s) \/ ApplyStep(s), UNCHANGED crmVars
  PROVE  HandlersHoldTheirRows' /\ RoutedOnce'
<1> DEFINE Goal == HandlersHoldTheirRows' /\ RoutedOnce'
<1>a. /\ nextId \in Nat /\ today \in Nat
      /\ \A c \in Changes : c \in Nat /\ change[c] \in Row
  BY TheBookGrows
<1>r. PICK r : r = req[s]
  OBVIOUS
<1>b. r = req[s] /\ r \in Request /\ HoldsRow(r) /\ HoldsRow(r)'
  BY <1>r, HandlersHold, HeldRowsAreKept
<1>c. ASSUME NEW call, HoldsRow(call)', call.pc \notin Routing, Resume(s, call)
      PROVE  Goal
  BY <1>c, OthersHold DEF MayGoOn, crmVars
<1>d. HoldsRow(Idle)' /\ Idle.pc \notin Routing
  BY DEF HoldsRow, Idle, Routing
<1>1. CASE SweepRead(s)
  <2>1. PICK q : q = [Idle EXCEPT !.pc = "sweep", !.due = Due, !.born = today]
    OBVIOUS
  <2>2. q.pc = "sweep" /\ q.due = Due
    BY <2>1 DEF Idle
  <2>3. ASSUME NEW c \in Due
        PROVE  c < nextId' /\ MayApply(c)'
    <3>1. /\ c \in Changes /\ change[c].type = "DISCONNECTION" /\ c \in Raised
          /\ change[c].sched # Never /\ change[c].sched <= today
      BY DEF Due, Raised
    <3>2. c < nextId
      BY <3>1, RaisedRows
    <3>3. UnderNotice(c) => today >= NoticeEnd(c)
      <4>1. change[c].sched \in Nat /\ change[c].raisedOn \in Nat /\ NoticeDays \in Nat
        BY <1>a, <3>1 DEF Row, Days, DomainAssumption
      <4>2. UnderNotice(c) => change[c].sched >= NoticeEnd(c)
        BY <3>1 DEF CrmBookInvariant, NoticeIsScheduled
      <4>3. QED
        BY <1>a, <3>1, <4>1, <4>2 DEF NoticeEnd
    <3>4. MayApply(c)
      BY <3>1, <3>3, Kinds DEF MayApply
    <3>5. UNCHANGED <<change, nextId, today, crmAt>>
      BY <1>1 DEF SweepRead, crmVars
    <3>6. QED
      BY <3>2, <3>4, <3>5 DEF MayApply, UnderNotice, NoticeEnd
  <2>4. HoldsRow(q)'
    BY <2>2, <2>3 DEF HoldsRow
  <2>5. QED
    BY <1>1, <1>c, <2>1, <2>2, <2>4 DEF SweepRead, Start, Routing
<1>2. CASE ApplyRead(s)
  <2>1. PICK c \in r.due :
          Resume(s, IF ~change[c].applied
                    THEN [r EXCEPT !.pc = "applyTx", !.c = c, !.due = r.due \ {c}]
                    ELSE IF r.due \ {c} = {} THEN Idle
                    ELSE [r EXCEPT !.due = r.due \ {c}])
    BY <1>2, <1>b DEF ApplyRead
  <2>2. /\ r.pc = "sweep" /\ c \in Changes
        /\ \A d \in r.due : d < nextId' /\ MayApply(d)'
    BY <1>2, <1>b DEF ApplyRead, At, HoldsRow, Request
  <2>3. CASE Resume(s, [r EXCEPT !.pc = "applyTx", !.c = c, !.due = r.due \ {c}])
    <3>1. PICK q : q = [r EXCEPT !.pc = "applyTx", !.c = c, !.due = r.due \ {c}]
      OBVIOUS
    <3>2. q.pc = "applyTx" /\ q.c = c /\ q.due = r.due \ {c}
      BY <1>b, <3>1 DEF Request
    <3>3. HoldsRow(q)'
      BY <2>2, <3>2 DEF HoldsRow
    <3>4. QED
      BY <1>c, <2>3, <3>1, <3>2, <3>3 DEF Routing
  <2>4. CASE Resume(s, [r EXCEPT !.due = r.due \ {c}])
    <3>1. PICK q : q = [r EXCEPT !.due = r.due \ {c}]
      OBVIOUS
    <3>2. q.pc = "sweep" /\ q.due = r.due \ {c}
      BY <1>b, <2>2, <3>1 DEF Request
    <3>3. HoldsRow(q)'
      BY <2>2, <3>2 DEF HoldsRow
    <3>4. QED
      BY <1>c, <2>4, <3>1, <3>2, <3>3 DEF Routing
  <2>5. CASE Resume(s, Idle)
    BY <1>c, <1>d, <2>5
  <2>6. QED
    BY <2>1, <2>3, <2>4, <2>5
<1>3. CASE ApplyTx(s)
  <2>1. CASE Resume(s, Idle)
    BY <1>c, <1>d, <2>1
  <2>2. CASE Resume(s, [r EXCEPT !.pc = "sweep", !.c = 0])
    <3>1. PICK q : q = [r EXCEPT !.pc = "sweep", !.c = 0]
      OBVIOUS
    <3>2. q.pc = "sweep" /\ q.due = r.due
      BY <1>b, <3>1 DEF Request
    <3>3. \A d \in r.due : d < nextId' /\ MayApply(d)'
      BY <1>3, <1>b DEF ApplyTx, At, HoldsRow
    <3>4. HoldsRow(q)'
      BY <3>2, <3>3 DEF HoldsRow
    <3>5. QED
      BY <1>c, <2>2, <3>1, <3>2, <3>4 DEF Routing
  <2>3. QED
    BY <1>3, <1>b, <2>1, <2>2 DEF ApplyTx
<1>4. QED
  BY <1>1, <1>2, <1>3 DEF ApplyStep

\* A step of none of the handlers leaves them holding what they hold.
LEMMA NobodyMoves ==
  ASSUME DomainAssumption, LedgerAssumption, CrmBookInvariant, [CrmBookNext]_crmBookVars,
         req' = req, \A c \in Changes : asked[c] = "NONE" => asked'[c] = "NONE"
  PROVE  HandlersHoldTheirRows' /\ RoutedOnce'
<1>1. ASSUME NEW t \in Slots
      PROVE  HoldsRow(req[t])'
  <2>1. PICK q : q = req[t]
    OBVIOUS
  <2>2. HoldsRow(q)'
    BY <2>1, HandlersHold, HeldRowsAreKept
  <2>3. QED
    BY <2>1, <2>2
<1>2. ASSUME NEW t \in Slots, req[t].pc \in Routing
      PROVE  /\ req[t].c \in Changes /\ asked[req[t].c] = "NONE"
             /\ \A u \in Slots \ {t} : req[u].pc \in Routing => req[u].c # req[t].c
  BY <1>2, HandlersHold DEF CrmBookInvariant, RoutedOnce, HoldsRow, Raises, Routing
<1>3. RoutedOnce'
  BY <1>2 DEF RoutedOnce
<1>4. QED
  BY <1>1, <1>3 DEF HandlersHoldTheirRows

LEMMA HoldStep ==
  ASSUME DomainAssumption, LedgerAssumption, CrmBookInvariant, [CrmBookNext]_crmBookVars
  PROVE  HandlersHoldTheirRows' /\ RoutedOnce'
<1>1. CASE CrmSide
  <2>1. req' = req
    BY <1>1 DEF CrmSide, Reactivate, CrmAdminDecides, CrmWorks, vars
  <2>2. \A c \in Changes : asked[c] = "NONE" => asked'[c] = "NONE"
    BY <1>1
    DEF CrmSide, Reactivate, CrmAdminDecides, CrmWorks, CrmBookInvariant, CrmBookTypeOK
  <2>3. QED
    BY <2>1, <2>2, NobodyMoves
<1>2. CASE Around /\ UNCHANGED crmVars
  <2>1. ASSUME NEW s \in Slots, CallFails(s)
        PROVE  HandlersHoldTheirRows' /\ RoutedOnce'
    BY <1>2, <2>1, OthersHold, IdleMayGoOn DEF CallFails, Finish, Routing, Idle, crmVars
  <2>2. CASE Restart
    BY <2>2 DEF Restart, HandlersHoldTheirRows, HoldsRow, RoutedOnce, Routing, Idle
  <2>3. CASE Tick \/ BookClosed \/ \E a \in Accounts : AdminUpdate(a)
    BY <1>2, <2>3, NobodyMoves DEF Tick, BookClosed, AdminUpdate, vars, crmVars
  <2>4. QED
    BY <1>2, <2>1, <2>2, <2>3 DEF Around
<1>3. CASE UNCHANGED crmBookVars
  BY <1>3, NobodyMoves DEF crmBookVars, vars, crmVars
<1>4. QED
  BY <1>1, <1>2, <1>3, SharedHoldStep, NewBookHoldStep, WebhookHoldStep, SweepHoldStep
  DEF CrmBookNext, Slots

-----------------------------------------------------------------------------
(* The theorems                                                            *)

LEMMA CrmBookInvariantInit ==
  ASSUME DomainAssumption, CrmBookInit
  PROVE  CrmBookInvariant
<1>1. CrmBookTypeOK
  BY InitType
<1>2. /\ \A c \in Changes : change[c] = BlankRow /\ ~(c < nextId) /\ asked[c] = "NONE"
      /\ \A s \in Slots : req[s] = Idle
      /\ \A a \in Accounts : status[a] \in {"ACTIVE", "EXPIRED"}
      /\ \A c \in Changes : crmAt[c] = "NONE"
      /\ linked = {} /\ post = {}
  BY DEF CrmBookInit, LedgerInit, Changes, DomainAssumption
<1>3. /\ BlankRow.type = "NONE" /\ BlankRow.quick = "NONE" /\ BlankRow.sched = Never
  BY DEF BlankRow, NewRow, NoForm
<1>4. HandlersHoldTheirRows /\ RoutedOnce
  BY <1>2 DEF HandlersHoldTheirRows, HoldsRow, RoutedOnce, Routing, Idle
<1>5. CrmKnowsRows /\ BookInOrder
  BY <1>2, <1>3 DEF CrmKnowsRows, BookInOrder
<1>6. NoticeIsScheduled /\ NoticeOrCompletion
  BY <1>2, <1>3 DEF NoticeIsScheduled, NoticeOrCompletion, UnderNotice
<1>7. NewTerminationIsBooked /\ WaitingIsUndecided
  BY <1>2 DEF NewTerminationIsBooked, WaitingIsUndecided
<1>8. QED
  BY <1>1, <1>4, <1>5, <1>6, <1>7 DEF CrmBookInvariant

\* The inductive invariant of the NEW book: the table is in order, the CRM knows
\* only rows commit() pushed or ordered, each handler in flight still holds a row
\* of the kind it works on, and the three safety properties hold.
THEOREM CrmBookIsSound == CrmBookSpec => []CrmBookInvariant
<1>1. CrmBookInit => CrmBookInvariant
  BY CrmBookInvariantInit, DomainAssumption
<1>2. CrmBookInvariant /\ [CrmBookNext]_crmBookVars => CrmBookInvariant'
  <2> SUFFICES ASSUME CrmBookInvariant, [CrmBookNext]_crmBookVars
               PROVE  CrmBookInvariant'
    OBVIOUS
  <2> USE DomainAssumption, LedgerAssumption
  <2>1. CrmBookTypeOK'
    BY TypeStep DEF CrmBookInvariant
  <2>2. BookInOrder' /\ CrmKnowsRows'
    BY BookInOrderStep, CrmKnowsRowsStep
  <2>3. HandlersHoldTheirRows' /\ RoutedOnce'
    BY HoldStep
  <2>4. NoticeIsScheduled' /\ NoticeOrCompletion'
    BY NoticeStep
  <2>5. NewTerminationIsBooked' /\ WaitingIsUndecided'
    BY TerminationStep, WaitingStep
  <2>6. QED
    BY <2>1, <2>2, <2>3, <2>4, <2>5 DEF CrmBookInvariant
<1>3. QED
  BY <1>1, <1>2, PTL DEF CrmBookSpec

\* Accounts, rows, handlers in flight and the CRM's side keep their types.
THEOREM CrmBookTypeCorrect == CrmBookSpec => []CrmBookTypeOK
<1>1. CrmBookInvariant => CrmBookTypeOK
  BY DEF CrmBookInvariant
<1>2. QED
  BY <1>1, CrmBookIsSound, PTL

\* Every terminated account of the NEW book has the applied disconnection row the
\* dashboards count, whichever of webhook, sweep and backfill terminated it.
THEOREM NewTerminationsAreBooked == CrmBookSpec => []NewTerminationIsBooked
<1>1. CrmBookInvariant => NewTerminationIsBooked
  BY DEF CrmBookInvariant
<1>2. QED
  BY <1>1, CrmBookIsSound, PTL

\* No account is left waiting for the CRM's admin after the decision.
THEOREM DecisionReleasesAccount == CrmBookSpec => []WaitingIsUndecided
<1>1. CrmBookInvariant => WaitingIsUndecided
  BY DEF CrmBookInvariant
<1>2. QED
  BY <1>1, CrmBookIsSound, PTL

\* An account is left closing, with no termination to come, only by a status of the
\* CRM that comes late or undated, or by a decision on a row that has taken effect.
THEOREM ClosingAccountsAreTimed == CrmBookSpec => ClosingIsTimed
<1>1. CrmBookInvariant /\ [CrmBookNext]_crmBookVars
        => [\A a \in Accounts \ edited' : ClosesByNobody(a)' /\ ~ClosesByNobody(a) =>
              \E s \in Writers : Undated(s) /\ change[req[s].c].acct = a]_crmBookVars
  BY ClosingStep, DomainAssumption, LedgerAssumption
<1>2. QED
  BY <1>1, CrmBookIsSound, PTL DEF CrmBookSpec, ClosingIsTimed

\* No normal disconnection takes effect before its notice has run unless the CRM has
\* completed its order.
THEOREM OnlyTheCrmShortensNotice == CrmBookSpec => []NoticeOrCompletion
<1>1. CrmBookInvariant => NoticeOrCompletion
  BY DEF CrmBookInvariant
<1>2. QED
  BY <1>1, CrmBookIsSound, PTL

\* What ChargeFollowsOrder says of one step.
ChargeStep(a) ==
  arc'[a] # arc[a] =>
    \/ arc'[a] = 0 /\ status'[a] = "TERMINATED"
    \/ \E c \in Raised : /\ change[c].acct = a
                         /\ change[c].newArc = arc'[a]
                         /\ crmAt[c] = "COMPLETED"
    \/ a \in edited' \ edited
    \/ a \in activated' \ activated

LEMMA ChargesStep ==
  ASSUME DomainAssumption, LedgerAssumption, CrmBookInvariant, [CrmBookNext]_crmBookVars,
         NEW a \in CrmLinked
  PROVE  ChargeStep(a)
<1> USE DEF CrmBookInvariant, CrmBookTypeOK, LedgerTypeOK
<1>0. a \in Accounts
  BY DEF DomainAssumption
<1>1. ASSUME arc' = arc
      PROVE  ChargeStep(a)
  BY <1>1 DEF ChargeStep
<1>2. ASSUME NEW s \in Slots, ApplyTx(s)
      PROVE  ChargeStep(a)
  <2>1. PICK c : c = req[s].c
    OBVIOUS
  <2>2. /\ c \in Changes /\ c < nextId /\ MayApply(c)
        /\ change[c].type \in ChangeTypes /\ change[c].acct \in Accounts
    BY <1>2, <2>1, HeldRow DEF ApplyTx, At, HandlersHoldTheirRows, HoldsRow
  <2>3. CASE change[c].type = "DISCONNECTION"
    <3>1. arc' = [arc EXCEPT ![change[c].acct] = 0]
          /\ status' = [status EXCEPT ![change[c].acct] = "TERMINATED"]
      BY <1>2, <2>1, <2>3 DEF ApplyTx, ApplyToAccount
    <3>2. QED
      BY <1>0, <2>2, <3>1 DEF ChargeStep
  <2>4. CASE change[c].type # "DISCONNECTION"
    <3>1. arc' = [arc EXCEPT ![change[c].acct] = change[c].newArc]
      BY <1>2, <2>1, <2>4 DEF ApplyTx, ApplyToAccount
    <3>2. change[c].type \in ChargeTypes
      BY <2>2, <2>4 DEF ChangeTypes
    <3>3. CASE change[c].acct = a
      <4>1. c \in Raised /\ crmAt[c] = "COMPLETED" /\ change[c].newArc = arc'[a]
        BY <1>0, <2>2, <3>1, <3>2, <3>3, Kinds DEF Raised, MayApply
      <4>2. QED
        BY <3>3, <4>1 DEF ChargeStep
    <3>4. CASE change[c].acct # a
      BY <1>0, <3>1, <3>4 DEF ChargeStep
    <3>5. QED
      BY <3>3, <3>4
  <2>5. QED
    BY <2>3, <2>4
<1>3. ASSUME NEW s \in Writers, BackfillTx(s)
      PROVE  ChargeStep(a)
  BY <1>0, <1>3 DEF BackfillTx, ChargeStep
<1>4. ASSUME NEW b \in Accounts, AdminUpdate(b)
      PROVE  ChargeStep(a)
  BY <1>0, <1>4 DEF AdminUpdate, ChargeStep
<1>5. ASSUME NEW b \in Accounts, Reactivate(b)
      PROVE  ChargeStep(a)
  BY <1>0, <1>5 DEF Reactivate, ChargeStep
<1>6. ASSUME NEW s \in Writers, SharedStep(s)
      PROVE  ChargeStep(a)
  BY <1>1, <1>3, <1>6
  DEF SharedStep, CommitRead, CommitTx, AutoRetainFind, AutoRetainTx, RetentionRead, RetainTx,
      BackfillRead
<1>7. ASSUME NEW s \in Writers, NewBookStep(s)
      PROVE  ChargeStep(a)
  <2>1. arc' = arc
    BY <1>7
    DEF NewBookStep, EnterPendingQuickApproval, PushQuick, EnterProbableChurn, RouteArcChange,
        OrderCrm, OrderTx, ProceedOrder, ProceedCrm, Proceed, ProceedTx, RefreshRead,
        SetActivationDate, RefreshTx, ActivationTx, ledgerVars
  <2>2. QED
    BY <1>1, <2>1
<1>8. ASSUME NEW s \in Writers, WebhookStep(s)
      PROVE  ChargeStep(a)
  <2>1. arc' = arc
    BY <1>8
    DEF WebhookStep, DecidedRead, StatusRead, DecidedCrm, DecidedTx, StatusTx, ledgerVars
  <2>2. QED
    BY <1>1, <2>1
<1>9. ASSUME NEW s \in Slots, SweepRead(s) \/ ApplyRead(s)
      PROVE  ChargeStep(a)
  BY <1>1, <1>9 DEF SweepRead, ApplyRead
<1>10. CASE Around
  BY <1>1, <1>4, <1>10 DEF Around, Tick, Restart, BookClosed, CallFails, vars
<1>11. CASE CrmSide
  BY <1>1, <1>5, <1>11 DEF CrmSide, CrmAdminDecides, CrmWorks, vars
<1>12. CASE UNCHANGED crmBookVars
  BY <1>1, <1>12 DEF crmBookVars, vars
<1>13. QED
  BY <1>2, <1>6, <1>7, <1>8, <1>9, <1>10, <1>11, <1>12 DEF CrmBookNext, ApplyStep, Slots

\* The charge of an account the CRM knows moves only with a termination, an ADMIN
\* edit, what the CRM resends, or a change whose order the CRM has completed.
THEOREM ChargesFollowOrders == CrmBookSpec => ChargeFollowsOrder
<1>1. CrmBookInvariant /\ [CrmBookNext]_crmBookVars
        => \A a \in CrmLinked : ChargeStep(a)
  BY ChargesStep, DomainAssumption, LedgerAssumption
<1>2. CrmBookInvariant /\ [CrmBookNext]_crmBookVars
        => [\A a \in CrmLinked : arc'[a] # arc[a] =>
              \/ arc'[a] = 0 /\ status'[a] = "TERMINATED"
              \/ \E c \in Raised : /\ change[c].acct = a
                                   /\ change[c].newArc = arc'[a]
                                   /\ crmAt[c] = "COMPLETED"
              \/ a \in edited' \ edited
              \/ a \in activated' \ activated]_crmBookVars
  BY <1>1 DEF ChargeStep
<1>3. QED
  BY <1>2, CrmBookIsSound, PTL DEF CrmBookSpec, ChargeFollowsOrder

-----------------------------------------------------------------------------
(* The NEW book keeps the contract of ChangeContract                       *)

\* What one step of the NEW book may do as the contract sees it.
ContractAllows == [Contract!ContractNext]_(Contract!contractVars)

\* Nothing a row's customer goes by changes once the row is there.
LEMMA TermsAreKept ==
  ASSUME DomainAssumption, LedgerAssumption, CrmBookInvariant, [CrmBookNext]_crmBookVars,
         nextId' = nextId
  PROVE  AllTerms' = AllTerms
<1>1. ASSUME NEW c \in Changes PROVE TermsOf(c)' = TermsOf(c)
  <2>1. CASE c < nextId
    <3>1. RowKept(c)
      BY <2>1, TheBookGrows
    <3>2. QED
      BY <3>1 DEF RowKept, TermsOf
  <2>2. CASE ~(c < nextId)
    <3>1. ~InsertsRow
      BY DEF InsertsRow, CrmBookInvariant, CrmBookTypeOK, LedgerTypeOK
    <3>2. change'[c] = change[c]
      BY <2>2, <3>1, RowSteps DEF EditsRow, LeavesRows
    <3>3. QED
      BY <3>2 DEF TermsOf
  <2>3. QED
    BY <2>1, <2>2
<1>2. QED
  BY <1>1 DEF AllTerms

\* A row that is there has terms, of its own account and kind.
LEMMA WrittenTerms ==
  ASSUME DomainAssumption, CrmBookInvariant, NEW c \in Changes, c < nextId
  PROVE  /\ AllTerms[c].acct = change[c].acct
         /\ AllTerms[c].kind = KindOf(change[c].type)
         /\ AllTerms[c] # Contract!Unwritten
<1>1. change[c].acct \in Accounts
  BY DEF CrmBookInvariant, BookInOrder
<1>2. QED
  BY <1>1 DEF AllTerms, TermsOf, KindOf, Contract!Unwritten, DomainAssumption

\* A termination that is or comes into effect has served its notice, or the CRM has
\* completed its order.
LEMMA TerminationIsDue ==
  ASSUME DomainAssumption, CrmBookInvariant, NEW c \in Changes, c < nextId,
         change[c].type = "DISCONNECTION",
         UnderNotice(c) => today >= NoticeEnd(c) \/ crmAt[c] = "COMPLETED"
  PROVE  AllTerms[c].from <= today \/ c \in GrantedChanges
<1>1. /\ change[c].raisedOn <= today /\ change[c].mode # "NONE"
      /\ change[c] \in Row
  BY DEF CrmBookInvariant, BookInOrder, CrmBookTypeOK, LedgerTypeOK
<1>2. change[c].mode # "QUICK" => change[c].mode = "NORMAL"
  BY <1>1 DEF Row
<1>3. CASE UnderNotice(c) => today >= NoticeEnd(c)
  BY <1>1, <1>2, <1>3 DEF AllTerms, TermsOf, UnderNotice, NoticeEnd
<1>4. CASE UnderNotice(c) /\ crmAt[c] = "COMPLETED"
  BY <1>4 DEF UnderNotice, GrantedChanges, Raised
<1>5. QED
  BY <1>3, <1>4

\* What EditsRow does to the rest of what the contract sees.
LEMMA EditedView ==
  ASSUME DomainAssumption, LedgerAssumption, CrmBookInvariant, [CrmBookNext]_crmBookVars,
         NEW c \in Changes, EditsRow(c)
  PROVE  /\ AllTerms' = AllTerms /\ GrantedChanges' = GrantedChanges
         /\ change'[c].applied = change[c].applied => InEffect' = InEffect
         /\ change'[c].applied => InEffect' = InEffect \cup {c}
         /\ status'[change[c].acct] # "TERMINATED" => ClosedAccounts' = ClosedAccounts \ {change[c].acct}
         /\ status'[change[c].acct] = "TERMINATED" => ClosedAccounts' = ClosedAccounts \cup {change[c].acct}
<1>1. AllTerms' = AllTerms
  BY TermsAreKept DEF EditsRow
<1>2. GrantedChanges' = GrantedChanges
  BY DEF EditsRow, RowKept, GrantedChanges, Raised
<1>3. /\ change'[c].applied = change[c].applied => InEffect' = InEffect
      /\ change'[c].applied => InEffect' = InEffect \cup {c}
  BY DEF EditsRow, InEffect
<1>4. change[c].acct \in Accounts
  BY DEF EditsRow, CrmBookInvariant, BookInOrder
<1>5. /\ status'[change[c].acct] # "TERMINATED" => ClosedAccounts' = ClosedAccounts \ {change[c].acct}
      /\ status'[change[c].acct] = "TERMINATED" => ClosedAccounts' = ClosedAccounts \cup {change[c].acct}
  BY <1>4 DEF EditsRow, ClosedAccounts
<1>6. QED
  BY <1>1, <1>2, <1>3, <1>5

\* A step that edits a row and moves no charge decides, or terminates.
LEMMA EditIsAllowed ==
  ASSUME DomainAssumption, LedgerAssumption, CrmBookInvariant, [CrmBookNext]_crmBookVars,
         NEW c \in Changes, EditsRow(c), UNCHANGED <<arc, activated>>,
         \/ change'[c].applied = change[c].applied
         \/ /\ change'[c].applied
            /\ change[c].type = "DISCONNECTION"
            /\ status'[change[c].acct] = "TERMINATED"
  PROVE  ContractAllows
<1>1. /\ c < nextId /\ UNCHANGED <<edited, today>>
      /\ change[c].acct \in Accounts /\ arc \in [Accounts -> Nat]
  BY DEF EditsRow, CrmBookInvariant, BookInOrder, CrmBookTypeOK, LedgerTypeOK
<1>2. /\ AllTerms[c].acct = change[c].acct /\ AllTerms[c].kind = KindOf(change[c].type)
      /\ AllTerms[c] # Contract!Unwritten
  BY <1>1, WrittenTerms
<1>3. CASE /\ change'[c].applied
           /\ change[c].type = "DISCONNECTION"
           /\ status'[change[c].acct] = "TERMINATED"
  <2>1. UnderNotice(c) => today >= NoticeEnd(c) \/ crmAt[c] = "COMPLETED"
    <3>1. CASE change[c].applied
      BY <3>1 DEF CrmBookInvariant, NoticeOrCompletion
    <3>2. CASE ~change[c].applied
      BY <1>3, <3>2 DEF EditsRow
    <3>3. QED
      BY <3>1, <3>2
  <2>2. AllTerms[c].from <= today \/ c \in GrantedChanges
    BY <1>1, <1>3, <2>1, TerminationIsDue
  <2>3. arc' = [arc EXCEPT ![AllTerms[c].acct] = arc[AllTerms[c].acct]]
    BY <1>1, <1>2
  <2>4. Contract!Terminate(c)
    BY <1>1, <1>2, <1>3, <2>2, <2>3, EditedView, Kinds DEF Contract!Terminate
  <2>5. QED
    BY <2>4 DEF ContractAllows, Contract!ContractNext
<1>4. CASE /\ change'[c].applied = change[c].applied
           /\ status'[change[c].acct] = "TERMINATED" => status[change[c].acct] = "TERMINATED"
  <2>1. ClosedAccounts' \in {ClosedAccounts, ClosedAccounts \ {AllTerms[c].acct}}
    <3>1. CASE status'[change[c].acct] = "TERMINATED"
      <4>1. change[c].acct \in ClosedAccounts
        BY <1>1, <1>4, <3>1 DEF ClosedAccounts
      <4>2. ClosedAccounts' = ClosedAccounts \cup {change[c].acct}
        BY <3>1, EditedView
      <4>3. QED
        BY <4>1, <4>2
    <3>2. CASE status'[change[c].acct] # "TERMINATED"
      BY <1>2, <3>2, EditedView
    <3>3. QED
      BY <3>1, <3>2
  <2>2. Contract!Decide(c)
    BY <1>1, <1>2, <1>4, <2>1, EditedView DEF Contract!Decide
  <2>3. QED
    BY <2>2 DEF ContractAllows, Contract!ContractNext
<1>5. QED
  BY <1>3, <1>4 DEF EditsRow

\* The steps that edit a row short of its effect.
LEMMA DecidingSteps ==
  ASSUME DomainAssumption, LedgerAssumption, CrmBookInvariant, [CrmBookNext]_crmBookVars,
         NEW s \in Writers,
         \/ (AutoRetainTx(s) \/ RetainTx(s)) /\ UNCHANGED crmVars
         \/ EnterPendingQuickApproval(s) \/ EnterProbableChurn(s) \/ OrderTx(s) \/ RefreshTx(s)
         \/ ActivationTx(s) \/ Proceed(s) \/ DecidedTx(s)
  PROVE  ContractAllows
<1>1. \E c \in Changes : EditsRow(c)
  BY RetentionEdits, NewBookEdits, DecidedEdits
<1>2. UNCHANGED <<arc, activated>>
  BY DEF AutoRetainTx, RetainTx, EnterPendingQuickApproval, EnterProbableChurn, OrderTx, RefreshTx,
         ActivationTx, Proceed, ProceedTx, DecidedTx, crmVars
<1>3. change \in [Changes -> Row]
  BY DEF CrmBookInvariant, CrmBookTypeOK, LedgerTypeOK
<1>4. ASSUME NEW d, NEW row, Write(d, row), d \in Changes => row.applied = change[d].applied
      PROVE  \A c \in Changes : change'[c].applied = change[c].applied
  BY <1>3, <1>4 DEF Write
<1>5. ASSUME NEW d PROVE change[d] \in Row \/ d \notin Changes
  BY <1>3
<1>6. \A c \in Changes : change'[c].applied = change[c].applied
  <2>1. CASE AutoRetainTx(s)
    BY <1>4, <1>5, <2>1 DEF AutoRetainTx, Row
  <2>2. CASE RetainTx(s)
    BY <1>4, <1>5, <2>2 DEF RetainTx, Row
  <2>3. CASE EnterPendingQuickApproval(s)
    BY <2>3 DEF EnterPendingQuickApproval
  <2>4. CASE EnterProbableChurn(s)
    BY <1>4, <1>5, <2>4 DEF EnterProbableChurn, Row
  <2>5. CASE OrderTx(s)
    BY <1>4, <1>5, <2>5 DEF OrderTx, Row
  <2>6. CASE RefreshTx(s)
    BY <1>4, <1>5, <2>6 DEF RefreshTx, Row
  <2>7. CASE ActivationTx(s)
    BY <1>4, <1>5, <2>7 DEF ActivationTx, Row
  <2>8. CASE Proceed(s)
    BY <1>4, <1>5, <2>8 DEF Proceed, ProceedTx, Row
  <2>9. CASE DecidedTx(s)
    BY <1>4, <1>5, <2>9 DEF DecidedTx, Row
  <2>10. QED
    BY <2>1, <2>2, <2>3, <2>4, <2>5, <2>6, <2>7, <2>8, <2>9
<1>7. QED
  BY <1>1, <1>2, <1>6, EditIsAllowed

\* What the CRM reports of a disconnection decides, or terminates.
LEMMA StatusStepIsAllowed ==
  ASSUME DomainAssumption, LedgerAssumption, CrmBookInvariant, [CrmBookNext]_crmBookVars,
         NEW s \in Writers, StatusTx(s)
  PROVE  ContractAllows
<1>1. PICK d : d = req[s].c
  OBVIOUS
<1>2. /\ d \in Changes /\ d < nextId /\ Raises(d) /\ SaysTruth(d, req[s].crm)
      /\ change[d] \in Row /\ change[d].acct \in Accounts
  BY <1>1, HeldRow DEF StatusTx, At, HandlersHoldTheirRows, HoldsRow, CrmBookInvariant, Slots
<1>3. change[d].type = "DISCONNECTION"
  <2>1. asked[d] # "NONE" \/ change[d].mode = "NORMAL"
    BY <1>2 DEF SaysTruth, Decided
  <2>2. change[d].mode \in {"QUICK", "NORMAL"}
    BY <1>2, <2>1 DEF CrmBookInvariant, CrmKnowsRows
  <2>3. QED
    BY <1>2, <2>2 DEF CrmBookInvariant, BookInOrder
<1>4. /\ change'[d] = RowAfterStatus(change[d], req[s].crm)
      /\ \A c \in Changes \ {d} : change'[c] = change[c]
      /\ status'[change[d].acct] = StatusAfter(req[s].crm, req[s].seen, status[change[d].acct])
  BY <1>1, <1>2, WritesHeldRow DEF StatusTx
<1>5. CASE req[s].crm = "COMPLETED"
  <2>1. change'[d].applied /\ status'[change[d].acct] = "TERMINATED"
    BY <1>2, <1>4, <1>5 DEF RowAfterStatus, StatusAfter, Row
  <2>2. PICK c \in Changes : EditsRow(c)
    BY StatusEdits
  <2>3. UNCHANGED <<arc, activated>>
    BY DEF StatusTx
  <2>4. QED
    BY <1>3, <1>4, <2>1, <2>2, <2>3, EditIsAllowed
<1>6. CASE req[s].crm # "COMPLETED"
  <2>1. change'[d].applied = change[d].applied
    BY <1>2, <1>4, <1>6 DEF RowAfterStatus, Row
  <2>2. PICK c \in Changes : EditsRow(c)
    BY StatusEdits
  <2>3. UNCHANGED <<arc, activated>>
    BY DEF StatusTx
  <2>4. QED
    BY <1>4, <2>1, <2>2, <2>3, EditIsAllowed
<1>7. QED
  BY <1>5, <1>6

\* applyChangeToAccount: a charge the CRM has granted, or a termination that is due.
LEMMA ApplyIsAllowed ==
  ASSUME DomainAssumption, LedgerAssumption, CrmBookInvariant, [CrmBookNext]_crmBookVars,
         NEW s \in Slots, ApplyTx(s), UNCHANGED crmVars
  PROVE  ContractAllows
<1>1. PICK c : c = req[s].c
  OBVIOUS
<1>2. /\ c \in Changes /\ c < nextId /\ MayApply(c)
      /\ change[c] \in Row /\ change[c].acct \in Accounts /\ change[c].type \in ChangeTypes
      /\ change[c].raisedOn <= today
      /\ arc \in [Accounts -> Nat] /\ status \in [Accounts -> ContractStatus]
  BY <1>1, HeldRow DEF ApplyTx, At, HandlersHoldTheirRows, HoldsRow, CrmBookInvariant,
     BookInOrder, CrmBookTypeOK, LedgerTypeOK
<1>3. /\ change'[c] = [change[c] EXCEPT !.applied = TRUE]
      /\ \A d \in Changes \ {c} : change'[d] = change[d]
      /\ UNCHANGED <<nextId, today, edited, activated, crmAt>>
  BY <1>1, <1>2 DEF ApplyTx, Write, CrmBookInvariant, CrmBookTypeOK, LedgerTypeOK, crmVars
<1>4. AllTerms' = AllTerms
  BY <1>3, TermsAreKept
<1>5. InEffect' = InEffect \cup {c}
  BY <1>2, <1>3 DEF InEffect, Row
<1>6. GrantedChanges' = GrantedChanges
  <2>1. /\ change'[c].type = change[c].type /\ change'[c].acct = change[c].acct
        /\ change'[c].mode = change[c].mode
    BY <1>2, <1>3 DEF Row
  <2>2. QED
    BY <1>3, <2>1 DEF GrantedChanges, Raised
<1>7. AllTerms[c].acct = change[c].acct /\ AllTerms[c].kind = KindOf(change[c].type)
  BY <1>2, WrittenTerms
<1>8. CASE change[c].type = "DISCONNECTION"
  <2>1. AllTerms[c].from <= today \/ c \in GrantedChanges
    BY <1>2, <1>8, TerminationIsDue DEF MayApply
  <2>2. /\ status' = [status EXCEPT ![change[c].acct] = "TERMINATED"]
        /\ arc' = [arc EXCEPT ![change[c].acct] = 0]
    BY <1>1, <1>8 DEF ApplyTx, ApplyToAccount
  <2>3. ClosedAccounts' = ClosedAccounts \cup {change[c].acct}
    BY <1>2, <2>2 DEF ClosedAccounts
  <2>4. Contract!Terminate(c)
    BY <1>3, <1>4, <1>5, <1>6, <1>7, <1>8, <2>1, <2>2, <2>3, Kinds DEF Contract!Terminate
  <2>5. QED
    BY <1>2, <2>4 DEF ContractAllows, Contract!ContractNext
<1>9. CASE change[c].type \in ChargeTypes
  <2>0. change[c].type # "DISCONNECTION"
    BY <1>9, Kinds
  <2>1. AllTerms[c].from <= today /\ AllTerms[c].charge = change[c].newArc
    BY <1>2, <1>9, <2>0 DEF AllTerms, TermsOf
  <2>2. arc' = [arc EXCEPT ![change[c].acct] = change[c].newArc] /\ UNCHANGED status
    BY <1>1, <2>0 DEF ApplyTx, ApplyToAccount
  <2>3. ClosedAccounts' = ClosedAccounts
    BY <2>2 DEF ClosedAccounts
  <2>4. c \in GrantedChanges
    BY <1>2, <1>9, Kinds DEF MayApply, GrantedChanges, Raised
  <2>5. GrantedChanges' = GrantedChanges \cup {c}
    BY <1>6, <2>4
  <2>6. Contract!ChangeCharge(c)
    BY <1>3, <1>4, <1>5, <1>7, <1>9, <2>1, <2>2, <2>3, <2>5, Kinds DEF Contract!ChangeCharge
  <2>7. QED
    BY <1>2, <2>6 DEF ContractAllows, Contract!ContractNext
<1>10. QED
  BY <1>2, <1>8, <1>9 DEF ChangeTypes

\* commit() writes terms, the backfill records a termination.
LEMMA InsertIsAllowed ==
  ASSUME DomainAssumption, LedgerAssumption, CrmBookInvariant, [CrmBookNext]_crmBookVars,
         NEW s \in Writers, CommitTx(s) \/ BackfillTx(s), UNCHANGED crmVars
  PROVE  ContractAllows
<1> DEFINE c == nextId
           row == change'[c]
<1>1. /\ c \in Changes /\ row.acct \in Accounts /\ row.type \in ChangeTypes
      /\ row.raisedOn = today
      /\ \A d \in Changes \ {c} : change'[d] = change[d]
      /\ UNCHANGED <<edited, today, activated, crmAt>>
  BY Inserts DEF InsertsRow, crmVars
<1>2. /\ change[c] = BlankRow /\ today \in Nat /\ NoticeDays \in Nat
      /\ arc \in [Accounts -> Nat] /\ status \in [Accounts -> ContractStatus]
      /\ row \in Row
  <2>1. CrmBookTypeOK'
    BY TypeStep DEF CrmBookInvariant
  <2>2. row \in Row
    BY <1>1, <2>1 DEF CrmBookTypeOK, LedgerTypeOK
  <2>3. QED
    BY <1>1, <2>2 DEF CrmBookInvariant, BookInOrder, CrmBookTypeOK, LedgerTypeOK, DomainAssumption
<1>3. /\ change[c].type = "NONE" /\ change[c].mode = "NONE" /\ ~change[c].applied
      /\ AllTerms[c] = Contract!Unwritten
  BY <1>1, <1>2, Kinds DEF BlankRow, NewRow, NoForm, AllTerms, TermsOf, Contract!Unwritten
<1>4. AllTerms'[c] \in Contract!Terms /\ AllTerms'[c].from >= today
  <2> DEFINE charge == IF row.type \in ChargeTypes THEN row.newArc ELSE 0
             from == AllTerms'[c].from
  <2>1. AllTerms'[c] = [acct |-> row.acct, kind |-> KindOf(row.type), charge |-> charge, from |-> from]
    BY <1>1 DEF AllTerms, TermsOf, KindOf
  <2>2. from \in Nat /\ from >= today
    BY <1>1, <1>2 DEF AllTerms, TermsOf
  <2>3. /\ charge \in Nat
        /\ KindOf(row.type) \in {"ARC_CHANGE", "DISCONNECTION"}
        /\ KindOf(row.type) # "ARC_CHANGE" => charge = 0
    BY <1>1, <1>2 DEF Row, KindOf, ChangeTypes
  <2> HIDE DEF from, charge
  <2>4. AllTerms'[c] \in Contract!Terms
    BY <1>1, <2>1, <2>2, <2>3 DEF Contract!Terms
  <2>5. QED
    BY <2>2, <2>4 DEF from
<1>5. AllTerms' = [AllTerms EXCEPT ![c] = AllTerms'[c]]
  <2>1. \A d \in Changes \ {c} : AllTerms'[d] = AllTerms[d]
    BY <1>1 DEF AllTerms, TermsOf
  <2>2. QED
    BY <2>1 DEF AllTerms
<1>6. GrantedChanges' \in {GrantedChanges, GrantedChanges \cup {c}}
  <2>1. c \notin GrantedChanges
    BY <1>3, Kinds DEF GrantedChanges, Raised
  <2>2. \A d \in Changes \ {c} : d \in GrantedChanges' <=> d \in GrantedChanges
    BY <1>1 DEF GrantedChanges, Raised
  <2>3. GrantedChanges \subseteq Changes /\ GrantedChanges' \subseteq Changes
    BY DEF GrantedChanges, Raised
  <2>4. QED
    BY <2>1, <2>2, <2>3
<1>7. Contract!Writes(c)
  BY <1>3, <1>4, <1>5, <1>6 DEF Contract!Writes
<1>8. CASE CommitTx(s)
  <2>1. row = NewRow(req[s].a, req[s].form, req[s].arc, today)
    BY <1>1, <1>8 DEF CommitTx, Write, CrmBookInvariant, CrmBookTypeOK, LedgerTypeOK
  <2>2. InEffect' = InEffect
    BY <1>1, <1>3, <2>1 DEF InEffect, NewRow
  <2>3. UNCHANGED <<ClosedAccounts, arc>>
    BY <1>8 DEF CommitTx, ClosedAccounts
  <2>4. Contract!Raise(c)
    BY <1>1, <1>7, <2>2, <2>3 DEF Contract!Raise
  <2>5. QED
    BY <1>1, <2>4 DEF ContractAllows, Contract!ContractNext
<1>9. CASE BackfillTx(s)
  <2>1. PICK effectiveDate \in 0..MaxDay :
          Write(c, BackfilledRow(req[s].a, req[s].arc, today, effectiveDate))
    BY <1>9 DEF BackfillTx
  <2>2. row = BackfilledRow(req[s].a, req[s].arc, today, effectiveDate)
    BY <1>1, <2>1 DEF Write, CrmBookInvariant, CrmBookTypeOK, LedgerTypeOK
  <2>3. /\ row.acct = req[s].a /\ row.type = "DISCONNECTION" /\ row.applied
        /\ row.crm = "BACKFILL_LOCAL"
    BY <2>2 DEF BackfilledRow, NewRow, NormalDisconnection
  <2>4. /\ AllTerms'[c].acct = req[s].a /\ AllTerms'[c].kind = "DISCONNECTION"
        /\ AllTerms'[c].from = today
    BY <1>1, <2>3, Kinds DEF AllTerms, TermsOf
  <2>5. InEffect' = InEffect \cup {c}
    BY <1>1, <2>3 DEF InEffect
  <2>6. ClosedAccounts' = ClosedAccounts \cup {req[s].a} /\ arc' = [arc EXCEPT ![req[s].a] = 0]
    BY <1>1, <1>2, <1>9, <2>3 DEF BackfillTx, ClosedAccounts
  <2>7. Contract!RecordTermination(c)
    BY <1>1, <1>7, <2>4, <2>5, <2>6 DEF Contract!RecordTermination
  <2>8. QED
    BY <1>1, <2>7 DEF ContractAllows, Contract!ContractNext
<1>10. QED
  BY <1>8, <1>9

\* The CRM moves an order: at most it grants the change.
LEMMA OrderIsAllowed ==
  ASSUME DomainAssumption, CrmBookInvariant, CrmRemembers, NEW c \in Changes,
         \A d \in Changes \ {c} : crmAt'[d] = crmAt[d],
         UNCHANGED <<change, status, arc, today, edited, activated>>
  PROVE  ContractAllows
<1>1. UNCHANGED <<AllTerms, InEffect, ClosedAccounts, Raised>>
  BY DEF AllTerms, TermsOf, InEffect, ClosedAccounts, Raised
<1>2. CASE c \in Raised
  <2>1. ASSUME NEW d \in Raised, change[d].type \in ChargeTypes \/ change[d].mode = "NORMAL",
               crmAt[d] = "COMPLETED"
        PROVE  crmAt'[d] = "COMPLETED"
    <3>1. d \in Changes /\ d < nextId
      BY DEF Raised, CrmBookInvariant, BookInOrder, BlankRow, NewRow, NoForm
    <3>2. change[d].mode # "QUICK"
      BY <2>1, <3>1, Kinds DEF CrmBookInvariant, BookInOrder
    <3>3. QED
      BY <2>1, <3>1, <3>2 DEF CrmRemembers
  <2>2. GrantedChanges \subseteq GrantedChanges'
    BY <1>1, <2>1 DEF GrantedChanges
  <2>3. GrantedChanges' \subseteq GrantedChanges \cup {c}
    BY <1>1 DEF GrantedChanges, Raised
  <2>4. GrantedChanges' \in {GrantedChanges, GrantedChanges \cup {c}}
    BY <2>2, <2>3
  <2>5. c < nextId
    BY <1>2 DEF Raised, CrmBookInvariant, BookInOrder, BlankRow, NewRow, NoForm
  <2>6. Contract!Decide(c)
    BY <1>1, <2>4, <2>5, WrittenTerms DEF Contract!Decide
  <2>7. QED
    BY <2>6 DEF ContractAllows, Contract!ContractNext
<1>3. CASE c \notin Raised
  <2>1. GrantedChanges' = GrantedChanges
    BY <1>1, <1>3 DEF GrantedChanges, Raised
  <2>2. QED
    BY <1>1, <2>1 DEF ContractAllows, Contract!contractVars
<1>4. QED
  BY <1>2, <1>3

\* An ADMIN, or the CRM, sets an account right.
LEMMA CorrectionIsAllowed ==
  ASSUME DomainAssumption, CrmBookInvariant, NEW a \in Accounts,
         (AdminUpdate(a) /\ UNCHANGED crmVars) \/ Reactivate(a)
  PROVE  ContractAllows
<1>1. /\ arc \in [Accounts -> Nat] /\ status \in [Accounts -> ContractStatus]
      /\ Arcs \cup {0} \subseteq Nat
  BY DEF CrmBookInvariant, CrmBookTypeOK, LedgerTypeOK, DomainAssumption
<1>2. UNCHANGED <<AllTerms, GrantedChanges, InEffect, today>>
  BY DEF AdminUpdate, Reactivate, AllTerms, TermsOf, GrantedChanges, Raised, InEffect, crmVars
<1>3. (edited \cup activated)' = (edited \cup activated) \cup {a}
  BY DEF AdminUpdate, Reactivate, crmVars
<1>4. arc'[a] \in Nat /\ arc' = [arc EXCEPT ![a] = arc'[a]]
  BY <1>1 DEF AdminUpdate, Reactivate
<1>5. ClosedAccounts' \in {ClosedAccounts \cup {a}, ClosedAccounts \ {a}}
  <2>1. \A b \in Accounts \ {a} : status'[b] = status[b]
    BY <1>1 DEF AdminUpdate, Reactivate
  <2>2. CASE status'[a] = "TERMINATED"
    BY <2>1, <2>2 DEF ClosedAccounts
  <2>3. CASE status'[a] # "TERMINATED"
    BY <2>1, <2>3 DEF ClosedAccounts
  <2>4. QED
    BY <2>2, <2>3
<1>6. Contract!Correct(a)
  BY <1>2, <1>3, <1>4, <1>5 DEF Contract!Correct
<1>7. QED
  BY <1>6 DEF ContractAllows, Contract!ContractNext

\* Every step of the NEW book is a step of the contract, or nothing to it.
LEMMA BookStepIsAllowed ==
  ASSUME DomainAssumption, LedgerAssumption, CrmBookInvariant, [CrmBookNext]_crmBookVars
  PROVE  ContractAllows
<1>a. CrmRemembers
  BY TheCrmRemembers
<1>1. ASSUME UNCHANGED <<change, status, arc, today, edited, activated, crmAt>>
      PROVE  ContractAllows
  BY <1>1 DEF ContractAllows, Contract!contractVars, AllTerms, TermsOf, GrantedChanges, Raised,
              InEffect, ClosedAccounts
<1>2. ASSUME NEW s \in Writers, SharedStep(s), UNCHANGED crmVars
      PROVE  ContractAllows
  <2>1. CASE CommitTx(s) \/ BackfillTx(s)
    BY <1>2, <2>1, InsertIsAllowed
  <2>2. CASE AutoRetainTx(s) \/ RetainTx(s)
    BY <1>2, <2>2, DecidingSteps
  <2>3. CASE \/ \E a \in Accounts, form \in Offered : CommitRead(s, a, form)
             \/ \E c \in Raised, decision \in {"RETAIN", "PROCEED"} : RetentionRead(s, c, decision)
             \/ \E a \in Accounts : BackfillRead(s, a)
             \/ AutoRetainFind(s)
    BY <1>1, <1>2, <2>3 DEF CommitRead, RetentionRead, BackfillRead, AutoRetainFind, crmVars
  <2>4. QED
    BY <1>2, <2>1, <2>2, <2>3 DEF SharedStep
<1>3. ASSUME NEW s \in Writers, OrderCrm(s) \/ ProceedOrder(s) \/ DecidedCrm(s)
      PROVE  ContractAllows
  <2>1. PICK c : c = req[s].c
    OBVIOUS
  <2>2. c \in Changes
    BY <1>3, <2>1, HeldRow
    DEF OrderCrm, ProceedOrder, ProceedCrm, DecidedCrm, At, Slots, CrmBookInvariant
  <2>3. crmAt \in [Changes -> OrderStatus \cup {"NONE"}]
    BY DEF CrmBookInvariant, CrmBookTypeOK
  <2>4. /\ crmAt' \in {crmAt, [crmAt EXCEPT ![c] = IF @ = "NONE" THEN "ORDERED" ELSE @]}
        /\ UNCHANGED <<change, status, arc, today, edited, activated>>
    BY <1>3, <2>1 DEF OrderCrm, ProceedOrder, ProceedCrm, DecidedCrm, TakeOrder
  <2>5. \A d \in Changes \ {c} : crmAt'[d] = crmAt[d]
    BY <2>2, <2>3, <2>4
  <2>6. QED
    BY <1>a, <2>2, <2>4, <2>5, OrderIsAllowed
<1>4. ASSUME NEW c \in Changes,
             CrmAdminDecides(c) \/ CrmWorks(c) \/ \E s \in Writers : SetActivationDate(s, c)
      PROVE  ContractAllows
  <2>1. UNCHANGED <<change, status, arc, today, edited, activated>>
    BY <1>4 DEF CrmAdminDecides, CrmWorks, SetActivationDate, vars, ledgerVars
  <2>2. crmAt' = crmAt \/ \E to : crmAt' = [crmAt EXCEPT ![c] = to]
    BY <1>4 DEF CrmAdminDecides, CrmWorks, SetActivationDate
  <2>3. crmAt \in [Changes -> OrderStatus \cup {"NONE"}]
    BY DEF CrmBookInvariant, CrmBookTypeOK
  <2>4. \A d \in Changes \ {c} : crmAt'[d] = crmAt[d]
    BY <2>2, <2>3
  <2>5. QED
    BY <1>a, <2>1, <2>4, OrderIsAllowed
<1>5. ASSUME NEW s \in Writers, NewBookStep(s)
      PROVE  ContractAllows
  <2>1. CASE \/ EnterPendingQuickApproval(s) \/ EnterProbableChurn(s) \/ OrderTx(s)
             \/ Proceed(s) \/ RefreshTx(s) \/ ActivationTx(s)
    BY <2>1, DecidingSteps
  <2>2. CASE OrderCrm(s) \/ ProceedOrder(s)
    BY <1>3, <2>2
  <2>3. CASE \E c \in Raised : SetActivationDate(s, c)
    BY <1>4, <2>3 DEF Raised
  <2>4. CASE PushQuick(s) \/ RouteArcChange(s) \/ \E c \in Raised : RefreshRead(s, c)
    BY <1>1, <2>4 DEF PushQuick, RouteArcChange, RefreshRead, ledgerVars, crmVars
  <2>5. QED
    BY <1>5, <2>1, <2>2, <2>3, <2>4 DEF NewBookStep
<1>6. ASSUME NEW s \in Writers, WebhookStep(s)
      PROVE  ContractAllows
  <2>1. CASE DecidedTx(s)
    BY <2>1, DecidingSteps
  <2>2. CASE StatusTx(s)
    BY <2>2, StatusStepIsAllowed
  <2>3. CASE DecidedCrm(s)
    BY <1>3, <2>3
  <2>4. CASE \E w \in post : DecidedRead(s, w) \/ StatusRead(s, w)
    BY <1>1, <2>4 DEF DecidedRead, StatusRead, ledgerVars
  <2>5. QED
    BY <1>6, <2>1, <2>2, <2>3, <2>4 DEF WebhookStep
<1>7. ASSUME NEW s \in Slots, ApplyStep(s), UNCHANGED crmVars
      PROVE  ContractAllows
  <2>1. CASE ApplyTx(s)
    BY <1>7, <2>1, ApplyIsAllowed
  <2>2. CASE ApplyRead(s)
    BY <1>1, <1>7, <2>2 DEF ApplyRead, crmVars
  <2>3. QED
    BY <1>7, <2>1, <2>2 DEF ApplyStep
<1>8. ASSUME NEW s \in Readers, SweepRead(s), UNCHANGED crmVars
      PROVE  ContractAllows
  BY <1>1, <1>8 DEF SweepRead, crmVars
<1>9. ASSUME Tick, UNCHANGED crmVars
      PROVE  ContractAllows
  <2>1. UNCHANGED <<AllTerms, GrantedChanges, InEffect, ClosedAccounts, arc, edited, activated>>
    BY <1>9 DEF Tick, AllTerms, TermsOf, GrantedChanges, Raised, InEffect, ClosedAccounts, crmVars
  <2>2. Contract!NextDay
    BY <1>9, <2>1 DEF Tick, Contract!NextDay
  <2>3. QED
    BY <2>2 DEF ContractAllows, Contract!ContractNext
<1>10. ASSUME Around, UNCHANGED crmVars
       PROVE  ContractAllows
  BY <1>1, <1>9, <1>10, CorrectionIsAllowed
  DEF Around, Restart, BookClosed, vars, CallFails, crmVars
<1>11. CASE CrmSide
  BY <1>4, <1>11, CorrectionIsAllowed DEF CrmSide
<1>12. CASE UNCHANGED crmBookVars
  BY <1>1, <1>12 DEF crmBookVars, vars, crmVars
<1>13. QED
  BY <1>2, <1>5, <1>6, <1>7, <1>8, <1>10, <1>11, <1>12 DEF CrmBookNext

LEMMA ContractInitOfBook ==
  ASSUME DomainAssumption, CrmBookInit
  PROVE  Contract!ContractInit
<1>1. /\ change = [c \in Changes |-> BlankRow]
      /\ BlankRow.acct = NoAccount /\ BlankRow.type = "NONE" /\ BlankRow.raisedOn = 0
      /\ ~BlankRow.applied
  BY DEF CrmBookInit, LedgerInit, BlankRow, NewRow, NoForm
<1>2. AllTerms = [c \in Changes |-> Contract!Unwritten]
  BY <1>1, Kinds DEF AllTerms, TermsOf, Contract!Unwritten
<1>3. GrantedChanges = {} /\ InEffect = {}
  BY <1>1 DEF GrantedChanges, Raised, InEffect
<1>4. ClosedAccounts = {} /\ edited \cup activated = {}
  BY DEF CrmBookInit, LedgerInit, ClosedAccounts
<1>5. arc \in [Accounts -> Nat]
  BY DEF CrmBookInit, LedgerInit, DomainAssumption
<1>6. QED
  BY <1>2, <1>3, <1>4, <1>5 DEF CrmBookInit, LedgerInit, Contract!ContractInit

\* The NEW book keeps the contract: each step of its handlers, webhooks, sweeps,
\* refreshes and of the CRM is one ChangeContract allows, or moves nothing the
\* contract speaks of.
THEOREM CrmBookImplementsContract == CrmBookSpec => CrmBookKeepsContract
<1>1. CrmBookInit => Contract!ContractInit
  BY ContractInitOfBook, DomainAssumption
<1>2. CrmBookInvariant /\ [CrmBookNext]_crmBookVars
        => [Contract!ContractNext]_(Contract!contractVars)
  BY BookStepIsAllowed, DomainAssumption, LedgerAssumption DEF ContractAllows
<1>3. QED
  BY <1>1, <1>2, CrmBookIsSound, PTL
  DEF CrmBookSpec, CrmBookKeepsContract, Contract!ContractSpec

Promised ==
  INSTANCE ChangeContractProofs WITH
    terms     <- AllTerms,
    granted   <- GrantedChanges,
    inEffect  <- InEffect,
    charge    <- arc,
    closed    <- ClosedAccounts,
    corrected <- edited \cup activated,
    day       <- today

\* So the NEW book keeps what follows from the contract: no charge changed and no
\* notice cut short without the CRM's completed order, no account closed without
\* its termination, every charge the opening one or what an applied change asks for.
THEOREM CrmBookPromises ==
  ASSUME NEW opening
  PROVE  CrmBookSpec /\ arc = opening
           => /\ []Contract!EffectsAreDue
              /\ []Contract!ClosedOnRecord
              /\ []Contract!ChargeIsExplained(opening)
<1>1. Promised!ContractSpec /\ arc = opening
        => /\ []Promised!EffectsAreDue
           /\ []Promised!ClosedOnRecord
           /\ []Promised!ChargeIsExplained(opening)
  BY Promised!ContractIsSound
<1>2. Contract!ContractInit => Promised!ContractInit
  BY DEF Contract!ContractInit, Promised!ContractInit, Contract!Unwritten, Promised!Unwritten
<1>3. [Contract!ContractNext]_(Contract!contractVars)
        => [Promised!ContractNext]_(Promised!contractVars)
  BY DEF Contract!ContractNext, Promised!ContractNext, Contract!contractVars, Promised!contractVars,
         Contract!Raise, Promised!Raise, Contract!Decide, Promised!Decide,
         Contract!ChangeCharge, Promised!ChangeCharge, Contract!Terminate, Promised!Terminate,
         Contract!RecordTermination, Promised!RecordTermination, Contract!Correct, Promised!Correct,
         Contract!NextDay, Promised!NextDay, Contract!Writes, Promised!Writes,
         Contract!Unwritten, Promised!Unwritten, Contract!Terms, Promised!Terms
<1>4. /\ Promised!EffectsAreDue => Contract!EffectsAreDue
      /\ Promised!ClosedOnRecord => Contract!ClosedOnRecord
      /\ Promised!ChargeIsExplained(opening) => Contract!ChargeIsExplained(opening)
  BY DEF Promised!EffectsAreDue, Contract!EffectsAreDue, Promised!ClosedOnRecord,
         Contract!ClosedOnRecord, Promised!ChargeIsExplained, Contract!ChargeIsExplained
<1>5. QED
  BY <1>1, <1>2, <1>3, <1>4, CrmBookImplementsContract, PTL
  DEF CrmBookKeepsContract, Contract!ContractSpec, Promised!ContractSpec
-----------------------------------------------------------------------------
(* The waterfall of the NEW book reconciles                                *)

\* Nothing of the NEW book is ever in the approval chain.
OutsideTheChain ==
  /\ \A a \in Accounts : status[a] # "PENDING_APPROVAL"
  /\ \A c \in Raised : change[c].stage = "NOT_REQUIRED"

LEMMA OutsideTheChainStep ==
  ASSUME DomainAssumption, LedgerAssumption, CrmBookInvariant, [CrmBookNext]_crmBookVars,
         OutsideTheChain
  PROVE  OutsideTheChain'
<1>a. status \in [Accounts -> ContractStatus]
  BY DEF CrmBookInvariant, CrmBookTypeOK, LedgerTypeOK
<1>1. CASE InsertsRow
  <2>1. \A c \in Raised' : c = nextId \/ (c \in Raised /\ change'[c] = change[c])
    BY <1>1 DEF InsertsRow, Raised
  <2>2. \A a \in Accounts : status'[a] \in {status[a], "TERMINATED"}
    BY <1>1, <1>a DEF InsertsRow
  <2>3. QED
    BY <1>1, <2>1, <2>2 DEF InsertsRow, OutsideTheChain
<1>2. ASSUME NEW c \in Changes, EditsRow(c) PROVE OutsideTheChain'
  <2>1. \A d \in Raised' : d \in Raised /\ change'[d].stage = change[d].stage
    BY <1>2 DEF EditsRow, RowKept, Raised
  <2>2. \A a \in Accounts : status'[a] = "PENDING_APPROVAL" => status[a] = "PENDING_APPROVAL"
    BY <1>2 DEF EditsRow
  <2>3. QED
    BY <2>1, <2>2 DEF OutsideTheChain
<1>3. CASE LeavesRows
  <2>1. Raised' = Raised /\ change' = change
    BY <1>3 DEF LeavesRows, Raised
  <2>2. \A a \in Accounts : status'[a] = status[a] \/ status'[a] # "PENDING_APPROVAL"
    BY <1>3, <1>a DEF LeavesRows, AdminUpdate
  <2>3. QED
    BY <2>1, <2>2 DEF OutsideTheChain
<1>4. QED
  BY <1>1, <1>2, <1>3, RowSteps

LEMMA BookRowsMove ==
  ASSUME DomainAssumption, LedgerAssumption, CrmBookInvariant, [CrmBookNext]_crmBookVars
  PROVE  RowsMove
<1>1. ASSUME NEW c \in Raised
      PROVE  /\ c \in Raised'
             /\ change'[c].acct = change[c].acct
             /\ change'[c].type = change[c].type
             /\ change'[c].oldArc = change[c].oldArc
             /\ change'[c].newArc = change[c].newArc
             /\ change[c].applied => change'[c].applied
  BY RaisedRows DEF RowKept
<1>2. ASSUME NEW c \in Raised', c \notin Raised
      PROVE  \E s \in Inserting : req[s].a = change'[c].acct /\ req[s].arc = change'[c].oldArc
  <2>1. c \in Changes /\ change[c].type = "NONE" /\ change'[c].type # "NONE"
    BY <1>2 DEF Raised
  <2>2. ~LeavesRows /\ ~\E d \in Changes : EditsRow(d)
    BY <2>1 DEF LeavesRows, EditsRow, RowKept
  <2>3. InsertsRow /\ c = nextId
    BY <2>1, <2>2, RowSteps DEF InsertsRow
  <2>4. QED
    BY <2>3 DEF InsertsRow
<1>3. QED
  BY <1>1, <1>2 DEF RowsMove

\* A handler moved on to one of the awaits that insert nothing.
LEMMA OtherAwaits ==
  ASSUME NEW q \in Request, NEW pc, pc \notin {"commitTx", "backfillTx"},
         NEW c, NEW due, NEW crm
  PROVE  /\ [q EXCEPT !.pc = pc].pc = pc
         /\ [q EXCEPT !.pc = pc, !.due = due].pc = pc
         /\ [q EXCEPT !.pc = pc, !.c = c].pc = pc
         /\ [q EXCEPT !.pc = pc, !.c = c, !.due = due].pc = pc
         /\ [q EXCEPT !.pc = pc, !.crm = crm].pc = pc
         /\ [q EXCEPT !.due = due].pc = q.pc
BY DEF Request

LEMMA SharedReadsMove ==
  ASSUME LedgerAssumption, req \in [Slots -> Request], NEW s \in Slots,
         SharedStep(s) \/ SweepRead(s) \/ ApplyStep(s)
  PROVE  ReadsMove
<1>a. req[s] \in Request /\ Idle.pc = "idle"
  BY DEF Idle
<1>1. ASSUME NEW a, NEW form, CommitRead(s, a, form) PROVE ReadsMove
  BY <1>1, CallReads DEF CommitRead, Start, Idle
<1>2. ASSUME NEW a, BackfillRead(s, a) PROVE ReadsMove
  BY <1>2, CallReads DEF BackfillRead, Start, Idle
<1>3. ASSUME NEW c, NEW decision, RetentionRead(s, c, decision) PROVE ReadsMove
  <2>1. CASE decision = "RETAIN"
    BY <1>3, <2>1, CallReads DEF RetentionRead, Start, Idle
  <2>2. CASE decision # "RETAIN"
    BY <1>3, <2>2, CallReads DEF RetentionRead, Start, Idle
  <2>3. QED
    BY <2>1, <2>2
<1>4. CASE CommitTx(s)
  BY <1>4, CallReads DEF CommitTx, Idle
<1>5. CASE AutoRetainFind(s)
  <2>1. \/ Resume(s, [req[s] EXCEPT !.pc = "route"])
        \/ \E c \in Changes : Resume(s, [req[s] EXCEPT !.pc = "autoRetainTx", !.due = {c}])
    BY <1>5 DEF AutoRetainFind, Undecided, Raised
  <2>2. /\ [req[s] EXCEPT !.pc = "route"].pc = "route"
        /\ \A c \in Changes : [req[s] EXCEPT !.pc = "autoRetainTx", !.due = {c}].pc = "autoRetainTx"
    BY <1>a, OtherAwaits
  <2>3. QED
    BY <2>1, <2>2, CallReads
<1>6. CASE AutoRetainTx(s)
  <2>1. [req[s] EXCEPT !.pc = "route", !.due = {}].pc = "route"
    BY <1>a, OtherAwaits
  <2>2. QED
    BY <1>6, <2>1, CallReads DEF AutoRetainTx
<1>7. CASE RetainTx(s) \/ BackfillTx(s)
  BY <1>7, <1>a, CallReads DEF RetainTx, BackfillTx, Finish
<1>8. CASE SweepRead(s)
  BY <1>8, CallReads DEF SweepRead, Start, Idle
<1>9. CASE ApplyRead(s)
  <2>1. PICK c \in req[s].due :
          LET rest == req[s].due \ {c} IN
          Resume(s, IF ~change[c].applied
                    THEN [req[s] EXCEPT !.pc = "applyTx", !.c = c, !.due = rest]
                    ELSE IF rest = {} THEN Idle
                    ELSE [req[s] EXCEPT !.due = rest])
    BY <1>9 DEF ApplyRead
  <2>2. PICK rest : rest = req[s].due \ {c}
    OBVIOUS
  <2>3. /\ [req[s] EXCEPT !.pc = "applyTx", !.c = c, !.due = rest].pc = "applyTx"
        /\ [req[s] EXCEPT !.due = rest].pc = "sweep"
    BY <1>9, <1>a, OtherAwaits DEF ApplyRead, At
  <2>4. QED
    BY <1>a, <2>1, <2>2, <2>3, CallReads
<1>10. CASE ApplyTx(s)
  <2>1. [req[s] EXCEPT !.pc = "sweep", !.c = 0].pc = "sweep"
    BY <1>a, OtherAwaits
  <2>2. QED
    BY <1>10, <1>a, <2>1, CallReads DEF ApplyTx
<1>11. QED
  BY <1>1, <1>2, <1>3, <1>4, <1>5, <1>6, <1>7, <1>8, <1>9, <1>10 DEF SharedStep, ApplyStep

LEMMA NewBookReadsMove ==
  ASSUME req \in [Slots -> Request], NEW s \in Slots, NewBookStep(s) \/ WebhookStep(s)
  PROVE  ReadsMove
<1>a. req[s] \in Request /\ Idle.pc = "idle"
  BY DEF Idle
<1>1. ASSUME Finish(s) PROVE ReadsMove
  BY <1>1, <1>a, CallReads DEF Finish
<1>2. CASE \/ PushQuick(s) \/ EnterProbableChurn(s) \/ OrderTx(s) \/ Proceed(s)
           \/ DecidedTx(s) \/ StatusTx(s)
  BY <1>1, <1>2
  DEF PushQuick, EnterProbableChurn, OrderTx, Proceed, ProceedTx, DecidedTx, StatusTx
<1>3. CASE EnterPendingQuickApproval(s)
  <2>1. [req[s] EXCEPT !.pc = "push"].pc = "push"
    BY <1>a, OtherAwaits
  <2>2. QED
    BY <1>3, <1>a, <2>1, CallReads DEF EnterPendingQuickApproval
<1>4. CASE RouteArcChange(s)
  <2>1. /\ [req[s] EXCEPT !.pc = "sweep", !.due = {req[s].c}].pc = "sweep"
        /\ [req[s] EXCEPT !.pc = "orderCrm"].pc = "orderCrm"
    BY <1>a, OtherAwaits
  <2>2. QED
    BY <1>4, <1>a, <2>1, CallReads DEF RouteArcChange
<1>5. CASE OrderCrm(s)
  <2>1. [req[s] EXCEPT !.pc = "orderTx"].pc = "orderTx"
    BY <1>a, OtherAwaits
  <2>2. Resume(s, [req[s] EXCEPT !.pc = "orderTx"]) \/ Finish(s)
    BY <1>5 DEF OrderCrm
  <2>3. QED
    BY <1>1, <2>1, <2>2, CallReads
<1>6. CASE ProceedOrder(s) \/ DecidedCrm(s)
  <2>1. \E mark \in {"ORDERED", "FAILED"} :
          \/ Resume(s, [req[s] EXCEPT !.pc = "proceedTx", !.crm = mark])
          \/ Resume(s, [req[s] EXCEPT !.pc = "decidedTx", !.crm = mark])
    BY <1>6 DEF ProceedOrder, ProceedCrm, DecidedCrm
  <2>2. \A mark \in {"ORDERED", "FAILED"} :
          /\ [req[s] EXCEPT !.pc = "proceedTx", !.crm = mark].pc = "proceedTx"
          /\ [req[s] EXCEPT !.pc = "decidedTx", !.crm = mark].pc = "decidedTx"
    BY <1>a, OtherAwaits
  <2>3. QED
    BY <2>1, <2>2, CallReads
<1>7. ASSUME NEW c, RefreshRead(s, c) \/ SetActivationDate(s, c) PROVE ReadsMove
  <2>1. CASE RefreshRead(s, c)
    BY <2>1, CallReads DEF RefreshRead, Start, Idle
  <2>2. CASE SetActivationDate(s, c) /\ UNCHANGED req
    BY <2>2 DEF ReadsMove, Inserting
  <2>3. CASE SetActivationDate(s, c) /\ ~UNCHANGED req
    BY <2>3, CallReads DEF SetActivationDate, Idle
  <2>4. QED
    BY <1>7, <2>1, <2>2, <2>3
<1>8. CASE RefreshTx(s) \/ ActivationTx(s)
  <2>1. [req[s] EXCEPT !.pc = "sweep", !.due = {req[s].c}].pc = "sweep"
    BY <1>a, OtherAwaits
  <2>2. \/ Resume(s, [req[s] EXCEPT !.pc = "sweep", !.due = {req[s].c}])
        \/ Finish(s)
    BY <1>8 DEF RefreshTx, ActivationTx, Finish
  <2>3. QED
    BY <1>1, <2>1, <2>2, CallReads
<1>9. ASSUME NEW w, DecidedRead(s, w) PROVE ReadsMove
  BY <1>9, CallReads DEF DecidedRead, Start, Idle
<1>10. ASSUME NEW w, StatusRead(s, w) PROVE ReadsMove
  BY <1>10, CallReads DEF StatusRead, Start, Idle
<1>11. QED
  BY <1>2, <1>3, <1>4, <1>5, <1>6, <1>7, <1>8, <1>9, <1>10 DEF NewBookStep, WebhookStep

LEMMA BookReadsMove ==
  ASSUME LedgerAssumption, CrmBookInvariant, [CrmBookNext]_crmBookVars
  PROVE  ReadsMove
<1>a. req \in [Slots -> Request] /\ Writers \subseteq Slots /\ Readers \subseteq Slots
  BY DEF CrmBookInvariant, CrmBookTypeOK, LedgerTypeOK, Slots
<1>1. ASSUME UNCHANGED req PROVE ReadsMove
  BY <1>1 DEF ReadsMove, Inserting
<1>2. CASE Around
  <2>1. ASSUME NEW s \in Slots, CallFails(s) PROVE ReadsMove
    BY <1>a, <2>1, CallReads DEF CallFails, Finish, Idle
  <2>2. CASE Restart
    <3>1. Inserting' = {}
      BY <1>a, <2>2 DEF Restart, Inserting, Idle
    <3>2. QED
      BY <3>1 DEF ReadsMove
  <2>3. QED
    BY <1>1, <1>2, <2>1, <2>2 DEF Around, Tick, BookClosed, vars, AdminUpdate
<1>3. CASE CrmSide
  BY <1>1, <1>3 DEF CrmSide, Reactivate, CrmAdminDecides, CrmWorks, vars
<1>4. CASE UNCHANGED crmBookVars
  BY <1>1, <1>4 DEF crmBookVars, vars
<1>5. QED
  BY <1>a, <1>2, <1>3, <1>4, SharedReadsMove, NewBookReadsMove DEF CrmBookNext

\* A change in effect on an account is one the contract knows.
LEMMA EffectsInContract ==
  ASSUME DomainAssumption, BookInOrder, NEW a \in Accounts
  PROVE  EffectsOn(a) = {c \in InEffect : AllTerms[c].acct = a}
<1>1. ASSUME NEW c \in Changes, change[c].acct = a PROVE c \in Raised
  <2>1. c < nextId
    BY <1>1 DEF BookInOrder, BlankRow, NewRow, DomainAssumption
  <2>2. QED
    BY <2>1 DEF BookInOrder, ChangeTypes, ChargeTypes, Raised
<1>2. \A c \in Changes : AllTerms[c].acct = change[c].acct
  BY DEF AllTerms, TermsOf
<1>3. QED
  BY <1>1, <1>2 DEF EffectsOn, InEffect, Raised

LEMMA BookChargeMoves ==
  ASSUME DomainAssumption, LedgerAssumption, CrmBookInvariant, CrmBookInvariant',
         [CrmBookNext]_crmBookVars, NEW a \in Accounts \ (edited' \cup activated')
  PROVE  a \notin edited \cup activated /\ ChargeMoves(a, ChargeTypes)
<1> DEFINE Goal == a \notin edited \cup activated /\ ChargeMoves(a, ChargeTypes)
<1>a. ContractAllows
  BY BookStepIsAllowed
<1>b. /\ arc \in [Accounts -> Nat]
      /\ EffectsOn(a) = {c \in InEffect : AllTerms[c].acct = a}
      /\ EffectsOn(a)' = {c \in InEffect' : AllTerms'[c].acct = a}
      /\ \A c \in EffectsOn(a)' : /\ TermsOf(c)'.charge = AllTerms'[c].charge
                                  /\ KindOf(change'[c].type) = AllTerms'[c].kind
      /\ InEffect \subseteq Changes
  <2>1. EffectsOn(a) = {c \in InEffect : AllTerms[c].acct = a}
    BY EffectsInContract DEF CrmBookInvariant
  <2>2. EffectsOn(a)' = {c \in InEffect' : AllTerms'[c].acct = a}
    <3>1. ASSUME NEW c \in Changes, change'[c].acct = a PROVE c \in Raised'
      <4>1. c < nextId'
        BY <3>1 DEF CrmBookInvariant, BookInOrder, BlankRow, NewRow, DomainAssumption
      <4>2. QED
        BY <4>1 DEF CrmBookInvariant, BookInOrder, ChangeTypes, ChargeTypes, Raised
    <3>2. \A c \in Changes : AllTerms'[c].acct = change'[c].acct
      BY DEF AllTerms, TermsOf
    <3>3. QED
      BY <3>1, <3>2 DEF EffectsOn, InEffect, Raised
  <2>3. \A c \in EffectsOn(a)' : TermsOf(c)'.charge = AllTerms'[c].charge
    BY DEF EffectsOn, Raised, AllTerms
  <2>4. \A c \in EffectsOn(a)' : KindOf(change'[c].type) = AllTerms'[c].kind
    BY DEF EffectsOn, Raised, AllTerms, TermsOf, KindOf
  <2>5. QED
    BY <2>1, <2>2, <2>3, <2>4 DEF InEffect, CrmBookInvariant, CrmBookTypeOK, LedgerTypeOK
<1>c. \A c \in InEffect : AllTerms[c] # Contract!Unwritten
  <2> SUFFICES ASSUME NEW c \in InEffect PROVE AllTerms[c] # Contract!Unwritten
    OBVIOUS
  <2>1. c \in Changes /\ change[c].applied
    BY DEF InEffect
  <2>2. c < nextId
    BY <2>1 DEF CrmBookInvariant, BookInOrder, BlankRow, NewRow
  <2>3. QED
    BY <2>1, <2>2, WrittenTerms
<1>d. edited' \cup activated' = (edited \cup activated)'
  OBVIOUS
\* One change takes effect; the charge moves as its terms ask, or a termination
\* leaves it.
<1>1. ASSUME (edited \cup activated)' = edited \cup activated,
             NEW c \in InEffect', InEffect' \subseteq InEffect \cup {c},
             \A d \in InEffect' \ {c} : AllTerms'[d] = AllTerms[d],
             \/ arc'[a] = AllTerms'[c].charge
             \/ arc'[a] = arc[a] /\ (AllTerms'[c].acct # a \/ AllTerms'[c].kind = "DISCONNECTION"),
             AllTerms'[c].acct = a \/ arc'[a] = arc[a]
      PROVE  Goal
  <2>1. \A d \in EffectsOn(a)' \ EffectsOn(a) : d = c
    BY <1>1, <1>b
  <2>2. arc'[a] # arc[a] => \E d \in EffectsOn(a)' : arc'[a] = TermsOf(d)'.charge
    BY <1>1, <1>b
  <2>3. \A d \in EffectsOn(a)' \ EffectsOn(a) :
          change'[d].type \in ChargeTypes => arc'[a] = TermsOf(d)'.charge
    BY <1>1, <1>b, <2>1, Kinds
  <2>4. QED
    BY <1>1, <2>2, <2>3 DEF ChargeMoves
\* None does.
<1>2. ASSUME edited \cup activated \subseteq (edited \cup activated)', InEffect' = InEffect,
             arc'[a] = arc[a], \A d \in InEffect : AllTerms'[d] = AllTerms[d]
      PROVE  Goal
  BY <1>2, <1>b DEF ChargeMoves
<1>3. ASSUME NEW c \in Changes, Contract!Writes(c)
      PROVE  /\ c \notin InEffect
             /\ \A d \in Changes \ {c} : AllTerms'[d] = AllTerms[d]
             /\ AllTerms'[c].kind = "DISCONNECTION" => AllTerms'[c].charge = 0
  <2>1. c \notin InEffect
    BY <1>3, <1>c DEF Contract!Writes
  <2>2. \A d \in Changes \ {c} : AllTerms'[d] = AllTerms[d]
    BY <1>3 DEF Contract!Writes, AllTerms
  <2>3. QED
    BY <2>1, <2>2 DEF AllTerms, TermsOf
<1>4. ASSUME NEW c \in Changes, Contract!Raise(c) PROVE Goal
  BY <1>2, <1>3, <1>4, <1>b DEF Contract!Raise
<1>5. ASSUME NEW c \in Changes, Contract!Decide(c) PROVE Goal
  BY <1>2, <1>5 DEF Contract!Decide
<1>6. ASSUME NEW c \in Changes, Contract!ChangeCharge(c) PROVE Goal
  <2>1. IF AllTerms[c].acct = a THEN arc'[a] = AllTerms[c].charge ELSE arc'[a] = arc[a]
    BY <1>6, <1>b DEF Contract!ChangeCharge
  <2>2. QED
    BY <1>1, <1>6, <2>1 DEF Contract!ChangeCharge
<1>7. ASSUME NEW c \in Changes, Contract!Terminate(c) PROVE Goal
  <2>1. AllTerms' = AllTerms /\ AllTerms[c].kind = "DISCONNECTION" /\ AllTerms[c].charge = 0
    BY <1>7 DEF Contract!Terminate, AllTerms, TermsOf
  <2>2. IF AllTerms[c].acct = a THEN arc'[a] \in {0, arc[a]} ELSE arc'[a] = arc[a]
    BY <1>7, <1>b DEF Contract!Terminate
  <2>3. QED
    BY <1>1, <1>7, <2>1, <2>2 DEF Contract!Terminate
<1>8. ASSUME NEW c \in Changes, Contract!RecordTermination(c) PROVE Goal
  <2>1. Contract!Writes(c) /\ AllTerms'[c].kind = "DISCONNECTION"
    BY <1>8 DEF Contract!RecordTermination
  <2>2. AllTerms'[c].charge = 0 /\ \A d \in InEffect' \ {c} : AllTerms'[d] = AllTerms[d]
    BY <1>3, <1>8, <1>b, <2>1 DEF Contract!RecordTermination
  <2>3. IF AllTerms'[c].acct = a THEN arc'[a] = 0 ELSE arc'[a] = arc[a]
    BY <1>8, <1>b DEF Contract!RecordTermination
  <2>4. QED
    BY <1>1, <1>8, <2>1, <2>2, <2>3 DEF Contract!RecordTermination
<1>9. ASSUME NEW b \in Accounts, Contract!Correct(b) PROVE Goal
  <2>1. a # b
    BY <1>9 DEF Contract!Correct
  <2>2. arc'[a] = arc[a]
    BY <1>9, <1>b, <2>1 DEF Contract!Correct
  <2>3. QED
    BY <1>2, <1>9, <2>2 DEF Contract!Correct
<1>10. ASSUME Contract!NextDay \/ UNCHANGED Contract!contractVars PROVE Goal
  BY <1>2, <1>10 DEF Contract!NextDay, Contract!contractVars
<1>11. QED
  BY <1>a, <1>4, <1>5, <1>6, <1>7, <1>8, <1>9, <1>10 DEF ContractAllows, Contract!ContractNext

\* Every account nobody corrected is traced to the changes in effect on it; a
\* termination the CRM reports leaves the charge what it was.
AccountsAreTraced ==
  /\ OutsideTheChain
  /\ \A a \in Accounts \ (edited \cup activated) : IsTraced(a, ChargeTypes)

LEMMA TracedInit ==
  ASSUME DomainAssumption, CrmBookInit, OpeningBook
  PROVE  AccountsAreTraced
<1>1. Raised = {} /\ Inserting = {}
  BY DEF CrmBookInit, LedgerInit, Raised, BlankRow, NewRow, NoForm, Inserting, Slots, Idle
<1>2. OutsideTheChain
  BY <1>1 DEF CrmBookInit, LedgerInit, OutsideTheChain
<1>3. QED
  BY <1>1, <1>2 DEF OpeningBook, AccountsAreTraced, IsTraced, AtOpening, EffectsOn

LEMMA TracedStep ==
  ASSUME DomainAssumption, LedgerAssumption, CrmBookInvariant, CrmBookInvariant',
         [CrmBookNext]_crmBookVars, AccountsAreTraced
  PROVE  AccountsAreTraced'
<1>1. OutsideTheChain'
  BY OutsideTheChainStep DEF AccountsAreTraced
<1>2. ASSUME NEW a \in Accounts \ (edited' \cup activated')
      PROVE  IsTraced(a, ChargeTypes)'
  <2>1. a \notin edited \cup activated /\ ChargeMoves(a, ChargeTypes)
    BY BookChargeMoves
  <2>2. RowsMove /\ ReadsMove
    BY BookRowsMove, BookReadsMove
  <2>3. IsTraced(a, ChargeTypes)
    BY <2>1 DEF AccountsAreTraced
  <2>4. QED
    BY <2>1, <2>2, <2>3, StaysTraced
<1>3. QED
  BY <1>1, <1>2 DEF AccountsAreTraced

LEMMA TracedNewBookReconciles ==
  ASSUME DomainAssumption, CrmBookInvariant, AccountsAreTraced
  PROVE  NewWaterfallReconciles
<1> SUFFICES ASSUME activated = {}, edited = {}, OneEffectEach("NEW"),
                    \A c \in Terminations("NEW") : status[change[c].acct] = "TERMINATED"
             PROVE  Reconciles("NEW")
  BY DEF NewWaterfallReconciles, NewBookReconciles
<1>1. /\ Book("NEW") = Accounts \ Base /\ LedgerTypeOK /\ CountedRows("NEW") = RowsOf("NEW")
      /\ RowsOf("NEW") \subseteq Raised
  BY DEF Book, CrmBookInvariant, CrmBookTypeOK, CountedRows, RowsOf
<1>2. ASSUME NEW a \in Book("NEW"), status[a] = "TERMINATED"
      PROVE  \E c \in EffectsOn(a) : change[c].type = "DISCONNECTION"
  BY <1>1, <1>2 DEF CrmBookInvariant, NewTerminationIsBooked, EffectsOn
<1>3. ASSUME NEW a \in Book("NEW") PROVE Traced(a)
  <2>1. IsTraced(a, ChargeTypes) /\ \A c, d \in EffectsOn(a) : c = d
    BY <1>1 DEF AccountsAreTraced, OneEffectEach
  <2>2. EffectsOn(a) = {} => Carried(a) = OpeningArc /\ status[a] # "TERMINATED"
    BY <1>2, <2>1 DEF IsTraced, AtOpening, Carried
  <2>3. ASSUME NEW c \in EffectsOn(a)
        PROVE  /\ change[c].oldArc = OpeningArc
               /\ Carried(a) = IF change[c].type \in ChargeTypes THEN change[c].newArc ELSE 0
               /\ change[c].type \in ChargeTypes => status[a] # "TERMINATED"
    <3>1. MovedOnce(a, c, ChargeTypes)
      <4>1. EffectsOn(a) = {c}
        BY <2>1, <2>3
      <4>2. QED
        BY <2>1, <2>3, <4>1 DEF IsTraced
    <3>2. /\ c \in Raised /\ change[c].acct = a /\ change[c].applied
          /\ change[c].type \in ChangeTypes
      BY <1>1, <2>3, RowNumbers DEF EffectsOn, Raised
    <3>3. change[c].type \in ChargeTypes => status[a] # "TERMINATED"
      BY <1>2, <2>1, <2>3, Kinds
    <3>4. change[c].type = "DISCONNECTION" => status[a] = "TERMINATED"
      BY <1>1, <3>2 DEF Terminations, RowsOf
    <3>5. QED
      BY <3>1, <3>2, <3>3, <3>4 DEF MovedOnce, TermsOf, Carried, ChangeTypes
  <2>4. QED
    BY <2>2, <2>3 DEF Traced
<1>4. \A c \in CountedRows("NEW") : change[c].stage \in {"APPROVED", "NOT_REQUIRED"}
  BY <1>1 DEF AccountsAreTraced, OutsideTheChain
<1>5. RowsInEffect("NEW") \subseteq CountedRows("NEW") /\ Unsettled("NEW") \subseteq CountedRows("NEW")
  BY <1>1 DEF RowsInEffect, Unsettled
<1>6. QED
  BY <1>1, <1>3, <1>4, <1>5, TracedBookReconciles

\* The waterfall of computeNewBase reconciles with the accounts of the NEW book in
\* every state of a book that opens with every account at its opening charge:
\* whatever orders, webhooks, refreshes, retention decisions and sweeps do, in any
\* order, and wherever a handler fails.
THEOREM NewWaterfallIsSound == CrmBookSpec /\ OpeningBook => []NewWaterfallReconciles
<1>1. CrmBookInit /\ OpeningBook => AccountsAreTraced
  BY TracedInit, DomainAssumption
<1>2. CrmBookInvariant /\ CrmBookInvariant' /\ [CrmBookNext]_crmBookVars /\ AccountsAreTraced
        => AccountsAreTraced'
  BY TracedStep, DomainAssumption, LedgerAssumption
<1>3. CrmBookInvariant /\ AccountsAreTraced => NewWaterfallReconciles
  BY TracedNewBookReconciles, DomainAssumption
<1>4. QED
  BY <1>1, <1>2, <1>3, CrmBookIsSound, PTL DEF CrmBookSpec
=============================================================================
