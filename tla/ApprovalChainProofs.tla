------------------------- MODULE ApprovalChainProofs -------------------------
(***************************************************************************)
(* Theorems of ApprovalChain, for any number of accounts, rows, handlers,  *)
(* days and faults, and for any staff.                                     *)
(***************************************************************************)
EXTENDS ApprovalChain, FiguresProofs, TLAPS

-----------------------------------------------------------------------------
(* Types of the records the handlers build                                 *)

LEMMA NewRowType ==
  ASSUME DomainAssumption,
         NEW a \in Accounts \cup {NoAccount}, NEW form \in Forms \cup {NoForm},
         NEW oldArc \in Nat, NEW day \in Nat
  PROVE  NewRow(a, form, oldArc, day) \in Row
<1>1. 0 \in Nat /\ Arcs \subseteq Nat
  BY DEF DomainAssumption
<1>2. form.newArc \in Nat
  <2>1. form.newArc \in Arcs \cup {0}
    BY DEF Forms, NoForm
  <2>2. QED
    BY <1>1, <2>1
<1>3. /\ form.type \in ChangeTypes \cup {"NONE"}
      /\ form.mode \in {"NONE", "NORMAL", "QUICK"}
      /\ form.days \in Nat
  BY DEF Forms, NoForm, ChangeTypes, ChargeTypes, DomainAssumption
<1>4. QED
  BY <1>2, <1>3 DEF NewRow, Row, ApprovalStatus, PendingStages, Days, Never, CrmStatus

LEMMA BackfilledRowType ==
  ASSUME DomainAssumption,
         NEW a \in Accounts, NEW oldArc \in Nat, NEW day \in Nat, NEW effectiveDate \in Nat
  PROVE  BackfilledRow(a, oldArc, day, effectiveDate) \in Row
<1>1. NormalDisconnection \in Forms
  BY DEF NormalDisconnection, Forms
<1>2. NewRow(a, NormalDisconnection, oldArc, day) \in Row
  BY <1>1, NewRowType
<1>3. QED
  BY <1>2 DEF BackfilledRow, Row, Days, CrmStatus

LEMMA IdleType == Idle \in Request
  BY DEF Idle, Request, CrmStatus

LEMMA WriteType ==
  ASSUME change \in [Changes -> Row], NEW c \in Changes, NEW row \in Row, Write(c, row)
  PROVE  change' \in [Changes -> Row]
  BY DEF Write

LEMMA ResumeType ==
  ASSUME req \in [Slots -> Request], NEW s \in Slots, NEW call \in Request, Resume(s, call)
  PROVE  req' \in [Slots -> Request]
  BY DEF Resume

\* A handler goes on: to another await, another row, another rest of its list.
LEMMA CallEdits ==
  ASSUME NEW q \in Request, NEW pc \in {"route", "applyTx", "sweep"},
         NEW c \in Changes \cup {0}, NEW due \in SUBSET Changes
  PROVE  /\ [q EXCEPT !.pc = pc, !.c = c, !.due = due] \in Request
         /\ [q EXCEPT !.pc = pc, !.due = due] \in Request
         /\ [q EXCEPT !.pc = pc, !.c = c] \in Request
         /\ [q EXCEPT !.due = due] \in Request
<1>1. [q EXCEPT !.pc = pc] \in Request
  BY DEF Request
<1>2. \A r \in Request : [r EXCEPT !.c = c] \in Request /\ [r EXCEPT !.due = due] \in Request
  BY DEF Request
<1>3. /\ [[q EXCEPT !.pc = pc] EXCEPT !.c = c] \in Request
      /\ [[q EXCEPT !.pc = pc] EXCEPT !.due = due] \in Request
      /\ [[[q EXCEPT !.pc = pc] EXCEPT !.c = c] EXCEPT !.due = due] \in Request
  BY <1>1, <1>2
<1>4. QED
  BY <1>1, <1>2, <1>3

LEMMA InitType ==
  ASSUME DomainAssumption, Init
  PROVE  TypeOK
<1>1. BlankRow \in Row
  BY NewRowType DEF BlankRow
<1>2. arc \in [Accounts -> Nat]
  BY DEF Init, LedgerInit, DomainAssumption
<1>3. QED
  BY <1>1, <1>2, IdleType DEF Init, LedgerInit, TypeOK, LedgerTypeOK, ContractStatus

\* What a handler that holds a row knows about it.
LEMMA HeldRow ==
  ASSUME TypeOK, RowsInOrder, HandlersHoldRows, NEW s \in Slots,
         req[s].pc \in {"autoRetain", "autoRetainTx", "route", "decideTx", "samQuickTx",
                       "retainTx", "proceedCrm", "proceedTx", "applyTx"}
  PROVE  /\ req[s] \in Request
         /\ req[s].born \in Nat
         /\ req[s].c \in Changes
         /\ req[s].c < nextId
         /\ change[req[s].c] \in Row
         /\ change[req[s].c].acct \in Accounts
         /\ change[req[s].c].type \in ChangeTypes
<1>1. req[s] \in Request /\ req[s].c \in Changes /\ req[s].c < nextId
  BY DEF TypeOK, LedgerTypeOK, HandlersHoldRows, Holds
<1>2. change[req[s].c] \in Row
  BY <1>1 DEF TypeOK, LedgerTypeOK
<1>3. change[req[s].c].acct \in Accounts /\ change[req[s].c].type \in ChangeTypes
  BY <1>1 DEF RowsInOrder
<1>4. QED
  BY <1>1, <1>2, <1>3 DEF Request

\* The stage an approval leads to.
LEMMA NextOfType ==
  ASSUME StagesAreEarned, NEW s \in Slots, At(s, "decideTx")
  PROVE  req[s].seen \in PendingStages /\ NextOf(s) \in PendingStages \cup {"APPROVED"}
<1>1. req[s].seen \in PendingStages
  BY DEF StagesAreEarned, SawEarnedStage, At
<1>2. QED
  BY <1>1 DEF NextOf, NextStage, PendingStages

LEMMA ApprovedType ==
  ASSUME NEW s \in Slots, change[req[s].c] \in Row, req[s].seen \in PendingStages
  PROVE  Approved(s) \in Row
  BY DEF Approved, Row, ApprovalStatus

-----------------------------------------------------------------------------
(* TypeOK is preserved                                                     *)

LEMMA TypeStep ==
  ASSUME DomainAssumption, LedgerAssumption, TypeOK, RowsInOrder, HandlersHoldRows,
         StagesAreEarned, [Next]_vars
  PROVE  TypeOK'
<1> USE IdleType DEF TypeOK, LedgerTypeOK, Slots
<1>1. ASSUME NEW s \in Writers, NEW a \in Base, NEW form \in Offered, CommitRead(s, a, form)
      PROVE  TypeOK'
  <2> DEFINE call == [Idle EXCEPT !.pc = "commitTx", !.a = a, !.form = form,
                                  !.seen = status[a], !.arc = arc[a], !.born = today]
  <2>1. a \in Accounts /\ form \in Forms
    BY DEF DomainAssumption, LedgerAssumption
  <2>2. call \in Request
    BY ZenonT(30), <2>1 DEF Request, Idle
  <2>3. req' \in [Slots -> Request]
    BY <1>1, <2>2, ResumeType DEF CommitRead, Start
  <2>4. QED
    BY <1>1, <2>3 DEF CommitRead
<1>2. ASSUME NEW s \in Writers, NEW c \in Changes, NEW action \in {"APPROVE", "REJECT"},
             DecideRead(s, c, action)
      PROVE  TypeOK'
  <2> DEFINE call == [Idle EXCEPT !.pc = "decideTx", !.c = c, !.seen = change[c].stage,
                                  !.verb = action, !.born = today]
  <2>1. call \in Request
    BY ZenonT(30) DEF Request, Row, Idle
  <2>2. req' \in [Slots -> Request]
    BY <1>2, <2>1, ResumeType DEF DecideRead, Start
  <2>3. QED
    BY <1>2, <2>2 DEF DecideRead
<1>3. ASSUME NEW s \in Writers, NEW c \in Changes, NEW decision \in {"APPROVE", "REJECT"},
             SamQuickRead(s, c, decision)
      PROVE  TypeOK'
  <2> DEFINE call == [Idle EXCEPT !.pc = "samQuickTx", !.c = c, !.verb = decision,
                                  !.born = today]
  <2>1. call \in Request
    BY ZenonT(30) DEF Request, Idle
  <2>2. req' \in [Slots -> Request]
    BY <1>3, <2>1, ResumeType DEF SamQuickRead, Start
  <2>3. QED
    BY <1>3, <2>2 DEF SamQuickRead
<1>4. ASSUME NEW s \in Writers, NEW c \in Changes, NEW decision \in {"RETAIN", "PROCEED"},
             RetentionRead(s, c, decision)
      PROVE  TypeOK'
  <2> DEFINE call(pc) == [Idle EXCEPT !.pc = pc, !.c = c, !.born = today]
  <2>1. \A pc \in {"retainTx", "proceedCrm", "proceedTx"} : call(pc) \in Request
    BY ZenonT(30) DEF Request, Idle
  <2>2. \E pc \in {"retainTx", "proceedCrm", "proceedTx"} : Resume(s, call(pc))
    BY <1>4 DEF RetentionRead, Start
  <2>3. req' \in [Slots -> Request]
    BY <2>1, <2>2, ResumeType
  <2>4. QED
    BY <1>4, <2>3 DEF RetentionRead
<1>5. ASSUME NEW s \in Writers, NEW a \in Base, BackfillRead(s, a)
      PROVE  TypeOK'
  <2> DEFINE call == [Idle EXCEPT !.pc = "backfillTx", !.a = a, !.arc = arc[a], !.born = today]
  <2>1. a \in Accounts
    BY DEF DomainAssumption
  <2>2. call \in Request
    BY ZenonT(30), <2>1 DEF Request, Idle
  <2>3. req' \in [Slots -> Request]
    BY <1>5, <2>2, ResumeType DEF BackfillRead, Start
  <2>4. QED
    BY <1>5, <2>3 DEF BackfillRead
<1>6. ASSUME NEW s \in Writers, CommitTx(s)
      PROVE  TypeOK'
  <2>1. /\ req[s] \in Request
        /\ req[s].a \in Accounts /\ req[s].form \in Forms /\ req[s].arc \in Nat
        /\ nextId \in Changes
    BY <1>6 DEF CommitTx, At, HandlersHoldRows, Holds, Request
  <2>2. NewRow(req[s].a, req[s].form, req[s].arc, today) \in Row
    BY <2>1, NewRowType
  <2>3. change' \in [Changes -> Row]
    BY <1>6, <2>1, <2>2, WriteType DEF CommitTx
  <2>4. \A pc \in {"autoRetain", "route"} :
          [Idle EXCEPT !.pc = pc, !.a = req[s].a, !.c = nextId, !.born = req[s].born] \in Request
    BY ZenonT(30), <2>1 DEF Request, Idle
  <2>5. req' \in [Slots -> Request]
    BY <1>6, <2>4, ResumeType DEF CommitTx
  <2>6. QED
    BY <1>6, <2>3, <2>5 DEF CommitTx
<1>7. ASSUME NEW s \in Writers, AutoRetainFind(s)
      PROVE  TypeOK'
  <2>1. req[s] \in Request
    OBVIOUS
  <2>2. ASSUME NEW D \in SUBSET Changes
        PROVE  \A pc \in {"route", "autoRetainTx"} :
                 [req[s] EXCEPT !.pc = pc, !.due = D] \in Request
    BY <2>1 DEF Request
  <2>3. [req[s] EXCEPT !.pc = "route"] \in Request
    BY <2>1 DEF Request
  <2>4. \E call \in Request : Resume(s, call)
    BY <1>7, <2>2, <2>3 DEF AutoRetainFind, Undecided, Raised
  <2>5. req' \in [Slots -> Request]
    BY <2>4, ResumeType
  <2>6. QED
    BY <1>7, <2>5 DEF AutoRetainFind
<1>8. ASSUME NEW s \in Writers, AutoRetainTx(s)
      PROVE  TypeOK'
  <2>1. PICK c \in req[s].due : /\ Write(c, [change[c] EXCEPT !.retention = "RETAIN"])
                                /\ MoveAccount(c, "ACTIVE")
    BY <1>8 DEF AutoRetainTx
  <2>2. req[s] \in Request /\ c \in Changes
    BY DEF Request
  <2>3. [change[c] EXCEPT !.retention = "RETAIN"] \in Row
    BY <2>2 DEF Row
  <2>4. change' \in [Changes -> Row]
    BY <2>1, <2>2, <2>3, WriteType
  <2>5. [req[s] EXCEPT !.pc = "route", !.due = {}] \in Request
    <3>1. {} \in SUBSET Changes /\ 0 \in Changes \cup {0}
      OBVIOUS
    <3>2. QED
      BY <2>2, <3>1, CallEdits
  <2>6. req' \in [Slots -> Request]
    BY <1>8, <2>5, ResumeType DEF AutoRetainTx
  <2>7. status' \in [Accounts -> ContractStatus]
    BY <2>1 DEF MoveAccount, ContractStatus
  <2>8. QED
    BY <1>8, <2>4, <2>6, <2>7 DEF AutoRetainTx
<1>9. ASSUME NEW s \in Writers, EnterApprovalChain(s)
      PROVE  TypeOK'
  <2>1. req[s].c \in Changes /\ change[req[s].c] \in Row
    BY <1>9, HeldRow DEF EnterApprovalChain, At
  <2>2. [change[req[s].c] EXCEPT !.stage = InitialStage(change[req[s].c].mode)] \in Row
    BY <2>1 DEF Row, InitialStage, ApprovalStatus, PendingStages
  <2>3. change' \in [Changes -> Row]
    BY <1>9, <2>1, <2>2, WriteType DEF EnterApprovalChain
  <2>4. req' \in [Slots -> Request]
    BY <1>9, ResumeType DEF EnterApprovalChain, Finish
  <2>5. status' \in [Accounts -> ContractStatus]
    BY <1>9 DEF EnterApprovalChain, MoveAccount, ContractStatus
  <2>6. QED
    BY <1>9, <2>3, <2>4, <2>5 DEF EnterApprovalChain
<1>10. ASSUME NEW s \in Writers, AdvanceTx(s)
       PROVE  TypeOK'
  <2>1. req[s].c \in Changes /\ change[req[s].c] \in Row
    BY <1>10, HeldRow DEF AdvanceTx, Approving, At
  <2>2. req[s].seen \in PendingStages /\ NextOf(s) \in ApprovalStatus
    BY <1>10, NextOfType DEF AdvanceTx, Approving, ApprovalStatus
  <2>3. [change[req[s].c] EXCEPT !.stage = NextOf(s), !.signed = @ \cup {req[s].seen}] \in Row
    BY <2>1, <2>2 DEF Row
  <2>4. change' \in [Changes -> Row]
    BY <1>10, <2>1, <2>3, WriteType DEF AdvanceTx
  <2>5. req' \in [Slots -> Request]
    BY <1>10, ResumeType DEF AdvanceTx, Finish
  <2>6. QED
    BY <1>10, <2>4, <2>5 DEF AdvanceTx
<1>11. ASSUME NEW s \in Writers, ApproveArcChangeTx(s)
       PROVE  TypeOK'
  <2>1. req[s].c \in Changes /\ change[req[s].c] \in Row
    BY <1>11, HeldRow DEF ApproveArcChangeTx, Approving, At
  <2>2. Approved(s) \in Row
    BY <1>11, <2>1, NextOfType, ApprovedType DEF ApproveArcChangeTx, Approving
  <2>3. [Approved(s) EXCEPT !.applied = TRUE] \in Row
    BY <2>2 DEF Row
  <2>4. change' \in [Changes -> Row]
    BY <1>11, <2>1, <2>3, WriteType DEF ApproveArcChangeTx
  <2>5. req' \in [Slots -> Request]
    BY <1>11, ResumeType DEF ApproveArcChangeTx, Finish
  <2>6. change[req[s].c].newArc \in Nat
    BY <2>1 DEF Row
  <2>7. /\ status' \in [Accounts -> ContractStatus]
        /\ arc' \in [Accounts -> Nat]
    BY <1>11, <2>6 DEF ApproveArcChangeTx, MoveAccount, ContractStatus
  <2>8. QED
    BY <1>11, <2>4, <2>5, <2>7 DEF ApproveArcChangeTx
<1>12. ASSUME NEW s \in Writers, ApproveQuickTx(s)
       PROVE  TypeOK'
  <2>1. req[s].c \in Changes /\ change[req[s].c] \in Row /\ req[s].born \in Nat
    BY <1>12, HeldRow DEF ApproveQuickTx, Approving, At
  <2>2. Approved(s) \in Row
    BY <1>12, <2>1, NextOfType, ApprovedType DEF ApproveQuickTx, Approving
  <2>3. req[s].born + change[req[s].c].days \in Days
    BY <2>1 DEF Row, Days
  <2>4. [Approved(s) EXCEPT !.retention = "PROCEED",
                            !.sched = req[s].born + change[req[s].c].days] \in Row
    BY <2>2, <2>3 DEF Row
  <2>5. change' \in [Changes -> Row]
    BY <1>12, <2>1, <2>4, WriteType DEF ApproveQuickTx
  <2>6. req' \in [Slots -> Request]
    BY <1>12, ResumeType DEF ApproveQuickTx, Finish
  <2>7. status' \in [Accounts -> ContractStatus]
    BY <1>12 DEF ApproveQuickTx, MoveAccount, ContractStatus
  <2>8. QED
    BY <1>12, <2>5, <2>6, <2>7 DEF ApproveQuickTx
<1>13. ASSUME NEW s \in Writers, ApproveDisconnectionTx(s)
       PROVE  TypeOK'
  <2>1. req[s].c \in Changes /\ change[req[s].c] \in Row /\ req[s].born \in Nat
    BY <1>13, HeldRow DEF ApproveDisconnectionTx, Approving, At
  <2>2. Approved(s) \in Row
    BY <1>13, <2>1, NextOfType, ApprovedType DEF ApproveDisconnectionTx, Approving
  <2>3. req[s].born + WindowDays \in Days
    BY <2>1 DEF DomainAssumption, Days
  <2>4. [Approved(s) EXCEPT !.prompt = req[s].born + WindowDays] \in Row
    BY <2>2, <2>3 DEF Row
  <2>5. change' \in [Changes -> Row]
    BY <1>13, <2>1, <2>4, WriteType DEF ApproveDisconnectionTx
  <2>6. req' \in [Slots -> Request]
    BY <1>13, ResumeType DEF ApproveDisconnectionTx, Finish
  <2>7. status' \in [Accounts -> ContractStatus]
    BY <1>13 DEF ApproveDisconnectionTx, MoveAccount, ContractStatus
  <2>8. QED
    BY <1>13, <2>5, <2>6, <2>7 DEF ApproveDisconnectionTx
<1>14. ASSUME NEW s \in Writers, RejectTx(s)
       PROVE  TypeOK'
  <2>1. req[s].c \in Changes /\ change[req[s].c] \in Row
    BY <1>14, HeldRow DEF RejectTx, At
  <2>2. [change[req[s].c] EXCEPT !.stage = "REJECTED"] \in Row
    BY <2>1 DEF Row, ApprovalStatus
  <2>3. change' \in [Changes -> Row]
    BY <1>14, <2>1, <2>2, WriteType DEF RejectTx
  <2>4. req' \in [Slots -> Request]
    BY <1>14, ResumeType DEF RejectTx, Finish
  <2>5. status' \in [Accounts -> ContractStatus]
    BY <1>14 DEF RejectTx, MoveAccount, ContractStatus
  <2>6. QED
    BY <1>14, <2>3, <2>4, <2>5 DEF RejectTx
<1>15. ASSUME NEW s \in Writers, SamQuickApproveTx(s)
       PROVE  TypeOK'
  <2>1. req[s].c \in Changes /\ change[req[s].c] \in Row /\ req[s].born \in Nat
    BY <1>15, HeldRow DEF SamQuickApproveTx, At
  <2>2. req[s].born + change[req[s].c].days \in Days
    BY <2>1 DEF Row, Days
  <2>3. [change[req[s].c] EXCEPT !.quick = "APPROVED", !.retention = "PROCEED",
                                 !.sched = req[s].born + change[req[s].c].days,
                                 !.crm = "SAM_LOCAL_APPROVED"] \in Row
    BY <2>1, <2>2 DEF Row, CrmStatus
  <2>4. change' \in [Changes -> Row]
    BY <1>15, <2>1, <2>3, WriteType DEF SamQuickApproveTx
  <2>5. req' \in [Slots -> Request]
    BY <1>15, ResumeType DEF SamQuickApproveTx, Finish
  <2>6. status' \in [Accounts -> ContractStatus]
    BY <1>15 DEF SamQuickApproveTx, MoveAccount, ContractStatus
  <2>7. QED
    BY <1>15, <2>4, <2>5, <2>6 DEF SamQuickApproveTx
<1>16. ASSUME NEW s \in Writers, SamQuickRejectTx(s)
       PROVE  TypeOK'
  <2>1. req[s].c \in Changes /\ change[req[s].c] \in Row
    BY <1>16, HeldRow DEF SamQuickRejectTx, At
  <2>2. [change[req[s].c] EXCEPT !.quick = "REJECTED", !.retention = "RETAIN",
                                 !.crm = "SAM_LOCAL_REJECTED"] \in Row
    BY <2>1 DEF Row, CrmStatus
  <2>3. change' \in [Changes -> Row]
    BY <1>16, <2>1, <2>2, WriteType DEF SamQuickRejectTx
  <2>4. req' \in [Slots -> Request]
    BY <1>16, ResumeType DEF SamQuickRejectTx, Finish
  <2>5. status' \in [Accounts -> ContractStatus]
    BY <1>16 DEF SamQuickRejectTx, MoveAccount, ContractStatus
  <2>6. QED
    BY <1>16, <2>3, <2>4, <2>5 DEF SamQuickRejectTx
<1>17. ASSUME NEW s \in Writers, RetainTx(s)
       PROVE  TypeOK'
  <2>1. req[s].c \in Changes /\ change[req[s].c] \in Row
    BY <1>17, HeldRow DEF RetainTx, At
  <2>2. [change[req[s].c] EXCEPT !.retention = "RETAIN"] \in Row
    BY <2>1 DEF Row
  <2>3. change' \in [Changes -> Row]
    BY <1>17, <2>1, <2>2, WriteType DEF RetainTx
  <2>4. req' \in [Slots -> Request]
    BY <1>17, ResumeType DEF RetainTx, Finish
  <2>5. status' \in [Accounts -> ContractStatus]
    BY <1>17 DEF RetainTx, MoveAccount, ContractStatus
  <2>6. QED
    BY <1>17, <2>3, <2>4, <2>5 DEF RetainTx
<1>18. ASSUME NEW s \in Writers, ProceedCrm(s)
       PROVE  TypeOK'
  <2>1. req[s] \in Request
    OBVIOUS
  <2>2. \A mark \in {"ORDERED", "FAILED"} :
          [req[s] EXCEPT !.pc = "proceedTx", !.crm = mark] \in Request
    BY ZenonT(30), <2>1 DEF Request, OrderStatus
  <2>3. \E mark \in {"ORDERED", "FAILED"} :
          Resume(s, [req[s] EXCEPT !.pc = "proceedTx", !.crm = mark])
    BY <1>18 DEF ProceedCrm
  <2>4. req' \in [Slots -> Request]
    BY <2>2, <2>3, ResumeType
  <2>5. orders' \in [Changes -> Nat]
    BY <1>18 DEF ProceedCrm
  <2>6. QED
    BY <1>18, <2>4, <2>5 DEF ProceedCrm
<1>19. ASSUME NEW s \in Writers, ProceedTx(s)
       PROVE  TypeOK'
  <2>1. /\ req[s].c \in Changes /\ change[req[s].c] \in Row
        /\ req[s].born \in Nat /\ req[s] \in Request
    BY <1>19, HeldRow DEF ProceedTx, At
  <2> DEFINE mark == IF req[s].crm = "NONE" THEN change[req[s].c].crm ELSE req[s].crm
  <2>2. req[s].born + NoticeDays \in Days /\ mark \in CrmStatus
    BY <2>1 DEF DomainAssumption, Days, Row, Request, CrmStatus
  <2>3. [change[req[s].c] EXCEPT !.retention = "PROCEED",
                                 !.sched = req[s].born + NoticeDays,
                                 !.crm = mark] \in Row
    BY ZenonT(30), <2>1, <2>2 DEF Row
  <2>4. change' \in [Changes -> Row]
    BY <1>19, <2>1, <2>3, WriteType DEF ProceedTx
  <2>5. req' \in [Slots -> Request]
    BY <1>19, ResumeType DEF ProceedTx, Finish
  <2>6. status' \in [Accounts -> ContractStatus]
    BY <1>19 DEF ProceedTx, MoveAccount, ContractStatus
  <2>7. QED
    BY <1>19, <2>4, <2>5, <2>6 DEF ProceedTx
<1>20. ASSUME NEW s \in Writers, BackfillTx(s)
       PROVE  TypeOK'
  <2>1. req[s].a \in Accounts /\ req[s].arc \in Nat /\ nextId \in Changes
    BY <1>20 DEF BackfillTx, At, HandlersHoldRows, Holds, Request
  <2>2. PICK effectiveDate \in 0..MaxDay :
          Write(nextId, BackfilledRow(req[s].a, req[s].arc, today, effectiveDate))
    BY <1>20 DEF BackfillTx
  <2>3. BackfilledRow(req[s].a, req[s].arc, today, effectiveDate) \in Row
    BY <2>1, BackfilledRowType DEF LedgerAssumption
  <2>4. change' \in [Changes -> Row]
    BY <2>1, <2>2, <2>3, WriteType
  <2>5. req' \in [Slots -> Request]
    BY <1>20, ResumeType DEF BackfillTx, Finish
  <2>6. /\ status' \in [Accounts -> ContractStatus]
        /\ arc' \in [Accounts -> Nat]
    BY <1>20 DEF BackfillTx, ContractStatus
  <2>7. QED
    BY <1>20, <2>4, <2>5, <2>6 DEF BackfillTx
<1>21. ASSUME NEW s \in Readers, SweepRead(s)
       PROVE  TypeOK'
  <2>1. [Idle EXCEPT !.pc = "sweep", !.due = Due, !.born = today] \in Request
    BY ZenonT(30) DEF Request, Due, Idle
  <2>2. req' \in [Slots -> Request]
    BY <1>21, <2>1, ResumeType DEF SweepRead, Start
  <2>3. QED
    BY <1>21, <2>2 DEF SweepRead
<1>22. ASSUME NEW s \in Readers, ApplyRead(s)
       PROVE  TypeOK'
  <2>1. req[s] \in Request /\ req[s].due \subseteq Changes
    BY DEF Request
  <2>2. ASSUME NEW c \in req[s].due
        PROVE  /\ [req[s] EXCEPT !.pc = "applyTx", !.c = c, !.due = req[s].due \ {c}] \in Request
               /\ [req[s] EXCEPT !.due = req[s].due \ {c}] \in Request
    <3>1. req[s].due \ {c} \in SUBSET Changes /\ c \in Changes \cup {0}
      BY <2>1
    <3>2. QED
      BY <2>1, <3>1, CallEdits
  <2>3. \E call \in Request : Resume(s, call)
    BY <1>22, <2>2 DEF ApplyRead
  <2>4. req' \in [Slots -> Request]
    BY <2>3, ResumeType
  <2>5. QED
    BY <1>22, <2>4 DEF ApplyRead
<1>23. ASSUME NEW s \in Readers, ApplyTx(s)
       PROVE  TypeOK'
  <2>1. req[s].c \in Changes /\ change[req[s].c] \in Row /\ req[s] \in Request
    BY <1>23, HeldRow DEF ApplyTx, At
  <2>2. [change[req[s].c] EXCEPT !.applied = TRUE] \in Row
    BY <2>1 DEF Row
  <2>3. change' \in [Changes -> Row]
    BY <1>23, <2>1, <2>2, WriteType DEF ApplyTx
  <2>4. [req[s] EXCEPT !.pc = "sweep", !.c = 0] \in Request
    <3>1. {} \in SUBSET Changes /\ 0 \in Changes \cup {0}
      OBVIOUS
    <3>2. QED
      BY <2>1, <3>1, CallEdits
  <2>5. req' \in [Slots -> Request]
    BY <1>23, <2>4, ResumeType DEF ApplyTx
  <2>6. change[req[s].c].newArc \in Nat
    BY <2>1 DEF Row
  <2>7. /\ status' \in [Accounts -> ContractStatus]
        /\ arc' \in [Accounts -> Nat]
    BY <1>23, <2>6 DEF ApplyTx, ApplyToAccount, ContractStatus
  <2>8. QED
    BY <1>23, <2>3, <2>5, <2>7 DEF ApplyTx
<1>24. ASSUME NEW s \in Slots, CallFails(s)
       PROVE  TypeOK'
  BY <1>24, ResumeType DEF CallFails, Finish
<1>25. CASE Restart
  BY <1>25 DEF Restart
<1>26. ASSUME NEW a \in Base, AdminUpdate(a)
       PROVE  TypeOK'
  <2>1. a \in Accounts /\ Arcs \subseteq Nat
    BY DEF DomainAssumption
  <2>2. /\ status' \in [Accounts -> ContractStatus]
        /\ arc' \in [Accounts -> Nat]
    BY <1>26, <2>1 DEF AdminUpdate
  <2>3. QED
    BY <1>26, <2>1, <2>2 DEF AdminUpdate
<1>27. CASE Tick
  BY <1>27 DEF Tick
<1>28. CASE UNCHANGED vars
  BY <1>28 DEF vars
<1>29. QED
  BY <1>1, <1>2, <1>3, <1>4, <1>5, <1>6, <1>7, <1>8, <1>9, <1>10, <1>11, <1>12, <1>13, <1>14,
     <1>15, <1>16, <1>17, <1>18, <1>19, <1>20, <1>21, <1>22, <1>23, <1>24, <1>25, <1>26,
     <1>27, <1>28
  DEF Next, Arrival, WriterStep, ReaderStep, BookClosed
-----------------------------------------------------------------------------
(* How a step treats the rows that are there                               *)

\* The steps that write a row.
RowWrite ==
  \/ \E s \in Writers : \/ CommitTx(s) \/ AutoRetainTx(s) \/ EnterApprovalChain(s)
                        \/ AdvanceTx(s) \/ ApproveArcChangeTx(s) \/ ApproveQuickTx(s)
                        \/ ApproveDisconnectionTx(s) \/ RejectTx(s) \/ SamQuickApproveTx(s)
                        \/ SamQuickRejectTx(s) \/ RetainTx(s) \/ ProceedTx(s) \/ BackfillTx(s)
  \/ \E s \in Readers : ApplyTx(s)

\* Every other step leaves the rows alone, and the accounts but for an ADMIN edit.
LEMMA OtherSteps ==
  ASSUME [Next]_vars
  PROVE  \/ RowWrite
         \/ /\ UNCHANGED <<change, nextId>>
            /\ \/ UNCHANGED <<status, arc, edited>>
               \/ \E a \in Base : AdminUpdate(a)
<1> DEFINE Quiet == UNCHANGED <<change, nextId, status, arc, edited>>
<1>1. ASSUME NEW s \in Writers, Arrival(s) PROVE Quiet
  BY <1>1 DEF Arrival, CommitRead, DecideRead, SamQuickRead, RetentionRead, BackfillRead
<1>2. ASSUME NEW s \in Writers, AutoRetainFind(s) \/ ProceedCrm(s) PROVE Quiet
  BY <1>2 DEF AutoRetainFind, ProceedCrm
<1>3. ASSUME NEW s \in Readers, SweepRead(s) \/ ApplyRead(s) PROVE Quiet
  BY <1>3 DEF SweepRead, ApplyRead
<1>4. ASSUME (\E s \in Slots : CallFails(s)) \/ Restart \/ Tick \/ BookClosed \/ UNCHANGED vars
      PROVE  Quiet
  BY <1>4 DEF CallFails, Restart, Tick, BookClosed, vars
<1>5. ASSUME NEW a \in Base, AdminUpdate(a) PROVE UNCHANGED <<change, nextId>>
  BY <1>5 DEF AdminUpdate
<1>6. QED
  BY <1>1, <1>2, <1>3, <1>4, <1>5 DEF Next, WriterStep, ReaderStep, RowWrite

\* Days only pass.
LEMMA DaysPass ==
  ASSUME TypeOK, [Next]_vars
  PROVE  today' \in Nat /\ today' >= today
<1>1. ASSUME NEW s \in Writers, Arrival(s) PROVE UNCHANGED today
  BY <1>1 DEF Arrival, CommitRead, DecideRead, SamQuickRead, RetentionRead, BackfillRead
<1>2. ASSUME NEW s \in Writers, WriterStep(s) PROVE UNCHANGED today
  BY <1>2 DEF WriterStep, CommitTx, AutoRetainFind, AutoRetainTx, EnterApprovalChain, AdvanceTx,
     ApproveArcChangeTx, ApproveQuickTx, ApproveDisconnectionTx, RejectTx, SamQuickApproveTx,
     SamQuickRejectTx, RetainTx, ProceedCrm, ProceedTx, BackfillTx
<1>3. ASSUME NEW s \in Readers, ReaderStep(s) PROVE UNCHANGED today
  BY <1>3 DEF ReaderStep, SweepRead, ApplyRead, ApplyTx
<1>4. ASSUME (\E s \in Slots : CallFails(s)) \/ Restart \/ (\E a \in Base : AdminUpdate(a))
      PROVE  UNCHANGED today
  BY <1>4 DEF CallFails, Restart, AdminUpdate
<1>5. today \in Nat
  BY DEF TypeOK, LedgerTypeOK
<1>6. QED
  BY <1>1, <1>2, <1>3, <1>4, <1>5 DEF Next, Tick, BookClosed, vars

\* What no step takes back from a row.
RowKept(c) ==
  /\ change'[c].acct = change[c].acct
  /\ change'[c].type = change[c].type
  /\ change'[c].mode = change[c].mode
  /\ change'[c].oldArc = change[c].oldArc
  /\ change'[c].newArc = change[c].newArc
  /\ change'[c].raisedOn = change[c].raisedOn
  /\ change[c].signed \subseteq change'[c].signed
  /\ change[c].applied => change'[c].applied
  /\ change[c].sched # Never => change'[c].sched # Never
  /\ change[c].prompt # Never => change'[c].prompt # Never
  /\ change[c].retention # "NONE" => change'[c].retention # "NONE"
  /\ change[c].crm # "BACKFILL_LOCAL" => change'[c].crm # "BACKFILL_LOCAL"
  /\ change[c].mode # "QUICK" /\ change[c].crm = "BACKFILL_LOCAL"
       => change'[c].crm = "BACKFILL_LOCAL"

\* A step that overwrites one row with an edited copy keeps every row.
LEMMA EditKeepsRows ==
  ASSUME change \in [Changes -> Row], NEW d \in Changes, NEW row, Write(d, row),
         row.acct = change[d].acct, row.type = change[d].type, row.mode = change[d].mode,
         row.oldArc = change[d].oldArc, row.newArc = change[d].newArc,
         row.raisedOn = change[d].raisedOn,
         change[d].signed \subseteq row.signed,
         change[d].applied => row.applied,
         change[d].sched # Never => row.sched # Never,
         change[d].prompt # Never => row.prompt # Never,
         change[d].retention # "NONE" => row.retention # "NONE",
         change[d].crm # "BACKFILL_LOCAL" => row.crm # "BACKFILL_LOCAL",
         change[d].mode # "QUICK" /\ change[d].crm = "BACKFILL_LOCAL"
           => row.crm = "BACKFILL_LOCAL"
  PROVE  \A c \in Changes : RowKept(c)
  BY DEF Write, RowKept

\* Every step keeps the rows that are there.
LEMMA RowsAreKept ==
  ASSUME DomainAssumption, LedgerAssumption, ChainInvariant, [Next]_vars
  PROVE  /\ nextId' \in Nat /\ nextId' >= nextId
         /\ \A c \in Changes : c < nextId => RowKept(c)
<1> USE DEF ChainInvariant, TypeOK, LedgerTypeOK, Slots
<1> DEFINE Kept == /\ nextId' \in Nat /\ nextId' >= nextId
                   /\ \A c \in Changes : c < nextId => RowKept(c)
<1>1. ASSUME NEW s \in Writers, NEW row \in Row, nextId \in Changes,
             Write(nextId, row), nextId' = nextId + 1
      PROVE  Kept
  BY <1>1 DEF Write, RowKept
<1>2. ASSUME NEW s \in Writers, CommitTx(s) PROVE Kept
  <2>1. req[s].a \in Accounts /\ req[s].form \in Forms /\ req[s].arc \in Nat
    BY <1>2 DEF CommitTx, At, HandlersHoldRows, Holds, Request
  <2>2. NewRow(req[s].a, req[s].form, req[s].arc, today) \in Row
    BY <2>1, NewRowType
  <2>3. QED
    BY <1>1, <1>2, <2>2 DEF CommitTx
<1>3. ASSUME NEW s \in Writers, BackfillTx(s) PROVE Kept
  <2>1. req[s].a \in Accounts /\ req[s].arc \in Nat
    BY <1>3 DEF BackfillTx, At, HandlersHoldRows, Holds, Request
  <2>2. PICK effectiveDate \in 0..MaxDay :
          Write(nextId, BackfilledRow(req[s].a, req[s].arc, today, effectiveDate))
    BY <1>3 DEF BackfillTx
  <2>3. BackfilledRow(req[s].a, req[s].arc, today, effectiveDate) \in Row
    BY <2>1, BackfilledRowType DEF LedgerAssumption
  <2>4. QED
    BY <1>1, <1>3, <2>2, <2>3 DEF BackfillTx
<1>4. ASSUME NEW s \in Writers, AutoRetainTx(s) PROVE Kept
  <2>1. PICK c \in req[s].due : Write(c, [change[c] EXCEPT !.retention = "RETAIN"])
    BY <1>4 DEF AutoRetainTx
  <2>2. c \in Changes
    BY DEF Request
  <2>3. change[c] \in Row /\ [change[c] EXCEPT !.retention = "RETAIN"] \in Row
    BY <2>2 DEF Row
  <2> DEFINE row == [change[c] EXCEPT !.retention = "RETAIN"]
  <2>4. /\ row.acct = change[c].acct /\ row.type = change[c].type
        /\ row.mode = change[c].mode /\ row.oldArc = change[c].oldArc
        /\ row.newArc = change[c].newArc /\ row.raisedOn = change[c].raisedOn
        /\ row.signed = change[c].signed /\ row.applied = change[c].applied
        /\ row.sched = change[c].sched /\ row.prompt = change[c].prompt
        /\ row.retention # "NONE" /\ row.crm = change[c].crm
    BY <2>3 DEF Row
  <2>5. Write(c, row)
    BY <2>1
  <2> HIDE DEF row
  <2>6. \A d \in Changes : RowKept(d)
    BY <2>2, <2>4, <2>5, EditKeepsRows
  <2>7. QED
    BY <1>4, <2>6 DEF AutoRetainTx
<1>5. ASSUME NEW s \in Writers,
             \/ EnterApprovalChain(s) \/ AdvanceTx(s) \/ ApproveArcChangeTx(s)
             \/ ApproveQuickTx(s) \/ ApproveDisconnectionTx(s) \/ RejectTx(s)
             \/ SamQuickApproveTx(s) \/ SamQuickRejectTx(s) \/ RetainTx(s) \/ ProceedTx(s)
      PROVE  Kept
  <2>1. At(s, "route") \/ At(s, "decideTx") \/ At(s, "samQuickTx") \/ At(s, "retainTx")
          \/ At(s, "proceedTx")
    BY <1>5 DEF EnterApprovalChain, AdvanceTx, ApproveArcChangeTx, ApproveQuickTx,
       ApproveDisconnectionTx, Approving, RejectTx, SamQuickApproveTx, SamQuickRejectTx,
       RetainTx, ProceedTx
  <2>2. req[s].c \in Changes /\ change[req[s].c] \in Row /\ req[s].born \in Nat
    BY <2>1, HeldRow DEF At
  <2>3. CASE EnterApprovalChain(s)
    BY <2>2, <2>3 DEF EnterApprovalChain, Row, Write, RowKept
  <2>4. CASE AdvanceTx(s)
    BY <2>2, <2>4 DEF AdvanceTx, Row, Write, RowKept
  <2>5. CASE ApproveArcChangeTx(s)
    BY <2>2, <2>5 DEF ApproveArcChangeTx, Approved, Row, Write, RowKept
  <2>6. CASE ApproveQuickTx(s)
    <3>1. req[s].born + change[req[s].c].days # Never
      BY <2>2 DEF Row, Never
    <3> DEFINE row == [change[req[s].c] EXCEPT !.stage = "APPROVED", !.signed = @ \cup {req[s].seen},
                                              !.retention = "PROCEED",
                                              !.sched = req[s].born + change[req[s].c].days]
    <3>2. Write(req[s].c, row)
      BY <2>2, <2>6 DEF ApproveQuickTx, Approved
    <3>3. /\ row.acct = change[req[s].c].acct /\ row.type = change[req[s].c].type
          /\ row.mode = change[req[s].c].mode
          /\ row.oldArc = change[req[s].c].oldArc /\ row.newArc = change[req[s].c].newArc
          /\ row.raisedOn = change[req[s].c].raisedOn /\ row.crm = change[req[s].c].crm
          /\ row.signed = change[req[s].c].signed \cup {req[s].seen}
          /\ row.applied = change[req[s].c].applied
          /\ row.retention = "PROCEED" /\ row.sched # Never
          /\ row.prompt = change[req[s].c].prompt
      BY <2>2, <3>1 DEF Row
    <3> HIDE DEF row
    <3>4. \A d \in Changes : RowKept(d)
      BY <2>2, <3>2, <3>3, EditKeepsRows
    <3>5. QED
      BY <2>6, <3>4 DEF ApproveQuickTx
  <2>7. CASE ApproveDisconnectionTx(s)
    <3>1. req[s].born + WindowDays # Never
      BY <2>2 DEF DomainAssumption, Never
    <3> DEFINE row == [change[req[s].c] EXCEPT !.stage = "APPROVED", !.signed = @ \cup {req[s].seen},
                                              !.prompt = req[s].born + WindowDays]
    <3>2. Write(req[s].c, row)
      BY <2>2, <2>7 DEF ApproveDisconnectionTx, Approved
    <3>3. /\ row.acct = change[req[s].c].acct /\ row.type = change[req[s].c].type
          /\ row.mode = change[req[s].c].mode
          /\ row.oldArc = change[req[s].c].oldArc /\ row.newArc = change[req[s].c].newArc
          /\ row.raisedOn = change[req[s].c].raisedOn /\ row.crm = change[req[s].c].crm
          /\ row.signed = change[req[s].c].signed \cup {req[s].seen}
          /\ row.applied = change[req[s].c].applied
          /\ row.prompt # Never /\ row.sched = change[req[s].c].sched
          /\ row.retention = change[req[s].c].retention
      BY <2>2, <3>1 DEF Row
    <3> HIDE DEF row
    <3>4. \A d \in Changes : RowKept(d)
      BY <2>2, <3>2, <3>3, EditKeepsRows
    <3>5. QED
      BY <2>7, <3>4 DEF ApproveDisconnectionTx
  <2>8. CASE RejectTx(s)
    <3>1. CASE UNCHANGED change
      BY <3>1, <2>8 DEF RowKept, RejectTx
    <3>2. CASE Write(req[s].c, [change[req[s].c] EXCEPT !.stage = "REJECTED"])
      <4> DEFINE row == [change[req[s].c] EXCEPT !.stage = "REJECTED"]
      <4>1. row \in Row
        BY ZenonT(30), <2>2 DEF Row, ApprovalStatus
      <4>2. /\ row.acct = change[req[s].c].acct /\ row.type = change[req[s].c].type
            /\ row.mode = change[req[s].c].mode
            /\ row.oldArc = change[req[s].c].oldArc /\ row.newArc = change[req[s].c].newArc
            /\ row.raisedOn = change[req[s].c].raisedOn /\ row.crm = change[req[s].c].crm
            /\ row.signed = change[req[s].c].signed /\ row.applied = change[req[s].c].applied
            /\ row.sched = change[req[s].c].sched /\ row.prompt = change[req[s].c].prompt
            /\ row.retention = change[req[s].c].retention
        BY <2>2 DEF Row
      <4> HIDE DEF row
      <4>3. \A d \in Changes : RowKept(d)
        BY <2>2, <3>2, <4>1, <4>2, EditKeepsRows DEF row
      <4>4. QED
        BY <2>8, <4>3 DEF RejectTx
    <3>3. QED
      BY <2>8, <3>1, <3>2 DEF RejectTx
  <2>9. CASE SamQuickApproveTx(s)
    <3>1. req[s].born + change[req[s].c].days # Never
      BY <2>2 DEF Row, Never
    <3>2. change[req[s].c].mode = "QUICK"
      BY <2>9 DEF SamQuickApproveTx, At, HandlersHoldRows, Holds
    <3>3. QED
      BY <2>2, <2>9, <3>1, <3>2 DEF SamQuickApproveTx, Row, Write, RowKept
  <2>10. CASE SamQuickRejectTx(s)
    <3>1. change[req[s].c].mode = "QUICK"
      BY <2>10 DEF SamQuickRejectTx, At, HandlersHoldRows, Holds
    <3>2. CASE UNCHANGED change
      BY <3>2, <2>10 DEF RowKept, SamQuickRejectTx
    <3>3. CASE Write(req[s].c, [change[req[s].c] EXCEPT !.quick = "REJECTED",
                                                        !.retention = "RETAIN",
                                                        !.crm = "SAM_LOCAL_REJECTED"])
      <4> DEFINE row == [change[req[s].c] EXCEPT !.quick = "REJECTED", !.retention = "RETAIN",
                                                !.crm = "SAM_LOCAL_REJECTED"]
      <4>1. row \in Row
        BY ZenonT(30), <2>2 DEF Row, CrmStatus
      <4>2. /\ row.retention = "RETAIN" /\ row.crm = "SAM_LOCAL_REJECTED"
            /\ row.acct = change[req[s].c].acct /\ row.type = change[req[s].c].type
            /\ row.mode = change[req[s].c].mode
            /\ row.oldArc = change[req[s].c].oldArc /\ row.newArc = change[req[s].c].newArc
            /\ row.raisedOn = change[req[s].c].raisedOn
            /\ row.signed = change[req[s].c].signed /\ row.applied = change[req[s].c].applied
            /\ row.sched = change[req[s].c].sched /\ row.prompt = change[req[s].c].prompt
        BY <2>2 DEF Row
      <4> HIDE DEF row
      <4>3. \A d \in Changes : RowKept(d)
        BY <2>2, <3>1, <3>3, <4>1, <4>2, EditKeepsRows DEF row
      <4>4. QED
        BY <2>10, <4>3 DEF SamQuickRejectTx
    <3>4. QED
      BY <2>10, <3>2, <3>3 DEF SamQuickRejectTx
  <2>11. CASE RetainTx(s)
    BY <2>2, <2>11 DEF RetainTx, Row, Write, RowKept
  <2>12. CASE ProceedTx(s)
    <3>1. req[s].born + NoticeDays # Never
      BY <2>2 DEF DomainAssumption, Never
    <3>2. change[req[s].c].crm # "BACKFILL_LOCAL" /\ req[s].crm # "BACKFILL_LOCAL"
      BY <2>12 DEF ProceedTx, At, HandlersHoldRows, Holds, Request, OrderStatus
    <3> DEFINE row == [change[req[s].c] EXCEPT !.retention = "PROCEED",
                         !.sched = req[s].born + NoticeDays,
                         !.crm = IF req[s].crm = "NONE" THEN @ ELSE req[s].crm]
    <3>3. Write(req[s].c, row)
      BY <2>12 DEF ProceedTx
    <3>4. /\ row.acct = change[req[s].c].acct /\ row.type = change[req[s].c].type
          /\ row.mode = change[req[s].c].mode
          /\ row.oldArc = change[req[s].c].oldArc /\ row.newArc = change[req[s].c].newArc
          /\ row.raisedOn = change[req[s].c].raisedOn
          /\ row.signed = change[req[s].c].signed /\ row.applied = change[req[s].c].applied
          /\ row.sched # Never /\ row.prompt = change[req[s].c].prompt
          /\ row.retention = "PROCEED" /\ row.crm # "BACKFILL_LOCAL"
      BY <2>2, <3>1, <3>2 DEF Row
    <3> HIDE DEF row
    <3>5. \A d \in Changes : RowKept(d)
      BY <2>2, <3>2, <3>3, <3>4, EditKeepsRows
    <3>6. QED
      BY <2>12, <3>5 DEF ProceedTx
  <2>13. nextId' = nextId
    BY <1>5 DEF EnterApprovalChain, AdvanceTx, ApproveArcChangeTx, ApproveQuickTx,
       ApproveDisconnectionTx, RejectTx, SamQuickApproveTx, SamQuickRejectTx, RetainTx, ProceedTx
  <2>14. QED
    BY <1>5, <2>3, <2>4, <2>5, <2>6, <2>7, <2>8, <2>9, <2>10, <2>11, <2>12, <2>13
<1>6. ASSUME NEW s \in Readers, ApplyTx(s) PROVE Kept
  <2>1. req[s].c \in Changes /\ change[req[s].c] \in Row
    BY <1>6, HeldRow DEF ApplyTx, At
  <2>2. QED
    BY <1>6, <2>1 DEF ApplyTx, Row, Write, RowKept
<1>7. ASSUME UNCHANGED <<change, nextId>> PROVE Kept
  BY <1>7 DEF RowKept
<1>8. QED
  BY <1>2, <1>3, <1>4, <1>5, <1>6, <1>7, OtherSteps DEF RowWrite

\* A row as the step that inserts it leaves it.
Inserted(c) ==
  /\ nextId' = c + 1
  /\ change'[c].acct \in Accounts
  /\ change'[c].type \in ChangeTypes
  /\ change'[c].raisedOn = today
  /\ change'[c].stage = "NOT_REQUIRED"
  /\ \E s \in Inserting : req[s].a = change'[c].acct /\ req[s].arc = change'[c].oldArc
  /\ \/ change'[c].crm = "BACKFILL_LOCAL" /\ change'[c].retention # "NONE"
     \/ /\ change'[c].crm = "NONE"
        /\ change'[c].sched = Never
        /\ ~change'[c].applied

\* A step leaves a row not yet written as it is, or inserts it.
LEMMA RowsBeyond ==
  ASSUME DomainAssumption, LedgerAssumption, ChainInvariant, [Next]_vars,
         NEW c \in Changes, c >= nextId
  PROVE  (change'[c] = change[c] /\ c >= nextId') \/ Inserted(c)
<1> USE DEF ChainInvariant, TypeOK, LedgerTypeOK, Slots
<1> DEFINE Beyond == (change'[c] = change[c] /\ c >= nextId') \/ Inserted(c)
<1>1. c \in Int /\ nextId \in Int
  BY DEF Changes, DomainAssumption
<1>2. ASSUME NEW s \in Writers, CommitTx(s) PROVE Beyond
  <2>1. req[s].a \in Accounts /\ req[s].form \in Forms
    BY <1>2 DEF CommitTx, At, HandlersHoldRows, Holds
  <2>2. req[s].form.type \in ChangeTypes
    BY <2>1 DEF Forms, ChangeTypes, ChargeTypes
  <2>3. CASE c = nextId
    <3>1. s \in Inserting
      BY <1>2 DEF CommitTx, At, Inserting
    <3>2. QED
      BY <1>2, <2>1, <2>2, <2>3, <3>1 DEF CommitTx, Write, NewRow, Inserted
  <2>4. CASE c # nextId
    BY <1>1, <1>2, <2>4 DEF CommitTx, Write
  <2>5. QED
    BY <2>3, <2>4
<1>3. ASSUME NEW s \in Writers, BackfillTx(s) PROVE Beyond
  <2>1. req[s].a \in Accounts
    BY <1>3 DEF BackfillTx, At, HandlersHoldRows, Holds
  <2>2. PICK effectiveDate \in 0..MaxDay :
          Write(nextId, BackfilledRow(req[s].a, req[s].arc, today, effectiveDate))
    BY <1>3 DEF BackfillTx
  <2>3. CASE c = nextId
    <3>1. s \in Inserting
      BY <1>3 DEF BackfillTx, At, Inserting
    <3>2. QED
      BY <1>3, <2>1, <2>2, <2>3, <3>1
      DEF BackfillTx, Write, BackfilledRow, NewRow, NormalDisconnection, ChangeTypes, ChargeTypes, Inserted
  <2>4. CASE c # nextId
    BY <1>1, <1>3, <2>2, <2>4 DEF BackfillTx, Write
  <2>5. QED
    BY <2>3, <2>4
<1>4. ASSUME NEW d \in Changes, d < nextId, NEW row, Write(d, row), nextId' = nextId
      PROVE  Beyond
  BY <1>1, <1>4 DEF Write
<1>5. ASSUME NEW s \in Writers, AutoRetainTx(s) PROVE Beyond
  <2>1. PICK d \in req[s].due : Write(d, [change[d] EXCEPT !.retention = "RETAIN"])
    BY <1>5 DEF AutoRetainTx
  <2>2. d \in Changes /\ d < nextId
    BY DEF Request, HandlersHoldRows, Holds
  <2>3. nextId' = nextId
    BY <1>5 DEF AutoRetainTx
  <2>4. QED
    BY <1>4, <2>1, <2>2, <2>3
<1>6. ASSUME NEW s \in Slots, req[s].c \in Changes, req[s].c < nextId, nextId' = nextId,
             (\E row : Write(req[s].c, row)) \/ UNCHANGED change
      PROVE  Beyond
  BY <1>1, <1>4, <1>6
<1>7. ASSUME NEW s \in Writers, EnterApprovalChain(s) PROVE Beyond
  BY <1>6, <1>7, HeldRow DEF EnterApprovalChain, At
<1>8. ASSUME NEW s \in Writers, AdvanceTx(s) PROVE Beyond
  BY <1>6, <1>8, HeldRow DEF AdvanceTx, Approving, At
<1>9. ASSUME NEW s \in Writers, ApproveArcChangeTx(s) PROVE Beyond
  BY <1>6, <1>9, HeldRow DEF ApproveArcChangeTx, Approving, At
<1>10. ASSUME NEW s \in Writers, ApproveQuickTx(s) PROVE Beyond
  BY <1>6, <1>10, HeldRow DEF ApproveQuickTx, Approving, At
<1>11. ASSUME NEW s \in Writers, ApproveDisconnectionTx(s) PROVE Beyond
  BY <1>6, <1>11, HeldRow DEF ApproveDisconnectionTx, Approving, At
<1>12. ASSUME NEW s \in Writers, RejectTx(s) PROVE Beyond
  BY <1>6, <1>12, HeldRow DEF RejectTx, At
<1>13. ASSUME NEW s \in Writers, SamQuickApproveTx(s) PROVE Beyond
  BY <1>6, <1>13, HeldRow DEF SamQuickApproveTx, At
<1>14. ASSUME NEW s \in Writers, SamQuickRejectTx(s) PROVE Beyond
  BY <1>6, <1>14, HeldRow DEF SamQuickRejectTx, At
<1>15. ASSUME NEW s \in Writers, RetainTx(s) PROVE Beyond
  BY <1>6, <1>15, HeldRow DEF RetainTx, At
<1>16. ASSUME NEW s \in Writers, ProceedTx(s) PROVE Beyond
  BY <1>6, <1>16, HeldRow DEF ProceedTx, At
<1>17. ASSUME NEW s \in Readers, ApplyTx(s) PROVE Beyond
  BY <1>6, <1>17, HeldRow DEF ApplyTx, At
<1>18. ASSUME UNCHANGED <<change, nextId>> PROVE Beyond
  BY <1>18
<1>19. QED
  BY <1>2, <1>3, <1>5, <1>7, <1>8, <1>9, <1>10, <1>11, <1>12, <1>13, <1>14, <1>15, <1>16,
     <1>17, <1>18, OtherSteps DEF RowWrite

LEMMA RowsInOrderStep ==
  ASSUME DomainAssumption, LedgerAssumption, ChainInvariant, [Next]_vars
  PROVE  RowsInOrder'
<1> SUFFICES ASSUME NEW c \in Changes
             PROVE  IF c < nextId'
                    THEN /\ change'[c].acct \in Accounts
                         /\ change'[c].type \in ChangeTypes
                         /\ change'[c].raisedOn <= today'
                         /\ change'[c].crm = "BACKFILL_LOCAL" => change'[c].retention # "NONE"
                    ELSE change'[c] = BlankRow
  BY DEF RowsInOrder
<1>1. /\ c \in Nat /\ nextId \in Nat /\ nextId' \in Nat
      /\ today \in Nat /\ today' \in Nat /\ today' >= today
      /\ change[c].raisedOn \in Nat
  <2>1. nextId' \in Nat
    BY RowsAreKept
  <2>2. today' \in Nat /\ today' >= today
    BY DaysPass DEF ChainInvariant
  <2>3. nextId \in Nat /\ today \in Nat /\ change[c] \in Row
    BY DEF ChainInvariant, TypeOK, LedgerTypeOK
  <2>4. c \in Nat
    BY DEF Changes, DomainAssumption
  <2>5. QED
    BY <2>1, <2>2, <2>3, <2>4 DEF Row
<1>2. CASE c < nextId
  <2>1. RowKept(c) /\ nextId' >= nextId
    BY <1>2, RowsAreKept
  <2>2. /\ change[c].acct \in Accounts
        /\ change[c].type \in ChangeTypes
        /\ change[c].raisedOn <= today
        /\ change[c].crm = "BACKFILL_LOCAL" => change[c].retention # "NONE"
    BY <1>2 DEF ChainInvariant, RowsInOrder
  <2>3. QED
    BY <1>1, <1>2, <2>1, <2>2 DEF RowKept
<1>3. CASE c >= nextId
  <2>1. change[c] = BlankRow
    BY <1>1, <1>3 DEF ChainInvariant, RowsInOrder
  <2>2. QED
    BY <1>1, <1>3, <2>1, RowsBeyond DEF Inserted
<1>4. QED
  BY <1>1, <1>2, <1>3
-----------------------------------------------------------------------------
(* What a handler in flight holds stays sound                              *)

\* What the invariant says of a handler in flight.
Sound(q) == Holds(q) /\ SawEarnedStage(q) /\ PickedServedRows(q)

LEMMA InvariantIsSound ==
  ASSUME ChainInvariant, NEW s \in Slots
  PROVE  req[s] \in Request /\ Sound(req[s])
  BY DEF ChainInvariant, TypeOK, LedgerTypeOK, HandlersHoldRows, StagesAreEarned,
         NoticeIsScheduled, Sound

\* While it waits, the rows it holds are kept and the days pass.
LEMMA SoundIsKept ==
  ASSUME DomainAssumption, LedgerAssumption, ChainInvariant, [Next]_vars,
         NEW q \in Request, Sound(q)
  PROVE  Sound(q)'
<1>1. /\ nextId \in Nat /\ nextId' \in Nat /\ nextId' >= nextId
      /\ \A c \in Changes : c < nextId => RowKept(c)
  BY RowsAreKept DEF ChainInvariant, TypeOK, LedgerTypeOK
<1>2. /\ today \in Nat /\ today' \in Nat /\ today' >= today
      /\ \A c \in Changes : change[c] \in Row
      /\ q.due \subseteq Changes
  BY DaysPass DEF ChainInvariant, TypeOK, LedgerTypeOK, Request
<1>3. \A c \in Changes : c \in Int
  BY DEF Changes
<1>4. Holds(q)'
  BY <1>1, <1>2, <1>3 DEF Sound, Holds, RowKept
<1>5. SawEarnedStage(q)'
  <2>1. SUFFICES ASSUME q.pc = "decideTx"
                 PROVE  q.seen \in PendingStages /\ MayStandAt(q.c, q.seen)'
    BY DEF SawEarnedStage
  <2>2. /\ q.seen \in PendingStages /\ MayStandAt(q.c, q.seen)
        /\ RowKept(q.c)
    BY <1>1, <2>1 DEF Sound, SawEarnedStage, Holds
  <2>3. QED
    BY <2>2 DEF MayStandAt, Gates, RowKept
<1>6. ASSUME NEW c \in Changes, c < nextId, Served(c) PROVE Served(c)'
  <2>1. RowKept(c) /\ change[c].raisedOn \in Nat /\ NoticeDays \in Nat
    BY <1>1, <1>2, <1>6 DEF Row, DomainAssumption
  <2>2. UnderNotice(c)' => UnderNotice(c)
    BY <2>1 DEF UnderNotice, RowKept
  <2>3. QED
    BY <1>2, <1>6, <2>1, <2>2 DEF Served, NoticeEnd, RowKept
<1>7. PickedServedRows(q)'
  BY <1>2, <1>6 DEF Sound, Holds, PickedServedRows
<1>8. QED
  BY <1>4, <1>5, <1>7 DEF Sound

LEMMA IdleIsSound == Sound(Idle)'
  BY DEF Sound, Holds, SawEarnedStage, PickedServedRows, Idle

\* A step of one handler that goes on with a sound call leaves all handlers sound.
LEMMA ResumeIsSound ==
  ASSUME DomainAssumption, LedgerAssumption, ChainInvariant, [Next]_vars,
         NEW s \in Slots, NEW call, Sound(call)', Resume(s, call)
  PROVE  \A t \in Slots : Sound(req[t])'
<1> SUFFICES ASSUME NEW t \in Slots PROVE Sound(req[t])'
  OBVIOUS
<1>1. CASE t = s
  <2>1. req'[t] = call
    BY <1>1 DEF ChainInvariant, TypeOK, LedgerTypeOK, Resume
  <2>2. QED
    BY <2>1
<1>2. CASE t # s
  <2>1. req'[t] = req[t]
    BY <1>2 DEF ChainInvariant, TypeOK, LedgerTypeOK, Resume
  <2>2. req[t] \in Request /\ Sound(req[t])
    BY InvariantIsSound
  <2>3. \A q \in Request : Sound(q) => Sound(q)'
    BY SoundIsKept
  <2>4. QED
    BY <2>1, <2>2, <2>3
<1>3. QED
  BY <1>1, <1>2

\* A handler that starts or goes on holds what its next step needs.
LEMMA SoundStep ==
  ASSUME DomainAssumption, LedgerAssumption, ChainInvariant, [Next]_vars
  PROVE  \A t \in Slots : Sound(req[t])'
<1> USE DEF Slots
<1> DEFINE Goal == \A t \in Slots : Sound(req[t])'
<1>a. /\ nextId \in Nat /\ nextId' \in Nat /\ nextId' >= nextId
      /\ \A c \in Changes : c < nextId => RowKept(c)
  BY RowsAreKept DEF ChainInvariant, TypeOK, LedgerTypeOK
<1>b. /\ today \in Nat /\ today' \in Nat /\ today' >= today
      /\ \A c \in Changes : c \in Int /\ change[c] \in Row
      /\ BlankRow.type = "NONE" /\ BlankRow.stage = "NOT_REQUIRED"
  BY DaysPass DEF ChainInvariant, TypeOK, LedgerTypeOK, Changes, BlankRow, NewRow, NoForm
<1>c. \A c \in Changes : /\ change[c].type # "NONE" => c < nextId
                         /\ change[c].stage # "NOT_REQUIRED" => c < nextId
  BY <1>b DEF ChainInvariant, RowsInOrder
<1>d. \A s \in Slots : req[s] \in Request /\ Sound(req[s])
  BY InvariantIsSound
<1>1. ASSUME NEW s \in Writers, NEW a \in Base, NEW form \in Offered, CommitRead(s, a, form)
      PROVE  Goal
  <2> DEFINE call == [Idle EXCEPT !.pc = "commitTx", !.a = a, !.form = form,
                                  !.seen = status[a], !.arc = arc[a], !.born = today]
  <2>1. PICK q : q = call
    OBVIOUS
  <2>2. q.pc = "commitTx" /\ q.a \in Accounts /\ q.form \in Forms /\ q.due = {}
    BY <2>1 DEF Idle, DomainAssumption, LedgerAssumption
  <2>3. Sound(q)'
    BY <2>2 DEF Sound, Holds, SawEarnedStage, PickedServedRows
  <2>4. QED
    BY <1>1, <2>1, <2>3, ResumeIsSound DEF CommitRead, Start
<1>2. ASSUME NEW s \in Writers, NEW c \in Changes, NEW action \in {"APPROVE", "REJECT"},
             DecideRead(s, c, action)
      PROVE  Goal
  <2> DEFINE call == [Idle EXCEPT !.pc = "decideTx", !.c = c, !.seen = change[c].stage,
                                  !.verb = action, !.born = today]
  <2>1. PICK q : q = call
    OBVIOUS
  <2>2. q.pc = "decideTx" /\ q.c = c /\ q.seen = change[c].stage /\ q.due = {}
    BY <2>1 DEF Idle
  <2>3. q.seen \in PendingStages /\ c < nextId /\ nextId' >= nextId /\ RowKept(c)
    <3>1. change[c].stage \in PendingStages
      BY <1>2 DEF DecideRead
    <3>2. c < nextId
      BY <3>1, <1>c DEF PendingStages
    <3>3. QED
      BY <2>2, <3>1, <3>2, <1>a
  <2>4. MayStandAt(c, q.seen)
    BY <2>2 DEF ChainInvariant, StagesAreEarned
  <2>5. MayStandAt(c, q.seen)'
    BY <2>3, <2>4 DEF MayStandAt, Gates, RowKept
  <2>6. Holds(q)'
    BY <2>2, <2>3, <1>a, <1>b DEF Holds
  <2>7. Sound(q)'
    BY <2>2, <2>3, <2>5, <2>6 DEF Sound, SawEarnedStage, PickedServedRows
  <2>8. QED
    BY <1>2, <2>1, <2>7, ResumeIsSound DEF DecideRead, Start
<1>3. ASSUME NEW s \in Writers, NEW c \in Changes, NEW decision \in {"APPROVE", "REJECT"},
             SamQuickRead(s, c, decision)
      PROVE  Goal
  <2> DEFINE call == [Idle EXCEPT !.pc = "samQuickTx", !.c = c, !.verb = decision,
                                  !.born = today]
  <2>1. PICK q : q = call
    OBVIOUS
  <2>2. q.pc = "samQuickTx" /\ q.c = c /\ q.due = {}
    BY <2>1 DEF Idle
  <2>3. c < nextId /\ nextId' >= nextId /\ change'[c].mode = "QUICK"
    <3>1. change[c].type = "DISCONNECTION" /\ change[c].mode = "QUICK"
      BY <1>3 DEF SamQuickRead
    <3>2. c < nextId
      BY <3>1, <1>c
    <3>3. QED
      BY <3>1, <3>2, <1>a DEF RowKept
  <2>4. Sound(q)'
    BY <2>2, <2>3, <1>a, <1>b DEF Sound, Holds, SawEarnedStage, PickedServedRows
  <2>5. QED
    BY <1>3, <2>1, <2>4, ResumeIsSound DEF SamQuickRead, Start
<1>4. ASSUME NEW s \in Writers, NEW c \in Changes, NEW decision \in {"RETAIN", "PROCEED"},
             RetentionRead(s, c, decision)
      PROVE  Goal
  <2>1. PICK pc \in {"retainTx", "proceedCrm", "proceedTx"} :
          Resume(s, [Idle EXCEPT !.pc = pc, !.c = c, !.born = today])
    BY <1>4 DEF RetentionRead, Start
  <2>2. PICK q : q = [Idle EXCEPT !.pc = pc, !.c = c, !.born = today]
    OBVIOUS
  <2>3. q.pc = pc /\ q.c = c /\ q.due = {} /\ q.born = today
    BY <2>2 DEF Idle
  <2>4. c < nextId /\ nextId' >= nextId /\ RowKept(c)
    <3>1. change[c].type = "DISCONNECTION"
      BY <1>4 DEF RetentionRead
    <3>2. c < nextId
      BY <3>1, <1>c
    <3>3. QED
      BY <3>2, <1>a
  <2>5. /\ change[c].crm # "BACKFILL_LOCAL" /\ change[c].raisedOn <= today
        /\ change[c].raisedOn \in Nat
    BY <1>4, <1>b, <2>4 DEF RetentionRead, ChainInvariant, RowsInOrder, Row
  <2>6. change'[c].crm # "BACKFILL_LOCAL" /\ q.born >= change'[c].raisedOn
    BY <2>3, <2>4, <2>5, <1>b DEF RowKept
  <2>7. Sound(q)'
    BY <2>3, <2>4, <2>6, <1>a, <1>b DEF Sound, Holds, SawEarnedStage, PickedServedRows
  <2>8. QED
    BY <2>1, <2>2, <2>7, ResumeIsSound
<1>5. ASSUME NEW s \in Writers, NEW a \in Base, BackfillRead(s, a)
      PROVE  Goal
  <2> DEFINE call == [Idle EXCEPT !.pc = "backfillTx", !.a = a, !.arc = arc[a], !.born = today]
  <2>1. PICK q : q = call
    OBVIOUS
  <2>2. q.pc = "backfillTx" /\ q.a \in Accounts /\ q.due = {}
    BY <2>1 DEF Idle, DomainAssumption
  <2>3. Sound(q)'
    BY <2>2 DEF Sound, Holds, SawEarnedStage, PickedServedRows
  <2>4. QED
    BY <1>5, <2>1, <2>3, ResumeIsSound DEF BackfillRead, Start
<1>6. ASSUME NEW s \in Writers, CommitTx(s)
      PROVE  Goal
  <2>1. PICK pc \in {"autoRetain", "route"} :
          Resume(s, [Idle EXCEPT !.pc = pc, !.a = req[s].a, !.c = nextId, !.born = req[s].born])
    BY <1>6 DEF CommitTx
  <2>2. PICK q : q = [Idle EXCEPT !.pc = pc, !.a = req[s].a, !.c = nextId, !.born = req[s].born]
    OBVIOUS
  <2>3. q.pc = pc /\ q.a = req[s].a /\ q.c = nextId /\ q.due = {}
    BY <2>2 DEF Idle
  <2>4. req[s].a \in Accounts /\ nextId \in Changes /\ nextId < nextId'
    BY <1>6, <1>a, <1>d DEF CommitTx, At, Sound, Holds
  <2>5. Sound(q)'
    BY <2>3, <2>4 DEF Sound, Holds, SawEarnedStage, PickedServedRows
  <2>6. QED
    BY <2>1, <2>2, <2>5, ResumeIsSound
<1>7. ASSUME NEW s \in Writers, AutoRetainFind(s)
      PROVE  Goal
  <2>1. /\ At(s, "autoRetain") /\ Sound(req[s]) /\ req[s] \in Request
        /\ UNCHANGED <<change, nextId>>
    BY <1>7, <1>d DEF AutoRetainFind
  <2>2. CASE Resume(s, [req[s] EXCEPT !.pc = "route"])
    <3>1. PICK q : q = [req[s] EXCEPT !.pc = "route"]
      OBVIOUS
    <3>2. q.pc = "route" /\ q.a = req[s].a /\ q.c = req[s].c /\ q.due = req[s].due
      BY <2>1, <3>1 DEF Request
    <3>3. Sound(q)'
      BY <2>1, <3>2 DEF Sound, Holds, SawEarnedStage, PickedServedRows, At
    <3>4. QED
      BY <2>2, <3>1, <3>3, ResumeIsSound
  <2>3. ASSUME NEW c \in Undecided(req[s].a),
               Resume(s, [req[s] EXCEPT !.pc = "autoRetainTx", !.due = {c}])
        PROVE  Goal
    <3>1. PICK q : q = [req[s] EXCEPT !.pc = "autoRetainTx", !.due = {c}]
      OBVIOUS
    <3>2. q.pc = "autoRetainTx" /\ q.a = req[s].a /\ q.c = req[s].c /\ q.due = {c}
      BY <2>1, <3>1 DEF Request
    <3>3. c < nextId /\ change[c].type = "DISCONNECTION"
      BY <1>c DEF Undecided, Raised
    <3>4. Sound(q)'
      BY <2>1, <3>2, <3>3 DEF Sound, Holds, SawEarnedStage, PickedServedRows, At
    <3>5. QED
      BY <2>3, <3>1, <3>4, ResumeIsSound
  <2>4. QED
    BY <1>7, <2>2, <2>3 DEF AutoRetainFind
<1>8. ASSUME NEW s \in Writers, AutoRetainTx(s)
      PROVE  Goal
  <2>1. /\ Resume(s, [req[s] EXCEPT !.pc = "route", !.due = {}])
        /\ At(s, "autoRetainTx") /\ Sound(req[s]) /\ req[s] \in Request
    BY <1>8, <1>d DEF AutoRetainTx
  <2>2. PICK q : q = [req[s] EXCEPT !.pc = "route", !.due = {}]
    OBVIOUS
  <2>3. q.pc = "route" /\ q.a = req[s].a /\ q.c = req[s].c /\ q.due = {}
    BY <2>1, <2>2 DEF Request
  <2>4. q.a \in Accounts /\ q.c \in Changes /\ q.c < nextId'
    BY <2>1, <2>3, <1>a, <1>b DEF Sound, Holds, At
  <2>5. Sound(q)'
    BY <2>3, <2>4 DEF Sound, Holds, SawEarnedStage, PickedServedRows
  <2>6. QED
    BY <2>1, <2>2, <2>5, ResumeIsSound
<1>9. ASSUME NEW s \in Writers, ProceedCrm(s)
      PROVE  Goal
  <2>1. PICK mark \in {"ORDERED", "FAILED"} :
          Resume(s, [req[s] EXCEPT !.pc = "proceedTx", !.crm = mark])
    BY <1>9 DEF ProceedCrm
  <2>2. /\ At(s, "proceedCrm") /\ Sound(req[s]) /\ req[s] \in Request
        /\ UNCHANGED <<change, nextId>>
    BY <1>9, <1>d DEF ProceedCrm
  <2>3. PICK q : q = [req[s] EXCEPT !.pc = "proceedTx", !.crm = mark]
    OBVIOUS
  <2>4. /\ q.pc = "proceedTx" /\ q.c = req[s].c /\ q.due = req[s].due
        /\ q.born = req[s].born
    BY <2>2, <2>3 DEF Request
  <2>5. Sound(q)'
    BY <2>2, <2>4 DEF Sound, Holds, SawEarnedStage, PickedServedRows, At
  <2>6. QED
    BY <2>1, <2>3, <2>5, ResumeIsSound
<1>10. ASSUME NEW s \in Readers, SweepRead(s)
       PROVE  Goal
  <2>1. PICK q : q = [Idle EXCEPT !.pc = "sweep", !.due = Due, !.born = today]
    OBVIOUS
  <2>2. q.pc = "sweep" /\ q.due = Due
    BY <2>1 DEF Idle
  <2>3. UNCHANGED <<change, nextId, today>>
    BY <1>10 DEF SweepRead
  <2>4. ASSUME NEW c \in Due
        PROVE  c \in Changes /\ c < nextId /\ change[c].type = "DISCONNECTION" /\ Served(c)
    <3>1. /\ c \in Changes /\ change[c].type = "DISCONNECTION"
          /\ change[c].sched # Never /\ change[c].sched <= today
      BY DEF Due
    <3>2. c < nextId
      BY <3>1, <1>c
    <3>3. UnderNotice(c) => change[c].sched >= NoticeEnd(c)
      BY <3>1 DEF ChainInvariant, NoticeIsScheduled
    <3>4. /\ change[c].raisedOn \in Nat /\ NoticeDays \in Nat
          /\ change[c].sched \in Nat
      BY <3>1, <1>b DEF Row, Days, DomainAssumption
    <3>5. QED
      BY <3>1, <3>2, <3>3, <3>4, <1>b DEF Served, NoticeEnd
  <2>5. Sound(q)'
    BY <2>2, <2>3, <2>4
    DEF Sound, Holds, SawEarnedStage, PickedServedRows, Served, UnderNotice, NoticeEnd
  <2>6. QED
    BY <1>10, <2>1, <2>5, ResumeIsSound DEF SweepRead, Start
<1>11. ASSUME NEW s \in Readers, ApplyRead(s)
       PROVE  Goal
  <2>1. /\ At(s, "sweep") /\ Sound(req[s]) /\ req[s] \in Request
        /\ UNCHANGED <<change, nextId, today>>
    BY <1>11, <1>d DEF ApplyRead
  <2>2. PICK c \in req[s].due :
          \/ Resume(s, [req[s] EXCEPT !.pc = "applyTx", !.c = c, !.due = req[s].due \ {c}])
          \/ Resume(s, Idle)
          \/ Resume(s, [req[s] EXCEPT !.due = req[s].due \ {c}])
    BY <1>11 DEF ApplyRead
  <2>3. /\ c \in Changes /\ req[s].due \subseteq Changes
        /\ \A d \in req[s].due : /\ d < nextId /\ change[d].type = "DISCONNECTION"
                                 /\ Served(d)
    BY <2>1 DEF Sound, Holds, PickedServedRows, At, Request
  <2>4. ASSUME Resume(s, [req[s] EXCEPT !.pc = "applyTx", !.c = c, !.due = req[s].due \ {c}])
        PROVE  Goal
    <3>1. PICK q : q = [req[s] EXCEPT !.pc = "applyTx", !.c = c, !.due = req[s].due \ {c}]
      OBVIOUS
    <3>2. q.pc = "applyTx" /\ q.c = c /\ q.due \subseteq req[s].due
      BY <2>1, <3>1 DEF Request
    <3>3. Sound(q)'
      BY <2>1, <2>3, <3>2
      DEF Sound, Holds, SawEarnedStage, PickedServedRows, Served, UnderNotice, NoticeEnd
    <3>4. QED
      BY <2>4, <3>1, <3>3, ResumeIsSound
  <2>5. ASSUME Resume(s, [req[s] EXCEPT !.due = req[s].due \ {c}])
        PROVE  Goal
    <3>1. PICK q : q = [req[s] EXCEPT !.due = req[s].due \ {c}]
      OBVIOUS
    <3>2. q.pc = "sweep" /\ q.due \subseteq req[s].due
      BY <2>1, <3>1 DEF Request, At
    <3>3. Sound(q)'
      BY <2>1, <2>3, <3>2
      DEF Sound, Holds, SawEarnedStage, PickedServedRows, Served, UnderNotice, NoticeEnd
    <3>4. QED
      BY <2>5, <3>1, <3>3, ResumeIsSound
  <2>6. QED
    BY <2>2, <2>4, <2>5, IdleIsSound, ResumeIsSound
<1>12. ASSUME NEW s \in Readers, ApplyTx(s)
       PROVE  Goal
  <2>1. /\ At(s, "applyTx") /\ Sound(req[s]) /\ req[s] \in Request
        /\ UNCHANGED <<nextId, today>>
    BY <1>12, <1>d DEF ApplyTx
  <2>2. \/ Resume(s, Idle)
        \/ Resume(s, [req[s] EXCEPT !.pc = "sweep", !.c = 0])
    BY <1>12 DEF ApplyTx
  <2>4. ASSUME Resume(s, [req[s] EXCEPT !.pc = "sweep", !.c = 0])
        PROVE  Goal
    <3>1. PICK q : q = [req[s] EXCEPT !.pc = "sweep", !.c = 0]
      OBVIOUS
    <3>2. q.pc = "sweep" /\ q.due = req[s].due
      BY <2>1, <3>1 DEF Request
    <3>3. PICK old \in Request : old = req[s]
      BY <2>1
    <3>4. Sound(old) /\ old.pc = "applyTx"
      BY <2>1, <3>3 DEF At
    <3>5. Sound(old)'
      BY <3>4, SoundIsKept
    <3>6. Sound(q)'
      BY <3>2, <3>3, <3>4, <3>5 DEF Sound, Holds, SawEarnedStage, PickedServedRows
    <3>7. QED
      BY <2>4, <3>1, <3>6, ResumeIsSound
  <2>5. QED
    BY <2>2, <2>4, IdleIsSound, ResumeIsSound
<1>13. ASSUME NEW s \in Slots, Finish(s)
       PROVE  Goal
  BY <1>13, IdleIsSound, ResumeIsSound DEF Finish
<1>14. ASSUME UNCHANGED req
       PROVE  Goal
  <2>1. \A q \in Request : Sound(q) => Sound(q)'
    BY SoundIsKept
  <2>2. QED
    BY <1>14, <1>d, <2>1
<1>15. CASE Restart
  BY <1>15, IdleIsSound DEF Restart
<1>16. ASSUME NEW s \in Writers,
              \/ EnterApprovalChain(s) \/ AdvanceTx(s) \/ ApproveArcChangeTx(s)
              \/ ApproveQuickTx(s) \/ ApproveDisconnectionTx(s) \/ RejectTx(s)
              \/ SamQuickApproveTx(s) \/ SamQuickRejectTx(s) \/ RetainTx(s)
              \/ ProceedTx(s) \/ BackfillTx(s)
       PROVE  Finish(s)
  BY <1>16 DEF EnterApprovalChain, AdvanceTx, ApproveArcChangeTx, ApproveQuickTx,
     ApproveDisconnectionTx, RejectTx, SamQuickApproveTx, SamQuickRejectTx, RetainTx,
     ProceedTx, BackfillTx
<1>17. ASSUME NEW s \in Slots, CallFails(s)
       PROVE  Finish(s)
  BY <1>17 DEF CallFails
<1>18. ASSUME (\E a \in Base : AdminUpdate(a)) \/ Tick \/ BookClosed \/ UNCHANGED vars
       PROVE  UNCHANGED req
  BY <1>18 DEF AdminUpdate, Tick, BookClosed, vars
<1>19. QED
  BY <1>1, <1>2, <1>3, <1>4, <1>5, <1>6, <1>7, <1>8, <1>9, <1>10, <1>11, <1>12, <1>13, <1>14,
     <1>15, <1>16, <1>17, <1>18
  DEF Next, Arrival, WriterStep, ReaderStep
-----------------------------------------------------------------------------
(* How a row moves through the chain                                       *)

\* A row stays where it is, enters the chain, is rejected, or is signed.
StageMove(c) ==
  \/ change'[c].stage = change[c].stage
  \/ /\ change'[c].stage = InitialStage(change[c].mode)
     /\ status'[change[c].acct] = "PENDING_APPROVAL"
  \/ /\ change'[c].stage = "REJECTED"
     /\ status'[change[c].acct] = "ACTIVE"
  \/ \E seen \in PendingStages :
       /\ MayStandAt(c, seen)
       /\ seen \in change'[c].signed
       /\ change'[c].stage = NextStage(seen, change[c].type = "DISCONNECTION")
       /\ change'[c].stage = "APPROVED" =>
            TookEffect(c)' /\ status'[change[c].acct] # "PENDING_APPROVAL"

LEMMA StageMoves ==
  ASSUME DomainAssumption, LedgerAssumption, ChainInvariant, [Next]_vars,
         NEW c \in Changes, c < nextId
  PROVE  StageMove(c)
<1> USE DEF Slots
<1>a. /\ change \in [Changes -> Row] /\ status \in [Accounts -> ContractStatus]
      /\ change[c] \in Row /\ change[c].acct \in Accounts
      /\ c \in Int /\ nextId \in Int
      /\ TypeOK /\ RowsInOrder /\ HandlersHoldRows /\ StagesAreEarned
  BY DEF ChainInvariant, TypeOK, LedgerTypeOK, RowsInOrder, Changes
<1>b. \A s \in Slots : req[s] \in Request /\ Sound(req[s])
  BY InvariantIsSound
<1>1. ASSUME change'[c].stage = change[c].stage PROVE StageMove(c)
  BY <1>1 DEF StageMove
<1>2. ASSUME NEW d \in Changes, NEW row, Write(d, row), row.stage = change[d].stage
      PROVE  StageMove(c)
  BY <1>1, <1>2, <1>a DEF Write
<1>3. ASSUME NEW d \in Changes, NEW row, Write(d, row), d # c
      PROVE  StageMove(c)
  BY <1>1, <1>3, <1>a DEF Write
<1>4. ASSUME NEW row, Write(nextId, row), nextId \in Changes
      PROVE  StageMove(c)
  BY <1>3, <1>4, <1>a
<1>5. ASSUME NEW s \in Writers, CommitTx(s) PROVE StageMove(c)
  BY <1>4, <1>5 DEF CommitTx
<1>6. ASSUME NEW s \in Writers, BackfillTx(s) PROVE StageMove(c)
  BY <1>4, <1>6 DEF BackfillTx
<1>7. ASSUME NEW s \in Writers, AutoRetainTx(s) PROVE StageMove(c)
  <2>1. PICK d \in req[s].due : Write(d, [change[d] EXCEPT !.retention = "RETAIN"])
    BY <1>7 DEF AutoRetainTx
  <2>2. d \in Changes /\ change[d] \in Row
    BY <1>a, <1>b DEF Request
  <2>3. [change[d] EXCEPT !.retention = "RETAIN"].stage = change[d].stage
    BY <2>2 DEF Row
  <2>4. QED
    BY <1>2, <2>1, <2>2, <2>3
<1>8. ASSUME NEW s \in Writers, RetainTx(s) PROVE StageMove(c)
  <2>1. req[s].c \in Changes /\ change[req[s].c] \in Row
    BY <1>8, <1>a, HeldRow DEF RetainTx, At
  <2>2. change'[c].stage = change[c].stage
    BY <1>8, <1>a, <2>1 DEF RetainTx, Write, Row
  <2>3. QED
    BY <1>1, <2>2
<1>9. ASSUME NEW s \in Writers, ProceedTx(s) PROVE StageMove(c)
  <2>1. req[s].c \in Changes /\ change[req[s].c] \in Row
    BY <1>9, <1>a, HeldRow DEF ProceedTx, At
  <2>2. change'[c].stage = change[c].stage
    BY <1>9, <1>a, <2>1 DEF ProceedTx, Write, Row
  <2>3. QED
    BY <1>1, <2>2
<1>10. ASSUME NEW s \in Writers, SamQuickApproveTx(s) PROVE StageMove(c)
  <2>1. req[s].c \in Changes /\ change[req[s].c] \in Row
    BY <1>10, <1>a, HeldRow DEF SamQuickApproveTx, At
  <2>2. change'[c].stage = change[c].stage
    BY <1>10, <1>a, <2>1 DEF SamQuickApproveTx, Write, Row
  <2>3. QED
    BY <1>1, <2>2
<1>11. ASSUME NEW s \in Writers, SamQuickRejectTx(s) PROVE StageMove(c)
  <2>1. req[s].c \in Changes /\ change[req[s].c] \in Row
    BY <1>11, <1>a, HeldRow DEF SamQuickRejectTx, At
  <2>2. change'[c].stage = change[c].stage
    <3>1. CASE UNCHANGED change
      BY <3>1
    <3>2. CASE Write(req[s].c, [change[req[s].c] EXCEPT !.quick = "REJECTED",
                       !.retention = "RETAIN", !.crm = "SAM_LOCAL_REJECTED"])
      BY <1>a, <2>1, <3>2 DEF Write, Row
    <3>3. QED
      BY <1>11, <3>1, <3>2 DEF SamQuickRejectTx
  <2>3. QED
    BY <1>1, <2>2
<1>12. ASSUME NEW s \in Readers, ApplyTx(s) PROVE StageMove(c)
  <2>1. req[s].c \in Changes /\ change[req[s].c] \in Row
    BY <1>12, <1>a, HeldRow DEF ApplyTx, At
  <2>2. change'[c].stage = change[c].stage
    BY <1>12, <1>a, <2>1 DEF ApplyTx, Write, Row
  <2>3. QED
    BY <1>1, <2>2
<1>13. ASSUME NEW s \in Writers, EnterApprovalChain(s) PROVE StageMove(c)
  <2>1. req[s].c \in Changes
    BY <1>13, <1>a, HeldRow DEF EnterApprovalChain, At
  <2>2. CASE req[s].c = c
    BY <1>13, <1>a, <2>1, <2>2 DEF EnterApprovalChain, Write, Row, MoveAccount, StageMove
  <2>3. QED
    BY <1>3, <1>13, <2>1, <2>2 DEF EnterApprovalChain
<1>14. ASSUME NEW s \in Writers, RejectTx(s) PROVE StageMove(c)
  <2>1. req[s].c \in Changes
    BY <1>14, <1>a, HeldRow DEF RejectTx, At
  <2>2. CASE UNCHANGED change
    BY <1>1, <2>2
  <2>3. CASE req[s].c = c /\ Write(c, [change[c] EXCEPT !.stage = "REJECTED"])
             /\ MoveAccount(c, "ACTIVE")
    BY <1>a, <2>3 DEF Write, Row, MoveAccount, StageMove
  <2>4. QED
    BY <1>3, <1>14, <2>1, <2>2, <2>3 DEF RejectTx
<1>15. ASSUME NEW s \in Slots, At(s, "decideTx")
       PROVE  /\ req[s].c \in Changes
              /\ req[s].seen \in PendingStages
              /\ MayStandAt(req[s].c, req[s].seen)
  BY <1>15, <1>b DEF Sound, Holds, SawEarnedStage, At
<1>16. ASSUME NEW s \in Writers, AdvanceTx(s) PROVE StageMove(c)
  <2>1. At(s, "decideTx")
    BY <1>16 DEF AdvanceTx, Approving
  <2>2. CASE req[s].c = c
    <3>1. change'[c].stage = NextOf(s) /\ req[s].seen \in change'[c].signed
      BY <1>16, <1>a, <2>2 DEF AdvanceTx, Write, Row
    <3>2. NextOf(s) # "APPROVED"
      BY <1>16 DEF AdvanceTx
    <3>3. QED
      BY <1>15, <2>1, <2>2, <3>1, <3>2 DEF StageMove, NextOf
  <2>3. QED
    BY <1>3, <1>15, <1>16, <2>1, <2>2 DEF AdvanceTx
<1>17. ASSUME NEW s \in Writers, At(s, "decideTx"), NextOf(s) = "APPROVED", req[s].c = c,
              change'[c].stage = "APPROVED", req[s].seen \in change'[c].signed,
              TookEffect(c)', status'[change[c].acct] # "PENDING_APPROVAL"
       PROVE  StageMove(c)
  BY <1>15, <1>17 DEF StageMove, NextOf
<1>18. ASSUME NEW s \in Writers, ApproveArcChangeTx(s) PROVE StageMove(c)
  <2>1. At(s, "decideTx") /\ NextOf(s) = "APPROVED"
    BY <1>18 DEF ApproveArcChangeTx, Approving
  <2>2. CASE req[s].c = c
    <3>1. /\ change'[c].stage = "APPROVED" /\ req[s].seen \in change'[c].signed
          /\ change'[c].applied /\ change'[c].type # "DISCONNECTION"
      BY <1>18, <1>a, <2>2 DEF ApproveArcChangeTx, Approved, Write, Row
    <3>2. status'[change[c].acct] # "PENDING_APPROVAL"
      BY <1>18, <1>a, <2>2 DEF ApproveArcChangeTx, MoveAccount
    <3>3. QED
      BY <1>17, <2>1, <2>2, <3>1, <3>2 DEF TookEffect
  <2>3. QED
    BY <1>3, <1>15, <1>18, <2>1, <2>2 DEF ApproveArcChangeTx
<1>19. ASSUME NEW s \in Writers, ApproveQuickTx(s) PROVE StageMove(c)
  <2>1. At(s, "decideTx") /\ NextOf(s) = "APPROVED"
    BY <1>19 DEF ApproveQuickTx, Approving
  <2>2. CASE req[s].c = c
    <3>1. /\ change'[c].stage = "APPROVED" /\ req[s].seen \in change'[c].signed
          /\ change'[c].sched = req[s].born + change[c].days
          /\ change'[c].type = "DISCONNECTION" /\ change'[c].mode = "QUICK"
      BY <1>19, <1>a, <2>2 DEF ApproveQuickTx, Approved, Write, Row
    <3>2. status'[change[c].acct] # "PENDING_APPROVAL"
      BY <1>19, <1>a, <2>2 DEF ApproveQuickTx, MoveAccount
    <3>3. req[s].born + change[c].days # Never
      BY <1>a, <1>b DEF Request, Row, Never
    <3>4. QED
      BY <1>17, <2>1, <2>2, <3>1, <3>2, <3>3 DEF TookEffect
  <2>3. QED
    BY <1>3, <1>15, <1>19, <2>1, <2>2 DEF ApproveQuickTx
<1>20. ASSUME NEW s \in Writers, ApproveDisconnectionTx(s) PROVE StageMove(c)
  <2>1. At(s, "decideTx") /\ NextOf(s) = "APPROVED"
    BY <1>20 DEF ApproveDisconnectionTx, Approving
  <2>2. CASE req[s].c = c
    <3>1. /\ change'[c].stage = "APPROVED" /\ req[s].seen \in change'[c].signed
          /\ change'[c].prompt = req[s].born + WindowDays
          /\ change'[c].type = "DISCONNECTION" /\ change'[c].mode # "QUICK"
      BY <1>20, <1>a, <2>2 DEF ApproveDisconnectionTx, Approved, Write, Row
    <3>2. status'[change[c].acct] # "PENDING_APPROVAL"
      BY <1>20, <1>a, <2>2 DEF ApproveDisconnectionTx, MoveAccount
    <3>3. req[s].born + WindowDays # Never
      BY <1>b DEF Request, DomainAssumption, Never
    <3>4. QED
      BY <1>17, <2>1, <2>2, <3>1, <3>2, <3>3 DEF TookEffect
  <2>3. QED
    BY <1>3, <1>15, <1>20, <2>1, <2>2 DEF ApproveDisconnectionTx
<1>21. ASSUME UNCHANGED change PROVE StageMove(c)
  BY <1>1, <1>21
<1>22. QED
  BY <1>5, <1>6, <1>7, <1>8, <1>9, <1>10, <1>11, <1>12, <1>13, <1>14, <1>16, <1>18, <1>19,
     <1>20, <1>21, OtherSteps DEF RowWrite

LEMMA StagesAreEarnedStep ==
  ASSUME DomainAssumption, LedgerAssumption, ChainInvariant, [Next]_vars
  PROVE  StagesAreEarned'
<1>1. \A s \in Slots : SawEarnedStage(req[s])'
  BY SoundStep DEF Sound
<1>2. ASSUME NEW c \in Changes PROVE MayStandAt(c, change[c].stage)'
  <2>1. CASE c < nextId
    <3>1. RowKept(c) /\ StageMove(c) /\ MayStandAt(c, change[c].stage)
      BY <2>1, RowsAreKept, StageMoves DEF ChainInvariant, StagesAreEarned
    <3>2. CASE change'[c].stage = change[c].stage
      BY <3>1, <3>2 DEF RowKept, MayStandAt, Gates
    <3>3. CASE change'[c].stage = InitialStage(change[c].mode)
      BY <3>1, <3>3 DEF RowKept, MayStandAt, Gates, Before, InitialStage
    <3>4. CASE change'[c].stage = "REJECTED"
      BY <3>4 DEF MayStandAt, Before
    <3>5. ASSUME NEW seen \in PendingStages, MayStandAt(c, seen), seen \in change'[c].signed,
                 change'[c].stage = NextStage(seen, change[c].type = "DISCONNECTION")
          PROVE  MayStandAt(c, change[c].stage)'
      <4>1. MayStandAt(c, seen)'
        BY <3>1, <3>5 DEF RowKept, MayStandAt, Gates
      <4>2. Before(change'[c].stage) \subseteq Before(seen) \cup {seen} \cup
              (IF change[c].type = "DISCONNECTION" THEN {} ELSE {"PENDING_SUPER_ADMIN_2"})
        BY <3>5 DEF NextStage, Before, PendingStages
      <4>3. change'[c].type # "DISCONNECTION" => change'[c].stage # "PENDING_SUPER_ADMIN_2"
        BY <3>1, <3>5 DEF NextStage, PendingStages, RowKept
      <4>4. change'[c].type # "DISCONNECTION" => "PENDING_SUPER_ADMIN_2" \notin Gates(c)'
        BY DEF Gates
      <4>5. QED
        BY <3>1, <3>5, <4>1, <4>2, <4>3, <4>4 DEF MayStandAt, RowKept
    <3>6. QED
      BY <3>1, <3>2, <3>3, <3>4, <3>5 DEF StageMove
  <2>2. CASE ~(c < nextId)
    <3>1. change'[c].stage = "NOT_REQUIRED"
      <4>1. c \in Int /\ nextId \in Int
        BY DEF Changes, ChainInvariant, TypeOK, LedgerTypeOK
      <4>2. change[c].stage = "NOT_REQUIRED"
        BY <2>2 DEF ChainInvariant, RowsInOrder, BlankRow, NewRow
      <4>3. QED
        BY <2>2, <4>1, <4>2, RowsBeyond DEF Inserted
    <3>2. QED
      BY <3>1 DEF MayStandAt, Before
  <2>3. QED
    BY <2>1, <2>2
<1>3. QED
  BY <1>1, <1>2 DEF StagesAreEarned
-----------------------------------------------------------------------------
(* Dates and markers of a row                                              *)

\* A normal disconnection is scheduled after its notice and applied after it.
NoticeMove(c) ==
  /\ \/ change'[c].sched = change[c].sched
     \/ change[c].mode = "QUICK"
     \/ change'[c].sched >= NoticeEnd(c)
  /\ \/ change'[c].applied = change[c].applied
     \/ change[c].type # "DISCONNECTION"
     \/ Served(c)

LEMMA NoticeMoves ==
  ASSUME DomainAssumption, LedgerAssumption, ChainInvariant, [Next]_vars,
         NEW c \in Changes, c < nextId
  PROVE  NoticeMove(c)
<1> USE DEF Slots
<1>a. /\ change \in [Changes -> Row] /\ change[c] \in Row
      /\ c \in Int /\ nextId \in Int
      /\ TypeOK /\ RowsInOrder /\ HandlersHoldRows
  BY DEF ChainInvariant, TypeOK, LedgerTypeOK, Changes
<1>b. \A s \in Slots : req[s] \in Request /\ Sound(req[s])
  BY InvariantIsSound
<1>1. ASSUME change'[c].sched = change[c].sched, change'[c].applied = change[c].applied
      PROVE  NoticeMove(c)
  BY <1>1 DEF NoticeMove
<1>2. ASSUME NEW d \in Changes, NEW row, Write(d, row), d # c
      PROVE  NoticeMove(c)
  BY <1>1, <1>2, <1>a DEF Write
<1>3. ASSUME NEW s \in Writers, CommitTx(s) PROVE NoticeMove(c)
  BY <1>2, <1>3, <1>a DEF CommitTx
<1>4. ASSUME NEW s \in Writers, BackfillTx(s) PROVE NoticeMove(c)
  BY <1>2, <1>4, <1>a DEF BackfillTx
<1>5. ASSUME NEW s \in Writers, AutoRetainTx(s) PROVE NoticeMove(c)
  <2>1. PICK d \in req[s].due : Write(d, [change[d] EXCEPT !.retention = "RETAIN"])
    BY <1>5 DEF AutoRetainTx
  <2>2. d \in Changes /\ change[d] \in Row
    BY <1>a, <1>b DEF Request
  <2>3. /\ change'[c].sched = change[c].sched
        /\ change'[c].applied = change[c].applied
    BY <1>a, <2>1, <2>2 DEF Write, Row
  <2>4. QED
    BY <1>1, <2>3
<1>6. ASSUME NEW s \in Writers, EnterApprovalChain(s) \/ AdvanceTx(s) \/ RetainTx(s)
      PROVE  NoticeMove(c)
  <2>1. req[s].c \in Changes /\ change[req[s].c] \in Row
    BY <1>6, <1>a, HeldRow DEF EnterApprovalChain, AdvanceTx, Approving, RetainTx, At
  <2>2. CASE EnterApprovalChain(s)
    <3>1. /\ change'[c].sched = change[c].sched
          /\ change'[c].applied = change[c].applied
      BY <1>a, <2>1, <2>2 DEF EnterApprovalChain, Write, Row
    <3>2. QED
      BY <1>1, <3>1
  <2>3. CASE AdvanceTx(s)
    <3>1. /\ change'[c].sched = change[c].sched
          /\ change'[c].applied = change[c].applied
      BY <1>a, <2>1, <2>3 DEF AdvanceTx, Write, Row
    <3>2. QED
      BY <1>1, <3>1
  <2>4. CASE RetainTx(s)
    <3>1. /\ change'[c].sched = change[c].sched
          /\ change'[c].applied = change[c].applied
      BY <1>a, <2>1, <2>4 DEF RetainTx, Write, Row
    <3>2. QED
      BY <1>1, <3>1
  <2>5. QED
    BY <1>6, <2>2, <2>3, <2>4
<1>7. ASSUME NEW s \in Writers, RejectTx(s) PROVE NoticeMove(c)
  <2>1. req[s].c \in Changes /\ change[req[s].c] \in Row
    BY <1>7, <1>a, HeldRow DEF RejectTx, At
  <2>2. CASE UNCHANGED change
    BY <1>1, <2>2
  <2>3. CASE Write(req[s].c, [change[req[s].c] EXCEPT !.stage = "REJECTED"])
    <3>1. /\ change'[c].sched = change[c].sched
          /\ change'[c].applied = change[c].applied
      BY <1>a, <2>1, <2>3 DEF Write, Row
    <3>2. QED
      BY <1>1, <3>1
  <2>4. QED
    BY <1>7, <2>2, <2>3 DEF RejectTx
<1>8. ASSUME NEW s \in Writers, SamQuickRejectTx(s) PROVE NoticeMove(c)
  <2>1. req[s].c \in Changes /\ change[req[s].c] \in Row
    BY <1>8, <1>a, HeldRow DEF SamQuickRejectTx, At
  <2>2. CASE UNCHANGED change
    BY <1>1, <2>2
  <2>3. CASE Write(req[s].c, [change[req[s].c] EXCEPT !.quick = "REJECTED",
                     !.retention = "RETAIN", !.crm = "SAM_LOCAL_REJECTED"])
    <3>1. /\ change'[c].sched = change[c].sched
          /\ change'[c].applied = change[c].applied
      BY <1>a, <2>1, <2>3 DEF Write, Row
    <3>2. QED
      BY <1>1, <3>1
  <2>4. QED
    BY <1>8, <2>2, <2>3 DEF SamQuickRejectTx
<1>9. ASSUME NEW s \in Writers, ApproveArcChangeTx(s) PROVE NoticeMove(c)
  <2>1. req[s].c \in Changes /\ change[req[s].c] \in Row
    BY <1>9, <1>a, HeldRow DEF ApproveArcChangeTx, Approving, At
  <2>2. CASE req[s].c = c
    <3>1. change'[c].sched = change[c].sched
      BY <1>9, <1>a, <2>2 DEF ApproveArcChangeTx, Approved, Write, Row
    <3>2. QED
      BY <1>9, <2>2, <3>1 DEF ApproveArcChangeTx, NoticeMove
  <2>3. QED
    BY <1>2, <1>9, <2>1, <2>2 DEF ApproveArcChangeTx
<1>10. ASSUME NEW s \in Writers, ApproveQuickTx(s) PROVE NoticeMove(c)
  <2>1. req[s].c \in Changes /\ change[req[s].c] \in Row
    BY <1>10, <1>a, HeldRow DEF ApproveQuickTx, Approving, At
  <2>2. CASE req[s].c = c
    <3>1. change'[c].applied = change[c].applied
      BY <1>10, <1>a, <2>2 DEF ApproveQuickTx, Approved, Write, Row
    <3>2. QED
      BY <1>10, <2>2, <3>1 DEF ApproveQuickTx, NoticeMove
  <2>3. QED
    BY <1>2, <1>10, <2>1, <2>2 DEF ApproveQuickTx
<1>11. ASSUME NEW s \in Writers, ApproveDisconnectionTx(s) PROVE NoticeMove(c)
  <2>1. req[s].c \in Changes /\ change[req[s].c] \in Row
    BY <1>11, <1>a, HeldRow DEF ApproveDisconnectionTx, Approving, At
  <2>2. /\ change'[c].sched = change[c].sched
        /\ change'[c].applied = change[c].applied
    BY <1>11, <1>a, <2>1 DEF ApproveDisconnectionTx, Approved, Write, Row
  <2>3. QED
    BY <1>1, <2>2
<1>12. ASSUME NEW s \in Writers, SamQuickApproveTx(s) PROVE NoticeMove(c)
  <2>1. /\ req[s].c \in Changes /\ change[req[s].c] \in Row
        /\ change[req[s].c].mode = "QUICK"
    BY <1>12, <1>a, HeldRow DEF SamQuickApproveTx, At, HandlersHoldRows, Holds
  <2>2. CASE req[s].c = c
    <3>1. change'[c].applied = change[c].applied
      BY <1>12, <1>a, <2>2 DEF SamQuickApproveTx, Write, Row
    <3>2. QED
      BY <2>1, <2>2, <3>1 DEF NoticeMove
  <2>3. QED
    BY <1>2, <1>12, <2>1, <2>2 DEF SamQuickApproveTx
<1>13. ASSUME NEW s \in Writers, ProceedTx(s) PROVE NoticeMove(c)
  <2>1. /\ req[s].c \in Changes /\ change[req[s].c] \in Row
        /\ req[s].born \in Nat /\ req[s].born >= change[req[s].c].raisedOn
    BY <1>13, <1>a, HeldRow DEF ProceedTx, At, HandlersHoldRows, Holds
  <2>2. CASE req[s].c = c
    <3>1. change'[c].applied = change[c].applied
      BY <1>13, <1>a, <2>2 DEF ProceedTx, Write, Row
    <3>2. change'[c].sched = req[s].born + NoticeDays
      BY <1>13, <1>a, <2>2 DEF ProceedTx, Write, Row
    <3>3. change[c].raisedOn \in Nat /\ NoticeDays \in Nat
      BY <1>a DEF Row, DomainAssumption
    <3>4. change'[c].sched >= NoticeEnd(c)
      BY <2>1, <2>2, <3>2, <3>3 DEF NoticeEnd
    <3>5. QED
      BY <3>1, <3>4 DEF NoticeMove
  <2>3. QED
    BY <1>2, <1>13, <2>1, <2>2 DEF ProceedTx
<1>14. ASSUME NEW s \in Readers, ApplyTx(s) PROVE NoticeMove(c)
  <2>1. /\ req[s].c \in Changes /\ change[req[s].c] \in Row
        /\ Served(req[s].c)
    BY <1>14, <1>a, <1>b, HeldRow DEF ApplyTx, At, Sound, PickedServedRows
  <2>2. CASE req[s].c = c
    <3>1. change'[c].sched = change[c].sched
      BY <1>14, <1>a, <2>2 DEF ApplyTx, Write, Row
    <3>2. QED
      BY <2>1, <2>2, <3>1 DEF NoticeMove
  <2>3. QED
    BY <1>2, <1>14, <2>1, <2>2 DEF ApplyTx
<1>15. ASSUME UNCHANGED change PROVE NoticeMove(c)
  BY <1>1, <1>15
<1>16. QED
  BY <1>3, <1>4, <1>5, <1>6, <1>7, <1>8, <1>9, <1>10, <1>11, <1>12, <1>13, <1>14, <1>15,
     OtherSteps DEF RowWrite

LEMMA NoticeStep ==
  ASSUME DomainAssumption, LedgerAssumption, ChainInvariant, [Next]_vars
  PROVE  NoticeIsScheduled' /\ NoticeIsServed'
<1>1. \A s \in Slots : PickedServedRows(req[s])'
  BY SoundStep DEF Sound
<1>2. today \in Nat /\ today' \in Nat /\ today' >= today
  BY DaysPass DEF ChainInvariant, TypeOK, LedgerTypeOK
<1>3. ASSUME NEW c \in Changes, c < nextId
      PROVE  /\ UnderNotice(c)' /\ change'[c].sched # Never => change'[c].sched >= NoticeEnd(c)'
             /\ UnderNotice(c)' /\ change'[c].applied => today' >= NoticeEnd(c)'
  <2>1. RowKept(c) /\ NoticeMove(c)
    BY <1>3, RowsAreKept, NoticeMoves
  <2>2. NoticeEnd(c)' = NoticeEnd(c) /\ (UnderNotice(c)' => UnderNotice(c))
    BY <2>1 DEF RowKept, NoticeEnd, UnderNotice
  <2>3. NoticeEnd(c) \in Nat /\ change[c] \in Row
    BY DEF ChainInvariant, TypeOK, LedgerTypeOK, Row, NoticeEnd, DomainAssumption
  <2>4. /\ UnderNotice(c) /\ change[c].sched # Never => change[c].sched >= NoticeEnd(c)
        /\ UnderNotice(c) /\ change[c].applied => today >= NoticeEnd(c)
    <3>1. NoticeIsScheduled /\ NoticeIsServed
      BY DEF ChainInvariant
    <3>2. UnderNotice(c) /\ change[c].sched # Never => change[c].sched >= NoticeEnd(c)
      BY <3>1 DEF NoticeIsScheduled
    <3>3. UnderNotice(c) /\ change[c].applied => today >= NoticeEnd(c)
      BY <3>1 DEF NoticeIsServed, UnderNotice, NoticeEnd
    <3>4. QED
      BY <3>2, <3>3
  <2>5. UnderNotice(c)' /\ change'[c].sched # Never => change'[c].sched >= NoticeEnd(c)'
    BY <2>1, <2>2, <2>4 DEF NoticeMove, UnderNotice
  <2>6. UnderNotice(c)' /\ change'[c].applied => today' >= NoticeEnd(c)'
    <3>1. SUFFICES ASSUME UnderNotice(c), change'[c].applied
                   PROVE  today' >= NoticeEnd(c)
      BY <2>2
    <3>2. CASE change[c].applied
      BY <1>2, <2>3, <2>4, <3>1, <3>2
    <3>3. CASE ~change[c].applied
      <4>1. change'[c].applied # change[c].applied
        BY <3>1, <3>3
      <4>2. Served(c)
        BY <2>1, <3>1, <4>1 DEF NoticeMove, UnderNotice
      <4>3. QED
        BY <1>2, <2>3, <3>1, <4>2 DEF Served
    <3>4. QED
      BY <3>2, <3>3
  <2>7. QED
    BY <2>5, <2>6
<1>4. ASSUME NEW c \in Changes, ~(c < nextId), UnderNotice(c)'
      PROVE  change'[c].sched = Never /\ ~change'[c].applied
  <2>1. c \in Int /\ nextId \in Int
    BY DEF Changes, ChainInvariant, TypeOK, LedgerTypeOK
  <2>2. change[c].type = "NONE"
    BY <1>4 DEF ChainInvariant, RowsInOrder, BlankRow, NewRow, NoForm
  <2>3. QED
    BY <1>4, <2>1, <2>2, RowsBeyond DEF Inserted, UnderNotice
<1>5. NoticeIsScheduled'
  BY <1>1, <1>3, <1>4 DEF NoticeIsScheduled
<1>6. NoticeIsServed'
  BY <1>3, <1>4 DEF NoticeIsServed, UnderNotice, NoticeEnd
<1>7. QED
  BY <1>5, <1>6
-----------------------------------------------------------------------------
(* How a step moves an account                                             *)

Untouched(a) ==
  /\ status'[a] = status[a]
  /\ arc'[a] = arc[a]
  /\ edited \subseteq edited'

Parked(a) ==
  /\ status'[a] = "PENDING_APPROVAL"
  /\ arc'[a] = arc[a]
  /\ \E c \in Changes : change'[c].acct = a /\ change'[c].stage \in PendingStages

Booked(a) ==
  /\ status'[a] = "TERMINATED"
  /\ arc'[a] = 0
  /\ \E c \in Changes : /\ change'[c].acct = a
                        /\ change'[c].type = "DISCONNECTION"
                        /\ change'[c].applied

Released(a) ==
  /\ status'[a] \notin {"PENDING_APPROVAL", "TERMINATED"}
  /\ \/ arc'[a] = arc[a]
     \/ \E c \in Changes : /\ change[c].acct = a
                           /\ change[c].type \in ChargeTypes
                           /\ change[c].newArc = arc'[a]
                           /\ "PENDING_ACCOUNTS" \in change'[c].signed

Edited(a) == status'[a] # "PENDING_APPROVAL" /\ a \in edited' \ edited

AccountMove(a) == Untouched(a) \/ Parked(a) \/ Booked(a) \/ Released(a) \/ Edited(a)

LEMMA AccountMoves ==
  ASSUME DomainAssumption, LedgerAssumption, ChainInvariant, [Next]_vars,
         NEW a \in Accounts
  PROVE  AccountMove(a)
<1> USE DEF Slots
<1>a. /\ change \in [Changes -> Row]
      /\ status \in [Accounts -> ContractStatus] /\ arc \in [Accounts -> Nat]
      /\ TypeOK /\ RowsInOrder /\ HandlersHoldRows
  BY DEF ChainInvariant, TypeOK, LedgerTypeOK
<1>b. \A s \in Slots : req[s] \in Request /\ Sound(req[s])
  BY InvariantIsSound
<1>1. ASSUME NEW c \in Changes, NEW to \in {"ACTIVE", "DISCONNECTING", "PROBABLE_CHURN"},
             change[c].acct \in Accounts, MoveAccount(c, to), UNCHANGED <<arc, edited>>
      PROVE  AccountMove(a)
  <2>1. CASE change[c].acct = a
    <3>1. status'[a] = to /\ arc'[a] = arc[a]
      BY <1>1, <1>a, <2>1 DEF MoveAccount
    <3>2. QED
      BY <3>1 DEF AccountMove, Released
  <2>2. CASE change[c].acct # a
    BY <1>1, <1>a, <2>2 DEF AccountMove, Untouched, MoveAccount
  <2>3. QED
    BY <2>1, <2>2
<1>2. ASSUME UNCHANGED <<status, arc, edited>> PROVE AccountMove(a)
  BY <1>2 DEF AccountMove, Untouched
<1>3. ASSUME NEW s \in Writers, CommitTx(s) \/ AdvanceTx(s) PROVE AccountMove(a)
  BY <1>2, <1>3 DEF CommitTx, AdvanceTx
<1>4. ASSUME NEW s \in Writers, AutoRetainTx(s) PROVE AccountMove(a)
  <2>1. PICK d \in req[s].due : MoveAccount(d, "ACTIVE")
    BY <1>4 DEF AutoRetainTx
  <2>2. d \in Changes /\ d < nextId
    BY <1>b DEF Request, Sound, Holds
  <2>3. change[d].acct \in Accounts
    BY <1>a, <2>2 DEF RowsInOrder
  <2>4. QED
    BY <1>1, <1>4, <2>1, <2>2, <2>3 DEF AutoRetainTx
<1>5. ASSUME NEW s \in Slots, At(s, "route") \/ At(s, "decideTx") \/ At(s, "samQuickTx")
                              \/ At(s, "retainTx") \/ At(s, "proceedTx") \/ At(s, "applyTx")
      PROVE  /\ req[s].c \in Changes /\ change[req[s].c] \in Row
             /\ change[req[s].c].acct \in Accounts
  BY <1>5, <1>a, HeldRow DEF At, RowsInOrder, Holds, HandlersHoldRows
<1>6. ASSUME NEW s \in Writers, EnterApprovalChain(s) PROVE AccountMove(a)
  <2>1. /\ req[s].c \in Changes /\ change[req[s].c] \in Row
        /\ change[req[s].c].acct \in Accounts
    BY <1>5, <1>6 DEF EnterApprovalChain
  <2>2. CASE change[req[s].c].acct = a
    <3>1. change'[req[s].c].acct = a
      BY <1>6, <1>a, <2>1, <2>2 DEF EnterApprovalChain, Write, Row
    <3>2. change'[req[s].c].stage \in PendingStages
      BY <1>6, <1>a, <2>1 DEF EnterApprovalChain, Write, Row, InitialStage, PendingStages
    <3>3. status'[a] = "PENDING_APPROVAL" /\ arc'[a] = arc[a]
      BY <1>6, <1>a, <2>1, <2>2 DEF EnterApprovalChain, MoveAccount
    <3>4. QED
      BY <2>1, <3>1, <3>2, <3>3 DEF AccountMove, Parked
  <2>3. CASE change[req[s].c].acct # a
    BY <1>6, <1>a, <2>1, <2>3 DEF EnterApprovalChain, AccountMove, Untouched, MoveAccount
  <2>4. QED
    BY <2>2, <2>3
<1>7. ASSUME NEW s \in Writers, ApproveArcChangeTx(s) PROVE AccountMove(a)
  <2>1. /\ req[s].c \in Changes /\ change[req[s].c] \in Row
        /\ change[req[s].c].acct \in Accounts
        /\ At(s, "decideTx") /\ NextOf(s) = "APPROVED" /\ change[req[s].c].type # "DISCONNECTION"
    BY <1>5, <1>7 DEF ApproveArcChangeTx, Approving
  <2>2. CASE change[req[s].c].acct = a
    <3>1. status'[a] = "ACTIVE"
      BY <1>7, <1>a, <2>1, <2>2 DEF ApproveArcChangeTx, MoveAccount
    <3>2. arc'[a] = change[req[s].c].newArc
      BY <1>7, <1>a, <2>1, <2>2 DEF ApproveArcChangeTx
    <3>3. req[s].seen \in change'[req[s].c].signed
      BY <1>7, <1>a, <2>1 DEF ApproveArcChangeTx, Approved, Write, Row
    <3>4. req[s].seen = "PENDING_ACCOUNTS"
      <4>1. req[s].seen \in PendingStages /\ MayStandAt(req[s].c, req[s].seen)
        BY <1>b, <2>1 DEF Sound, SawEarnedStage, At
      <4>2. req[s].seen # "PENDING_SUPER_ADMIN_2"
        BY <2>1, <4>1 DEF MayStandAt
      <4>3. req[s].seen # "PENDING_SAM_HEAD"
        BY <2>1 DEF NextOf, NextStage
      <4>4. QED
        BY <4>1, <4>2, <4>3 DEF PendingStages
    <3>5. change[req[s].c].type \in ChargeTypes
      <4>1. req[s].c < nextId
        BY <1>b, <2>1 DEF Sound, Holds, At
      <4>2. QED
        BY <1>a, <2>1, <4>1 DEF RowsInOrder, ChangeTypes, ChargeTypes
    <3>6. QED
      BY <2>1, <2>2, <3>1, <3>2, <3>3, <3>4, <3>5 DEF AccountMove, Released
  <2>3. CASE change[req[s].c].acct # a
    BY <1>7, <1>a, <2>1, <2>3 DEF ApproveArcChangeTx, AccountMove, Untouched, MoveAccount
  <2>4. QED
    BY <2>2, <2>3
<1>8. ASSUME NEW s \in Writers, ApproveQuickTx(s) \/ ApproveDisconnectionTx(s)
      PROVE  AccountMove(a)
  BY <1>1, <1>5, <1>8 DEF ApproveQuickTx, ApproveDisconnectionTx, Approving
<1>9. ASSUME NEW s \in Writers, RejectTx(s) \/ SamQuickRejectTx(s) PROVE AccountMove(a)
  <2>1. \/ UNCHANGED <<status, arc, edited>>
        \/ MoveAccount(req[s].c, "ACTIVE") /\ UNCHANGED <<arc, edited>>
    BY <1>9 DEF RejectTx, SamQuickRejectTx
  <2>2. At(s, "decideTx") \/ At(s, "samQuickTx")
    BY <1>9 DEF RejectTx, SamQuickRejectTx
  <2>3. QED
    BY <1>1, <1>2, <1>5, <2>1, <2>2
<1>10. ASSUME NEW s \in Writers, SamQuickApproveTx(s) \/ RetainTx(s) \/ ProceedTx(s)
       PROVE  AccountMove(a)
  BY <1>1, <1>5, <1>10 DEF SamQuickApproveTx, RetainTx, ProceedTx
<1>11. ASSUME NEW s \in Writers, BackfillTx(s) PROVE AccountMove(a)
  <2>1. req[s].a \in Accounts /\ req[s].arc \in Nat /\ nextId \in Changes
    BY <1>11, <1>b DEF BackfillTx, At, Sound, Holds, Request
  <2>2. CASE req[s].a = a
    <3>1. status'[a] = "TERMINATED" /\ arc'[a] = 0
      BY <1>11, <1>a, <2>2 DEF BackfillTx
    <3>2. PICK effectiveDate \in 0..MaxDay :
            Write(nextId, BackfilledRow(req[s].a, req[s].arc, today, effectiveDate))
      BY <1>11 DEF BackfillTx
    <3>3. change'[nextId] = BackfilledRow(a, req[s].arc, today, effectiveDate)
      BY <1>a, <2>1, <2>2, <3>2 DEF Write
    <3>4. /\ change'[nextId].acct = a
          /\ change'[nextId].type = "DISCONNECTION"
          /\ change'[nextId].applied
      BY <3>3 DEF BackfilledRow, NewRow, NormalDisconnection
    <3>5. QED
      BY <2>1, <3>1, <3>4 DEF AccountMove, Booked
  <2>3. CASE req[s].a # a
    BY <1>11, <1>a, <2>1, <2>3 DEF BackfillTx, AccountMove, Untouched
  <2>4. QED
    BY <2>2, <2>3
<1>12. ASSUME NEW s \in Readers, ApplyTx(s) PROVE AccountMove(a)
  <2>1. /\ req[s].c \in Changes /\ change[req[s].c] \in Row
        /\ change[req[s].c].acct \in Accounts /\ change[req[s].c].type = "DISCONNECTION"
    BY <1>5, <1>12, <1>b DEF ApplyTx, Sound, Holds, At
  <2>2. /\ status' = [status EXCEPT ![change[req[s].c].acct] = "TERMINATED"]
        /\ arc' = [arc EXCEPT ![change[req[s].c].acct] = 0]
    BY <1>12, <2>1 DEF ApplyTx, ApplyToAccount
  <2>3. CASE change[req[s].c].acct = a
    <3>1. status'[a] = "TERMINATED" /\ arc'[a] = 0
      BY <1>a, <2>2, <2>3
    <3>2. /\ change'[req[s].c].acct = a
          /\ change'[req[s].c].type = "DISCONNECTION"
          /\ change'[req[s].c].applied
      BY <1>12, <1>a, <2>1, <2>3 DEF ApplyTx, Write, Row
    <3>3. QED
      BY <2>1, <3>1, <3>2 DEF AccountMove, Booked
  <2>4. CASE change[req[s].c].acct # a
    BY <1>12, <1>a, <2>1, <2>2, <2>4 DEF ApplyTx, AccountMove, Untouched
  <2>5. QED
    BY <2>3, <2>4
<1>13. ASSUME NEW b \in Base, AdminUpdate(b) PROVE AccountMove(a)
  <2>1. PICK charge \in Arcs \cup {0}, to \in ContractStatus \ {"PENDING_APPROVAL"} :
          arc' = [arc EXCEPT ![b] = charge] /\ status' = [status EXCEPT ![b] = to]
    BY <1>13 DEF AdminUpdate
  <2>2. b \in Accounts /\ b \notin edited /\ edited' = edited \cup {b}
    BY <1>13 DEF AdminUpdate, DomainAssumption
  <2>3. CASE b = a
    <3>1. status'[a] = to
      BY <1>a, <2>1, <2>3
    <3>2. QED
      BY <2>2, <2>3, <3>1 DEF AccountMove, Edited
  <2>4. CASE b # a
    BY <1>a, <2>1, <2>2, <2>4 DEF AccountMove, Untouched
  <2>5. QED
    BY <2>3, <2>4
<1>14. QED
  BY <1>2, <1>3, <1>4, <1>6, <1>7, <1>8, <1>9, <1>10, <1>11, <1>12, <1>13, OtherSteps
  DEF RowWrite

LEMMA TookEffectStep ==
  ASSUME DomainAssumption, LedgerAssumption, ChainInvariant, [Next]_vars
  PROVE  ApprovedTookEffect'
<1> SUFFICES ASSUME NEW c \in Changes, change'[c].stage = "APPROVED"
             PROVE  TookEffect(c)'
  BY DEF ApprovedTookEffect
<1>1. CASE c < nextId
  <2>1. RowKept(c) /\ StageMove(c)
    BY <1>1, RowsAreKept, StageMoves
  <2>2. CASE change'[c].stage = change[c].stage
    <3>1. TookEffect(c)
      BY <2>2 DEF ChainInvariant, ApprovedTookEffect
    <3>2. QED
      BY <2>1, <3>1 DEF RowKept, TookEffect
  <2>3. QED
    BY <2>1, <2>2 DEF StageMove, InitialStage
<1>2. CASE ~(c < nextId)
  <2>1. c \in Int /\ nextId \in Int
    BY DEF Changes, ChainInvariant, TypeOK, LedgerTypeOK
  <2>2. change[c].stage = "NOT_REQUIRED"
    BY <1>2 DEF ChainInvariant, RowsInOrder, BlankRow, NewRow
  <2>3. QED
    BY <1>2, <2>1, <2>2, RowsBeyond DEF Inserted
<1>3. QED
  BY <1>1, <1>2

LEMMA ParkedStep ==
  ASSUME DomainAssumption, LedgerAssumption, ChainInvariant, [Next]_vars
  PROVE  ParkedAccountIsQueued'
<1> DEFINE Queued(a) == \E c \in Changes : change'[c].acct = a /\ change'[c].stage \in PendingStages
<1> SUFFICES ASSUME NEW a \in Accounts, status'[a] = "PENDING_APPROVAL"
             PROVE  Queued(a)
  BY DEF ParkedAccountIsQueued
<1>1. CASE status[a] = "PENDING_APPROVAL"
  <2>1. PICK c \in Changes : change[c].acct = a /\ change[c].stage \in PendingStages
    BY <1>1 DEF ChainInvariant, ParkedAccountIsQueued
  <2>2. c < nextId
    BY <2>1 DEF ChainInvariant, RowsInOrder, BlankRow, NewRow, PendingStages
  <2>3. RowKept(c) /\ StageMove(c)
    BY <2>2, RowsAreKept, StageMoves
  <2>4. change'[c].acct = a
    BY <2>1, <2>3 DEF RowKept
  <2>5. change'[c].stage \in PendingStages
    <3>1. ASSUME NEW seen \in PendingStages,
                 change'[c].stage = NextStage(seen, change[c].type = "DISCONNECTION"),
                 change'[c].stage # "APPROVED"
          PROVE  change'[c].stage \in PendingStages
      BY <3>1 DEF NextStage, PendingStages
    <3>2. QED
      BY <2>1, <2>3, <3>1 DEF StageMove, InitialStage, PendingStages
  <2>6. QED
    BY <2>4, <2>5
<1>2. CASE status[a] # "PENDING_APPROVAL"
  BY <1>2, AccountMoves DEF AccountMove, Untouched, Parked, Booked, Released, Edited
<1>3. QED
  BY <1>1, <1>2

LEMMA BookedStep ==
  ASSUME DomainAssumption, LedgerAssumption, ChainInvariant, [Next]_vars
  PROVE  TerminationIsBooked'
<1> DEFINE Behind(a) == \E c \in Changes : /\ change'[c].acct = a
                                         /\ change'[c].type = "DISCONNECTION"
                                         /\ change'[c].applied
<1> SUFFICES ASSUME NEW a \in Accounts, a \notin edited', status'[a] = "TERMINATED"
             PROVE  arc'[a] = 0 /\ Behind(a)
  BY DEF TerminationIsBooked
<1>1. CASE status[a] = "TERMINATED" /\ arc'[a] = arc[a] /\ a \notin edited
  <2>1. arc[a] = 0
    BY <1>1 DEF ChainInvariant, TerminationIsBooked
  <2>2. PICK c \in Changes : /\ change[c].acct = a
                             /\ change[c].type = "DISCONNECTION"
                             /\ change[c].applied
    BY <1>1 DEF ChainInvariant, TerminationIsBooked
  <2>3. c < nextId
    BY <2>2 DEF ChainInvariant, RowsInOrder, BlankRow, NewRow
  <2>4. RowKept(c)
    BY <2>3, RowsAreKept
  <2>5. QED
    BY <1>1, <2>1, <2>2, <2>4 DEF RowKept
<1>2. QED
  BY <1>1, AccountMoves DEF AccountMove, Untouched, Parked, Booked, Released, Edited
-----------------------------------------------------------------------------
(* The theorems                                                            *)

LEMMA InvariantInit ==
  ASSUME DomainAssumption, LedgerAssumption, Init
  PROVE  ChainInvariant
<1> USE DEF Init, LedgerInit
<1>1. TypeOK
  BY InitType
<1>2. \A c \in Changes : /\ change[c] = BlankRow /\ change[c].stage = "NOT_REQUIRED"
                        /\ change[c].type = "NONE" /\ ~change[c].applied
  BY DEF BlankRow, NewRow, NoForm
<1>3. \A s \in Slots : Sound(req[s])
  BY DEF Sound, Holds, SawEarnedStage, PickedServedRows, Idle
<1>4. \A c \in Changes : c >= nextId
  BY DEF Changes
<1>5. RowsInOrder
  BY <1>2, <1>4 DEF RowsInOrder, Changes
<1>6. StagesAreEarned
  BY <1>2, <1>3 DEF StagesAreEarned, MayStandAt, Before, Sound
<1>7. NoticeIsScheduled
  BY <1>2, <1>3 DEF NoticeIsScheduled, UnderNotice, Sound
<1>8. HandlersHoldRows
  BY <1>3 DEF HandlersHoldRows, Sound
<1>9. ApprovedTookEffect /\ NoticeIsServed
  BY <1>2 DEF ApprovedTookEffect, NoticeIsServed
<1>10. ParkedAccountIsQueued /\ TerminationIsBooked
  BY DEF ParkedAccountIsQueued, TerminationIsBooked
<1>11. QED
  BY <1>1, <1>5, <1>6, <1>7, <1>8, <1>9, <1>10 DEF ChainInvariant

LEMMA InvariantStep ==
  ASSUME DomainAssumption, LedgerAssumption, ChainInvariant, [Next]_vars
  PROVE  ChainInvariant'
<1>1. TypeOK'
  BY TypeStep DEF ChainInvariant
<1>2. RowsInOrder' /\ StagesAreEarned'
  BY RowsInOrderStep, StagesAreEarnedStep
<1>3. HandlersHoldRows'
  BY SoundStep DEF HandlersHoldRows, Sound
<1>4. NoticeIsScheduled' /\ NoticeIsServed'
  BY NoticeStep
<1>5. ApprovedTookEffect' /\ ParkedAccountIsQueued' /\ TerminationIsBooked'
  BY TookEffectStep, ParkedStep, BookedStep
<1>6. QED
  BY <1>1, <1>2, <1>3, <1>4, <1>5 DEF ChainInvariant

\* The invariant of the approval chain holds in every reachable state: whatever
\* awaits the handlers of commit(), decide(), samQuickDecision(),
\* retentionDecision(), backfillDisconnection() and the sweep are suspended at.
THEOREM InvariantHolds == Spec => []ChainInvariant
<1>1. Init => ChainInvariant
  BY InvariantInit, DomainAssumption, LedgerAssumption
<1>2. ChainInvariant /\ [Next]_vars => ChainInvariant'
  BY InvariantStep, DomainAssumption, LedgerAssumption
<1>3. QED
  BY <1>1, <1>2, PTL DEF Spec

\* Every column and every value a handler carries across an await keeps its type.
THEOREM TypesHold == Spec => []TypeOK
<1>1. ChainInvariant => TypeOK
  BY DEF ChainInvariant
<1>2. QED
  BY <1>1, InvariantHolds, PTL

\* No change is APPROVED with one of the gates nextStage() puts before it
\* unsigned, however stale the stage an approver decided on.
THEOREM EveryGateIsPassed == Spec => []ApprovedPassedEveryGate
<1>1. ChainInvariant => ApprovedPassedEveryGate
  <2>1. SUFFICES ASSUME StagesAreEarned, NEW c \in Changes, change[c].stage = "APPROVED"
                 PROVE  Gates(c) \subseteq change[c].signed
    BY DEF ChainInvariant, ApprovedPassedEveryGate
  <2>2. Gates(c) \cap PendingStages \subseteq change[c].signed
    BY <2>1 DEF StagesAreEarned, MayStandAt, Before
  <2>3. Gates(c) \subseteq PendingStages
    BY DEF Gates, PendingStages
  <2>4. QED
    BY <2>2, <2>3
<1>2. QED
  BY <1>1, InvariantHolds, PTL

\* No change stays APPROVED without the effect applyTerminalApproval gives it.
THEOREM EveryApprovalTakesEffect == Spec => []ApprovedTookEffect
<1>1. ChainInvariant => ApprovedTookEffect
  BY DEF ChainInvariant
<1>2. QED
  BY <1>1, InvariantHolds, PTL

\* No account is parked in PENDING_APPROVAL with nobody able to release it.
THEOREM NoAccountIsStranded == Spec => []ParkedAccountIsQueued
<1>1. ChainInvariant => ParkedAccountIsQueued
  BY DEF ChainInvariant
<1>2. QED
  BY <1>1, InvariantHolds, PTL

\* A terminated account that no ADMIN edited bills nothing and has its applied
\* disconnection row (applyChangeToAccount, backfillDisconnection).
THEOREM EveryTerminationIsBooked == Spec => []TerminationIsBooked
<1>1. ChainInvariant => TerminationIsBooked
  BY DEF ChainInvariant
<1>2. QED
  BY <1>1, InvariantHolds, PTL

\* No normal disconnection raised by commit() is swept before the notice
\* retentionDecision() owes it has run.
THEOREM EveryNoticeIsServed == Spec => []NoticeIsServed
<1>1. ChainInvariant => NoticeIsServed
  BY DEF ChainInvariant
<1>2. QED
  BY <1>1, InvariantHolds, PTL

\* The charge of an account moves only by a termination, by the signature of
\* ACCOUNTS on the change that asks for it, or by an audited ADMIN edit.
THEOREM EveryChargeMoveIsSigned == Spec => ChargeMovesBySignature
<1> DEFINE Accountable(a) ==
             \/ arc'[a] = 0 /\ status'[a] = "TERMINATED"
             \/ \E c \in Changes : /\ change[c].acct = a
                                   /\ change[c].type \in ChargeTypes
                                   /\ change[c].newArc = arc'[a]
                                   /\ "PENDING_ACCOUNTS" \in change'[c].signed
             \/ a \in edited' \ edited
<1>1. ASSUME ChainInvariant, [Next]_vars, NEW a \in Accounts, arc'[a] # arc[a]
      PROVE  Accountable(a)
  <2>1. AccountMove(a)
    BY <1>1, AccountMoves, DomainAssumption, LedgerAssumption
  <2>2. QED
    BY <1>1, <2>1 DEF AccountMove, Untouched, Parked, Booked, Released, Edited
<1>2. ChainInvariant /\ [Next]_vars
        => [\A a \in Accounts : arc'[a] # arc[a] => Accountable(a)]_vars
  BY <1>1
<1>3. QED
  BY <1>2, InvariantHolds, PTL DEF Spec, ChargeMovesBySignature

-----------------------------------------------------------------------------
(* The BASE book keeps the contract of ChangeContract                      *)

\* Nothing a row's customer goes by changes once the row is there.
LEMMA TermsAreKept ==
  ASSUME DomainAssumption, LedgerAssumption, ChainInvariant, [Next]_vars, nextId' = nextId
  PROVE  AllTerms' = AllTerms
<1>1. ASSUME NEW c \in Changes PROVE TermsOf(c)' = TermsOf(c)
  <2>1. c \in Int /\ nextId \in Int
    BY DEF Changes, ChainInvariant, TypeOK, LedgerTypeOK
  <2>2. CASE c < nextId
    <3>1. RowKept(c)
      BY <2>2, RowsAreKept
    <3>2. QED
      BY <3>1 DEF RowKept, TermsOf
  <2>3. CASE c >= nextId
    <3>1. change'[c] = change[c]
      BY <2>1, <2>3, RowsBeyond DEF Inserted
    <3>2. QED
      BY <3>1 DEF TermsOf
  <2>4. QED
    BY <2>1, <2>2, <2>3
<1>2. QED
  BY <1>1 DEF AllTerms

\* A row that is there has terms.
LEMMA WrittenTerms ==
  ASSUME DomainAssumption, ChainInvariant, NEW c \in Changes, c < nextId
  PROVE  /\ AllTerms[c].acct = change[c].acct
         /\ AllTerms[c].kind = KindOf(change[c].type)
         /\ AllTerms[c] # Contract!Unwritten
<1>1. change[c].acct \in Accounts
  BY DEF ChainInvariant, RowsInOrder
<1>2. QED
  BY <1>1 DEF AllTerms, TermsOf, KindOf, Contract!Unwritten, DomainAssumption

\* An edited row may come to be granted and in effect; the others stay as they are.
LEMMA OneRowMoves ==
  ASSUME DomainAssumption, LedgerAssumption, ChainInvariant, [Next]_vars,
         NEW c \in Changes, c < nextId, NEW row \in Row, Write(c, row)
  PROVE  /\ GrantedChanges' \in {GrantedChanges, GrantedChanges \cup {c}}
         /\ row.applied = change[c].applied => InEffect' = InEffect
         /\ row.applied => InEffect' = InEffect \cup {c}
<1>1. change \in [Changes -> Row] /\ change' = [change EXCEPT ![c] = row]
  BY DEF ChainInvariant, TypeOK, LedgerTypeOK, Write
<1>2. change'[c] = row /\ \A d \in Changes \ {c} : change'[d] = change[d]
  BY <1>1
<1>3. RowKept(c)
  BY RowsAreKept
<1>4. c \in GrantedChanges => c \in GrantedChanges'
  BY <1>2, <1>3 DEF GrantedChanges, Raised, Gates, RowKept
<1>5. \A d \in Changes \ {c} : d \in GrantedChanges' <=> d \in GrantedChanges
  BY <1>2 DEF GrantedChanges, Raised, Gates
<1>6. GrantedChanges \subseteq Changes /\ GrantedChanges' \subseteq Changes
  BY DEF GrantedChanges, Raised
<1>7. GrantedChanges' \in {GrantedChanges, GrantedChanges \cup {c}}
  <2>1. CASE c \in GrantedChanges'
    BY <1>4, <1>5, <1>6, <2>1
  <2>2. CASE c \notin GrantedChanges'
    BY <1>4, <1>5, <1>6, <2>2
  <2>3. QED
    BY <2>1, <2>2
<1>8. row.applied = change[c].applied => InEffect' = InEffect
  BY <1>2 DEF InEffect
<1>9. row.applied => InEffect' = InEffect \cup {c}
  BY <1>2 DEF InEffect
<1>10. QED
  BY <1>7, <1>8, <1>9

\* An account moved to another status than TERMINATED is reopened at most.
LEMMA AccountReopens ==
  ASSUME TypeOK, NEW c \in Changes, NEW to, to # "TERMINATED",
         MoveAccount(c, to), change[c].acct \in Accounts
  PROVE  ClosedAccounts' = ClosedAccounts \ {change[c].acct}
<1>1. status \in [Accounts -> ContractStatus]
  BY DEF TypeOK, LedgerTypeOK
<1>2. QED
  BY <1>1 DEF MoveAccount, ClosedAccounts

LEMMA AccountCloses ==
  ASSUME TypeOK, NEW a \in Accounts, status' = [status EXCEPT ![a] = "TERMINATED"]
  PROVE  ClosedAccounts' = ClosedAccounts \cup {a}
<1>1. status \in [Accounts -> ContractStatus]
  BY DEF TypeOK, LedgerTypeOK
<1>2. QED
  BY <1>1 DEF ClosedAccounts

\* A step that edits a row short of its effect and moves its account short of
\* TERMINATED is a decision.
LEMMA EditDecides ==
  ASSUME DomainAssumption, LedgerAssumption, ChainInvariant, [Next]_vars,
         NEW c \in Changes, c < nextId, NEW row \in Row, Write(c, row),
         row.applied = change[c].applied,
         UNCHANGED status \/ \E to \in ContractStatus \ {"TERMINATED"} : MoveAccount(c, to),
         UNCHANGED <<arc, nextId, today, edited>>
  PROVE  Contract!Decide(c)
<1>1. AllTerms' = AllTerms
  BY TermsAreKept
<1>2. AllTerms[c] # Contract!Unwritten /\ AllTerms[c].acct = change[c].acct
  BY WrittenTerms
<1>3. GrantedChanges' \in {GrantedChanges, GrantedChanges \cup {c}} /\ InEffect' = InEffect
  BY OneRowMoves
<1>4. ClosedAccounts' \in {ClosedAccounts, ClosedAccounts \ {change[c].acct}}
  <2>1. CASE UNCHANGED status
    BY <2>1 DEF ClosedAccounts
  <2>2. ASSUME NEW to \in ContractStatus \ {"TERMINATED"}, MoveAccount(c, to)
        PROVE  ClosedAccounts' = ClosedAccounts \ {change[c].acct}
    BY <2>2, AccountReopens DEF ChainInvariant, RowsInOrder
  <2>3. QED
    BY <2>1, <2>2
<1>5. QED
  BY <1>1, <1>2, <1>3, <1>4 DEF Contract!Decide

\* A step that inserts a row writes its terms.
LEMMA InsertWrites ==
  ASSUME DomainAssumption, LedgerAssumption, ChainInvariant, [Next]_vars,
         nextId \in Changes, NEW row \in Row, Write(nextId, row), nextId' = nextId + 1,
         row.acct \in Accounts, row.type \in ChangeTypes
  PROVE  /\ Contract!Writes(nextId)
         /\ AllTerms'[nextId].acct = row.acct /\ AllTerms'[nextId].kind = KindOf(row.type)
         /\ row.crm = "BACKFILL_LOCAL" => AllTerms'[nextId].from = today
         /\ InEffect' = IF row.applied THEN InEffect \cup {nextId} ELSE InEffect
<1> DEFINE c == nextId
<1>1. /\ change \in [Changes -> Row] /\ change' = [change EXCEPT ![c] = row]
      /\ today \in Nat /\ NoticeDays \in Nat /\ c \in Int
  BY DEF ChainInvariant, TypeOK, LedgerTypeOK, Write, DomainAssumption
<1>2. change'[c] = row /\ \A d \in Changes \ {c} : change'[d] = change[d]
  BY <1>1
<1>3. change[c] = BlankRow
  BY <1>1 DEF ChainInvariant, RowsInOrder
<1>4. change[c].type = "NONE" /\ ~change[c].applied /\ AllTerms[c] = Contract!Unwritten
  BY <1>3, Kinds DEF BlankRow, NewRow, NoForm, AllTerms, TermsOf, Contract!Unwritten
<1>5. row.raisedOn = today
  BY <1>1, <1>2, RowsBeyond DEF Inserted
<1>6. AllTerms'[c] \in Contract!Terms /\ AllTerms'[c].from >= today
  <2> DEFINE from == IF row.type = "DISCONNECTION" /\ row.mode # "QUICK"
                          /\ row.crm # "BACKFILL_LOCAL"
                     THEN today + NoticeDays ELSE today
             charge == IF row.type \in ChargeTypes THEN row.newArc ELSE 0
  <2>1. AllTerms'[c] = [acct |-> row.acct, kind |-> KindOf(row.type), charge |-> charge, from |-> from]
    BY <1>2, <1>5 DEF AllTerms, TermsOf, KindOf
  <2>2. from \in Nat /\ from >= today
    BY <1>1
  <2>3. /\ charge \in Nat
        /\ KindOf(row.type) \in {"ARC_CHANGE", "DISCONNECTION"}
        /\ KindOf(row.type) # "ARC_CHANGE" => charge = 0
    BY DEF Row, KindOf, ChangeTypes
  <2> HIDE DEF from, charge
  <2>4. AllTerms'[c].from >= today
    BY <2>1, <2>2
  <2>5. AllTerms'[c] \in Contract!Terms
    BY <2>1, <2>2, <2>3 DEF Contract!Terms
  <2>6. QED
    BY <2>4, <2>5
<1>7. AllTerms' = [AllTerms EXCEPT ![c] = AllTerms'[c]]
  <2>1. \A d \in Changes \ {c} : AllTerms'[d] = AllTerms[d]
    BY <1>2 DEF AllTerms, TermsOf
  <2>2. QED
    BY <2>1 DEF AllTerms
<1>8. GrantedChanges' \in {GrantedChanges, GrantedChanges \cup {c}}
  <2>1. c \notin GrantedChanges
    BY <1>4, Kinds DEF GrantedChanges
  <2>2. \A d \in Changes \ {c} : d \in GrantedChanges' <=> d \in GrantedChanges
    BY <1>2 DEF GrantedChanges, Raised, Gates
  <2>3. GrantedChanges \subseteq Changes /\ GrantedChanges' \subseteq Changes
    BY DEF GrantedChanges, Raised
  <2>4. QED
    BY <2>1, <2>2, <2>3
<1>9. Contract!Writes(c)
  BY <1>4, <1>6, <1>7, <1>8 DEF Contract!Writes
<1>10. AllTerms'[c].acct = row.acct /\ AllTerms'[c].kind = KindOf(row.type)
  BY <1>2 DEF AllTerms, TermsOf, KindOf
<1>11. row.crm = "BACKFILL_LOCAL" => AllTerms'[c].from = today
  BY <1>2, <1>5 DEF AllTerms, TermsOf
<1>12. InEffect' = IF row.applied THEN InEffect \cup {c} ELSE InEffect
  BY <1>2, <1>4 DEF InEffect
<1>13. QED
  BY <1>9, <1>10, <1>11, <1>12

\* The row and the account a handler works on, by the await it is suspended at.
LEMMA HandlerRow ==
  ASSUME ChainInvariant, NEW s \in Slots,
         req[s].pc \in {"route", "decideTx", "samQuickTx", "retainTx", "proceedTx", "applyTx"}
  PROVE  /\ req[s] \in Request /\ req[s].born \in Nat
         /\ req[s].c \in Changes /\ req[s].c < nextId
         /\ change[req[s].c] \in Row /\ change[req[s].c].acct \in Accounts
         /\ change[req[s].c].type \in ChangeTypes
BY HeldRow DEF ChainInvariant

\* The steps that only decide.
LEMMA DecidingSteps ==
  ASSUME DomainAssumption, LedgerAssumption, ChainInvariant, [Next]_vars, NEW s \in Writers,
         \/ AutoRetainTx(s) \/ EnterApprovalChain(s) \/ AdvanceTx(s) \/ ApproveQuickTx(s)
         \/ ApproveDisconnectionTx(s) \/ RejectTx(s) \/ SamQuickApproveTx(s)
         \/ SamQuickRejectTx(s) \/ RetainTx(s) \/ ProceedTx(s)
  PROVE  [Contract!ContractNext]_(Contract!contractVars)
<1> DEFINE Decides == \E c \in Changes : Contract!Decide(c)
           Stutters == UNCHANGED <<change, status, arc, today, edited>>
           Other == ContractStatus \ {"TERMINATED"}
<1>a. s \in Slots
  BY DEF Slots
<1>b. {"ACTIVE", "DISCONNECTING", "PROBABLE_CHURN", "PENDING_APPROVAL"} \subseteq Other
  BY DEF ContractStatus
<1>c. /\ req[s] \in Request /\ Sound(req[s])
      /\ change \in [Changes -> Row]
  BY <1>a, InvariantIsSound DEF ChainInvariant, TypeOK, LedgerTypeOK
<1> HIDE DEF Other
<1>1. CASE AutoRetainTx(s)
  <2>1. PICK c \in req[s].due : /\ Write(c, [change[c] EXCEPT !.retention = "RETAIN"])
                                /\ MoveAccount(c, "ACTIVE")
    BY <1>1 DEF AutoRetainTx
  <2>2. c \in Changes /\ c < nextId
    BY <1>c DEF Request, Sound, Holds
  <2>3. /\ change[c] \in Row
        /\ [change[c] EXCEPT !.retention = "RETAIN"] \in Row
        /\ [change[c] EXCEPT !.retention = "RETAIN"].applied = change[c].applied
    BY <1>c, <2>2 DEF Row
  <2>4. Contract!Decide(c)
    BY <1>1, <1>b, <2>1, <2>2, <2>3, EditDecides DEF AutoRetainTx, Other
  <2>5. QED
    BY <2>2, <2>4 DEF Contract!ContractNext
<1>2. ASSUME req[s].pc \in {"route", "decideTx", "samQuickTx", "retainTx", "proceedTx"},
             NEW row \in Row, Write(req[s].c, row),
             row.applied = change[req[s].c].applied,
             UNCHANGED status \/ \E to \in Other : MoveAccount(req[s].c, to),
             UNCHANGED <<arc, nextId, today, edited>>
      PROVE  Decides
  BY <1>2, <1>a, HandlerRow, EditDecides DEF Other
<1>3. CASE EnterApprovalChain(s)
  <2> DEFINE row == [change[req[s].c] EXCEPT !.stage = InitialStage(change[req[s].c].mode)]
  <2>1. req[s].pc = "route" /\ change[req[s].c] \in Row
    BY <1>3, <1>a, HandlerRow DEF EnterApprovalChain, At
  <2>2. row \in Row /\ row.applied = change[req[s].c].applied
    BY <2>1 DEF Row, InitialStage, ApprovalStatus, PendingStages
  <2>3. Decides
    BY <1>2, <1>3, <1>b, <2>1, <2>2 DEF EnterApprovalChain
  <2>4. QED
    BY <2>3 DEF Contract!ContractNext
<1>4. CASE AdvanceTx(s)
  <2> DEFINE row == [change[req[s].c] EXCEPT !.stage = NextOf(s), !.signed = @ \cup {req[s].seen}]
  <2>1. req[s].pc = "decideTx" /\ change[req[s].c] \in Row
    BY <1>4, <1>a, HandlerRow DEF AdvanceTx, Approving, At
  <2>2. req[s].seen \in PendingStages /\ NextOf(s) \in ApprovalStatus
    BY <1>a, <2>1, NextOfType DEF At, ApprovalStatus, ChainInvariant
  <2>3. row \in Row /\ row.applied = change[req[s].c].applied
    BY <2>1, <2>2 DEF Row
  <2>4. Decides
    BY <1>2, <1>4, <2>1, <2>3 DEF AdvanceTx
  <2>5. QED
    BY <2>4 DEF Contract!ContractNext
<1>5. CASE ApproveQuickTx(s)
  <2> DEFINE row == [Approved(s) EXCEPT !.retention = "PROCEED",
                                        !.sched = req[s].born + change[req[s].c].days]
  <2>1. /\ req[s].pc = "decideTx" /\ change[req[s].c] \in Row /\ req[s].born \in Nat
        /\ req[s].seen \in PendingStages
    BY <1>5, <1>a, HandlerRow, NextOfType DEF ApproveQuickTx, Approving, At, ChainInvariant
  <2>2. Approved(s) \in Row /\ Approved(s).applied = change[req[s].c].applied
    BY <1>a, <2>1, ApprovedType DEF Approved, Row
  <2>3. req[s].born + change[req[s].c].days \in Days
    BY <2>1 DEF Row, Days
  <2>4. row \in Row /\ row.applied = change[req[s].c].applied
    BY <2>2, <2>3 DEF Row
  <2>5. Decides
    BY <1>2, <1>5, <1>b, <2>1, <2>4 DEF ApproveQuickTx
  <2>6. QED
    BY <2>5 DEF Contract!ContractNext
<1>6. CASE ApproveDisconnectionTx(s)
  <2> DEFINE row == [Approved(s) EXCEPT !.prompt = req[s].born + WindowDays]
  <2>1. /\ req[s].pc = "decideTx" /\ change[req[s].c] \in Row /\ req[s].born \in Nat
        /\ req[s].seen \in PendingStages
    BY <1>6, <1>a, HandlerRow, NextOfType DEF ApproveDisconnectionTx, Approving, At, ChainInvariant
  <2>2. Approved(s) \in Row /\ Approved(s).applied = change[req[s].c].applied
    BY <1>a, <2>1, ApprovedType DEF Approved, Row
  <2>3. req[s].born + WindowDays \in Days
    BY <2>1 DEF DomainAssumption, Days
  <2>4. row \in Row /\ row.applied = change[req[s].c].applied
    BY <2>2, <2>3 DEF Row
  <2>5. Decides
    BY <1>2, <1>6, <1>b, <2>1, <2>4 DEF ApproveDisconnectionTx
  <2>6. QED
    BY <2>5 DEF Contract!ContractNext
<1>7. ASSUME Stutters PROVE UNCHANGED Contract!contractVars
  BY <1>7 DEF Contract!contractVars, AllTerms, TermsOf, GrantedChanges, Raised, Gates, InEffect,
              ClosedAccounts
<1>8. CASE RejectTx(s)
  <2> DEFINE row == [change[req[s].c] EXCEPT !.stage = "REJECTED"]
  <2>1. req[s].pc = "decideTx" /\ change[req[s].c] \in Row
    BY <1>8, <1>a, HandlerRow DEF RejectTx, At
  <2>2. row \in Row /\ row.applied = change[req[s].c].applied
    BY <2>1 DEF Row, ApprovalStatus
  <2>3. Decides \/ Stutters
    BY <1>2, <1>8, <1>b, <2>1, <2>2 DEF RejectTx
  <2>4. QED
    BY <1>7, <2>3 DEF Contract!ContractNext
<1>9. CASE SamQuickApproveTx(s)
  <2> DEFINE row == [change[req[s].c] EXCEPT !.quick = "APPROVED", !.retention = "PROCEED",
                                             !.sched = req[s].born + change[req[s].c].days,
                                             !.crm = "SAM_LOCAL_APPROVED"]
  <2>1. req[s].pc = "samQuickTx" /\ change[req[s].c] \in Row /\ req[s].born \in Nat
    BY <1>9, <1>a, HandlerRow DEF SamQuickApproveTx, At
  <2>2. req[s].born + change[req[s].c].days \in Days
    BY <2>1 DEF Row, Days
  <2>3. row \in Row /\ row.applied = change[req[s].c].applied
    BY <2>1, <2>2 DEF Row, CrmStatus
  <2>4. Decides
    BY <1>2, <1>9, <1>b, <2>1, <2>3 DEF SamQuickApproveTx
  <2>5. QED
    BY <2>4 DEF Contract!ContractNext
<1>10. CASE SamQuickRejectTx(s)
  <2> DEFINE row == [change[req[s].c] EXCEPT !.quick = "REJECTED", !.retention = "RETAIN",
                                             !.crm = "SAM_LOCAL_REJECTED"]
  <2>1. req[s].pc = "samQuickTx" /\ change[req[s].c] \in Row
    BY <1>10, <1>a, HandlerRow DEF SamQuickRejectTx, At
  <2>2. row \in Row /\ row.applied = change[req[s].c].applied
    BY <2>1 DEF Row, CrmStatus
  <2>3. Decides \/ Stutters
    BY <1>2, <1>10, <1>b, <2>1, <2>2 DEF SamQuickRejectTx
  <2>4. QED
    BY <1>7, <2>3 DEF Contract!ContractNext
<1>11. CASE RetainTx(s)
  <2> DEFINE row == [change[req[s].c] EXCEPT !.retention = "RETAIN"]
  <2>1. req[s].pc = "retainTx" /\ change[req[s].c] \in Row
    BY <1>11, <1>a, HandlerRow DEF RetainTx, At
  <2>2. row \in Row /\ row.applied = change[req[s].c].applied
    BY <2>1 DEF Row
  <2>3. Decides
    BY <1>2, <1>11, <1>b, <2>1, <2>2 DEF RetainTx
  <2>4. QED
    BY <2>3 DEF Contract!ContractNext
<1>12. CASE ProceedTx(s)
  <2> DEFINE row == [change[req[s].c] EXCEPT !.retention = "PROCEED",
                                !.sched = req[s].born + NoticeDays,
                                !.crm = IF req[s].crm = "NONE" THEN @ ELSE req[s].crm]
  <2>1. req[s].pc = "proceedTx" /\ change[req[s].c] \in Row /\ req[s].born \in Nat
    BY <1>12, <1>a, HandlerRow DEF ProceedTx, At
  <2>2. req[s].born + NoticeDays \in Days /\ req[s].crm \in CrmStatus
    BY <1>c, <2>1 DEF DomainAssumption, Days, Request, CrmStatus
  <2>3. row \in Row /\ row.applied = change[req[s].c].applied
    BY <2>1, <2>2 DEF Row
  <2>4. Decides
    BY <1>2, <1>12, <1>b, <2>1, <2>3 DEF ProceedTx
  <2>5. QED
    BY <2>4 DEF Contract!ContractNext
<1>13. QED
  BY <1>1, <1>3, <1>4, <1>5, <1>6, <1>8, <1>9, <1>10, <1>11, <1>12

\* The other steps that write a row insert one, or bring one into effect.
LEMMA EffectSteps ==
  ASSUME DomainAssumption, LedgerAssumption, ChainInvariant, [Next]_vars, NEW s \in Slots,
         CommitTx(s) \/ BackfillTx(s) \/ ApproveArcChangeTx(s) \/ ApplyTx(s)
  PROVE  Contract!ContractNext
<1>a. /\ req[s] \in Request /\ Sound(req[s]) /\ TypeOK
      /\ change \in [Changes -> Row] /\ arc \in [Accounts -> Nat]
  BY InvariantIsSound DEF ChainInvariant, TypeOK, LedgerTypeOK
<1>1. CASE CommitTx(s)
  <2> DEFINE row == NewRow(req[s].a, req[s].form, req[s].arc, today)
  <2>1. req[s].a \in Accounts /\ req[s].form \in Forms /\ req[s].arc \in Nat /\ today \in Nat
    BY <1>1, <1>a DEF CommitTx, At, Sound, Holds, Request, TypeOK, LedgerTypeOK
  <2>2. row \in Row /\ req[s].form.type \in ChangeTypes
    BY <2>1, NewRowType DEF Forms, ChangeTypes, ChargeTypes
  <2>3. row.acct \in Accounts /\ row.type \in ChangeTypes /\ ~row.applied
    BY <2>1, <2>2 DEF NewRow
  <2>4. Contract!Writes(nextId) /\ InEffect' = InEffect
    BY <1>1, <2>2, <2>3, InsertWrites DEF CommitTx
  <2>5. Contract!Raise(nextId)
    BY <1>1, <2>4 DEF CommitTx, Contract!Raise, ClosedAccounts
  <2>6. QED
    BY <1>1, <2>5 DEF CommitTx, Contract!ContractNext
<1>2. CASE BackfillTx(s)
  <2>1. req[s].a \in Accounts /\ req[s].arc \in Nat /\ today \in Nat
    BY <1>2, <1>a DEF BackfillTx, At, Sound, Holds, Request, TypeOK, LedgerTypeOK
  <2>2. PICK effectiveDate \in 0..MaxDay :
          Write(nextId, BackfilledRow(req[s].a, req[s].arc, today, effectiveDate))
    BY <1>2 DEF BackfillTx
  <2> DEFINE row == BackfilledRow(req[s].a, req[s].arc, today, effectiveDate)
  <2>3. row \in Row
    BY <2>1, BackfilledRowType DEF LedgerAssumption
  <2>4. row.acct = req[s].a /\ row.type = "DISCONNECTION" /\ row.applied /\ row.crm = "BACKFILL_LOCAL"
    BY DEF BackfilledRow, NewRow, NormalDisconnection
  <2>5. /\ Contract!Writes(nextId) /\ AllTerms'[nextId].acct = req[s].a
        /\ AllTerms'[nextId].kind = "DISCONNECTION" /\ AllTerms'[nextId].from = today
        /\ InEffect' = InEffect \cup {nextId}
    <3> HIDE DEF row
    <3>1. row.type \in ChangeTypes
      BY <2>4 DEF ChangeTypes, ChargeTypes
    <3>2. QED
      BY <1>2, <2>1, <2>2, <2>3, <2>4, <3>1, Kinds, InsertWrites DEF BackfillTx, row
  <2>6. ClosedAccounts' = ClosedAccounts \cup {req[s].a}
    BY <1>2, <1>a, <2>1, AccountCloses DEF BackfillTx
  <2>7. Contract!RecordTermination(nextId)
    BY <1>2, <2>5, <2>6 DEF BackfillTx, Contract!RecordTermination
  <2>8. QED
    BY <1>2, <2>7 DEF BackfillTx, Contract!ContractNext
<1>3. ASSUME At(s, "decideTx") \/ At(s, "applyTx")
      PROVE  /\ req[s].c \in Changes /\ req[s].c < nextId
             /\ change[req[s].c] \in Row /\ change[req[s].c].acct \in Accounts
             /\ change[req[s].c].type \in ChangeTypes /\ change[req[s].c].raisedOn <= today
             /\ today \in Nat /\ change[req[s].c].raisedOn \in Nat
  BY <1>3, HandlerRow DEF At, ChainInvariant, RowsInOrder, TypeOK, LedgerTypeOK, Row
<1>4. CASE ApproveArcChangeTx(s)
  <2> DEFINE c == req[s].c
             row == [Approved(s) EXCEPT !.applied = TRUE]
  <2>1. At(s, "decideTx") /\ NextOf(s) = "APPROVED" /\ change[c].type \in ChargeTypes
    BY <1>3, <1>4 DEF ApproveArcChangeTx, Approving, ChangeTypes, ChargeTypes
  <2>2. c \in Changes /\ c < nextId /\ change[c] \in Row /\ change[c].acct \in Accounts
    BY <1>3, <2>1
  <2>3. req[s].seen = "PENDING_ACCOUNTS"
    <3>1. req[s].seen \in PendingStages /\ MayStandAt(c, req[s].seen)
      BY <1>a, <2>1 DEF Sound, SawEarnedStage, At
    <3>2. req[s].seen # "PENDING_SUPER_ADMIN_2"
      BY <2>1, <3>1, Kinds DEF MayStandAt
    <3>3. req[s].seen # "PENDING_SAM_HEAD"
      BY <2>1 DEF NextOf, NextStage
    <3>4. QED
      BY <3>1, <3>2, <3>3 DEF PendingStages
  <2>4. Approved(s) \in Row
    BY <2>2, <2>3, ApprovedType DEF PendingStages
  <2>5. row \in Row /\ row.applied /\ "PENDING_ACCOUNTS" \in row.signed /\ row.type \in ChargeTypes
    BY <2>1, <2>2, <2>3, <2>4 DEF Row, Approved
  <2>6. GrantedChanges' = GrantedChanges \cup {c} /\ InEffect' = InEffect \cup {c}
    <3> HIDE DEF row, c
    <3>1. Write(c, row)
      BY <1>4 DEF ApproveArcChangeTx, row, c
    <3>2. GrantedChanges' \in {GrantedChanges, GrantedChanges \cup {c}} /\ InEffect' = InEffect \cup {c}
      BY <2>2, <2>5, <3>1, OneRowMoves
    <3>3. change'[c] = row
      BY <1>a, <2>2, <3>1 DEF Write
    <3>4. c \in GrantedChanges'
      BY <2>2, <2>5, <3>3, Kinds DEF GrantedChanges, Raised, Gates
    <3>5. QED
      BY <3>2, <3>4
  <2>7. AllTerms' = AllTerms
    BY <1>4, TermsAreKept DEF ApproveArcChangeTx
  <2>8. /\ AllTerms[c].acct = change[c].acct /\ AllTerms[c].kind = "ARC_CHANGE"
        /\ AllTerms[c].charge = change[c].newArc /\ AllTerms[c].from <= today
    BY <1>3, <2>1, <2>2, Kinds DEF AllTerms, TermsOf
  <2>9. ClosedAccounts' = ClosedAccounts \ {change[c].acct}
    BY <1>4, <1>a, <2>2, AccountReopens DEF ApproveArcChangeTx
  <2>10. Contract!ChangeCharge(c)
    BY <1>4, <2>6, <2>7, <2>8, <2>9 DEF ApproveArcChangeTx, Contract!ChangeCharge
  <2>11. QED
    BY <2>2, <2>10 DEF Contract!ContractNext
<1>5. CASE ApplyTx(s)
  <2> DEFINE c == req[s].c
             row == [change[c] EXCEPT !.applied = TRUE]
  <2>1. At(s, "applyTx") /\ change[c].type = "DISCONNECTION" /\ Served(c)
    BY <1>5, <1>a DEF ApplyTx, At, Sound, Holds, PickedServedRows
  <2>2. c \in Changes /\ c < nextId /\ change[c] \in Row /\ change[c].acct \in Accounts
    BY <1>3, <2>1
  <2>3. row \in Row /\ row.applied /\ row.signed = change[c].signed /\ row.type = change[c].type
    BY <2>2 DEF Row
  <2>4. GrantedChanges' = GrantedChanges /\ InEffect' = InEffect \cup {c}
    <3> HIDE DEF row, c
    <3>1. Write(c, row)
      BY <1>5 DEF ApplyTx, row, c
    <3>2. GrantedChanges' \in {GrantedChanges, GrantedChanges \cup {c}} /\ InEffect' = InEffect \cup {c}
      BY <2>2, <2>3, <3>1, OneRowMoves
    <3>3. change'[c] = row
      BY <1>a, <2>2, <3>1 DEF Write
    <3>4. c \notin GrantedChanges'
      BY <2>1, <2>3, <3>3, Kinds DEF GrantedChanges, Gates
    <3>5. QED
      BY <3>2, <3>4
  <2>5. AllTerms' = AllTerms
    BY <1>5, TermsAreKept DEF ApplyTx
  <2>6. /\ AllTerms[c].acct = change[c].acct /\ AllTerms[c].kind = "DISCONNECTION"
        /\ AllTerms[c].from <= today
    BY <1>3, <2>1, <2>2, Kinds DEF AllTerms, TermsOf, Served, UnderNotice, NoticeEnd
  <2>7. /\ status' = [status EXCEPT ![change[c].acct] = "TERMINATED"]
        /\ arc' = [arc EXCEPT ![change[c].acct] = 0]
    BY <1>5, <2>1 DEF ApplyTx, ApplyToAccount
  <2>8. ClosedAccounts' = ClosedAccounts \cup {change[c].acct}
    BY <1>a, <2>2, <2>7, AccountCloses
  <2>9. Contract!Terminate(c)
    BY <1>5, <2>4, <2>5, <2>6, <2>7, <2>8 DEF ApplyTx, Contract!Terminate
  <2>10. QED
    BY <2>2, <2>9 DEF Contract!ContractNext
<1>6. QED
  BY <1>1, <1>2, <1>4, <1>5

\* What one step of the BASE book may do as the contract sees it.
ContractAllows == [Contract!ContractNext]_(Contract!contractVars)

\* Every step of the BASE book is a step of the contract, or nothing to it.
LEMMA ContractStepOfChain ==
  ASSUME DomainAssumption, LedgerAssumption, ChainInvariant, [Next]_vars
  PROVE  ContractAllows
<1>1. CASE RowWrite
  BY <1>1, DecidingSteps, EffectSteps DEF RowWrite, Slots, ContractAllows
<1>2. ASSUME UNCHANGED <<change, status, arc, today, edited>> PROVE ContractAllows
  BY <1>2 DEF ContractAllows, Contract!contractVars, AllTerms, TermsOf, GrantedChanges, Raised, Gates,
              InEffect, ClosedAccounts
<1>3. CASE Tick
  <2>1. UNCHANGED <<AllTerms, GrantedChanges, InEffect, ClosedAccounts>>
    BY <1>3 DEF Tick, AllTerms, TermsOf, GrantedChanges, Raised, Gates, InEffect, ClosedAccounts
  <2>2. Contract!NextDay
    BY <1>3, <2>1 DEF Tick, Contract!NextDay
  <2>3. QED
    BY <2>2 DEF ContractAllows, Contract!ContractNext
<1>4. ASSUME NEW a \in Base, AdminUpdate(a) PROVE ContractAllows
  <2>1. a \in Accounts /\ arc \in [Accounts -> Nat] /\ Arcs \cup {0} \subseteq Nat
        /\ status \in [Accounts -> ContractStatus]
    BY DEF DomainAssumption, ChainInvariant, TypeOK, LedgerTypeOK
  <2>2. PICK charge \in Arcs \cup {0}, to \in ContractStatus \ {"PENDING_APPROVAL"} :
          arc' = [arc EXCEPT ![a] = charge] /\ status' = [status EXCEPT ![a] = to]
    BY <1>4 DEF AdminUpdate
  <2>3. ClosedAccounts' \in {ClosedAccounts \cup {a}, ClosedAccounts \ {a}}
    <3>1. CASE to = "TERMINATED"
      BY <2>1, <2>2, <3>1 DEF ClosedAccounts
    <3>2. CASE to # "TERMINATED"
      BY <2>1, <2>2, <3>2 DEF ClosedAccounts
    <3>3. QED
      BY <3>1, <3>2
  <2>4. UNCHANGED <<AllTerms, GrantedChanges, InEffect>>
    BY <1>4 DEF AdminUpdate, AllTerms, TermsOf, GrantedChanges, Raised, Gates, InEffect
  <2>5. arc'[a] \in Nat /\ arc' = [arc EXCEPT ![a] = arc'[a]]
    BY <2>1, <2>2
  <2>6. Contract!Correct(a)
    BY <1>4, <2>3, <2>4, <2>5 DEF AdminUpdate, Contract!Correct
  <2>7. QED
    BY <2>1, <2>6 DEF ContractAllows, Contract!ContractNext
<1>5. ASSUME NEW s \in Writers, Arrival(s) PROVE ContractAllows
  BY <1>2, <1>5 DEF Arrival, CommitRead, DecideRead, SamQuickRead, RetentionRead, BackfillRead
<1>6. ASSUME NEW s \in Writers, AutoRetainFind(s) \/ ProceedCrm(s) PROVE ContractAllows
  BY <1>2, <1>6 DEF AutoRetainFind, ProceedCrm
<1>7. ASSUME NEW s \in Readers, SweepRead(s) \/ ApplyRead(s) PROVE ContractAllows
  BY <1>2, <1>7 DEF SweepRead, ApplyRead
<1>8. ASSUME (\E s \in Slots : CallFails(s)) \/ Restart \/ BookClosed \/ UNCHANGED vars
      PROVE  ContractAllows
  BY <1>2, <1>8 DEF CallFails, Restart, BookClosed, vars
<1>9. ASSUME NEW s \in Writers, WriterStep(s) PROVE ContractAllows
  BY <1>1, <1>6, <1>9 DEF WriterStep, RowWrite
<1>10. ASSUME NEW s \in Readers, ReaderStep(s) PROVE ContractAllows
  BY <1>1, <1>7, <1>10 DEF ReaderStep, RowWrite
<1>11. QED
  BY <1>3, <1>4, <1>5, <1>8, <1>9, <1>10 DEF Next

LEMMA ContractInitOfChain ==
  ASSUME DomainAssumption, Init
  PROVE  Contract!ContractInit
<1>1. /\ change = [c \in Changes |-> BlankRow]
      /\ BlankRow.acct = NoAccount /\ BlankRow.type = "NONE" /\ BlankRow.raisedOn = 0
      /\ ~BlankRow.applied
  BY DEF Init, LedgerInit, BlankRow, NewRow, NoForm
<1>2. AllTerms = [c \in Changes |-> Contract!Unwritten]
  BY <1>1, Kinds DEF AllTerms, TermsOf, Contract!Unwritten
<1>3. GrantedChanges = {} /\ InEffect = {}
  BY <1>1 DEF GrantedChanges, Raised, InEffect
<1>4. ClosedAccounts = {}
  BY DEF Init, LedgerInit, ClosedAccounts
<1>5. arc \in [Accounts -> Nat]
  BY DEF Init, LedgerInit, DomainAssumption
<1>6. QED
  BY <1>2, <1>3, <1>4, <1>5 DEF Init, LedgerInit, Contract!ContractInit

\* The BASE book keeps the contract: each step of its handlers, sweeps and faults is
\* one ChangeContract allows, or moves nothing the contract speaks of.
THEOREM ChainImplementsContract == Spec => ChainKeepsContract
<1>1. Init => Contract!ContractInit
  BY ContractInitOfChain, DomainAssumption
<1>2. ChainInvariant /\ [Next]_vars => [Contract!ContractNext]_(Contract!contractVars)
  BY ContractStepOfChain, DomainAssumption, LedgerAssumption DEF ContractAllows
<1>3. QED
  BY <1>1, <1>2, InvariantHolds, PTL DEF Spec, ChainKeepsContract, Contract!ContractSpec

Promised ==
  INSTANCE ChangeContractProofs WITH
    terms     <- AllTerms,
    granted   <- GrantedChanges,
    inEffect  <- InEffect,
    charge    <- arc,
    closed    <- ClosedAccounts,
    corrected <- edited,
    day       <- today

\* So the BASE book keeps what follows from the contract: no charge changed that
\* ACCOUNTS has not signed, no effect before its day, no account closed without its
\* termination, every charge the opening one or what an applied change asks for.
THEOREM ChainPromises ==
  ASSUME NEW opening
  PROVE  Spec /\ arc = opening
           => /\ []Contract!EffectsAreDue
              /\ []Contract!ClosedOnRecord
              /\ []Contract!ChargeIsExplained(opening)
<1>1. Promised!ContractSpec /\ arc = opening
        => /\ []Promised!EffectsAreDue
           /\ []Promised!ClosedOnRecord
           /\ []Promised!ChargeIsExplained(opening)
  BY Promised!ContractIsSound
<1>2. Contract!ContractInit => Promised!ContractInit
  BY DEF Contract!ContractInit, Promised!ContractInit, Contract!Unwritten, Promised!Unwritten
<1>3. [Contract!ContractNext]_(Contract!contractVars)
        => [Promised!ContractNext]_(Promised!contractVars)
  BY DEF Contract!ContractNext, Promised!ContractNext, Contract!contractVars, Promised!contractVars,
         Contract!Raise, Promised!Raise, Contract!Decide, Promised!Decide,
         Contract!ChangeCharge, Promised!ChangeCharge, Contract!Terminate, Promised!Terminate,
         Contract!RecordTermination, Promised!RecordTermination, Contract!Correct, Promised!Correct,
         Contract!NextDay, Promised!NextDay, Contract!Writes, Promised!Writes,
         Contract!Unwritten, Promised!Unwritten, Contract!Terms, Promised!Terms
<1>4. /\ Promised!EffectsAreDue => Contract!EffectsAreDue
      /\ Promised!ClosedOnRecord => Contract!ClosedOnRecord
      /\ Promised!ChargeIsExplained(opening) => Contract!ChargeIsExplained(opening)
  BY DEF Promised!EffectsAreDue, Contract!EffectsAreDue, Promised!ClosedOnRecord,
         Contract!ClosedOnRecord, Promised!ChargeIsExplained, Contract!ChargeIsExplained
<1>5. QED
  BY <1>1, <1>2, <1>3, <1>4, ChainImplementsContract, PTL
  DEF ChainKeepsContract, Contract!ContractSpec, Promised!ContractSpec
-----------------------------------------------------------------------------
(* The waterfall of the BASE book reconciles                               *)

\* A row is there once it is numbered below nextId.
LEMMA RaisedRows ==
  ASSUME ChainInvariant, NEW c \in Changes
  PROVE  c \in Raised <=> c < nextId
<1>1. c < nextId => change[c].type \in ChangeTypes
  BY DEF ChainInvariant, RowsInOrder
<1>2. ~(c < nextId) => change[c].type = "NONE"
  BY DEF ChainInvariant, RowsInOrder, BlankRow, NewRow, NoForm
<1>3. QED
  BY <1>1, <1>2 DEF Raised, ChangeTypes, ChargeTypes

LEMMA ChainRowsMove ==
  ASSUME DomainAssumption, LedgerAssumption, ChainInvariant, ChainInvariant', [Next]_vars
  PROVE  RowsMove
<1>1. ASSUME NEW c \in Raised
      PROVE  /\ c \in Raised'
             /\ change'[c].acct = change[c].acct
             /\ change'[c].type = change[c].type
             /\ change'[c].oldArc = change[c].oldArc
             /\ change'[c].newArc = change[c].newArc
             /\ change[c].applied => change'[c].applied
  <2>1. c \in Changes /\ c < nextId /\ change[c].type # "NONE"
    BY RaisedRows DEF Raised
  <2>2. RowKept(c)
    BY <2>1, RowsAreKept
  <2>3. QED
    BY <2>1, <2>2 DEF RowKept, Raised
<1>2. ASSUME NEW c \in Raised', c \notin Raised
      PROVE  \E s \in Inserting : req[s].a = change'[c].acct /\ req[s].arc = change'[c].oldArc
  <2>1. c \in Changes /\ c \in Int /\ nextId \in Int
    BY DEF Raised, Changes, ChainInvariant, TypeOK, LedgerTypeOK
  <2>2. c >= nextId
    BY <1>2, <2>1, RaisedRows
  <2>3. change'[c] # change[c]
    BY <1>2, <2>1 DEF Raised
  <2>4. Inserted(c)
    BY <2>1, <2>2, <2>3, RowsBeyond
  <2>5. QED
    BY <2>4 DEF Inserted
<1>3. QED
  BY <1>1, <1>2 DEF RowsMove

LEMMA ChainReadsMove ==
  ASSUME DomainAssumption, LedgerAssumption, ChainInvariant, [Next]_vars
  PROVE  ReadsMove
<1> USE DEF Slots
<1>a. req \in [Slots -> Request] /\ \A s \in Slots : req[s] \in Request
  BY DEF ChainInvariant, TypeOK, LedgerTypeOK
<1>b. Idle.pc = "idle"
  BY DEF Idle
<1>1. ASSUME NEW s \in Slots, Finish(s) PROVE ReadsMove
  BY <1>1, <1>a, <1>b, CallReads DEF Finish
<1>2. ASSUME UNCHANGED req PROVE ReadsMove
  BY <1>2 DEF ReadsMove, Inserting
<1>3. ASSUME NEW s \in Writers, Arrival(s) PROVE ReadsMove
  <2>1. ASSUME NEW a \in Base, NEW form \in Offered, CommitRead(s, a, form) PROVE ReadsMove
    BY <2>1, <1>a, CallReads DEF CommitRead, Start, Idle
  <2>2. ASSUME NEW a \in Base, BackfillRead(s, a) PROVE ReadsMove
    BY <2>2, <1>a, CallReads DEF BackfillRead, Start, Idle
  <2>3. ASSUME NEW c \in Changes, NEW verb, DecideRead(s, c, verb) PROVE ReadsMove
    BY <2>3, <1>a, CallReads DEF DecideRead, Start, Idle
  <2>4. ASSUME NEW c \in Changes, NEW verb, SamQuickRead(s, c, verb) PROVE ReadsMove
    BY <2>4, <1>a, CallReads DEF SamQuickRead, Start, Idle
  <2>5. ASSUME NEW c \in Changes, NEW verb, RetentionRead(s, c, verb) PROVE ReadsMove
    <3>1. CASE verb = "RETAIN"
      BY <2>5, <3>1, <1>a, CallReads DEF RetentionRead, Start, Idle
    <3>2. CASE verb # "RETAIN"
      BY <2>5, <3>2, <1>a, CallReads DEF RetentionRead, Start, Idle
    <3>3. QED
      BY <3>1, <3>2
  <2>6. QED
    BY <1>3, <2>1, <2>2, <2>3, <2>4, <2>5 DEF Arrival
<1>4. ASSUME NEW s \in Writers, CommitTx(s) \/ AutoRetainFind(s) \/ AutoRetainTx(s) \/ ProceedCrm(s)
      PROVE  ReadsMove
  <2>1. req[s] \in Request
    BY <1>a
  <2>2. CASE CommitTx(s)
    BY <2>2, <1>a, CallReads DEF CommitTx, Idle
  <2>3. CASE AutoRetainFind(s)
    <3>1. \/ Resume(s, [req[s] EXCEPT !.pc = "route"])
          \/ \E c \in Changes : Resume(s, [req[s] EXCEPT !.pc = "autoRetainTx", !.due = {c}])
      BY <2>3 DEF AutoRetainFind, Undecided, Raised
    <3>2. /\ [req[s] EXCEPT !.pc = "route"].pc = "route"
          /\ \A c \in Changes : [req[s] EXCEPT !.pc = "autoRetainTx", !.due = {c}].pc = "autoRetainTx"
      BY <2>1 DEF Request
    <3>3. QED
      BY <3>1, <3>2, <1>a, CallReads
  <2>4. CASE AutoRetainTx(s)
    <3>1. [req[s] EXCEPT !.pc = "route", !.due = {}].pc = "route"
      BY <2>1 DEF Request
    <3>2. QED
      BY <2>4, <3>1, <1>a, CallReads DEF AutoRetainTx
  <2>5. CASE ProceedCrm(s)
    <3>1. \E mark \in {"ORDERED", "FAILED"} :
            Resume(s, [req[s] EXCEPT !.pc = "proceedTx", !.crm = mark])
      BY <2>5 DEF ProceedCrm
    <3>2. \A mark \in {"ORDERED", "FAILED"} :
            [req[s] EXCEPT !.pc = "proceedTx", !.crm = mark].pc = "proceedTx"
      BY <2>1 DEF Request
    <3>3. QED
      BY <3>1, <3>2, <1>a, CallReads
  <2>6. QED
    BY <1>4, <2>2, <2>3, <2>4, <2>5
<1>5. ASSUME NEW s \in Writers, WriterStep(s) PROVE ReadsMove
  <2>1. CASE CommitTx(s) \/ AutoRetainFind(s) \/ AutoRetainTx(s) \/ ProceedCrm(s)
    BY <1>4, <2>1
  <2>2. CASE ~(CommitTx(s) \/ AutoRetainFind(s) \/ AutoRetainTx(s) \/ ProceedCrm(s))
    BY <1>1, <1>5, <2>2
    DEF WriterStep, EnterApprovalChain, AdvanceTx, ApproveArcChangeTx, ApproveQuickTx,
        ApproveDisconnectionTx, RejectTx, SamQuickApproveTx, SamQuickRejectTx, RetainTx, ProceedTx,
        BackfillTx
  <2>3. QED
    BY <2>1, <2>2
<1>6. ASSUME NEW s \in Readers, ReaderStep(s) PROVE ReadsMove
  <2>1. s \in Slots /\ s \notin Writers /\ Inserting \subseteq Writers /\ Inserting' \subseteq Writers
    BY DEF LedgerAssumption, Inserting
  <2>2. \E call : req' = [req EXCEPT ![s] = call]
    BY <1>6 DEF ReaderStep, SweepRead, ApplyRead, ApplyTx, Start, Resume
  <2>3. \A w \in Writers : req'[w] = req[w]
    BY <1>a, <2>1, <2>2
  <2>4. QED
    BY <2>1, <2>3 DEF ReadsMove, Inserting
<1>7. CASE Restart
  <2>1. Inserting' = {}
    BY <1>7, <1>b DEF Restart, Inserting
  <2>2. QED
    BY <2>1 DEF ReadsMove
<1>8. QED
  BY <1>1, <1>2, <1>3, <1>5, <1>6, <1>7
  DEF Next, CallFails, AdminUpdate, Tick, BookClosed, vars

\* A change in effect on an account is one the contract knows.
LEMMA EffectsInContract ==
  ASSUME DomainAssumption, RowsInOrder, NEW a \in Accounts
  PROVE  EffectsOn(a) = {c \in InEffect : AllTerms[c].acct = a}
<1>1. ASSUME NEW c \in Changes, change[c].acct = a PROVE c \in Raised
  <2>1. c < nextId
    BY <1>1 DEF RowsInOrder, BlankRow, NewRow, DomainAssumption
  <2>2. QED
    BY <2>1 DEF RowsInOrder, ChangeTypes, ChargeTypes, Raised
<1>2. \A c \in Changes : AllTerms[c].acct = change[c].acct
  BY DEF AllTerms, TermsOf
<1>3. QED
  BY <1>1, <1>2 DEF EffectsOn, InEffect, Raised

LEMMA ChainChargeMoves ==
  ASSUME DomainAssumption, LedgerAssumption, ChainInvariant, ChainInvariant', [Next]_vars,
         NEW a \in Accounts \ edited'
  PROVE  a \notin edited /\ ChargeMoves(a, ChangeTypes) /\ OneAtATime(a)
<1>a. ContractAllows
  BY ContractStepOfChain
<1>b. /\ arc \in [Accounts -> Nat]
      /\ EffectsOn(a) = {c \in InEffect : AllTerms[c].acct = a}
      /\ EffectsOn(a)' = {c \in InEffect' : AllTerms'[c].acct = a}
      /\ \A c \in EffectsOn(a)' : TermsOf(c)'.charge = AllTerms'[c].charge
      /\ InEffect \subseteq Changes
  <2>1. EffectsOn(a) = {c \in InEffect : AllTerms[c].acct = a}
    BY EffectsInContract DEF ChainInvariant
  <2>2. EffectsOn(a)' = {c \in InEffect' : AllTerms'[c].acct = a}
    <3>1. ASSUME NEW c \in Changes, change'[c].acct = a PROVE c \in Raised'
      <4>1. c < nextId'
        BY <3>1 DEF ChainInvariant, RowsInOrder, BlankRow, NewRow, DomainAssumption
      <4>2. QED
        BY <4>1 DEF ChainInvariant, RowsInOrder, ChangeTypes, ChargeTypes, Raised
    <3>2. \A c \in Changes : AllTerms'[c].acct = change'[c].acct
      BY DEF AllTerms, TermsOf
    <3>3. QED
      BY <3>1, <3>2 DEF EffectsOn, InEffect, Raised
  <2>3. \A c \in EffectsOn(a)' : TermsOf(c)'.charge = AllTerms'[c].charge
    BY DEF EffectsOn, Raised, AllTerms
  <2>4. QED
    BY <2>1, <2>2, <2>3 DEF InEffect, ChainInvariant, TypeOK, LedgerTypeOK
<1>c. a \in ClosedAccounts' => arc'[a] = 0
  BY DEF ClosedAccounts, ChainInvariant, TerminationIsBooked
<1>d. \A c \in InEffect : AllTerms[c] # Contract!Unwritten
  <2> SUFFICES ASSUME NEW c \in InEffect PROVE AllTerms[c] # Contract!Unwritten
    OBVIOUS
  <2>1. c \in Changes /\ change[c].applied
    BY DEF InEffect
  <2>2. c < nextId
    BY <2>1 DEF ChainInvariant, RowsInOrder, BlankRow, NewRow
  <2>3. QED
    BY <2>1, <2>2, WrittenTerms
\* One change takes effect, as its terms ask.
<1>1. ASSUME edited' = edited, NEW c \in InEffect', InEffect' \subseteq InEffect \cup {c},
             \A d \in InEffect' \ {c} : AllTerms'[d] = AllTerms[d],
             IF AllTerms'[c].acct = a THEN arc'[a] = AllTerms'[c].charge ELSE arc'[a] = arc[a]
      PROVE  a \notin edited /\ ChargeMoves(a, ChangeTypes) /\ OneAtATime(a)
  <2>1. \A d \in EffectsOn(a)' \ EffectsOn(a) : d = c
    BY <1>1, <1>b
  <2>2. QED
    BY <1>1, <1>b, <2>1 DEF ChargeMoves, OneAtATime
\* None does.
<1>2. ASSUME edited \subseteq edited', InEffect' = InEffect, arc'[a] = arc[a],
             \A d \in InEffect : AllTerms'[d] = AllTerms[d]
      PROVE  a \notin edited /\ ChargeMoves(a, ChangeTypes) /\ OneAtATime(a)
  BY <1>2, <1>b DEF ChargeMoves, OneAtATime
<1>3. ASSUME NEW c \in Changes, Contract!Writes(c)
      PROVE  /\ c \notin InEffect
             /\ \A d \in Changes \ {c} : AllTerms'[d] = AllTerms[d]
             /\ AllTerms'[c].kind = "DISCONNECTION" => AllTerms'[c].charge = 0
  <2>1. c \notin InEffect
    BY <1>3, <1>d DEF Contract!Writes
  <2>2. \A d \in Changes \ {c} : AllTerms'[d] = AllTerms[d]
    BY <1>3 DEF Contract!Writes, AllTerms
  <2>3. QED
    BY <2>1, <2>2, Kinds DEF AllTerms, TermsOf
<1>4. ASSUME NEW c \in Changes, Contract!Raise(c) PROVE a \notin edited /\ ChargeMoves(a, ChangeTypes) /\ OneAtATime(a)
  BY <1>2, <1>3, <1>4, <1>b DEF Contract!Raise
<1>5. ASSUME NEW c \in Changes, Contract!Decide(c) PROVE a \notin edited /\ ChargeMoves(a, ChangeTypes) /\ OneAtATime(a)
  BY <1>2, <1>5 DEF Contract!Decide
<1>6. ASSUME NEW c \in Changes, Contract!ChangeCharge(c)
      PROVE  a \notin edited /\ ChargeMoves(a, ChangeTypes) /\ OneAtATime(a)
  BY <1>1, <1>6, <1>b DEF Contract!ChangeCharge
<1>7. ASSUME NEW c \in Changes, Contract!Terminate(c)
      PROVE  a \notin edited /\ ChargeMoves(a, ChangeTypes) /\ OneAtATime(a)
  <2>1. AllTerms' = AllTerms /\ AllTerms[c].kind = "DISCONNECTION" /\ AllTerms[c].charge = 0
    BY <1>7, Kinds DEF Contract!Terminate, AllTerms, TermsOf
  <2>2. IF AllTerms[c].acct = a THEN arc'[a] = 0 ELSE arc'[a] = arc[a]
    BY <1>7, <1>b, <1>c DEF Contract!Terminate
  <2>3. QED
    BY <1>1, <1>7, <2>1, <2>2 DEF Contract!Terminate
<1>8. ASSUME NEW c \in Changes, Contract!RecordTermination(c)
      PROVE  a \notin edited /\ ChargeMoves(a, ChangeTypes) /\ OneAtATime(a)
  <2>1. Contract!Writes(c) /\ AllTerms'[c].kind = "DISCONNECTION"
    BY <1>8 DEF Contract!RecordTermination
  <2>2. AllTerms'[c].charge = 0 /\ \A d \in InEffect' \ {c} : AllTerms'[d] = AllTerms[d]
    BY <1>3, <1>8, <1>b, <2>1 DEF Contract!RecordTermination
  <2>3. IF AllTerms'[c].acct = a THEN arc'[a] = 0 ELSE arc'[a] = arc[a]
    BY <1>8, <1>b DEF Contract!RecordTermination
  <2>4. QED
    BY <1>1, <1>8, <2>2, <2>3 DEF Contract!RecordTermination
<1>9. ASSUME NEW b \in Accounts, Contract!Correct(b) PROVE a \notin edited /\ ChargeMoves(a, ChangeTypes) /\ OneAtATime(a)
  <2>1. a # b
    BY <1>9 DEF Contract!Correct
  <2>2. arc'[a] = arc[a]
    BY <1>9, <1>b, <2>1 DEF Contract!Correct
  <2>3. QED
    BY <1>2, <1>9, <2>2 DEF Contract!Correct
<1>10. ASSUME Contract!NextDay \/ UNCHANGED Contract!contractVars
       PROVE  a \notin edited /\ ChargeMoves(a, ChangeTypes) /\ OneAtATime(a)
  BY <1>2, <1>10 DEF Contract!NextDay, Contract!contractVars
<1>11. QED
  BY <1>a, <1>4, <1>5, <1>6, <1>7, <1>8, <1>9, <1>10 DEF ContractAllows, Contract!ContractNext

\* Every account no ADMIN edited is traced to the changes in effect on it.
AccountsAreTraced == \A a \in Accounts \ edited : IsTraced(a, ChangeTypes)

LEMMA TracedInit ==
  ASSUME DomainAssumption, Init, OpeningBook
  PROVE  AccountsAreTraced
<1>1. Raised = {} /\ Inserting = {}
  BY DEF Init, LedgerInit, Raised, BlankRow, NewRow, NoForm, Inserting, Slots, Idle
<1>2. QED
  BY <1>1 DEF OpeningBook, AccountsAreTraced, IsTraced, AtOpening, EffectsOn

LEMMA TracedStep ==
  ASSUME DomainAssumption, LedgerAssumption, ChainInvariant, ChainInvariant', [Next]_vars,
         AccountsAreTraced
  PROVE  AccountsAreTraced'
<1> SUFFICES ASSUME NEW a \in Accounts \ edited' PROVE IsTraced(a, ChangeTypes)'
  BY DEF AccountsAreTraced
<1>1. a \notin edited /\ ChargeMoves(a, ChangeTypes) /\ OneAtATime(a)
  BY ChainChargeMoves
<1>2. RowsMove /\ ReadsMove
  BY ChainRowsMove, ChainReadsMove
<1>3. IsTraced(a, ChangeTypes)
  BY <1>1 DEF AccountsAreTraced
<1>4. QED
  BY <1>1, <1>2, <1>3, StaysTraced

\* No row in effect waits for approval or is rejected, so existingBase counts each.
LEMMA BaseBuckets ==
  ASSUME LedgerTypeOK,
         \A c \in RowsOf("BASE") :
           change[c].applied => change[c].stage \in {"APPROVED", "NOT_REQUIRED"}
  PROVE  /\ \A c \in RowsInEffect("BASE") : c \in CountedRows("BASE")
         /\ \A c \in CountedRows("BASE") : change[c].stage \in {"APPROVED", "NOT_REQUIRED"}
         /\ Unsettled("BASE") \subseteq CountedRows("BASE")
<1>1. \A c \in RowsInEffect("BASE") : c \in CountedRows("BASE")
  BY DEF RowsInEffect, CountedRows, PendingStages
<1>2. \A c \in CountedRows("BASE") : change[c].stage \in {"APPROVED", "NOT_REQUIRED"}
  <2> SUFFICES ASSUME NEW c \in CountedRows("BASE")
               PROVE  change[c].stage \in {"APPROVED", "NOT_REQUIRED"}
    OBVIOUS
  <2>1. c \in Changes /\ change[c].stage \notin PendingStages \cup {"REJECTED"}
    BY DEF CountedRows, RowsOf, Raised
  <2>2. change[c].stage \in ApprovalStatus
    BY <2>1 DEF LedgerTypeOK, Row
  <2>3. QED
    BY <2>1, <2>2 DEF ApprovalStatus
<1>3. Unsettled("BASE") \subseteq CountedRows("BASE")
  BY DEF Unsettled, CountedRows, PendingStages
<1>4. QED
  BY <1>1, <1>2, <1>3

LEMMA TracedBaseReconciles ==
  ASSUME DomainAssumption, ChainInvariant, AccountsAreTraced
  PROVE  BaseWaterfallReconciles
<1> SUFFICES ASSUME edited = {}, OneEffectEach("BASE"),
                    \A c \in RowsOf("BASE") :
                      change[c].applied => change[c].stage \in {"APPROVED", "NOT_REQUIRED"}
             PROVE  Reconciles("BASE")
  BY DEF BaseWaterfallReconciles
<1>1. Book("BASE") = Base /\ Base \subseteq Accounts /\ LedgerTypeOK
  BY DEF Book, DomainAssumption, ChainInvariant, TypeOK
<1>2. ASSUME NEW a \in Base, status[a] = "TERMINATED"
      PROVE  \E c \in EffectsOn(a) : change[c].type = "DISCONNECTION"
  BY <1>1, <1>2 DEF ChainInvariant, TerminationIsBooked, EffectsOn, Raised
<1>3. ASSUME NEW a \in Base PROVE Traced(a)
  <2>1. IsTraced(a, ChangeTypes) /\ \A c, d \in EffectsOn(a) : c = d
    BY <1>1 DEF AccountsAreTraced, OneEffectEach
  <2>2. EffectsOn(a) = {} => Carried(a) = OpeningArc /\ status[a] # "TERMINATED"
    BY <1>2, <2>1 DEF IsTraced, AtOpening, Carried
  <2>3. ASSUME NEW c \in EffectsOn(a)
        PROVE  /\ change[c].oldArc = OpeningArc
               /\ Carried(a) = IF change[c].type \in ChargeTypes THEN change[c].newArc ELSE 0
               /\ change[c].type \in ChargeTypes => status[a] # "TERMINATED"
    <3>1. MovedOnce(a, c, ChangeTypes)
      <4>1. EffectsOn(a) = {c}
        BY <2>1, <2>3
      <4>2. QED
        BY <2>1, <2>3, <4>1 DEF IsTraced
    <3>2. change[c].type \in ChangeTypes
      BY <1>1, <2>3, RowNumbers DEF EffectsOn, Raised
    <3>3. change[c].type \in ChargeTypes => status[a] # "TERMINATED"
      BY <1>2, <2>1, <2>3, Kinds
    <3>4. QED
      BY <3>1, <3>2, <3>3 DEF MovedOnce, TermsOf, Carried
  <2>4. QED
    BY <2>2, <2>3 DEF Traced
<1>4. QED
  BY <1>1, <1>3, BaseBuckets, TracedBookReconciles

\* The waterfall of existingBase reconciles with the accounts of the BASE book in
\* every state of a book that opens with every account at its opening charge:
\* whatever is raised, signed, rejected, retained, backfilled or swept, and
\* wherever a handler fails.
THEOREM BaseWaterfallIsSound == Spec /\ OpeningBook => []BaseWaterfallReconciles
<1>1. Init /\ OpeningBook => AccountsAreTraced
  BY TracedInit, DomainAssumption
<1>2. ChainInvariant /\ ChainInvariant' /\ [Next]_vars /\ AccountsAreTraced => AccountsAreTraced'
  BY TracedStep, DomainAssumption, LedgerAssumption
<1>3. ChainInvariant /\ AccountsAreTraced => BaseWaterfallReconciles
  BY TracedBaseReconciles, DomainAssumption
<1>4. QED
  BY <1>1, <1>2, <1>3, InvariantHolds, PTL DEF Spec

\* The same in a book where accounts see several changes, as long as each takes
\* effect once and on the charge it was raised on: the hypothesis is about steps, as
\* only a step shows what the account was billed when a change took effect.
EffectsAreLive == \A a \in Accounts \ edited' : TakesEffectLive(a)

ApprovedBookReconciles ==
  /\ edited = {}
  /\ \A c \in RowsOf("BASE") :
       change[c].applied => change[c].stage \in {"APPROVED", "NOT_REQUIRED"}
  => Reconciles("BASE")

AccountsSumUp == \A a \in Accounts \ edited : ChargeSumsUp(a)

LEMMA SummedInit ==
  ASSUME DomainAssumption, Init, OpeningBook
  PROVE  AccountsSumUp
<1>1. Raised = {}
  BY DEF Init, LedgerInit, Raised, BlankRow, NewRow, NoForm
<1>2. \A a \in Accounts : EffectsOn(a) = {} /\ arc[a] = OpeningArc
  BY <1>1 DEF OpeningBook, EffectsOn
<1>3. SumFunctionOnSet(Delta, {}) = 0 /\ OpeningArc \in Nat
  BY SumEmpty, FiguresAssumption
<1>4. QED
  BY <1>2, <1>3 DEF AccountsSumUp, ChargeSumsUp

LEMMA SummedStep ==
  ASSUME DomainAssumption, LedgerAssumption, ChainInvariant, ChainInvariant', [Next]_vars,
         [EffectsAreLive]_vars, AccountsSumUp
  PROVE  AccountsSumUp'
<1>1. CASE EffectsAreLive
  <2> SUFFICES ASSUME NEW a \in Accounts \ edited' PROVE ChargeSumsUp(a)'
    BY DEF AccountsSumUp
  <2>1. a \notin edited /\ ChargeMoves(a, ChangeTypes) /\ OneAtATime(a)
    BY ChainChargeMoves
  <2>2. RowsMove /\ TakesEffectLive(a) /\ ChargeSumsUp(a)
    BY <1>1, <2>1, ChainRowsMove DEF EffectsAreLive, AccountsSumUp
  <2>3. LedgerTypeOK /\ LedgerTypeOK'
    BY DEF ChainInvariant, TypeOK
  <2>4. QED
    BY <2>1, <2>2, <2>3, StaysSummed
<1>2. CASE UNCHANGED vars
  <2>1. UNCHANGED <<change, arc, edited>>
    BY <1>2 DEF vars
  <2>2. QED
    BY <2>1 DEF AccountsSumUp, ChargeSumsUp, EffectsOn, Raised, Delta
<1>3. QED
  BY <1>1, <1>2

LEMMA SummedBaseReconciles ==
  ASSUME DomainAssumption, ChainInvariant, AccountsSumUp
  PROVE  ApprovedBookReconciles
<1> SUFFICES ASSUME edited = {},
                    \A c \in RowsOf("BASE") :
                      change[c].applied => change[c].stage \in {"APPROVED", "NOT_REQUIRED"}
             PROVE  Reconciles("BASE")
  BY DEF ApprovedBookReconciles
<1>1. Book("BASE") = Base /\ Base \subseteq Accounts /\ LedgerTypeOK
  BY DEF Book, DomainAssumption, ChainInvariant, TypeOK
<1>2. ASSUME NEW a \in Base, status[a] = "TERMINATED"
      PROVE  arc[a] = 0 /\ \E c \in EffectsOn(a) : change[c].type = "DISCONNECTION"
  BY <1>1, <1>2 DEF ChainInvariant, TerminationIsBooked, EffectsOn, Raised
<1>3. \A a \in Base : SumsUp(a)
  BY <1>1, <1>2 DEF AccountsSumUp, ChargeSumsUp, SumsUp, Carried
<1>4. \A a \in Terminated("BASE") : \E c \in EffectsOn(a) : change[c].type = "DISCONNECTION"
  BY <1>1, <1>2 DEF Terminated
<1>5. QED
  BY <1>1, <1>3, <1>4, BaseBuckets, SummedBookReconciles

\* The waterfall of existingBase reconciles, however many changes an account has seen,
\* while decisions, backfills and sweeps put each into effect once and on the charge
\* its row was raised on.
THEOREM LiveEffectsReconcile ==
  Spec /\ OpeningBook /\ [][EffectsAreLive]_vars => []ApprovedBookReconciles
<1>1. Init /\ OpeningBook => AccountsSumUp
  BY SummedInit, DomainAssumption
<1>2. ChainInvariant /\ ChainInvariant' /\ [Next]_vars /\ [EffectsAreLive]_vars /\ AccountsSumUp
        => AccountsSumUp'
  BY SummedStep, DomainAssumption, LedgerAssumption
<1>3. ChainInvariant /\ AccountsSumUp => ApprovedBookReconciles
  BY SummedBaseReconciles, DomainAssumption
<1>4. QED
  BY <1>1, <1>2, <1>3, InvariantHolds, PTL DEF Spec

-----------------------------------------------------------------------------
(* Who moves a row through the chain                                       *)

\* Once in the chain a row is moved by decide() alone, to the stage its approver
\* meant: retention decisions, the older quick queue, sweeps and a commit() that has
\* still to route leave its stage alone.
ChainMovesByDecision ==
  [][\A c \in Changes :
       change[c].stage # "NOT_REQUIRED" /\ change'[c].stage # change[c].stage =>
         \E s \in Writers : /\ At(s, "decideTx")
                            /\ req[s].c = c
                            /\ req[s].seen \in PendingStages
                            /\ change'[c].stage \in {"REJECTED", NextOf(s)}]_vars

\* A commit() on its way from inserting its row to routing it.
Routing(q) == q.pc \in {"autoRetain", "autoRetainTx", "route"}

\* A row waits for its routing under one handler only, and nobody decides on it.
RoutesNewRows ==
  /\ \A s \in Slots : Routing(req[s]) => change[req[s].c].stage = "NOT_REQUIRED"
  /\ \A s, t \in Slots : Routing(req[s]) /\ Routing(req[t]) /\ req[s].c = req[t].c => s = t
  /\ \A s \in Slots : req[s].pc = "decideTx" => change[req[s].c].stage # "NOT_REQUIRED"

\* A row is routed, or an approver moves it as they decided.
RoutedBy(s, c) ==
  /\ At(s, "route")
  /\ req[s].c = c
  /\ req'[s] = Idle
  /\ change'[c].stage \in PendingStages

DecidedBy(s, c) ==
  /\ At(s, "decideTx")
  /\ req[s].c = c
  /\ req[s].seen \in PendingStages
  /\ change'[c].stage \in {"REJECTED", NextOf(s)}

LEMMA StageMovers ==
  ASSUME DomainAssumption, LedgerAssumption, ChainInvariant, [Next]_vars,
         NEW c \in Changes, c < nextId, change'[c].stage # change[c].stage
  PROVE  \E s \in Writers : RoutedBy(s, c) \/ DecidedBy(s, c)
<1> USE DEF Slots
<1> DEFINE Goal == \E s \in Writers : RoutedBy(s, c) \/ DecidedBy(s, c)
<1>a. /\ change \in [Changes -> Row] /\ change[c] \in Row /\ req \in [Slots -> Request]
      /\ c \in Int /\ nextId \in Int
      /\ TypeOK /\ RowsInOrder /\ HandlersHoldRows /\ StagesAreEarned
  BY DEF ChainInvariant, TypeOK, LedgerTypeOK, Changes
<1>b. \A s \in Slots : req[s] \in Request /\ Sound(req[s])
  BY InvariantIsSound
<1>1. ASSUME NEW d \in Changes, NEW row, Write(d, row), row.stage = change[d].stage PROVE FALSE
  BY <1>1, <1>a DEF Write
<1>2. ASSUME NEW d \in Changes, NEW row, Write(d, row), d # c PROVE FALSE
  BY <1>2, <1>a DEF Write
<1>3. ASSUME NEW row, nextId \in Changes, Write(nextId, row) PROVE FALSE
  BY <1>2, <1>3, <1>a
<1>4. ASSUME NEW s \in Writers, CommitTx(s) \/ BackfillTx(s) PROVE FALSE
  BY <1>3, <1>4 DEF CommitTx, BackfillTx
<1>5. ASSUME NEW s \in Writers, AutoRetainTx(s) PROVE FALSE
  <2>1. PICK d \in req[s].due : Write(d, [change[d] EXCEPT !.retention = "RETAIN"])
    BY <1>5 DEF AutoRetainTx
  <2>2. d \in Changes /\ change[d] \in Row
    BY <1>a, <1>b DEF Request
  <2>3. [change[d] EXCEPT !.retention = "RETAIN"].stage = change[d].stage
    BY <2>2 DEF Row
  <2>4. QED
    BY <1>1, <2>1, <2>2, <2>3
<1>6. ASSUME NEW s \in Writers, RetainTx(s) \/ ProceedTx(s) \/ SamQuickApproveTx(s) PROVE FALSE
  <2>1. req[s].c \in Changes /\ change[req[s].c] \in Row
    BY <1>6, <1>a, HeldRow DEF RetainTx, ProceedTx, SamQuickApproveTx, At
  <2>2. CASE RetainTx(s)
    BY <2>2, <1>a, <2>1 DEF RetainTx, Write, Row
  <2>3. CASE ProceedTx(s)
    BY <2>3, <1>a, <2>1 DEF ProceedTx, Write, Row
  <2>4. CASE SamQuickApproveTx(s)
    BY <2>4, <1>a, <2>1 DEF SamQuickApproveTx, Write, Row
  <2>5. QED
    BY <1>6, <2>2, <2>3, <2>4
<1>7. ASSUME NEW s \in Writers, SamQuickRejectTx(s) PROVE FALSE
  <2>1. req[s].c \in Changes /\ change[req[s].c] \in Row
    BY <1>7, <1>a, HeldRow DEF SamQuickRejectTx, At
  <2>2. CASE UNCHANGED change
    BY <2>2
  <2>3. CASE Write(req[s].c, [change[req[s].c] EXCEPT !.quick = "REJECTED",
                     !.retention = "RETAIN", !.crm = "SAM_LOCAL_REJECTED"])
    BY <1>a, <2>1, <2>3 DEF Write, Row
  <2>4. QED
    BY <1>7, <2>2, <2>3 DEF SamQuickRejectTx
<1>8. ASSUME NEW s \in Readers, ApplyTx(s) PROVE FALSE
  <2>1. req[s].c \in Changes /\ change[req[s].c] \in Row
    BY <1>8, <1>a, HeldRow DEF ApplyTx, At
  <2>2. QED
    BY <1>8, <1>a, <2>1 DEF ApplyTx, Write, Row
<1>9. ASSUME NEW s \in Writers, EnterApprovalChain(s) PROVE Goal
  <2>1. req[s].c \in Changes
    BY <1>9, <1>a, HeldRow DEF EnterApprovalChain, At
  <2>2. req[s].c = c
    BY <1>2, <1>9, <2>1 DEF EnterApprovalChain
  <2>3. change'[c].stage = InitialStage(change[c].mode)
    BY <1>9, <1>a, <2>2 DEF EnterApprovalChain, Write, Row
  <2>4. req'[s] = Idle
    BY <1>9, <1>a DEF EnterApprovalChain, Finish, Resume
  <2>5. RoutedBy(s, c)
    BY <1>9, <2>2, <2>3, <2>4 DEF EnterApprovalChain, RoutedBy, InitialStage, PendingStages
  <2>6. QED
    BY <2>5
<1>10. ASSUME NEW s \in Writers, At(s, "decideTx"), NEW row, Write(req[s].c, row),
              row.stage \in {"REJECTED", NextOf(s)}
       PROVE  Goal
  <2>1. req[s].c \in Changes /\ req[s].seen \in PendingStages
    BY <1>10, <1>b DEF Sound, Holds, SawEarnedStage, At
  <2>2. req[s].c = c
    BY <1>2, <1>10, <2>1
  <2>3. change'[c].stage = row.stage
    BY <1>10, <1>a, <2>2 DEF Write
  <2>4. DecidedBy(s, c)
    BY <1>10, <2>1, <2>2, <2>3 DEF DecidedBy
  <2>5. QED
    BY <2>4
<1>11. ASSUME NEW s \in Writers, At(s, "decideTx") PROVE change[req[s].c] \in Row
  BY <1>11, <1>a, HeldRow DEF At
<1>12. ASSUME NEW s \in Writers, RejectTx(s) PROVE Goal
  <2>1. At(s, "decideTx") /\ change[req[s].c] \in Row
    BY <1>11, <1>12 DEF RejectTx
  <2>2. Write(req[s].c, [change[req[s].c] EXCEPT !.stage = "REJECTED"])
    BY <1>12 DEF RejectTx
  <2>3. [change[req[s].c] EXCEPT !.stage = "REJECTED"].stage = "REJECTED"
    BY <2>1 DEF Row
  <2>4. QED
    BY <1>10, <2>1, <2>2, <2>3
<1>13. ASSUME NEW s \in Writers, AdvanceTx(s) PROVE Goal
  <2> DEFINE row == [change[req[s].c] EXCEPT !.stage = NextOf(s), !.signed = @ \cup {req[s].seen}]
  <2>1. At(s, "decideTx") /\ change[req[s].c] \in Row
    BY <1>11, <1>13 DEF AdvanceTx, Approving
  <2>2. Write(req[s].c, row)
    BY <1>13 DEF AdvanceTx
  <2>3. row.stage = NextOf(s)
    BY <2>1 DEF Row
  <2> HIDE DEF row
  <2>4. QED
    BY <1>10, <2>1, <2>2, <2>3
<1>14. ASSUME NEW s \in Writers, ApproveArcChangeTx(s) \/ ApproveQuickTx(s) \/ ApproveDisconnectionTx(s)
       PROVE  Goal
  <2>1. At(s, "decideTx") /\ NextOf(s) = "APPROVED" /\ change[req[s].c] \in Row
    BY <1>11, <1>14 DEF ApproveArcChangeTx, ApproveQuickTx, ApproveDisconnectionTx, Approving
  <2>2. PICK row : Write(req[s].c, row) /\ row.stage = "APPROVED"
    <3>1. CASE ApproveArcChangeTx(s)
      <4>1. [Approved(s) EXCEPT !.applied = TRUE].stage = "APPROVED"
        BY <2>1 DEF Approved, Row
      <4>2. QED
        BY <3>1, <4>1 DEF ApproveArcChangeTx
    <3>2. CASE ApproveQuickTx(s)
      <4>1. [Approved(s) EXCEPT !.retention = "PROCEED",
                                !.sched = req[s].born + change[req[s].c].days].stage = "APPROVED"
        BY <2>1 DEF Approved, Row
      <4>2. QED
        BY <3>2, <4>1 DEF ApproveQuickTx
    <3>3. CASE ApproveDisconnectionTx(s)
      <4>1. [Approved(s) EXCEPT !.prompt = req[s].born + WindowDays].stage = "APPROVED"
        BY <2>1 DEF Approved, Row
      <4>2. QED
        BY <3>3, <4>1 DEF ApproveDisconnectionTx
    <3>4. QED
      BY <1>14, <3>1, <3>2, <3>3
  <2>3. QED
    BY <1>10, <2>1, <2>2
<1>15. ~UNCHANGED change
  OBVIOUS
<1>16. QED
  BY <1>4, <1>5, <1>6, <1>7, <1>8, <1>9, <1>12, <1>13, <1>14, <1>15, OtherSteps DEF RowWrite

\* In the chain a row stays: no approver's decision takes it back to NOT_REQUIRED.
LEMMA StaysInTheChain ==
  ASSUME DomainAssumption, LedgerAssumption, ChainInvariant, [Next]_vars,
         NEW c \in Changes, c < nextId, change[c].stage # "NOT_REQUIRED"
  PROVE  change'[c].stage # "NOT_REQUIRED"
<1>1. CASE change'[c].stage = change[c].stage
  BY <1>1
<1>2. CASE change'[c].stage # change[c].stage
  <2>1. PICK s \in Writers : RoutedBy(s, c) \/ DecidedBy(s, c)
    BY <1>2, StageMovers
  <2>2. RoutedBy(s, c) => change'[c].stage # "NOT_REQUIRED"
    BY DEF RoutedBy, PendingStages
  <2>3. DecidedBy(s, c) => change'[c].stage # "NOT_REQUIRED"
    BY DEF DecidedBy, NextOf, NextStage, PendingStages
  <2>4. QED
    BY <2>1, <2>2, <2>3
<1>3. QED
  BY <1>1, <1>2

\* A handler that waits as q goes on as r: only CommitTx() sends a row to be routed,
\* and a decision is taken up on a row at a pending stage only.
GoesOn(q, r) ==
  /\ Routing(r) => Routing(q) /\ r.c = q.c
  /\ r.pc = "decideTx" =>
       \/ r = q
       \/ r.c \in Changes /\ change[r.c].stage \in PendingStages

LEMMA HandlersGoOn ==
  ASSUME DomainAssumption, LedgerAssumption, ChainInvariant, [Next]_vars
  PROVE  \/ \E s \in Writers : CommitTx(s)
         \/ \A t \in Slots : GoesOn(req[t], req'[t])
<1> USE DEF Slots
<1> DEFINE Goal == \A t \in Slots : GoesOn(req[t], req'[t])
<1>a. req \in [Slots -> Request]
  BY DEF ChainInvariant, TypeOK, LedgerTypeOK
<1>b. \A q : GoesOn(q, q)
  BY DEF GoesOn
<1>c. \A q : GoesOn(q, Idle)
  BY DEF GoesOn, Routing, Idle
<1>1. ASSUME NEW s \in Slots, NEW call, Resume(s, call), GoesOn(req[s], call) PROVE Goal
  BY <1>1, <1>a, <1>b DEF Resume
<1>2. ASSUME NEW s \in Slots, Finish(s) PROVE Goal
  BY <1>1, <1>2, <1>c DEF Finish
<1>3. ASSUME NEW s \in Slots, NEW call, Start(s, call), GoesOn(req[s], call) PROVE Goal
  BY <1>1, <1>3 DEF Start
<1>4. ASSUME NEW s \in Writers, Arrival(s) PROVE Goal
  <2>1. ASSUME NEW a \in Base, NEW form \in Offered, CommitRead(s, a, form) PROVE Goal
    BY <1>3, <2>1 DEF CommitRead, GoesOn, Routing, Idle
  <2>2. ASSUME NEW c \in Changes, NEW action, DecideRead(s, c, action) PROVE Goal
    BY <1>3, <2>2 DEF DecideRead, GoesOn, Routing, Idle
  <2>3. ASSUME NEW c \in Changes, NEW action, SamQuickRead(s, c, action) PROVE Goal
    BY <1>3, <2>3 DEF SamQuickRead, GoesOn, Routing, Idle
  <2>4. ASSUME NEW c \in Changes, NEW decision, RetentionRead(s, c, decision) PROVE Goal
    BY <1>3, <2>4 DEF RetentionRead, GoesOn, Routing, Idle
  <2>5. ASSUME NEW a \in Base, BackfillRead(s, a) PROVE Goal
    BY <1>3, <2>5 DEF BackfillRead, GoesOn, Routing, Idle
  <2>6. QED
    BY <1>4, <2>1, <2>2, <2>3, <2>4, <2>5 DEF Arrival
<1>5. ASSUME NEW s \in Writers, WriterStep(s), ~CommitTx(s) PROVE Goal
  <2>a. req[s] \in Request
    BY <1>a
  <2>1. CASE AutoRetainFind(s)
    <3> DEFINE route == [req[s] EXCEPT !.pc = "route"]
               retain(c) == [req[s] EXCEPT !.pc = "autoRetainTx", !.due = {c}]
    <3>1. PICK c : Resume(s, route) \/ Resume(s, retain(c))
      BY <2>1 DEF AutoRetainFind
    <3>2. /\ route.pc = "route" /\ route.c = req[s].c
          /\ retain(c).pc = "autoRetainTx" /\ retain(c).c = req[s].c
      BY <2>a DEF Request
    <3> HIDE DEF route, retain
    <3>3. GoesOn(req[s], route) /\ GoesOn(req[s], retain(c))
      BY <2>1, <3>2 DEF AutoRetainFind, At, GoesOn, Routing
    <3>4. QED
      BY <1>1, <3>1, <3>3
  <2>2. CASE AutoRetainTx(s)
    <3> DEFINE route == [req[s] EXCEPT !.pc = "route", !.due = {}]
    <3>1. Resume(s, route)
      BY <2>2 DEF AutoRetainTx
    <3>2. route.pc = "route" /\ route.c = req[s].c
      BY <2>a DEF Request
    <3> HIDE DEF route
    <3>3. GoesOn(req[s], route)
      BY <2>2, <3>2 DEF AutoRetainTx, At, GoesOn, Routing
    <3>4. QED
      BY <1>1, <3>1, <3>3
  <2>3. CASE ProceedCrm(s)
    <3> DEFINE marked(mark) == [req[s] EXCEPT !.pc = "proceedTx", !.crm = mark]
    <3>1. PICK mark : Resume(s, marked(mark))
      BY <2>3 DEF ProceedCrm
    <3>2. marked(mark).pc = "proceedTx"
      BY <2>a DEF Request
    <3> HIDE DEF marked
    <3>3. GoesOn(req[s], marked(mark))
      BY <3>2 DEF GoesOn, Routing
    <3>4. QED
      BY <1>1, <3>1, <3>3
  <2>4. CASE Finish(s)
    BY <1>2, <2>4
  <2>5. QED
    BY <1>5, <2>1, <2>2, <2>3, <2>4
       DEF WriterStep, EnterApprovalChain, AdvanceTx, ApproveArcChangeTx, ApproveQuickTx,
           ApproveDisconnectionTx, RejectTx, SamQuickApproveTx, SamQuickRejectTx, RetainTx,
           ProceedTx, BackfillTx
<1>6. ASSUME NEW s \in Readers, ReaderStep(s) PROVE Goal
  <2>1. CASE SweepRead(s)
    BY <1>3, <2>1 DEF SweepRead, GoesOn, Routing, Idle
  <2>2. CASE ApplyRead(s)
    <3> DEFINE next(c) == [req[s] EXCEPT !.pc = "applyTx", !.c = c, !.due = req[s].due \ {c}]
               rest(c) == [req[s] EXCEPT !.due = req[s].due \ {c}]
    <3>1. req[s] \in Request /\ req[s].pc = "sweep"
      BY <1>a, <2>2 DEF ApplyRead, At
    <3>2. PICK c : Resume(s, next(c)) \/ Resume(s, Idle) \/ Resume(s, rest(c))
      BY <2>2 DEF ApplyRead
    <3>3. next(c).pc = "applyTx" /\ rest(c).pc = "sweep"
      BY <3>1 DEF Request
    <3>4. GoesOn(req[s], next(c)) /\ GoesOn(req[s], rest(c)) /\ GoesOn(req[s], Idle)
      BY <3>3, <1>c DEF GoesOn, Routing
    <3> HIDE DEF next, rest
    <3>5. QED
      BY <1>1, <3>2, <3>4
  <2>3. CASE ApplyTx(s)
    <3> DEFINE next == [req[s] EXCEPT !.pc = "sweep", !.c = 0]
    <3>1. Resume(s, next) \/ Resume(s, Idle)
      BY <2>3 DEF ApplyTx
    <3>2. next.pc = "sweep"
      BY <1>a DEF Request
    <3>3. GoesOn(req[s], next) /\ GoesOn(req[s], Idle)
      BY <3>2, <1>c DEF GoesOn, Routing
    <3> HIDE DEF next
    <3>4. QED
      BY <1>1, <3>1, <3>3
  <2>4. QED
    BY <1>6, <2>1, <2>2, <2>3 DEF ReaderStep
<1>7. ASSUME NEW s \in Slots, CallFails(s) PROVE Goal
  BY <1>2, <1>7 DEF CallFails
<1>8. CASE Restart
  BY <1>8, <1>c DEF Restart
<1>9. CASE UNCHANGED req
  BY <1>9, <1>b
<1>10. QED
  BY <1>4, <1>5, <1>6, <1>7, <1>8, <1>9 DEF Next, Tick, AdminUpdate, BookClosed, vars

LEMMA RoutesNewRowsInit ==
  ASSUME Init
  PROVE  RoutesNewRows
BY DEF Init, LedgerInit, RoutesNewRows, Routing, Idle

LEMMA RoutesNewRowsStep ==
  ASSUME DomainAssumption, LedgerAssumption, ChainInvariant, RoutesNewRows, [Next]_vars
  PROVE  RoutesNewRows'
<1> USE DEF Slots
<1>a. /\ change \in [Changes -> Row] /\ req \in [Slots -> Request]
      /\ nextId \in Int /\ Changes \subseteq Int
  BY DEF ChainInvariant, TypeOK, LedgerTypeOK, Changes
<1>b. ASSUME NEW s \in Slots, Routing(req[s]) \/ req[s].pc = "decideTx"
      PROVE  req[s].c \in Changes /\ req[s].c < nextId
  BY <1>b DEF ChainInvariant, HandlersHoldRows, Holds, Routing
<1>c. ASSUME NEW c \in Changes, change[c].stage # "NOT_REQUIRED" PROVE c < nextId
  BY <1>a, <1>c DEF ChainInvariant, RowsInOrder, BlankRow, NewRow
<1>1. ASSUME NEW s \in Writers, CommitTx(s) PROVE RoutesNewRows'
  <2>1. /\ nextId \in Changes
        /\ req'[s].c = nextId
        /\ req'[s].pc # "decideTx"
        /\ \A t \in Slots \ {s} : req'[t] = req[t]
    BY <1>1, <1>a DEF CommitTx, Resume, Idle
  <2>2. /\ change'[nextId].stage = "NOT_REQUIRED"
        /\ \A c \in Changes : c < nextId => change'[c] = change[c]
    BY <1>1, <1>a DEF CommitTx, Write, NewRow, BlankRow
  <2>3. ASSUME NEW t \in Slots, Routing(req'[t])
        PROVE  change'[req'[t].c].stage = "NOT_REQUIRED"
    BY <1>b, <2>1, <2>2, <2>3 DEF RoutesNewRows
  <2>4. ASSUME NEW t \in Slots, NEW u \in Slots, Routing(req'[t]), Routing(req'[u]),
               req'[t].c = req'[u].c
        PROVE  t = u
    BY <1>a, <1>b, <2>1, <2>4 DEF RoutesNewRows
  <2>5. ASSUME NEW t \in Slots, req'[t].pc = "decideTx"
        PROVE  change'[req'[t].c].stage # "NOT_REQUIRED"
    BY <1>b, <2>1, <2>2, <2>5 DEF RoutesNewRows
  <2>6. QED
    BY <2>3, <2>4, <2>5 DEF RoutesNewRows, Routing
<1>2. ASSUME \A t \in Slots : GoesOn(req[t], req'[t]) PROVE RoutesNewRows'
  <2>1. ASSUME NEW t \in Slots, Routing(req'[t])
        PROVE  change'[req'[t].c].stage = "NOT_REQUIRED"
    <3> DEFINE c == req[t].c
    <3>1. Routing(req[t]) /\ req'[t].c = c
      BY <1>2, <2>1 DEF GoesOn
    <3>2. c \in Changes /\ c < nextId /\ change[c].stage = "NOT_REQUIRED"
      BY <1>b, <3>1 DEF RoutesNewRows
    <3>3. ASSUME NEW s \in Writers, RoutedBy(s, c) PROVE FALSE
      <4>1. Routing(req[s]) /\ req[s].c = c /\ req'[s] = Idle
        BY <3>3 DEF RoutedBy, At, Routing
      <4>2. s = t
        BY <3>1, <4>1 DEF RoutesNewRows
      <4>3. QED
        BY <2>1, <4>1, <4>2 DEF Routing, Idle
    <3>4. ASSUME NEW s \in Writers, DecidedBy(s, c) PROVE FALSE
      BY <3>2, <3>4 DEF DecidedBy, At, RoutesNewRows
    <3>5. change'[c].stage = change[c].stage
      <4> HIDE DEF c
      <4>1. QED
        BY <3>2, <3>3, <3>4, StageMovers
    <3>6. QED
      BY <3>1, <3>2, <3>5
  <2>2. ASSUME NEW t \in Slots, NEW u \in Slots, Routing(req'[t]), Routing(req'[u]),
               req'[t].c = req'[u].c
        PROVE  t = u
    BY <1>2, <2>2 DEF GoesOn, RoutesNewRows
  <2>3. ASSUME NEW t \in Slots, req'[t].pc = "decideTx"
        PROVE  change'[req'[t].c].stage # "NOT_REQUIRED"
    <3>1. req'[t].c \in Changes /\ change[req'[t].c].stage # "NOT_REQUIRED"
      BY <1>2, <1>b, <2>3 DEF GoesOn, PendingStages, RoutesNewRows
    <3>2. req'[t].c < nextId
      BY <1>c, <3>1
    <3>3. QED
      BY <3>1, <3>2, StaysInTheChain
  <2>4. QED
    BY <2>1, <2>2, <2>3 DEF RoutesNewRows, Routing
<1>3. QED
  BY <1>1, <1>2, HandlersGoOn

LEMMA RoutesNewRowsHolds == Spec => []RoutesNewRows
<1>1. Init => RoutesNewRows
  BY RoutesNewRowsInit
<1>2. ChainInvariant /\ RoutesNewRows /\ [Next]_vars => RoutesNewRows'
  BY RoutesNewRowsStep, DomainAssumption, LedgerAssumption
<1>3. QED
  BY <1>1, <1>2, InvariantHolds, PTL DEF Spec

\* A row in the chain moves by decide() alone, to the stage its approver meant: a
\* retention decision, the older quick queue, a sweep or a commit() that has still to
\* route never moves it.  As decide() starts on a pending stage only, a REJECTED or an
\* APPROVED row moves on only under an approver who had read it before.
THEOREM StageMovesByDecision == Spec => ChainMovesByDecision
<1> DEFINE Decided(c) ==
             \E s \in Writers : /\ At(s, "decideTx")
                                /\ req[s].c = c
                                /\ req[s].seen \in PendingStages
                                /\ change'[c].stage \in {"REJECTED", NextOf(s)}
<1>1. ASSUME ChainInvariant, RoutesNewRows, [Next]_vars, NEW c \in Changes,
             change[c].stage # "NOT_REQUIRED", change'[c].stage # change[c].stage
      PROVE  Decided(c)
  <2>1. c < nextId
    BY <1>1 DEF ChainInvariant, RowsInOrder, BlankRow, NewRow
  <2>2. PICK s \in Writers : RoutedBy(s, c) \/ DecidedBy(s, c)
    BY <1>1, <2>1, StageMovers, DomainAssumption, LedgerAssumption
  <2>3. ~RoutedBy(s, c)
    BY <1>1 DEF RoutedBy, At, Routing, RoutesNewRows, Slots
  <2>4. QED
    BY <2>2, <2>3 DEF DecidedBy
<1>2. ChainInvariant /\ RoutesNewRows /\ [Next]_vars
        => [\A c \in Changes : change[c].stage # "NOT_REQUIRED"
                                 /\ change'[c].stage # change[c].stage => Decided(c)]_vars
  BY <1>1
<1>3. QED
  BY <1>2, InvariantHolds, RoutesNewRowsHolds, PTL DEF Spec, ChainMovesByDecision
=============================================================================
