------------------------------ MODULE SamDomain ------------------------------
(***************************************************************************)
(* Vocabulary of the commercial-change workflow: the enums of              *)
(* prisma/schema.prisma, the columns of a commercial_changes row that some *)
(* handler reads or writes, and the tables that drive the workflow (who    *)
(* signs a stage, which stage follows, which account may take a change).   *)
(*                                                                         *)
(* UPGRADE and DOWNGRADE differ in the sign of the move only, so           *)
(* ARC_CHANGE stands for both; RATE_REVISION takes their branch in every   *)
(* handler, but the dashboards leave it out of their sums.  EXPIRED stands *)
(* for PENDING too: no handler compares with either, the New Base page     *)
(* leaves both out of its current accounts.                                *)
(***************************************************************************)
EXTENDS Integers, FiniteSets

CONSTANTS
  Accounts,      \* customers
  NoAccount,     \* the account of a row not yet written
  Base,          \* accounts with kittyType BASE; the others are NEW
  CrmLinked,     \* accounts with an externalCrmId
  Arcs,          \* the annual recurring charges a form may ask for
  MaxChanges,    \* bound: rows the commercial_changes table may hold
  WindowDays,    \* PROBABLE_CHURN_WINDOW_DAYS
  NoticeDays,    \* DISCONNECTION_NOTICE_DAYS
  QuickMaxDays   \* QUICK_DISCONNECT_MAX_DAYS

ASSUME DomainAssumption ==
  /\ NoAccount \notin Accounts
  /\ Base \subseteq Accounts
  /\ CrmLinked \subseteq Accounts
  /\ Arcs \subseteq Nat
  /\ MaxChanges \in Nat
  /\ WindowDays \in Nat
  /\ NoticeDays \in Nat
  /\ QuickMaxDays \in Nat

Changes == 1..MaxChanges

ContractStatus ==
  {"ACTIVE", "EXPIRED", "PROBABLE_CHURN", "DISCONNECTING", "PENDING_QUICK_APPROVAL",
   "PENDING_APPROVAL", "TERMINATED"}

PendingStages == {"PENDING_SAM_HEAD", "PENDING_ACCOUNTS", "PENDING_SUPER_ADMIN_2"}

ApprovalStatus == PendingStages \cup {"APPROVED", "REJECTED", "NOT_REQUIRED"}

Roles == {"ADMIN", "SAM_HEAD", "SAM", "ACCOUNTS", "SUPER_ADMIN_2"}

StageRole ==
  [ PENDING_SUPER_ADMIN_2 |-> "SUPER_ADMIN_2",
    PENDING_SAM_HEAD      |-> "SAM_HEAD",
    PENDING_ACCOUNTS      |-> "ACCOUNTS" ]

\* Mutant of NextStage: the last gate of a disconnection forgotten.
NextStageNoSuperAdmin(stage, isDisconnection) ==
  IF stage = "PENDING_SAM_HEAD" THEN "PENDING_ACCOUNTS" ELSE "APPROVED"

\* The stage after an approval; "APPROVED" when the approval is terminal.
NextStage(stage, isDisconnection) ==
  CASE stage = "PENDING_SAM_HEAD"      -> "PENDING_ACCOUNTS"
    [] stage = "PENDING_ACCOUNTS"      -> IF isDisconnection THEN "PENDING_SUPER_ADMIN_2"
                                                             ELSE "APPROVED"
    [] stage = "PENDING_SUPER_ADMIN_2" -> "APPROVED"

\* Where commit() lets a BASE change enter the chain.
InitialStage(mode) == IF mode = "QUICK" THEN "PENDING_SAM_HEAD" ELSE "PENDING_ACCOUNTS"

\* The lifecycle guard of commit(): closed and closing accounts take no change.
CommitRefused(contractStatus, type) ==
  \/ contractStatus \in {"TERMINATED", "DISCONNECTING", "PENDING_QUICK_APPROVAL",
                         "PENDING_APPROVAL"}
  \/ contractStatus = "PROBABLE_CHURN" /\ type = "DISCONNECTION"

Never == -1                 \* a NULL date column
Days  == Nat \cup {Never}

\* The changes of charge, and all of them.
ChargeTypes == {"ARC_CHANGE", "RATE_REVISION"}
ChangeTypes == ChargeTypes \cup {"DISCONNECTION"}

\* What a valid commercial-change form asks for.
Forms ==
  [type : ChargeTypes, mode : {"NONE"}, newArc : Arcs, days : {0}]
    \cup [type : {"DISCONNECTION"}, mode : {"NORMAL"}, newArc : {0}, days : {0}]
    \cup [type : {"DISCONNECTION"}, mode : {"QUICK"}, newArc : {0}, days : 0..QuickMaxDays]

NoForm == [type |-> "NONE", mode |-> "NONE", newArc |-> 0, days |-> 0]

\* The statuses of an order in the CRM, as crm_status mirrors them.  ORDERED stands
\* for whatever status the CRM gave the order it accepted, IN_FLIGHT for NOC and
\* ACCOUNTS, CANCELLED for the rejections after the first stage.
OrderStatus == {"ORDERED", "AWAIT_SAM", "DOCS", "IN_FLIGHT", "COMPLETED", "REJECTED", "CANCELLED"}

\* commercial_changes.crm_status.
CrmStatus ==
  OrderStatus \cup {"NONE", "FAILED", "BACKFILL_LOCAL", "SAM_LOCAL_APPROVED", "SAM_LOCAL_REJECTED"}

\* What quickDisconnect.decided says.
Decisions == {"APPROVE_QUICK", "REJECT_QUICK"}

\* A commercial_changes row.  "signed" is read off the audit_logs rows of the
\* change: the `from` stage of its APPROVAL_ADVANCED and APPROVAL_APPROVED entries.
Row ==
  [ acct      : Accounts \cup {NoAccount},
    type      : ChangeTypes \cup {"NONE"},
    mode      : {"NONE", "NORMAL", "QUICK"},
    oldArc    : Nat,
    newArc    : Nat,
    days      : Nat,
    raisedOn  : Nat,
    stage     : ApprovalStatus,
    signed    : SUBSET PendingStages,
    prompt    : Days,
    retention : {"NONE", "RETAIN", "PROCEED"},
    sched     : Days,
    quick     : {"NONE", "APPROVED", "REJECTED"},
    crm       : CrmStatus,
    applied   : BOOLEAN ]

\* A row as commit() inserts it: every workflow column at its default.
NewRow(a, form, oldArc, day) ==
  [ acct |-> a, type |-> form.type, mode |-> form.mode, oldArc |-> oldArc,
    newArc |-> form.newArc, days |-> form.days, raisedOn |-> day, stage |-> "NOT_REQUIRED",
    signed |-> {}, prompt |-> Never, retention |-> "NONE", sched |-> Never,
    quick |-> "NONE", crm |-> "NONE", applied |-> FALSE ]

BlankRow == NewRow(NoAccount, NoForm, 0, 0)

NormalDisconnection == [type |-> "DISCONNECTION", mode |-> "NORMAL", newArc |-> 0, days |-> 0]

\* A row as backfillDisconnection() inserts it: the whole workflow pre-stamped.
BackfilledRow(a, oldArc, day, effectiveDate) ==
  [ NewRow(a, NormalDisconnection, oldArc, day)
      EXCEPT !.prompt = effectiveDate, !.retention = "PROCEED", !.sched = effectiveDate,
             !.crm = "BACKFILL_LOCAL", !.applied = TRUE ]
=============================================================================
