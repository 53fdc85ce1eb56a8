---------------------------- MODULE ApprovalChain ----------------------------
(***************************************************************************)
(* The BASE book: a change raised on an existing-base account is parked in *)
(* the internal approval chain (approvals.service.ts), and only what the   *)
(* chain approves goes on to the retention window, the notice period and   *)
(* the sweep.  Extends the shared handlers of ChangeLedger with the        *)
(* approvers' decisions and the older SAM-internal quick decision.         *)
(***************************************************************************)
EXTENDS ChangeLedger

CONSTANTS
  Staff,    \* the roles somebody holds
  HeadTeam  \* accounts owned by the SAM_HEAD or a SAM reporting to them

ASSUME ChainAssumption ==
  /\ Staff \subseteq Roles
  /\ HeadTeam \subseteq Accounts

\* assertCanAct: ADMIN overrides, a SAM_HEAD signs for their own team only.
CanAct(role, stage, a) ==
  \/ role = "ADMIN"
  \/ role = StageRole[stage] /\ (stage = "PENDING_SAM_HEAD" => a \in HeadTeam)

\* decide() reads the row and its stage, then decides on what it read.
DecideRead(s, c, action) ==
  LET stage == change[c].stage IN
  /\ stage \in PendingStages
  /\ \E role \in Staff : CanAct(role, stage, change[c].acct)
  /\ Start(s, [Idle EXCEPT !.pc = "decideTx", !.c = c, !.seen = stage, !.verb = action,
                           !.born = today])
  /\ UNCHANGED <<status, arc, change, nextId, orders, today, edited, faults>>

NextOf(s) == NextStage(req[s].seen, change[req[s].c].type = "DISCONNECTION")

Approving(s) == At(s, "decideTx") /\ req[s].verb = "APPROVE"

\* Mutant of AdvanceTx: the sign-off not recorded.
AdvanceTxUnsigned(s) ==
  LET c == req[s].c IN
  /\ Approving(s)
  /\ NextOf(s) # "APPROVED"
  /\ Write(c, [change[c] EXCEPT !.stage = NextOf(s)])
  /\ Finish(s)
  /\ UNCHANGED <<status, arc, nextId, orders, today, edited, faults>>

\* An intermediate sign-off moves the row on and touches nothing else.
AdvanceTx(s) ==
  LET c == req[s].c IN
  /\ Approving(s)
  /\ NextOf(s) # "APPROVED"
  /\ Write(c, [change[c] EXCEPT !.stage = NextOf(s), !.signed = @ \cup {req[s].seen}])
  /\ Finish(s)
  /\ UNCHANGED <<status, arc, nextId, orders, today, edited, faults>>

\* Row c as applyTerminalApproval leaves it, whatever its kind.
Approved(s) ==
  LET c == req[s].c IN
  [change[c] EXCEPT !.stage = "APPROVED", !.signed = @ \cup {req[s].seen}]

\* The last sign-off on a change of charge applies it and unparks the account.
ApproveArcChangeTx(s) ==
  LET c == req[s].c IN
  /\ Approving(s)
  /\ NextOf(s) = "APPROVED"
  /\ change[c].type # "DISCONNECTION"
  /\ Write(c, [Approved(s) EXCEPT !.applied = TRUE])
  /\ arc' = [arc EXCEPT ![change[c].acct] = change[c].newArc]
  /\ MoveAccount(c, "ACTIVE")
  /\ Finish(s)
  /\ UNCHANGED <<nextId, orders, today, edited, faults>>

\* The last sign-off on a quick disconnection schedules the termination.
ApproveQuickTx(s) ==
  LET c == req[s].c IN
  /\ Approving(s)
  /\ NextOf(s) = "APPROVED"
  /\ change[c].type = "DISCONNECTION"
  /\ change[c].mode = "QUICK"
  /\ Write(c, [Approved(s) EXCEPT !.retention = "PROCEED",
                                  !.sched = req[s].born + change[c].days])
  /\ MoveAccount(c, "DISCONNECTING")
  /\ Finish(s)
  /\ UNCHANGED <<arc, nextId, orders, today, edited, faults>>

\* Mutant of ApproveDisconnectionTx: the retention window never opened.
ApproveDisconnectionTxNoWindow(s) ==
  LET c == req[s].c IN
  /\ Approving(s)
  /\ NextOf(s) = "APPROVED"
  /\ change[c].type = "DISCONNECTION"
  /\ change[c].mode # "QUICK"
  /\ Write(c, Approved(s))
  /\ MoveAccount(c, "PROBABLE_CHURN")
  /\ Finish(s)
  /\ UNCHANGED <<arc, nextId, orders, today, edited, faults>>

\* The last sign-off on a normal disconnection opens the retention window.
ApproveDisconnectionTx(s) ==
  LET c == req[s].c IN
  /\ Approving(s)
  /\ NextOf(s) = "APPROVED"
  /\ change[c].type = "DISCONNECTION"
  /\ change[c].mode # "QUICK"
  /\ Write(c, [Approved(s) EXCEPT !.prompt = req[s].born + WindowDays])
  /\ MoveAccount(c, "PROBABLE_CHURN")
  /\ Finish(s)
  /\ UNCHANGED <<arc, nextId, orders, today, edited, faults>>

\* A rejection needs the account still parked; otherwise it rolls back (P2025).
RejectTx(s) ==
  LET c == req[s].c IN
  /\ At(s, "decideTx")
  /\ req[s].verb = "REJECT"
  /\ \/ /\ status[change[c].acct] = "PENDING_APPROVAL"
        /\ Write(c, [change[c] EXCEPT !.stage = "REJECTED"])
        /\ MoveAccount(c, "ACTIVE")
     \/ /\ status[change[c].acct] # "PENDING_APPROVAL"
        /\ UNCHANGED <<change, status>>
  /\ Finish(s)
  /\ UNCHANGED <<arc, nextId, orders, today, edited, faults>>

-----------------------------------------------------------------------------
(* samQuickDecision(): the queue that predates the chain; the endpoint     *)
(* looks at the quick decision of the row, not at its stage.               *)

SamQuickRead(s, c, decision) ==
  LET row == change[c] IN
  /\ row.type = "DISCONNECTION"
  /\ row.mode = "QUICK"
  /\ row.quick = "NONE"
  /\ row.acct \in Base
  /\ "ADMIN" \in Staff \/ ("SAM_HEAD" \in Staff /\ row.acct \in HeadTeam)
  /\ Start(s, [Idle EXCEPT !.pc = "samQuickTx", !.c = c, !.verb = decision, !.born = today])
  /\ UNCHANGED <<status, arc, change, nextId, orders, today, edited, faults>>

SamQuickApproveTx(s) ==
  LET c == req[s].c IN
  /\ At(s, "samQuickTx")
  /\ req[s].verb = "APPROVE"
  /\ Write(c, [change[c] EXCEPT !.quick = "APPROVED", !.retention = "PROCEED",
                                !.sched = req[s].born + change[c].days,
                                !.crm = "SAM_LOCAL_APPROVED"])
  /\ MoveAccount(c, "DISCONNECTING")
  /\ Finish(s)
  /\ UNCHANGED <<arc, nextId, orders, today, edited, faults>>

\* Only an account still waiting for the quick decision is given back.
SamQuickRejectTx(s) ==
  LET c == req[s].c IN
  /\ At(s, "samQuickTx")
  /\ req[s].verb = "REJECT"
  /\ \/ /\ status[change[c].acct] = "PENDING_QUICK_APPROVAL"
        /\ Write(c, [change[c] EXCEPT !.quick = "REJECTED", !.retention = "RETAIN",
                                     !.crm = "SAM_LOCAL_REJECTED"])
        /\ MoveAccount(c, "ACTIVE")
     \/ /\ status[change[c].acct] # "PENDING_QUICK_APPROVAL"
        /\ UNCHANGED <<change, status>>
  /\ Finish(s)
  /\ UNCHANGED <<arc, nextId, orders, today, edited, faults>>

-----------------------------------------------------------------------------
Init == LedgerInit

\* A user's request arrives at an idle slot.
Arrival(s) ==
  \/ \E a \in Base, form \in Offered : CommitRead(s, a, form)
  \/ \E c \in Changes, action \in {"APPROVE", "REJECT"} : DecideRead(s, c, action)
  \/ \E c \in Changes, action \in {"APPROVE", "REJECT"} : SamQuickRead(s, c, action)
  \/ \E c \in Changes, decision \in {"RETAIN", "PROCEED"} : RetentionRead(s, c, decision)
  \/ \E a \in Base : BackfillRead(s, a)

\* A write handler goes on after its await.
WriterStep(s) ==
  \/ CommitTx(s)
  \/ AutoRetainFind(s)
  \/ AutoRetainTx(s)
  \/ EnterApprovalChain(s)
  \/ AdvanceTx(s)
  \/ ApproveArcChangeTx(s)
  \/ ApproveQuickTx(s)
  \/ ApproveDisconnectionTx(s)
  \/ RejectTx(s)
  \/ SamQuickApproveTx(s)
  \/ SamQuickRejectTx(s)
  \/ RetainTx(s)
  \/ ProceedCrm(s)
  \/ ProceedTx(s)
  \/ BackfillTx(s)

\* A dashboard or list is opened, or goes on with its sweep.
ReaderStep(s) ==
  \/ SweepRead(s)
  \/ ApplyRead(s)
  \/ ApplyTx(s)

Next ==
  \/ \E s \in Writers : Arrival(s) \/ WriterStep(s)
  \/ \E s \in Readers : ReaderStep(s)
  \/ \E s \in Slots : CallFails(s)
  \/ Restart
  \/ \E a \in Base : AdminUpdate(a)
  \/ Tick
  \/ BookClosed

Spec == Init /\ [][Next]_vars

\* A suspended handler is always resumed, and the read endpoints keep being
\* called; no user is obliged to send anything else.
FairSpec ==
  /\ Spec
  /\ \A s \in Writers : WF_vars(WriterStep(s))
  /\ \A s \in Readers : WF_vars(ReaderStep(s))

-----------------------------------------------------------------------------
(* Properties                                                              *)

TypeOK == LedgerTypeOK

\* The gates a change must pass before its terminal approval.
Gates(c) ==
  IF change[c].type # "DISCONNECTION" THEN {"PENDING_ACCOUNTS"}
  ELSE IF change[c].mode # "QUICK" THEN {"PENDING_ACCOUNTS", "PENDING_SUPER_ADMIN_2"}
  ELSE PendingStages

\* No interleaving of approvals, rejections, stale stages and restarts lets a
\* change become APPROVED with one of its gates unsigned (nextStage, decide).
ApprovedPassedEveryGate ==
  \A c \in Changes : change[c].stage = "APPROVED" => Gates(c) \subseteq change[c].signed

\* The effect that comes with the terminal approval of row c.
TookEffect(c) ==
  \/ change[c].type # "DISCONNECTION" /\ change[c].applied
  \/ change[c].type = "DISCONNECTION" /\ change[c].mode = "QUICK" /\ change[c].sched # Never
  \/ change[c].type = "DISCONNECTION" /\ change[c].mode # "QUICK" /\ change[c].prompt # Never

\* "The row can never be APPROVED-but-not-applied" (applyTerminalApproval): the
\* charge is changed, the termination scheduled or the retention window opened.
ApprovedTookEffect == \A c \in Changes : change[c].stage = "APPROVED" => TookEffect(c)

\* An account parked in PENDING_APPROVAL has a change in somebody's queue: no
\* race, no restart and no ADMIN edit leaves it parked with nobody able to
\* release it.
ParkedAccountIsQueued ==
  \A a \in Accounts : status[a] = "PENDING_APPROVAL" =>
    \E c \in Changes : change[c].acct = a /\ change[c].stage \in PendingStages

\* Churn is booked: unless an ADMIN edited it, a terminated account bills nothing
\* and has an applied disconnection row behind it (applyChangeToAccount,
\* backfillDisconnection: account and marker in one transaction).
TerminationIsBooked ==
  \A a \in Accounts \ edited : status[a] = "TERMINATED" =>
    /\ arc[a] = 0
    /\ \E c \in Changes : /\ change[c].acct = a
                          /\ change[c].type = "DISCONNECTION"
                          /\ change[c].applied

\* The charge of an account moves to zero with its termination, to what an ARC
\* change asks for in the step that ACCOUNTS signs it, or by an audited ADMIN
\* edit; nothing else moves it.
ChargeMovesBySignature ==
  [][\A a \in Accounts : arc'[a] # arc[a] =>
       \/ arc'[a] = 0 /\ status'[a] = "TERMINATED"
       \/ \E c \in Changes : /\ change[c].acct = a
                             /\ change[c].type \in ChargeTypes
                             /\ change[c].newArc = arc'[a]
                             /\ "PENDING_ACCOUNTS" \in change'[c].signed
       \/ a \in edited' \ edited]_vars

\* A customer who did not ask for a quick disconnection gets the contractual
\* notice: whatever order the chain, the retention decisions and the sweep run
\* in, the row commit() raised is not terminated earlier than that.
NoticeIsServed ==
  \A c \in Changes :
    /\ change[c].type = "DISCONNECTION"
    /\ change[c].mode # "QUICK"
    /\ change[c].crm # "BACKFILL_LOCAL"
    /\ change[c].applied
    => today >= change[c].raisedOn + NoticeDays

\* The BASE book keeps the contract: a change of charge is granted once its gates
\* are signed, and only an ADMIN edit is a correction.
GrantedChanges ==
  {c \in Raised : change[c].type \in ChargeTypes /\ Gates(c) \subseteq change[c].signed}

Contract ==
  INSTANCE ChangeContract WITH
    terms     <- AllTerms,
    granted   <- GrantedChanges,
    inEffect  <- InEffect,
    charge    <- arc,
    closed    <- ClosedAccounts,
    corrected <- edited,
    day       <- today

\* Whatever approvers, retention decisions, sweeps, backfills and faults do, each
\* step of the BASE book is one the contract allows: no charge moves that ACCOUNTS
\* has not signed, no notice is cut short, no effect is taken back, no account is
\* closed without its row.  (An effect may come again: two sweeps may hold one row.)
ChainKeepsContract == Contract!ContractSpec

\* Once its date has come, a termination is carried out as long as the read
\* endpoints are called, unless it is retained or rescheduled.
DueTerminationLands ==
  \A c \in Changes :
    c \in Due ~> change[c].applied \/ change[c].retention = "RETAIN" \/ change[c].sched > today

\* Every change commit() has written reaches the chain ("every BASE commercial
\* change now goes through the approval chain").
RaisedChangeEntersTheChain ==
  \A c \in Changes :
    (c \in Raised /\ change[c].crm # "BACKFILL_LOCAL") ~> change[c].stage # "NOT_REQUIRED"

-----------------------------------------------------------------------------
(* The inductive invariant behind the safety properties above              *)

\* The table is filled in order: written rows belong to an account, the others
\* are blank; a backfilled row is born decided.
RowsInOrder ==
  \A c \in Changes :
    IF c < nextId
    THEN /\ change[c].acct \in Accounts
         /\ change[c].type \in ChangeTypes
         /\ change[c].raisedOn <= today
         /\ change[c].crm = "BACKFILL_LOCAL" => change[c].retention # "NONE"
    ELSE change[c] = BlankRow

\* What a handler in flight holds is a row of the kind it works on.
Holds(q) ==
  /\ q.pc \in {"commitTx", "autoRetain", "autoRetainTx", "route", "backfillTx"}
       => q.a \in Accounts
  /\ q.pc = "commitTx" => q.form \in Forms
  /\ q.pc \in {"autoRetain", "autoRetainTx", "route", "decideTx", "samQuickTx", "retainTx",
              "proceedCrm", "proceedTx", "applyTx"}
       => q.c \in Changes /\ q.c < nextId
  /\ q.pc = "samQuickTx" => change[q.c].mode = "QUICK"
  /\ q.pc \in {"proceedCrm", "proceedTx"}
       => change[q.c].crm # "BACKFILL_LOCAL" /\ q.born >= change[q.c].raisedOn
  /\ q.pc = "applyTx" => change[q.c].type = "DISCONNECTION"
  /\ \A c \in q.due : c < nextId /\ change[c].type = "DISCONNECTION"

HandlersHoldRows == \A s \in Slots : Holds(req[s])

\* The gates in front of a stage, quick or not.
Before(stage) ==
  CASE stage = "PENDING_SAM_HEAD"      -> {}
    [] stage = "PENDING_ACCOUNTS"      -> {"PENDING_SAM_HEAD"}
    [] stage = "PENDING_SUPER_ADMIN_2" -> {"PENDING_SAM_HEAD", "PENDING_ACCOUNTS"}
    [] stage = "APPROVED"              -> PendingStages
    [] OTHER                           -> {}

\* Row c may stand at this stage: the gates in front of it are signed.
MayStandAt(c, stage) ==
  /\ Gates(c) \cap Before(stage) \subseteq change[c].signed
  /\ change[c].type # "DISCONNECTION" => stage # "PENDING_SUPER_ADMIN_2"

\* An approver in flight works on a stage the row was entitled to; signatures
\* are never withdrawn, which is why acting on a stale stage does no harm.
SawEarnedStage(q) ==
  q.pc = "decideTx" => q.seen \in PendingStages /\ MayStandAt(q.c, q.seen)

StagesAreEarned ==
  /\ \A c \in Changes : MayStandAt(c, change[c].stage)
  /\ \A s \in Slots : SawEarnedStage(req[s])

\* A normal disconnection raised by commit().
UnderNotice(c) ==
  /\ change[c].type = "DISCONNECTION"
  /\ change[c].mode # "QUICK"
  /\ change[c].crm # "BACKFILL_LOCAL"

NoticeEnd(c) == change[c].raisedOn + NoticeDays

Served(c) == UnderNotice(c) => today >= NoticeEnd(c)

\* A sweep in flight has picked only rows that have served their notice.
PickedServedRows(q) ==
  /\ q.pc \in {"sweep", "applyTx"} => \A c \in q.due : Served(c)
  /\ q.pc = "applyTx" => Served(q.c)

\* No date is set short of the notice.
NoticeIsScheduled ==
  /\ \A c \in Changes :
       UnderNotice(c) /\ change[c].sched # Never => change[c].sched >= NoticeEnd(c)
  /\ \A s \in Slots : PickedServedRows(req[s])

ChainInvariant ==
  /\ TypeOK
  /\ RowsInOrder
  /\ HandlersHoldRows
  /\ StagesAreEarned
  /\ NoticeIsScheduled
  /\ ApprovedTookEffect
  /\ ParkedAccountIsQueued
  /\ TerminationIsBooked
  /\ NoticeIsServed

-----------------------------------------------------------------------------
(* What the comments, the schema and the tests promise and the code does   *)
(* not keep                                                                *)

\* "Rejected at some stage -- terminal."
RejectedIsFinal ==
  [][\A c \in Changes : change[c].stage = "REJECTED" => change'[c].stage = "REJECTED"]_vars

\* "The change is applied to the account only on the terminal APPROVED transition."
AppliedOnlyIfApproved ==
  \A c \in Changes :
    /\ change[c].applied
    /\ change[c].stage # "NOT_REQUIRED"
    => change[c].stage = "APPROVED"

\* "Two simultaneous dashboard reads can't both pick the same due row."
NoRowSweptTwice ==
  \A s, t \in Readers : s # t /\ At(s, "applyTx") /\ At(t, "applyTx") => req[s].c # req[t].c

\* "RETAIN (customer stays, account returns to ACTIVE)".
RetainedIsNotTerminated ==
  \A c \in Changes : change[c].retention = "RETAIN" => ~change[c].applied

\* A disconnection counted twice "would double-count the disconnection in the dashboard".
DisconnectionCountedOnce ==
  \A c, d \in Changes :
    /\ change[c].acct = change[d].acct
    /\ change[c].type = "DISCONNECTION" /\ change[c].applied
    /\ change[d].type = "DISCONNECTION" /\ change[d].applied
    => c = d
=============================================================================
