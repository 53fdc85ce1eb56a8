------------------------------- MODULE CrmBook -------------------------------
(***************************************************************************)
(* The NEW book: accounts whose changes the CRM carries out.  A change of  *)
(* charge goes out as a service order and is mirrored once the CRM has     *)
(* completed it; a disconnection waits out its retention window, a QUICK   *)
(* one the decision of the CRM's admin.  The CRM answers calls, or loses   *)
(* the answer, and sends its decisions and status changes as webhooks that *)
(* arrive in any order, at most once each (EventInbox shows why), and race *)
(* the handlers of ChangeLedger and the sweep.                             *)
(***************************************************************************)
EXTENDS ChangeLedger

CONSTANTS
  Resent,      \* bound: accounts the CRM sends customer.activated for again, once each
  MaxPost,     \* bound: webhooks under way when the CRM reports a further step
  ReportsNormal  \* the CRM reports on the orders of normal disconnections too

ASSUME CrmAssumption ==
  /\ ReportsNormal \in BOOLEAN
  /\ Resent \subseteq CrmLinked
  /\ MaxPost \in Nat

VARIABLES
  linked,      \* rows with a crm_service_order_id
  crmAt,       \* where the CRM stands with the order of each row
  asked,       \* where the CRM's admin stands with the QUICK request of each row
  post,        \* webhooks the CRM has sent and SAM has not taken
  activated    \* accounts whose charge the CRM has resent

crmVars == <<linked, crmAt, asked, post, activated>>

crmBookVars == <<vars, crmVars>>

Webhooks == [c : Changes, says : OrderStatus \cup Decisions]

IsLinkedAccount(a) == a \in CrmLinked

OfNewBook(s) == At(s, "route") /\ req[s].a \notin Base

ledgerVars == <<status, arc, change, nextId, orders, today, edited, faults>>

-----------------------------------------------------------------------------
(* commit(), NEW branch                                                    *)

\* A QUICK request parks the account, then is pushed to the CRM's admin.
EnterPendingQuickApproval(s) ==
  LET c == req[s].c IN
  /\ OfNewBook(s)
  /\ change[c].mode = "QUICK"
  /\ MoveAccount(c, "PENDING_QUICK_APPROVAL")
  /\ Resume(s, IF IsLinkedAccount(req[s].a) THEN [req[s] EXCEPT !.pc = "push"] ELSE Idle)
  /\ UNCHANGED <<arc, change, nextId, orders, today, edited, faults, crmVars>>

\* The push is tried once; its outcome goes to the audit log and nowhere else.
PushQuick(s) ==
  LET c == req[s].c IN
  /\ At(s, "push")
  /\ Finish(s)
  /\ \/ asked' = [asked EXCEPT ![c] = "ASKED"]
     \/ UNCHANGED asked
  /\ UNCHANGED <<ledgerVars, linked, crmAt, post, activated>>

\* A normal disconnection opens its window at the effective date of the form.
EnterProbableChurn(s) ==
  LET c == req[s].c IN
  /\ OfNewBook(s)
  /\ change[c].mode = "NORMAL"
  /\ \E effectiveDate \in 0..MaxDay :
       Write(c, [change[c] EXCEPT !.prompt = effectiveDate + WindowDays])
  /\ MoveAccount(c, "PROBABLE_CHURN")
  /\ Finish(s)
  /\ UNCHANGED <<arc, nextId, orders, today, edited, faults, crmVars>>

\* Mutant of RouteArcChange: the charge mirrored before the CRM has seen it.
RouteArcChangeAtOnce(s) ==
  /\ OfNewBook(s)
  /\ change[req[s].c].type \in ChargeTypes
  /\ Resume(s, [req[s] EXCEPT !.pc = "sweep", !.due = {req[s].c}])
  /\ UNCHANGED <<ledgerVars, crmVars>>

\* Anything else: applied at once when the CRM does not know the account, left
\* alone when the kill-switch is off, sent as an order otherwise.
RouteArcChange(s) ==
  /\ OfNewBook(s)
  /\ change[req[s].c].type \in ChargeTypes
  /\ Resume(s, IF ~IsLinkedAccount(req[s].a)
               THEN [req[s] EXCEPT !.pc = "sweep", !.due = {req[s].c}]
               ELSE IF CrmEnabled THEN [req[s] EXCEPT !.pc = "orderCrm"] ELSE Idle)
  /\ UNCHANGED <<ledgerVars, crmVars>>

\* The CRM takes an order; a second order for the row leaves the first standing.
TakeOrder(c) ==
  /\ orders' = [orders EXCEPT ![c] = @ + 1]
  /\ crmAt' = [crmAt EXCEPT ![c] = IF @ = "NONE" THEN "ORDERED" ELSE @]

\* createServiceOrder of commit(): on an error the row keeps no trace of it,
\* and the error may hide an order the CRM did take.
OrderCrm(s) ==
  LET c == req[s].c IN
  /\ At(s, "orderCrm")
  /\ \/ TakeOrder(c) /\ (Resume(s, [req[s] EXCEPT !.pc = "orderTx"]) \/ Finish(s))
     \/ Finish(s) /\ UNCHANGED <<orders, crmAt>>
  /\ UNCHANGED <<status, arc, change, nextId, today, edited, faults, linked, asked, post, activated>>

OrderTx(s) ==
  LET c == req[s].c IN
  /\ At(s, "orderTx")
  /\ Write(c, [change[c] EXCEPT !.crm = "ORDERED"])
  /\ linked' = linked \cup {c}
  /\ Finish(s)
  /\ UNCHANGED <<status, arc, nextId, orders, today, edited, faults, crmAt, asked, post, activated>>

-----------------------------------------------------------------------------
(* retentionDecision(), PROCEED: the shared steps, with the CRM's side     *)

ProceedOrder(s) ==
  /\ ProceedCrm(s)
  /\ crmAt' = IF orders' = orders THEN crmAt
              ELSE [crmAt EXCEPT ![req[s].c] = IF @ = "NONE" THEN "ORDERED" ELSE @]
  /\ UNCHANGED <<linked, asked, post, activated>>

\* Mutant of Proceed: the date of the termination left out.
ProceedUndated(s) ==
  LET c == req[s].c IN
  /\ At(s, "proceedTx")
  /\ Write(c, [change[c] EXCEPT !.retention = "PROCEED"])
  /\ MoveAccount(c, "DISCONNECTING")
  /\ Finish(s)
  /\ UNCHANGED <<arc, nextId, orders, today, edited, faults, crmVars>>

Proceed(s) ==
  /\ ProceedTx(s)
  /\ linked' = IF req[s].crm = "ORDERED" THEN linked \cup {req[s].c} ELSE linked
  /\ UNCHANGED <<crmAt, asked, post, activated>>

-----------------------------------------------------------------------------
(* What the CRM reports.  The push tells it the id of a QUICK row; service *)
(* orders carry a short reference in their notes only.  If that serves the *)
(* CRM to name a normal disconnection, it reports on those orders too; the *)
(* orders of changes of charge are polled.                                 *)

Sends(c, says) == post' = post \cup [c : {c}, says : says]

ReportsOn(c) ==
  \/ asked[c] = "APPROVED"
  \/ ReportsNormal /\ change[c].mode = "NORMAL"

Reports(c, stage) ==
  IF ReportsOn(c) THEN Cardinality(post) < MaxPost /\ Sends(c, {stage}) ELSE UNCHANGED post

-----------------------------------------------------------------------------
(* refreshCrmStatus() and setActivationDate()                              *)

\* The row is read, then the CRM lists its orders as they stand.
RefreshRead(s, c) ==
  /\ c \in linked
  /\ change[c].acct \in CrmLinked
  /\ crmAt[c] \in OrderStatus
  /\ Start(s, [Idle EXCEPT !.pc = "refreshTx", !.c = c, !.crm = crmAt[c], !.born = today])
  /\ UNCHANGED <<ledgerVars, crmVars>>

\* The listed status is saved; a completed change of charge goes on to
\* applyChangeToAccount, a completed disconnection waits for the sweep.
RefreshTx(s) ==
  LET c == req[s].c
      applies == /\ req[s].crm = "COMPLETED"
                 /\ ~change[c].applied
                 /\ change[c].type # "DISCONNECTION"
  IN
  /\ At(s, "refreshTx")
  /\ Write(c, [change[c] EXCEPT !.crm = req[s].crm])
  /\ Resume(s, IF applies THEN [req[s] EXCEPT !.pc = "sweep", !.due = {c}] ELSE Idle)
  /\ UNCHANGED <<status, arc, nextId, orders, today, edited, faults, crmVars>>

\* The CRM moves the order on when it takes the date, and answers with where it
\* stands then; the answer may be lost.
SetActivationDate(s, c) ==
  /\ c \in linked
  /\ crmAt[c] = "AWAIT_SAM"
  /\ req[s] = Idle
  /\ \E stands \in {"IN_FLIGHT", "COMPLETED"} :
       /\ crmAt' = [crmAt EXCEPT ![c] = stands]
       /\ \/ Resume(s, [Idle EXCEPT !.pc = "activationTx", !.c = c, !.crm = stands, !.born = today])
          \/ UNCHANGED req
       /\ Reports(c, stands)
  /\ UNCHANGED <<ledgerVars, linked, asked, activated>>

\* The answer is saved; a completed order goes on to applyChangeToAccount, that of
\* a disconnection too.
ActivationTx(s) ==
  LET c == req[s].c
      applies == req[s].crm = "COMPLETED" /\ ~change[c].applied
  IN
  /\ At(s, "activationTx")
  /\ Write(c, [change[c] EXCEPT !.crm = req[s].crm])
  /\ Resume(s, IF applies THEN [req[s] EXCEPT !.pc = "sweep", !.due = {c}] ELSE Idle)
  /\ UNCHANGED <<status, arc, nextId, orders, today, edited, faults, crmVars>>

-----------------------------------------------------------------------------
(* quickDisconnect.decided                                                 *)

\* The webhook is taken and the row read; an approval raises an order first.
DecidedRead(s, w) ==
  LET asksCrm == w.says = "APPROVE_QUICK" /\ CrmEnabled /\ change[w.c].acct \in CrmLinked IN
  /\ w \in post
  /\ w.says \in Decisions
  /\ change[w.c].mode = "QUICK"
  /\ Start(s, [Idle EXCEPT !.pc = IF asksCrm THEN "decidedCrm" ELSE "decidedTx",
                           !.c = w.c, !.seen = w.says, !.born = today])
  /\ post' = post \ {w}
  /\ UNCHANGED <<ledgerVars, linked, crmAt, asked, activated>>

DecidedCrm(s) ==
  LET c == req[s].c
      answer(mark) == Resume(s, [req[s] EXCEPT !.pc = "decidedTx", !.crm = mark])
  IN
  /\ At(s, "decidedCrm")
  /\ \/ TakeOrder(c) /\ (answer("ORDERED") \/ answer("FAILED"))
     \/ answer("FAILED") /\ UNCHANGED <<orders, crmAt>>
  /\ UNCHANGED <<status, arc, change, nextId, today, edited, faults, linked, asked, post, activated>>

\* Mutant of DecidedTx: the rejection that leaves the account waiting.
DecidedTxKeepParked(s) ==
  LET c == req[s].c IN
  /\ At(s, "decidedTx")
  /\ IF req[s].seen = "APPROVE_QUICK"
     THEN /\ Write(c, [change[c] EXCEPT !.quick = "APPROVED", !.retention = "PROCEED",
                                        !.sched = req[s].born + change[c].days])
          /\ MoveAccount(c, "DISCONNECTING")
     ELSE Write(c, [change[c] EXCEPT !.quick = "REJECTED", !.retention = "RETAIN"]) /\ UNCHANGED status
  /\ Finish(s)
  /\ UNCHANGED <<arc, nextId, orders, today, edited, faults, crmVars>>

\* Row and account in one transaction, whatever became of them since the read.
DecidedTx(s) ==
  LET c == req[s].c
      approved == [change[c] EXCEPT !.quick = "APPROVED", !.retention = "PROCEED",
                                    !.sched = req[s].born + change[c].days,
                                    !.crm = IF req[s].crm = "NONE" THEN @ ELSE req[s].crm]
      rejected == [change[c] EXCEPT !.quick = "REJECTED", !.retention = "RETAIN"]
      approves == req[s].seen = "APPROVE_QUICK"
  IN
  /\ At(s, "decidedTx")
  /\ Write(c, IF approves THEN approved ELSE rejected)
  /\ MoveAccount(c, IF approves THEN "DISCONNECTING" ELSE "ACTIVE")
  /\ linked' = IF req[s].crm = "ORDERED" THEN linked \cup {c} ELSE linked
  /\ Finish(s)
  /\ UNCHANGED <<arc, nextId, orders, today, edited, faults, crmAt, asked, post, activated>>

-----------------------------------------------------------------------------
(* commercialChange.statusChanged                                          *)

StatusRead(s, w) ==
  /\ w \in post
  /\ w.says \in OrderStatus
  /\ Start(s, [Idle EXCEPT !.pc = "statusTx", !.c = w.c, !.crm = w.says,
                           !.seen = status[change[w.c].acct], !.born = today])
  /\ post' = post \ {w}
  /\ UNCHANGED <<ledgerVars, linked, crmAt, asked, activated>>

\* The row after the CRM says so; no earlier decision or status is looked at.
RowAfterStatus(row, says) ==
  LET quick == row.mode = "QUICK"
      marked == [row EXCEPT !.crm = says]
  IN
  CASE says = "DOCS" ->
         [marked EXCEPT !.retention = "PROCEED",
                        !.quick = IF quick THEN "APPROVED" ELSE @,
                        !.sched = IF quick THEN today + row.days ELSE @]
    [] says = "COMPLETED" -> [marked EXCEPT !.applied = TRUE]
    [] says = "REJECTED" /\ quick -> [marked EXCEPT !.quick = "REJECTED"]
    [] OTHER -> marked

\* Mutant of StatusAfter: the status of the order taken for one of the account.
StatusAfterMixedUp(says, seen, now) ==
  IF says \in {"COMPLETED", "REJECTED", "CANCELLED"} THEN says ELSE "DISCONNECTING"

\* The contract status it asks for; IN_FLIGHT spares an account read DISCONNECTING.
StatusAfter(says, seen, now) ==
  CASE says = "DOCS" -> "DISCONNECTING"
    [] says = "IN_FLIGHT" -> IF seen = "DISCONNECTING" THEN now ELSE "DISCONNECTING"
    [] says = "COMPLETED" -> "TERMINATED"
    [] says \in {"REJECTED", "CANCELLED"} -> "ACTIVE"
    [] OTHER -> now

\* Mutant of StatusTx: the termination of a completed order left to the sweep's marker.
StatusTxNoMarker(s) ==
  LET c == req[s].c IN
  /\ At(s, "statusTx")
  /\ Write(c, [RowAfterStatus(change[c], req[s].crm) EXCEPT !.applied = change[c].applied])
  /\ MoveAccount(c, StatusAfter(req[s].crm, req[s].seen, status[change[c].acct]))
  /\ linked' = linked \cup {c}
  /\ Finish(s)
  /\ UNCHANGED <<arc, nextId, orders, today, edited, faults, crmAt, asked, post, activated>>

\* One transaction; the charge of a terminated account stays what it was.  The
\* CRM names its order from the second stage on.
StatusTx(s) ==
  LET c == req[s].c IN
  /\ At(s, "statusTx")
  /\ Write(c, RowAfterStatus(change[c], req[s].crm))
  /\ MoveAccount(c, StatusAfter(req[s].crm, req[s].seen, status[change[c].acct]))
  /\ linked' = IF req[s].crm = "REJECTED" THEN linked ELSE linked \cup {c}
  /\ Finish(s)
  /\ UNCHANGED <<arc, nextId, orders, today, edited, faults, crmAt, asked, post, activated>>

\* customer.activated for an account that exists: the charge is the CRM's.
Reactivate(a) ==
  /\ a \in Resent \ activated
  /\ \E charge \in Arcs : arc' = [arc EXCEPT ![a] = charge]
  /\ activated' = activated \cup {a}
  /\ UNCHANGED <<status, change, nextId, orders, today, req, edited, faults, linked, crmAt, asked, post>>

-----------------------------------------------------------------------------
(* The CRM                                                                 *)

\* The admin decides; the old webhook and the new one report it.  A webhook that
\* is not sent, or lost, is one that is never taken.
CrmAdminDecides(c) ==
  /\ asked[c] = "ASKED"
  /\ \/ /\ asked' = [asked EXCEPT ![c] = "APPROVED"]
        /\ crmAt' = [crmAt EXCEPT ![c] = "DOCS"]
        /\ Sends(c, {"APPROVE_QUICK", "DOCS"})
     \/ /\ asked' = [asked EXCEPT ![c] = "REJECTED"]
        /\ UNCHANGED crmAt
        /\ Sends(c, {"REJECT_QUICK", "REJECTED"})
  /\ UNCHANGED <<vars, linked, activated>>

\* The stages of an order, whatever it orders; the stage of SAM's activation date
\* is left when SAM sets it.
NextInCrm(c) ==
  CASE crmAt[c] = "ORDERED"   -> {"DOCS", "REJECTED"}
    [] crmAt[c] = "DOCS"      -> {"IN_FLIGHT", "CANCELLED"}
    [] crmAt[c] = "IN_FLIGHT" -> {"AWAIT_SAM", "COMPLETED", "CANCELLED"}
    [] crmAt[c] = "AWAIT_SAM" -> {"CANCELLED"}
    [] OTHER                  -> {}

CrmWorks(c) ==
  /\ \E to \in NextInCrm(c) :
       /\ crmAt' = [crmAt EXCEPT ![c] = to]
       /\ Reports(c, to)
  /\ UNCHANGED <<vars, linked, asked, activated>>

-----------------------------------------------------------------------------
CrmBookInit ==
  /\ LedgerInit
  /\ linked = {}
  /\ crmAt = [c \in Changes |-> "NONE"]
  /\ asked = [c \in Changes |-> "NONE"]
  /\ post = {}
  /\ activated = {}

SharedStep(s) ==
  \/ \E a \in Accounts, form \in Offered : CommitRead(s, a, form)
  \/ CommitTx(s) \/ AutoRetainFind(s) \/ AutoRetainTx(s)
  \/ \E c \in Raised, decision \in {"RETAIN", "PROCEED"} : RetentionRead(s, c, decision)
  \/ RetainTx(s)
  \/ \E a \in Accounts : BackfillRead(s, a)
  \/ BackfillTx(s)

\* The writes of applyChangeToAccount are reached from the sweep, from a refresh
\* and from commit().
ApplyStep(s) == ApplyRead(s) \/ ApplyTx(s)

NewBookStep(s) ==
  \/ EnterPendingQuickApproval(s) \/ PushQuick(s) \/ EnterProbableChurn(s)
  \/ RouteArcChange(s) \/ OrderCrm(s) \/ OrderTx(s)
  \/ ProceedOrder(s) \/ Proceed(s)
  \/ \E c \in Raised : RefreshRead(s, c) \/ SetActivationDate(s, c)
  \/ RefreshTx(s) \/ ActivationTx(s)

WebhookStep(s) ==
  \/ \E w \in post : DecidedRead(s, w) \/ StatusRead(s, w)
  \/ DecidedCrm(s) \/ DecidedTx(s) \/ StatusTx(s)

Around ==
  \/ Tick \/ Restart \/ BookClosed
  \/ \E s \in Slots : CallFails(s)
  \/ \E a \in Accounts : AdminUpdate(a)

CrmSide ==
  \/ \E a \in Accounts : Reactivate(a)
  \/ \E c \in Changes : CrmAdminDecides(c) \/ CrmWorks(c)

CrmBookNext ==
  \/ \E s \in Writers : NewBookStep(s) \/ WebhookStep(s)
  \/ CrmSide
  \/ /\ \/ \E s \in Writers : SharedStep(s)
        \/ \E s \in Readers : SweepRead(s)
        \/ \E s \in Slots : ApplyStep(s)
        \/ Around
     /\ UNCHANGED crmVars

CrmBookSpec == CrmBookInit /\ [][CrmBookNext]_crmBookVars

-----------------------------------------------------------------------------
(* Properties                                                              *)

\* Type invariant: of the tables, of what a handler carries over an await, and of
\* the CRM's side.
CrmBookTypeOK ==
  /\ LedgerTypeOK
  /\ linked \subseteq Changes
  /\ crmAt \in [Changes -> OrderStatus \cup {"NONE"}]
  /\ asked \in [Changes -> {"NONE", "ASKED", "APPROVED", "REJECTED"}]
  /\ post \subseteq Webhooks
  /\ activated \subseteq Resent

\* "The account row only mirrors the change once CRM moves the order to
\* COMPLETED": apart from a termination, an audited edit and what the CRM itself
\* resends, the charge of an account the CRM knows moves only to what a change
\* asks for whose order the CRM has completed.
ChargeFollowsOrder ==
  [][\A a \in CrmLinked : arc'[a] # arc[a] =>
       \/ arc'[a] = 0 /\ status'[a] = "TERMINATED"
       \/ \E c \in Raised : /\ change[c].acct = a
                            /\ change[c].newArc = arc'[a]
                            /\ crmAt[c] = "COMPLETED"
       \/ a \in edited' \ edited
       \/ a \in activated' \ activated]_crmBookVars

\* Whichever of webhook, sweep and backfill terminates an account that no ADMIN
\* edited, the applied disconnection row that the dashboards count is there.
NewTerminationIsBooked ==
  \A a \in Accounts \ edited : status[a] = "TERMINATED" =>
    \E c \in Raised : /\ change[c].acct = a
                      /\ change[c].type = "DISCONNECTION"
                      /\ change[c].applied

\* An account waits for the CRM's admin only while a QUICK request on it has no
\* decision: both webhooks, in any order and racing new requests and retention
\* decisions, release the account in the step that stamps the row.
WaitingIsUndecided ==
  \A a \in Accounts \ edited : status[a] = "PENDING_QUICK_APPROVAL" =>
    \E c \in Raised : /\ change[c].acct = a
                      /\ change[c].mode = "QUICK"
                      /\ change[c].quick = "NONE"

\* Row c is one by which the sweep closes its account, now or later.
WillClose(c) ==
  /\ change[c].type = "DISCONNECTION"
  /\ change[c].retention = "PROCEED"
  /\ change[c].sched # Never
  /\ ~change[c].applied

\* The account is closing and no sweep will ever close it.
ClosesByNobody(a) ==
  /\ status[a] = "DISCONNECTING"
  /\ ~\E c \in Raised : change[c].acct = a /\ WillClose(c)

\* The CRM's word, or a decision, comes too late to date its row, or carries no date.
Undated(s) ==
  LET row == change[req[s].c] IN
  \/ At(s, "statusTx") /\ req[s].crm = "IN_FLIGHT"
  \/ At(s, "statusTx") /\ req[s].crm = "DOCS" /\ (row.applied \/ row.mode # "QUICK")
  \/ (At(s, "proceedTx") \/ At(s, "decidedTx")) /\ row.applied

\* "Termination on day N (regardless of CRM stage)": an account is left closing with
\* no termination to come only by a status of the CRM that comes late or undated, or
\* by a decision on a row that has taken effect; not by retention decisions,
\* retreats, refreshes or sweeps, in whatever order they run.
ClosingIsTimed ==
  [][\A a \in Accounts \ edited' : ClosesByNobody(a)' /\ ~ClosesByNobody(a) =>
       \E s \in Writers : Undated(s) /\ change[req[s].c].acct = a]_crmBookVars

\* A normal disconnection raised by commit(), and its notice.
UnderNotice(c) ==
  /\ change[c].type = "DISCONNECTION"
  /\ change[c].mode = "NORMAL"
  /\ change[c].crm # "BACKFILL_LOCAL"

NoticeEnd(c) == change[c].raisedOn + NoticeDays

\* Nothing on SAM's side cuts a notice short, neither the retention decisions nor the
\* refreshes and the sweep, however they race: a normal disconnection takes effect
\* before its notice has run only when the CRM has completed its order.
NoticeOrCompletion ==
  \A c \in Changes : UnderNotice(c) /\ change[c].applied =>
    today >= NoticeEnd(c) \/ crmAt[c] = "COMPLETED"

\* A change of charge of the NEW book is granted when the CRM has completed its
\* order, or when the CRM has never heard of the account; a disconnection may leave
\* its notice out once the CRM has completed its order.
GrantedChanges ==
  {c \in Raised :
     \/ /\ change[c].type \in ChargeTypes
        /\ change[c].acct \in CrmLinked => crmAt[c] = "COMPLETED"
     \/ change[c].mode = "NORMAL" /\ crmAt[c] = "COMPLETED"}

Contract ==
  INSTANCE ChangeContract WITH
    terms     <- AllTerms,
    granted   <- GrantedChanges,
    inEffect  <- InEffect,
    charge    <- arc,
    closed    <- ClosedAccounts,
    corrected <- edited \cup activated,
    day       <- today

\* The NEW book keeps the contract the BASE book keeps: whatever webhooks,
\* refreshes, retention decisions and sweeps do, in any order, each of their steps
\* is one the contract allows, whose grants are now the CRM's completed orders.
CrmBookKeepsContract == Contract!ContractSpec

-----------------------------------------------------------------------------
(* The inductive invariant behind the safety properties above              *)

\* The table is filled in order: written rows belong to an account, the others
\* are blank; only disconnections have a mode, and a backfilled row is born
\* decided.
BookInOrder ==
  \A c \in Changes :
    IF c < nextId
    THEN /\ change[c].acct \in Accounts
         /\ change[c].type \in ChangeTypes
         /\ change[c].mode # "NONE" <=> change[c].type = "DISCONNECTION"
         /\ change[c].raisedOn <= today
         /\ change[c].crm = "BACKFILL_LOCAL" => change[c].retention # "NONE"
    ELSE change[c] = BlankRow

\* The row is one commit() wrote.
Raises(c) == c \in Changes /\ c < nextId /\ change[c].crm # "BACKFILL_LOCAL"

\* The CRM has decided the request of row c; "says" takes an approval for granted
\* unless it is a refusal.
Decided(c, says) ==
  /\ asked[c] \in {"APPROVED", "REJECTED"}
  /\ says \notin {"REJECTED", "REJECT_QUICK"} => asked[c] = "APPROVED"

\* What the CRM says of row c is what its admin decided, or where the order of a
\* normal disconnection stands or stood; a completed order stays completed.
SaysTruth(c, says) ==
  \/ Decided(c, says)
  \/ change[c].mode = "NORMAL" /\ (says = "COMPLETED" => crmAt[c] = "COMPLETED")

\* The CRM works on rows of commit() only, on QUICK ones when its admin was
\* asked; a row is stamped with a decision after the admin has made it.
CrmKnowsRows ==
  /\ \A c \in linked : Raises(c)
  /\ \A c \in Changes : crmAt[c] # "NONE" => Raises(c)
  /\ \A c \in Changes : asked[c] # "NONE" => Raises(c) /\ change[c].mode = "QUICK"
  /\ \A c \in Changes : change[c].quick # "NONE" => asked[c] \in {"APPROVED", "REJECTED"}
  /\ \A w \in post : Raises(w.c) /\ SaysTruth(w.c, w.says)

\* What applyChangeToAccount may be called for: a termination whose notice has
\* run, a charge whose order the CRM has completed or never heard of.
MayApply(c) ==
  /\ UnderNotice(c) => today >= NoticeEnd(c) \/ crmAt[c] = "COMPLETED"
  /\ change[c].type \in ChargeTypes /\ change[c].acct \in CrmLinked => crmAt[c] = "COMPLETED"

\* What a handler in flight holds is a row of the kind it works on.
HoldsRow(q) ==
  /\ q.pc \in {"commitTx", "autoRetain", "autoRetainTx", "route", "backfillTx"} => q.a \in Accounts
  /\ q.pc = "commitTx" => q.form \in Forms
  /\ q.pc \in {"autoRetain", "autoRetainTx", "route", "push", "orderCrm", "orderTx", "retainTx",
              "proceedCrm", "proceedTx", "refreshTx", "activationTx", "decidedCrm", "decidedTx",
              "statusTx"}
       => Raises(q.c)
  /\ q.pc \in {"autoRetain", "autoRetainTx", "route"} => change[q.c].acct = q.a
  /\ q.pc = "push" => change[q.c].mode = "QUICK"
  /\ q.pc \in {"proceedCrm", "proceedTx"}
       => change[q.c].type = "DISCONNECTION" /\ q.born >= change[q.c].raisedOn
  /\ q.pc \in {"refreshTx", "activationTx", "statusTx"} => q.crm \in OrderStatus
  /\ q.pc \in {"refreshTx", "activationTx"} /\ q.crm = "COMPLETED" /\ change[q.c].mode # "QUICK"
       => crmAt[q.c] = "COMPLETED"
  /\ q.pc \in {"decidedCrm", "decidedTx"} => q.seen \in Decisions /\ Decided(q.c, q.seen)
  /\ q.pc = "statusTx" => SaysTruth(q.c, q.crm)
  /\ q.pc = "applyTx" => q.c \in Changes /\ q.c < nextId /\ MayApply(q.c)
  /\ \A c \in q.due : c < nextId /\ (q.pc \in {"sweep", "applyTx"} => MayApply(c))

HandlersHoldTheirRows == \A s \in Slots : HoldsRow(req[s])

\* Until commit() has routed its row and pushed the request, no other handler is
\* at that point with the same row, and the CRM's admin has not heard of it.
Routing == {"autoRetain", "autoRetainTx", "route", "push"}

RoutedOnce ==
  \A s \in Slots : req[s].pc \in Routing =>
    /\ asked[req[s].c] = "NONE"
    /\ \A t \in Slots \ {s} : req[t].pc \in Routing => req[t].c # req[s].c

\* No date is set short of the notice.
NoticeIsScheduled ==
  \A c \in Changes :
    UnderNotice(c) /\ change[c].sched # Never => change[c].sched >= NoticeEnd(c)

CrmBookInvariant ==
  /\ CrmBookTypeOK
  /\ BookInOrder
  /\ CrmKnowsRows
  /\ HandlersHoldTheirRows
  /\ RoutedOnce
  /\ NoticeIsScheduled
  /\ NewTerminationIsBooked
  /\ WaitingIsUndecided
  /\ NoticeOrCompletion

-----------------------------------------------------------------------------
(* What the contract with the CRM says and the code does not keep          *)

\* "Hard revert: account flips back to ACTIVE on SAM.  Customer is NOT
\* disconnected": a QUICK disconnection the CRM has turned down after its first
\* stage, with the account back to ACTIVE, is not picked by the sweep.
RevertIsHard ==
  \A c \in Due : change[c].mode = "QUICK" /\ change[c].crm = "CANCELLED"
                 => status[change[c].acct] # "ACTIVE"

\* "409: Out-of-order delivery": a status that makes no sense for a terminated
\* account is refused.
LateStatusIsRefused ==
  [][\A s \in Writers : At(s, "statusTx") /\ ~At(s, "statusTx")' =>
       \A a \in Accounts : status[a] = "TERMINATED" => status'[a] = "TERMINATED"]_crmBookVars
=============================================================================
