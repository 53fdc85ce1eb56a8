---------------------------- MODULE ChangeLedger ----------------------------
(***************************************************************************)
(* The two tables every commercial-change handler works on, and the        *)
(* handlers both books (BASE and NEW) share: raising a change, the         *)
(* retention decision, the lazy termination sweep, the ADMIN backfill.     *)
(*                                                                         *)
(* The server is one Node process, so a handler runs undisturbed between   *)
(* two awaits and other handlers run at every await.  A handler in flight  *)
(* is a request slot: pc names the await it is suspended at and the other  *)
(* fields hold what it read before.  A prisma.$transaction is one step; a  *)
(* read outside it is a step of its own, and what it read may be stale     *)
(* when the transaction runs.                                              *)
(***************************************************************************)
EXTENDS SamDomain

CONSTANTS
  Writers,      \* request slots of the write endpoints
  Readers,      \* request slots of the read endpoints (they run the sweep)
  CrmEnabled,   \* CRM_SERVICE_ORDERS_ENABLED
  QuickEnabled, \* QUICK_DISCONNECT_ENABLED, asked of NEW accounts only
  Offered,      \* bound: the forms users send in
  Editable,     \* bound: the accounts an ADMIN edits, once each
  MaxDay,       \* bound: last day of the calendar
  MaxFaults     \* bound: failed calls and process restarts

ASSUME LedgerAssumption ==
  /\ Writers \cap Readers = {}
  /\ CrmEnabled \in BOOLEAN
  /\ QuickEnabled \in BOOLEAN
  /\ Offered \subseteq Forms
  /\ MaxDay \in Nat
  /\ Editable \subseteq Accounts
  /\ MaxFaults \in Nat

VARIABLES
  status,    \* accounts.contract_status
  arc,       \* accounts.current_arc
  change,    \* commercial_changes, by insertion order
  nextId,    \* the next row to be inserted
  orders,    \* service orders the CRM accepted for each row
  today,     \* startOfDayUTC(new Date())
  req,       \* the handlers in flight
  edited,    \* accounts with an UPDATE_FIELD audit entry
  faults     \* failed calls and restarts so far

vars == <<status, arc, change, nextId, orders, today, req, edited, faults>>

Slots == Writers \cup Readers

Request ==
  [ pc   : {"idle", "commitTx", "autoRetain", "autoRetainTx", "route", "decideTx",
            "samQuickTx", "retainTx", "proceedCrm", "proceedTx", "backfillTx",
            "sweep", "applyTx", "push", "orderCrm", "orderTx", "refreshTx",
            "activationTx", "decidedCrm", "decidedTx", "statusTx"},
    a    : Accounts \cup {NoAccount},
    c    : Changes \cup {0},
    form : Forms \cup {NoForm},
    seen : ContractStatus \cup ApprovalStatus \cup Decisions \cup {"NONE"},
    arc  : Nat,
    verb : {"NONE", "APPROVE", "REJECT"},
    due  : SUBSET Changes,
    crm  : OrderStatus \cup {"NONE", "FAILED"},
    born : Nat ]

Idle ==
  [ pc |-> "idle", a |-> NoAccount, c |-> 0, form |-> NoForm, seen |-> "NONE",
    arc |-> 0, verb |-> "NONE", due |-> {}, crm |-> "NONE", born |-> 0 ]

Raised == {c \in Changes : change[c].type # "NONE"}

At(s, pc) == req[s].pc = pc

Resume(s, call) == req' = [req EXCEPT ![s] = call]

Start(s, call) == req[s] = Idle /\ Resume(s, call)

Finish(s) == Resume(s, Idle)

Write(c, row) == change' = [change EXCEPT ![c] = row]

\* The bound on rows: every insert in flight keeps its place.
Inserting == {s \in Writers : req[s].pc \in {"commitTx", "backfillTx"}}
RoomForARow == nextId + Cardinality(Inserting) <= MaxChanges

\* Row c as its customer sees it: the terms of ChangeContract.
TermsOf(c) ==
  LET row == change[c]
      underNotice == row.type = "DISCONNECTION" /\ row.mode # "QUICK" /\ row.crm # "BACKFILL_LOCAL"
  IN
  [ acct   |-> row.acct,
    kind   |-> IF row.type \in ChargeTypes THEN "ARC_CHANGE" ELSE row.type,
    charge |-> IF row.type \in ChargeTypes THEN row.newArc ELSE 0,
    from   |-> IF underNotice THEN row.raisedOn + NoticeDays ELSE row.raisedOn ]

AllTerms == [c \in Changes |-> TermsOf(c)]

InEffect == {c \in Changes : change[c].applied}

ClosedAccounts == {a \in Accounts : status[a] = "TERMINATED"}

-----------------------------------------------------------------------------
(* Effects shared by several transactions                                  *)

\* Status and charge of the account of row c once applyChangeToAccount has run.
ApplyToAccount(c) ==
  LET a == change[c].acct IN
  IF change[c].type = "DISCONNECTION"
  THEN /\ status' = [status EXCEPT ![a] = "TERMINATED"]
       /\ arc' = [arc EXCEPT ![a] = 0]
  ELSE /\ arc' = [arc EXCEPT ![a] = change[c].newArc]
       /\ UNCHANGED status

MoveAccount(c, to) == status' = [status EXCEPT ![change[c].acct] = to]

-----------------------------------------------------------------------------
(* commit(): read the account, upload, insert the row, route it            *)

CommitRead(s, a, form) ==
  /\ RoomForARow
  /\ ~CommitRefused(status[a], form.type)
  /\ form.mode = "QUICK" => a \in Base \/ QuickEnabled
  /\ Start(s, [Idle EXCEPT !.pc = "commitTx", !.a = a, !.form = form,
                           !.seen = status[a], !.arc = arc[a], !.born = today])
  /\ UNCHANGED <<status, arc, change, nextId, orders, today, edited, faults>>

\* The row is inserted after the uploads; everything later still works on the
\* account as CommitRead saw it.
CommitTx(s) ==
  LET q == req[s]
      autoRetain == q.form.type # "DISCONNECTION" /\ q.seen = "PROBABLE_CHURN"
  IN
  /\ At(s, "commitTx")
  /\ nextId \in Changes
  /\ Write(nextId, NewRow(q.a, q.form, q.arc, today))
  /\ nextId' = nextId + 1
  /\ Resume(s, [Idle EXCEPT !.pc = IF autoRetain THEN "autoRetain" ELSE "route",
                            !.a = q.a, !.c = nextId, !.born = q.born])
  /\ UNCHANGED <<status, arc, orders, today, edited, faults>>

Undecided(a) ==
  {c \in Raised : /\ change[c].acct = a
                  /\ change[c].type = "DISCONNECTION"
                  /\ change[c].retention = "NONE"}

\* autoRetainPendingDisconnection finds the newest undecided disconnection ...
AutoRetainFind(s) ==
  LET pending == Undecided(req[s].a) IN
  /\ At(s, "autoRetain")
  /\ \/ /\ pending = {}
        /\ Resume(s, [req[s] EXCEPT !.pc = "route"])
     \/ \E c \in pending :
          /\ \A d \in pending : d <= c
          /\ Resume(s, [req[s] EXCEPT !.pc = "autoRetainTx", !.due = {c}])
  /\ UNCHANGED <<status, arc, change, nextId, orders, today, edited, faults>>

\* ... and retains it in a transaction of its own.
AutoRetainTx(s) ==
  /\ At(s, "autoRetainTx")
  /\ \E c \in req[s].due :
       /\ Write(c, [change[c] EXCEPT !.retention = "RETAIN"])
       /\ MoveAccount(c, "ACTIVE")
  /\ Resume(s, [req[s] EXCEPT !.pc = "route", !.due = {}])
  /\ UNCHANGED <<arc, nextId, orders, today, edited, faults>>

\* Mutant of EnterApprovalChain: the account parked, the row forgotten.
EnterApprovalChainNoStage(s) ==
  /\ At(s, "route")
  /\ MoveAccount(req[s].c, "PENDING_APPROVAL")
  /\ Finish(s)
  /\ UNCHANGED <<arc, change, nextId, orders, today, edited, faults>>

\* Mutant of EnterApprovalChain: the new charge billed from the day it is raised.
EnterApprovalChainCharge(s) ==
  LET c == req[s].c IN
  /\ At(s, "route")
  /\ Write(c, [change[c] EXCEPT !.stage = InitialStage(change[c].mode)])
  /\ MoveAccount(c, "PENDING_APPROVAL")
  /\ arc' = [arc EXCEPT ![change[c].acct] = change[c].newArc]
  /\ Finish(s)
  /\ UNCHANGED <<nextId, orders, today, edited, faults>>

\* The BASE branch: enterApprovalChain parks the account with the row.
EnterApprovalChain(s) ==
  LET c == req[s].c IN
  /\ At(s, "route")
  /\ req[s].a \in Base
  /\ Write(c, [change[c] EXCEPT !.stage = InitialStage(change[c].mode)])
  /\ MoveAccount(c, "PENDING_APPROVAL")
  /\ Finish(s)
  /\ UNCHANGED <<arc, nextId, orders, today, edited, faults>>

-----------------------------------------------------------------------------
(* retentionDecision(): any disconnection row without a decision           *)

RetentionRead(s, c, decision) ==
  LET raisesOrder == CrmEnabled /\ change[c].acct \in CrmLinked IN
  /\ change[c].type = "DISCONNECTION"
  /\ change[c].retention = "NONE"
  /\ \/ /\ decision = "RETAIN"
        /\ Start(s, [Idle EXCEPT !.pc = "retainTx", !.c = c, !.born = today])
     \/ /\ decision = "PROCEED"
        /\ change[c].prompt = Never \/ change[c].prompt <= today
        /\ Start(s, [Idle EXCEPT !.pc = IF raisesOrder THEN "proceedCrm" ELSE "proceedTx",
                                 !.c = c, !.born = today])
  /\ UNCHANGED <<status, arc, change, nextId, orders, today, edited, faults>>

RetainTx(s) ==
  LET c == req[s].c IN
  /\ At(s, "retainTx")
  /\ Write(c, [change[c] EXCEPT !.retention = "RETAIN"])
  /\ MoveAccount(c, "ACTIVE")
  /\ Finish(s)
  /\ UNCHANGED <<arc, nextId, orders, today, edited, faults>>

\* createServiceOrder: an error may hide an order the CRM did accept, and
\* PROCEED goes on either way.
ProceedCrm(s) ==
  LET c == req[s].c IN
  /\ At(s, "proceedCrm")
  /\ \/ /\ orders' = [orders EXCEPT ![c] = @ + 1]
        /\ \E mark \in {"ORDERED", "FAILED"} :
             Resume(s, [req[s] EXCEPT !.pc = "proceedTx", !.crm = mark])
     \/ /\ Resume(s, [req[s] EXCEPT !.pc = "proceedTx", !.crm = "FAILED"])
        /\ UNCHANGED orders
  /\ UNCHANGED <<status, arc, change, nextId, today, edited, faults>>

\* Mutant of ProceedTx: the notice period left out of the date.
ProceedTxNoNotice(s) ==
  LET c == req[s].c IN
  /\ At(s, "proceedTx")
  /\ Write(c, [change[c] EXCEPT !.retention = "PROCEED", !.sched = req[s].born])
  /\ MoveAccount(c, "DISCONNECTING")
  /\ Finish(s)
  /\ UNCHANGED <<arc, nextId, orders, today, edited, faults>>

ProceedTx(s) ==
  LET c == req[s].c IN
  /\ At(s, "proceedTx")
  /\ Write(c, [change[c] EXCEPT !.retention = "PROCEED",
                                !.sched = req[s].born + NoticeDays,
                                !.crm = IF req[s].crm = "NONE" THEN @ ELSE req[s].crm])
  /\ MoveAccount(c, "DISCONNECTING")
  /\ Finish(s)
  /\ UNCHANGED <<arc, nextId, orders, today, edited, faults>>

-----------------------------------------------------------------------------
(* backfillDisconnection(): ADMIN records a disconnection of the past      *)

BackfillRead(s, a) ==
  /\ RoomForARow
  /\ status[a] # "TERMINATED"
  /\ Start(s, [Idle EXCEPT !.pc = "backfillTx", !.a = a, !.arc = arc[a], !.born = today])
  /\ UNCHANGED <<status, arc, change, nextId, orders, today, edited, faults>>

BackfillTx(s) ==
  LET q == req[s] IN
  /\ At(s, "backfillTx")
  /\ nextId \in Changes
  /\ \E effectiveDate \in 0..MaxDay :
       Write(nextId, BackfilledRow(q.a, q.arc, today, effectiveDate))
  /\ nextId' = nextId + 1
  /\ status' = [status EXCEPT ![q.a] = "TERMINATED"]
  /\ arc' = [arc EXCEPT ![q.a] = 0]
  /\ Finish(s)
  /\ UNCHANGED <<orders, today, edited, faults>>

-----------------------------------------------------------------------------
(* sweepDueTerminations(), at the head of the read endpoints               *)

Due ==
  {c \in Changes : /\ change[c].type = "DISCONNECTION"
                   /\ change[c].retention = "PROCEED"
                   /\ change[c].sched # Never
                   /\ change[c].sched <= today
                   /\ ~change[c].applied}

\* SELECT ... FOR UPDATE SKIP LOCKED in autocommit: the locks are gone with
\* the statement, only the ids stay.
SweepRead(s) ==
  /\ Due # {}
  /\ Start(s, [Idle EXCEPT !.pc = "sweep", !.due = Due, !.born = today])
  /\ UNCHANGED <<status, arc, change, nextId, orders, today, edited, faults>>

\* The read of applyChangeToAccount: a row already marked is left alone.
ApplyRead(s) ==
  /\ At(s, "sweep")
  /\ \E c \in req[s].due :
       LET rest == req[s].due \ {c} IN
       Resume(s, IF ~change[c].applied
                 THEN [req[s] EXCEPT !.pc = "applyTx", !.c = c, !.due = rest]
                 ELSE IF rest = {} THEN Idle
                 ELSE [req[s] EXCEPT !.due = rest])
  /\ UNCHANGED <<status, arc, change, nextId, orders, today, edited, faults>>

\* Mutant of ApplyTx: the marker of the row never set.
ApplyTxNoMarker(s) ==
  /\ At(s, "applyTx")
  /\ ApplyToAccount(req[s].c)
  /\ Resume(s, IF req[s].due = {} THEN Idle ELSE [req[s] EXCEPT !.pc = "sweep", !.c = 0])
  /\ UNCHANGED <<change, nextId, orders, today, edited, faults>>

\* Its writes: account and marker together, without looking again.
ApplyTx(s) ==
  LET c == req[s].c IN
  /\ At(s, "applyTx")
  /\ ApplyToAccount(c)
  /\ Write(c, [change[c] EXCEPT !.applied = TRUE])
  /\ Resume(s, IF req[s].due = {} THEN Idle ELSE [req[s] EXCEPT !.pc = "sweep", !.c = 0])
  /\ UNCHANGED <<nextId, orders, today, edited, faults>>

-----------------------------------------------------------------------------
(* The environment                                                         *)

\* Midnight UTC.  A request outlives at most one midnight.
Tick ==
  /\ today < MaxDay
  /\ \A s \in Slots : req[s] # Idle => req[s].born = today
  /\ today' = today + 1
  /\ UNCHANGED <<status, arc, change, nextId, orders, req, edited, faults>>

\* An upload or a database call throws: the handler ends there, and what it
\* has committed stays.
CallFails(s) ==
  /\ faults < MaxFaults
  /\ req[s] # Idle
  /\ Finish(s)
  /\ faults' = faults + 1
  /\ UNCHANGED <<status, arc, change, nextId, orders, today, edited>>

\* A restart loses every handler in flight.
Restart ==
  /\ faults < MaxFaults
  /\ \E s \in Slots : req[s] # Idle
  /\ req' = [s \in Slots |-> Idle]
  /\ faults' = faults + 1
  /\ UNCHANGED <<status, arc, change, nextId, orders, today, edited>>

\* accounts.service.ts update(): an ADMIN sets the charge and the status, to
\* any value the endpoint's schema admits, whatever workflow is under way.
AdminUpdate(a) ==
  /\ a \in Editable \ edited
  /\ \E charge \in Arcs \cup {0}, to \in ContractStatus \ {"PENDING_APPROVAL"} :
       /\ charge # arc[a] \/ to # status[a]
       /\ arc' = [arc EXCEPT ![a] = charge]
       /\ status' = [status EXCEPT ![a] = to]
  /\ edited' = edited \cup {a}
  /\ UNCHANGED <<change, nextId, orders, today, req, faults>>

\* The calendar has run out and no handler is in flight: the server waits.  A
\* handler that could never be resumed would still deadlock.
BookClosed ==
  /\ today = MaxDay
  /\ \A s \in Slots : req[s] = Idle
  /\ UNCHANGED vars

LedgerInit ==
  /\ status \in [Accounts -> {"ACTIVE", "EXPIRED"}]
  /\ arc \in [Accounts -> Arcs]
  /\ change = [c \in Changes |-> BlankRow]
  /\ nextId = 1
  /\ orders = [c \in Changes |-> 0]
  /\ today = 0
  /\ req = [s \in Slots |-> Idle]
  /\ edited = {}
  /\ faults = 0

LedgerTypeOK ==
  /\ status \in [Accounts -> ContractStatus]
  /\ arc \in [Accounts -> Nat]
  /\ change \in [Changes -> Row]
  /\ nextId \in Nat \ {0}
  /\ orders \in [Changes -> Nat]
  /\ today \in Nat
  /\ req \in [Slots -> Request]
  /\ edited \subseteq Accounts
  /\ faults \in Nat
=============================================================================
