------------------------------- MODULE Figures -------------------------------
(***************************************************************************)
(* What the Existing Base and New Base dashboards compute from the two     *)
(* tables of ChangeLedger: the waterfall that leads from the charges at    *)
(* the start of the period to those of today, and what it leaves over.     *)
(* All time view; lakhs and rounding are layout.  The dashboards read      *)
(* committed rows and write nothing (the sweep they start is               *)
(* ChangeLedger's SweepRead).                                              *)
(***************************************************************************)
EXTENDS ChangeLedger, Functions

CONSTANT OpeningArc     \* startOfPeriodArc: the charge an account is imported with

ASSUME FiguresAssumption ==
  /\ OpeningArc \in Nat
  /\ IsFiniteSet(Accounts)

\* The period starts with every account at its opening charge.
OpeningBook == arc = [a \in Accounts |-> OpeningArc]

Book(kitty) == IF kitty = "BASE" THEN Base ELSE Accounts \ Base

RowsOf(kitty) == {c \in Raised : change[c].acct \in Book(kitty)}

\* Mutant of CountedRows: rejected rows stay in the buckets.
CountedRowsRejectedToo(kitty) ==
  IF kitty = "BASE" THEN {c \in RowsOf(kitty) : change[c].stage \notin PendingStages}
                    ELSE RowsOf(kitty)

\* existingBase leaves out rows in the chain and rejected ones; computeNewBase
\* counts every row, as NEW rows never enter the chain.
CountedRows(kitty) ==
  IF kitty = "BASE"
  THEN {c \in RowsOf(kitty) : change[c].stage \notin PendingStages \cup {"REJECTED"}}
  ELSE RowsOf(kitty)

ChurningAccounts(kitty) == {a \in Book(kitty) : status[a] \in {"PROBABLE_CHURN", "DISCONNECTING"}}

Terminated(kitty) == {a \in Book(kitty) : status[a] = "TERMINATED"}

\* The accounts behind "Current": all that are neither closed nor closing in the
\* BASE book, the ACTIVE ones in the NEW book.
CurrentAccounts(kitty) ==
  IF kitty = "BASE" THEN Book(kitty) \ (ChurningAccounts(kitty) \cup Terminated(kitty))
                    ELSE {a \in Book(kitty) : status[a] = "ACTIVE"}

Charges(accounts) == SumFunctionOnSet(arc, accounts)

StartArc(kitty) == OpeningArc * Cardinality(Book(kitty))

\* Mutant of ArcChanges: rate revisions added to the waterfall.
ArcChangesRevisionsToo(kitty) == {c \in CountedRows(kitty) : change[c].type \in ChargeTypes}

\* The UPGRADE and DOWNGRADE buckets together; the latter enters with a minus.  Rate
\* revisions have a bucket of their own, which the waterfall leaves out: "should
\* always be 0".
ArcChanges(kitty) == {c \in CountedRows(kitty) : change[c].type = "ARC_CHANGE"}

Moved(rows) ==
  SumFunctionOnSet([c \in Changes |-> change[c].newArc - change[c].oldArc], rows)

OldCharges(rows) == SumFunctionOnSet([c \in Changes |-> change[c].oldArc], rows)

\* The DISCONNECTION bucket: rows that did terminate their account.
Terminations(kitty) ==
  {c \in CountedRows(kitty) : change[c].type = "DISCONNECTION" /\ change[c].applied}

\* Mutant of ImportTerminated: swept accounts taken for imported ones too.
ImportTerminatedAll(kitty) == Terminated(kitty)

\* Accounts that came in as terminated: no row explains them.
ImportTerminated(kitty) ==
  Terminated(kitty) \ {change[c].acct : c \in Terminations(kitty)}

Lost(kitty) ==
  OldCharges(Terminations(kitty)) + OpeningArc * Cardinality(ImportTerminated(kitty))

WaterfallEnd(kitty) == StartArc(kitty) + Moved(ArcChanges(kitty)) - Lost(kitty)

\* The "pending CRM settlement" row of the waterfall: the gap to the charges of
\* today that probable churn does not explain, and the rows counted beside it.
PendingNet(kitty) ==
  Charges(CurrentAccounts(kitty)) - WaterfallEnd(kitty) + Charges(ChurningAccounts(kitty))

PendingRows(kitty) ==
  {c \in CountedRows(kitty) : /\ ~change[c].applied
                              /\ change[c].acct \notin ChurningAccounts(kitty)
                              /\ change[c].type # "RATE_REVISION"}

\* What the chain would move if it approved everything in it, and who it waits for.
AwaitingApproval == {c \in RowsOf("BASE") : change[c].stage \in PendingStages}
AwaitingRole(role) == {c \in AwaitingApproval : StageRole[change[c].stage] = role}
PendingApprovalNet ==
  Moved({c \in AwaitingApproval : change[c].type = "ARC_CHANGE"})
    - OldCharges({c \in AwaitingApproval : change[c].type = "DISCONNECTION"})

\* The drill-down behind a bucket card.
DrillDown(kitty, type) ==
  {c \in RowsOf(kitty) : /\ change[c].type = type
                         /\ change[c].stage \notin PendingStages \cup {"REJECTED"}}

-----------------------------------------------------------------------------
(* Properties                                                              *)

\* The upgrades and downgrades that nobody holds back and that no account carries yet.
Unsettled(kitty) ==
  {c \in RowsOf(kitty) : /\ change[c].type = "ARC_CHANGE"
                         /\ change[c].stage \in {"APPROVED", "NOT_REQUIRED"}
                         /\ ~change[c].applied}

\* The rate revisions in effect.
Revisions(kitty) ==
  {c \in RowsOf(kitty) : change[c].type = "RATE_REVISION" /\ change[c].applied}

\* The accounts that no block of the page lists: those of the NEW book that wait for
\* a quick decision, or whose contract has expired.
Unlisted(kitty) ==
  Book(kitty) \ (CurrentAccounts(kitty) \cup ChurningAccounts(kitty) \cup Terminated(kitty))

\* What the waterfall leaves over as "pending CRM settlement" is the unsettled
\* changes, with a minus; what rate revisions have moved; and, with a minus, what the
\* unlisted accounts are charged.  Nothing else gets lost or is counted twice.
Reconciles(kitty) ==
  PendingNet(kitty)
    = Moved(Revisions(kitty)) - Moved(Unsettled(kitty)) - Charges(Unlisted(kitty))

\* The changes of account a that took effect.
EffectsOn(a) == {c \in Raised : change[c].acct = a /\ change[c].applied}

\* Two changes in effect on one account may both have been raised on its first
\* charge (OldArcIsLive), and the waterfall adds them up.
OneEffectEach(kitty) == \A a \in Book(kitty) : \A c, d \in EffectsOn(a) : c = d

\* The waterfall of the BASE book reconciles with its accounts at every moment of
\* the changes under way on them, whoever signs, retains, backfills or sweeps them,
\* and after any failure; unless a row was applied that the chain had not approved
\* (AppliedOnlyIfApproved), an account had two changes take effect, or an ADMIN
\* edited a charge.
BaseWaterfallReconciles ==
  /\ edited = {}
  /\ OneEffectEach("BASE")
  /\ \A c \in RowsOf("BASE") :
       change[c].applied => change[c].stage \in {"APPROVED", "NOT_REQUIRED"}
  => Reconciles("BASE")

\* The same of the NEW book, where orders and webhooks move rows and accounts;
\* unless an account was reopened by a late status.
NewBookReconciles ==
  /\ edited = {}
  /\ OneEffectEach("NEW")
  /\ \A c \in Terminations("NEW") : status[change[c].acct] = "TERMINATED"
  => Reconciles("NEW")

-----------------------------------------------------------------------------
(* What the proof that they reconcile rests on                             *)

\* No change of account a has taken effect: it is billed its opening charge, and
\* so say its rows and the handlers about to write one.
AtOpening(a) ==
  /\ arc[a] = OpeningArc
  /\ \A c \in Raised : change[c].acct = a => change[c].oldArc = OpeningArc
  /\ \A s \in Inserting : req[s].a = a => req[s].arc = OpeningArc

\* The one change that took effect on account a was raised on its opening charge,
\* and is what it is billed if it is of one of these types.
MovedOnce(a, c, types) ==
  /\ change[c].oldArc = OpeningArc
  /\ change[c].type \in types => arc[a] = TermsOf(c).charge

IsTraced(a, types) ==
  /\ EffectsOn(a) = {} => AtOpening(a)
  /\ \A c \in EffectsOn(a) : EffectsOn(a) = {c} => MovedOnce(a, c, types)

-----------------------------------------------------------------------------
(* What the comments promise and the code does not keep                    *)

\* "`pending` is only the CRM-in-flight part": no row is counted as pending
\* settlement once the customer has been retained.
RetainedIsSettled ==
  \A kitty \in {"BASE", "NEW"} : \A c \in PendingRows(kitty) : change[c].retention # "RETAIN"

\* "Filters mirror the parent dashboard endpoint exactly."
DrillDownMatchesCard ==
  \A kitty \in {"BASE", "NEW"} : DrillDown(kitty, "DISCONNECTION") = Terminations(kitty)
=============================================================================
