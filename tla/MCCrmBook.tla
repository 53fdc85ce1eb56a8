------------------------------ MODULE MCCrmBook ------------------------------
(* A small instance of CrmBook for TLC. *)
EXTENDS CrmBook, Figures, TLC

\* One form of each kind.
OneOfEachForm ==
  {f \in Forms : /\ f.type \in ChargeTypes => f.newArc = 2
                 /\ f.mode = "QUICK" => f.days = QuickMaxDays}

\* Accounts start at their opening charge.
MCCrmBookInit == CrmBookInit /\ OpeningBook

\* Bound: the calendar moves on, or the CRM resends an activation, not both.
OneOfBoth == today > 0 => activated = {}

\* Bound: the CRM takes one order of each row; a second one would leave the first
\* where it stands.
OneOrderEach == \A c \in Changes : orders[c] <= 1

\* After a resent activation the server waits on its first day.
Waits ==
  /\ activated # {}
  /\ \A s \in Slots : req[s] = Idle
  /\ UNCHANGED crmBookVars

MCCrmBookNext ==
  \/ CrmBookNext /\ OneOfBoth' /\ OneOrderEach'
  \/ Waits

MCCrmBookSpec == MCCrmBookInit /\ [][MCCrmBookNext]_crmBookVars

\* The waterfall of the NEW book reconciles as long as the CRM has not resent an
\* account, which overwrites its charge and no row.
NewWaterfallReconciles == activated = {} => NewBookReconciles

SlotSymmetry == Permutations(Writers)
=============================================================================
