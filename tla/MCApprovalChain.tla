--------------------------- MODULE MCApprovalChain ---------------------------
(* Small instances of ApprovalChain for TLC. *)
EXTENDS ApprovalChain, Figures, TLC

AllForms == Forms

\* Upgrades, downgrades and NORMAL disconnections.
SlowForms == {f \in Forms : f.mode # "QUICK" /\ f.type # "RATE_REVISION"}

\* QUICK disconnections at their longest delay only.
LateForms == {f \in Forms : f.mode = "QUICK" => f.days = QuickMaxDays}

\* Accounts start at their opening charge.
OpeningInit == Init /\ OpeningBook

OpeningSpec == OpeningInit /\ [][Next]_vars

WriterSymmetry == Permutations(Writers)
=============================================================================
