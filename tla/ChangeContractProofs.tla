------------------------ MODULE ChangeContractProofs ------------------------
(***************************************************************************)
(* What follows from ChangeContract, and so for the customers of both      *)
(* books, for any accounts and changes.                                    *)
(***************************************************************************)
EXTENDS ChangeContract, TLAPS

ContractTypeOK ==
  /\ terms \in [Changes -> Terms \cup {Unwritten}]
  /\ granted \subseteq Changes
  /\ inEffect \subseteq Changes
  /\ charge \in [Accounts -> Nat]
  /\ closed \subseteq Accounts
  /\ corrected \subseteq Accounts
  /\ day \in Nat

\* A change in effect has been written, and is written only once.
EffectsAreWritten == \A c \in inEffect : terms[c] \in Terms

ContractInvariant(opening) ==
  /\ ContractTypeOK
  /\ EffectsAreWritten
  /\ EffectsAreDue
  /\ ClosedOnRecord
  /\ ChargeIsExplained(opening)

LEMMA TermsAreNotUnwritten == Unwritten \notin Terms
BY DEF Unwritten, Terms

LEMMA TermsHave ==
  ASSUME NEW t \in Terms
  PROVE  /\ t.acct \in Accounts /\ t.charge \in Nat /\ t.from \in Nat
         /\ t.kind = "DISCONNECTION" => t.charge = 0
BY DEF Terms

\* The terms of change c when it is written, and of the others.
LEMMA WritesOne ==
  ASSUME ContractTypeOK, EffectsAreWritten, NEW c \in Changes, Writes(c)
  PROVE  /\ terms'[c] \in Terms
         /\ terms' \in [Changes -> Terms \cup {Unwritten}]
         /\ \A d \in Changes \ {c} : terms'[d] = terms[d]
         /\ c \notin inEffect
         /\ granted \subseteq granted' /\ granted' \subseteq Changes
BY TermsAreNotUnwritten DEF ContractTypeOK, EffectsAreWritten, Writes

\* A change comes into effect with account and charge, the others stay as they are.
LEMMA TakesEffect ==
  ASSUME NEW opening, ContractInvariant(opening), NEW c \in Changes, NEW t \in Terms, t = terms'[c],
         \A d \in inEffect : terms'[d] = terms[d],
         inEffect' = inEffect \cup {c},
         granted \subseteq granted',
         t.kind = "ARC_CHANGE" => c \in granted',
         t.from <= day \/ c \in granted', day' = day, corrected' = corrected,
         charge' \in [Accounts -> Nat], charge'[t.acct] \in {charge[t.acct], t.charge},
         \A a \in Accounts \ {t.acct} : charge'[a] = charge[a],
         closed' \subseteq closed \cup {t.acct},
         t.kind = "ARC_CHANGE" => closed' \subseteq closed
  PROVE  /\ EffectsAreWritten' /\ EffectsAreDue' /\ ClosedOnRecord'
         /\ ChargeIsExplained(opening)'
<1> USE DEF ContractInvariant
<1>1. t.kind \in {"ARC_CHANGE", "DISCONNECTION"}
  BY DEF Terms
<1>2. EffectsAreWritten' /\ EffectsAreDue'
  BY DEF EffectsAreWritten, EffectsAreDue
<1>3. ClosedOnRecord'
  BY <1>1 DEF ClosedOnRecord
<1>4. ChargeIsExplained(opening)'
  <2> SUFFICES ASSUME NEW a \in Accounts \ corrected, charge'[a] # opening[a]
               PROVE  \E d \in inEffect' : terms'[d].acct = a /\ terms'[d].charge = charge'[a]
    BY DEF ChargeIsExplained
  <2>1. CASE a = t.acct /\ charge'[a] = t.charge
    BY <2>1
  <2>2. CASE charge'[a] = charge[a]
    BY <2>2 DEF ChargeIsExplained
  <2>3. QED
    BY <2>1, <2>2
<1>5. QED
  BY <1>2, <1>3, <1>4

\* Whatever leaves effects and charges alone leaves what follows alone.
LEMMA NothingTakesEffect ==
  ASSUME NEW opening, ContractInvariant(opening), UNCHANGED <<inEffect, charge>>,
         \A d \in inEffect : terms'[d] = terms[d],
         granted \subseteq granted', closed' \subseteq closed, corrected' = corrected,
         day' \in Nat, day' >= day
  PROVE  /\ EffectsAreWritten' /\ EffectsAreDue' /\ ClosedOnRecord'
         /\ ChargeIsExplained(opening)'
<1> USE DEF ContractInvariant
<1>1. EffectsAreWritten' /\ ClosedOnRecord' /\ ChargeIsExplained(opening)'
  BY DEF EffectsAreWritten, ClosedOnRecord, ChargeIsExplained
<1>2. EffectsAreDue'
  BY TermsHave DEF EffectsAreWritten, EffectsAreDue, ContractTypeOK
<1>3. QED
  BY <1>1, <1>2

LEMMA ContractStep ==
  ASSUME NEW opening, ContractInvariant(opening), [ContractNext]_contractVars
  PROVE  ContractInvariant(opening)'
<1> USE DEF ContractInvariant, ContractTypeOK
<1> DEFINE Goal == ContractInvariant(opening)'
<1>1. ASSUME NEW c \in Changes, Raise(c) PROVE Goal
  <2>1. \A d \in inEffect : terms'[d] = terms[d]
    BY <1>1, WritesOne DEF Raise
  <2>2. ContractTypeOK'
    BY <1>1, WritesOne DEF Raise
  <2>3. QED
    BY <1>1, <2>1, <2>2, WritesOne, NothingTakesEffect DEF Raise
<1>2. ASSUME NEW c \in Changes, Decide(c) PROVE Goal
  BY <1>2, NothingTakesEffect DEF Decide
<1>3. ASSUME NEW c \in Changes, ChangeCharge(c) PROVE Goal
  <2>1. terms[c] \in Terms
    BY <1>3 DEF ChangeCharge, Unwritten
  <2>2. ContractTypeOK'
    BY <1>3, <2>1, TermsHave DEF ChangeCharge
  <2>3. QED
    BY <1>3, <2>1, <2>2, TermsHave, TakesEffect DEF ChangeCharge
<1>4. ASSUME NEW c \in Changes, Terminate(c) PROVE Goal
  <2>1. terms[c] \in Terms
    BY <1>4 DEF Terminate, Unwritten
  <2>2. terms[c].acct \in Accounts /\ terms[c].charge = 0 /\ terms[c].kind # "ARC_CHANGE"
    BY <1>4, <2>1, TermsHave DEF Terminate
  <2>3. ContractTypeOK'
    BY <1>4, <2>2 DEF Terminate
  <2>4. QED
    BY <1>4, <2>1, <2>2, <2>3, TakesEffect DEF Terminate
<1>5. ASSUME NEW c \in Changes, RecordTermination(c) PROVE Goal
  <2>1. /\ terms'[c] \in Terms
        /\ terms' \in [Changes -> Terms \cup {Unwritten}]
        /\ \A d \in inEffect : terms'[d] = terms[d]
        /\ granted \subseteq granted' /\ granted' \subseteq Changes
    BY <1>5, WritesOne DEF RecordTermination
  <2>2. terms'[c].acct \in Accounts /\ terms'[c].charge = 0
    BY <1>5, <2>1, TermsHave DEF RecordTermination
  <2>3. ContractTypeOK'
    BY <1>5, <2>1, <2>2 DEF RecordTermination
  <2>4. QED
    BY <1>5, <2>1, <2>2, <2>3, TakesEffect DEF RecordTermination
<1>6. ASSUME NEW a \in Accounts, Correct(a) PROVE Goal
  BY <1>6 DEF Correct, EffectsAreWritten, EffectsAreDue, ClosedOnRecord, ChargeIsExplained
<1>7. CASE NextDay
  BY <1>7, NothingTakesEffect DEF NextDay
<1>8. CASE UNCHANGED contractVars
  BY <1>8, NothingTakesEffect DEF contractVars
<1>9. QED
  BY <1>1, <1>2, <1>3, <1>4, <1>5, <1>6, <1>7, <1>8 DEF ContractNext

\* No charge was changed that nobody agreed to, nothing took effect early
\* ungranted, no account is closed without a termination on record, and every charge is the
\* opening one or what a change in effect asks for, corrections aside.
THEOREM ContractIsSound ==
  ASSUME NEW opening
  PROVE  ContractSpec /\ charge = opening
           => []EffectsAreDue /\ []ClosedOnRecord /\ []ChargeIsExplained(opening)
<1>1. ContractInit /\ charge = opening => ContractInvariant(opening)
  BY DEF ContractInit, ContractInvariant, ContractTypeOK, EffectsAreWritten, EffectsAreDue,
         ClosedOnRecord, ChargeIsExplained
<1>2. ContractInvariant(opening) /\ [ContractNext]_contractVars => ContractInvariant(opening)'
  BY ContractStep
<1>3. ContractInvariant(opening) => EffectsAreDue /\ ClosedOnRecord /\ ChargeIsExplained(opening)
  BY DEF ContractInvariant
<1>4. QED
  BY <1>1, <1>2, <1>3, PTL DEF ContractSpec
=============================================================================
