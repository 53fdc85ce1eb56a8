--------------------------- MODULE ChangeContract ---------------------------
(***************************************************************************)
(* What the workflow promises its customers about commercial changes,      *)
(* whichever book carries them out: no handlers, queues, orders or         *)
(* webhooks, only when a change may take effect and what else may move a   *)
(* charge.  ApprovalChain and CrmBook implement it, each with its own idea *)
(* of who grants a change.                                                 *)
(***************************************************************************)
EXTENDS Naturals

CONSTANTS Accounts, NoAccount, Changes

VARIABLES
  terms,      \* what each change asks for, and the first day it may take effect
  granted,    \* changes agreed to by whoever has to
  inEffect,   \* changes that took effect
  charge,     \* what each account is billed
  closed,     \* accounts that are terminated
  corrected,  \* accounts set right by hand or by the CRM, whatever was agreed
  day

contractVars == <<terms, granted, inEffect, charge, closed, corrected, day>>

Terms ==
  [acct : Accounts, kind : {"ARC_CHANGE"}, charge : Nat, from : Nat]
    \cup [acct : Accounts, kind : {"DISCONNECTION"}, charge : {0}, from : Nat]

Unwritten == [acct |-> NoAccount, kind |-> "NONE", charge |-> 0, from |-> 0]

ContractInit ==
  /\ terms = [c \in Changes |-> Unwritten]
  /\ granted = {}
  /\ inEffect = {}
  /\ charge \in [Accounts -> Nat]
  /\ closed = {}
  /\ corrected = {}
  /\ day = 0

\* Change c is put on record with terms of its own, for today or later; some
\* changes need nobody's consent.
Writes(c) ==
  /\ terms[c] = Unwritten
  /\ terms'[c] \in Terms
  /\ terms'[c].from >= day
  /\ terms' = [terms EXCEPT ![c] = terms'[c]]
  /\ granted' \in {granted, granted \cup {c}}

Raise(c) == Writes(c) /\ UNCHANGED <<inEffect, charge, closed, corrected, day>>

\* Whatever is decided about a change may grant it and may reopen its account; it
\* moves no charge and closes nothing.
Decide(c) ==
  /\ terms[c] # Unwritten
  /\ granted' \in {granted, granted \cup {c}}
  /\ closed' \in {closed, closed \ {terms[c].acct}}
  /\ UNCHANGED <<terms, inEffect, charge, corrected, day>>

\* A change of charge takes effect, granted by now at the latest.
ChangeCharge(c) ==
  LET t == terms[c] IN
  /\ t.kind = "ARC_CHANGE"
  /\ t.from <= day
  /\ granted' = granted \cup {c}
  /\ inEffect' = inEffect \cup {c}
  /\ charge' = [charge EXCEPT ![t.acct] = t.charge]
  /\ closed' \in {closed, closed \ {t.acct}}
  /\ UNCHANGED <<terms, corrected, day>>

\* A termination takes effect when its day has come, or sooner if that was granted;
\* billing ends now or never.
Terminate(c) ==
  LET t == terms[c] IN
  /\ t.kind = "DISCONNECTION"
  /\ t.from <= day \/ c \in granted
  /\ inEffect' = inEffect \cup {c}
  /\ \E billed \in {0, charge[t.acct]} : charge' = [charge EXCEPT ![t.acct] = billed]
  /\ closed' = closed \cup {t.acct}
  /\ UNCHANGED <<terms, granted, corrected, day>>

\* A termination of the past is put on record.
RecordTermination(c) ==
  LET t == terms'[c] IN
  /\ Writes(c)
  /\ t.kind = "DISCONNECTION"
  /\ t.from = day
  /\ inEffect' = inEffect \cup {c}
  /\ charge' = [charge EXCEPT ![t.acct] = 0]
  /\ closed' = closed \cup {t.acct}
  /\ UNCHANGED <<corrected, day>>

Correct(a) ==
  /\ charge'[a] \in Nat
  /\ charge' = [charge EXCEPT ![a] = charge'[a]]
  /\ closed' \in {closed \cup {a}, closed \ {a}}
  /\ corrected' = corrected \cup {a}
  /\ UNCHANGED <<terms, granted, inEffect, day>>

NextDay ==
  /\ day' = day + 1
  /\ UNCHANGED <<terms, granted, inEffect, charge, closed, corrected>>

ContractNext ==
  \/ \E c \in Changes : Raise(c) \/ Decide(c) \/ ChangeCharge(c)
                       \/ Terminate(c) \/ RecordTermination(c)
  \/ \E a \in Accounts : Correct(a)
  \/ NextDay

ContractSpec == ContractInit /\ [][ContractNext]_contractVars

-----------------------------------------------------------------------------
(* What follows for a customer                                             *)

\* No charge was changed that nobody agreed to, and nothing took effect before its
\* day unless that was granted.
EffectsAreDue ==
  \A c \in inEffect : /\ terms[c].from <= day \/ c \in granted
                      /\ terms[c].kind = "ARC_CHANGE" => c \in granted

\* A closed account has a termination in effect.
ClosedOnRecord ==
  \A a \in closed \ corrected :
    \E c \in inEffect : terms[c].acct = a /\ terms[c].kind = "DISCONNECTION"

\* An account is billed what it was billed at first, or what one of its changes in
\* effect asks for.
ChargeIsExplained(opening) ==
  \A a \in Accounts \ corrected : charge[a] # opening[a] =>
    \E c \in inEffect : terms[c].acct = a /\ terms[c].charge = charge[a]
=============================================================================
