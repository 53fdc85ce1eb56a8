------------------------------ MODULE StaffDesk ------------------------------
(***************************************************************************)
(* Who the operators are: users.service.ts and its controller, the session *)
(* token of auth.middleware.ts, the assignment of customers to SAMs, the   *)
(* owner column of the account import, and the customer feedback that      *)
(* names a SAM.                                                            *)
(*                                                                         *)
(* Every guard of these handlers is a query of its own, and the write      *)
(* comes one or more awaits later (the bcrypt of a password among them):   *)
(* a handler in flight is a desk, with what it read.  The audit rows these *)
(* handlers write are read by nobody here and left out.                    *)
(***************************************************************************)
EXTENDS Integers, FiniteSets

CONSTANTS
  Users,      \* user ids, used and unused
  NoUser,     \* a NULL user column
  Rosters,    \* bound: the users table at the start, as a role for each id
  Customers,  \* accounts
  Desks,      \* requests in flight
  Patches,    \* bound: the edits of a user an ADMIN sends
  MaxRequests,\* bound: requests of operators and customers
  TokenDays,  \* TOKEN_TTL
  LastDay     \* bound: last day of the calendar

StaffRoles == {"ADMIN", "SAM_HEAD", "SAM", "ACCOUNTS", "SUPER_ADMIN_2"}

\* What PATCH /users/:id may carry: a role or none, a reports-to, null or none.
AllPatches ==
  [role : StaffRoles \cup {"NONE"}, sethead : {TRUE}, head : Users \cup {NoUser}]
    \cup [role : StaffRoles \cup {"NONE"}, sethead : {FALSE}, head : {NoUser}]

ASSUME StaffAssumption ==
  /\ NoUser \notin Users
  /\ Rosters \subseteq [Users -> StaffRoles \cup {"NONE"}]
  /\ MaxRequests \in Nat
  /\ Patches \subseteq AllPatches
  /\ TokenDays \in Nat
  /\ LastDay \in Nat

VARIABLES
  role,    \* users.role; "NONE" where there is no such row
  head,    \* users.sam_head_id
  owner,   \* accounts.sam_owner_id
  listed,  \* customers whose owner column an import wrote last
  rated,   \* users a feedback row names
  token,   \* the session cookie each user holds
  leftOn,  \* the day a user last gave up a role
  day,     \* the calendar
  desk,    \* the handlers in flight
  asked    \* requests so far

staffVars == <<role, head, owner, listed, rated, token, leftOn, day, desk, asked>>

NotYet == -1
NoToken == [role |-> "NONE", issued |-> NotYet]

\* A handler in flight: its target, what the request asks for, what it read.
FreeDesk ==
  [ pc |-> "free", u |-> NoUser, role |-> "NONE", sethead |-> FALSE, head |-> NoUser,
    c |-> NoUser, by |-> NoUser, as |-> "NONE", born |-> 0, saw |-> {}, from |-> NoUser ]

Job ==
  [ pc : {"free", "head", "guard", "update", "create", "remove", "assign", "assignTx",
          "import", "feedback", "login"},
    u : Users \cup {NoUser}, role : StaffRoles \cup {"NONE"}, sethead : BOOLEAN,
    head : Users \cup {NoUser}, c : Customers \cup {NoUser}, by : Users \cup {NoUser},
    as : StaffRoles \cup {"NONE"}, born : Nat, saw : SUBSET Users,
    from : Users \cup {NoUser} ]

Exists(u) == role[u] # "NONE"
Admins == {u \in Users : role[u] = "ADMIN"}

\* A uuid no row ever had.
Fresh(u) == role[u] = "NONE" /\ \A r \in StaffRoles : leftOn[u][r] = NotYet

EverHeld(u, r) == role[u] = r \/ leftOn[u][r] # NotYet

\* Mutant of Usable: the expiry of the token not verified.
UsableForever(u) == token[u] # NoToken

\* jwtVerify accepts the cookie; the row of the user is not looked at.
Usable(u) == token[u] # NoToken /\ day <= token[u].issued + TokenDays

Working(d, pc) == desk[d].pc = pc

Goto(d, job) == desk' = [desk EXCEPT ![d] = job]

Leave(d) == Goto(d, FreeDesk)

\* requireAuth and requireRole in front of a handler: the role is the token's.
Enter(d, by, roles, job) ==
  /\ desk[d] = FreeDesk
  /\ Usable(by)
  /\ token[by].role \in roles
  /\ Goto(d, [job EXCEPT !.by = by, !.as = token[by].role, !.born = day])

OnlyDesk == UNCHANGED <<role, head, owner, listed, rated, token, leftOn, day, asked>>

\* A request is let in; nothing but the desk and the bound moves.
Admit ==
  /\ asked < MaxRequests
  /\ asked' = asked + 1
  /\ UNCHANGED <<role, head, owner, listed, rated, token, leftOn, day>>

\* Role u is leaving at the end of this step.
GivesUp(u) == leftOn' = [leftOn EXCEPT ![u][role[u]] = day]

-----------------------------------------------------------------------------
(* Sessions                                                                *)

\* validateCredentials(): the row is read, and the password compared against its
\* hash.  Bounds: nobody signs in again for the cookie they got today, and only
\* those whose cookie opens a handler of this module sign in at all.
LoginRead(d, u) ==
  /\ desk[d] = FreeDesk
  /\ role[u] \in {"ADMIN", "SAM_HEAD"}
  /\ token[u] # [role |-> role[u], issued |-> day]
  /\ Goto(d, [FreeDesk EXCEPT !.pc = "login", !.u = u, !.role = role[u], !.born = day])
  /\ OnlyDesk

\* login(): the cookie carries the role that was read, whatever the row says now.
LoginIssue(d) ==
  LET j == desk[d] IN
  /\ Working(d, "login")
  /\ token' = [token EXCEPT ![j.u] = [role |-> j.role, issued |-> day]]
  /\ Leave(d)
  /\ UNCHANGED <<role, head, owner, listed, rated, leftOn, day, asked>>

\* Bound: a request outlives one midnight at most.
NextDay ==
  /\ day < LastDay
  /\ \A d \in Desks : desk[d] # FreeDesk => desk[d].born = day
  /\ day' = day + 1
  /\ UNCHANGED <<role, head, owner, listed, rated, token, leftOn, desk, asked>>

-----------------------------------------------------------------------------
(* PATCH /users/:id, DELETE /users/:id, POST /users                        *)

\* The target as it is and the patch decide what the user would become.
UpdateRead(d, by, u, patch) ==
  LET nextRole == IF patch.role = "NONE" THEN role[u] ELSE patch.role
      nextHead == IF patch.sethead THEN patch.head ELSE head[u]
  IN
  /\ Exists(u)
  /\ nextRole = "SAM" <=> nextHead # NoUser
  /\ Enter(d, by, {"ADMIN"},
       [FreeDesk EXCEPT !.pc = CASE nextRole = "SAM" -> "head"
                                 [] role[u] = "ADMIN" /\ nextRole \notin {"SAM", "ADMIN"} -> "guard"
                                 [] OTHER -> "update",
                        !.u = u, !.role = patch.role, !.sethead = patch.sethead, !.head = nextHead,
                        !.saw = Admins, !.from = IF role[u] = "ADMIN" THEN u ELSE NoUser])
  /\ Admit

\* Mutant of HeadRead: any user will do as a head.
HeadReadAnyRole(d) ==
  LET j == desk[d] IN
  /\ Working(d, "head")
  /\ Goto(d, [j EXCEPT !.pc = IF j.from = j.u THEN "guard" ELSE "update"])
  /\ OnlyDesk

\* A SAM reports to a SAM_HEAD; anybody else is refused.
HeadRead(d) ==
  LET j == desk[d] IN
  /\ Working(d, "head")
  /\ IF role[j.head] = "SAM_HEAD"
     THEN Goto(d, [j EXCEPT !.pc = IF j.from = j.u THEN "guard" ELSE "update"])
     ELSE Leave(d)
  /\ OnlyDesk

\* Mutant of GuardRead: the count of the admins left out.
GuardReadNoCount(d) ==
  /\ Working(d, "guard")
  /\ Goto(d, [desk[d] EXCEPT !.pc = IF desk[d].role = "NONE" THEN "remove" ELSE "update",
                             !.saw = Admins])
  /\ OnlyDesk

\* isLastAdmin(): counts the admins, and stops the handler at the last one.
GuardRead(d) ==
  LET j == desk[d] IN
  /\ Working(d, "guard")
  /\ IF role[j.u] = "ADMIN" /\ Cardinality(Admins) <= 1
     THEN Leave(d)
     ELSE Goto(d, [j EXCEPT !.pc = IF j.role = "NONE" THEN "remove" ELSE "update",
                            !.saw = Admins])
  /\ OnlyDesk

\* The transaction writes the fields of the patch, whatever the row has become;
\* a row or a head deleted meanwhile fails it.
UpdateTx(d) ==
  LET j == desk[d]
      done == Exists(j.u) /\ (j.sethead /\ j.head # NoUser => Exists(j.head))
      moved == done /\ j.role \notin {"NONE", role[j.u]}
  IN
  /\ Working(d, "update")
  /\ role' = IF moved THEN [role EXCEPT ![j.u] = j.role] ELSE role
  /\ IF moved THEN GivesUp(j.u) ELSE UNCHANGED leftOn
  /\ head' = IF done /\ j.sethead THEN [head EXCEPT ![j.u] = j.head] ELSE head
  /\ Leave(d)
  /\ UNCHANGED <<owner, listed, rated, token, day, asked>>

RemoveRead(d, by, u) ==
  /\ by # u
  /\ Exists(u)
  /\ Enter(d, by, {"ADMIN"},
       [FreeDesk EXCEPT !.pc = IF role[u] = "ADMIN" THEN "guard" ELSE "remove",
                        !.u = u, !.saw = Admins])
  /\ Admit

\* The delete clears the reports-to and owner columns that name the user; a
\* feedback row about them forbids it.  The cookie stays good.
RemoveTx(d) ==
  LET u == desk[d].u IN
  /\ Working(d, "remove")
  /\ \/ /\ Exists(u) /\ u \notin rated
        /\ role' = [role EXCEPT ![u] = "NONE"]
        /\ GivesUp(u)
        /\ head' = [v \in Users |-> IF v = u \/ head[v] = u THEN NoUser ELSE head[v]]
        /\ owner' = [c \in Customers |-> IF owner[c] = u THEN NoUser ELSE owner[c]]
     \/ /\ ~Exists(u) \/ u \in rated
        /\ UNCHANGED <<role, leftOn, head, owner>>
  /\ Leave(d)
  /\ UNCHANGED <<listed, rated, token, day, asked>>

\* A head is optional for a new SAM, and looked at when there is one.
CreateRead(d, by, u, r, h) ==
  /\ Fresh(u)
  /\ \A e \in Desks : Working(e, "create") => desk[e].u # u
  /\ h # NoUser => r = "SAM" /\ role[h] = "SAM_HEAD"
  /\ Enter(d, by, {"ADMIN"}, [FreeDesk EXCEPT !.pc = "create", !.u = u, !.role = r, !.head = h])
  /\ Admit

CreateTx(d) ==
  LET j == desk[d] IN
  /\ Working(d, "create")
  /\ \/ /\ j.head # NoUser => Exists(j.head)
        /\ role' = [role EXCEPT ![j.u] = j.role]
        /\ head' = [head EXCEPT ![j.u] = j.head]
     \/ /\ j.head # NoUser /\ ~Exists(j.head)
        /\ UNCHANGED <<role, head>>
  /\ Leave(d)
  /\ UNCHANGED <<owner, listed, rated, token, leftOn, day, asked>>

-----------------------------------------------------------------------------
(* POST /accounts/:id/assign, POST /accounts/import                        *)

\* A head hands out customers to the SAMs that report to them.
AssignRead(d, by, c, u) ==
  /\ u # NoUser => /\ role[u] = "SAM"
                   /\ token[by].role = "SAM_HEAD" => head[u] = by
  /\ Enter(d, by, {"ADMIN", "SAM_HEAD"}, [FreeDesk EXCEPT !.pc = "assign", !.u = u, !.c = c])
  /\ Admit

\* Mutant of AssignSeen: a head may take over any customer.
AssignSeenAny(d) ==
  /\ Working(d, "assign")
  /\ Goto(d, [desk[d] EXCEPT !.pc = "assignTx", !.from = owner[desk[d].c]])
  /\ OnlyDesk

\* In the transaction (READ COMMITTED) the owner is read, and a head is turned
\* away from a customer that has one ...
AssignSeen(d) ==
  LET j == desk[d] IN
  /\ Working(d, "assign")
  /\ IF j.as = "SAM_HEAD" /\ owner[j.c] # NoUser
     THEN Leave(d)
     ELSE Goto(d, [j EXCEPT !.pc = "assignTx", !.from = owner[j.c]])
  /\ OnlyDesk

\* ... and then written; a SAM deleted since fails the foreign key.
AssignTx(d) ==
  LET j == desk[d] IN
  /\ Working(d, "assignTx")
  /\ \/ /\ j.u # NoUser => Exists(j.u)
        /\ owner' = [owner EXCEPT ![j.c] = j.u]
        /\ listed' = listed \ {j.c}
     \/ /\ j.u # NoUser /\ ~Exists(j.u)
        /\ UNCHANGED <<owner, listed>>
  /\ Leave(d)
  /\ UNCHANGED <<role, head, rated, token, leftOn, day, asked>>

\* A row of a workbook: its SAM cell is looked up among the users of every role;
\* a blank or unknown name is no owner.
ImportRead(d, by, c, u) ==
  /\ u # NoUser => Exists(u)
  /\ Enter(d, by, {"ADMIN", "SAM_HEAD"}, [FreeDesk EXCEPT !.pc = "import", !.u = u, !.c = c])
  /\ Admit

\* The row is written over the account it finds, its owner whatever it was.
ImportTx(d) ==
  LET j == desk[d] IN
  /\ Working(d, "import")
  /\ \/ /\ j.u # NoUser => Exists(j.u)
        /\ owner' = [owner EXCEPT ![j.c] = j.u]
        /\ listed' = listed \cup {j.c}
     \/ /\ j.u # NoUser /\ ~Exists(j.u)
        /\ UNCHANGED <<owner, listed>>
  /\ Leave(d)
  /\ UNCHANGED <<role, head, rated, token, leftOn, day, asked>>

-----------------------------------------------------------------------------
(* POST /feedback, public                                                  *)

FeedbackRead(d, u) ==
  /\ desk[d] = FreeDesk
  /\ role[u] = "SAM"
  /\ Goto(d, [FreeDesk EXCEPT !.pc = "feedback", !.u = u, !.born = day])
  /\ Admit

FeedbackTx(d) ==
  LET u == desk[d].u IN
  /\ Working(d, "feedback")
  /\ rated' = IF Exists(u) THEN rated \cup {u} ELSE rated
  /\ Leave(d)
  /\ UNCHANGED <<role, head, owner, listed, token, leftOn, day, asked>>

-----------------------------------------------------------------------------
\* A database call throws, or the process restarts: the handler is gone.
DeskFails(d) ==
  /\ desk[d] # FreeDesk
  /\ Leave(d)
  /\ OnlyDesk

StaffInit ==
  /\ role \in Rosters
  /\ head \in [Users -> Users \cup {NoUser}]
  /\ \A u \in Users : head[u] # NoUser => role[u] = "SAM" /\ role[head[u]] = "SAM_HEAD"
  /\ owner = [c \in Customers |-> NoUser]
  /\ listed = {}
  /\ rated = {}
  /\ token = [u \in Users |-> NoToken]
  /\ leftOn = [u \in Users |-> [r \in StaffRoles |-> NotYet]]
  /\ day = 0
  /\ desk = [d \in Desks |-> FreeDesk]
  /\ asked = 0

\* A request arrives.
StaffArrival(d) ==
  \/ \E by, u \in Users, patch \in Patches : UpdateRead(d, by, u, patch)
  \/ \E by, u \in Users : RemoveRead(d, by, u)
  \/ \E by, u \in Users, patch \in Patches :
       patch.role # "NONE" /\ CreateRead(d, by, u, patch.role, patch.head)
  \/ \E by \in Users, c \in Customers, u \in Users \cup {NoUser} :
       AssignRead(d, by, c, u) \/ ImportRead(d, by, c, u)
  \/ \E u \in Users : FeedbackRead(d, u) \/ LoginRead(d, u)

\* A handler goes on after its await.
StaffStep(d) ==
  \/ HeadRead(d)
  \/ GuardRead(d)
  \/ UpdateTx(d)
  \/ RemoveTx(d)
  \/ CreateTx(d)
  \/ AssignSeen(d)
  \/ AssignTx(d)
  \/ ImportTx(d)
  \/ FeedbackTx(d)
  \/ LoginIssue(d)

StaffNext ==
  \/ \E d \in Desks : StaffArrival(d) \/ StaffStep(d) \/ DeskFails(d)
  \/ NextDay

StaffSpec == StaffInit /\ [][StaffNext]_staffVars

-----------------------------------------------------------------------------
(* Properties                                                              *)

StaffTypeOK ==
  /\ role \in [Users -> StaffRoles \cup {"NONE"}]
  /\ head \in [Users -> Users \cup {NoUser}]
  /\ owner \in [Customers -> Users \cup {NoUser}]
  /\ listed \subseteq Customers
  /\ rated \subseteq Users
  /\ token \in [Users -> [role : StaffRoles, issued : Nat] \cup {NoToken}]
  /\ leftOn \in [Users -> [StaffRoles -> Nat \cup {NotYet}]]
  /\ day \in Nat
  /\ desk \in [Desks -> Job]
  /\ asked \in 0..MaxRequests

\* The last ADMIN is lost only to a handler whose guard was right when it ran:
\* it saw another ADMIN, or a target that was none (isLastAdmin counts, and the
\* write comes later).
LastAdminFallsToStaleGuard ==
  [][Admins # {} /\ Admins' = {} =>
       \E d \in Desks : /\ desk[d].pc \in {"update", "remove"}
                        /\ desk[d].u \in Admins
                        /\ desk[d].saw # {desk[d].u}]_staffVars

\* The last day a user had a role, today while they have it.
HeldUntil(u, r) == IF role[u] = r THEN day ELSE leftOn[u][r]

\* A demoted or deleted user goes on under the old role for as long as the
\* cookie lives, and no longer: every handler in flight was let in on a role
\* its user held within TOKEN_TTL of the request (requireAuth trusts the token),
\* and the night the login itself may have taken: the role of the cookie is read
\* before the password is compared, and may be gone when it is signed.
ActsOnRecentRole ==
  \A d \in Desks : desk[d].by # NoUser =>
    HeldUntil(desk[d].by, desk[d].as) >= desk[d].born - TokenDays - 1

\* Through every race of checks and writes, a reports-to column names a row that
\* was a SAM_HEAD and a feedback row one that was a SAM; an owner was a SAM, unless
\* the account import wrote it last, which takes a user of any role; none names a
\* deleted row.
ReferencesWereEarned ==
  /\ \A u \in Users : head[u] # NoUser => Exists(head[u]) /\ EverHeld(head[u], "SAM_HEAD")
  /\ \A c \in Customers : owner[c] # NoUser =>
       Exists(owner[c]) /\ (c \in listed \/ EverHeld(owner[c], "SAM"))
  /\ \A u \in rated : Exists(u) /\ EverHeld(u, "SAM")

\* An owned customer changes hands by an ADMIN, by the deletion of the owner, by a
\* head that found it unassigned (two heads at the triage queue may overwrite each
\* other, but never the owner they saw), or by a row of a workbook, the one way
\* round assign() that a SAM_HEAD has too.
OwnedCustomerIsAdmins ==
  [][\A c \in Customers : owner[c] # NoUser /\ owner'[c] # owner[c] =>
       \/ owner'[c] = NoUser /\ role'[owner[c]] = "NONE"
       \/ \E d \in Desks : /\ desk[d].pc = "assignTx"
                           /\ desk[d].c = c
                           /\ desk[d].as = "ADMIN" \/ desk[d].from = NoUser
       \/ \E d \in Desks : desk[d].pc = "import" /\ desk[d].c = c /\ c \in listed']_staffVars

-----------------------------------------------------------------------------
(* What the comments promise and the code does not keep                    *)

\* "Guard: cannot demote the last ADMIN": somebody can still sign in as ADMIN.
AnAdminRemains == Admins # {}
=============================================================================
