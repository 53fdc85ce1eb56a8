---------------------------- MODULE StaffDeskProofs ----------------------------
(***************************************************************************)
(* Proofs about StaffDesk for any users, desks, patches and token          *)
(* lifetime.                                                               *)
(*                                                                         *)
(* What a handler read may be untrue by the time it writes; what remains   *)
(* true is that it was true once.  So the invariant speaks of roles ever   *)
(* held (EverHeld) and of the last day they were (HeldUntil), which only   *)
(* grow, and of what each handler in flight saw (Checked, Allowed).        *)
(***************************************************************************)
EXTENDS StaffDesk, FiniteSetTheorems, TLAPS

\* What the checks of a handler established, at each of its awaits.
Checked(j) ==
  /\ j.pc \in {"head", "guard", "update", "create", "remove", "feedback"} => j.u \in Users
  /\ j.pc \in {"guard", "update", "create"} /\ j.head # NoUser => EverHeld(j.head, "SAM_HEAD")
  /\ j.pc \in {"assign", "assignTx", "import"} => j.c \in Customers
  /\ j.pc \in {"assign", "assignTx"} /\ j.u # NoUser => EverHeld(j.u, "SAM")
  /\ j.pc = "feedback" => EverHeld(j.u, "SAM")
  /\ j.pc = "create" => role[j.u] = "NONE" /\ j.role \in StaffRoles
  /\ j.pc = "head" => j.from = j.u \/ j.u \notin j.saw
  /\ j.pc = "update" => j.saw # {j.u} \/ j.role \in {"NONE", "ADMIN"}
  /\ j.pc = "remove" => j.saw # {j.u}

\* Who it acts for, and on which role.
Allowed(j) ==
  /\ j.by # NoUser => j.as \in StaffRoles /\ HeldUntil(j.by, j.as) >= j.born - TokenDays - 1
  /\ j.pc = "login" =>
       j.u \in Users /\ j.role \in StaffRoles /\ HeldUntil(j.u, j.role) >= j.born
  /\ j.pc = "assign" => j.as \in {"ADMIN", "SAM_HEAD"}
  /\ j.pc = "assignTx" => j.as = "ADMIN" \/ j.from = NoUser

\* A login outlives one midnight at most.
LoginsAreShort == \A d \in Desks : desk[d].pc = "login" => day <= desk[d].born + 1

DesksAreCareful == \A d \in Desks : Checked(desk[d]) /\ Allowed(desk[d])

\* No two handlers are creating the same user.
NewIdsAreNew ==
  \A d, e \in Desks :
    d # e /\ desk[d].pc = "create" /\ desk[e].pc = "create" => desk[d].u # desk[e].u

RolesLeftBefore == \A u \in Users, r \in StaffRoles : leftOn[u][r] <= day

TokensWereTrue ==
  \A u \in Users : token[u] # NoToken => HeldUntil(u, token[u].role) >= token[u].issued - 1

StaffInvariant ==
  /\ StaffTypeOK
  /\ RolesLeftBefore
  /\ TokensWereTrue
  /\ ReferencesWereEarned
  /\ NewIdsAreNew
  /\ LoginsAreShort
  /\ DesksAreCareful

\* What a step of a handler, or the clock, never takes back.
HistoryGrows ==
  \A u \in Users, r \in StaffRoles :
    /\ EverHeld(u, r) => EverHeld(u, r)'
    /\ HeldUntil(u, r)' >= HeldUntil(u, r)

\* The bodies of the two action properties.
LastAdminStep ==
  Admins # {} /\ Admins' = {} =>
    \E d \in Desks : /\ desk[d].pc \in {"update", "remove"}
                     /\ desk[d].u \in Admins
                     /\ desk[d].saw # {desk[d].u}

OwnerStep ==
  \A c \in Customers : owner[c] # NoUser /\ owner'[c] # owner[c] =>
    \/ owner'[c] = NoUser /\ role'[owner[c]] = "NONE"
    \/ \E d \in Desks : /\ desk[d].pc = "assignTx"
                        /\ desk[d].c = c
                        /\ desk[d].as = "ADMIN" \/ desk[d].from = NoUser
    \/ \E d \in Desks : desk[d].pc = "import" /\ desk[d].c = c /\ c \in listed'

-----------------------------------------------------------------------------
\* The initial state.
LEMMA StaffInitHolds == StaffInit => StaffInvariant
<1> SUFFICES ASSUME StaffInit PROVE StaffInvariant
  OBVIOUS
<1>1. FreeDesk \in Job
  BY DEF FreeDesk, Job
<1>2. StaffTypeOK
  <2>1. role \in [Users -> StaffRoles \cup {"NONE"}]
    BY StaffAssumption DEF StaffInit
  <2>2. leftOn \in [Users -> [StaffRoles -> Nat \cup {NotYet}]]
    BY DEF StaffInit
  <2>3. /\ head \in [Users -> Users \cup {NoUser}]
        /\ owner \in [Customers -> Users \cup {NoUser}]
        /\ listed \subseteq Customers /\ rated \subseteq Users /\ day \in Nat
        /\ asked \in 0..MaxRequests
    BY StaffAssumption DEF StaffInit
  <2>4. token \in [Users -> [role : StaffRoles, issued : Nat] \cup {NoToken}]
    BY DEF StaffInit
  <2>5. desk \in [Desks -> Job]
    BY <1>1 DEF StaffInit
  <2> QED
    BY <2>1, <2>2, <2>3, <2>4, <2>5 DEF StaffTypeOK
<1>3. RolesLeftBefore /\ TokensWereTrue
  BY DEF StaffInit, RolesLeftBefore, TokensWereTrue, NotYet
<1>4. ReferencesWereEarned
  BY StaffAssumption DEF StaffInit, ReferencesWereEarned, Exists, EverHeld
<1>5. NewIdsAreNew /\ LoginsAreShort /\ DesksAreCareful
  BY DEF StaffInit, NewIdsAreNew, LoginsAreShort, DesksAreCareful, Checked, Allowed, FreeDesk
<1> QED
  BY <1>2, <1>3, <1>4, <1>5 DEF StaffInvariant

\* A free desk owes nothing.
LEMMA FreeDeskIsFree ==
  FreeDesk \in Job /\ FreeDesk.pc = "free" /\ Checked(FreeDesk) /\ Allowed(FreeDesk)
BY DEF FreeDesk, Job, Checked, Allowed

\* History that only grows keeps what a handler established.
LEMMA CareLasts ==
  ASSUME NEW j \in Job, Checked(j), Allowed(j), HistoryGrows, StaffTypeOK, StaffTypeOK',
         j.pc = "create" => role'[j.u] = "NONE"
  PROVE  Checked(j)' /\ Allowed(j)'
<1>1. j.by \in Users \cup {NoUser} /\ j.u \in Users \cup {NoUser} /\ j.head \in Users \cup {NoUser}
      /\ j.born \in Nat /\ j.role \in StaffRoles \cup {"NONE"}
  BY DEF Job
<1>2. \A u \in Users : /\ EverHeld(u, "SAM") => EverHeld(u, "SAM")'
                       /\ EverHeld(u, "SAM_HEAD") => EverHeld(u, "SAM_HEAD")'
  BY DEF HistoryGrows, StaffRoles
<1>3. Checked(j)'
  BY <1>1, <1>2 DEF Checked
<1>4. \A u \in Users, r \in StaffRoles : HeldUntil(u, r) \in Int /\ HeldUntil(u, r)' \in Int
  BY DEF HeldUntil, StaffTypeOK, NotYet
<1>5. j.by # NoUser => HeldUntil(j.by, j.as)' >= j.born - TokenDays - 1
  BY <1>1, <1>4, StaffAssumption DEF Allowed, HistoryGrows
<1>6. j.pc = "login" =>
        j.u \in Users /\ j.role \in StaffRoles /\ HeldUntil(j.u, j.role)' >= j.born
  BY <1>1, <1>4 DEF Allowed, HistoryGrows
<1> QED
  BY <1>3, <1>5, <1>6 DEF Allowed

\* A handler goes on: the others keep what they know.
LEMMA DeskMoves ==
  ASSUME StaffInvariant, StaffTypeOK', HistoryGrows, NEW d \in Desks, NEW job \in Job,
         Goto(d, job), Checked(job)', Allowed(job)',
         \A e \in Desks \ {d} : desk[e].pc = "create" => role'[desk[e].u] = "NONE",
         job.pc = "create" => \A e \in Desks \ {d} : desk[e].pc = "create" => desk[e].u # job.u
  PROVE  NewIdsAreNew' /\ DesksAreCareful'
<1>1. desk'[d] = job /\ \A e \in Desks \ {d} : desk'[e] = desk[e]
  BY DEF Goto, StaffInvariant, StaffTypeOK
<1>2. NewIdsAreNew'
  BY <1>1 DEF StaffInvariant, NewIdsAreNew
<1>3. ASSUME NEW e \in Desks PROVE (Checked(desk[e]) /\ Allowed(desk[e]))'
  <2>1. CASE e = d
    BY <1>1, <2>1 DEF Checked, Allowed
  <2>2. CASE e # d
    <3>1. PICK j \in Job : j = desk[e] /\ j = desk'[e]
      BY <1>1, <2>2 DEF StaffInvariant, StaffTypeOK
    <3>2. Checked(j)' /\ Allowed(j)'
      BY <2>2, <3>1, CareLasts DEF StaffInvariant, DesksAreCareful
    <3> QED
      BY <3>1, <3>2 DEF Checked, Allowed
  <2> QED
    BY <2>1, <2>2
<1> QED
  BY <1>2, <1>3 DEF DesksAreCareful

\* A step of one handler that writes nothing.
LEMMA QuietDesk ==
  ASSUME StaffInvariant, NEW d \in Desks, NEW job \in Job, Goto(d, job),
         Checked(job), Allowed(job),
         UNCHANGED <<role, head, owner, listed, rated, token, leftOn, day>>,
         asked' \in 0..MaxRequests,
         job.pc = "create" => \A e \in Desks \ {d} : desk[e].pc = "create" => desk[e].u # job.u,
         job.pc = "login" => job.born = day
  PROVE  StaffInvariant' /\ LastAdminStep /\ OwnerStep
<1>1. StaffTypeOK'
  BY DEF StaffInvariant, StaffTypeOK, Goto
<1>2. RolesLeftBefore' /\ TokensWereTrue' /\ ReferencesWereEarned'
  BY DEF StaffInvariant, RolesLeftBefore, TokensWereTrue, ReferencesWereEarned, HeldUntil,
         Exists, EverHeld
<1>3. HistoryGrows
  BY DEF HistoryGrows, HeldUntil, EverHeld, StaffInvariant, StaffTypeOK, NotYet
<1>4. Checked(job)' /\ Allowed(job)'
  BY DEF Checked, Allowed, HeldUntil, EverHeld
<1>5. \A e \in Desks \ {d} : desk[e].pc = "create" => role'[desk[e].u] = "NONE"
  BY DEF StaffInvariant, DesksAreCareful, Checked
<1>6. NewIdsAreNew' /\ DesksAreCareful'
  BY <1>1, <1>3, <1>4, <1>5, DeskMoves
<1>7. LastAdminStep /\ OwnerStep
  BY DEF LastAdminStep, OwnerStep, Admins
<1>8. LoginsAreShort'
  <2>1. desk'[d] = job /\ \A e \in Desks \ {d} : desk'[e] = desk[e]
    BY DEF Goto, StaffInvariant, StaffTypeOK
  <2>2. day \in Nat
    BY DEF StaffInvariant, StaffTypeOK
  <2> QED
    BY <2>1, <2>2 DEF StaffInvariant, LoginsAreShort
<1> QED
  BY <1>1, <1>2, <1>6, <1>7, <1>8 DEF StaffInvariant

\* A handler that gives up: the desk is free.
LEMMA QuietLeave ==
  ASSUME StaffInvariant, NEW d \in Desks, Leave(d), OnlyDesk
  PROVE  StaffInvariant' /\ LastAdminStep /\ OwnerStep
<1>1. /\ UNCHANGED <<role, head, owner, listed, rated, token, leftOn, day>>
      /\ asked' \in 0..MaxRequests
      /\ Goto(d, FreeDesk)
  BY DEF Leave, OnlyDesk, StaffInvariant, StaffTypeOK
<1> QED
  BY <1>1, FreeDeskIsFree, QuietDesk

\* A request is let in on the role of its token: one its user held when the token
\* was issued, TOKEN_TTL ago at most.
LEMMA EnterHolds ==
  ASSUME StaffInvariant, NEW d \in Desks, NEW by \in Users, NEW roles \in SUBSET StaffRoles,
         NEW job \in Job, Enter(d, by, roles, job), Admit, Checked(job),
         job.pc \notin {"assignTx", "login"}, job.pc = "assign" => roles = {"ADMIN", "SAM_HEAD"},
         job.pc = "create" => \A e \in Desks \ {d} : desk[e].pc = "create" => desk[e].u # job.u
  PROVE  StaffInvariant' /\ LastAdminStep /\ OwnerStep
<1> DEFINE let == [job EXCEPT !.by = by, !.as = token[by].role, !.born = day]
<1>1. /\ token[by] # NoToken /\ day <= token[by].issued + TokenDays
      /\ token[by].role \in roles /\ Goto(d, let)
  BY DEF Enter, Usable
<1>2. token[by] \in [role : StaffRoles, issued : Nat] /\ day \in Nat
  BY <1>1 DEF StaffInvariant, StaffTypeOK
<1>3. let \in Job
  BY <1>2 DEF Job
<1>4. /\ let.pc = job.pc /\ let.u = job.u /\ let.role = job.role /\ let.head = job.head
      /\ let.c = job.c /\ let.saw = job.saw /\ let.from = job.from
      /\ let.by = by /\ let.as = token[by].role /\ let.born = day
  BY DEF Job
<1> HIDE DEF let
<1>5. Checked(let)
  BY <1>4 DEF Checked
<1>6. HeldUntil(by, token[by].role) >= token[by].issued - 1
  BY <1>1 DEF StaffInvariant, TokensWereTrue
<1>7. HeldUntil(by, token[by].role) \in Int
  BY <1>2 DEF HeldUntil, NotYet, StaffInvariant, StaffTypeOK
<1>8. HeldUntil(by, token[by].role) >= day - TokenDays - 1
  BY <1>1, <1>2, <1>6, <1>7, StaffAssumption
<1>9. Allowed(let)
  BY <1>1, <1>2, <1>4, <1>8 DEF Allowed
<1>10. /\ asked' \in 0..MaxRequests
       /\ UNCHANGED <<role, head, owner, listed, rated, token, leftOn, day>>
  BY StaffAssumption DEF Admit, StaffInvariant, StaffTypeOK
<1> QED
  BY <1>1, <1>3, <1>4, <1>5, <1>9, <1>10, QuietDesk

-----------------------------------------------------------------------------
LEMMA UpdateReadHolds ==
  ASSUME StaffInvariant, NEW d \in Desks, NEW by \in Users, NEW u \in Users,
         NEW patch \in Patches, UpdateRead(d, by, u, patch)
  PROVE  StaffInvariant' /\ LastAdminStep /\ OwnerStep
<1> DEFINE nextRole == IF patch.role = "NONE" THEN role[u] ELSE patch.role
           nextHead == IF patch.sethead THEN patch.head ELSE head[u]
           pc == CASE nextRole = "SAM" -> "head"
                   [] role[u] = "ADMIN" /\ nextRole \notin {"SAM", "ADMIN"} -> "guard"
                   [] OTHER -> "update"
           from == IF role[u] = "ADMIN" THEN u ELSE NoUser
           job == [FreeDesk EXCEPT !.pc = pc, !.u = u, !.role = patch.role,
                                   !.sethead = patch.sethead, !.head = nextHead,
                                   !.saw = Admins, !.from = from]
<1>1. /\ Exists(u) /\ (nextRole = "SAM" <=> nextHead # NoUser)
      /\ Enter(d, by, {"ADMIN"}, job) /\ Admit
  BY DEF UpdateRead
<1>2. /\ patch.role \in StaffRoles \cup {"NONE"} /\ patch.sethead \in BOOLEAN
      /\ patch.head \in Users \cup {NoUser}
  BY StaffAssumption DEF AllPatches
<1>3. nextHead \in Users \cup {NoUser}
  BY <1>2 DEF StaffInvariant, StaffTypeOK
<1>4. /\ pc \in {"head", "guard", "update"}
      /\ pc = "head" <=> nextRole = "SAM"
      /\ pc = "update" => role[u] # "ADMIN" \/ patch.role \in {"NONE", "ADMIN"}
  <2>1. CASE nextRole = "SAM"
    <3> HIDE DEF nextRole
    <3> QED
      BY <2>1
  <2>2. CASE nextRole # "SAM" /\ role[u] = "ADMIN" /\ nextRole # "ADMIN"
    BY <2>2
  <2>3. CASE nextRole # "SAM" /\ ~(role[u] = "ADMIN" /\ nextRole # "ADMIN")
    BY <2>3
  <2> QED
    BY <2>1, <2>2, <2>3
<1>5. Admins \in SUBSET Users /\ from \in {u, NoUser} /\ (from # u => u \notin Admins)
      /\ (role[u] # "ADMIN" => Admins # {u})
  BY DEF Admins
<1>6. /\ job.pc = pc /\ job.u = u /\ job.role = patch.role
      /\ job.sethead = patch.sethead /\ job.head = nextHead /\ job.c = NoUser
      /\ job.by = NoUser /\ job.as = "NONE" /\ job.born = 0 /\ job.saw = Admins
      /\ job.from = from
  BY DEF FreeDesk
<1> HIDE DEF nextRole, nextHead, pc, from
<1>7. job \in Job
  BY <1>2, <1>3, <1>4, <1>5 DEF FreeDesk, Job
<1> HIDE DEF job
<1>8. Checked(job)
  BY <1>1, <1>4, <1>5, <1>6 DEF Checked
<1> QED
  BY <1>1, <1>4, <1>6, <1>7, <1>8, EnterHolds DEF StaffRoles

LEMMA RemoveReadHolds ==
  ASSUME StaffInvariant, NEW d \in Desks, NEW by \in Users, NEW u \in Users,
         RemoveRead(d, by, u)
  PROVE  StaffInvariant' /\ LastAdminStep /\ OwnerStep
<1> DEFINE pc == IF role[u] = "ADMIN" THEN "guard" ELSE "remove"
           job == [FreeDesk EXCEPT !.pc = pc, !.u = u, !.saw = Admins]
<1>1. Enter(d, by, {"ADMIN"}, job) /\ Admit
  BY DEF RemoveRead
<1>2. pc \in {"guard", "remove"} /\ Admins \in SUBSET Users /\ (pc = "remove" => Admins # {u})
  BY DEF Admins
<1>3. /\ job.pc = pc /\ job.u = u /\ job.role = "NONE" /\ job.sethead = FALSE
      /\ job.head = NoUser /\ job.c = NoUser /\ job.by = NoUser /\ job.as = "NONE"
      /\ job.born = 0 /\ job.saw = Admins /\ job.from = NoUser
  BY DEF FreeDesk
<1>4. job \in Job
  BY <1>2, <1>3 DEF FreeDesk, Job
<1> HIDE DEF pc, job
<1>5. Checked(job)
  BY <1>2, <1>3 DEF Checked
<1> QED
  BY <1>1, <1>2, <1>3, <1>4, <1>5, EnterHolds DEF StaffRoles

LEMMA CreateReadHolds ==
  ASSUME StaffInvariant, NEW d \in Desks, NEW by \in Users, NEW u \in Users,
         NEW patch \in Patches, patch.role # "NONE", CreateRead(d, by, u, patch.role, patch.head)
  PROVE  StaffInvariant' /\ LastAdminStep /\ OwnerStep
<1> DEFINE job == [FreeDesk EXCEPT !.pc = "create", !.u = u, !.role = patch.role,
                                   !.head = patch.head]
<1>1. /\ Fresh(u) /\ \A e \in Desks : Working(e, "create") => desk[e].u # u
      /\ patch.head # NoUser => role[patch.head] = "SAM_HEAD"
      /\ Enter(d, by, {"ADMIN"}, job) /\ Admit
  BY DEF CreateRead
<1>2. patch.role \in StaffRoles /\ patch.head \in Users \cup {NoUser}
  BY StaffAssumption DEF AllPatches
<1>3. /\ job.pc = "create" /\ job.u = u /\ job.role = patch.role
      /\ job.sethead = FALSE /\ job.head = patch.head /\ job.c = NoUser
      /\ job.by = NoUser /\ job.as = "NONE" /\ job.born = 0 /\ job.saw = {}
      /\ job.from = NoUser
  BY DEF FreeDesk
<1>4. job \in Job
  BY <1>2, <1>3 DEF FreeDesk, Job
<1> HIDE DEF job
<1>5. Checked(job)
  BY <1>1, <1>2, <1>3 DEF Checked, Fresh, EverHeld
<1> QED
  BY <1>1, <1>3, <1>4, <1>5, EnterHolds DEF StaffRoles, Working

LEMMA AssignReadHolds ==
  ASSUME StaffInvariant, NEW d \in Desks, NEW by \in Users, NEW c \in Customers,
         NEW u \in Users \cup {NoUser}, AssignRead(d, by, c, u)
  PROVE  StaffInvariant' /\ LastAdminStep /\ OwnerStep
<1> DEFINE job == [FreeDesk EXCEPT !.pc = "assign", !.u = u, !.c = c]
<1>1. /\ u # NoUser => role[u] = "SAM"
      /\ Enter(d, by, {"ADMIN", "SAM_HEAD"}, job) /\ Admit
  BY DEF AssignRead
<1>2. /\ job.pc = "assign" /\ job.u = u /\ job.role = "NONE" /\ job.sethead = FALSE
      /\ job.head = NoUser /\ job.c = c /\ job.by = NoUser /\ job.as = "NONE"
      /\ job.born = 0 /\ job.saw = {} /\ job.from = NoUser
  BY DEF FreeDesk
<1>3. job \in Job
  BY <1>2 DEF FreeDesk, Job
<1> HIDE DEF job
<1>4. Checked(job)
  BY <1>1, <1>2 DEF Checked, EverHeld
<1> QED
  BY <1>1, <1>2, <1>3, <1>4, EnterHolds DEF StaffRoles

\* A row of a workbook names a customer, and anybody.
LEMMA ImportReadHolds ==
  ASSUME StaffInvariant, NEW d \in Desks, NEW by \in Users, NEW c \in Customers,
         NEW u \in Users \cup {NoUser}, ImportRead(d, by, c, u)
  PROVE  StaffInvariant' /\ LastAdminStep /\ OwnerStep
<1> DEFINE job == [FreeDesk EXCEPT !.pc = "import", !.u = u, !.c = c]
<1>1. Enter(d, by, {"ADMIN", "SAM_HEAD"}, job) /\ Admit
  BY DEF ImportRead
<1>2. /\ job.pc = "import" /\ job.u = u /\ job.role = "NONE" /\ job.sethead = FALSE
      /\ job.head = NoUser /\ job.c = c /\ job.by = NoUser /\ job.as = "NONE"
      /\ job.born = 0 /\ job.saw = {} /\ job.from = NoUser
  BY DEF FreeDesk
<1>3. job \in Job
  BY <1>2 DEF FreeDesk, Job
<1> HIDE DEF job
<1>4. Checked(job)
  BY <1>2 DEF Checked
<1> QED
  BY <1>1, <1>2, <1>3, <1>4, EnterHolds DEF StaffRoles

\* A login in flight knows a role its user has today.
LEMMA LoginReadHolds ==
  ASSUME StaffInvariant, NEW d \in Desks, NEW u \in Users, LoginRead(d, u)
  PROVE  StaffInvariant' /\ LastAdminStep /\ OwnerStep
<1> DEFINE job == [FreeDesk EXCEPT !.pc = "login", !.u = u, !.role = role[u], !.born = day]
<1>1. role[u] \in StaffRoles /\ Goto(d, job) /\ OnlyDesk
  BY DEF LoginRead, StaffRoles
<1>2. /\ job.pc = "login" /\ job.u = u /\ job.role = role[u]
      /\ job.sethead = FALSE /\ job.head = NoUser /\ job.c = NoUser
      /\ job.by = NoUser /\ job.as = "NONE" /\ job.born = day /\ job.saw = {}
      /\ job.from = NoUser
  BY DEF FreeDesk
<1>3. day \in Nat
  BY DEF StaffInvariant, StaffTypeOK
<1>4. job \in Job
  BY <1>1, <1>2, <1>3 DEF FreeDesk, Job
<1> HIDE DEF job
<1>5. Checked(job) /\ Allowed(job)
  BY <1>1, <1>2, <1>3 DEF Checked, Allowed, HeldUntil
<1>6. /\ asked' \in 0..MaxRequests
      /\ UNCHANGED <<role, head, owner, listed, rated, token, leftOn, day>>
  BY <1>1 DEF OnlyDesk, StaffInvariant, StaffTypeOK
<1> QED
  BY <1>1, <1>2, <1>4, <1>5, <1>6, QuietDesk

LEMMA FeedbackReadHolds ==
  ASSUME StaffInvariant, NEW d \in Desks, NEW u \in Users, FeedbackRead(d, u)
  PROVE  StaffInvariant' /\ LastAdminStep /\ OwnerStep
<1> DEFINE job == [FreeDesk EXCEPT !.pc = "feedback", !.u = u, !.born = day]
<1>1. role[u] = "SAM" /\ Goto(d, job) /\ Admit
  BY DEF FeedbackRead
<1>2. /\ job.pc = "feedback" /\ job.u = u /\ job.role = "NONE"
      /\ job.sethead = FALSE /\ job.head = NoUser /\ job.c = NoUser
      /\ job.by = NoUser /\ job.as = "NONE" /\ job.born = day /\ job.saw = {}
      /\ job.from = NoUser
  BY DEF FreeDesk
<1>3. job \in Job
  BY <1>2 DEF FreeDesk, Job, StaffInvariant, StaffTypeOK
<1> HIDE DEF job
<1>4. Checked(job) /\ Allowed(job)
  BY <1>1, <1>2 DEF Checked, Allowed, EverHeld
<1>5. /\ asked' \in 0..MaxRequests
      /\ UNCHANGED <<role, head, owner, listed, rated, token, leftOn, day>>
  BY <1>1, StaffAssumption DEF Admit, StaffInvariant, StaffTypeOK
<1> QED
  BY <1>1, <1>2, <1>3, <1>4, <1>5, QuietDesk

-----------------------------------------------------------------------------
\* The checks of a handler: a head that reports, an ADMIN that is not the last.
LEMMA HeadReadHolds ==
  ASSUME StaffInvariant, NEW d \in Desks, HeadRead(d)
  PROVE  StaffInvariant' /\ LastAdminStep /\ OwnerStep
<1> DEFINE j == desk[d]
           pc == IF j.from = j.u THEN "guard" ELSE "update"
           job == [j EXCEPT !.pc = pc]
<1>1. j \in Job /\ Checked(j) /\ Allowed(j) /\ j.pc = "head"
  BY DEF HeadRead, Working, StaffInvariant, StaffTypeOK, DesksAreCareful
<1>2. CASE Leave(d)
  BY <1>2, QuietLeave DEF HeadRead
<1>3. CASE role[j.head] = "SAM_HEAD" /\ Goto(d, job)
  <2>1. pc \in {"guard", "update"} /\ (pc = "update" => j.from # j.u)
    OBVIOUS
  <2>2. /\ job.pc = pc /\ job.u = j.u /\ job.role = j.role /\ job.head = j.head /\ job.c = j.c
        /\ job.by = j.by /\ job.as = j.as /\ job.born = j.born /\ job.saw = j.saw
        /\ job.from = j.from
    BY <1>1 DEF Job
  <2>3. job \in Job
    BY <1>1, <2>1 DEF Job
  <2> HIDE DEF pc, job
  <2>4. Checked(job)
    BY <1>1, <1>3, <2>1, <2>2 DEF Checked, EverHeld
  <2>5. Allowed(job)
    BY <1>1, <2>1, <2>2 DEF Allowed
  <2>6. /\ asked' \in 0..MaxRequests
        /\ UNCHANGED <<role, head, owner, listed, rated, token, leftOn, day>>
    BY DEF HeadRead, OnlyDesk, StaffInvariant, StaffTypeOK
  <2> QED
    BY <1>3, <2>1, <2>2, <2>3, <2>4, <2>5, <2>6, QuietDesk
<1> QED
  BY <1>2, <1>3 DEF HeadRead

LEMMA GuardReadHolds ==
  ASSUME StaffInvariant, NEW d \in Desks, GuardRead(d)
  PROVE  StaffInvariant' /\ LastAdminStep /\ OwnerStep
<1> DEFINE j == desk[d]
           pc == IF j.role = "NONE" THEN "remove" ELSE "update"
           job == [j EXCEPT !.pc = pc, !.saw = Admins]
<1>1. j \in Job /\ Checked(j) /\ Allowed(j) /\ j.pc = "guard"
  BY DEF GuardRead, Working, StaffInvariant, StaffTypeOK, DesksAreCareful
<1>2. CASE Leave(d)
  BY <1>2, QuietLeave DEF GuardRead
<1>3. CASE ~(role[j.u] = "ADMIN" /\ Cardinality(Admins) <= 1) /\ Goto(d, job)
  <2>1. pc \in {"remove", "update"} /\ Admins \in SUBSET Users
    BY DEF Admins
  <2>2. Admins # {j.u}
    <3>1. Cardinality({j.u}) = 1
      BY FS_Singleton
    <3> QED
      BY <1>3, <3>1 DEF Admins
  <2>3. /\ job.pc = pc /\ job.u = j.u /\ job.role = j.role /\ job.head = j.head /\ job.c = j.c
        /\ job.by = j.by /\ job.as = j.as /\ job.born = j.born /\ job.saw = Admins
        /\ job.from = j.from
    BY <1>1 DEF Job
  <2> HIDE DEF pc
  <2>4. job \in Job
    BY <1>1, <2>1 DEF Job
  <2> HIDE DEF job
  <2>5. Checked(job)
    BY <1>1, <2>1, <2>2, <2>3 DEF Checked
  <2>6. Allowed(job)
    BY <1>1, <2>1, <2>3 DEF Allowed
  <2>7. /\ asked' \in 0..MaxRequests
        /\ UNCHANGED <<role, head, owner, listed, rated, token, leftOn, day>>
    BY DEF GuardRead, OnlyDesk, StaffInvariant, StaffTypeOK
  <2> QED
    BY <1>3, <2>1, <2>3, <2>4, <2>5, <2>6, <2>7, QuietDesk
<1> QED
  BY <1>2, <1>3 DEF GuardRead

\* A head is let through to a customer it saw without an owner only.
LEMMA AssignSeenHolds ==
  ASSUME StaffInvariant, NEW d \in Desks, AssignSeen(d)
  PROVE  StaffInvariant' /\ LastAdminStep /\ OwnerStep
<1> DEFINE j == desk[d]
           job == [j EXCEPT !.pc = "assignTx", !.from = owner[j.c]]
<1>1. j \in Job /\ Checked(j) /\ Allowed(j) /\ j.pc = "assign"
  BY DEF AssignSeen, Working, StaffInvariant, StaffTypeOK, DesksAreCareful
<1>2. CASE Leave(d)
  BY <1>2, QuietLeave DEF AssignSeen
<1>3. CASE ~(j.as = "SAM_HEAD" /\ owner[j.c] # NoUser) /\ Goto(d, job)
  <2>1. j.c \in Customers /\ owner[j.c] \in Users \cup {NoUser}
    BY <1>1 DEF Checked, StaffInvariant, StaffTypeOK
  <2>2. /\ job.pc = "assignTx" /\ job.u = j.u /\ job.c = j.c /\ job.head = j.head
        /\ job.by = j.by /\ job.as = j.as /\ job.born = j.born /\ job.from = owner[j.c]
    BY <1>1 DEF Job
  <2>3. job \in Job
    BY <1>1, <2>1 DEF Job
  <2> HIDE DEF job
  <2>4. Checked(job)
    BY <1>1, <2>1, <2>2 DEF Checked
  <2>5. Allowed(job)
    BY <1>1, <1>3, <2>2 DEF Allowed
  <2>6. /\ asked' \in 0..MaxRequests
        /\ UNCHANGED <<role, head, owner, listed, rated, token, leftOn, day>>
    BY DEF AssignSeen, OnlyDesk, StaffInvariant, StaffTypeOK
  <2> QED
    BY <1>3, <2>2, <2>3, <2>4, <2>5, <2>6, QuietDesk
<1> QED
  BY <1>2, <1>3 DEF AssignSeen

-----------------------------------------------------------------------------
\* A user who gives up a role held it until today.
LEMMA RoleLeaves ==
  ASSUME StaffInvariant, NEW u \in Users, NEW r \in StaffRoles \cup {"NONE"}, Exists(u),
         role' = [role EXCEPT ![u] = r], GivesUp(u), day' = day
  PROVE  /\ role' \in [Users -> StaffRoles \cup {"NONE"}]
         /\ leftOn' \in [Users -> [StaffRoles -> Nat \cup {NotYet}]]
         /\ HistoryGrows /\ RolesLeftBefore'
<1>1. /\ role \in [Users -> StaffRoles \cup {"NONE"}] /\ day \in Nat
      /\ leftOn \in [Users -> [StaffRoles -> Nat \cup {NotYet}]]
      /\ \A v \in Users, s \in StaffRoles : leftOn[v][s] <= day
  BY DEF StaffInvariant, StaffTypeOK, RolesLeftBefore
<1>2. role[u] \in StaffRoles
  BY <1>1 DEF Exists
<1>3. /\ leftOn' \in [Users -> [StaffRoles -> Nat \cup {NotYet}]]
      /\ leftOn'[u][role[u]] = day
      /\ \A v \in Users, s \in StaffRoles :
           v # u \/ s # role[u] => leftOn'[v][s] = leftOn[v][s]
  BY <1>1, <1>2 DEF GivesUp
<1>4. role' \in [Users -> StaffRoles \cup {"NONE"}] /\ \A v \in Users \ {u} : role'[v] = role[v]
  BY <1>1
<1>5. RolesLeftBefore'
  BY <1>1, <1>3 DEF RolesLeftBefore
<1>6. \A v \in Users, s \in StaffRoles : EverHeld(v, s) => EverHeld(v, s)'
  BY <1>1, <1>3, <1>4 DEF EverHeld, NotYet
<1>7. ASSUME NEW v \in Users, NEW s \in StaffRoles PROVE HeldUntil(v, s)' >= HeldUntil(v, s)
  <2>1. leftOn[v][s] \in Int /\ leftOn[v][s] <= day /\ day \in Int
    BY <1>1 DEF NotYet
  <2>2. CASE v = u /\ s = role[u]
    BY <1>3, <2>1, <2>2 DEF HeldUntil
  <2>3. CASE ~(v = u /\ s = role[u])
    BY <1>3, <1>4, <2>1, <2>3 DEF HeldUntil
  <2> QED
    BY <2>2, <2>3
<1> QED
  BY <1>3, <1>4, <1>5, <1>6, <1>7 DEF HistoryGrows

\* A token stays as true as it was.
LEMMA TokensLast ==
  ASSUME StaffInvariant, StaffTypeOK', HistoryGrows, token' = token
  PROVE  TokensWereTrue'
<1> SUFFICES ASSUME NEW u \in Users, token[u] # NoToken
             PROVE  HeldUntil(u, token[u].role)' >= token[u].issued - 1
  BY DEF TokensWereTrue
<1>1. token[u].role \in StaffRoles /\ token[u].issued \in Nat
  BY DEF StaffInvariant, StaffTypeOK
<1>2. HeldUntil(u, token[u].role) >= token[u].issued - 1
  BY DEF StaffInvariant, TokensWereTrue
<1>3. HeldUntil(u, token[u].role)' >= HeldUntil(u, token[u].role)
  BY <1>1 DEF HistoryGrows
<1>4. HeldUntil(u, token[u].role) \in Int /\ HeldUntil(u, token[u].role)' \in Int
  BY <1>1 DEF HeldUntil, NotYet, StaffInvariant, StaffTypeOK
<1> QED
  BY <1>1, <1>2, <1>3, <1>4

\* References to users a step keeps, on roles they had, stay earned.
LEMMA ReferencesLast ==
  ASSUME HistoryGrows, NEW kept \in SUBSET Users, \A v \in kept : role'[v] # "NONE",
         \A v \in Users :
           head'[v] # NoUser => head'[v] \in kept /\ EverHeld(head'[v], "SAM_HEAD"),
         \A c \in Customers :
           owner'[c] # NoUser =>
             owner'[c] \in kept /\ (c \in listed' \/ EverHeld(owner'[c], "SAM")),
         \A v \in rated' : v \in kept /\ EverHeld(v, "SAM")
  PROVE  ReferencesWereEarned'
<1>1. \A v \in kept : /\ EverHeld(v, "SAM") => role'[v] = "SAM" \/ leftOn'[v]["SAM"] # NotYet
                      /\ EverHeld(v, "SAM_HEAD") =>
                           role'[v] = "SAM_HEAD" \/ leftOn'[v]["SAM_HEAD"] # NotYet
  BY DEF HistoryGrows, StaffRoles, EverHeld
<1> QED
  BY <1>1 DEF ReferencesWereEarned, Exists, EverHeld

\* A handler that is done leaves its desk, whatever it wrote.
LEMMA DeskIsLeft ==
  ASSUME StaffInvariant, NEW d \in Desks, Leave(d), StaffTypeOK', HistoryGrows,
         RolesLeftBefore', token' = token, day' = day, ReferencesWereEarned',
         \A e \in Desks \ {d} : desk[e].pc = "create" => role'[desk[e].u] = "NONE"
  PROVE  StaffInvariant'
<1>1. Checked(FreeDesk)' /\ Allowed(FreeDesk)'
  BY DEF Checked, Allowed, FreeDesk
<1>2. NewIdsAreNew' /\ DesksAreCareful'
  BY <1>1, FreeDeskIsFree, DeskMoves DEF Leave
<1>3. LoginsAreShort'
  BY FreeDeskIsFree DEF Leave, Goto, StaffInvariant, StaffTypeOK, LoginsAreShort
<1> QED
  BY <1>2, <1>3, TokensLast DEF StaffInvariant

\* The desk it leaves is of the declared form.
LEMMA LeftDeskType ==
  ASSUME StaffInvariant, NEW d \in Desks, Leave(d)
  PROVE  desk' \in [Desks -> Job]
BY FreeDeskIsFree DEF Leave, Goto, StaffInvariant, StaffTypeOK

\* A step that changes no role.
LEMMA SameRoles ==
  ASSUME StaffInvariant, role' = role, leftOn' = leftOn, day' = day
  PROVE  /\ HistoryGrows /\ RolesLeftBefore' /\ LastAdminStep
         /\ \A d \in Desks : desk[d].pc = "create" => role'[desk[d].u] = "NONE"
         /\ \A u \in Users, r \in StaffRoles : EverHeld(u, r)' <=> EverHeld(u, r)
         /\ \A u \in Users : Exists(u)' <=> Exists(u)
<1>1. HistoryGrows
  BY DEF HistoryGrows, HeldUntil, EverHeld, StaffInvariant, StaffTypeOK, NotYet
<1>2. RolesLeftBefore' /\ LastAdminStep
  BY DEF StaffInvariant, RolesLeftBefore, LastAdminStep, Admins
<1> QED
  BY <1>1, <1>2 DEF EverHeld, Exists, StaffInvariant, DesksAreCareful, Checked

-----------------------------------------------------------------------------
\* The owner column: a SAM that still exists ...
LEMMA AssignTxHolds ==
  ASSUME StaffInvariant, NEW d \in Desks, AssignTx(d)
  PROVE  StaffInvariant' /\ LastAdminStep /\ OwnerStep
<1> DEFINE j == desk[d]
<1>1. j \in Job /\ Checked(j) /\ Allowed(j) /\ j.pc = "assignTx"
  BY DEF AssignTx, Working, StaffInvariant, StaffTypeOK, DesksAreCareful
<1>2. /\ \/ /\ j.u # NoUser => Exists(j.u)
            /\ owner' = [owner EXCEPT ![j.c] = j.u]
            /\ listed' = listed \ {j.c}
         \/ UNCHANGED <<owner, listed>>
      /\ Leave(d) /\ UNCHANGED <<role, head, rated, token, leftOn, day, asked>>
  BY DEF AssignTx
<1>3. j.u \in Users \cup {NoUser} /\ j.c \in Customers /\ (j.u # NoUser => EverHeld(j.u, "SAM"))
  BY <1>1 DEF Checked, Job
<1>4. owner' \in [Customers -> Users \cup {NoUser}] /\ listed' \subseteq Customers
  BY <1>2, <1>3 DEF StaffInvariant, StaffTypeOK
<1>5. StaffTypeOK'
  BY <1>2, <1>4, LeftDeskType DEF StaffInvariant, StaffTypeOK
<1>6. \A c \in Customers :
        owner'[c] # NoUser => Exists(owner'[c]) /\ (c \in listed' \/ EverHeld(owner'[c], "SAM"))
  <2>1. \A c \in Customers :
          owner[c] # NoUser => Exists(owner[c]) /\ (c \in listed \/ EverHeld(owner[c], "SAM"))
    BY DEF StaffInvariant, ReferencesWereEarned
  <2>2. CASE UNCHANGED <<owner, listed>>
    BY <2>1, <2>2
  <2>3. CASE /\ j.u # NoUser => Exists(j.u)
             /\ owner' = [owner EXCEPT ![j.c] = j.u]
             /\ listed' = listed \ {j.c}
    <3>1. owner'[j.c] = j.u /\ \A c \in Customers \ {j.c} : owner'[c] = owner[c]
      BY <1>3, <2>3 DEF StaffInvariant, StaffTypeOK
    <3> QED
      BY <1>3, <2>1, <2>3, <3>1
  <2> QED
    BY <1>2, <2>2, <2>3
<1>7. ReferencesWereEarned'
  BY <1>2, <1>6 DEF StaffInvariant, ReferencesWereEarned, Exists, EverHeld
<1>8. StaffInvariant' /\ LastAdminStep
  BY <1>2, <1>5, <1>7, SameRoles, DeskIsLeft
<1>9. \A c \in Customers : owner'[c] # owner[c] => j.c = c
  BY <1>2, <1>3 DEF StaffInvariant, StaffTypeOK
<1>10. OwnerStep
  BY <1>1, <1>9 DEF OwnerStep, Allowed
<1> QED
  BY <1>8, <1>10

\* ... or whom a workbook names, the customer being listed from then on.
LEMMA ImportTxHolds ==
  ASSUME StaffInvariant, NEW d \in Desks, ImportTx(d)
  PROVE  StaffInvariant' /\ LastAdminStep /\ OwnerStep
<1> DEFINE j == desk[d]
<1>1. j \in Job /\ Checked(j) /\ Allowed(j) /\ j.pc = "import"
  BY DEF ImportTx, Working, StaffInvariant, StaffTypeOK, DesksAreCareful
<1>2. /\ \/ /\ j.u # NoUser => Exists(j.u)
            /\ owner' = [owner EXCEPT ![j.c] = j.u]
            /\ listed' = listed \cup {j.c}
         \/ UNCHANGED <<owner, listed>>
      /\ Leave(d) /\ UNCHANGED <<role, head, rated, token, leftOn, day, asked>>
  BY DEF ImportTx
<1>3. j.u \in Users \cup {NoUser} /\ j.c \in Customers
  BY <1>1 DEF Checked, Job
<1>4. owner' \in [Customers -> Users \cup {NoUser}] /\ listed' \subseteq Customers
  BY <1>2, <1>3 DEF StaffInvariant, StaffTypeOK
<1>5. StaffTypeOK'
  BY <1>2, <1>4, LeftDeskType DEF StaffInvariant, StaffTypeOK
<1>6. \A c \in Customers :
        owner'[c] # NoUser => Exists(owner'[c]) /\ (c \in listed' \/ EverHeld(owner'[c], "SAM"))
  <2>1. \A c \in Customers :
          owner[c] # NoUser => Exists(owner[c]) /\ (c \in listed \/ EverHeld(owner[c], "SAM"))
    BY DEF StaffInvariant, ReferencesWereEarned
  <2>2. CASE UNCHANGED <<owner, listed>>
    BY <2>1, <2>2
  <2>3. CASE /\ j.u # NoUser => Exists(j.u)
             /\ owner' = [owner EXCEPT ![j.c] = j.u]
             /\ listed' = listed \cup {j.c}
    <3>1. owner'[j.c] = j.u /\ \A c \in Customers \ {j.c} : owner'[c] = owner[c]
      BY <1>3, <2>3 DEF StaffInvariant, StaffTypeOK
    <3> QED
      BY <1>3, <2>1, <2>3, <3>1
  <2> QED
    BY <1>2, <2>2, <2>3
<1>7. ReferencesWereEarned'
  BY <1>2, <1>6 DEF StaffInvariant, ReferencesWereEarned, Exists, EverHeld
<1>8. StaffInvariant' /\ LastAdminStep
  BY <1>2, <1>5, <1>7, SameRoles, DeskIsLeft
<1>9. \A c \in Customers : owner'[c] # owner[c] => j.c = c /\ c \in listed'
  BY <1>2, <1>3 DEF StaffInvariant, StaffTypeOK
<1>10. OwnerStep
  BY <1>1, <1>9 DEF OwnerStep
<1> QED
  BY <1>8, <1>10

\* A feedback row: it names a SAM that still exists.
LEMMA FeedbackTxHolds ==
  ASSUME StaffInvariant, NEW d \in Desks, FeedbackTx(d)
  PROVE  StaffInvariant' /\ LastAdminStep /\ OwnerStep
<1> DEFINE u == desk[d].u
<1>1. u \in Users /\ EverHeld(u, "SAM")
  BY DEF FeedbackTx, Working, StaffInvariant, StaffTypeOK, DesksAreCareful, Checked
<1>2. /\ rated' = IF Exists(u) THEN rated \cup {u} ELSE rated
      /\ Leave(d) /\ UNCHANGED <<role, head, owner, listed, token, leftOn, day, asked>>
  BY DEF FeedbackTx
<1>3. StaffTypeOK'
  BY <1>1, <1>2, LeftDeskType DEF StaffInvariant, StaffTypeOK
<1>4. ReferencesWereEarned'
  BY <1>1, <1>2 DEF StaffInvariant, ReferencesWereEarned, Exists, EverHeld
<1>5. StaffInvariant' /\ LastAdminStep
  BY <1>2, <1>3, <1>4, SameRoles, DeskIsLeft
<1> QED
  BY <1>2, <1>5 DEF OwnerStep

-----------------------------------------------------------------------------
\* A patched user: the role it gives up was held, the head it gets is there.
LEMMA UpdateTxHolds ==
  ASSUME StaffInvariant, NEW d \in Desks, UpdateTx(d)
  PROVE  StaffInvariant' /\ LastAdminStep /\ OwnerStep
<1> DEFINE j == desk[d]
           done == Exists(j.u) /\ (j.sethead /\ j.head # NoUser => Exists(j.head))
           moved == done /\ j.role \notin {"NONE", role[j.u]}
<1>1. j \in Job /\ Checked(j) /\ j.pc = "update"
  BY DEF UpdateTx, Working, StaffInvariant, StaffTypeOK, DesksAreCareful
<1>2. /\ role' = IF moved THEN [role EXCEPT ![j.u] = j.role] ELSE role
      /\ IF moved THEN GivesUp(j.u) ELSE UNCHANGED leftOn
      /\ head' = IF done /\ j.sethead THEN [head EXCEPT ![j.u] = j.head] ELSE head
      /\ Leave(d) /\ UNCHANGED <<owner, listed, rated, token, day, asked>>
  BY DEF UpdateTx
<1>3. /\ j.u \in Users /\ j.head \in Users \cup {NoUser} /\ j.role \in StaffRoles \cup {"NONE"}
      /\ j.head # NoUser => EverHeld(j.head, "SAM_HEAD")
      /\ j.saw # {j.u} \/ j.role \in {"NONE", "ADMIN"}
  BY <1>1 DEF Checked, Job
<1>4. /\ role' \in [Users -> StaffRoles \cup {"NONE"}]
      /\ leftOn' \in [Users -> [StaffRoles -> Nat \cup {NotYet}]]
      /\ HistoryGrows /\ RolesLeftBefore'
  <2>1. CASE moved
    BY <1>2, <1>3, <2>1, RoleLeaves
  <2>2. CASE ~moved
    BY <1>2, <2>2, SameRoles DEF StaffInvariant, StaffTypeOK
  <2> QED
    BY <2>1, <2>2
<1>5. head' \in [Users -> Users \cup {NoUser}]
  BY <1>2, <1>3 DEF StaffInvariant, StaffTypeOK
<1>6. StaffTypeOK'
  BY <1>2, <1>4, <1>5, LeftDeskType DEF StaffInvariant, StaffTypeOK
<1>7. \A u \in Users : Exists(u)' <=> Exists(u)
  BY <1>2, <1>3 DEF StaffInvariant, StaffTypeOK, Exists
<1>8. \A u \in Users :
        head'[u] # NoUser => Exists(head'[u]) /\ EverHeld(head'[u], "SAM_HEAD")
  BY <1>2, <1>3 DEF StaffInvariant, StaffTypeOK, ReferencesWereEarned
<1>9. ReferencesWereEarned'
  <2> DEFINE kept == {v \in Users : Exists(v)}
  <2>1. \A v \in kept : role'[v] # "NONE"
    BY <1>7 DEF Exists
  <2>2. \A v \in Users :
          head'[v] # NoUser => head'[v] \in kept /\ EverHeld(head'[v], "SAM_HEAD")
    BY <1>5, <1>8
  <2>3. \A c \in Customers :
          owner'[c] # NoUser =>
            owner'[c] \in kept /\ (c \in listed' \/ EverHeld(owner'[c], "SAM"))
    BY <1>2 DEF StaffInvariant, StaffTypeOK, ReferencesWereEarned
  <2>4. \A v \in rated' : v \in kept /\ EverHeld(v, "SAM")
    BY <1>2 DEF StaffInvariant, StaffTypeOK, ReferencesWereEarned
  <2>5. kept \in SUBSET Users
    OBVIOUS
  <2> HIDE DEF kept
  <2> QED
    BY <1>4, <2>1, <2>2, <2>3, <2>4, <2>5, ReferencesLast
<1>10. \A e \in Desks \ {d} : desk[e].pc = "create" => role'[desk[e].u] = "NONE"
  <2> SUFFICES ASSUME NEW e \in Desks, desk[e].pc = "create" PROVE role'[desk[e].u] = "NONE"
    OBVIOUS
  <2>1. desk[e].u \in Users /\ role[desk[e].u] = "NONE"
    BY DEF StaffInvariant, DesksAreCareful, Checked
  <2> QED
    BY <1>7, <2>1 DEF Exists
<1>11. StaffInvariant'
  BY <1>2, <1>4, <1>6, <1>9, <1>10, DeskIsLeft
<1>12. LastAdminStep
  <2> SUFFICES ASSUME Admins # {}, Admins' = {} PROVE j.u \in Admins /\ j.saw # {j.u}
    BY <1>1 DEF LastAdminStep
  <2>1. PICK a \in Users : role[a] = "ADMIN" /\ role'[a] # "ADMIN"
    BY DEF Admins
  <2>2. a = j.u /\ moved
    BY <1>2, <1>3, <2>1 DEF StaffInvariant, StaffTypeOK
  <2> QED
    BY <1>3, <2>1, <2>2 DEF Admins
<1> QED
  BY <1>2, <1>11, <1>12 DEF OwnerStep

\* A removed user: nothing that names them is left.
LEMMA RemoveTxHolds ==
  ASSUME StaffInvariant, NEW d \in Desks, RemoveTx(d)
  PROVE  StaffInvariant' /\ LastAdminStep /\ OwnerStep
<1> DEFINE u == desk[d].u
<1>1. u \in Users /\ desk[d].pc = "remove" /\ desk[d].saw # {u}
  BY DEF RemoveTx, Working, StaffInvariant, StaffTypeOK, DesksAreCareful, Checked
<1>2. Leave(d) /\ UNCHANGED <<listed, rated, token, day, asked>>
  BY DEF RemoveTx
<1>3. CASE UNCHANGED <<role, leftOn, head, owner>>
  <2>1. StaffTypeOK'
    BY <1>2, <1>3, LeftDeskType DEF StaffInvariant, StaffTypeOK
  <2>2. ReferencesWereEarned'
    BY <1>2, <1>3 DEF StaffInvariant, ReferencesWereEarned, Exists, EverHeld
  <2>3. StaffInvariant' /\ LastAdminStep
    BY <1>2, <1>3, <2>1, <2>2, SameRoles, DeskIsLeft
  <2> QED
    BY <1>3, <2>3 DEF OwnerStep
<1>4. CASE /\ Exists(u) /\ u \notin rated
           /\ role' = [role EXCEPT ![u] = "NONE"]
           /\ GivesUp(u)
           /\ head' = [v \in Users |-> IF v = u \/ head[v] = u THEN NoUser ELSE head[v]]
           /\ owner' = [c \in Customers |-> IF owner[c] = u THEN NoUser ELSE owner[c]]
  <2>1. /\ role' \in [Users -> StaffRoles \cup {"NONE"}]
        /\ leftOn' \in [Users -> [StaffRoles -> Nat \cup {NotYet}]]
        /\ HistoryGrows /\ RolesLeftBefore'
    BY <1>1, <1>2, <1>4, RoleLeaves
  <2>2. head' \in [Users -> Users \cup {NoUser}] /\ owner' \in [Customers -> Users \cup {NoUser}]
    BY <1>4 DEF StaffInvariant, StaffTypeOK
  <2>3. StaffTypeOK'
    BY <1>2, <2>1, <2>2, LeftDeskType DEF StaffInvariant, StaffTypeOK
  <2>4. \A v \in Users \ {u} : role'[v] = role[v]
    BY <1>4 DEF StaffInvariant, StaffTypeOK
  <2>5. ReferencesWereEarned'
    <3> DEFINE kept == {v \in Users : Exists(v) /\ v # u}
    <3>1. \A v \in kept : role'[v] # "NONE"
      BY <2>4 DEF Exists
    <3>2. \A v \in Users :
            head'[v] # NoUser => head'[v] \in kept /\ EverHeld(head'[v], "SAM_HEAD")
      BY <1>4 DEF StaffInvariant, StaffTypeOK, ReferencesWereEarned
    <3>3. \A c \in Customers :
            owner'[c] # NoUser =>
              owner'[c] \in kept /\ (c \in listed' \/ EverHeld(owner'[c], "SAM"))
      BY <1>2, <1>4 DEF StaffInvariant, StaffTypeOK, ReferencesWereEarned
    <3>4. \A v \in rated' : v \in kept /\ EverHeld(v, "SAM")
      BY <1>2, <1>4 DEF StaffInvariant, StaffTypeOK, ReferencesWereEarned
    <3>5. kept \in SUBSET Users
      OBVIOUS
    <3> HIDE DEF kept
    <3> QED
      BY <2>1, <3>1, <3>2, <3>3, <3>4, <3>5, ReferencesLast
  <2>6. \A e \in Desks \ {d} : desk[e].pc = "create" => role'[desk[e].u] = "NONE"
    <3> SUFFICES ASSUME NEW e \in Desks, desk[e].pc = "create" PROVE role'[desk[e].u] = "NONE"
      OBVIOUS
    <3>1. desk[e].u \in Users /\ role[desk[e].u] = "NONE"
      BY DEF StaffInvariant, DesksAreCareful, Checked
    <3> QED
      BY <1>4, <3>1 DEF StaffInvariant, StaffTypeOK
  <2>7. StaffInvariant'
    BY <1>2, <2>1, <2>3, <2>5, <2>6, DeskIsLeft
  <2>8. LastAdminStep
    <3> SUFFICES ASSUME Admins # {}, Admins' = {} PROVE u \in Admins
      BY <1>1 DEF LastAdminStep
    <3> QED
      BY <1>1, <1>4 DEF Admins, StaffInvariant, StaffTypeOK
  <2>9. role'[u] = "NONE"
    BY <1>1, <1>4 DEF StaffInvariant, StaffTypeOK
  <2> QED
    BY <1>4, <2>7, <2>8, <2>9 DEF OwnerStep
<1> QED
  BY <1>3, <1>4 DEF RemoveTx

\* A new user: no other handler is creating the same one.
LEMMA CreateTxHolds ==
  ASSUME StaffInvariant, NEW d \in Desks, CreateTx(d)
  PROVE  StaffInvariant' /\ LastAdminStep /\ OwnerStep
<1> DEFINE j == desk[d]
<1>1. j \in Job /\ Checked(j) /\ j.pc = "create"
  BY DEF CreateTx, Working, StaffInvariant, StaffTypeOK, DesksAreCareful
<1>2. Leave(d) /\ UNCHANGED <<owner, listed, rated, token, leftOn, day, asked>>
  BY DEF CreateTx
<1>3. /\ j.u \in Users /\ role[j.u] = "NONE" /\ j.role \in StaffRoles
      /\ j.head \in Users \cup {NoUser} /\ (j.head # NoUser => EverHeld(j.head, "SAM_HEAD"))
  BY <1>1 DEF Checked, Job
<1>4. CASE UNCHANGED <<role, head>>
  <2>1. StaffTypeOK'
    BY <1>2, <1>4, LeftDeskType DEF StaffInvariant, StaffTypeOK
  <2>2. ReferencesWereEarned'
    BY <1>2, <1>4 DEF StaffInvariant, ReferencesWereEarned, Exists, EverHeld
  <2>3. StaffInvariant' /\ LastAdminStep
    BY <1>2, <1>4, <2>1, <2>2, SameRoles, DeskIsLeft
  <2> QED
    BY <1>2, <2>3 DEF OwnerStep
<1>5. CASE /\ j.head # NoUser => Exists(j.head)
           /\ role' = [role EXCEPT ![j.u] = j.role]
           /\ head' = [head EXCEPT ![j.u] = j.head]
  <2>1. /\ role' \in [Users -> StaffRoles \cup {"NONE"}]
        /\ head' \in [Users -> Users \cup {NoUser}]
        /\ role'[j.u] = j.role
        /\ \A v \in Users \ {j.u} : role'[v] = role[v]
    BY <1>3, <1>5 DEF StaffInvariant, StaffTypeOK
  <2>2. StaffTypeOK'
    BY <1>2, <2>1, LeftDeskType DEF StaffInvariant, StaffTypeOK
  <2>3. RolesLeftBefore'
    BY <1>2 DEF RolesLeftBefore, StaffInvariant
  <2>4. HistoryGrows
    <3> SUFFICES ASSUME NEW v \in Users, NEW r \in StaffRoles
                 PROVE  /\ EverHeld(v, r) => EverHeld(v, r)'
                        /\ HeldUntil(v, r)' >= HeldUntil(v, r)
      BY DEF HistoryGrows
    <3>1. leftOn[v][r] \in Int /\ leftOn[v][r] <= day /\ day \in Int
      BY DEF StaffInvariant, StaffTypeOK, RolesLeftBefore, NotYet
    <3>2. role[v] = r => role'[v] = r
      BY <1>3, <2>1 DEF StaffRoles
    <3> QED
      BY <1>2, <3>1, <3>2 DEF EverHeld, HeldUntil
  <2>5. \A v \in Users : role[v] # "NONE" => role'[v] # "NONE"
    BY <1>3, <2>1
  <2>6. ReferencesWereEarned'
    <3> DEFINE kept == {v \in Users : Exists(v)}
    <3>1. \A v \in kept : role'[v] # "NONE"
      BY <2>5 DEF Exists
    <3>2. \A v \in Users :
            head'[v] # NoUser => head'[v] \in kept /\ EverHeld(head'[v], "SAM_HEAD")
      BY <1>3, <1>5 DEF StaffInvariant, StaffTypeOK, ReferencesWereEarned
    <3>3. \A c \in Customers :
            owner'[c] # NoUser =>
              owner'[c] \in kept /\ (c \in listed' \/ EverHeld(owner'[c], "SAM"))
      BY <1>2 DEF StaffInvariant, StaffTypeOK, ReferencesWereEarned
    <3>4. \A v \in rated' : v \in kept /\ EverHeld(v, "SAM")
      BY <1>2 DEF StaffInvariant, StaffTypeOK, ReferencesWereEarned
    <3>5. kept \in SUBSET Users
      OBVIOUS
    <3> HIDE DEF kept
    <3> QED
      BY <2>4, <3>1, <3>2, <3>3, <3>4, <3>5, ReferencesLast
  <2>7. \A e \in Desks \ {d} : desk[e].pc = "create" => role'[desk[e].u] = "NONE"
    <3> SUFFICES ASSUME NEW e \in Desks \ {d}, desk[e].pc = "create"
                 PROVE  role'[desk[e].u] = "NONE"
      OBVIOUS
    <3>1. desk[e].u \in Users /\ role[desk[e].u] = "NONE" /\ desk[e].u # j.u
      BY <1>1 DEF StaffInvariant, DesksAreCareful, Checked, NewIdsAreNew
    <3> QED
      BY <2>1, <3>1
  <2>8. StaffInvariant'
    BY <1>2, <2>2, <2>3, <2>4, <2>6, <2>7, DeskIsLeft
  <2>9. LastAdminStep
    BY <1>3, <2>1 DEF LastAdminStep, Admins
  <2> QED
    BY <1>2, <2>8, <2>9 DEF OwnerStep
<1> QED
  BY <1>4, <1>5 DEF CreateTx

-----------------------------------------------------------------------------
\* The cookie carries the role that was read: held until yesterday at least.
LEMMA LoginIssueHolds ==
  ASSUME StaffInvariant, NEW d \in Desks, LoginIssue(d)
  PROVE  StaffInvariant' /\ LastAdminStep /\ OwnerStep
<1> DEFINE j == desk[d]
           fresh == [role |-> j.role, issued |-> day]
<1>1. j \in Job /\ Allowed(j) /\ j.pc = "login"
  BY DEF LoginIssue, Working, StaffInvariant, StaffTypeOK, DesksAreCareful
<1>2. /\ token' = [token EXCEPT ![j.u] = fresh] /\ Leave(d)
      /\ UNCHANGED <<role, head, owner, listed, rated, leftOn, day, asked>>
  BY DEF LoginIssue
<1>3. /\ j.u \in Users /\ j.role \in StaffRoles /\ HeldUntil(j.u, j.role) >= j.born
      /\ day <= j.born + 1
  BY <1>1 DEF Allowed, StaffInvariant, LoginsAreShort
<1>4. fresh \in [role : StaffRoles, issued : Nat]
  BY <1>3 DEF StaffInvariant, StaffTypeOK
<1>5. StaffTypeOK'
  BY <1>2, <1>3, <1>4, LeftDeskType DEF StaffInvariant, StaffTypeOK
<1>6. TokensWereTrue'
  <2> SUFFICES ASSUME NEW v \in Users, token'[v] # NoToken
               PROVE  HeldUntil(v, token'[v].role) >= token'[v].issued - 1
    BY <1>2 DEF TokensWereTrue, HeldUntil
  <2>1. CASE v = j.u
    <3>1. token'[v] = fresh
      BY <1>2, <2>1 DEF StaffInvariant, StaffTypeOK
    <3>2. day \in Int /\ j.born \in Int /\ HeldUntil(j.u, j.role) \in Int
      BY <1>1, <1>3 DEF StaffInvariant, StaffTypeOK, Job, HeldUntil, NotYet
    <3>3. HeldUntil(j.u, j.role) >= day - 1
      BY <1>3, <3>2
    <3> QED
      BY <2>1, <3>1, <3>3
  <2>2. CASE v # j.u
    BY <1>2, <2>2 DEF StaffInvariant, StaffTypeOK, TokensWereTrue
  <2> QED
    BY <2>1, <2>2
<1>7. ReferencesWereEarned'
  BY <1>2 DEF StaffInvariant, ReferencesWereEarned, Exists, EverHeld
<1>8. /\ HistoryGrows /\ RolesLeftBefore' /\ LastAdminStep
      /\ \A e \in Desks \ {d} : desk[e].pc = "create" => role'[desk[e].u] = "NONE"
  BY <1>2, SameRoles
<1>9. Checked(FreeDesk)' /\ Allowed(FreeDesk)'
  BY DEF Checked, Allowed, FreeDesk
<1>10. NewIdsAreNew' /\ DesksAreCareful'
  BY <1>2, <1>5, <1>8, <1>9, FreeDeskIsFree, DeskMoves DEF Leave
<1>11. LoginsAreShort'
  BY <1>2, FreeDeskIsFree DEF Leave, Goto, StaffInvariant, StaffTypeOK, LoginsAreShort
<1> QED
  BY <1>2, <1>5, <1>6, <1>7, <1>8, <1>10, <1>11 DEF StaffInvariant, OwnerStep

\* A day passes: whoever has a role has had it a day longer.
LEMMA NextDayHolds ==
  ASSUME StaffInvariant, NextDay
  PROVE  StaffInvariant' /\ LastAdminStep /\ OwnerStep
<1>1. day' = day + 1 /\ UNCHANGED <<role, head, owner, listed, rated, token, leftOn, desk, asked>>
  BY DEF NextDay
<1>2. StaffTypeOK'
  BY <1>1 DEF StaffInvariant, StaffTypeOK
<1>3. RolesLeftBefore' /\ HistoryGrows
  <2> SUFFICES ASSUME NEW u \in Users, NEW r \in StaffRoles
               PROVE  /\ leftOn'[u][r] <= day' /\ HeldUntil(u, r)' >= HeldUntil(u, r)
                      /\ EverHeld(u, r) => EverHeld(u, r)'
    BY DEF RolesLeftBefore, HistoryGrows
  <2>1. leftOn[u][r] \in Int /\ leftOn[u][r] <= day /\ day \in Int
    BY DEF StaffInvariant, StaffTypeOK, RolesLeftBefore, NotYet
  <2> QED
    BY <1>1, <2>1 DEF HeldUntil, EverHeld
<1>4. ReferencesWereEarned' /\ NewIdsAreNew'
  BY <1>1 DEF StaffInvariant, ReferencesWereEarned, NewIdsAreNew, Exists, EverHeld
<1>6. LoginsAreShort'
  <2> SUFFICES ASSUME NEW d \in Desks, desk[d].pc = "login" PROVE day' <= desk[d].born + 1
    BY <1>1 DEF LoginsAreShort
  <2>1. desk[d].born = day
    BY DEF NextDay, FreeDesk
  <2>2. day \in Nat
    BY DEF StaffInvariant, StaffTypeOK
  <2> QED
    BY <1>1, <2>1, <2>2
<1>5. ASSUME NEW d \in Desks PROVE (Checked(desk[d]) /\ Allowed(desk[d]))'
  <2>1. PICK j \in Job : j = desk[d] /\ j = desk'[d]
    BY <1>1 DEF StaffInvariant, StaffTypeOK
  <2>2. Checked(j) /\ Allowed(j) /\ (j.pc = "create" => role'[j.u] = "NONE")
    BY <1>1, <2>1 DEF StaffInvariant, DesksAreCareful, Checked
  <2>3. Checked(j)' /\ Allowed(j)'
    BY <1>2, <1>3, <2>2, CareLasts DEF StaffInvariant
  <2> QED
    BY <2>1, <2>3 DEF Checked, Allowed
<1> QED
  BY <1>1, <1>2, <1>3, <1>4, <1>5, <1>6, TokensLast
     DEF StaffInvariant, DesksAreCareful, LastAdminStep, OwnerStep, Admins

-----------------------------------------------------------------------------
\* One step of anybody.
LEMMA StaffStepHolds ==
  StaffInvariant /\ [StaffNext]_staffVars =>
    StaffInvariant' /\ [LastAdminStep /\ OwnerStep]_staffVars
<1> SUFFICES ASSUME StaffInvariant, [StaffNext]_staffVars
             PROVE  StaffInvariant' /\ [LastAdminStep /\ OwnerStep]_staffVars
  OBVIOUS
<1>1. CASE UNCHANGED staffVars
  <2>1. UNCHANGED <<role, head, owner, listed, rated, token, leftOn, day, desk, asked>>
    BY <1>1 DEF staffVars
  <2>2. StaffTypeOK' /\ RolesLeftBefore' /\ TokensWereTrue'
    BY <2>1 DEF StaffInvariant, StaffTypeOK, RolesLeftBefore, TokensWereTrue, HeldUntil
  <2>3. ReferencesWereEarned' /\ NewIdsAreNew' /\ LoginsAreShort'
    BY <2>1 DEF StaffInvariant, ReferencesWereEarned, NewIdsAreNew, LoginsAreShort, Exists, EverHeld
  <2>4. DesksAreCareful'
    BY <2>1 DEF StaffInvariant, DesksAreCareful, Checked, Allowed, EverHeld, HeldUntil
  <2> QED
    BY <1>1, <2>2, <2>3, <2>4 DEF StaffInvariant
<1>2. ASSUME NEW d \in Desks, StaffArrival(d) PROVE StaffInvariant' /\ LastAdminStep /\ OwnerStep
  BY <1>2, UpdateReadHolds, RemoveReadHolds, CreateReadHolds, AssignReadHolds, ImportReadHolds,
     FeedbackReadHolds, LoginReadHolds
     DEF StaffArrival
<1>3. ASSUME NEW d \in Desks, StaffStep(d) PROVE StaffInvariant' /\ LastAdminStep /\ OwnerStep
  BY <1>3, HeadReadHolds, GuardReadHolds, UpdateTxHolds, RemoveTxHolds, CreateTxHolds,
     AssignSeenHolds, AssignTxHolds, ImportTxHolds, FeedbackTxHolds, LoginIssueHolds
     DEF StaffStep
<1>4. ASSUME NEW d \in Desks, DeskFails(d) PROVE StaffInvariant' /\ LastAdminStep /\ OwnerStep
  BY <1>4, QuietLeave DEF DeskFails
<1> QED
  BY <1>1, <1>2, <1>3, <1>4, NextDayHolds DEF StaffNext

LEMMA StaffHolds == StaffSpec => []StaffInvariant
<1>1. StaffInvariant /\ [StaffNext]_staffVars => StaffInvariant'
  BY StaffStepHolds
<1> QED
  BY <1>1, StaffInitHolds, PTL DEF StaffSpec

-----------------------------------------------------------------------------
\* Users, tokens, owners and handlers in flight keep the form the schema and the
\* handlers give them.
THEOREM StaffTypesHold == StaffSpec => []StaffTypeOK
<1>1. StaffInvariant => StaffTypeOK
  BY DEF StaffInvariant
<1> QED
  BY <1>1, StaffHolds, PTL

\* No race leaves a column that names a deleted user, or one who never had the role
\* the check asked for; the owner of a customer an import wrote last was asked for none.
THEOREM ReferencesAreEarned == StaffSpec => []ReferencesWereEarned
<1>1. StaffInvariant => ReferencesWereEarned
  BY DEF StaffInvariant
<1> QED
  BY <1>1, StaffHolds, PTL

\* Nobody acts on a role they gave up more than TOKEN_TTL, and the night of a login,
\* before the request.
THEOREM RolesAreRecent == StaffSpec => []ActsOnRecentRole
<1>1. StaffInvariant => ActsOnRecentRole
  BY DEF StaffInvariant, DesksAreCareful, Allowed, ActsOnRecentRole
<1> QED
  BY <1>1, StaffHolds, PTL

\* The last ADMIN is lost to no handler whose guard saw them alone.
THEOREM LastAdminFallsToARace == StaffSpec => LastAdminFallsToStaleGuard
<1>1. StaffInvariant /\ [StaffNext]_staffVars => [LastAdminStep]_staffVars
  BY StaffStepHolds
<1>2. LastAdminStep <=>
        (Admins # {} /\ Admins' = {} =>
           \E d \in Desks : /\ desk[d].pc \in {"update", "remove"}
                            /\ desk[d].u \in Admins
                            /\ desk[d].saw # {desk[d].u})
  BY DEF LastAdminStep
<1> QED
  BY <1>1, <1>2, StaffHolds, PTL DEF StaffSpec, LastAdminFallsToStaleGuard

\* A customer with an owner changes hands by an ADMIN, with the owner's deletion, by a
\* head that saw it unassigned, or by an import, which marks it as listed.
THEOREM OwnersAreNotTakenOver == StaffSpec => OwnedCustomerIsAdmins
<1>1. StaffInvariant /\ [StaffNext]_staffVars => [OwnerStep]_staffVars
  BY StaffStepHolds
<1>2. OwnerStep <=>
        (\A c \in Customers : owner[c] # NoUser /\ owner'[c] # owner[c] =>
           \/ owner'[c] = NoUser /\ role'[owner[c]] = "NONE"
           \/ \E d \in Desks : /\ desk[d].pc = "assignTx"
                               /\ desk[d].c = c
                               /\ desk[d].as = "ADMIN" \/ desk[d].from = NoUser
           \/ \E d \in Desks : desk[d].pc = "import" /\ desk[d].c = c /\ c \in listed')
  BY DEF OwnerStep
<1> QED
  BY <1>1, <1>2, StaffHolds, PTL DEF StaffSpec, OwnedCustomerIsAdmins
=============================================================================
