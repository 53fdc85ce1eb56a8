----------------------------- MODULE MeetingDesk -----------------------------
(***************************************************************************)
(* Meetings and their minutes (MoM): meetings.service.ts, and the mail to  *)
(* the customer that follows (sendMomToCustomer of the e-mail service).    *)
(*                                                                         *)
(* Each write transaction also sets a denormalised column of the account   *)
(* (last_meeting_date, last_mom_date), which the alerts are read off.  The *)
(* mail goes out after the commit and is never part of it; the deletion    *)
(* recomputes the columns from rows that a concurrent handler may be about *)
(* to change (READ COMMITTED).                                             *)
(***************************************************************************)
EXTENDS Integers, FiniteSets, FiniteSetsExt

CONSTANTS
  Clients,        \* accounts
  NoClient,       \* the account of a meeting not yet written
  MaxMeetings,    \* bound: meetings ever written
  Secretaries,    \* requests in flight
  LastDate,       \* bound: last day of the calendar
  Booked,         \* bound: the days meetings are scheduled for
  MaxMoms,        \* bound: minutes recorded for one meeting
  MaxMailFaults,  \* bound: lost calls and restarts
  MailOn          \* NOTIFY_MOM_TO_CUSTOMER_ENABLED

ASSUME MeetingAssumption ==
  /\ NoClient \notin Clients
  /\ MaxMeetings \in Nat
  /\ LastDate \in Nat
  /\ Booked \subseteq 0..LastDate
  /\ MaxMoms \in Nat
  /\ MaxMailFaults \in Nat
  /\ IsFiniteSet(Secretaries)
  /\ MailOn \in BOOLEAN

VARIABLES
  meeting,      \* meetings, by insertion order
  lastMeeting,  \* accounts.last_meeting_date
  lastMom,      \* accounts.last_mom_date
  heldLog,      \* HELD audit entries: the account and the date they name
  moms,         \* MOM_SENT audit entries of each meeting
  momLog,       \* ... and the account and the date they name
  mails,        \* mails a customer got about each meeting
  outcomes,     \* NOTIFY_MOM_TO_CUSTOMER audit entries of each meeting
  secretary,    \* the handlers in flight
  date,         \* the calendar
  mailFaults    \* lost calls and restarts so far

meetingVars == <<meeting, lastMeeting, lastMom, heldLog, moms, momLog, mails, outcomes,
                 secretary, date, mailFaults>>

Meetings == 1..MaxMeetings
NoDate == -1
Dates == 0..LastDate

NoMeeting == [state |-> "NONE", a |-> NoClient, scheduled |-> NoDate, held |-> NoDate,
              mom |-> NoDate]

MeetingRow ==
  [state : {"NONE", "LIVE", "GONE"}, a : Clients \cup {NoClient}, scheduled : Dates \cup {NoDate},
   held : Dates \cup {NoDate}, mom : Dates \cup {NoDate}]

SecretaryJob ==
  [pc : {"rest", "complete", "delete", "mail", "outcome"}, m : Meetings \cup {0},
   a : Clients \cup {NoClient}, held : Dates \cup {NoDate}, mom : Dates \cup {NoDate}]

AtRest == [pc |-> "rest", m |-> 0, a |-> NoClient, held |-> NoDate, mom |-> NoDate]

Live(m) == meeting[m].state = "LIVE"
Written == {m \in Meetings : meeting[m].state # "NONE"}
Busy(k, pc) == secretary[k].pc = pc
Turn(k, job) == secretary' = [secretary EXCEPT ![k] = job]
Rest(k) == Turn(k, AtRest)

\* A deletion in progress holds the row: updates wait for it, and then fail.
Locked(m) == \E k \in Secretaries : Busy(k, "delete") /\ secretary[k].m = m

\* The HELD entry of an audit, and the columns it comes with.
Held(a, day) ==
  /\ lastMeeting' = [lastMeeting EXCEPT ![a] = day]
  /\ heldLog' = heldLog \cup {<<a, day>>}

\* The minutes are recorded: column, MOM_SENT entry, and a mail to follow.
MomRecorded(k, m, a, day) ==
  /\ lastMom' = [lastMom EXCEPT ![a] = day]
  /\ momLog' = momLog \cup {<<a, day>>}
  /\ moms' = [moms EXCEPT ![m] = @ + 1]
  /\ Turn(k, [AtRest EXCEPT !.pc = "mail", !.m = m, !.a = a])

\* The bound on minutes: a completion in flight keeps its place.
RoomForMom(m) ==
  moms[m] + Cardinality({k \in Secretaries : Busy(k, "complete") /\ secretary[k].m = m}) < MaxMoms

NewMeeting(a, scheduled, held, mom) ==
  \E m \in Meetings :
    /\ m = Cardinality(Written) + 1
    /\ meeting' = [meeting EXCEPT ![m] =
         [state |-> "LIVE", a |-> a, scheduled |-> scheduled, held |-> held, mom |-> mom]]

-----------------------------------------------------------------------------
(* log(), markHeld(), sendMomEmail(), submitMom(): one transaction each    *)

LogMeeting(k, a, scheduled) ==
  /\ secretary[k] = AtRest
  /\ NewMeeting(a, scheduled, NoDate, NoDate)
  /\ UNCHANGED <<lastMeeting, lastMom, heldLog, moms, momLog, mails, outcomes, secretary,
                 date, mailFaults>>

\* Any date will do, the account's column follows it back as well as forth.
MarkHeld(k, m, heldAt) ==
  /\ secretary[k] = AtRest
  /\ Live(m) /\ ~Locked(m)
  /\ meeting' = [meeting EXCEPT ![m] = [@ EXCEPT !.held = heldAt]]
  /\ Held(meeting[m].a, heldAt)
  /\ UNCHANGED <<lastMom, moms, momLog, mails, outcomes, secretary, date, mailFaults>>

\* The meeting, held when it was scheduled, and its minutes in one go.
SendMomEmail(k, a, scheduled) ==
  LET m == Cardinality(Written) + 1 IN
  /\ secretary[k] = AtRest
  /\ NewMeeting(a, scheduled, scheduled, date)
  /\ RoomForMom(m)
  /\ Held(a, scheduled)
  /\ MomRecorded(k, m, a, date)
  /\ UNCHANGED <<mails, outcomes, date, mailFaults>>

\* Minutes of a meeting, held or not.
SubmitMom(k, m) ==
  /\ secretary[k] = AtRest
  /\ Live(m) /\ ~Locked(m)
  /\ RoomForMom(m)
  /\ meeting' = [meeting EXCEPT ![m] = [@ EXCEPT !.mom = date]]
  /\ MomRecorded(k, m, meeting[m].a, date)
  /\ UNCHANGED <<lastMeeting, heldLog, mails, outcomes, date, mailFaults>>

-----------------------------------------------------------------------------
(* completeMeeting(): what it read before the transaction decides the date *)

CompleteRead(k, m) ==
  /\ secretary[k] = AtRest
  /\ Live(m)
  /\ RoomForMom(m)
  /\ Turn(k, [AtRest EXCEPT !.pc = "complete", !.m = m, !.held = meeting[m].held])
  /\ UNCHANGED <<meeting, lastMeeting, lastMom, heldLog, moms, momLog, mails, outcomes, date,
                 mailFaults>>

\* Mutant of CompleteTx: the HELD entry left to markHeld().
CompleteTxUnlogged(k) ==
  LET m == secretary[k].m
      heldAt == IF secretary[k].held # NoDate THEN secretary[k].held ELSE meeting[m].scheduled
  IN
  /\ Busy(k, "complete")
  /\ Live(m) /\ ~Locked(m)
  /\ meeting' = [meeting EXCEPT ![m] = [@ EXCEPT !.held = heldAt, !.mom = date]]
  /\ lastMeeting' = [lastMeeting EXCEPT ![meeting[m].a] = heldAt]
  /\ MomRecorded(k, m, meeting[m].a, date)
  /\ UNCHANGED <<heldLog, mails, outcomes, date, mailFaults>>

\* A held date that was set meanwhile is written over with the older one; the
\* HELD entry is only for a meeting that had none.
CompleteTx(k) ==
  LET m == secretary[k].m
      seen == secretary[k].held
      heldAt == IF seen # NoDate THEN seen ELSE meeting[m].scheduled
  IN
  /\ Busy(k, "complete")
  /\ Live(m) /\ ~Locked(m)
  /\ meeting' = [meeting EXCEPT ![m] = [@ EXCEPT !.held = heldAt, !.mom = date]]
  /\ lastMeeting' = [lastMeeting EXCEPT ![meeting[m].a] = heldAt]
  /\ heldLog' = IF seen = NoDate THEN heldLog \cup {<<meeting[m].a, heldAt>>} ELSE heldLog
  /\ MomRecorded(k, m, meeting[m].a, date)
  /\ UNCHANGED <<mails, outcomes, date, mailFaults>>

\* The meeting is gone: the update fails, nothing is written.
CompleteTooLate(k) ==
  /\ Busy(k, "complete")
  /\ ~Live(secretary[k].m)
  /\ Rest(k)
  /\ UNCHANGED <<meeting, lastMeeting, lastMom, heldLog, moms, momLog, mails, outcomes, date,
                 mailFaults>>

-----------------------------------------------------------------------------
(* remove(): delete, recompute from what is left, write                    *)

\* The meetings of a that the recomputation sees.
Left(a, m) == {n \in Meetings \ {m} : Live(n) /\ meeting[n].a = a}

Newest(days) == IF days = {} THEN NoDate ELSE Max(days)

\* The row is deleted inside the transaction (locked from here on), and the
\* newest dates of the others are read ...
RemoveSelect(k, m) ==
  LET a == meeting[m].a IN
  /\ secretary[k] = AtRest
  /\ Live(m) /\ ~Locked(m)
  /\ Turn(k, [AtRest EXCEPT !.pc = "delete", !.m = m, !.a = a,
                            !.held = Newest({meeting[n].held : n \in Left(a, m)}),
                            !.mom = Newest({meeting[n].mom : n \in Left(a, m)})])
  /\ UNCHANGED <<meeting, lastMeeting, lastMom, heldLog, moms, momLog, mails, outcomes, date,
                 mailFaults>>

\* ... and written with the commit, whatever the others have become.
RemoveCommit(k) ==
  LET q == secretary[k] IN
  /\ Busy(k, "delete")
  /\ meeting' = [meeting EXCEPT ![q.m] = [@ EXCEPT !.state = "GONE"]]
  /\ lastMeeting' = [lastMeeting EXCEPT ![q.a] = q.held]
  /\ lastMom' = [lastMom EXCEPT ![q.a] = q.mom]
  /\ Rest(k)
  /\ UNCHANGED <<heldLog, moms, momLog, mails, outcomes, date, mailFaults>>

-----------------------------------------------------------------------------
(* sendMomToCustomer(), after the commit: it never throws                  *)

\* Mutant of SendMail: no trace of a mail that was not sent.
SendMailOnly(k) ==
  LET m == secretary[k].m IN
  /\ Busy(k, "mail")
  /\ \/ /\ MailOn
        /\ mails' = [mails EXCEPT ![m] = @ + 1]
        /\ Turn(k, [secretary[k] EXCEPT !.pc = "outcome"])
     \/ /\ Rest(k)
        /\ UNCHANGED mails
  /\ UNCHANGED <<meeting, lastMeeting, lastMom, heldLog, moms, momLog, outcomes, date, mailFaults>>

\* SENT; or FAILED, MISCONFIGURED (no address), SKIPPED (switched off, test
\* mode), which send nothing.
SendMail(k) ==
  LET m == secretary[k].m IN
  /\ Busy(k, "mail")
  /\ \/ /\ MailOn
        /\ mails' = [mails EXCEPT ![m] = @ + 1]
        /\ Turn(k, [secretary[k] EXCEPT !.pc = "outcome"])
     \/ /\ Turn(k, [secretary[k] EXCEPT !.pc = "outcome"])
        /\ UNCHANGED mails
  /\ UNCHANGED <<meeting, lastMeeting, lastMom, heldLog, moms, momLog, outcomes, date, mailFaults>>

AuditOutcome(k) ==
  LET m == secretary[k].m IN
  /\ Busy(k, "outcome")
  /\ outcomes' = [outcomes EXCEPT ![m] = @ + 1]
  /\ Rest(k)
  /\ UNCHANGED <<meeting, lastMeeting, lastMom, heldLog, moms, momLog, mails, date, mailFaults>>

-----------------------------------------------------------------------------
\* A database call throws (the one of writeAudit is swallowed), a transaction is
\* rolled back, or the process restarts: the handler ends where it is.
HandlerLost(k) ==
  /\ mailFaults < MaxMailFaults
  /\ secretary[k] # AtRest
  /\ Rest(k)
  /\ mailFaults' = mailFaults + 1
  /\ UNCHANGED <<meeting, lastMeeting, lastMom, heldLog, moms, momLog, mails, outcomes, date>>

NextDate ==
  /\ date < LastDate
  /\ date' = date + 1
  /\ UNCHANGED <<meeting, lastMeeting, lastMom, heldLog, moms, momLog, mails, outcomes,
                 secretary, mailFaults>>

MeetingInit ==
  /\ meeting = [m \in Meetings |-> NoMeeting]
  /\ lastMeeting = [a \in Clients |-> NoDate]
  /\ lastMom = [a \in Clients |-> NoDate]
  /\ heldLog = {}
  /\ moms = [m \in Meetings |-> 0]
  /\ momLog = {}
  /\ mails = [m \in Meetings |-> 0]
  /\ outcomes = [m \in Meetings |-> 0]
  /\ secretary = [k \in Secretaries |-> AtRest]
  /\ date = 0
  /\ mailFaults = 0

MeetingArrival(k) ==
  \/ \E a \in Clients, day \in Booked : LogMeeting(k, a, day) \/ SendMomEmail(k, a, day)
  \/ \E m \in Meetings, day \in Dates : MarkHeld(k, m, day)
  \/ \E m \in Meetings : SubmitMom(k, m) \/ CompleteRead(k, m) \/ RemoveSelect(k, m)

MeetingStep(k) ==
  \/ CompleteTx(k)
  \/ CompleteTooLate(k)
  \/ RemoveCommit(k)
  \/ SendMail(k)
  \/ AuditOutcome(k)

MeetingNext ==
  \/ \E k \in Secretaries : MeetingArrival(k) \/ MeetingStep(k) \/ HandlerLost(k)
  \/ NextDate

MeetingSpec == MeetingInit /\ [][MeetingNext]_meetingVars

-----------------------------------------------------------------------------
(* Properties                                                              *)

MeetingTypeOK ==
  /\ meeting \in [Meetings -> MeetingRow]
  /\ lastMeeting \in [Clients -> Dates \cup {NoDate}]
  /\ lastMom \in [Clients -> Dates \cup {NoDate}]
  /\ heldLog \subseteq Clients \X Dates
  /\ moms \in [Meetings -> Nat]
  /\ momLog \subseteq Clients \X Dates
  /\ mails \in [Meetings -> Nat]
  /\ outcomes \in [Meetings -> Nat]
  /\ secretary \in [Secretaries -> SecretaryJob]
  /\ date \in Dates
  /\ mailFaults \in Nat

\* Whatever order meetings are completed, re-dated and deleted in, and whatever
\* stale read a handler writes back, the dates an account shows are dates the
\* audit log has for it: no last meeting without its HELD entry, no last minutes
\* without their MOM_SENT entry.
ShownDatesAreAudited ==
  \A a \in Clients :
    /\ lastMeeting[a] # NoDate => <<a, lastMeeting[a]>> \in heldLog
    /\ lastMom[a] # NoDate => <<a, lastMom[a]>> \in momLog

\* The handlers that still owe meeting m its NOTIFY entry.
Owing(m) == {k \in Secretaries : secretary[k].pc \in {"mail", "outcome"} /\ secretary[k].m = m}

\* "Every call writes a NOTIFY_* audit_log row": each MoM recorded has its outcome
\* or a handler about to write it, but for one per lost call; and no customer is
\* mailed more often than minutes were recorded.
EveryMomIsAccountedFor ==
  \A m \in Meetings :
    /\ moms[m] <= outcomes[m] + Cardinality(Owing(m)) + mailFaults
    /\ outcomes[m] + Cardinality(Owing(m)) <= moms[m]
    /\ mails[m] + Cardinality({k \in Owing(m) : Busy(k, "mail")}) <= moms[m]
=============================================================================
