----------------------------- MODULE OfficeProofs -----------------------------
(***************************************************************************)
(* Proofs about the desks of MCOffice: those about the meetings, the audit *)
(* feed, the leads and the calendar, and that the office is its desks side *)
(* by side, so that what holds of a desk alone holds of it in the office.  *)
(***************************************************************************)
EXTENDS MCOffice, StaffDeskProofs, WorkbooksProofs, FiniteSetTheorems, WellFoundedInduction, TLAPS

-----------------------------------------------------------------------------
(***************************************************************************)
(* MeetingDesk, for any accounts, handlers, minutes and faults.            *)
(*                                                                         *)
(* The dates: whatever a handler carries over an await is a date with its  *)
(* audit entry for the account it is written to (Knows); entries are never *)
(* withdrawn and a meeting never changes its account.  The minutes:        *)
(* counting the handlers that still owe an entry, one step moves one       *)
(* handler (TurnCounts).                                                   *)
(***************************************************************************)

MeetingsInOrder == \E n \in 0..MaxMeetings : Written = 1..n

RowAudited(m) ==
  /\ meeting[m].a \in Clients
  /\ meeting[m].scheduled \in Dates
  /\ meeting[m].held # NoDate => <<meeting[m].a, meeting[m].held>> \in heldLog
  /\ meeting[m].mom # NoDate => <<meeting[m].a, meeting[m].mom>> \in momLog

\* What a handler may rely on at each of its awaits.
Knows(q) ==
  /\ q.pc \in {"complete", "delete", "mail", "outcome"} => q.m \in Written
  /\ q.pc = "complete" /\ q.held # NoDate => <<meeting[q.m].a, q.held>> \in heldLog
  /\ q.pc = "delete" => /\ q.a \in Clients
                        /\ q.held # NoDate => <<q.a, q.held>> \in heldLog
                        /\ q.mom # NoDate => <<q.a, q.mom>> \in momLog

DatesInvariant ==
  /\ MeetingTypeOK
  /\ MeetingsInOrder
  /\ \A m \in Written : RowAudited(m)
  /\ ShownDatesAreAudited
  /\ \A k \in Secretaries : Knows(secretary[k])

\* Entries stay, and a meeting stays with its account.
Kept ==
  /\ heldLog \subseteq heldLog'
  /\ momLog \subseteq momLog'
  /\ \A m \in Written : m \in Written' /\ meeting'[m].a = meeting[m].a

-----------------------------------------------------------------------------
(* The newest of some dates                                                *)

LEMMA LeastOfAny ==
  ASSUME NEW S \in SUBSET Nat, S # {}
  PROVE  \E m \in S : \A n \in S : m <= n
<1>1. IsWellFoundedOn(OpToRel(<, Nat), Nat)
  BY NatLessThanWellFounded
<1>2. PICK m \in S : \A n \in S : ~(<<n, m>> \in OpToRel(<, Nat))
  BY <1>1, WFMin
<1>3. \A n \in Nat, k \in Nat : n < k => <<n, k>> \in OpToRel(<, Nat)
  BY DEF OpToRel
<1>4. \A n \in S : ~(n < m)
  BY <1>2, <1>3, Zenon
<1> QED
  BY <1>4

\* The newest date is one of them: a maximum that exists, so a date somebody set.
LEMMA NewestIsOne ==
  ASSUME NEW days \in SUBSET (Dates \cup {NoDate})
  PROVE  Newest(days) \in days \cup {NoDate}
<1>1. CASE days = {}
  BY <1>1 DEF Newest
<1>2. CASE days # {}
  <2> DEFINE gaps == {n \in Nat : \E x \in days : n = LastDate - x}
  <2>1. \A x \in days : x \in Int /\ LastDate - x \in Nat
    BY MeetingAssumption DEF Dates, NoDate
  <2>2. gaps # {} /\ gaps \in SUBSET Nat
    BY <1>2, <2>1
  <2> HIDE DEF gaps
  <2>3. PICK n \in gaps : \A k \in gaps : n <= k
    BY <2>2, LeastOfAny
  <2> USE DEF gaps
  <2>4. PICK x \in days : n = LastDate - x
    BY <2>3
  <2>5. \A y \in days : x >= y
    <3> TAKE y \in days
    <3>1. LastDate - y \in gaps
      BY <2>1
    <3>2. LastDate - x <= LastDate - y
      BY <2>3, <2>4, <3>1
    <3> QED
      BY <2>1, <3>2, MeetingAssumption
  <2>6. Max(days) \in days
    BY <2>4, <2>5 DEF Max
  <2> QED
    BY <1>2, <2>6 DEF Newest
<1> QED
  BY <1>1, <1>2

-----------------------------------------------------------------------------
\* A row nobody has seen.
LEMMA NextMeetingIsNew ==
  ASSUME MeetingsInOrder, NEW m \in Meetings, m = Cardinality(Written) + 1
  PROVE  m \notin Written /\ Written \cup {m} = 1..m
<1>1. PICK n \in 0..MaxMeetings : Written = 1..n
  BY DEF MeetingsInOrder
<1>2. n \in Nat
  BY <1>1, MeetingAssumption
<1>3. Cardinality(Written) = n
  BY <1>1, <1>2, FS_Interval
<1> QED
  BY <1>1, <1>2, <1>3

LEMMA MeetingInitHolds == MeetingInit => DatesInvariant
<1> SUFFICES ASSUME MeetingInit PROVE DatesInvariant
  OBVIOUS
<1>1. NoMeeting \in MeetingRow /\ AtRest \in SecretaryJob
  BY DEF NoMeeting, MeetingRow, AtRest, SecretaryJob
<1>2. MeetingTypeOK
  BY <1>1, MeetingAssumption DEF MeetingInit, MeetingTypeOK, Dates
<1>3. Written = {}
  BY DEF MeetingInit, Written, NoMeeting
<1>4. MeetingsInOrder
  BY <1>3, MeetingAssumption DEF MeetingsInOrder
<1>5. ShownDatesAreAudited
  BY DEF MeetingInit, ShownDatesAreAudited
<1>6. \A k \in Secretaries : Knows(secretary[k])
  BY DEF MeetingInit, Knows, AtRest
<1> QED
  BY <1>2, <1>3, <1>4, <1>5, <1>6 DEF DatesInvariant

\* A handler at rest knows nothing.
LEMMA RestKnows == AtRest \in SecretaryJob /\ Knows(AtRest)
BY DEF AtRest, SecretaryJob, Knows

\* Entries and accounts that stay keep what a handler knows.
LEMMA KnowledgeLasts ==
  ASSUME MeetingTypeOK, NEW q \in SecretaryJob, Knows(q), Kept
  PROVE  Knows(q)'
<1>1. q.pc \in {"complete", "delete", "mail", "outcome"} => q.m \in Written'
  BY DEF Knows, Kept
<1>2. q.pc = "complete" /\ q.held # NoDate => <<meeting'[q.m].a, q.held>> \in heldLog'
  BY DEF Knows, Kept
<1>3. q.pc = "delete" => /\ q.a \in Clients
                         /\ q.held # NoDate => <<q.a, q.held>> \in heldLog'
                         /\ q.mom # NoDate => <<q.a, q.mom>> \in momLog'
  BY DEF Knows, Kept
<1> QED
  BY <1>1, <1>2, <1>3 DEF Knows

LEMMA DatesStep ==
  ASSUME DatesInvariant, MeetingTypeOK', Kept, MeetingsInOrder', ShownDatesAreAudited',
         \A m \in Written' : RowAudited(m)',
         \A k \in Secretaries : secretary'[k] = secretary[k] \/ Knows(secretary[k])'
  PROVE  DatesInvariant'
<1>1. ASSUME NEW k \in Secretaries, secretary'[k] = secretary[k] PROVE Knows(secretary[k])'
  <2>1. PICK q \in SecretaryJob : q = secretary[k] /\ q = secretary'[k]
    BY <1>1 DEF DatesInvariant, MeetingTypeOK
  <2>2. Knows(q)'
    BY <2>1, KnowledgeLasts DEF DatesInvariant
  <2> QED
    BY <2>1, <2>2 DEF Knows
<1> QED
  BY <1>1 DEF DatesInvariant

\* One row is written, with dates that have their entries.
LEMMA OneRow ==
  ASSUME DatesInvariant, NEW m \in Meetings, NEW row \in MeetingRow, row.state # "NONE",
         meeting' = [meeting EXCEPT ![m] = row],
         heldLog \subseteq heldLog', momLog \subseteq momLog',
         m \in Written => row.a = meeting[m].a,
         row.a \in Clients, row.scheduled \in Dates,
         row.held # NoDate => <<row.a, row.held>> \in heldLog',
         row.mom # NoDate => <<row.a, row.mom>> \in momLog'
  PROVE  /\ meeting' \in [Meetings -> MeetingRow]
         /\ Kept
         /\ \A n \in Written' : RowAudited(n)'
         /\ Written' = Written \cup {m}
<1>1. meeting' \in [Meetings -> MeetingRow] /\ meeting'[m] = row
      /\ \A n \in Meetings \ {m} : meeting'[n] = meeting[n]
  BY DEF DatesInvariant, MeetingTypeOK
<1>2. Written' = Written \cup {m}
  BY <1>1 DEF Written
<1>3. Kept
  BY <1>1, <1>2 DEF Kept, Written
<1>4. \A n \in Written' : RowAudited(n)'
  BY <1>1, <1>2 DEF DatesInvariant, RowAudited, Written
<1> QED
  BY <1>1, <1>2, <1>3, <1>4

\* A step that leaves meetings, columns and log alone.
LEMMA QuietMeeting ==
  ASSUME DatesInvariant, NEW k \in Secretaries, NEW job \in SecretaryJob,
         Turn(k, job), Knows(job),
         UNCHANGED <<meeting, lastMeeting, lastMom, heldLog, momLog>>,
         moms' \in [Meetings -> Nat], mails' \in [Meetings -> Nat],
         outcomes' \in [Meetings -> Nat], date' \in Dates, mailFaults' \in Nat
  PROVE  DatesInvariant'
<1>1. MeetingTypeOK'
  BY DEF DatesInvariant, MeetingTypeOK, Turn
<1>2. Kept /\ MeetingsInOrder' /\ ShownDatesAreAudited' /\ \A m \in Written' : RowAudited(m)'
  BY DEF DatesInvariant, Kept, MeetingsInOrder, ShownDatesAreAudited, RowAudited, Written
<1>3. \A j \in Secretaries : secretary'[j] = secretary[j] \/ Knows(secretary[j])'
  BY DEF DatesInvariant, MeetingTypeOK, Turn, Knows, Written
<1> QED
  BY <1>1, <1>2, <1>3, DatesStep

\* A row written in place: the meetings in order stay so.
LEMMA OrderStays ==
  ASSUME MeetingsInOrder, NEW m \in Written, Written' = Written \cup {m}
  PROVE  MeetingsInOrder'
BY DEF MeetingsInOrder

\* A row appended.
LEMMA OrderGrows ==
  ASSUME MeetingsInOrder, NEW m \in Meetings, m = Cardinality(Written) + 1,
         Written' = Written \cup {m}
  PROVE  MeetingsInOrder'
<1>1. Written \cup {m} = 1..m
  BY NextMeetingIsNew
<1>2. m \in 0..MaxMeetings
  BY MeetingAssumption DEF Meetings
<1> QED
  BY <1>1, <1>2 DEF MeetingsInOrder

\* A column that is set to a date with its entry, or not at all.
LEMMA ColumnIsAudited ==
  ASSUME NEW col \in [Clients -> Dates \cup {NoDate}], NEW log, NEW newLog, log \subseteq newLog,
         \A a \in Clients : col[a] # NoDate => <<a, col[a]>> \in log,
         NEW c \in Clients, NEW onDay \in Dates \cup {NoDate},
         onDay # NoDate => <<c, onDay>> \in newLog
  PROVE  /\ [col EXCEPT ![c] = onDay] \in [Clients -> Dates \cup {NoDate}]
         /\ \A a \in Clients : [col EXCEPT ![c] = onDay][a] # NoDate =>
              <<a, [col EXCEPT ![c] = onDay][a]>> \in newLog
OBVIOUS

\* What recording minutes does to handler, column and log.
LEMMA MomRecordedHolds ==
  ASSUME DatesInvariant, NEW k \in Secretaries, NEW m \in Meetings, NEW a \in Clients,
         MomRecorded(k, m, a, date), m \in Written'
  PROVE  /\ lastMom' \in [Clients -> Dates \cup {NoDate}]
         /\ \A c \in Clients : lastMom'[c] # NoDate => <<c, lastMom'[c]>> \in momLog'
         /\ momLog' \subseteq Clients \X Dates /\ momLog \subseteq momLog'
         /\ <<a, date>> \in momLog'
         /\ moms' \in [Meetings -> Nat]
         /\ secretary' \in [Secretaries -> SecretaryJob]
         /\ \A j \in Secretaries : secretary'[j] = secretary[j] \/ Knows(secretary[j])'
<1> DEFINE job == [AtRest EXCEPT !.pc = "mail", !.m = m, !.a = a]
<1>1. /\ MeetingTypeOK /\ ShownDatesAreAudited
      /\ lastMom' = [lastMom EXCEPT ![a] = date]
      /\ momLog' = momLog \cup {<<a, date>>}
      /\ moms' = [moms EXCEPT ![m] = @ + 1]
      /\ secretary' = [secretary EXCEPT ![k] = job]
  BY DEF DatesInvariant, MomRecorded, Turn
<1>2. job \in SecretaryJob /\ job.pc = "mail" /\ job.m = m
  BY DEF AtRest, SecretaryJob
<1> HIDE DEF job
<1>3. date \in Dates /\ date # NoDate
  BY <1>1 DEF MeetingTypeOK, Dates, NoDate
<1>4. lastMom' \in [Clients -> Dates \cup {NoDate}]
      /\ \A c \in Clients : lastMom'[c] # NoDate => <<c, lastMom'[c]>> \in momLog'
  BY <1>1, <1>3 DEF MeetingTypeOK, ShownDatesAreAudited
<1>5. momLog' \subseteq Clients \X Dates /\ momLog \subseteq momLog' /\ <<a, date>> \in momLog'
  BY <1>1, <1>3 DEF MeetingTypeOK
<1>6. moms' \in [Meetings -> Nat]
  BY <1>1 DEF MeetingTypeOK
<1>7. secretary' \in [Secretaries -> SecretaryJob]
  BY <1>1, <1>2 DEF MeetingTypeOK
<1>8. \A j \in Secretaries : secretary'[j] = secretary[j] \/ (j = k /\ secretary'[j] = job)
  BY <1>1 DEF MeetingTypeOK
<1>9. secretary'[k] = job => Knows(secretary[k])'
  BY <1>2 DEF Knows
<1> QED
  BY <1>4, <1>5, <1>6, <1>7, <1>8, <1>9

-----------------------------------------------------------------------------
(* One lemma per transaction                                               *)

LEMMA LogMeetingKeeps ==
  ASSUME DatesInvariant, NEW k \in Secretaries, NEW a \in Clients, NEW onDay \in Booked,
         LogMeeting(k, a, onDay)
  PROVE  DatesInvariant'
<1> DEFINE row == [state |-> "LIVE", a |-> a, scheduled |-> onDay, held |-> NoDate, mom |-> NoDate]
<1>1. PICK m \in Meetings : m = Cardinality(Written) + 1 /\ meeting' = [meeting EXCEPT ![m] = row]
  BY DEF LogMeeting, NewMeeting
<1>2. row \in MeetingRow /\ onDay \in Dates
  BY MeetingAssumption DEF MeetingRow, Dates
<1>3. m \notin Written
  BY <1>1, NextMeetingIsNew DEF DatesInvariant
<1>4. /\ meeting' \in [Meetings -> MeetingRow] /\ Kept
      /\ \A n \in Written' : RowAudited(n)'
      /\ Written' = Written \cup {m}
  BY <1>1, <1>2, <1>3, OneRow DEF LogMeeting
<1>5. MeetingsInOrder'
  BY <1>1, <1>4, OrderGrows DEF DatesInvariant
<1>6. MeetingTypeOK' /\ ShownDatesAreAudited'
  BY <1>4 DEF DatesInvariant, MeetingTypeOK, ShownDatesAreAudited, LogMeeting
<1> QED
  BY <1>4, <1>5, <1>6, DatesStep DEF LogMeeting

LEMMA MarkHeldKeeps ==
  ASSUME DatesInvariant, NEW k \in Secretaries, NEW m \in Meetings, NEW onDay \in Dates,
         MarkHeld(k, m, onDay)
  PROVE  DatesInvariant'
<1> DEFINE row == [meeting[m] EXCEPT !.held = onDay]
<1> DEFINE a == meeting[m].a
<1>1. m \in Written /\ meeting[m] \in MeetingRow /\ RowAudited(m)
  BY DEF MarkHeld, Live, Written, DatesInvariant, MeetingTypeOK
<1>2. a \in Clients /\ onDay # NoDate
  BY <1>1 DEF RowAudited, Dates, NoDate
<1>3. row \in MeetingRow /\ row.state # "NONE" /\ row.a = a /\ row.held = onDay
      /\ row.mom = meeting[m].mom /\ row.scheduled = meeting[m].scheduled
  BY <1>1 DEF MeetingRow, MarkHeld, Live
<1>4. heldLog' = heldLog \cup {<<a, onDay>>} /\ momLog' = momLog
      /\ lastMeeting' = [lastMeeting EXCEPT ![a] = onDay] /\ lastMom' = lastMom
  BY DEF MarkHeld, Held
<1>5. meeting' = [meeting EXCEPT ![m] = row]
  BY DEF MarkHeld
<1> HIDE DEF row
<1>6. /\ meeting' \in [Meetings -> MeetingRow] /\ Kept
      /\ \A n \in Written' : RowAudited(n)'
      /\ Written' = Written \cup {m}
  BY <1>1, <1>2, <1>3, <1>4, <1>5, OneRow DEF RowAudited
<1>7. MeetingsInOrder'
  BY <1>1, <1>6, OrderStays DEF DatesInvariant
<1>8. MeetingTypeOK' /\ ShownDatesAreAudited'
  <2>1. heldLog' \subseteq Clients \X Dates
    BY <1>2, <1>4 DEF DatesInvariant, MeetingTypeOK
  <2>2. lastMeeting' \in [Clients -> Dates \cup {NoDate}]
        /\ \A c \in Clients : lastMeeting'[c] # NoDate => <<c, lastMeeting'[c]>> \in heldLog'
    BY <1>2, <1>4 DEF DatesInvariant, MeetingTypeOK, ShownDatesAreAudited
  <2> QED
    BY <1>4, <1>6, <2>1, <2>2 DEF DatesInvariant, MeetingTypeOK, ShownDatesAreAudited, MarkHeld
<1> QED
  BY <1>6, <1>7, <1>8, DatesStep DEF MarkHeld

LEMMA SubmitMomKeeps ==
  ASSUME DatesInvariant, NEW k \in Secretaries, NEW m \in Meetings, SubmitMom(k, m)
  PROVE  DatesInvariant'
<1> DEFINE row == [meeting[m] EXCEPT !.mom = date]
<1> DEFINE a == meeting[m].a
<1>1. m \in Written /\ meeting[m] \in MeetingRow /\ RowAudited(m)
  BY DEF SubmitMom, Live, Written, DatesInvariant, MeetingTypeOK
<1>2. a \in Clients /\ date \in Dates
  BY <1>1 DEF RowAudited, DatesInvariant, MeetingTypeOK
<1>3. row \in MeetingRow /\ row.state # "NONE" /\ row.a = a /\ row.held = meeting[m].held
      /\ row.mom = date /\ row.scheduled = meeting[m].scheduled
  BY <1>1, <1>2 DEF MeetingRow, SubmitMom, Live
<1>4. heldLog' = heldLog /\ momLog' = momLog \cup {<<a, date>>} /\ lastMeeting' = lastMeeting
      /\ MomRecorded(k, m, a, date)
  BY DEF SubmitMom, MomRecorded
<1>5. meeting' = [meeting EXCEPT ![m] = row]
  BY DEF SubmitMom
<1> HIDE DEF row
<1>6. /\ meeting' \in [Meetings -> MeetingRow] /\ Kept
      /\ \A n \in Written' : RowAudited(n)'
      /\ Written' = Written \cup {m}
  BY <1>1, <1>2, <1>3, <1>4, <1>5, OneRow DEF RowAudited
<1>7. MeetingsInOrder'
  BY <1>1, <1>6, OrderStays DEF DatesInvariant
<1>8. /\ lastMom' \in [Clients -> Dates \cup {NoDate}]
      /\ \A c \in Clients : lastMom'[c] # NoDate => <<c, lastMom'[c]>> \in momLog'
      /\ momLog' \subseteq Clients \X Dates
      /\ moms' \in [Meetings -> Nat]
      /\ secretary' \in [Secretaries -> SecretaryJob]
      /\ \A j \in Secretaries : secretary'[j] = secretary[j] \/ Knows(secretary[j])'
  BY <1>1, <1>2, <1>4, <1>6, MomRecordedHolds
<1>9. MeetingTypeOK' /\ ShownDatesAreAudited'
  BY <1>4, <1>6, <1>8 DEF DatesInvariant, MeetingTypeOK, ShownDatesAreAudited, SubmitMom
<1> QED
  BY <1>6, <1>7, <1>8, <1>9, DatesStep

LEMMA SendMomEmailKeeps ==
  ASSUME DatesInvariant, NEW k \in Secretaries, NEW a \in Clients, NEW onDay \in Booked,
         SendMomEmail(k, a, onDay)
  PROVE  DatesInvariant'
<1> DEFINE row == [state |-> "LIVE", a |-> a, scheduled |-> onDay, held |-> onDay, mom |-> date]
<1>1. PICK m \in Meetings : m = Cardinality(Written) + 1 /\ meeting' = [meeting EXCEPT ![m] = row]
  BY DEF SendMomEmail, NewMeeting
<1>2. onDay \in Dates /\ onDay # NoDate /\ date \in Dates
  <2>1. onDay \in 0..LastDate /\ date \in Dates
    BY MeetingAssumption DEF DatesInvariant, MeetingTypeOK
  <2>2. onDay \in Dates /\ onDay \in Int /\ onDay >= 0
    BY <2>1 DEF Dates
  <2>3. QED
    BY <2>1, <2>2 DEF NoDate
<1>3. row \in MeetingRow
  BY <1>2 DEF MeetingRow
<1>4. m \notin Written
  BY <1>1, NextMeetingIsNew DEF DatesInvariant
<1>5. /\ heldLog' = heldLog \cup {<<a, onDay>>} /\ lastMeeting' = [lastMeeting EXCEPT ![a] = onDay]
      /\ momLog' = momLog \cup {<<a, date>>} /\ MomRecorded(k, m, a, date)
  BY <1>1 DEF SendMomEmail, Held, MomRecorded
<1>6. /\ meeting' \in [Meetings -> MeetingRow] /\ Kept
      /\ \A n \in Written' : RowAudited(n)'
      /\ Written' = Written \cup {m}
  BY <1>1, <1>2, <1>3, <1>4, <1>5, OneRow
<1>7. MeetingsInOrder'
  BY <1>1, <1>6, OrderGrows DEF DatesInvariant
<1>8. /\ lastMom' \in [Clients -> Dates \cup {NoDate}]
      /\ \A c \in Clients : lastMom'[c] # NoDate => <<c, lastMom'[c]>> \in momLog'
      /\ momLog' \subseteq Clients \X Dates
      /\ moms' \in [Meetings -> Nat]
      /\ secretary' \in [Secretaries -> SecretaryJob]
      /\ \A j \in Secretaries : secretary'[j] = secretary[j] \/ Knows(secretary[j])'
  BY <1>5, <1>6, MomRecordedHolds
<1>9. heldLog' \subseteq Clients \X Dates
      /\ lastMeeting' \in [Clients -> Dates \cup {NoDate}]
      /\ \A c \in Clients : lastMeeting'[c] # NoDate => <<c, lastMeeting'[c]>> \in heldLog'
  <2>1. lastMeeting \in [Clients -> Dates \cup {NoDate}]
        /\ \A c \in Clients : lastMeeting[c] # NoDate => <<c, lastMeeting[c]>> \in heldLog
    BY DEF DatesInvariant, MeetingTypeOK, ShownDatesAreAudited
  <2>2. heldLog \subseteq heldLog' /\ <<a, onDay>> \in heldLog'
        /\ lastMeeting' = [lastMeeting EXCEPT ![a] = onDay]
    BY <1>5
  <2>3. heldLog' \subseteq Clients \X Dates
    BY <1>2, <1>5 DEF DatesInvariant, MeetingTypeOK
  <2> QED
    BY <1>2, <2>1, <2>2, <2>3
<1>10. MeetingTypeOK' /\ ShownDatesAreAudited'
  BY <1>6, <1>8, <1>9 DEF DatesInvariant, MeetingTypeOK, ShownDatesAreAudited, SendMomEmail
<1> QED
  BY <1>6, <1>7, <1>8, <1>10, DatesStep

\* The date it read before is a date the log has for this account.
LEMMA CompleteTxKeeps ==
  ASSUME DatesInvariant, NEW k \in Secretaries, CompleteTx(k)
  PROVE  DatesInvariant'
<1> DEFINE m == secretary[k].m
<1> DEFINE seen == secretary[k].held
<1> DEFINE heldAt == IF seen # NoDate THEN seen ELSE meeting[m].scheduled
<1> DEFINE row == [meeting[m] EXCEPT !.held = heldAt, !.mom = date]
<1> DEFINE a == meeting[m].a
<1>1. secretary[k] \in SecretaryJob /\ Knows(secretary[k]) /\ secretary[k].pc = "complete"
  BY DEF CompleteTx, Busy, DatesInvariant, MeetingTypeOK
<1>2. m \in Written /\ m \in Meetings /\ meeting[m] \in MeetingRow /\ RowAudited(m)
  BY <1>1 DEF Knows, Written, DatesInvariant, MeetingTypeOK
<1>3. a \in Clients /\ date \in Dates /\ heldAt \in Dates /\ heldAt # NoDate
  BY <1>1, <1>2 DEF RowAudited, DatesInvariant, MeetingTypeOK, SecretaryJob, Dates, NoDate
<1>4. heldLog' = IF seen = NoDate THEN heldLog \cup {<<a, heldAt>>} ELSE heldLog
  BY DEF CompleteTx
<1>5. heldLog \subseteq heldLog' /\ heldLog' \subseteq Clients \X Dates
  BY <1>3, <1>4 DEF DatesInvariant, MeetingTypeOK
<1>6. <<a, heldAt>> \in heldLog'
  BY <1>1, <1>4 DEF Knows
<1>7. row \in MeetingRow /\ row.state # "NONE" /\ row.a = a /\ row.held = heldAt
      /\ row.mom = date /\ row.scheduled = meeting[m].scheduled
  BY <1>2, <1>3 DEF MeetingRow, CompleteTx, Live
<1>8. /\ momLog' = momLog \cup {<<a, date>>} /\ lastMeeting' = [lastMeeting EXCEPT ![a] = heldAt]
      /\ MomRecorded(k, m, a, date) /\ meeting' = [meeting EXCEPT ![m] = row]
  BY DEF CompleteTx, MomRecorded
<1>9. meeting[m].scheduled \in Dates
  BY <1>2 DEF RowAudited
<1>10. UNCHANGED <<mails, outcomes, date, mailFaults>>
  BY DEF CompleteTx
<1> HIDE DEF row, heldAt, seen, m
<1>11. /\ meeting' \in [Meetings -> MeetingRow] /\ Kept
       /\ \A n \in Written' : RowAudited(n)'
       /\ Written' = Written \cup {m}
  BY <1>2, <1>3, <1>5, <1>6, <1>7, <1>8, <1>9, OneRow
<1>12. MeetingsInOrder'
  BY <1>2, <1>11, OrderStays DEF DatesInvariant
<1>13. /\ lastMom' \in [Clients -> Dates \cup {NoDate}]
       /\ \A c \in Clients : lastMom'[c] # NoDate => <<c, lastMom'[c]>> \in momLog'
       /\ momLog' \subseteq Clients \X Dates
       /\ moms' \in [Meetings -> Nat]
       /\ secretary' \in [Secretaries -> SecretaryJob]
       /\ \A j \in Secretaries : secretary'[j] = secretary[j] \/ Knows(secretary[j])'
  BY <1>2, <1>3, <1>8, <1>11, MomRecordedHolds
<1>14. lastMeeting' \in [Clients -> Dates \cup {NoDate}]
       /\ \A c \in Clients : lastMeeting'[c] # NoDate => <<c, lastMeeting'[c]>> \in heldLog'
  BY <1>3, <1>5, <1>6, <1>8 DEF DatesInvariant, MeetingTypeOK, ShownDatesAreAudited
<1>15. MeetingTypeOK' /\ ShownDatesAreAudited'
  BY <1>5, <1>10, <1>11, <1>13, <1>14 DEF DatesInvariant, MeetingTypeOK, ShownDatesAreAudited
<1> QED
  BY <1>11, <1>12, <1>13, <1>15, DatesStep

LEMMA RemoveSelectKeeps ==
  ASSUME DatesInvariant, NEW k \in Secretaries, NEW m \in Meetings, RemoveSelect(k, m)
  PROVE  DatesInvariant'
<1> DEFINE a == meeting[m].a
<1> DEFINE held == {meeting[n].held : n \in Left(a, m)}
<1> DEFINE mom == {meeting[n].mom : n \in Left(a, m)}
<1> DEFINE job == [AtRest EXCEPT !.pc = "delete", !.m = m, !.a = a, !.held = Newest(held),
                                 !.mom = Newest(mom)]
<1>1. m \in Written /\ a \in Clients
  BY DEF RemoveSelect, Live, Written, DatesInvariant, RowAudited
<1>2. \A n \in Left(a, m) : /\ n \in Written /\ meeting[n] \in MeetingRow /\ RowAudited(n)
                            /\ meeting[n].a = a
  BY DEF Left, Live, Written, DatesInvariant, MeetingTypeOK
<1>3. held \in SUBSET (Dates \cup {NoDate}) /\ mom \in SUBSET (Dates \cup {NoDate})
  BY <1>2 DEF MeetingRow
<1>4. Newest(held) \in held \cup {NoDate} /\ Newest(mom) \in mom \cup {NoDate}
  BY <1>3, NewestIsOne
<1>5. Newest(held) # NoDate => <<a, Newest(held)>> \in heldLog
  <2> SUFFICES ASSUME Newest(held) # NoDate PROVE <<a, Newest(held)>> \in heldLog
    OBVIOUS
  <2>1. PICK n \in Left(a, m) : Newest(held) = meeting[n].held
    BY <1>4
  <2> QED
    BY <2>1, <1>2 DEF RowAudited
<1>6. Newest(mom) # NoDate => <<a, Newest(mom)>> \in momLog
  <2> SUFFICES ASSUME Newest(mom) # NoDate PROVE <<a, Newest(mom)>> \in momLog
    OBVIOUS
  <2>1. PICK n \in Left(a, m) : Newest(mom) = meeting[n].mom
    BY <1>4
  <2> QED
    BY <2>1, <1>2 DEF RowAudited
<1>7. Newest(held) \in Dates \cup {NoDate} /\ Newest(mom) \in Dates \cup {NoDate}
  BY <1>3, <1>4
<1>8. Turn(k, job) /\ UNCHANGED <<meeting, lastMeeting, lastMom, heldLog, moms, momLog, mails,
                                   outcomes, date, mailFaults>>
  BY DEF RemoveSelect
<1> HIDE DEF held, mom
<1>9. job \in SecretaryJob /\ job.pc = "delete" /\ job.m = m /\ job.a = a
      /\ job.held = Newest(held) /\ job.mom = Newest(mom)
  BY <1>1, <1>7 DEF AtRest, SecretaryJob
<1> HIDE DEF job
<1>10. Knows(job)
  BY <1>1, <1>5, <1>6, <1>9 DEF Knows
<1> QED
  BY <1>8, <1>9, <1>10, QuietMeeting DEF DatesInvariant, MeetingTypeOK

LEMMA RemoveCommitKeeps ==
  ASSUME DatesInvariant, NEW k \in Secretaries, RemoveCommit(k)
  PROVE  DatesInvariant'
<1> DEFINE q == secretary[k]
<1> DEFINE row == [meeting[q.m] EXCEPT !.state = "GONE"]
<1>1. q \in SecretaryJob /\ Knows(q) /\ q.pc = "delete"
  BY DEF RemoveCommit, Busy, DatesInvariant, MeetingTypeOK
<1>2. q.m \in Written /\ q.m \in Meetings /\ meeting[q.m] \in MeetingRow /\ RowAudited(q.m)
  BY <1>1 DEF Knows, Written, DatesInvariant, MeetingTypeOK
<1>3. /\ q.a \in Clients /\ q.held \in Dates \cup {NoDate} /\ q.mom \in Dates \cup {NoDate}
      /\ q.held # NoDate => <<q.a, q.held>> \in heldLog
      /\ q.mom # NoDate => <<q.a, q.mom>> \in momLog
  BY <1>1 DEF Knows, SecretaryJob
<1>4. row \in MeetingRow /\ row.state # "NONE" /\ row.a = meeting[q.m].a
      /\ row.held = meeting[q.m].held /\ row.mom = meeting[q.m].mom
      /\ row.scheduled = meeting[q.m].scheduled
  BY <1>2 DEF MeetingRow
<1>5. /\ meeting' = [meeting EXCEPT ![q.m] = row]
      /\ lastMeeting' = [lastMeeting EXCEPT ![q.a] = q.held]
      /\ lastMom' = [lastMom EXCEPT ![q.a] = q.mom]
      /\ secretary' = [secretary EXCEPT ![k] = AtRest]
      /\ UNCHANGED <<heldLog, moms, momLog, mails, outcomes, date, mailFaults>>
  BY DEF RemoveCommit, Rest, Turn
<1> HIDE DEF row, q
<1>6. /\ meeting' \in [Meetings -> MeetingRow] /\ Kept
      /\ \A n \in Written' : RowAudited(n)'
      /\ Written' = Written \cup {q.m}
  BY <1>2, <1>4, <1>5, OneRow DEF RowAudited
<1>7. MeetingsInOrder'
  BY <1>2, <1>6, OrderStays DEF DatesInvariant
<1>8. /\ lastMeeting' \in [Clients -> Dates \cup {NoDate}]
      /\ \A c \in Clients : lastMeeting'[c] # NoDate => <<c, lastMeeting'[c]>> \in heldLog'
  BY <1>3, <1>5 DEF DatesInvariant, MeetingTypeOK, ShownDatesAreAudited
<1>9. /\ lastMom' \in [Clients -> Dates \cup {NoDate}]
      /\ \A c \in Clients : lastMom'[c] # NoDate => <<c, lastMom'[c]>> \in momLog'
  BY <1>3, <1>5 DEF DatesInvariant, MeetingTypeOK, ShownDatesAreAudited
<1>10. secretary' \in [Secretaries -> SecretaryJob]
       /\ \A j \in Secretaries : secretary'[j] = secretary[j] \/ secretary'[j] = AtRest
  BY <1>5, RestKnows DEF DatesInvariant, MeetingTypeOK
<1>11. \A j \in Secretaries : secretary'[j] = secretary[j] \/ Knows(secretary[j])'
  BY <1>10 DEF Knows, AtRest
<1>12. MeetingTypeOK' /\ ShownDatesAreAudited'
  BY <1>5, <1>6, <1>8, <1>9, <1>10 DEF DatesInvariant, MeetingTypeOK, ShownDatesAreAudited
<1> QED
  BY <1>6, <1>7, <1>11, <1>12, DatesStep

\* The steps that touch no meeting, no column and no log of dates.
LEMMA QuietStepsKeep ==
  ASSUME DatesInvariant, NEW k \in Secretaries
  PROVE  /\ CompleteTooLate(k) => DatesInvariant'
         /\ SendMail(k) => DatesInvariant'
         /\ AuditOutcome(k) => DatesInvariant'
         /\ HandlerLost(k) => DatesInvariant'
         /\ \A m \in Meetings : CompleteRead(k, m) => DatesInvariant'
<1>1. MeetingTypeOK /\ secretary[k] \in SecretaryJob /\ Knows(secretary[k])
  BY DEF DatesInvariant, MeetingTypeOK
<1>2. AtRest \in SecretaryJob /\ Knows(AtRest)
  BY RestKnows
<1>3. CompleteTooLate(k) => DatesInvariant'
  BY <1>1, <1>2, QuietMeeting DEF CompleteTooLate, Rest, MeetingTypeOK
<1>4. SendMail(k) => DatesInvariant'
  <2> DEFINE job == [secretary[k] EXCEPT !.pc = "outcome"]
  <2> SUFFICES ASSUME SendMail(k) PROVE DatesInvariant'
    OBVIOUS
  <2>1. job \in SecretaryJob /\ job.pc = "outcome" /\ job.m = secretary[k].m
    BY <1>1 DEF SecretaryJob
  <2>2. Turn(k, job) /\ secretary[k].pc = "mail" /\ mails' \in [Meetings -> Nat]
        /\ UNCHANGED <<meeting, lastMeeting, lastMom, heldLog, moms, momLog, outcomes, date, mailFaults>>
    BY <1>1 DEF SendMail, Busy, MeetingTypeOK
  <2>3. Knows(job)
    BY <1>1, <2>1, <2>2 DEF Knows
  <2> HIDE DEF job
  <2> QED
    BY <1>1, <2>1, <2>2, <2>3, QuietMeeting DEF MeetingTypeOK
<1>5. AuditOutcome(k) => DatesInvariant'
  <2> SUFFICES ASSUME AuditOutcome(k) PROVE DatesInvariant'
    OBVIOUS
  <2>1. outcomes' \in [Meetings -> Nat]
    <3>1. secretary[k].m \in Meetings
      BY <1>1 DEF AuditOutcome, Busy, Knows, Written
    <3> QED
      BY <1>1, <3>1 DEF AuditOutcome, MeetingTypeOK
  <2>2. Turn(k, AtRest) /\ UNCHANGED <<meeting, lastMeeting, lastMom, heldLog, moms, momLog, mails,
                                       date, mailFaults>>
    BY DEF AuditOutcome, Rest
  <2> QED
    BY <1>1, <1>2, <2>1, <2>2, QuietMeeting DEF MeetingTypeOK
<1>6. HandlerLost(k) => DatesInvariant'
  BY <1>1, <1>2, QuietMeeting DEF HandlerLost, Rest, MeetingTypeOK
<1>7. ASSUME NEW m \in Meetings, CompleteRead(k, m) PROVE DatesInvariant'
  <2> DEFINE job == [AtRest EXCEPT !.pc = "complete", !.m = m, !.held = meeting[m].held]
  <2>1. m \in Written /\ meeting[m] \in MeetingRow /\ RowAudited(m)
    BY <1>7 DEF CompleteRead, Live, Written, DatesInvariant, MeetingTypeOK
  <2>2. job \in SecretaryJob /\ job.pc = "complete" /\ job.m = m /\ job.held = meeting[m].held
    BY <2>1 DEF AtRest, SecretaryJob, MeetingRow
  <2>3. Turn(k, job) /\ UNCHANGED <<meeting, lastMeeting, lastMom, heldLog, moms, momLog, mails,
                                    outcomes, date, mailFaults>>
    BY <1>7 DEF CompleteRead
  <2> HIDE DEF job
  <2>4. Knows(job)
    BY <2>1, <2>2 DEF Knows, RowAudited
  <2> QED
    BY <1>1, <2>2, <2>3, <2>4, QuietMeeting DEF MeetingTypeOK
<1> QED
  BY <1>3, <1>4, <1>5, <1>6, <1>7

\* The dates survive whatever happens.
LEMMA DatesKept ==
  ASSUME DatesInvariant, [MeetingNext]_meetingVars
  PROVE  DatesInvariant'
<1>1. CASE UNCHANGED meetingVars
  <2>1. MeetingTypeOK' /\ Kept /\ MeetingsInOrder' /\ ShownDatesAreAudited'
        /\ \A m \in Written' : RowAudited(m)'
    BY <1>1 DEF meetingVars, DatesInvariant, MeetingTypeOK, Kept, MeetingsInOrder,
                ShownDatesAreAudited, RowAudited, Written
  <2> QED
    BY <1>1, <2>1, DatesStep DEF meetingVars
<1>2. CASE NextDate
  <2>1. MeetingTypeOK' /\ Kept /\ MeetingsInOrder' /\ ShownDatesAreAudited'
        /\ \A m \in Written' : RowAudited(m)'
    BY <1>2, MeetingAssumption DEF NextDate, DatesInvariant, MeetingTypeOK, Kept, MeetingsInOrder,
                ShownDatesAreAudited, RowAudited, Written, Dates
  <2> QED
    BY <1>2, <2>1, DatesStep DEF NextDate
<1>3. ASSUME NEW k \in Secretaries, MeetingArrival(k) PROVE DatesInvariant'
  BY <1>3, LogMeetingKeeps, SendMomEmailKeeps, MarkHeldKeeps, SubmitMomKeeps, QuietStepsKeep,
     RemoveSelectKeeps DEF MeetingArrival
<1>4. ASSUME NEW k \in Secretaries, MeetingStep(k) PROVE DatesInvariant'
  BY <1>4, CompleteTxKeeps, RemoveCommitKeeps, QuietStepsKeep DEF MeetingStep
<1>5. ASSUME NEW k \in Secretaries, HandlerLost(k) PROVE DatesInvariant'
  BY <1>5, QuietStepsKeep
<1> QED
  BY <1>1, <1>2, <1>3, <1>4, <1>5 DEF MeetingNext

\* Every meeting, column, log and handler stays in its type, and so do counts:
\* the bounds of the run play no part in it.
THEOREM MeetingsStayWellTyped == MeetingSpec => []MeetingTypeOK
<1>1. DatesInvariant => MeetingTypeOK
  BY DEF DatesInvariant
<1> QED
  BY <1>1, MeetingInitHolds, DatesKept, PTL DEF MeetingSpec

\* The dates an account shows (accounts.last_meeting_date, last_mom_date) are dates
\* the audit log has for it, for any number of handlers, meetings and days.
THEOREM ShownDatesHaveEntries == MeetingSpec => []ShownDatesAreAudited
<1>1. DatesInvariant => ShownDatesAreAudited
  BY DEF DatesInvariant
<1> QED
  BY <1>1, MeetingInitHolds, DatesKept, PTL DEF MeetingSpec

-----------------------------------------------------------------------------
(* The count of the minutes                                                *)

\* What handler q adds to the entries and mails meeting m is still owed.
Owes(q, m) == IF q.pc \in {"mail", "outcome"} /\ q.m = m THEN 1 ELSE 0
WillMail(q, m) == IF q.pc = "mail" /\ q.m = m THEN 1 ELSE 0
Mailing(m) == {k \in Owing(m) : Busy(k, "mail")}

MinutesInvariant == DatesInvariant /\ EveryMomIsAccountedFor

\* One element comes or goes.
LEMMA OneMoves ==
  ASSUME NEW S, NEW T, NEW k, IsFiniteSet(S), IsFiniteSet(T), T \ {k} = S \ {k}
  PROVE  /\ Cardinality(S) \in Nat /\ Cardinality(T) \in Nat
         /\ Cardinality(T) + (IF k \in S THEN 1 ELSE 0) = Cardinality(S) + (IF k \in T THEN 1 ELSE 0)
<1>1. Cardinality(S) \in Nat /\ Cardinality(T) \in Nat
  BY FS_CardinalityType
<1>2. CASE (k \in S) <=> (k \in T)
  <2>1. S = T
    BY <1>2
  <2> QED
    BY <1>1, <2>1
<1>3. CASE k \in S /\ k \notin T
  <2>1. T = S \ {k}
    BY <1>3
  <2> QED
    BY <1>1, <1>3, <2>1, FS_RemoveElement
<1>4. CASE k \notin S /\ k \in T
  <2>1. T = S \cup {k}
    BY <1>4
  <2> QED
    BY <1>1, <1>4, <2>1, FS_AddElement
<1> QED
  BY <1>1, <1>2, <1>3, <1>4

\* One handler turns to another job: the counts move by that handler alone.
LEMMA TurnCounts ==
  ASSUME MeetingTypeOK, NEW k \in Secretaries, NEW job \in SecretaryJob, Turn(k, job),
         NEW m \in Meetings
  PROVE  /\ Cardinality(Owing(m)) \in Nat /\ Cardinality(Owing(m)') \in Nat
         /\ Cardinality(Owing(m)') + Owes(secretary[k], m) = Cardinality(Owing(m)) + Owes(job, m)
         /\ Cardinality(Mailing(m)) \in Nat /\ Cardinality(Mailing(m)') \in Nat
         /\ Cardinality(Mailing(m)') + WillMail(secretary[k], m)
              = Cardinality(Mailing(m)) + WillMail(job, m)
<1> DEFINE O == Owing(m)
<1> DEFINE P == Owing(m)'
<1> DEFINE M == Mailing(m)
<1> DEFINE N == Mailing(m)'
<1>1. secretary'[k] = job /\ \A j \in Secretaries \ {k} : secretary'[j] = secretary[j]
  BY DEF MeetingTypeOK, Turn
<1>2. O \subseteq Secretaries /\ P \subseteq Secretaries /\ M \subseteq Secretaries
      /\ N \subseteq Secretaries
  BY DEF Owing, Mailing
<1>3. IsFiniteSet(O) /\ IsFiniteSet(P) /\ IsFiniteSet(M) /\ IsFiniteSet(N)
  BY <1>2, MeetingAssumption, FS_Subset
<1>4. P \ {k} = O \ {k} /\ N \ {k} = M \ {k}
  BY <1>1 DEF Owing, Mailing, Busy
<1>5. /\ k \in O <=> (secretary[k].pc \in {"mail", "outcome"} /\ secretary[k].m = m)
      /\ k \in P <=> (job.pc \in {"mail", "outcome"} /\ job.m = m)
      /\ k \in M <=> (secretary[k].pc = "mail" /\ secretary[k].m = m)
      /\ k \in N <=> (job.pc = "mail" /\ job.m = m)
  BY <1>1 DEF Owing, Mailing, Busy
<1> HIDE DEF O, P, M, N
<1>6. /\ Cardinality(O) \in Nat /\ Cardinality(P) \in Nat
      /\ Cardinality(P) + (IF k \in O THEN 1 ELSE 0) = Cardinality(O) + (IF k \in P THEN 1 ELSE 0)
  BY <1>3, <1>4, OneMoves
<1>7. /\ Cardinality(M) \in Nat /\ Cardinality(N) \in Nat
      /\ Cardinality(N) + (IF k \in M THEN 1 ELSE 0) = Cardinality(M) + (IF k \in N THEN 1 ELSE 0)
  BY <1>3, <1>4, OneMoves
<1>8. Owes(secretary[k], m) = (IF k \in O THEN 1 ELSE 0) /\ Owes(job, m) = (IF k \in P THEN 1 ELSE 0)
      /\ WillMail(secretary[k], m) = (IF k \in M THEN 1 ELSE 0)
      /\ WillMail(job, m) = (IF k \in N THEN 1 ELSE 0)
  BY <1>5 DEF Owes, WillMail
<1>9. /\ Cardinality(O) \in Nat /\ Cardinality(P) \in Nat
      /\ Cardinality(P) + Owes(secretary[k], m) = Cardinality(O) + Owes(job, m)
      /\ Cardinality(M) \in Nat /\ Cardinality(N) \in Nat
      /\ Cardinality(N) + WillMail(secretary[k], m) = Cardinality(M) + WillMail(job, m)
  BY <1>6, <1>7, <1>8
<1> QED
  BY <1>9 DEF O, P, M, N

\* The same numbers, by handler: what one step has to balance.
LEMMA MinutesStep ==
  ASSUME MeetingTypeOK, EveryMomIsAccountedFor, MeetingTypeOK',
         NEW k \in Secretaries, NEW job \in SecretaryJob, Turn(k, job),
         \A m \in Meetings :
           /\ moms'[m] + outcomes[m] + Owes(secretary[k], m) + mailFaults
                <= moms[m] + outcomes'[m] + Owes(job, m) + mailFaults'
           /\ outcomes'[m] + Owes(job, m) + moms[m]
                <= outcomes[m] + Owes(secretary[k], m) + moms'[m]
           /\ mails'[m] + WillMail(job, m) + moms[m]
                <= mails[m] + WillMail(secretary[k], m) + moms'[m]
  PROVE  EveryMomIsAccountedFor'
<1> SUFFICES ASSUME NEW m \in Meetings
             PROVE  /\ moms'[m] <= outcomes'[m] + Cardinality(Owing(m)') + mailFaults'
                    /\ outcomes'[m] + Cardinality(Owing(m)') <= moms'[m]
                    /\ mails'[m] + Cardinality(Mailing(m)') <= moms'[m]
  BY DEF EveryMomIsAccountedFor, Mailing
<1>1. /\ moms[m] <= outcomes[m] + Cardinality(Owing(m)) + mailFaults
      /\ outcomes[m] + Cardinality(Owing(m)) <= moms[m]
      /\ mails[m] + Cardinality(Mailing(m)) <= moms[m]
  BY DEF EveryMomIsAccountedFor, Mailing
<1>2. /\ Cardinality(Owing(m)) \in Nat /\ Cardinality(Owing(m)') \in Nat
      /\ Cardinality(Owing(m)') + Owes(secretary[k], m) = Cardinality(Owing(m)) + Owes(job, m)
      /\ Cardinality(Mailing(m)) \in Nat /\ Cardinality(Mailing(m)') \in Nat
      /\ Cardinality(Mailing(m)') + WillMail(secretary[k], m)
           = Cardinality(Mailing(m)) + WillMail(job, m)
  BY TurnCounts
<1>3. /\ moms[m] \in Nat /\ outcomes[m] \in Nat /\ mails[m] \in Nat /\ mailFaults \in Nat
      /\ moms'[m] \in Nat /\ outcomes'[m] \in Nat /\ mails'[m] \in Nat /\ mailFaults' \in Nat
  BY DEF MeetingTypeOK
<1>4. Owes(secretary[k], m) \in Nat /\ Owes(job, m) \in Nat /\ WillMail(secretary[k], m) \in Nat
      /\ WillMail(job, m) \in Nat
  BY DEF Owes, WillMail
<1> QED
  BY <1>1, <1>2, <1>3, <1>4

\* Minutes recorded by a handler that owed nothing: one more of everything.
LEMMA MomRecordedCounts ==
  ASSUME MeetingTypeOK, EveryMomIsAccountedFor, MeetingTypeOK',
         NEW k \in Secretaries, secretary[k].pc \in {"rest", "complete"},
         NEW m \in Meetings, NEW a \in Clients, NEW onDay, MomRecorded(k, m, a, onDay),
         UNCHANGED <<mails, outcomes, mailFaults>>
  PROVE  EveryMomIsAccountedFor'
<1> DEFINE job == [AtRest EXCEPT !.pc = "mail", !.m = m, !.a = a]
<1>1. job \in SecretaryJob /\ job.pc = "mail" /\ job.m = m
  BY DEF AtRest, SecretaryJob
<1>2. Turn(k, job) /\ moms' = [moms EXCEPT ![m] = @ + 1]
  BY DEF MomRecorded
<1> HIDE DEF job
<1>3. ASSUME NEW n \in Meetings
      PROVE  /\ Owes(secretary[k], n) = 0 /\ WillMail(secretary[k], n) = 0
             /\ Owes(job, n) = (IF n = m THEN 1 ELSE 0) /\ WillMail(job, n) = (IF n = m THEN 1 ELSE 0)
             /\ moms'[n] = moms[n] + (IF n = m THEN 1 ELSE 0)
             /\ moms[n] \in Nat /\ mails[n] \in Nat /\ outcomes[n] \in Nat /\ mailFaults \in Nat
  BY <1>1, <1>2 DEF Owes, WillMail, MeetingTypeOK
<1>4. ASSUME NEW n \in Meetings
      PROVE  /\ moms'[n] + outcomes[n] + Owes(secretary[k], n) + mailFaults
                  <= moms[n] + outcomes'[n] + Owes(job, n) + mailFaults'
             /\ outcomes'[n] + Owes(job, n) + moms[n]
                  <= outcomes[n] + Owes(secretary[k], n) + moms'[n]
             /\ mails'[n] + WillMail(job, n) + moms[n]
                  <= mails[n] + WillMail(secretary[k], n) + moms'[n]
  BY <1>3
<1> QED
  BY <1>1, <1>2, <1>4, MinutesStep

\* A handler that owed nothing and owes nothing.
LEMMA NothingOwed ==
  ASSUME MeetingTypeOK, EveryMomIsAccountedFor, MeetingTypeOK', NEW k \in Secretaries,
         NEW job \in SecretaryJob, Turn(k, job), secretary[k].pc \notin {"mail", "outcome"},
         job.pc \notin {"mail", "outcome"}, UNCHANGED <<moms, mails, outcomes, mailFaults>>
  PROVE  EveryMomIsAccountedFor'
<1>1. ASSUME NEW n \in Meetings
      PROVE  /\ Owes(secretary[k], n) = 0 /\ WillMail(secretary[k], n) = 0
             /\ Owes(job, n) = 0 /\ WillMail(job, n) = 0
             /\ moms[n] \in Nat /\ mails[n] \in Nat /\ outcomes[n] \in Nat /\ mailFaults \in Nat
  BY DEF Owes, WillMail, MeetingTypeOK
<1>2. ASSUME NEW n \in Meetings
      PROVE  /\ moms'[n] + outcomes[n] + Owes(secretary[k], n) + mailFaults
                  <= moms[n] + outcomes'[n] + Owes(job, n) + mailFaults'
             /\ outcomes'[n] + Owes(job, n) + moms[n]
                  <= outcomes[n] + Owes(secretary[k], n) + moms'[n]
             /\ mails'[n] + WillMail(job, n) + moms[n]
                  <= mails[n] + WillMail(secretary[k], n) + moms'[n]
  BY <1>1
<1> QED
  BY <1>2, MinutesStep

\* sendMomToCustomer(): the mail, and its NOTIFY entry.
LEMMA SendMailCounts ==
  ASSUME MinutesInvariant, MeetingTypeOK', NEW k \in Secretaries, SendMail(k)
  PROVE  EveryMomIsAccountedFor'
<1> DEFINE job == [secretary[k] EXCEPT !.pc = "outcome"]
<1> DEFINE m == secretary[k].m
<1>1. /\ MeetingTypeOK /\ EveryMomIsAccountedFor /\ secretary[k] \in SecretaryJob
      /\ Knows(secretary[k])
  BY DEF MinutesInvariant, DatesInvariant, MeetingTypeOK
<1>2. job \in SecretaryJob /\ job.pc = "outcome" /\ job.m = m
  BY <1>1 DEF SecretaryJob
<1>3. Turn(k, job) /\ secretary[k].pc = "mail" /\ UNCHANGED <<moms, outcomes, mailFaults>>
      /\ (mails' = mails \/ mails' = [mails EXCEPT ![m] = @ + 1])
  BY DEF SendMail, Busy
<1> HIDE DEF job
<1>4. ASSUME NEW n \in Meetings
      PROVE  /\ Owes(job, n) = Owes(secretary[k], n) /\ Owes(job, n) \in Nat
             /\ WillMail(secretary[k], n) = (IF n = m THEN 1 ELSE 0)
             /\ WillMail(job, n) = 0
             /\ mails'[n] = mails[n] \/ mails'[n] = mails[n] + (IF n = m THEN 1 ELSE 0)
             /\ moms[n] \in Nat /\ mails[n] \in Nat /\ outcomes[n] \in Nat /\ mailFaults \in Nat
  BY <1>1, <1>2, <1>3 DEF Owes, WillMail, MeetingTypeOK
<1> HIDE DEF m
<1>5. ASSUME NEW n \in Meetings
      PROVE  /\ moms'[n] + outcomes[n] + Owes(secretary[k], n) + mailFaults
                  <= moms[n] + outcomes'[n] + Owes(job, n) + mailFaults'
             /\ outcomes'[n] + Owes(job, n) + moms[n]
                  <= outcomes[n] + Owes(secretary[k], n) + moms'[n]
             /\ mails'[n] + WillMail(job, n) + moms[n]
                  <= mails[n] + WillMail(secretary[k], n) + moms'[n]
  BY <1>3, <1>4
<1> QED
  BY <1>1, <1>2, <1>3, <1>5, MinutesStep

LEMMA AuditOutcomeCounts ==
  ASSUME MinutesInvariant, MeetingTypeOK', NEW k \in Secretaries, AuditOutcome(k)
  PROVE  EveryMomIsAccountedFor'
<1> DEFINE m == secretary[k].m
<1>1. /\ MeetingTypeOK /\ EveryMomIsAccountedFor /\ AtRest \in SecretaryJob
  BY RestKnows DEF MinutesInvariant, DatesInvariant, MeetingTypeOK
<1>2. Turn(k, AtRest) /\ secretary[k].pc = "outcome" /\ UNCHANGED <<moms, mails, mailFaults>>
      /\ outcomes' = [outcomes EXCEPT ![m] = @ + 1]
  BY DEF AuditOutcome, Busy, Rest
<1>3. ASSUME NEW n \in Meetings
      PROVE  /\ Owes(AtRest, n) = 0 /\ WillMail(AtRest, n) = 0 /\ WillMail(secretary[k], n) = 0
             /\ Owes(secretary[k], n) = (IF n = m THEN 1 ELSE 0)
             /\ outcomes'[n] = outcomes[n] + (IF n = m THEN 1 ELSE 0)
             /\ moms[n] \in Nat /\ mails[n] \in Nat /\ outcomes[n] \in Nat /\ mailFaults \in Nat
  BY <1>1, <1>2 DEF Owes, WillMail, MeetingTypeOK, AtRest
<1> HIDE DEF m
<1>4. ASSUME NEW n \in Meetings
      PROVE  /\ moms'[n] + outcomes[n] + Owes(secretary[k], n) + mailFaults
                  <= moms[n] + outcomes'[n] + Owes(AtRest, n) + mailFaults'
             /\ outcomes'[n] + Owes(AtRest, n) + moms[n]
                  <= outcomes[n] + Owes(secretary[k], n) + moms'[n]
             /\ mails'[n] + WillMail(AtRest, n) + moms[n]
                  <= mails[n] + WillMail(secretary[k], n) + moms'[n]
  BY <1>2, <1>3
<1> QED
  BY <1>1, <1>2, <1>4, MinutesStep

\* A lost handler takes at most one entry with it, and that is one lost call.
LEMMA HandlerLostCounts ==
  ASSUME MinutesInvariant, MeetingTypeOK', NEW k \in Secretaries, HandlerLost(k)
  PROVE  EveryMomIsAccountedFor'
<1>1. /\ MeetingTypeOK /\ EveryMomIsAccountedFor /\ AtRest \in SecretaryJob
  BY RestKnows DEF MinutesInvariant, DatesInvariant, MeetingTypeOK
<1>2. Turn(k, AtRest) /\ UNCHANGED <<moms, mails, outcomes>> /\ mailFaults' = mailFaults + 1
  BY DEF HandlerLost, Rest
<1>3. ASSUME NEW n \in Meetings
      PROVE  /\ Owes(AtRest, n) = 0 /\ WillMail(AtRest, n) = 0
             /\ Owes(secretary[k], n) \in 0..1 /\ WillMail(secretary[k], n) \in 0..1
             /\ moms[n] \in Nat /\ mails[n] \in Nat /\ outcomes[n] \in Nat /\ mailFaults \in Nat
  BY <1>1 DEF Owes, WillMail, MeetingTypeOK, AtRest
<1>4. ASSUME NEW n \in Meetings
      PROVE  /\ moms'[n] + outcomes[n] + Owes(secretary[k], n) + mailFaults
                  <= moms[n] + outcomes'[n] + Owes(AtRest, n) + mailFaults'
             /\ outcomes'[n] + Owes(AtRest, n) + moms[n]
                  <= outcomes[n] + Owes(secretary[k], n) + moms'[n]
             /\ mails'[n] + WillMail(AtRest, n) + moms[n]
                  <= mails[n] + WillMail(secretary[k], n) + moms'[n]
  BY <1>2, <1>3
<1> QED
  BY <1>1, <1>2, <1>4, MinutesStep

\* The steps that record no minutes, send nothing and lose nothing.
LEMMA IdleStepsCount ==
  ASSUME MinutesInvariant, MeetingTypeOK', NEW k \in Secretaries
  PROVE  /\ CompleteTooLate(k) => EveryMomIsAccountedFor'
         /\ RemoveCommit(k) => EveryMomIsAccountedFor'
         /\ \A m \in Meetings : CompleteRead(k, m) => EveryMomIsAccountedFor'
         /\ \A m \in Meetings : RemoveSelect(k, m) => EveryMomIsAccountedFor'
<1>1. MeetingTypeOK /\ EveryMomIsAccountedFor
  BY DEF MinutesInvariant, DatesInvariant
<1>2. AtRest \in SecretaryJob /\ AtRest.pc = "rest"
  BY DEF AtRest, SecretaryJob
<1>3. CompleteTooLate(k) => EveryMomIsAccountedFor'
  BY <1>1, <1>2, NothingOwed DEF CompleteTooLate, Busy, Rest
<1>4. RemoveCommit(k) => EveryMomIsAccountedFor'
  BY <1>1, <1>2, NothingOwed DEF RemoveCommit, Busy, Rest
<1>5. ASSUME NEW m \in Meetings, CompleteRead(k, m) PROVE EveryMomIsAccountedFor'
  <2> DEFINE job == [AtRest EXCEPT !.pc = "complete", !.m = m, !.held = meeting[m].held]
  <2>1. meeting[m] \in MeetingRow
    BY <1>1 DEF MeetingTypeOK
  <2>2. job \in SecretaryJob /\ job.pc = "complete"
    BY <2>1 DEF AtRest, SecretaryJob, MeetingRow
  <2>3. Turn(k, job) /\ secretary[k].pc = "rest" /\ UNCHANGED <<moms, mails, outcomes, mailFaults>>
    BY <1>2, <1>5 DEF CompleteRead
  <2> HIDE DEF job
  <2> QED
    BY <1>1, <2>2, <2>3, NothingOwed
<1>6. ASSUME NEW m \in Meetings, RemoveSelect(k, m) PROVE EveryMomIsAccountedFor'
  <2>1. secretary'[k].pc = "delete" /\ secretary'[k] \in SecretaryJob
    BY <1>1, <1>2, <1>6 DEF RemoveSelect, Turn, MeetingTypeOK, AtRest
  <2>2. Turn(k, secretary'[k])
    BY <1>1, <1>6 DEF RemoveSelect, Turn, MeetingTypeOK
  <2>3. secretary[k].pc = "rest" /\ UNCHANGED <<moms, mails, outcomes, mailFaults>>
    BY <1>2, <1>6 DEF RemoveSelect
  <2> QED
    BY <1>1, <2>1, <2>2, <2>3, NothingOwed
<1> QED
  BY <1>3, <1>4, <1>5, <1>6

LEMMA RecordingStepsCount ==
  ASSUME MinutesInvariant, MeetingTypeOK', NEW k \in Secretaries
  PROVE  /\ \A a \in Clients, onDay \in Booked : SendMomEmail(k, a, onDay) => EveryMomIsAccountedFor'
         /\ \A m \in Meetings : SubmitMom(k, m) => EveryMomIsAccountedFor'
         /\ CompleteTx(k) => EveryMomIsAccountedFor'
<1>1. MeetingTypeOK /\ EveryMomIsAccountedFor /\ DatesInvariant /\ AtRest.pc = "rest"
  BY DEF MinutesInvariant, DatesInvariant, AtRest
<1>2. ASSUME NEW a \in Clients, NEW onDay \in Booked, SendMomEmail(k, a, onDay)
      PROVE  EveryMomIsAccountedFor'
  <2>1. PICK m \in Meetings : m = Cardinality(Written) + 1
    BY <1>2 DEF SendMomEmail, NewMeeting
  <2>2. MomRecorded(k, m, a, date) /\ secretary[k] = AtRest /\ UNCHANGED <<mails, outcomes, mailFaults>>
    BY <1>2, <2>1 DEF SendMomEmail
  <2> QED
    BY <1>1, <2>2, MomRecordedCounts
<1>3. ASSUME NEW m \in Meetings, SubmitMom(k, m) PROVE EveryMomIsAccountedFor'
  <2>1. meeting[m].a \in Clients
    BY <1>1, <1>3 DEF SubmitMom, Live, Written, DatesInvariant, RowAudited
  <2>2. MomRecorded(k, m, meeting[m].a, date) /\ secretary[k] = AtRest
        /\ UNCHANGED <<mails, outcomes, mailFaults>>
    BY <1>3 DEF SubmitMom
  <2> QED
    BY <1>1, <2>1, <2>2, MomRecordedCounts
<1>4. ASSUME CompleteTx(k) PROVE EveryMomIsAccountedFor'
  <2> DEFINE m == secretary[k].m
  <2>1. secretary[k].pc = "complete" /\ MomRecorded(k, m, meeting[m].a, date)
        /\ UNCHANGED <<mails, outcomes, mailFaults>>
    BY <1>4 DEF CompleteTx, Busy
  <2>2. m \in Meetings /\ meeting[m].a \in Clients
    BY <1>1, <2>1 DEF DatesInvariant, Knows, RowAudited, Written
  <2> QED
    BY <1>1, <2>1, <2>2, MomRecordedCounts
<1> QED
  BY <1>2, <1>3, <1>4

LEMMA StillCounts ==
  ASSUME EveryMomIsAccountedFor, UNCHANGED <<moms, mails, outcomes, secretary, mailFaults>>
  PROVE  EveryMomIsAccountedFor'
BY DEF EveryMomIsAccountedFor, Owing, Busy

LEMMA MinutesKept ==
  ASSUME MinutesInvariant, [MeetingNext]_meetingVars
  PROVE  MinutesInvariant'
<1>1. DatesInvariant' /\ MeetingTypeOK' /\ EveryMomIsAccountedFor
  BY DatesKept DEF MinutesInvariant, DatesInvariant
<1>2. CASE UNCHANGED meetingVars
  BY <1>1, <1>2, StillCounts DEF meetingVars, MinutesInvariant
<1>3. CASE NextDate
  BY <1>1, <1>3, StillCounts DEF NextDate, MinutesInvariant
<1>4. ASSUME NEW k \in Secretaries, MeetingArrival(k) PROVE EveryMomIsAccountedFor'
  <2>1. ASSUME NEW a \in Clients, NEW onDay \in Booked, LogMeeting(k, a, onDay)
        PROVE  EveryMomIsAccountedFor'
    BY <1>1, <2>1, StillCounts DEF LogMeeting
  <2>2. ASSUME NEW m \in Meetings, NEW onDay \in Dates, MarkHeld(k, m, onDay)
        PROVE  EveryMomIsAccountedFor'
    BY <1>1, <2>2, StillCounts DEF MarkHeld
  <2> QED
    BY <1>1, <1>4, <2>1, <2>2, RecordingStepsCount, IdleStepsCount DEF MeetingArrival
<1>5. ASSUME NEW k \in Secretaries, MeetingStep(k) PROVE EveryMomIsAccountedFor'
  BY <1>1, <1>5, RecordingStepsCount, IdleStepsCount, SendMailCounts, AuditOutcomeCounts
     DEF MeetingStep
<1>6. ASSUME NEW k \in Secretaries, HandlerLost(k) PROVE EveryMomIsAccountedFor'
  BY <1>1, <1>6, HandlerLostCounts
<1> QED
  BY <1>1, <1>2, <1>3, <1>4, <1>5, <1>6 DEF MeetingNext, MinutesInvariant

\* Nobody is owed anything before the first meeting.
LEMMA MinutesInit == MeetingInit => EveryMomIsAccountedFor
<1> SUFFICES ASSUME MeetingInit, NEW m \in Meetings
             PROVE  /\ moms[m] <= outcomes[m] + Cardinality(Owing(m)) + mailFaults
                    /\ outcomes[m] + Cardinality(Owing(m)) <= moms[m]
                    /\ mails[m] + Cardinality({k \in Owing(m) : Busy(k, "mail")}) <= moms[m]
  BY DEF EveryMomIsAccountedFor
<1>1. Owing(m) = {} /\ {k \in Owing(m) : Busy(k, "mail")} = {}
  BY DEF MeetingInit, Owing, AtRest
<1>2. Cardinality({}) = 0
  BY FS_EmptySet
<1> QED
  BY <1>1, <1>2 DEF MeetingInit

\* "Every call writes a NOTIFY_* audit_log row" (sendMomToCustomer): for any number
\* of handlers and faults, a meeting's minutes are matched by outcomes but for those
\* in flight and one per lost call, and no customer is mailed once too often.
THEOREM MinutesAreAccountedFor == MeetingSpec => []EveryMomIsAccountedFor
<1>1. MeetingInit => MinutesInvariant
  BY MeetingInitHolds, MinutesInit DEF MinutesInvariant
<1>2. MinutesInvariant => EveryMomIsAccountedFor
  BY DEF MinutesInvariant
<1> QED
  BY <1>1, <1>2, MinutesKept, PTL DEF MeetingSpec

-----------------------------------------------------------------------------
(***************************************************************************)
(* The audit feed, for any readers, runs, batches, cutoffs and faults.     *)
(*                                                                         *)
(* No lock protects a run or a request from the others; what protects it   *)
(* is that entries never come back to the log, new ones are the youngest,  *)
(* and marks only grow (Undisturbed).  So what a run copied covers what it *)
(* deletes, and what a reader counted is marked or archived                *)
(* (RunnerKnows).                                                          *)
(***************************************************************************)

\* The entries written so far are the first of the log.
EntriesInOrder == \E n \in 0..MaxEntries : Recorded = 1..n

StampsArePast == \A e \in Recorded : stamp[e] <= time

\* What a handler may rely on at each of its awaits.
RunnerKnows(q) ==
  /\ q.ids \subseteq Recorded
  /\ q.missing \subseteq q.ids
  /\ q.pc = "rows" => q.missing = {}
  /\ q.pc \in {"existing", "create", "update", "rows", "page", "marked"} => q.r \in Readers
  /\ q.pc \in {"copy", "delete"} =>
       \A e \in q.ids, f \in live \ (q.ids \cup late) : stamp[e] <= stamp[f]
  /\ q.pc = "delete" => q.ids \cap live \subseteq q.missing
  /\ q.pc \in {"create", "update"} =>
       \A e \in (q.ids \ q.missing) \cap live : HasRow(q.r, e)
  /\ q.pc = "update" => \A e \in q.missing \cap live : "READ" \in overlay[q.r][e]
  /\ q.pc = "marked" => \A e \in q.ids \cap live : "READ" \in overlay[q.r][e]
  /\ q.pc = "page" => \A e \in q.ids : topic[e] \in Follows[q.r] /\ e \notin q.hidden

RunnersKnow == \A k \in Runners : RunnerKnows(runner[k])

FeedInvariant ==
  /\ FeedTypeOK
  /\ EntriesInOrder
  /\ StampsArePast
  /\ EntriesAreKept
  /\ ColdStorageIsOldest
  /\ OverlayFollowsLog
  /\ RunnersKnow

-----------------------------------------------------------------------------
\* The next entry is one nobody has seen.
LEMMA NextEntryIsNew ==
  ASSUME EntriesInOrder, NEW e \in Entries, e = Cardinality(Recorded) + 1
  PROVE  e \notin Recorded /\ Recorded \cup {e} = 1..e
<1>1. PICK n \in 0..MaxEntries : Recorded = 1..n
  BY DEF EntriesInOrder
<1>2. n \in Nat
  BY <1>1, FeedAssumption
<1>3. Cardinality(Recorded) = n
  BY <1>1, <1>2, FS_Interval
<1> QED
  BY <1>1, <1>2, <1>3

\* A handler is not disturbed by a step that writes younger or late entries, takes
\* entries out of the log, or adds marks.
LEMMA Undisturbed ==
  ASSUME FeedTypeOK, FeedTypeOK', NEW q \in RunnerJob, RunnerKnows(q),
         Recorded \subseteq Recorded',
         late \subseteq late',
         \A f \in live' \ live :
           /\ f \notin Recorded
           /\ q.pc \in {"copy", "delete"} /\ f \notin late' => \A e \in q.ids : stamp[e] <= stamp'[f],
         \A e \in Recorded : stamp'[e] = stamp[e] /\ topic'[e] = topic[e],
         \A r \in Readers, e \in live \cap live' : overlay[r][e] \subseteq overlay'[r][e],
         live \subseteq Recorded
  PROVE  RunnerKnows(q)'
<1>1. q.ids \subseteq Recorded' /\ q.missing \subseteq q.ids /\ (q.pc = "rows" => q.missing = {})
  BY DEF RunnerKnows
<1>2. q.pc \in {"existing", "create", "update", "rows", "page", "marked"} => q.r \in Readers
  BY DEF RunnerKnows
<1>3. \A e \in q.ids : e \in live' => e \in live
  BY DEF RunnerKnows
<1>4. q.pc \in {"copy", "delete"} =>
        \A e \in q.ids, f \in live' \ (q.ids \cup late') : stamp'[e] <= stamp'[f]
  <2> SUFFICES ASSUME q.pc \in {"copy", "delete"}, NEW e \in q.ids,
                      NEW f \in live' \ (q.ids \cup late')
               PROVE  stamp'[e] <= stamp'[f]
    OBVIOUS
  <2>1. e \in Recorded
    BY DEF RunnerKnows
  <2>2. CASE f \in live
    BY <2>1, <2>2 DEF RunnerKnows
  <2>3. CASE f \notin live
    BY <2>1, <2>3
  <2> QED
    BY <2>2, <2>3
<1>5. q.pc = "delete" => q.ids \cap live' \subseteq q.missing
  BY <1>3 DEF RunnerKnows
<1>6. q.pc \in {"create", "update"} =>
        \A e \in (q.ids \ q.missing) \cap live' : "ROW" \in overlay'[q.r][e]
  BY <1>2, <1>3 DEF RunnerKnows, HasRow
<1>7. q.pc = "update" => \A e \in q.missing \cap live' : "READ" \in overlay'[q.r][e]
  BY <1>1, <1>2, <1>3 DEF RunnerKnows
<1>8. q.pc = "marked" => \A e \in q.ids \cap live' : "READ" \in overlay'[q.r][e]
  BY <1>2, <1>3 DEF RunnerKnows
<1>9. q.pc = "page" => \A e \in q.ids : topic'[e] \in Follows[q.r] /\ e \notin q.hidden
  BY DEF RunnerKnows
<1> QED
  BY <1>1, <1>2, <1>4, <1>5, <1>6, <1>7, <1>8, <1>9 DEF RunnerKnows, HasRow

\* The initial state.
LEMMA FeedInitHolds == FeedInit => FeedInvariant
<1> SUFFICES ASSUME FeedInit PROVE FeedInvariant
  OBVIOUS
<1>1. FeedTypeOK
  BY FeedAssumption DEF FeedInit, FeedTypeOK, RunnerJob, Idle, Marks
<1>2. Recorded = {}
  BY DEF FeedInit, Recorded
<1>3. EntriesInOrder
  BY <1>2, FeedAssumption DEF EntriesInOrder
<1>4. StampsArePast /\ EntriesAreKept /\ ColdStorageIsOldest
  BY <1>2 DEF FeedInit, StampsArePast, EntriesAreKept, ColdStorageIsOldest
<1>5. OverlayFollowsLog
  BY DEF FeedInit, OverlayFollowsLog
<1>6. RunnersKnow
  BY DEF FeedInit, RunnersKnow, RunnerKnows, Idle
<1> QED
  BY <1>1, <1>3, <1>4, <1>5, <1>6 DEF FeedInvariant

\* A step of one handler that leaves the log and its marks alone.
LEMMA QuietStep ==
  ASSUME FeedInvariant, NEW k \in Runners, NEW job \in RunnerJob,
         Resume(k, job), RunnerKnows(job),
         UNCHANGED <<live, archive, topic, stamp, late, overlay, time>>, stateFaults' \in Nat
  PROVE  FeedInvariant'
<1>1. FeedTypeOK'
  BY DEF FeedInvariant, FeedTypeOK, Resume
<1>2. EntriesInOrder' /\ StampsArePast' /\ EntriesAreKept' /\ ColdStorageIsOldest'
  BY DEF FeedInvariant, EntriesInOrder, StampsArePast, EntriesAreKept, ColdStorageIsOldest, Recorded
<1>3. OverlayFollowsLog'
  BY DEF FeedInvariant, OverlayFollowsLog, HasRow
<1>4. RunnersKnow'
  <2> SUFFICES ASSUME NEW j \in Runners PROVE RunnerKnows(runner[j])'
    BY DEF RunnersKnow
  <2>1. RunnerKnows(runner'[j])
    BY DEF FeedInvariant, FeedTypeOK, RunnersKnow, Resume
  <2> QED
    BY <2>1 DEF RunnerKnows, HasRow, Recorded
<1> QED
  BY <1>1, <1>2, <1>3, <1>4 DEF FeedInvariant

\* A free handler knows nothing.
LEMMA IdleKnows == Idle \in RunnerJob /\ RunnerKnows(Idle)
BY DEF Idle, RunnerJob, RunnerKnows

-----------------------------------------------------------------------------
\* A new entry is not older than what the archive has or is about to have, or late.
LEMMA WriteEntryHolds ==
  ASSUME FeedInvariant, NEW t \in Topics, NEW s \in 0..time, WriteEntry(t, s)
  PROVE  FeedInvariant'
<1>1. PICK e \in Entries :
        /\ e = Cardinality(Recorded) + 1
        /\ live' = live \cup {e}
        /\ topic' = [topic EXCEPT ![e] = t]
        /\ stamp' = [stamp EXCEPT ![e] = s]
        /\ late' = IF Overtaken(s) THEN late \cup {e} ELSE late
        /\ UNCHANGED <<archive, overlay, runner, time, stateFaults>>
  BY DEF WriteEntry
<1>2. e \notin Recorded /\ Recorded \cup {e} = 1..e
  BY <1>1, NextEntryIsNew DEF FeedInvariant
<1>3. FeedTypeOK'
  BY <1>1 DEF FeedInvariant, FeedTypeOK
<1>4. Recorded' = Recorded \cup {e}
  BY <1>1, FeedAssumption DEF FeedInvariant, FeedTypeOK, Recorded
<1>5. EntriesInOrder'
  BY <1>2, <1>4 DEF EntriesInOrder, Entries
<1>6. \A f \in Recorded : stamp'[f] = stamp[f] /\ topic'[f] = topic[f] /\ stamp[f] <= time
  BY <1>1, <1>2 DEF FeedInvariant, FeedTypeOK, Recorded, StampsArePast
<1>7. stamp'[e] = s /\ time \in Nat /\ s \in Nat /\ s <= time
  BY <1>1 DEF FeedInvariant, FeedTypeOK
<1>8. StampsArePast'
  BY <1>1, <1>4, <1>6, <1>7 DEF StampsArePast
<1>9. EntriesAreKept'
  BY <1>1, <1>2, <1>4 DEF FeedInvariant, EntriesAreKept
<1>10. ColdStorageIsOldest'
  <2>1. \A g \in archive : g \in Recorded /\ stamp'[g] = stamp[g] /\ stamp[g] \in Nat
    BY <1>6 DEF FeedInvariant, FeedTypeOK, EntriesAreKept
  <2>2. e \notin late' => \A g \in archive : stamp[g] <= s
    BY <1>1, <1>7, <2>1 DEF Overtaken
  <2>3. \A f \in live : f \in Recorded /\ stamp'[f] = stamp[f]
    BY <1>6 DEF FeedInvariant, EntriesAreKept
  <2> QED
    BY <1>1, <1>7, <2>1, <2>2, <2>3 DEF FeedInvariant, ColdStorageIsOldest
<1>11. OverlayFollowsLog'
  BY <1>1 DEF FeedInvariant, OverlayFollowsLog, HasRow
<1>12. RunnersKnow'
  <2> SUFFICES ASSUME NEW j \in Runners PROVE RunnerKnows(runner[j])'
    BY DEF RunnersKnow
  <2>1. runner[j] \in RunnerJob /\ RunnerKnows(runner[j]) /\ live \subseteq Recorded
    BY DEF FeedInvariant, FeedTypeOK, RunnersKnow, EntriesAreKept
  <2>2. RunnerKnows(runner[j])' <=> (\A q \in {runner[j]} : RunnerKnows(q)')
    BY <1>1
  <2>3. \A f \in live' \ live :
          /\ f \notin Recorded
          /\ runner[j].pc \in {"copy", "delete"} /\ f \notin late' =>
               \A g \in runner[j].ids : stamp[g] <= stamp'[f]
    <3>1. \A g \in runner[j].ids : stamp[g] \in Nat
      BY <2>1 DEF RunnerJob, FeedInvariant, FeedTypeOK
    <3>2. runner[j].pc \in {"copy", "delete"} /\ e \notin late' =>
            \A g \in runner[j].ids : stamp[g] <= s
      BY <1>1, <1>7, <3>1 DEF Overtaken
    <3> QED
      BY <1>1, <1>2, <1>7, <3>2
  <2>4. late \subseteq late'
    BY <1>1
  <2> QED
    BY <1>1, <1>3, <1>4, <1>6, <2>1, <2>2, <2>3, <2>4, Undisturbed DEF FeedInvariant
<1> QED
  BY <1>3, <1>5, <1>8, <1>9, <1>10, <1>11, <1>12 DEF FeedInvariant

\* The calendar moves.
LEMMA TickHolds ==
  ASSUME FeedInvariant, Tick
  PROVE  FeedInvariant'
<1>1. FeedTypeOK' /\ StampsArePast'
  BY DEF Tick, FeedInvariant, FeedTypeOK, StampsArePast, Recorded
<1>2. EntriesInOrder' /\ EntriesAreKept' /\ ColdStorageIsOldest' /\ OverlayFollowsLog'
  BY DEF Tick, FeedInvariant, EntriesInOrder, EntriesAreKept, ColdStorageIsOldest, Recorded,
         OverlayFollowsLog, HasRow
<1>3. RunnersKnow'
  BY DEF Tick, FeedInvariant, RunnersKnow, RunnerKnows, HasRow, Recorded
<1> QED
  BY <1>1, <1>2, <1>3 DEF FeedInvariant

-----------------------------------------------------------------------------
\* An archive run picks the old end of the log ...
LEMMA ArchiveSelectHolds ==
  ASSUME FeedInvariant, NEW k \in Runners, NEW cutoff, ArchiveSelect(k, cutoff)
  PROVE  FeedInvariant'
<1>1. PICK ids \in SUBSET Old(cutoff) :
        /\ \A e \in ids, f \in live \ ids : stamp[e] <= stamp[f]
        /\ Resume(k, [Idle EXCEPT !.pc = "copy", !.ids = ids])
        /\ OnlyRunner
  BY DEF ArchiveSelect
<1> DEFINE job == [Idle EXCEPT !.pc = "copy", !.ids = ids]
<1>2. ids \subseteq live /\ live \subseteq Recorded /\ live \subseteq Entries
  BY DEF Old, FeedInvariant, FeedTypeOK, EntriesAreKept
<1>3. job \in RunnerJob
  BY <1>2 DEF Idle, RunnerJob
<1>4. RunnerKnows(job)
  BY <1>1, <1>2 DEF RunnerKnows, Idle
<1> QED
  BY <1>1, <1>3, <1>4, QuietStep DEF OnlyRunner, FeedInvariant, FeedTypeOK

\* ... copies those that are still there ...
LEMMA ArchiveCopyHolds ==
  ASSUME FeedInvariant, NEW k \in Runners, ArchiveCopy(k)
  PROVE  FeedInvariant'
<1> DEFINE q == runner[k]
           job == [q EXCEPT !.pc = "delete", !.missing = q.ids \cap live]
<1>1. q \in RunnerJob /\ RunnerKnows(q) /\ q.pc = "copy"
  BY DEF ArchiveCopy, Runs, FeedInvariant, FeedTypeOK, RunnersKnow
<1>2. job \in RunnerJob
  BY <1>1 DEF RunnerJob
<1>3. RunnerKnows(job)
  BY <1>1 DEF RunnerKnows, RunnerJob
<1> QED
  BY <1>2, <1>3, QuietStep DEF ArchiveCopy, OnlyRunner, FeedInvariant, FeedTypeOK

\* ... and deletes what it picked; a copy another run has made undoes it all.
LEMMA ArchiveCommitHolds ==
  ASSUME FeedInvariant, NEW k \in Runners, ArchiveCommit(k)
  PROVE  FeedInvariant'
<1> DEFINE q == runner[k]
<1>1. q \in RunnerJob /\ RunnerKnows(q) /\ q.pc = "delete" /\ Done(k)
  BY DEF ArchiveCommit, Runs, FeedInvariant, FeedTypeOK, RunnersKnow
<1>2. CASE q.missing \cap archive # {}
  BY <1>1, <1>2, IdleKnows, QuietStep DEF ArchiveCommit, Done, FeedInvariant, FeedTypeOK
<1>3. CASE q.missing \cap archive = {}
  <2>1. /\ archive' = archive \cup q.missing
        /\ live' = live \ q.ids
        /\ overlay' = [r \in Readers |-> [e \in Entries |->
             IF e \in q.ids THEN {} ELSE overlay[r][e]]]
        /\ UNCHANGED <<topic, stamp, late, time, stateFaults>>
    BY <1>3 DEF ArchiveCommit
  <2>2. /\ q.ids \subseteq Recorded
        /\ q.missing \subseteq q.ids
        /\ q.ids \cap live \subseteq q.missing
        /\ \A e \in q.ids, f \in live \ (q.ids \cup late) : stamp[e] <= stamp[f]
    BY <1>1 DEF RunnerKnows
  <2>3. FeedTypeOK'
    <3>1. runner' \in [Runners -> RunnerJob]
      BY <1>1, IdleKnows DEF Done, Resume, FeedInvariant, FeedTypeOK
    <3>2. overlay' \in [Readers -> [Entries -> SUBSET Marks]]
      BY <2>1 DEF FeedInvariant, FeedTypeOK
    <3>3. archive' \subseteq Entries /\ live' \subseteq Entries
      BY <2>1, <2>2 DEF FeedInvariant, FeedTypeOK, Recorded
    <3> QED
      BY <2>1, <3>1, <3>2, <3>3 DEF FeedInvariant, FeedTypeOK
  <2>4. Recorded' = Recorded
    BY <2>1 DEF Recorded
  <2>5. EntriesInOrder' /\ StampsArePast'
    BY <2>1, <2>4 DEF FeedInvariant, EntriesInOrder, StampsArePast
  <2>6. EntriesAreKept'
    BY <1>3, <2>1, <2>2, <2>4 DEF FeedInvariant, EntriesAreKept
  <2>7. ColdStorageIsOldest'
    BY <2>1, <2>2 DEF FeedInvariant, ColdStorageIsOldest
  <2>8. OverlayFollowsLog'
    BY <2>1 DEF FeedInvariant, FeedTypeOK, OverlayFollowsLog, HasRow
  <2>9. \A r \in Readers, e \in live \cap live' : overlay[r][e] \subseteq overlay'[r][e]
    BY <2>1 DEF FeedInvariant, FeedTypeOK
  <2>10. RunnersKnow'
    <3> SUFFICES ASSUME NEW j \in Runners PROVE RunnerKnows(runner[j])'
      BY DEF RunnersKnow
    <3>1. PICK job : job = runner'[j]
      OBVIOUS
    <3>2. job \in RunnerJob /\ RunnerKnows(job)
      BY <1>1, <3>1, IdleKnows DEF Done, Resume, FeedInvariant, FeedTypeOK, RunnersKnow
    <3>3. RunnerKnows(job)'
      BY <2>1, <2>3, <2>4, <2>9, <3>2, Undisturbed DEF FeedInvariant, EntriesAreKept
    <3> QED
      BY <3>1, <3>3
  <2> QED
    BY <2>3, <2>5, <2>6, <2>7, <2>8, <2>10 DEF FeedInvariant
<1> QED
  BY <1>2, <1>3

-----------------------------------------------------------------------------
\* A step that only adds marks, to rows of entries in the log.
LEMMA MarkingStep ==
  ASSUME FeedInvariant,
         overlay' \in [Readers -> [Entries -> SUBSET Marks]],
         \A r \in Readers, e \in Entries :
           /\ overlay[r][e] \subseteq overlay'[r][e]
           /\ overlay'[r][e] # overlay[r][e] => e \in live /\ "ROW" \in overlay'[r][e],
         runner' \in [Runners -> RunnerJob],
         \A j \in Runners : runner'[j] = runner[j] \/ RunnerKnows(runner[j])',
         UNCHANGED <<live, archive, topic, stamp, late, time, stateFaults>>
  PROVE  FeedInvariant'
<1>1. FeedTypeOK'
  BY DEF FeedInvariant, FeedTypeOK
<1>2. EntriesInOrder' /\ StampsArePast' /\ EntriesAreKept' /\ ColdStorageIsOldest'
  BY DEF FeedInvariant, EntriesInOrder, StampsArePast, EntriesAreKept, ColdStorageIsOldest, Recorded
<1>3. OverlayFollowsLog'
  BY DEF FeedInvariant, OverlayFollowsLog, HasRow
<1>4. RunnersKnow'
  <2> SUFFICES ASSUME NEW j \in Runners, runner'[j] = runner[j] PROVE RunnerKnows(runner[j])'
    BY DEF RunnersKnow
  <2>1. PICK q : q = runner[j]
    OBVIOUS
  <2>2. q \in RunnerJob /\ RunnerKnows(q) /\ live \subseteq Recorded /\ Recorded' = Recorded
    BY <2>1 DEF FeedInvariant, FeedTypeOK, RunnersKnow, EntriesAreKept, Recorded
  <2>3. \A r \in Readers, e \in live \cap live' : overlay[r][e] \subseteq overlay'[r][e]
    BY DEF FeedInvariant, FeedTypeOK
  <2>4. RunnerKnows(q)'
    BY <1>1, <2>2, <2>3, Undisturbed DEF FeedInvariant
  <2> QED
    BY <2>1, <2>4
<1> QED
  BY <1>1, <1>2, <1>3, <1>4 DEF FeedInvariant

\* One mark on one entry.
LEMMA MarkHolds ==
  ASSUME FeedInvariant, NEW r \in Readers, NEW e \in live, NEW mark \in Marks,
         Mark(r, e, mark), runner' = runner,
         UNCHANGED <<live, archive, topic, stamp, late, time, stateFaults>>
  PROVE  FeedInvariant'
<1>1. overlay' \in [Readers -> [Entries -> SUBSET Marks]]
  BY DEF Mark, Marks, FeedInvariant, FeedTypeOK
<1>2. \A s \in Readers, f \in Entries :
        /\ overlay[s][f] \subseteq overlay'[s][f]
        /\ overlay'[s][f] # overlay[s][f] => f \in live /\ "ROW" \in overlay'[s][f]
  BY DEF Mark, FeedInvariant, FeedTypeOK
<1>3. runner' \in [Runners -> RunnerJob]
  BY DEF FeedInvariant, FeedTypeOK
<1> QED
  BY <1>1, <1>2, <1>3, MarkingStep

\* "Mark all as read" counts the feed ...
LEMMA MarkAllTargetsHolds ==
  ASSUME FeedInvariant, NEW k \in Runners, NEW r \in Readers, MarkAllTargets(k, r)
  PROVE  FeedInvariant'
<1> DEFINE job == [Idle EXCEPT !.pc = "existing", !.r = r, !.ids = InScope(r)]
<1>1. InScope(r) \subseteq Entries /\ InScope(r) \subseteq Recorded
  BY DEF InScope, FeedInvariant, FeedTypeOK, EntriesAreKept
<1>2. job \in RunnerJob
  BY <1>1 DEF Idle, RunnerJob
<1>3. RunnerKnows(job)
  BY <1>1 DEF RunnerKnows, Idle
<1> QED
  BY <1>2, <1>3, QuietStep DEF MarkAllTargets, OnlyRunner, FeedInvariant, FeedTypeOK

\* ... looks up which of it has a row ...
LEMMA MarkAllExistingHolds ==
  ASSUME FeedInvariant, NEW k \in Runners, MarkAllExisting(k)
  PROVE  FeedInvariant'
<1> DEFINE q == runner[k]
           job == [q EXCEPT !.pc = "create", !.missing = {e \in q.ids : ~HasRow(q.r, e)}]
<1>1. q \in RunnerJob /\ RunnerKnows(q) /\ q.pc = "existing"
  BY DEF MarkAllExisting, Runs, FeedInvariant, FeedTypeOK, RunnersKnow
<1>2. job \in RunnerJob
  BY <1>1 DEF RunnerJob
<1>3. RunnerKnows(job)
  BY <1>1 DEF RunnerKnows, RunnerJob
<1> QED
  BY <1>2, <1>3, QuietStep DEF MarkAllExisting, OnlyRunner, FeedInvariant, FeedTypeOK

\* ... creates the rest in one statement, or fails ...
LEMMA MarkAllCreateHolds ==
  ASSUME FeedInvariant, NEW k \in Runners, MarkAllCreate(k)
  PROVE  /\ FeedInvariant'
         /\ \A r \in Readers, e \in Entries : overlay[r][e] \subseteq overlay'[r][e]
<1> DEFINE q == runner[k]
           job == [q EXCEPT !.pc = "update"]
<1>1. q \in RunnerJob /\ RunnerKnows(q) /\ q.pc = "create"
  BY DEF MarkAllCreate, Runs, FeedInvariant, FeedTypeOK, RunnersKnow
<1>2. q.r \in Readers /\ q.ids \subseteq Entries /\ q.missing \subseteq q.ids
  BY <1>1 DEF RunnerKnows, RunnerJob
<1>3. UNCHANGED <<live, archive, topic, stamp, late, time, stateFaults>>
  BY DEF MarkAllCreate
<1>4. CASE Done(k) /\ UNCHANGED overlay
  BY <1>3, <1>4, IdleKnows, QuietStep DEF Done, FeedInvariant, FeedTypeOK
<1>5. CASE /\ \A e \in q.missing : e \in live /\ ~HasRow(q.r, e)
           /\ overlay' = [overlay EXCEPT ![q.r] =
                [e \in Entries |-> IF e \in q.missing THEN {"ROW", "READ"} ELSE @[e]]]
           /\ Resume(k, job)
  <2>1. \A e \in q.missing : overlay[q.r][e] = {} /\ e \in live
    BY <1>2, <1>5 DEF FeedInvariant, OverlayFollowsLog
  <2>2. \A e \in Entries : overlay'[q.r][e] =
          IF e \in q.missing THEN {"ROW", "READ"} ELSE overlay[q.r][e]
    BY <1>2, <1>5 DEF FeedInvariant, FeedTypeOK
  <2>3. \A r \in Readers \ {q.r} : overlay'[r] = overlay[r]
    BY <1>5 DEF FeedInvariant, FeedTypeOK
  <2>4. overlay' \in [Readers -> [Entries -> SUBSET Marks]]
    BY <1>2, <1>5 DEF Marks, FeedInvariant, FeedTypeOK
  <2>5. \A r \in Readers, e \in Entries :
          /\ overlay[r][e] \subseteq overlay'[r][e]
          /\ overlay'[r][e] # overlay[r][e] => e \in live /\ "ROW" \in overlay'[r][e]
    BY <2>1, <2>2, <2>3
  <2>6. job \in RunnerJob
    BY <1>1 DEF RunnerJob
  <2>7. runner' \in [Runners -> RunnerJob] /\ runner' = [runner EXCEPT ![k] = job]
    BY <1>5, <2>6 DEF Resume, FeedInvariant, FeedTypeOK
  <2>8. RunnerKnows(runner[k])'
    <3>1. runner'[k] = job
      BY <2>7 DEF FeedInvariant, FeedTypeOK
    <3>2. Recorded' = Recorded
      BY <1>3 DEF Recorded
    <3>3. \A e \in (q.ids \ q.missing) \cap live' : "ROW" \in overlay'[q.r][e]
      BY <1>1, <1>2, <1>3, <2>2 DEF RunnerKnows, HasRow
    <3>4. \A e \in q.missing \cap live' : "READ" \in overlay'[q.r][e]
      BY <1>2, <2>2
    <3>5. /\ job.pc = "update" /\ job.r = q.r /\ job.ids = q.ids
          /\ job.missing = q.missing
      BY <1>1 DEF RunnerJob
    <3> HIDE DEF job
    <3> QED
      BY <1>1, <1>2, <3>1, <3>2, <3>3, <3>4, <3>5 DEF RunnerKnows, HasRow
  <2>9. \A j \in Runners : runner'[j] = runner[j] \/ RunnerKnows(runner[j])'
    BY <2>7, <2>8 DEF FeedInvariant, FeedTypeOK
  <2> QED
    BY <1>3, <2>4, <2>5, <2>7, <2>9, MarkingStep
<1> QED
  BY <1>4, <1>5 DEF MarkAllCreate

\* ... and marks the rows it had found, wherever they still are.
LEMMA MarkAllUpdateHolds ==
  ASSUME FeedInvariant, NEW k \in Runners, MarkAllUpdate(k)
  PROVE  /\ FeedInvariant'
         /\ \A r \in Readers, e \in Entries : overlay[r][e] \subseteq overlay'[r][e]
<1> DEFINE q == runner[k]
           job == [q EXCEPT !.pc = "marked"]
<1>1. q \in RunnerJob /\ RunnerKnows(q) /\ q.pc = "update"
  BY DEF MarkAllUpdate, Runs, FeedInvariant, FeedTypeOK, RunnersKnow
<1>2. q.r \in Readers /\ q.ids \subseteq Entries /\ q.missing \subseteq q.ids
  BY <1>1 DEF RunnerKnows, RunnerJob
<1>3. /\ UNCHANGED <<live, archive, topic, stamp, late, time, stateFaults>>
      /\ Resume(k, job)
      /\ overlay' = [overlay EXCEPT ![q.r] =
           [e \in Entries |-> IF e \in q.ids \ q.missing /\ "ROW" \in @[e]
                              THEN @[e] \cup {"READ"} ELSE @[e]]]
  BY DEF MarkAllUpdate
<1>4. \A e \in Entries : overlay'[q.r][e] =
        IF e \in q.ids \ q.missing /\ "ROW" \in overlay[q.r][e]
        THEN overlay[q.r][e] \cup {"READ"} ELSE overlay[q.r][e]
  BY <1>2, <1>3 DEF FeedInvariant, FeedTypeOK
<1>5. \A r \in Readers \ {q.r} : overlay'[r] = overlay[r]
  BY <1>3 DEF FeedInvariant, FeedTypeOK
<1>6. overlay' \in [Readers -> [Entries -> SUBSET Marks]]
  BY <1>2, <1>3 DEF Marks, FeedInvariant, FeedTypeOK
<1>7. \A r \in Readers, e \in Entries :
        /\ overlay[r][e] \subseteq overlay'[r][e]
        /\ overlay'[r][e] # overlay[r][e] => e \in live /\ "ROW" \in overlay'[r][e]
  BY <1>4, <1>5 DEF FeedInvariant, OverlayFollowsLog
<1>8. job \in RunnerJob
  BY <1>1 DEF RunnerJob
<1>9. runner' \in [Runners -> RunnerJob] /\ runner' = [runner EXCEPT ![k] = job]
  BY <1>3, <1>8 DEF Resume, FeedInvariant, FeedTypeOK
<1>10. RunnerKnows(runner[k])'
  <2>1. runner'[k] = job
    BY <1>9 DEF FeedInvariant, FeedTypeOK
  <2>2. Recorded' = Recorded
    BY <1>3 DEF Recorded
  <2>3. \A e \in (q.ids \ q.missing) \cap live : "ROW" \in overlay[q.r][e]
    BY <1>1 DEF RunnerKnows, HasRow
  <2>4. \A e \in q.missing \cap live : "READ" \in overlay[q.r][e]
    BY <1>1 DEF RunnerKnows
  <2>5. \A e \in q.ids \cap live' : "READ" \in overlay'[q.r][e]
    <3> SUFFICES ASSUME NEW e \in q.ids, e \in live PROVE "READ" \in overlay'[q.r][e]
      BY <1>3
    <3>1. CASE e \in q.missing
      BY <1>2, <1>4, <2>4, <3>1
    <3>2. CASE e \notin q.missing
      BY <1>2, <1>4, <2>3, <3>2
    <3> QED
      BY <3>1, <3>2
  <2>6. job.pc = "marked" /\ job.r = q.r /\ job.ids = q.ids /\ job.missing = q.missing
    BY <1>1 DEF RunnerJob
  <2> HIDE DEF job
  <2> QED
    BY <1>1, <1>2, <2>1, <2>2, <2>5, <2>6 DEF RunnerKnows
<1>11. \A j \in Runners : runner'[j] = runner[j] \/ RunnerKnows(runner[j])'
  BY <1>9, <1>10 DEF FeedInvariant, FeedTypeOK
<1> QED
  BY <1>3, <1>6, <1>7, <1>9, <1>11, MarkingStep

-----------------------------------------------------------------------------
\* The feed reads what is dismissed, then the page.
LEMMA FeedDismissedHolds ==
  ASSUME FeedInvariant, NEW k \in Runners, NEW r \in Readers, FeedDismissed(k, r)
  PROVE  FeedInvariant'
<1> DEFINE hidden == {e \in Entries : "DISMISSED" \in overlay[r][e]}
           job == [Idle EXCEPT !.pc = "rows", !.r = r, !.hidden = hidden]
<1>1. job \in RunnerJob
  BY DEF Idle, RunnerJob
<1>2. RunnerKnows(job)
  BY DEF RunnerKnows, Idle
<1> QED
  BY <1>1, <1>2, QuietStep DEF FeedDismissed, OnlyRunner, FeedInvariant, FeedTypeOK

LEMMA FeedRowsHolds ==
  ASSUME FeedInvariant, NEW k \in Runners, FeedRows(k)
  PROVE  FeedInvariant'
<1> DEFINE q == runner[k]
           page == InScope(q.r) \ q.hidden
           job == [q EXCEPT !.pc = "page", !.ids = page]
<1>1. q \in RunnerJob /\ RunnerKnows(q) /\ q.pc = "rows"
  BY DEF FeedRows, Runs, FeedInvariant, FeedTypeOK, RunnersKnow
<1>2. page \subseteq Entries /\ page \subseteq Recorded
  BY DEF InScope, FeedInvariant, FeedTypeOK, EntriesAreKept
<1>3. job \in RunnerJob
  BY <1>1, <1>2 DEF RunnerJob
<1>4. RunnerKnows(job)
  BY <1>1, <1>2 DEF RunnerKnows, RunnerJob, InScope
<1> QED
  BY <1>3, <1>4, QuietStep DEF FeedRows, OnlyRunner, FeedInvariant, FeedTypeOK

-----------------------------------------------------------------------------
MarksStay ==
  \A r \in Readers, e \in Entries : e \in live' => overlay[r][e] \subseteq overlay'[r][e]

\* A step that leaves the marks alone takes none back.
LEMMA NoMarkMoves == overlay' = overlay => MarksStay
BY DEF MarksStay

\* The archive takes the marks of what leaves the log, and no other.
LEMMA ArchiveTakesItsMarks ==
  ASSUME FeedInvariant, NEW k \in Runners, ArchiveCommit(k)
  PROVE  MarksStay
<1>1. CASE UNCHANGED overlay
  BY <1>1, NoMarkMoves
<1>2. CASE /\ live' = live \ runner[k].ids
           /\ overlay' = [r \in Readers |-> [e \in Entries |->
                IF e \in runner[k].ids THEN {} ELSE overlay[r][e]]]
  BY <1>2 DEF MarksStay
<1> QED
  BY <1>1, <1>2 DEF ArchiveCommit

\* One mark more.
LEMMA MarkStays ==
  ASSUME FeedInvariant, NEW r \in Readers, NEW e \in Entries, NEW mark, Mark(r, e, mark)
  PROVE  MarksStay
BY DEF Mark, MarksStay, FeedInvariant, FeedTypeOK

\* One step of anybody.
LEMMA FeedStepHolds ==
  FeedInvariant /\ [FeedNext]_feedVars => FeedInvariant' /\ MarksStay
<1> SUFFICES ASSUME FeedInvariant, [FeedNext]_feedVars PROVE FeedInvariant' /\ MarksStay
  OBVIOUS
<1>1. CASE UNCHANGED feedVars
  <2>1. /\ UNCHANGED <<live, archive, topic, stamp, late, overlay, time>>
        /\ runner' = runner /\ stateFaults' = stateFaults
    BY <1>1 DEF feedVars
  <2>2. FeedInvariant'
    BY <2>1 DEF FeedInvariant, FeedTypeOK, EntriesInOrder, StampsArePast, EntriesAreKept,
       ColdStorageIsOldest, OverlayFollowsLog, RunnersKnow, RunnerKnows, HasRow, Recorded
  <2> QED
    BY <2>1, <2>2, NoMarkMoves
<1>2. CASE \E t \in Topics, s \in 0..time : WriteEntry(t, s)
  BY <1>2, WriteEntryHolds, NoMarkMoves DEF WriteEntry
<1>3. CASE Tick
  BY <1>3, TickHolds, NoMarkMoves DEF Tick
<1>4. ASSUME NEW r \in Readers, NEW e \in Entries, MarkAsRead(r, e) \/ DismissNotification(r, e)
      PROVE  FeedInvariant' /\ MarksStay
  <2>1. PICK mark \in Marks : e \in live /\ Mark(r, e, mark) /\ runner' = runner
                           /\ UNCHANGED <<live, archive, topic, stamp, late, time, stateFaults>>
    BY <1>4 DEF MarkAsRead, DismissNotification, Marks
  <2> QED
    BY <2>1, MarkHolds, MarkStays
<1>5. ASSUME NEW k \in Runners, NEW cutoff, ArchiveSelect(k, cutoff)
      PROVE  FeedInvariant' /\ MarksStay
  BY <1>5, ArchiveSelectHolds, NoMarkMoves DEF ArchiveSelect, OnlyRunner
<1>6. ASSUME NEW k \in Runners, NEW r \in Readers, MarkAllTargets(k, r) \/ FeedDismissed(k, r)
      PROVE  FeedInvariant' /\ MarksStay
  BY <1>6, MarkAllTargetsHolds, FeedDismissedHolds, NoMarkMoves
     DEF MarkAllTargets, FeedDismissed, OnlyRunner
<1>7. ASSUME NEW k \in Runners, ArchiveCopy(k) \/ MarkAllExisting(k) \/ FeedRows(k)
      PROVE  FeedInvariant' /\ MarksStay
  BY <1>7, ArchiveCopyHolds, MarkAllExistingHolds, FeedRowsHolds, NoMarkMoves
     DEF ArchiveCopy, MarkAllExisting, FeedRows, OnlyRunner
<1>8. ASSUME NEW k \in Runners, ArchiveCommit(k)
      PROVE  FeedInvariant' /\ MarksStay
  BY <1>8, ArchiveCommitHolds, ArchiveTakesItsMarks
<1>9. ASSUME NEW k \in Runners, MarkAllCreate(k) \/ MarkAllUpdate(k)
      PROVE  FeedInvariant' /\ MarksStay
  BY <1>9, MarkAllCreateHolds, MarkAllUpdateHolds DEF MarksStay
<1>10. ASSUME NEW k \in Runners, Respond(k) \/ RunnerFails(k)
       PROVE  FeedInvariant' /\ MarksStay
  <2>1. /\ Resume(k, Idle) /\ overlay' = overlay /\ stateFaults' \in Nat
        /\ UNCHANGED <<live, archive, topic, stamp, late, overlay, time>>
    BY <1>10 DEF Respond, RunnerFails, Done, OnlyRunner, FeedInvariant, FeedTypeOK
  <2>2. Idle \in RunnerJob /\ RunnerKnows(Idle)
    BY IdleKnows
  <2>3. FeedInvariant'
    BY <2>1, <2>2, QuietStep
  <2> QED
    BY <2>1, <2>3, NoMarkMoves
<1> QED
  BY <1>1, <1>2, <1>3, <1>4, <1>5, <1>6, <1>7, <1>8, <1>9, <1>10 DEF FeedNext

LEMMA FeedHolds == FeedSpec => []FeedInvariant
<1>1. FeedInit => FeedInvariant
  BY FeedInitHolds
<1>2. FeedInvariant /\ [FeedNext]_feedVars => FeedInvariant'
  BY FeedStepHolds
<1> QED
  BY <1>1, <1>2, PTL DEF FeedSpec

-----------------------------------------------------------------------------
\* The log's and the handlers' data stay what the code declares them to be.
THEOREM FeedTypesHold == FeedSpec => []FeedTypeOK
<1>1. FeedInvariant => FeedTypeOK
  BY DEF FeedInvariant
<1> QED
  BY <1>1, FeedHolds, PTL

\* Whatever runs overlap and fail, no audit entry is lost and none is in both tables.
THEOREM NoEntryIsLost == FeedSpec => []EntriesAreKept
<1>1. FeedInvariant => EntriesAreKept
  BY DEF FeedInvariant
<1> QED
  BY <1>1, FeedHolds, PTL

\* The archive never holds an entry younger than one still in the log, but for those
\* whose transaction was open when a run picked the younger one.
THEOREM ArchiveIsTheOldEnd == FeedSpec => []ColdStorageIsOldest
<1>1. FeedInvariant => ColdStorageIsOldest
  BY DEF FeedInvariant
<1> QED
  BY <1>1, FeedHolds, PTL

\* No mark survives the entry it is on.
THEOREM NoOrphanMark == FeedSpec => []OverlayFollowsLog
<1>1. FeedInvariant => OverlayFollowsLog
  BY DEF FeedInvariant
<1> QED
  BY <1>1, FeedHolds, PTL

\* "All read" is said only when all of it is, and a page keeps to what its reader
\* follows and has not dismissed.
THEOREM AnswersHold == FeedSpec => []AnswersAreTrue
<1>1. FeedInvariant => AnswersAreTrue
  BY DEF FeedInvariant, RunnersKnow, RunnerKnows, AnswersAreTrue
<1> QED
  BY <1>1, FeedHolds, PTL

\* No race of the requests that mark takes a mark back.
THEOREM NoMarkIsTakenBack == FeedSpec => MarksAreKept
<1>1. FeedInvariant /\ [FeedNext]_feedVars => [MarksStay]_feedVars
  BY FeedStepHolds
<1>2. MarksStay <=> (\A r \in Readers, e \in Entries :
                       e \in live' => overlay[r][e] \subseteq overlay'[r][e])
  BY DEF MarksStay
<1> QED
  BY <1>1, <1>2, FeedHolds, PTL DEF FeedSpec, MarksAreKept

-----------------------------------------------------------------------------
(***************************************************************************)
(* Leads, for any forms, handlers, rows and faults.                        *)
(*                                                                         *)
(* The rows are numbered without gaps (RowsInOrder), so a new row is one   *)
(* nobody works on and the CRM has not seen; a handler past the insert     *)
(* works on a row of its own form, and one that has the CRM's answer works *)
(* on a lead the CRM has (ClerksKnow).                                     *)
(***************************************************************************)

\* The rows written so far are the first of the table.
RowsInOrder == \E n \in 0..MaxDispatches : Sent = 1..n

\* What a handler knows of its row at each of its awaits.
ClerksKnow ==
  \A k \in Clerks :
    /\ clerk[k].pc \in {"crm", "settle", "fail", "answer"} =>
         clerk[k].id \in Sent /\ dispatch[clerk[k].id].form = clerk[k].form
    /\ clerk[k].pc = "settle" =>
         clerk[k].answer \in {"SENT", "DEDUPED"} /\ clerk[k].id \in crmLeads
    /\ clerk[k].pc = "answer" /\ clerk[k].answer # "FAILED" =>
         dispatch[clerk[k].id].crmId /\ clerk[k].id \in crmLeads

\* What the page is made of: a lead has a row, a sent row its lead, and a form whose
\* operator was told "created" a sent row.
LeadsHaveRows ==
  /\ \A i \in crmLeads : dispatch[i].status # "NONE"
  /\ \A i \in Dispatches : dispatch[i].status \in {"SENT", "DEDUPED"} => i \in crmLeads
  /\ \A f \in LeadForms : "CREATED" \in told[f] =>
       \E i \in Sent : dispatch[i].form = f /\ dispatch[i].crmId /\ i \in crmLeads

LeadInvariant == LeadTypeOK /\ RowsInOrder /\ ClerksKnow /\ LeadsHaveRows

\* The next number is that of a row that is not there.
LEMMA NextRowIsNew ==
  ASSUME RowsInOrder, LeadTypeOK, NEW i \in Dispatches, i = Cardinality(Sent) + 1
  PROVE  /\ i \notin Sent
         /\ dispatch[i].status = "NONE"
         /\ Sent \cup {i} = 1..i
<1>1. PICK n \in 0..MaxDispatches : Sent = 1..n
  BY DEF RowsInOrder
<1>2. n \in Nat
  BY <1>1, LeadAssumption
<1>3. Cardinality(Sent) = n
  BY <1>1, <1>2, FS_Interval
<1>4. i = n + 1 /\ i \notin Sent /\ Sent \cup {i} = 1..i
  BY <1>1, <1>2, <1>3
<1>5. QED
  BY <1>4 DEF Sent

\* Moving a handler on keeps its type.
LEMMA ClerkMoves ==
  ASSUME LeadTypeOK, NEW k \in Clerks, NEW job \in LeadJob, Proceed(k, job)
  PROVE  clerk' \in [Clerks -> LeadJob]
BY DEF LeadTypeOK, Proceed

\* The initial state.
LEMMA LeadInitHolds == LeadInit => LeadInvariant
<1> SUFFICES ASSUME LeadInit PROVE LeadInvariant
  OBVIOUS
<1>1. LeadTypeOK
  BY LeadAssumption DEF LeadInit, LeadTypeOK, DispatchRow, LeadJob, NoDispatch, AtCounter
<1>2. Sent = {}
  BY DEF LeadInit, Sent, NoDispatch
<1>3. RowsInOrder
  BY <1>2, LeadAssumption DEF RowsInOrder
<1>4. ClerksKnow
  BY DEF LeadInit, ClerksKnow, AtCounter
<1>5. LeadsHaveRows
  BY DEF LeadInit, LeadsHaveRows, NoDispatch
<1> QED
  BY <1>1, <1>3, <1>4, <1>5 DEF LeadInvariant

\* A step that writes no row and lets no lead be forgotten keeps rows in order.
LEMMA SameRows ==
  ASSUME RowsInOrder, UNCHANGED dispatch
  PROVE  RowsInOrder' /\ Sent' = Sent
BY DEF RowsInOrder, Sent

\* A row keeps its place when its status moves between the settled ones.
LEMMA SettledRows ==
  ASSUME LeadTypeOK, RowsInOrder, NEW i \in Sent,
         NEW s \in {"FAILED", "SENT", "DEDUPED"}, LeadTypeOK',
         \A j \in Dispatches : dispatch'[j].status = IF j = i THEN s ELSE dispatch[j].status
  PROVE  RowsInOrder' /\ Sent' = Sent
<1>1. Sent' = Sent
  BY DEF Sent
<1> QED
  BY <1>1 DEF RowsInOrder

\* Every step of a handler, a lost call and a restart keep the invariant.
LEMMA LeadStepHolds ==
  ASSUME LeadInvariant, [LeadNext]_leadVars
  PROVE  LeadInvariant'
<1> USE DEF LeadInvariant
<1>1. ASSUME NEW k \in Clerks, NEW f \in LeadForms, Submit(k, f)
      PROVE  LeadInvariant'
  <2>1. LeadTypeOK'
    <3>1. [AtCounter EXCEPT !.pc = "lookup", !.form = f] \in LeadJob
      BY <1>1 DEF LeadTypeOK, LeadJob, AtCounter
    <3> QED
      BY <1>1, <3>1, ClerkMoves DEF Submit, LeadTypeOK
  <2>2. RowsInOrder' /\ Sent' = Sent
    BY <1>1, SameRows DEF Submit
  <2>3. ClerksKnow'
    BY <1>1, <2>2 DEF Submit, LeadTypeOK, LeadJob, DispatchRow, ClerksKnow, AtCounter, Proceed
  <2>4. LeadsHaveRows'
    BY <1>1, <2>2 DEF Submit, LeadsHaveRows
  <2> QED
    BY <2>1, <2>2, <2>3, <2>4
<1>2. ASSUME NEW k \in Clerks, LookupRefused(k)
      PROVE  LeadInvariant'
  <2>1. LeadTypeOK'
    <3>1. AtCounter \in LeadJob
      BY <1>2 DEF LeadTypeOK, LeadJob, AtCounter
    <3> QED
      BY <1>2, <3>1, ClerkMoves DEF LookupRefused, LeadTypeOK, Tell
  <2>2. RowsInOrder' /\ Sent' = Sent
    BY <1>2, SameRows DEF LookupRefused
  <2>3. ClerksKnow'
    BY <1>2, <2>2 DEF LookupRefused, LeadTypeOK, LeadJob, DispatchRow, ClerksKnow, AtCounter, Proceed, Tell
  <2>4. LeadsHaveRows'
    BY <1>2, <2>2 DEF LookupRefused, LeadTypeOK, LeadJob, DispatchRow, LeadsHaveRows, Tell
  <2> QED
    BY <2>1, <2>2, <2>3, <2>4
<1>3. ASSUME NEW k \in Clerks, LookupDone(k)
      PROVE  LeadInvariant'
  <2>1. LeadTypeOK'
    <3>1. [clerk[k] EXCEPT !.pc = "insert"] \in LeadJob
      BY <1>3 DEF LeadTypeOK, LeadJob, AtCounter
    <3> QED
      BY <1>3, <3>1, ClerkMoves DEF LookupDone, LeadTypeOK
  <2>2. RowsInOrder' /\ Sent' = Sent
    BY <1>3, SameRows DEF LookupDone
  <2>3. ClerksKnow'
    BY <1>3, <2>2 DEF LookupDone, LeadTypeOK, LeadJob, DispatchRow, ClerksKnow, Proceed
  <2>4. LeadsHaveRows'
    BY <1>3, <2>2 DEF LookupDone, LeadsHaveRows
  <2> QED
    BY <2>1, <2>2, <2>3, <2>4
<1>4. ASSUME NEW k \in Clerks, InsertRow(k)
      PROVE  LeadInvariant'
  <2>1. PICK i \in Dispatches :
          /\ i = Cardinality(Sent) + 1
          /\ Doing(k, "insert")
          /\ dispatch' = [dispatch EXCEPT ![i] =
               [form |-> clerk[k].form, status |-> "FAILED", reason |-> "PENDING", crmId |-> FALSE]]
          /\ Proceed(k, [clerk[k] EXCEPT !.pc = "crm", !.id = i])
          /\ UNCHANGED <<crmLeads, told, leadFaults>>
    BY <1>4 DEF InsertRow
  <2>2. i \notin Sent /\ dispatch[i].status = "NONE" /\ Sent \cup {i} = 1..i
    BY <2>1, NextRowIsNew
  <2>3. LeadTypeOK'
    <3>1. [clerk[k] EXCEPT !.pc = "crm", !.id = i] \in LeadJob
      BY DEF LeadTypeOK, LeadJob
    <3>2. [form |-> clerk[k].form, status |-> "FAILED", reason |-> "PENDING", crmId |-> FALSE]
            \in DispatchRow
      BY DEF LeadTypeOK, LeadJob, DispatchRow
    <3> QED
      BY <2>1, <3>1, <3>2, ClerkMoves DEF LeadTypeOK
  <2>4. Sent' = Sent \cup {i}
    BY <2>1 DEF Sent, LeadTypeOK, DispatchRow
  <2>5. RowsInOrder'
    BY <2>2, <2>4 DEF RowsInOrder, Dispatches
  <2>6. ClerksKnow'
    BY <2>1, <2>2, <2>4 DEF LeadTypeOK, LeadJob, DispatchRow, ClerksKnow, Proceed, Doing
  <2>7. LeadsHaveRows'
    BY <2>1, <2>2, <2>4 DEF LeadTypeOK, LeadJob, DispatchRow, LeadsHaveRows
  <2> QED
    BY <2>3, <2>5, <2>6, <2>7
<1>5. ASSUME NEW k \in Clerks, CrmAccepts(k)
      PROVE  LeadInvariant'
  <2>1. clerk[k].id \in Sent /\ clerk[k].id \in Dispatches
    BY <1>5 DEF CrmAccepts, Doing, ClerksKnow, Sent
  <2>2. LeadTypeOK'
    <3>1. [clerk[k] EXCEPT !.pc = "settle",
            !.answer = IF clerk[k].id \in crmLeads THEN "DEDUPED" ELSE "SENT"] \in LeadJob
      BY <1>5, <2>1 DEF LeadTypeOK, LeadJob, AtCounter
    <3> QED
      BY <1>5, <2>1, <3>1, ClerkMoves DEF CrmAccepts, LeadTypeOK
  <2>3. RowsInOrder' /\ Sent' = Sent
    BY <1>5, SameRows DEF CrmAccepts
  <2>4. ClerksKnow'
    BY <1>5, <2>3 DEF CrmAccepts, LeadTypeOK, LeadJob, DispatchRow, ClerksKnow, Proceed, Doing
  <2>5. LeadsHaveRows'
    BY <1>5, <2>1, <2>3 DEF CrmAccepts, LeadsHaveRows, Sent
  <2> QED
    BY <2>2, <2>3, <2>4, <2>5
<1>6. ASSUME NEW k \in Clerks, CrmRefuses(k)
      PROVE  LeadInvariant'
  <2>1. LeadTypeOK'
    <3>1. [clerk[k] EXCEPT !.pc = "fail"] \in LeadJob
      BY <1>6 DEF LeadTypeOK, LeadJob, AtCounter
    <3> QED
      BY <1>6, <3>1, ClerkMoves DEF CrmRefuses, LeadTypeOK
  <2>2. RowsInOrder' /\ Sent' = Sent
    BY <1>6, SameRows DEF CrmRefuses
  <2>3. ClerksKnow'
    BY <1>6, <2>2 DEF CrmRefuses, LeadTypeOK, LeadJob, DispatchRow, ClerksKnow, Proceed, Doing
  <2>4. LeadsHaveRows'
    BY <1>6, <2>2 DEF CrmRefuses, LeadsHaveRows
  <2> QED
    BY <2>1, <2>2, <2>3, <2>4
<1>7. ASSUME NEW k \in Clerks, CrmAnswerLost(k)
      PROVE  LeadInvariant'
  <2>1. clerk[k].id \in Sent /\ clerk[k].id \in Dispatches
    BY <1>7 DEF CrmAnswerLost, Doing, ClerksKnow, Sent
  <2>2. LeadTypeOK'
    <3>1. [clerk[k] EXCEPT !.pc = "fail"] \in LeadJob
      BY <1>7, <2>1 DEF LeadTypeOK, LeadJob, AtCounter
    <3> QED
      BY <1>7, <2>1, <3>1, ClerkMoves DEF CrmAnswerLost, LeadTypeOK
  <2>3. RowsInOrder' /\ Sent' = Sent
    BY <1>7, SameRows DEF CrmAnswerLost
  <2>4. ClerksKnow'
    BY <1>7, <2>3 DEF CrmAnswerLost, LeadTypeOK, LeadJob, DispatchRow, ClerksKnow, Proceed, Doing
  <2>5. LeadsHaveRows'
    BY <1>7, <2>1, <2>3 DEF CrmAnswerLost, LeadsHaveRows, Sent
  <2> QED
    BY <2>2, <2>3, <2>4, <2>5
<1>8. ASSUME NEW k \in Clerks, SettleRow(k)
      PROVE  LeadInvariant'
  <2>1. /\ clerk[k].id \in Sent /\ clerk[k].id \in Dispatches
        /\ clerk[k].answer \in {"SENT", "DEDUPED"} /\ clerk[k].id \in crmLeads
    BY <1>8 DEF SettleRow, Doing, ClerksKnow, Sent
  <2>2. LeadTypeOK'
    <3>1. [clerk[k] EXCEPT !.pc = "answer"] \in LeadJob
      BY <1>8, <2>1 DEF LeadTypeOK, LeadJob, AtCounter
    <3>2. [dispatch[clerk[k].id] EXCEPT !.status = clerk[k].answer, !.reason = "NONE", !.crmId = TRUE]
            \in DispatchRow
      <4>1. dispatch[clerk[k].id] \in DispatchRow
        BY <2>1 DEF LeadTypeOK
      <4> QED
        BY <2>1, <4>1 DEF DispatchRow
    <3>3. dispatch' = [dispatch EXCEPT ![clerk[k].id] =
            [dispatch[clerk[k].id] EXCEPT !.status = clerk[k].answer, !.reason = "NONE", !.crmId = TRUE]]
      BY <1>8, <2>1 DEF SettleRow, LeadTypeOK
    <3>4. dispatch' \in [Dispatches -> DispatchRow]
      BY <3>2, <3>3 DEF LeadTypeOK
    <3> QED
      BY <1>8, <2>1, <3>1, ClerkMoves, <3>4 DEF SettleRow, LeadTypeOK
  <2>3. \A j \in Dispatches : dispatch'[j].status =
          IF j = clerk[k].id THEN clerk[k].answer ELSE dispatch[j].status
    BY <1>8, <2>1 DEF SettleRow, LeadTypeOK
  <2>4. RowsInOrder' /\ Sent' = Sent
    BY <2>1, <2>2, <2>3, SettledRows
  <2>5. ClerksKnow'
    BY <1>8, <2>1, <2>4 DEF SettleRow, LeadTypeOK, LeadJob, DispatchRow, ClerksKnow, Proceed, Doing
  <2>6. \A j \in Dispatches : /\ dispatch'[j].form = dispatch[j].form
                              /\ dispatch[j].crmId => dispatch'[j].crmId
    BY <1>8, <2>1 DEF SettleRow, LeadTypeOK, DispatchRow
  <2>7. LeadsHaveRows'
    <3>1. \A j \in crmLeads' : dispatch'[j].status # "NONE"
      BY <1>8, <2>1, <2>3 DEF SettleRow, LeadTypeOK, LeadsHaveRows
    <3>2. \A j \in Dispatches : dispatch'[j].status \in {"SENT", "DEDUPED"} => j \in crmLeads'
      BY <1>8, <2>1, <2>3 DEF SettleRow, LeadsHaveRows
    <3>3. \A f \in LeadForms : "CREATED" \in told'[f] =>
            \E j \in Sent' : dispatch'[j].form = f /\ dispatch'[j].crmId /\ j \in crmLeads'
      BY <1>8, <2>4, <2>6 DEF SettleRow, LeadsHaveRows, Sent
    <3> QED
      BY <3>1, <3>2, <3>3 DEF LeadsHaveRows
  <2> QED
    BY <2>2, <2>4, <2>5, <2>7
<1>9. ASSUME NEW k \in Clerks, SettleFails(k)
      PROVE  LeadInvariant'
  <2>1. LeadTypeOK'
    <3>1. [clerk[k] EXCEPT !.pc = "fail", !.answer = "NONE"] \in LeadJob
      BY <1>9 DEF LeadTypeOK, LeadJob, AtCounter
    <3> QED
      BY <1>9, <3>1, ClerkMoves DEF SettleFails, LeadTypeOK
  <2>2. RowsInOrder' /\ Sent' = Sent
    BY <1>9, SameRows DEF SettleFails
  <2>3. ClerksKnow'
    BY <1>9, <2>2 DEF SettleFails, LeadTypeOK, LeadJob, DispatchRow, ClerksKnow, Proceed, Doing
  <2>4. LeadsHaveRows'
    BY <1>9, <2>2 DEF SettleFails, LeadsHaveRows
  <2> QED
    BY <2>1, <2>2, <2>3, <2>4
<1>10. ASSUME NEW k \in Clerks, FailRow(k)
       PROVE  LeadInvariant'
  <2>1. clerk[k].id \in Sent /\ clerk[k].id \in Dispatches
    BY <1>10 DEF FailRow, Doing, ClerksKnow, Sent
  <2>2. LeadTypeOK'
    <3>1. [clerk[k] EXCEPT !.pc = "answer", !.answer = "FAILED"] \in LeadJob
      BY <1>10, <2>1 DEF LeadTypeOK, LeadJob, AtCounter
    <3>2. [dispatch[clerk[k].id] EXCEPT !.status = "FAILED", !.reason = "ERROR"]
            \in DispatchRow
      <4>1. dispatch[clerk[k].id] \in DispatchRow
        BY <2>1 DEF LeadTypeOK
      <4> QED
        BY <2>1, <4>1 DEF DispatchRow
    <3>3. dispatch' = [dispatch EXCEPT ![clerk[k].id] =
            [dispatch[clerk[k].id] EXCEPT !.status = "FAILED", !.reason = "ERROR"]]
      BY <1>10, <2>1 DEF FailRow, LeadTypeOK
    <3>4. dispatch' \in [Dispatches -> DispatchRow]
      BY <3>2, <3>3 DEF LeadTypeOK
    <3> QED
      BY <1>10, <2>1, <3>1, ClerkMoves, <3>4 DEF FailRow, LeadTypeOK
  <2>3. \A j \in Dispatches : dispatch'[j].status =
          IF j = clerk[k].id THEN "FAILED" ELSE dispatch[j].status
    BY <1>10, <2>1 DEF FailRow, LeadTypeOK
  <2>4. RowsInOrder' /\ Sent' = Sent
    BY <2>1, <2>2, <2>3, SettledRows
  <2>5. ClerksKnow'
    BY <1>10, <2>1, <2>4 DEF FailRow, LeadTypeOK, LeadJob, DispatchRow, ClerksKnow, Proceed, Doing
  <2>6. LeadsHaveRows'
    BY <1>10, <2>1, <2>4 DEF FailRow, LeadTypeOK, LeadJob, DispatchRow, LeadsHaveRows
  <2> QED
    BY <2>2, <2>4, <2>5, <2>6
<1>11. ASSUME NEW k \in Clerks, Reply(k)
       PROVE  LeadInvariant'
  <2>1. LeadTypeOK'
    <3>1. AtCounter \in LeadJob
      BY <1>11 DEF LeadTypeOK, LeadJob, AtCounter
    <3> QED
      BY <1>11, <3>1, ClerkMoves DEF Reply, LeadTypeOK, Tell
  <2>2. RowsInOrder' /\ Sent' = Sent
    BY <1>11, SameRows DEF Reply
  <2>3. ClerksKnow'
    BY <1>11, <2>2 DEF Reply, LeadTypeOK, LeadJob, DispatchRow, ClerksKnow, AtCounter, Proceed, Tell
  <2>4. clerk[k].answer # "FAILED" =>
          /\ clerk[k].id \in Sent /\ dispatch[clerk[k].id].form = clerk[k].form
          /\ dispatch[clerk[k].id].crmId /\ clerk[k].id \in crmLeads
    BY <1>11 DEF Reply, Doing, ClerksKnow
  <2>5. LeadsHaveRows'
    BY <1>11, <2>2, <2>4 DEF Reply, LeadTypeOK, LeadJob, DispatchRow, LeadsHaveRows, Tell
  <2> QED
    BY <2>1, <2>2, <2>3, <2>5
<1>12. ASSUME NEW k \in Clerks, ClerkLost(k)
       PROVE  LeadInvariant'
  <2>1. LeadTypeOK'
    <3>1. AtCounter \in LeadJob
      BY <1>12 DEF LeadTypeOK, LeadJob, AtCounter
    <3> QED
      BY <1>12, <3>1, ClerkMoves DEF ClerkLost, LeadTypeOK
  <2>2. RowsInOrder' /\ Sent' = Sent
    BY <1>12, SameRows DEF ClerkLost
  <2>3. ClerksKnow'
    BY <1>12, <2>2 DEF ClerkLost, LeadTypeOK, LeadJob, DispatchRow, ClerksKnow, AtCounter, Proceed
  <2>4. LeadsHaveRows'
    BY <1>12, <2>2 DEF ClerkLost, LeadsHaveRows
  <2> QED
    BY <2>1, <2>2, <2>3, <2>4
<1>13. CASE UNCHANGED leadVars
  BY <1>13 DEF leadVars, LeadTypeOK, RowsInOrder, Sent, ClerksKnow, LeadsHaveRows
<1> QED
  BY <1>1, <1>2, <1>3, <1>4, <1>5, <1>6, <1>7, <1>8, <1>9, <1>10, <1>11, <1>12, <1>13
     DEF LeadNext, LeadStep, LeadFault

\* A row is on the page, or the page is full of newer ones: the rows are finitely
\* many, so they can be counted.
LEMMA RowsAreListed ==
  ASSUME LeadInvariant, NEW i \in Sent
  PROVE  Listed(i)
<1>1. PICK n \in 0..MaxDispatches : Sent = 1..n
  BY DEF LeadInvariant, RowsInOrder
<1>2. IsFiniteSet(Sent)
  BY <1>1, LeadAssumption, FS_Interval
<1>3. IsFiniteSet(Newer(i))
  BY <1>2, FS_Subset DEF Newer
<1>4. Cardinality(Newer(i)) \in Nat
  BY <1>3, FS_CardinalityType
<1> QED
  BY <1>4, LeadAssumption DEF Listed, Page

\* Whatever is lost, clicked twice or cut short, and whatever the limits of the page
\* and of the CRM's list: a lead the CRM took is on the page or behind a page of
\* newer rows, a sent row is shown with its lead unless the CRM has too many to
\* list, and who was told "created" finds the row, under the same limit.
THEOREM EveryLeadIsShown == LeadSpec => []EveryLeadIsOnThePage
<1>1. LeadInvariant /\ [LeadNext]_leadVars => LeadInvariant'
  BY LeadStepHolds
<1>2. LeadInvariant => EveryLeadIsOnThePage
  <2> SUFFICES ASSUME LeadInvariant PROVE EveryLeadIsOnThePage
    OBVIOUS
  <2>1. \A i \in crmLeads : i \in Sent
    BY DEF LeadInvariant, LeadTypeOK, LeadsHaveRows, Sent
  <2>2. \A i \in crmLeads : Listed(i)
    BY <2>1, RowsAreListed
  <2>3. ASSUME NEW list \in LiveLists, NEW i \in Page,
               Shown(i, list).status \in {"SENT", "DEDUPED"}
        PROVE  Shown(i, list).live \/ Cardinality(crmLeads) > CrmLimit
    <3>1. i \in crmLeads
      BY <2>3 DEF Page, Sent, Shown, LeadInvariant, LeadsHaveRows
    <3>2. IsFiniteSet(crmLeads)
      <4>1. PICK n \in 0..MaxDispatches : Sent = 1..n
        BY DEF LeadInvariant, RowsInOrder
      <4>2. IsFiniteSet(Sent)
        BY <4>1, LeadAssumption, FS_Interval
      <4> QED
        BY <2>1, <4>2, FS_Subset
    <3>3. Cardinality(crmLeads) \in Nat
      BY <3>2, FS_CardinalityType
    <3>4. CASE Cardinality(crmLeads) <= CrmLimit
      <4>1. list = crmLeads
        BY <3>4 DEF LiveLists
      <4> QED
        BY <3>1, <4>1 DEF Shown
    <3> QED
      BY <3>3, <3>4, LeadAssumption
  <2>4. ASSUME NEW f \in LeadForms, "CREATED" \in told[f]
        PROVE  \E i \in crmLeads \cap Sent :
                 dispatch[i].form = f /\ dispatch[i].crmId /\ Listed(i)
    BY <2>2, <2>4 DEF LeadInvariant, LeadsHaveRows
  <2> QED
    BY <2>2, <2>3, <2>4 DEF EveryLeadIsOnThePage
<1> QED
  BY LeadInitHolds, <1>1, <1>2, PTL DEF LeadSpec

\* Rows, handlers and answers keep their types.
THEOREM LeadTypesHold == LeadSpec => []LeadTypeOK
<1>1. LeadInvariant /\ [LeadNext]_leadVars => LeadInvariant'
  BY LeadStepHolds
<1>2. LeadInvariant => LeadTypeOK
  BY DEF LeadInvariant
<1> QED
  BY LeadInitHolds, <1>1, <1>2, PTL DEF LeadSpec

-----------------------------------------------------------------------------
(***************************************************************************)
(* The calendar, for every clock: the quarter windows tile the running     *)
(* financial year.  The claim refuted by TLC, QuarterStartsInItsYear, is   *)
(* decided here as well: it fails in Q4 and only there.                    *)
(***************************************************************************)

Clock == [year : Nat, month : 0..11]
OnTheClock == now \in Clock

\* The clock is a date.
LEMMA ClockHolds == CalendarSpec => []OnTheClock
<1>1. CalendarInit => OnTheClock
  BY CalendarAssumption DEF CalendarInit, Clock, OnTheClock
<1>2. OnTheClock /\ [NextMonth]_now => OnTheClock'
  BY DEF NextMonth, Clock, OnTheClock
<1> QED
  BY <1>1, <1>2, PTL DEF CalendarSpec

\* A month offset lies in exactly one quarter.
LEMMA OneQuarterOfTwelve ==
  ASSUME NEW fy \in Int, NEW month \in 12 * fy + 3 .. 12 * fy + 14
  PROVE  \E q \in Quarters :
           /\ month \in 12 * fy + FirstMonth(q) .. 12 * fy + FirstMonth(q) + 2
           /\ \A r \in Quarters \ {q} :
                month \notin 12 * fy + FirstMonth(r) .. 12 * fy + FirstMonth(r) + 2
<1>1. /\ FirstMonth("Q1") = 3 /\ FirstMonth("Q2") = 6
      /\ FirstMonth("Q3") = 9 /\ FirstMonth("Q4") = 12
  BY DEF FirstMonth
<1>2. PICK base \in Int : base = 12 * fy
  OBVIOUS
<1>3. CASE month \in base + 3 .. base + 5
  BY <1>1, <1>2, <1>3 DEF Quarters
<1>4. CASE month \in base + 6 .. base + 8
  BY <1>1, <1>2, <1>4 DEF Quarters
<1>5. CASE month \in base + 9 .. base + 11
  BY <1>1, <1>2, <1>5 DEF Quarters
<1>6. CASE month \in base + 12 .. base + 14
  BY <1>1, <1>2, <1>6 DEF Quarters
<1> QED
  BY <1>2, <1>3, <1>4, <1>5, <1>6

-----------------------------------------------------------------------------
\* Every month of the running financial year is in one quarter window and no
\* other, and the running month is one of that year (fyQuarterRange).
THEOREM WindowsTileTheYear == CalendarSpec => []QuartersTileTheYear
<1>1. OnTheClock => QuartersTileTheYear
  <2> SUFFICES ASSUME OnTheClock PROVE QuartersTileTheYear
    OBVIOUS
  <2>1. FyYear \in Int /\ now.year \in Int /\ now.month \in 0..11
    BY DEF OnTheClock, Clock, FyYear
  <2>2. StartOfFy = 12 * FyYear + 3
    BY DEF StartOfFy, MonthOf
  <2>3. StartOfFy .. StartOfFy + 11 = 12 * FyYear + 3 .. 12 * FyYear + 14
    BY <2>1, <2>2
  <2>4. \A q \in Quarters : FyQuarterRange(q)
          = 12 * FyYear + FirstMonth(q) .. 12 * FyYear + FirstMonth(q) + 2
    BY DEF FyQuarterRange, MonthOf
  <2>5. \A month \in StartOfFy .. StartOfFy + 11 :
          \E q \in Quarters : /\ month \in FyQuarterRange(q)
                              /\ \A r \in Quarters \ {q} : month \notin FyQuarterRange(r)
    <3>1. PICK fy \in Int : fy = FyYear
      BY <2>1
    <3> TAKE month \in StartOfFy .. StartOfFy + 11
    <3>2. month \in 12 * fy + 3 .. 12 * fy + 14
      BY <2>3, <3>1
    <3>3. \E q \in Quarters :
            /\ month \in 12 * fy + FirstMonth(q) .. 12 * fy + FirstMonth(q) + 2
            /\ \A r \in Quarters \ {q} :
                 month \notin 12 * fy + FirstMonth(r) .. 12 * fy + FirstMonth(r) + 2
      BY <3>1, <3>2, OneQuarterOfTwelve
    <3>4. \A q \in Quarters : FyQuarterRange(q)
            = 12 * fy + FirstMonth(q) .. 12 * fy + FirstMonth(q) + 2
      BY <2>4, <3>1
    <3> QED
      BY <3>3, <3>4
  <2>6. ThisMonth \in StartOfFy .. StartOfFy + 11
    BY <2>1 DEF ThisMonth, StartOfFy, MonthOf, FyYear
  <2> QED
    BY <2>5, <2>6 DEF QuartersTileTheYear
<1> QED
  BY <1>1, ClockHolds, PTL

\* startOfFyQuarterUTC is right in the first three quarters and wrong in every
\* month of the fourth, January to March, in every year.
THEOREM QuarterStartIsWrongInQ4Only ==
  CalendarSpec => [](QuarterStartsInItsYear <=> now.month >= 3)
<1>1. OnTheClock => (QuarterStartsInItsYear <=> now.month >= 3)
  <2> SUFFICES ASSUME OnTheClock PROVE QuarterStartsInItsYear <=> now.month >= 3
    OBVIOUS
  <2>1. now.year \in Int /\ now.month \in 0..11
    BY DEF OnTheClock, Clock
  <2>2. CASE now.month \in 3..5
    BY <2>1, <2>2 DEF QuarterStartsInItsYear, StartOfFy, StartOfFyQuarter, MonthOf, FyYear, ThisMonth
  <2>3. CASE now.month \in 6..8
    BY <2>1, <2>3 DEF QuarterStartsInItsYear, StartOfFy, StartOfFyQuarter, MonthOf, FyYear, ThisMonth
  <2>4. CASE now.month \in 9..11
    BY <2>1, <2>4 DEF QuarterStartsInItsYear, StartOfFy, StartOfFyQuarter, MonthOf, FyYear, ThisMonth
  <2>5. CASE now.month \in 0..2
    BY <2>1, <2>5 DEF QuarterStartsInItsYear, StartOfFy, StartOfFyQuarter, MonthOf, FyYear, ThisMonth
  <2> QED
    BY <2>1, <2>2, <2>3, <2>4, <2>5
<1> QED
  BY <1>1, ClockHolds, PTL

-----------------------------------------------------------------------------
(***************************************************************************)
(* The office.                                                             *)
(***************************************************************************)

\* A step of the office is a step of the desk at work and of no other.
LEMMA OneDeskAtWork ==
  ASSUME [OfficeNext]_officeVars
  PROVE  /\ [StaffNext]_staffVars
         /\ [LeadNext]_leadVars
         /\ [MeetingNext]_meetingVars
         /\ [FeedNext]_feedVars
         /\ [WorkbookNext]_workbookVars
         /\ [NextMonth]_now
<1>1. CASE UNCHANGED officeVars
  BY <1>1 DEF officeVars
<1>2. CASE OfficeNext
  BY <1>1, <1>2 DEF OfficeNext, Closed
<1> QED
  BY <1>1, <1>2

\* The office is its desks side by side: whatever a desk promises alone, in any of
\* the theorems above, it keeps in the office (the services share one process and
\* one database, and none of these tables).
THEOREM OfficeIsItsDesks ==
  OfficeSpec => /\ StaffSpec /\ LeadSpec /\ MeetingSpec
                /\ FeedSpec /\ WorkbookSpec /\ CalendarSpec
<1>1. OfficeInit => /\ StaffInit /\ LeadInit /\ MeetingInit
                    /\ FeedInit /\ WorkbookInit /\ CalendarInit
  BY DEF OfficeInit
<1>2. [OfficeNext]_officeVars => /\ [StaffNext]_staffVars
                                /\ [LeadNext]_leadVars
                                /\ [MeetingNext]_meetingVars
                                /\ [FeedNext]_feedVars
                                /\ [WorkbookNext]_workbookVars
                                /\ [NextMonth]_now
  BY OneDeskAtWork
<1> QED
  BY <1>1, <1>2, PTL DEF OfficeSpec, StaffSpec, LeadSpec, MeetingSpec, FeedSpec,
                         WorkbookSpec, CalendarSpec

\* The tables of every desk, and what its handlers carry over an await, keep their
\* types, whichever of the desks is at work.
THEOREM OfficeTypesHold == OfficeSpec => []OfficeTypeOK
<1>1. /\ StaffTypeOK /\ LeadTypeOK /\ MeetingTypeOK /\ FeedTypeOK /\ WorkbookTypeOK
         => OfficeTypeOK
  BY DEF OfficeTypeOK
<1> QED
  BY <1>1, OfficeIsItsDesks, StaffTypesHold, LeadTypesHold, MeetingsStayWellTyped,
     FeedTypesHold, WorkbookTypesHold, PTL
=============================================================================
