# A TLA+ development of the SAM backend

The SAM backend (Express, Prisma, PostgreSQL; one Node process) is the service
that account managers use to raise commercial changes on the customers of an
ISP, to have them approved, and to carry out disconnections. Around that
workflow it keeps staff, leads, meetings, an audit log with a notification feed,
spreadsheet uploads and dashboards. This directory holds TLA+ modules of it, TLC
instances of them, and TLAPS proofs about them. Paths below are relative to the
repository.

Run `tlc -config X.cfg M` for the runs of `PROJECT.json`, and `tlapm M.tla` for
the proofs, M one of `ApprovalChainProofs`, `CrmBookProofs`,
`ChangeContractProofs`, `FiguresProofs`, `EventInboxProofs`, `StaffDeskProofs`,
`WorkbooksProofs`, `OfficeProofs`.

## 1. The system

### Components

| component | state it keeps | operations | what makes it correct |
|---|---|---|---|
| commercial changes, BASE book (`src/modules/commercial-changes/commercial-changes.service.ts`) | `commercial_changes`, status and charge of `accounts` | `commit`, `autoRetainPendingDisconnection`, `retentionDecision`, `backfillDisconnection`, `sweepDueTerminations`, `applyChangeToAccount` | every change is queued somewhere; a change takes effect only as its workflow says; the notice period is served; a termination is booked |
| commercial changes, NEW book (same file) | the same tables, the CRM's order behind a row | the NEW branch of `commit`, `enterProbableChurn`, `enterPendingQuickApproval`, `refreshCrmStatus`, `setActivationDate` | the charge follows the CRM's order; nobody waits for a decision that was made; an account that is closing has a date; a notice is cut short by a completed order only |
| approval chain (`approvals.service.ts`) | `approvalStatus` and the APPROVAL_* audit entries | `decide` (`approveChange`, `applyTerminalApproval`, `rejectChange`) | every gate is signed; approved means applied |
| SAM quick-disconnection queue | rows of mode QUICK | `samQuickDecision`, `enterPendingQuickApproval` | a parked account has an undecided request |
| webhook inbox (`src/modules/integrations`) | `integration_events` | the three webhooks, `recordRejection`, `raiseDisconnectionServiceOrder` | an event takes effect once; what is acknowledged took effect; the status of a row is true |
| CRM clients (`src/services/integrations/crm`) | none | service orders, quick disconnections, leads | a lost answer leaves a state somebody can act on |
| accounts desk (`src/modules/accounts`) | `accounts` | `update`, `assign` | an edit does not break a workflow under way; an owner was a SAM, or an import's; only an ADMIN reassigns |
| users and authentication (`src/modules/users`, `src/modules/auth`) | `users`, session cookies | create, edit, delete, login | references name users who earned them; a stale role ends with its token |
| leads (`src/modules/leads`) | `lead_dispatches` | `create`, `commit`, the live-status page | a lead the CRM took is missing from the page only behind a page full of newer ones |
| meetings and minutes (`src/modules/meetings`) | `meetings`, last-meeting and last-minutes dates of `accounts` | `log`, `markHeld`, `sendMomEmail`, `completeMeeting`, `submitMom`, `remove` | the dates shown are dates that happened; minutes are mailed or their failure is on record |
| audit log and archive (`src/modules/audit`, `src/lib/audit.ts`) | `audit_logs`, `audit_logs_archive` | `recordAudit`, `archiveOlderThan` | no entry lost or doubled; the archive is the old end |
| in-app notifications (`src/modules/notifications`) | `notification_states` | list, mark read, dismiss, mark all read | marks are kept, and die with their entry |
| account workbook import (`src/modules/accounts/import`) | `accounts` | parse, look up, update or create, row by row | a workbook changes what its own rows say |
| bulk import of changes (`commercial-changes/bulk-import`) | rows and charges | snapshot, sort, validate, a transaction per row | the rows of a customer chain |
| dashboards, probable churn, sidebar (`src/modules/dashboard`, ...) | none (they run the sweep) | reads | the waterfall reconciles; quarters tile the year |
| feedback (`src/modules/feedback`) | `feedback` | public submission | it names a SAM who exists |
| e-mail, storage, server, schema, scripts | see `PROJECT.json` | | |

### How they interact

There is no scheduler and no queue. Handlers share two tables, `accounts` and
`commercial_changes`; each reads, awaits something (an upload, the CRM, another
query) and then writes. Due terminations are carried out lazily: the dashboard
and list endpoints call `sweepDueTerminations` before they read. The CRM calls
the webhooks and is called for service orders. Both books (BASE: customers from
before SAM; NEW: customers the CRM activated) go through `commit`; a BASE change
enters the internal approval chain, a NEW one the CRM's. Every service writes
the audit log; the notification feed is read off it. The other desks touch the
workflow through columns it does not decide by (owner, meeting dates), the two
imports and the ADMIN edit excepted, which write charge and status.

### What is hard

1. Between two awaits of one handler any other handler may run. Checks are
   made on a row read outside the transaction that writes it, and writes go by
   id: a decision is applied to a row that has moved on.
2. `commit` writes the row in one transaction and routes it in another.
3. The `FOR UPDATE SKIP LOCKED` of the sweep runs outside a transaction.
4. The retention endpoint, the older SAM quick queue, the backfill and the ADMIN
   edit all touch rows and accounts the approval chain owns.
5. The webhook reserves the event id, applies the event and marks the row in
   separate commits; the CRM times out, retries and is operated by people who
   replay deliveries.
6. The CRM reports a decision twice, by two webhooks that both write row and
   account, in either order; its orders are polled besides.
7. Dates: the window and the notice start on the day a handler started, and
   the handler may finish after midnight. The financial year starts in April.
8. Guards of the staff desk (last ADMIN, is a SAM, is unassigned) are queries of
   their own; a role lives on in a cookie after it is taken away, and a login signs
   the role it read before it compared the password.
9. Imports validate against a snapshot, or look up and write without a
   transaction, and nothing keeps two of them apart.
10. An archive run selects outside its transaction, over rows others are marking,
    while transactions are open whose entries carry an earlier time.
11. A page of leads, and the CRM's answer it is joined with, each stop at a limit.

The full list with lines is `hazards` in `PROJECT.json`; each names the
properties that would catch it going wrong.

## 2. The modules

| module | models | code it stands for |
|---|---|---|
| `SamDomain` | enums and row; `nextStage`, stage roles, entry stage, lifecycle guard of `commit` | `prisma/schema.prisma`, `approvals.service.ts`, `commercial-changes.service.ts` |
| `ChangeLedger` (extends `SamDomain`) | the tables and the handlers both books share: `commit`, retention decision, backfill, sweep, ADMIN edit, midnight, failed calls, restart | `commercial-changes.service.ts`, `accounts.service.ts` |
| `ChangeContract` | abstract: what the workflow promises about a change, whichever book carries it out: on record with its terms, granted, in effect; and what else may move a charge or close an account | |
| `ApprovalChain` (extends `ChangeLedger`) | `decide`, `samQuickDecision`, the composed system of the BASE book, its properties, inductive invariant and refinement of `ChangeContract` | `approvals.service.ts` |
| `CrmBook` (extends `ChangeLedger`) | the composed system of the NEW book: its branch of `commit`, `notifyCrm` and the service orders, the quick push, `refreshCrmStatus`, `setActivationDate`, and what the three webhooks do to row and account, lost or in any order; properties, inductive invariant, refinement of `ChangeContract` | `commercial-changes.service.ts`, `integrations.service.ts` |
| `Figures` (extends `ChangeLedger`) | the waterfall of both dashboards, with its pending rows and drill-down | `dashboard.service.ts`, `bucket-changes.service.ts` |
| `MCApprovalChain`, `MCCrmBook` | TLC instances of the two books, each beside `Figures`: the forms sent, symmetry | |
| `EventDelivery` | abstract: an event is open, applied or lost | |
| `EventInbox` | the webhook handlers, the CRM's deliveries, the operator; properties, refinement of `EventDelivery`, inductive invariant | `integrations.service.ts`, `integrations.controller.ts` |
| `StaffDesk` | users, login and session cookies, the owner of a customer (assignment, import), the feedback row that names a SAM | `users.service.ts`, `users.controller.ts`, `auth.service.ts`, `auth.middleware.ts`, `accounts.service.ts`, `accounts/import`, `feedback.service.ts` |
| `LeadDispatch` | lead form, dispatch row, call, settlement, the page | `leads.service.ts`, `leads.controller.ts` |
| `MeetingDesk` | meetings, minutes, the columns they denormalise, the mail that follows | `meetings.service.ts`, `services/email/notifications.service.ts` |
| `AuditFeed` | log, archive, the overlay of marks and the requests that read and write it | `audit.service.ts`, `notifications.service.ts` |
| `Workbooks` | both uploads row by row, and the backfill beside them | `accounts/import`, `commercial-changes/bulk-import` |
| `Calendar` | the financial calendar | `dashboard.service.ts`, `lib/kitty.ts` |
| `MCOffice` | one TLC instance of the six modules above: they share no state, so a behaviour picks one of them (`scene`) and the others stand still | |
| `...Proofs` | theorems about the module they are named after; `OfficeProofs` about `MeetingDesk`, `LeadDispatch`, `AuditFeed`, `Calendar` and `MCOffice` | |

### How state and actions correspond to the code

*Handlers.* A handler in flight is a record in a request slot (`req`, `task`,
`desk`, `clerk`, `secretary`, `runner`, `upload`): `pc` names the await it is
suspended at, the other fields hold what it read before. Node runs a handler
undisturbed from one await to the next, and a `prisma.$transaction` is one step;
so each handler is a `...Read` action (the guards and early returns up to the
first await that can matter) and an action per transaction or bare query, with
an action for an outside call in between. Everything a handler uses after an
await comes from its slot if the code uses the variable it read, and from the
table if the code writes by `update` on the current row. Which slot runs next is
free.

*Transactions* run at READ COMMITTED: where a read inside one can be followed by
a write of another handler before its own write (`assign`, the recomputation in
`meetings.remove`, the copy and the delete of `archiveOlderThan`), the read is a
step of its own.

*Rows.* `change[c]` is row c in insertion order with the columns a handler reads
or writes. `signed` is the set of stages the APPROVAL_ADVANCED and
APPROVAL_APPROVED audit entries of the row name; no handler reads it. `edited`
is the set of accounts with an UPDATE_FIELD audit entry. In `MeetingDesk`,
`heldLog`, `momLog`, `moms` and `outcomes` are the audit entries of a meeting;
in `StaffDesk`, `leftOn` is the day a user last had a role; in `Workbooks`,
`history` is the list of writes to a customer's charge, each with the charge it
claims to replace and how much of the history its writer had seen; in `StaffDesk`,
`listed` is the customers whose owner an import wrote last; in `AuditFeed`, `late`
is the entries committed after an archive run had picked a younger one. No handler
reads these.

*Time.* `today` is `startOfDayUTC(new Date())`. `Tick` is midnight; in the
workflow a request outlives at most one midnight. `MeetingDesk`, `AuditFeed` and
`StaffDesk` have a day counter of their own, `Calendar` counts months.

*Failures.* `CallFails` and its like end a handler at any await, with what it
committed kept (an exception answered with 5xx). `Restart` does so for all of
them. A service order, a lead, a mail may be accepted, refused, or accepted with
the answer lost. In the inbox the CRM may also stop waiting (`Timeout`).

*The CRM* (external) delivers an event to the inbox until it gets 2xx, 400 or
404, again after 5xx or silence, and an operator may correct and replay a failed
delivery once. In `CrmBook` it works on orders (`crmAt`) and quick requests
(`asked`) and puts webhooks into `post`, from which each is taken in any order,
once (which `EventInbox` shows) or never. An order of any kind passes the same
stages (`NextInCrm`), SAM's activation date among them.

*What the CRM may report.* `statusChanged` names a row by `commercialChangeId`, "the
SAM-side commercial-change id we sent in `quickDisconnect.requested`"
(`docs/integrations/quick-disconnect-end-to-end-spec.md:109`). That push is the only
call that carries an id: a service order carries eight characters of it in its
notes. So the CRM reports on the quick requests its admin approved. It might make
something of the short reference, and the disconnections of `INTEGRATION_CRM.md`
pass PENDING_SAM_ACTIVATION like any order: with `ReportsNormal` it reports on normal
disconnections too, which is how the run is set, and the proofs hold either way. It
does not report on orders of a charge. The handler
looks at neither mode nor type, and a COMPLETED of such an order would terminate the
customer (a hazard in `PROJECT.json`); that it never comes is an assumption about the
CRM, and the only one the properties of this book need.

### Abstractions

- UPGRADE and DOWNGRADE differ in the sign of the move: `ARC_CHANGE`. RATE_REVISION
  takes their branch in every handler and a bucket of its own on the dashboards, which
  the waterfall leaves out: it "should always be 0" (`dashboard.service.ts:345-351`).
  `commit` lets it carry any charge (only the bulk import insists,
  `bulk-import.service.ts:317`), so `Forms` has revisions that move money, and
  `Reconciles` has a term for what they have moved.
- `EXPIRED` stands for PENDING too: no handler compares with either. The New Base
  page counts ACTIVE accounts as current and shows the charges of the others nowhere
  (`dashboard.service.ts:559`), the second term of `Reconciles`.
- In the workflow a user is the role they act in; a SAM_HEAD's scope is the set
  `HeadTeam`. Roles that go stale are in `StaffDesk`. The signature and
  replay-window checks of the webhooks leave no state, so a request that fails
  them does not appear.
- `samQuickDecision`'s row read and scope query are one step: the scope query
  reads nothing the model changes.
- A form is validated before it changes state: `Forms` holds the valid ones. An
  invalid webhook payload does leave a row (`recordRejection`) and is modelled.
- Names, attachments, remarks, wording of mails and notifications are left out;
  nothing that changes state depends on them. An upload is an await that may fail.
- A cell of a workbook is what its parser makes of it: a value, `Blank`, or `Bad`.
- `Figures` has the all-time view; lakhs and rounding are layout. `Calendar`
  leaves out days and hours: every window starts on a first of a month.
- A row of a customer workbook has one key, its lead id or, without one, its CRM id, and
  a customer is named by the same key throughout: a row writes both id columns over,
  so one that has only the CRM id would blank the other.
- The topics a reader follows (`Follows`) are fixed: the page's scope query and its rows
  are one step, so ownership that changes between the two is not seen.
- `AdminUpdate` takes each account of `Editable` once, the CRM resends each of
  `Resent` once.

## 3. What TLC checks

| run | instance | shows |
|---|---|---|
| `ChainOneChange` | 1 account linked to the CRM, 1 row, 2 write handlers, 1 dashboard, days 0..2, window, notice and quick delay of 1 day, 1 fault | every gate is signed, approval takes effect, notice is served, the charge moves by signature, the chain implements `ChangeContract`, the BASE waterfall reconciles at every moment (with one row, one effect per account holds of itself; section 4 has the books where it does not) |
| `ChainTwoRaced` | 2 rows on 1 account, 2 write handlers, 1 dashboard, 1 ADMIN edit, one day, no quick form | `ChainInvariant`, the inductive invariant of the proofs, in the presence of two changes at once (`TerminationIsBooked` is one of its conjuncts) |
| `ChainLive` | 1 row, days 0..2, no faults, fair handlers | every change reaches the chain; due terminations land |
| `EventInbox` | 4 events (activation, approval with a service order, malformed until fixed, unknown change), 2 handlers, 2 faults | record honest, one order, applied at most once (refinement), applied is acknowledged in the end, events land without faults |
| `CrmBook` | 1 NEW account, 1 row of any kind, 2 write handlers, 1 dashboard, days 0..1 or one day and a resent activation, the CRM reporting on normal disconnections too; 1.1 M states | charge follows the completed order, nobody waits for a decision that was made, an account is left closing without a date only by a late or undated word of the CRM (`ClosingIsTimed`), a notice is cut short only by a completed order (`NoticeOrCompletion`), the NEW waterfall reconciles, the book implements `ChangeContract`; `CrmBookInvariant`, the inductive invariant of the proofs (`NewTerminationIsBooked` is one of its conjuncts) |
| `Office` | the six desks, 2 concurrent requests at each, 1 failed call; 0.6 M states | see below |

`Office`, desk by desk. *Staff*: `ReferencesWereEarned` (heads, owners and rated
SAMs exist and had the role, but for owners an import wrote), `ActsOnRecentRole` (a
stale role is at most TOKEN_TTL old, and the night its login may have taken),
`LastAdminFallsToStaleGuard` and `OwnedCustomerIsAdmins` (action properties: which
races and requests, and no others, lose the last ADMIN or an owner; a head's import is
one of them, against `accounts.service.ts:499`).
*Leads*: `EveryLeadIsOnThePage` (up to the limits of the page and of the CRM's list).
*Meetings*: `ShownDatesAreAudited`,
`EveryMomIsAccountedFor`. *Audit and feed*: `EntriesAreKept`,
`ColdStorageIsOldest`, `OverlayFollowsLog`, `AnswersAreTrue`, `MarksAreKept`.
*Workbooks*: `BatchChains` (rows of one upload chain, whatever overlaps),
`OnlyOverlapsDrift` (a wrong old charge takes an overlap), `WorkbookSaysSo`.
*Calendar*: `QuartersTileTheYear`.

Several of these say exactly how far a guard reaches that is weaker than it
looks: the count of ADMINs, the unlocked read of an owner, the snapshot of a
bulk import do fail under a race, and the property says that nothing else fails.

The following runs end in a violation: the property is what a comment, a
document or the schema says, and the trace is what the code does (`findings`).

| run | the repository says | the trace |
|---|---|---|
| `AppliedOnlyIfApproved` | applied only on the APPROVED transition (`prisma/schema.prisma`) | retention PROCEED on a row still in the chain (`commercial-changes.service.ts:1024`), then the sweep |
| `DeliveredIsApplied` | a duplicate id means the event was processed (`integrations.service.ts:123`) | a fault after the reservation; the CRM's retry is answered `already_processed` |
| `RevertIsHard` | a rejection is a hard revert, the customer is not disconnected (`integrations.service.ts:652`, `docs/integrations/quick-disconnect-end-to-end-spec.md:170`) | the revert leaves PROCEED and its date on the row, and the sweep picks it up |
| `OneLeadPerForm` | a double click is deduplicated by the CRM (`leads.service.ts:70`) | each submission mints its own `samLeadId` |
| `OldArcIsLive` | the old charge is read live (`bulk-import/header-map.ts:30`) | it comes from a snapshot taken before the first row |
| `QuarterStartsInItsYear` | Q4 is January to March (`dashboard.service.ts:514`) | from January to March `startOfFyQuarterUTC` returns January of the year before |

Others were met while modelling and are not kept as runs. In the chain: an
approver who read a row before a colleague rejected it moves it on, so REJECTED
is not terminal; two dashboard reads can sweep the same row, the locks being gone
with the autocommitted SELECT (`commercial-changes.service.ts:1179`); RETAIN between
the sweep's SELECT and its apply does not keep the customer; a backfill of an
account that is DISCONNECTING, then the sweep, counts it twice; a failure between
insert and `enterApprovalChain` leaves a row in no queue; two forms on one
account both pass the guard of `commit`; the later of two concurrent retention
decisions overwrites the earlier; a TERMINATED account can be made ACTIVE again
by an approval in flight; the second of two same-day quick approvals, landing
after the sweep, leaves the account DISCONNECTING with its row applied;
`prisma/schema.prisma:60` calls SUPER_ADMIN_2 the first sign-off, where
`nextStage` makes it the last. Elsewhere: no ADMIN may remain after two
demotions at once (`users.controller.ts:157`; `AnAdminRemains`); a late status
is not refused with 409 (`LateStatusIsRefused`); a retained row still counts as
pending settlement (`RetainedIsSettled`) and the drill-down of terminations does
not filter as its card does (`DrillDownMatchesCard`); the figure of customers
without a meeting and the risk pulse disagree on accounts in PENDING_APPROVAL; the
reliability score, "0-100" (`team-performance.service.ts:29`), can exceed 100. In the
NEW book three sentences hold of SAM's own steps and not of the CRM's: the notice is
"the source of truth" (`commercial-changes.service.ts:747-750`) for a refresh, but a
reported COMPLETED terminates at once (`integrations.service.ts:645-650`) and so does
one that answers `setActivationDate` (778-780); "Termination on day N (regardless of
CRM stage)" (`quick-disconnect-end-to-end-spec.md`, section 5) fails for an account
that a status without a date, or one after its row was applied, has put into
DISCONNECTING; and an activation is "not COMPLETED" (775) only as long as the CRM says
so. `ClosingIsTimed` and `NoticeOrCompletion` say that nothing else breaks them.

### Bounds and why they are enough

A fault is interesting once per handler: what it leaves behind is a prefix of a
handler's commits, and one fault at any await reaches every prefix. The races
need two handlers that write and one that sweeps; a third writer only repeats
one of the two. Accounts do not interact except through the sweep, whose id list
mixes rows of any account.

- *Chain* (`MaxChanges`, `MaxDay`, `MaxFaults`, `Offered`, `Editable`). Two rows on
  one account are needed for the disagreement between row and account, and appear
  with two writers in `ChainTwoRaced`; there windows have length 0, since dates are
  the subject of `ChainOneChange`, where three days are enough for a window, a
  notice and a day after. Quick forms need one row and are in `ChainOneChange`.
- *Inbox*. Events interact only through handler slots; the four events are one of
  each kind, two slots suffice for a delivery and its retry at once, and two
  faults for one that strands the first delivery and one that disturbs the second.
- *NEW book* (`MaxPost`, `Resent`, `OpeningArc`). One row: the CRM knows rows by
  id, and what races here are two writers of the same row. The decision's two
  webhooks are sent together; a further status is sent when fewer than `MaxPost`
  are waiting, and a handler suspended with an older one can still apply it
  later, so two in a row come in either order. Two days are enough for a notice
  that has not run and one that has; a resent activation touches the charge only,
  which waits for no day, so a behaviour has one or the other (`OneOfBoth`).
  The CRM accepts one order of a row (`OneOrderEach`); a second one, sent because the
  answer to the first was lost, would leave the first where it stands. Lost
  answers of the CRM are part of the calls; failed database calls (`MaxFaults`)
  are left to `ChainOneChange`, whose handlers these share.
- *Desks*. Two concurrent requests each, the least that can race, and one fault.
  Staff: two requests ever (`MaxRequests`), three users as an ADMIN, a head and a
  SAM, or as two ADMINs (`Rosters`), tokens that expire at midnight (`TokenDays` = 0)
  over three days (`LastDay`), and the edits that
  promote a SAM, demote an ADMIN or re-head (`Patches`). Logins are not counted, but
  only ADMINs and heads sign in, whose cookies open handlers here, and not again for
  the cookie of today; a request outlives one midnight at most. Leads: three
  submissions of two forms (`MaxDispatches`, `MaxLeadFaults`), so that one form is sent
  twice beside another, on pages of two and lists of two (`PageSize`, `CrmLimit`), so
  that both overflow.
  Meetings: two on one account, one set of minutes each, two days (`MaxMeetings`,
  `MaxMoms`, `LastDate`, `Booked`, `MaxMailFaults`): an older and a newer one; minutes
  recorded again for the same meeting are covered by the proof only.
  Feed: two entries, batches of one, two days, cutoffs up to a future one (`MaxEntries`, `Batch`, `LastTime`,
  `MaxStateFaults`): an archive run that leaves something behind. Workbooks: two
  uploads of hand-picked sheets (`BulkSheets`, `LeadSheets`, `SamNames`,
  `MaxUploads`): rows out of order, after a disconnection, ambiguous, and of every
  fault, on one customer, since customers do not interact. Calendar: 2025 to 2027
  (`FirstYear`, `LastYear`), every month of it, two New Years.

The theorems below hold for all values of these constants. Symmetry of request
slots is used in runs without liveness only.

Deadlock is checked in every passing run. `BookClosed`, `Waits`, `Settled`, `Closed` and
their like stutter when the calendar or the budget of requests has run out, or
all events are settled, *and no handler is in flight*: a handler nobody can
resume would be reported.

### Fairness

`WF_vars(WriterStep(s))` and `WF_vars(ReaderStep(s))`, `WF_vars(Step(w))`: a
handler whose await has been answered is resumed by the event loop.
`ReaderStep` includes the start of a sweep: the dashboards and lists keep being
opened, which is what the lazy design relies on, and the property says so. `Send`
is fair per event: the CRM retries until it has its answer. Nothing
obliges a user, an approver or an operator to act, nor the calendar to advance.
Only `ChainLive` and `EventInbox` assume fairness; nothing at the other desks is
promised to happen.

## 4. What is proved

For all values of the constants, from the named assumption of each module
(`DomainAssumption`, `LedgerAssumption`, `ChainAssumption`, `CrmAssumption`,
`InboxAssumption`, `StaffAssumption`, `LeadAssumption`, `MeetingAssumption`, `FeedAssumption`,
`WorkbookAssumption`, `CalendarAssumption`, `FiguresAssumption`: the constants have the shape their
comments say). Every module has its types proved as well.

| module | theorems |
|---|---|
| `ApprovalChainProofs` | `InvariantHolds`: `ChainInvariant` is invariant; with it `EveryGateIsPassed`, `EveryApprovalTakesEffect`, `NoAccountIsStranded`, `EveryTerminationIsBooked`, `EveryNoticeIsServed`, and the action property `EveryChargeMoveIsSigned`; `StageMovesByDecision`: who moves a row through the chain; `ChainImplementsContract`: `ApprovalChain` implements `ChangeContract`; `ChainPromises`: so its customers have what follows from it; `BaseWaterfallIsSound`, `LiveEffectsReconcile`: the Existing Base waterfall reconciles |
| `CrmBookProofs` | `CrmBookIsSound`: `CrmBookInvariant` is invariant; with it `NewTerminationsAreBooked`, `DecisionReleasesAccount`, `OnlyTheCrmShortensNotice`, and the action properties `ClosingAccountsAreTimed` and `ChargesFollowOrders`; `CrmBookImplementsContract`, `CrmBookPromises`; `NewWaterfallIsSound`: the New Base waterfall reconciles |
| `ChangeContractProofs` | `ContractIsSound`: under the contract effects are granted and due, closed accounts are on record, charges are explained |
| `FiguresProofs` | sums over finite sets; `SummedBookReconciles`: accounts that sum up make a waterfall that reconciles |
| `EventInboxProofs` | `InboxInvariantHolds`, `EveryRecordIsHonest`, `OneOrderIsRaised`, `FailedHasNoEffect`; `InboxImplementsDelivery`: `EventInbox` implements `EventDelivery` |
| `StaffDeskProofs` | `ReferencesAreEarned`, `RolesAreRecent`, `LastAdminFallsToARace`, `OwnersAreNotTakenOver` |
| `WorkbooksProofs` | `RowsOfABatchChain`, `DriftTakesAnOverlap`, `WorkbookSaysWhatItDoes` |
| `OfficeProofs` | meetings: `ShownDatesHaveEntries`, `MinutesAreAccountedFor`; leads: `EveryLeadIsShown`; audit and feed: `NoEntryIsLost`, `ArchiveIsTheOldEnd`, `NoOrphanMark`, `AnswersHold`, `NoMarkIsTakenBack`; calendar: `WindowsTileTheYear`, `QuarterStartIsWrongInQ4Only`; `OfficeIsItsDesks`, `OfficeTypesHold`: the instance TLC checks is the six desks side by side |

*The chain.* None of the properties is inductive, since
handlers write what they read earlier. `ApprovedPassedEveryGate` needs
`StagesAreEarned`: a row stands only at a stage whose gates are signed, and so
does the stage in the slot of an approver in flight; since a signature is never
withdrawn, a stage that was earned when it was read is still earned when it is
acted upon. This is why a stale stage, though it can undo a rejection, can
never skip a gate. `NoticeIsServed` needs `NoticeIsScheduled`: no date on a row
under notice is short of its end, and a sweep in flight has picked only rows
whose notice has run, which a later reschedule cannot undo, because days only
pass. `HandlersHoldRows` and `RowsInOrder` say what a slot's row id refers to.
`ParkedAccountIsQueued` and `TerminationIsBooked` are preserved by each
transaction because account and row move together. A charge that moves to what
an ARC change asks for has its ACCOUNTS signature because the approver's stage
was earned, and an ARC change earns no other.
`StageMovesByDecision` says that `decide()` alone moves a row once it is in the chain,
to REJECTED or past the stage its approver read, so a rejection is undone by an
approver who had read the row before and by nobody else. `EnterApprovalChain` writes
a stage too, and by id; `RoutesNewRows`, invariant with `ChainInvariant`, says that a
row waits for it under one handler only and that nobody can have started to decide on
that row. The property is stated in `ApprovalChainProofs` and checked by no run of its
own.

*The NEW book.* Four handlers besides `commit` and the sweep write a row by id
after an outside call, and two webhooks say the same thing in either order; so
the invariant is about what each of them may know. `CrmKnowsRows`: the CRM works
only on rows `commit` wrote, a row carries a decision only after its admin made
one, and a webhook under way says what the admin decided, however late it is
taken. `RoutedOnce`: until `commit` has routed its row and pushed the request no
second handler is at that point with it and the CRM has not heard of it, so no
decision can overtake the parking of the account. `HandlersHoldTheirRows`: what
a slot holds over an await is a row of the kind it works on, a COMPLETED it read
from the CRM is still completed, and a row it is about to apply may be applied
(notice run, or order completed, or never placed); these survive because the CRM
does not take back a completed order and days only pass. `NoticeIsScheduled` is
as for the chain. `WaitingIsUndecided` relates an account to the row that would
release it. `NoticeOrCompletion` is an invariant because a webhook or an answer that
says COMPLETED of a normal disconnection was sent when the order was, and stays true
(`SaysTruth`). `ClosingIsTimed` is about steps: one that writes no row, or inserts one,
leaves the dated termination of a closing account as it is; one that edits a row
either keeps the termination it may be, or takes the account out of DISCONNECTING with
it, or is one of those `Undated` lists. The proofs never look at a whole
handler twice: a row is inserted, edited in columns a named lemma lists, or left
alone, and the invariant is preserved per kind of write.

*The contract.* `ChangeContract` knows neither handlers nor webhooks: a change
has its terms (account, what it asks for, the first day it may take effect), is
granted, takes effect; an account is corrected by hand. Both books map to it:
terms are read off the row, a change is in effect when its row is applied. What
they disagree about is who grants: signatures in the chain, the CRM's completed
order in the NEW book (or nobody, for an account the CRM never heard of), and a
correction is an ADMIN edit, in the NEW book an activation the CRM resends too.
Each transaction is one step of the contract or a stutter, whatever is in
flight, which takes the inductive invariant: the sweep closes an account with
its row, the webhook that terminates marks the row it terminates by, a charge is
written only by a handler whose stage or order was earned. Terms once written do
not change: the only columns they depend on are those no handler edits.
`ContractIsSound` is proved of the contract alone and carried back to both books
(`ChainPromises`, `CrmBookPromises`): in particular every charge of an account
nobody corrected is its opening charge or what an applied change of that account
asks for, which neither book's own invariant says. The contract allows a change
to take effect again (two dashboards may sweep one row) and an account to be
reopened by a decision in flight, because the code does both: that a change takes
effect once is neither promised nor proved. A disconnection may take effect before its
day if that was granted, in the NEW book by the CRM's completed order.

*The waterfalls.* A waterfall compares two sums, one over accounts and one over
rows. `FiguresProofs` first proves what sums over finite sets need (adding an
element, unions, differences, regrouping the rows by account). The library's
induction rules take an operator as a parameter; instead, a least subset with
something wrong exists because strict inclusion is well-founded on finite sets
(`LeastSubset`), and a proof by induction becomes "the least bad subset, less one
element, is good" (`SubsetInduction`). `SummedBookReconciles` is then the arithmetic
of the page: if each account is charged its opening charge plus what its rows in
effect bring, the buckets add up, and what is left over as "pending" is the unsettled
upgrades and downgrades (which is what the page means by it), and two things it does
not mean: what rate revisions have moved, since they are in no bucket, and in the NEW
book the charges of accounts in no block, expired or waiting for a quick decision.
What remains is an invariant of each book, and there the page makes an assumption
the code does not keep: it adds up rows, so two changes raised on the same old
charge count twice. Hence two theorems. `BaseWaterfallIsSound` and
`NewWaterfallIsSound` are about states with one change in effect per account
(`OneEffectEach`, a conjunct of the properties' hypothesis): an account without one is still at
its opening charge and so is every old charge its rows and handlers in flight name
(`AtOpening`), the one that has one was raised on it (`MovedOnce`). That part needs
`RowsMove` and `ReadsMove`, a fact about every handler: none inserts a row but with
the charge it read, and a read is of the charge of that moment. Which charge a
step leaves is taken from the contract (`ChainChargeMoves`, `BookChargeMoves`).
`LiveEffectsReconcile` allows any number of changes per account in the BASE book,
of steps that put each into effect once and on the charge it was raised on
(`EffectsAreLive`); what breaks that is a second form sent while the first is in the
chain, or a row swept twice with another change in between. Both speak of a book
that starts at its opening charges (`OpeningBook`), as the import leaves it; the
conditions on `edited`, on approved rows and on late statuses are those of the
properties, and each is a behaviour of the code.

*The inbox.* The unique event id lets one handler past the
reservation (`OneHolder`), and how far it has come says what is done
(`HoldersKnow`). `OneDelivery` and `HopelessStaysOut` say that the verdicts the
CRM receives belong to the deliveries it waits for. The refinement maps an event
to OPEN while it has no row or a holder, to APPLIED once its effect is
committed, to LOST when the holder is gone before that; a restart may lose
several events in one step, hence `EventDelivery!Lose` takes a set.

*The staff desk.* Every reference is checked in one query and written in a later
one, and the role may be gone by then; what cannot go is that the user once had
it (`EverHeld`, `HeldUntil`: that history only grows) and, by the foreign keys,
that a row referred to exists. Strengthened by what each handler has checked and
what its token allows, both survive every await. A login is such a handler: the role it
will sign was held when it read it, at most one midnight ago. An import checks that its
user exists and not what they are, so `listed` customers are told apart.

*Leads.* Rows are inserted in order, and each clerk's slot says how far its row
has come: before the call there is a row and no lead, between call and
settlement the row still reads FAILED/PENDING, which the page shows. `RowsAreListed`:
a row is on the page or a page of newer ones is before it.

*Meetings.* Every date a handler carries over an await, and every date on an
account, has its audit entry for that account, and entries are never withdrawn;
so a stale write back is wrong only in being old. For the minutes, each step
moves the debt of one handler: one lemma counts what a turn does to the set of
handlers that owe an entry.

*Audit and feed.* An entry that left the log never comes back, new ones are the
youngest or `late`, and marks only grow while their entry lives: what an archive run or a
reader selected before its transaction is, at the transaction, either still so
or gone from the log. Batches are taken oldest first, and what is older than a batch
has left the log for good, or comes late.

*Workbooks.* The newest write of a history is the charge the customer has.
A snapshot is right for every customer whose writes the upload has all seen, its
own included; a row of a batch starts from the last one of the same batch, found
in the snapshot however much others wrote in between. Uploads are numbered, so
that "of the same batch" survives the reuse of a slot.

*The office.* Each desk's module is proved by itself; a step of `MCOffice` is a
step of one desk and leaves the tables of the others alone, so every desk's
specification is implied and its theorems hold there.

*Calendar.* Arithmetic from one fact about the clock. The second theorem settles
the refuted claim for every year: it holds from April to December and fails
from January to March.

Only model-checked: the liveness properties `RaisedChangeEntersTheChain`,
`DueTerminationLands`, `AppliedIsAcknowledged` and `EventLands` (fairness and
ENABLED are out of the prover's reach), and the violations, of which
`QuarterStartsInItsYear` is decided for every year by `QuarterStartIsWrongInQ4Only`.
Every invariant and action property that a passing run checks is stated by a
theorem. Not proved of the NEW book is the counterpart of `LiveEffectsReconcile`: a
termination the CRM reports leaves the charge on the closed account, and what a
later status makes of it there is not a sum of rows.

## 5. Not modelled, and why

- The scores of `team-performance.service.ts`, the alerts and the meeting summary
  are arithmetic over columns that nothing else reads back; the listings, journey
  page and pick lists only read.
- `customer.activated` for a customer SAM does not know inserts one row that no
  other handler can hold; its inbox protocol is in `EventInbox`.
- Passwords, contact fields, templates, mail providers, the CRM's token cache,
  the internals of file storage, rate limits and cookie flags decide nothing of
  the workflow. Other mails follow the shape of the one in `MeetingDesk` and nothing
  reads them.
- Seed, scripts, mocks and deployment files are not part of the running system.

`PROJECT.json` gives the status of each component.

## 6. Plan

1. A composition of `EventInbox` with `CrmBook`, so that an event's effect is a
   step of the book and a lost event a webhook that never comes; then the
   at-most-once of the inbox would carry over instead of being built into `post`.
2. Sharper statements about what a change ends as: which races let a withdrawn
   change come into effect, stated the way `LastAdminFallsToStaleGuard` and
   `OnlyOverlapsDrift` state theirs, and proved.
3. The desks' remaining action properties, where a stale write is old but true.
