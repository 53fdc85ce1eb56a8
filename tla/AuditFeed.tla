------------------------------ MODULE AuditFeed ------------------------------
(***************************************************************************)
(* The audit log and what lives off it: the archive of audit.service.ts    *)
(* (archiveOlderThan) and the notification feed of notifications.service   *)
(* .ts, whose per-user overlay (notification_states: read, dismissed) has  *)
(* a foreign key to the live log.                                          *)
(*                                                                         *)
(* Archive runs are ADMIN calls that may overlap, and select outside the   *)
(* transaction that moves; marking everything read is a sequence of        *)
(* queries without a transaction.                                          *)
(***************************************************************************)
EXTENDS Integers, FiniteSets

CONSTANTS
  Topics,       \* what entries are about: entity and action
  NoTopic,      \* the topic of an entry not yet written
  Readers,      \* users with a feed
  NoReader,     \* the reader of a handler that has none
  Follows,      \* scopedEntityIds() and RELEVANT_ACTIONS: the topics of each reader
  MaxEntries,   \* bound: entries ever written
  Runners,      \* requests in flight
  Batch,        \* batchSize of an archive run
  LastTime,     \* bound: the clock stops
  MaxStateFaults\* bound: failed calls and restarts

ASSUME FeedAssumption ==
  /\ NoTopic \notin Topics
  /\ NoReader \notin Readers
  /\ Follows \in [Readers -> SUBSET Topics]
  /\ MaxEntries \in Nat
  /\ Batch \in Nat \ {0}
  /\ LastTime \in Nat
  /\ MaxStateFaults \in Nat

VARIABLES
  live,        \* audit_logs
  archive,     \* audit_logs_archive
  topic,       \* what an entry is about; NoTopic before it is written
  stamp,       \* its timestamp
  late,        \* entries committed after a run had picked a younger one
  overlay,     \* notification_states: the marks of each reader
  runner,      \* the handlers in flight
  time,        \* the clock
  stateFaults  \* failed calls and restarts so far

feedVars == <<live, archive, topic, stamp, late, overlay, runner, time, stateFaults>>

Entries == 1..MaxEntries
Marks == {"ROW", "READ", "DISMISSED"}   \* ROW: there is a row at all

Idle ==
  [pc |-> "idle", r |-> NoReader, ids |-> {}, missing |-> {}, hidden |-> {}]

Recorded == {e \in Entries : topic[e] # NoTopic}
Runs(k, pc) == runner[k].pc = pc
Resume(k, job) == runner' = [runner EXCEPT ![k] = job]
Done(k) == Resume(k, Idle)

HasRow(r, e) == "ROW" \in overlay[r][e]
Mark(r, e, mark) == overlay' = [overlay EXCEPT ![r][e] = @ \cup {"ROW", mark}]

OnlyRunner == UNCHANGED <<live, archive, topic, stamp, late, overlay, time, stateFaults>>

\* The feed of r before the dismissed entries are taken out.
InScope(r) == {e \in live : topic[e] \in Follows[r]}

-----------------------------------------------------------------------------
\* A run has picked, or moved, an entry younger than s.
Overtaken(s) ==
  \/ \E f \in archive : stamp[f] > s
  \/ \E k \in Runners : /\ runner[k].pc \in {"copy", "delete"}
                        /\ \E f \in runner[k].ids : stamp[f] > s

\* Every service writes entries.  One that is written inside a transaction is
\* there when that commits, under the time at which it was begun.
WriteEntry(t, s) ==
  \E e \in Entries :
    /\ e = Cardinality(Recorded) + 1
    /\ live' = live \cup {e}
    /\ topic' = [topic EXCEPT ![e] = t]
    /\ stamp' = [stamp EXCEPT ![e] = s]
    /\ late' = IF Overtaken(s) THEN late \cup {e} ELSE late
    /\ UNCHANGED <<archive, overlay, runner, time, stateFaults>>

Tick ==
  /\ time < LastTime
  /\ time' = time + 1
  /\ UNCHANGED <<live, archive, topic, stamp, late, overlay, runner, stateFaults>>

-----------------------------------------------------------------------------
(* archiveOlderThan()                                                      *)

Old(cutoff) == {e \in live : stamp[e] < cutoff}

\* Mutant of ArchiveSelect: the batch in no order.
ArchiveSelectAny(k, cutoff) ==
  \E ids \in SUBSET Old(cutoff) :
    /\ runner[k] = Idle
    /\ Cardinality(ids) = Batch
    /\ Resume(k, [Idle EXCEPT !.pc = "copy", !.ids = ids])
    /\ OnlyRunner

\* The oldest Batch entries below the cutoff, or all of them; ids are random,
\* so the order within a day is any.
ArchiveSelect(k, cutoff) ==
  \E ids \in SUBSET Old(cutoff) :
    /\ runner[k] = Idle
    /\ ids # {}
    /\ Cardinality(ids) <= Batch
    /\ Cardinality(ids) < Batch => ids = Old(cutoff)
    /\ \A e \in ids, f \in live \ ids : stamp[e] <= stamp[f]
    /\ Resume(k, [Idle EXCEPT !.pc = "copy", !.ids = ids])
    /\ OnlyRunner

\* INSERT ... SELECT: copies those of the batch that are still live.
ArchiveCopy(k) ==
  /\ Runs(k, "copy")
  /\ Resume(k, [runner[k] EXCEPT !.pc = "delete", !.missing = runner[k].ids \cap live])
  /\ OnlyRunner

\* Mutant of ArchiveCommit: the overlay of the entries left behind.
ArchiveCommitKeepOverlay(k) ==
  LET copied == runner[k].missing IN
  /\ Runs(k, "delete")
  /\ IF copied \cap archive = {}
     THEN archive' = archive \cup copied /\ live' = live \ runner[k].ids
     ELSE UNCHANGED <<archive, live>>
  /\ Done(k)
  /\ UNCHANGED <<topic, stamp, late, overlay, time, stateFaults>>

\* Mutant of ArchiveCommit: a copy that skips what another run has copied, and a
\* delete by date.
ArchiveCommitByDate(k) ==
  LET young == CHOOSE d \in 0..LastTime : \A e \in runner[k].ids : stamp[e] <= d
  IN
  /\ Runs(k, "delete")
  /\ archive' = archive \cup runner[k].missing
  /\ live' = {e \in live : stamp[e] > young}
  /\ overlay' = [r \in Readers |-> [e \in Entries |-> IF e \in live' THEN overlay[r][e] ELSE {}]]
  /\ Done(k)
  /\ UNCHANGED <<topic, stamp, late, time, stateFaults>>

\* The delete and the commit.  A copy of an entry another run has committed
\* meanwhile breaks the primary key, and everything is rolled back; deleting an
\* entry deletes its overlay (CASCADE).
ArchiveCommit(k) ==
  LET copied == runner[k].missing
      ids == runner[k].ids
  IN
  /\ Runs(k, "delete")
  /\ \/ /\ copied \cap archive = {}
        /\ archive' = archive \cup copied
        /\ live' = live \ ids
        /\ overlay' = [r \in Readers |-> [e \in Entries |->
             IF e \in ids THEN {} ELSE overlay[r][e]]]
     \/ /\ copied \cap archive # {}
        /\ UNCHANGED <<archive, live, overlay>>
  /\ Done(k)
  /\ UNCHANGED <<topic, stamp, late, time, stateFaults>>

-----------------------------------------------------------------------------
(* markAsRead(), dismissNotification(): one upsert; an archived entry       *)
(* fails its foreign key                                                   *)

MarkAsRead(r, e) ==
  /\ e \in live
  /\ Mark(r, e, "READ")
  /\ overlay' # overlay
  /\ UNCHANGED <<live, archive, topic, stamp, late, runner, time, stateFaults>>

DismissNotification(r, e) ==
  /\ e \in live
  /\ Mark(r, e, "DISMISSED")
  /\ overlay' # overlay
  /\ UNCHANGED <<live, archive, topic, stamp, late, runner, time, stateFaults>>

-----------------------------------------------------------------------------
(* markAllAsRead(): four queries, no transaction                           *)

\* The whole scope, dismissed entries too.
MarkAllTargets(k, r) ==
  /\ runner[k] = Idle
  /\ InScope(r) # {}
  /\ Resume(k, [Idle EXCEPT !.pc = "existing", !.r = r, !.ids = InScope(r)])
  /\ OnlyRunner

MarkAllExisting(k) ==
  LET q == runner[k] IN
  /\ Runs(k, "existing")
  /\ Resume(k, [q EXCEPT !.pc = "create", !.missing = {e \in q.ids : ~HasRow(q.r, e)}])
  /\ OnlyRunner

\* Mutant of MarkAllCreate: rows that turned up meanwhile are written over.
MarkAllCreateOver(k) ==
  LET q == runner[k] IN
  /\ Runs(k, "create")
  /\ overlay' = [overlay EXCEPT ![q.r] =
       [e \in Entries |-> IF e \in q.missing \cap live THEN {"ROW", "READ"} ELSE @[e]]]
  /\ Resume(k, [q EXCEPT !.pc = "update"])
  /\ UNCHANGED <<live, archive, topic, stamp, late, time, stateFaults>>

\* createMany is all or nothing: a row that exists by now (unique) or an entry
\* archived by now (foreign key) fails the request, and nothing is marked.
MarkAllCreate(k) ==
  LET q == runner[k] IN
  /\ Runs(k, "create")
  /\ \/ /\ \A e \in q.missing : e \in live /\ ~HasRow(q.r, e)
        /\ overlay' = [overlay EXCEPT ![q.r] =
             [e \in Entries |-> IF e \in q.missing THEN {"ROW", "READ"} ELSE @[e]]]
        /\ Resume(k, [q EXCEPT !.pc = "update"])
     \/ /\ \E e \in q.missing : e \notin live \/ HasRow(q.r, e)
        /\ Done(k)
        /\ UNCHANGED overlay
  /\ UNCHANGED <<live, archive, topic, stamp, late, time, stateFaults>>

\* Mutant of MarkAllUpdate: only the rows it created are marked.
MarkAllUpdateNone(k) ==
  /\ Runs(k, "update")
  /\ Resume(k, [runner[k] EXCEPT !.pc = "marked"])
  /\ OnlyRunner

\* updateMany: those of the existing rows that are still there.
MarkAllUpdate(k) ==
  LET q == runner[k] IN
  /\ Runs(k, "update")
  /\ overlay' = [overlay EXCEPT ![q.r] =
       [e \in Entries |-> IF e \in q.ids \ q.missing /\ "ROW" \in @[e]
                          THEN @[e] \cup {"READ"} ELSE @[e]]]
  /\ Resume(k, [q EXCEPT !.pc = "marked"])
  /\ UNCHANGED <<live, archive, topic, stamp, late, time, stateFaults>>

-----------------------------------------------------------------------------
(* getNotifications()                                                      *)

\* The dismissed entries first ...
FeedDismissed(k, r) ==
  /\ runner[k] = Idle
  /\ Resume(k, [Idle EXCEPT !.pc = "rows", !.r = r,
                            !.hidden = {e \in Entries : "DISMISSED" \in overlay[r][e]}])
  /\ OnlyRunner

\* ... then the page, without them; its read marks and unread count are read
\* separately again.
FeedRows(k) ==
  LET q == runner[k] IN
  /\ Runs(k, "rows")
  /\ Resume(k, [q EXCEPT !.pc = "page", !.ids = InScope(q.r) \ q.hidden])
  /\ OnlyRunner

\* The response.
Respond(k) ==
  /\ runner[k].pc \in {"page", "marked"}
  /\ Done(k)
  /\ OnlyRunner

-----------------------------------------------------------------------------
\* A database call throws, or the process restarts.
RunnerFails(k) ==
  /\ stateFaults < MaxStateFaults
  /\ runner[k] # Idle
  /\ Done(k)
  /\ stateFaults' = stateFaults + 1
  /\ UNCHANGED <<live, archive, topic, stamp, late, overlay, time>>

FeedInit ==
  /\ live = {}
  /\ archive = {}
  /\ topic = [e \in Entries |-> NoTopic]
  /\ stamp = [e \in Entries |-> 0]
  /\ late = {}
  /\ overlay = [r \in Readers |-> [e \in Entries |-> {}]]
  /\ runner = [k \in Runners |-> Idle]
  /\ time = 0
  /\ stateFaults = 0

FeedNext ==
  \/ \E t \in Topics, s \in 0..time : WriteEntry(t, s)
  \/ Tick
  \/ \E r \in Readers, e \in Entries : MarkAsRead(r, e) \/ DismissNotification(r, e)
  \/ \E k \in Runners :
       \/ \E cutoff \in 1..(LastTime + 1) : ArchiveSelect(k, cutoff)
       \/ \E r \in Readers : MarkAllTargets(k, r) \/ FeedDismissed(k, r)
       \/ ArchiveCopy(k)
       \/ ArchiveCommit(k)
       \/ MarkAllExisting(k)
       \/ MarkAllCreate(k)
       \/ MarkAllUpdate(k)
       \/ FeedRows(k)
       \/ Respond(k)
       \/ RunnerFails(k)

FeedSpec == FeedInit /\ [][FeedNext]_feedVars

-----------------------------------------------------------------------------
(* Properties                                                              *)

RunnerJob ==
  [pc : {"idle", "copy", "delete", "existing", "create", "update", "rows", "page", "marked"},
   r : Readers \cup {NoReader}, ids : SUBSET Entries, missing : SUBSET Entries,
   hidden : SUBSET Entries]

FeedTypeOK ==
  /\ live \subseteq Entries
  /\ archive \subseteq Entries
  /\ topic \in [Entries -> Topics \cup {NoTopic}]
  /\ stamp \in [Entries -> Nat]
  /\ late \subseteq Entries
  /\ overlay \in [Readers -> [Entries -> SUBSET Marks]]
  /\ runner \in [Runners -> RunnerJob]
  /\ time \in Nat
  /\ stateFaults \in Nat

\* Two archive runs that picked the same batch, a run that fails, a restart in
\* the middle: every entry ever written is in the log or in the archive, and in
\* one of them only.
EntriesAreKept == Recorded = live \cup archive /\ live \cap archive = {}

\* "oldest first": the archive is the old end of the log at every moment,
\* whatever cutoffs, past or to come, overlapping runs were given and in whichever
\* order they commit.  The log keeps an entry older than an archived one only if its
\* transaction was still open when a run had picked a younger one.
ColdStorageIsOldest ==
  \A e \in archive, f \in live \ late : stamp[e] <= stamp[f]

\* Marks exist only for entries a feed can still show, even when the archive
\* overtakes a reader who is marking everything.
OverlayFollowsLog ==
  \A r \in Readers, e \in Entries : overlay[r][e] # {} => e \in live /\ HasRow(r, e)

\* What a request is about to answer: "mark all as read" has marked all the
\* entries it counted that are still in the log (a mark another tab set in between
\* may fail the request as a whole, but cannot make it succeed in part), and a page
\* holds none that its reader had dismissed when it was asked for.
AnswersAreTrue ==
  \A k \in Runners :
    LET q == runner[k] IN
    /\ q.pc = "marked" => \A e \in q.ids \cap live : "READ" \in overlay[q.r][e]
    /\ q.pc = "page" => \A e \in q.ids : topic[e] \in Follows[q.r] /\ e \notin q.hidden

\* A mark is taken back by the archive only: an entry a user dismissed does not
\* reappear, and a read one does not become unread, through any race of the
\* requests that mark.
MarksAreKept ==
  [][\A r \in Readers, e \in Entries : e \in live' => overlay[r][e] \subseteq overlay'[r][e]]_feedVars
=============================================================================
