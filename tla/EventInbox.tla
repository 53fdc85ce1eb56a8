----------------------------- MODULE EventInbox -----------------------------
(***************************************************************************)
(* The CRM's webhooks (integrations.controller.ts, integrations.service.ts)*)
(* and the integration_events table that keeps an event from being applied *)
(* twice.  A handler reserves the event's row (status FAILED until proven  *)
(* otherwise), looks up what the event is about, raises a service order if *)
(* the event asks for one, applies the event in a transaction and marks    *)
(* the row PROCESSED: five awaits, each of which may be the last.          *)
(*                                                                         *)
(* The CRM side is external: it delivers an event until it gets an answer  *)
(* that settles it (2xx delivered, 400 and 404 failed), tries again on 5xx *)
(* and on silence, and an operator may fix and replay a failed delivery.   *)
(***************************************************************************)
EXTENDS Integers, FiniteSets

CONSTANTS
  Events,       \* event ids, one per transition on the CRM side
  Workers,      \* request slots of the webhook endpoint
  NoWorker,     \* nobody is working on a delivery the CRM waits for
  NoEvent,      \* the event of an idle slot
  Activations,  \* customer.activated: an upsert, nothing to look up
  Approvals,    \* quickDisconnect.decided APPROVE: raises a service order
  Orphans,      \* events about a change SAM does not know (or not a QUICK one)
  Malformed,    \* events whose payload fails its schema until an operator fixes it
  MaxFaults     \* bound: failed calls, restarts and timeouts of the CRM

ASSUME InboxAssumption ==
  /\ NoWorker \notin Workers
  /\ NoEvent \notin Events
  /\ Activations \subseteq Events
  /\ Approvals \subseteq Events
  /\ Orphans \subseteq Events
  /\ Malformed \subseteq Events
  /\ Activations \cap (Approvals \cup Orphans) = {}
  /\ MaxFaults \in Nat

VARIABLES
  inbox,     \* integration_events.status of each event, NONE without a row
  effects,   \* how often the transaction of each event has committed
  orders,    \* service orders the CRM accepted for each event
  task,      \* the handlers in flight
  waiting,   \* the handler whose answer the CRM waits for
  answer,    \* what the CRM has made of each delivery
  replayed,  \* events an operator has fixed and replayed
  faults     \* failed calls, restarts and timeouts so far

vars == <<inbox, effects, orders, task, waiting, answer, replayed, faults>>

Idle == [pc |-> "idle", e |-> NoEvent]

At(w, pc) == task[w].pc = pc

GoTo(w, pc) == task' = [task EXCEPT ![w].pc = pc]

\* The handler ends and its HTTP answer reaches the CRM if it still waits for it.
Respond(w, verdict) ==
  LET e == task[w].e IN
  /\ task' = [task EXCEPT ![w] = Idle]
  /\ IF waiting[e] = w
     THEN /\ waiting' = [waiting EXCEPT ![e] = NoWorker]
          /\ answer' = [answer EXCEPT ![e] = verdict]
     ELSE UNCHANGED <<waiting, answer>>

\* The endpoint checks the payload before its first await.
Send(w, e) ==
  /\ answer[e] = "OPEN"
  /\ waiting[e] = NoWorker
  /\ task[w] = Idle
  /\ task' = [task EXCEPT ![w] = [pc |-> IF e \in Malformed \ replayed THEN "record"
                                         ELSE "reserve",
                                  e |-> e]]
  /\ waiting' = [waiting EXCEPT ![e] = w]
  /\ UNCHANGED <<inbox, effects, orders, answer, replayed, faults>>

\* recordRejection: best effort, a second row or a failed insert is swallowed.
Record(w) ==
  LET e == task[w].e IN
  /\ At(w, "record")
  /\ \/ /\ inbox' = [inbox EXCEPT ![e] = IF @ = "NONE" THEN "REJECTED" ELSE @]
        /\ UNCHANGED faults
     \/ /\ faults < MaxFaults
        /\ faults' = faults + 1
        /\ UNCHANGED inbox
  /\ Respond(w, "FAILED")
  /\ UNCHANGED <<effects, orders, replayed>>

\* Mutant of Reserve: an upsert in place of the insert.
ReserveUpsert(w) ==
  LET e == task[w].e IN
  /\ At(w, "reserve")
  /\ inbox' = [inbox EXCEPT ![e] = "FAILED"]
  /\ GoTo(w, IF e \in Activations THEN "apply" ELSE "lookup")
  /\ UNCHANGED <<effects, orders, waiting, answer, replayed, faults>>

\* Mutant of Reserve: PROCESSED as the placeholder.
ReserveAsProcessed(w) ==
  LET e == task[w].e IN
  /\ At(w, "reserve")
  /\ inbox[e] = "NONE"
  /\ inbox' = [inbox EXCEPT ![e] = "PROCESSED"]
  /\ GoTo(w, IF e \in Activations THEN "apply" ELSE "lookup")
  /\ UNCHANGED <<effects, orders, waiting, answer, replayed, faults>>

\* The insert that reserves the event id; the column is unique.
Reserve(w) ==
  LET e == task[w].e IN
  /\ At(w, "reserve")
  /\ inbox[e] = "NONE"
  /\ inbox' = [inbox EXCEPT ![e] = "FAILED"]
  /\ GoTo(w, IF e \in Activations THEN "apply" ELSE "lookup")
  /\ UNCHANGED <<effects, orders, waiting, answer, replayed, faults>>

\* Mutant of Duplicate: a conflict answered as a failure.
DuplicateRefused(w) ==
  /\ At(w, "reserve")
  /\ inbox[task[w].e] # "NONE"
  /\ Respond(w, "FAILED")
  /\ UNCHANGED <<inbox, effects, orders, replayed, faults>>

\* P2002: 200 already_processed, whatever the row says.
Duplicate(w) ==
  /\ At(w, "reserve")
  /\ inbox[task[w].e] # "NONE"
  /\ Respond(w, "DELIVERED")
  /\ UNCHANGED <<inbox, effects, orders, replayed, faults>>

NotFound(w) ==
  /\ At(w, "lookup")
  /\ task[w].e \in Orphans
  /\ Respond(w, "FAILED")
  /\ UNCHANGED <<inbox, effects, orders, replayed, faults>>

\* Mutant of Found: the event marked before it is applied.
FoundMarked(w) ==
  /\ At(w, "lookup")
  /\ task[w].e \notin Orphans
  /\ GoTo(w, "mark")
  /\ UNCHANGED <<inbox, effects, orders, waiting, answer, replayed, faults>>

Found(w) ==
  LET e == task[w].e IN
  /\ At(w, "lookup")
  /\ e \notin Orphans
  /\ GoTo(w, IF e \in Approvals THEN "order" ELSE "apply")
  /\ UNCHANGED <<inbox, effects, orders, waiting, answer, replayed, faults>>

\* Mutant of RaiseOrder: a failed call tried again at once.
RaiseOrderRetried(w) ==
  LET e == task[w].e IN
  /\ At(w, "order")
  /\ orders' = [orders EXCEPT ![e] = @ + 1]
  /\ GoTo(w, "apply") \/ UNCHANGED task
  /\ UNCHANGED <<inbox, effects, waiting, answer, replayed, faults>>

\* raiseDisconnectionServiceOrder never throws: a refusal, or an order whose
\* answer was lost, is captured and the decision applied all the same.
RaiseOrder(w) ==
  LET e == task[w].e IN
  /\ At(w, "order")
  /\ orders' = orders \/ orders' = [orders EXCEPT ![e] = @ + 1]
  /\ GoTo(w, "apply")
  /\ UNCHANGED <<inbox, effects, waiting, answer, replayed, faults>>

\* The upsert, or the transaction over change and account.
Apply(w) ==
  /\ At(w, "apply")
  /\ effects' = [effects EXCEPT ![task[w].e] = @ + 1]
  /\ GoTo(w, "mark")
  /\ UNCHANGED <<inbox, orders, waiting, answer, replayed, faults>>

Mark(w) ==
  /\ At(w, "mark")
  /\ inbox' = [inbox EXCEPT ![task[w].e] = "PROCESSED"]
  /\ GoTo(w, "answer")
  /\ UNCHANGED <<effects, orders, waiting, answer, replayed, faults>>

\* The audit entry or the mail, then 201.
Answer(w) ==
  /\ At(w, "answer")
  /\ Respond(w, "DELIVERED")
  /\ UNCHANGED <<inbox, effects, orders, replayed, faults>>

\* A database call throws: 5xx, and what is committed stays.  The mail after an
\* activation is swallowed.
CallFails(w) ==
  /\ faults < MaxFaults
  /\ \/ task[w].pc \in {"reserve", "lookup", "apply", "mark"}
     \/ At(w, "answer") /\ task[w].e \notin Activations
  /\ Respond(w, "OPEN")
  /\ faults' = faults + 1
  /\ UNCHANGED <<inbox, effects, orders, replayed>>

\* The process restarts: every handler is gone, every delivery unanswered.
Restart ==
  /\ faults < MaxFaults
  /\ \E w \in Workers : task[w] # Idle
  /\ task' = [w \in Workers |-> Idle]
  /\ waiting' = [e \in Events |-> NoWorker]
  /\ faults' = faults + 1
  /\ UNCHANGED <<inbox, effects, orders, answer, replayed>>

\* The CRM stops waiting; the handler goes on.
Timeout(e) ==
  /\ faults < MaxFaults
  /\ waiting[e] # NoWorker
  /\ waiting' = [waiting EXCEPT ![e] = NoWorker]
  /\ faults' = faults + 1
  /\ UNCHANGED <<inbox, effects, orders, task, answer, replayed>>

\* "Fix the payload", "manual replay": a failed delivery, once.
Replay(e) ==
  /\ answer[e] = "FAILED"
  /\ e \notin replayed
  /\ answer' = [answer EXCEPT ![e] = "OPEN"]
  /\ replayed' = replayed \cup {e}
  /\ UNCHANGED <<inbox, effects, orders, task, waiting, faults>>

\* Nothing is left to deliver and nobody is at work: the server waits.
Settled ==
  /\ \A e \in Events : answer[e] # "OPEN"
  /\ \A w \in Workers : task[w] = Idle
  /\ UNCHANGED vars

Init ==
  /\ inbox = [e \in Events |-> "NONE"]
  /\ effects = [e \in Events |-> 0]
  /\ orders = [e \in Events |-> 0]
  /\ task = [w \in Workers |-> Idle]
  /\ waiting = [e \in Events |-> NoWorker]
  /\ answer = [e \in Events |-> "OPEN"]
  /\ replayed = {}
  /\ faults = 0

\* A handler goes on after its await.
Step(w) ==
  \/ Record(w)
  \/ Reserve(w)
  \/ Duplicate(w)
  \/ NotFound(w)
  \/ Found(w)
  \/ RaiseOrder(w)
  \/ Apply(w)
  \/ Mark(w)
  \/ Answer(w)

Next ==
  \/ \E w \in Workers, e \in Events : Send(w, e)
  \/ \E w \in Workers : Step(w)
  \/ \E w \in Workers : CallFails(w)
  \/ Restart
  \/ \E e \in Events : Timeout(e)
  \/ \E e \in Events : Replay(e)
  \/ Settled

Spec == Init /\ [][Next]_vars

\* A suspended handler is resumed; the CRM retries until it has an answer.
FairSpec ==
  /\ Spec
  /\ \A w \in Workers : WF_vars(Step(w))
  /\ \A e \in Events : WF_vars(\E w \in Workers : Send(w, e))

-----------------------------------------------------------------------------
(* Properties                                                              *)

TypeOK ==
  /\ inbox \in [Events -> {"NONE", "FAILED", "PROCESSED", "REJECTED"}]
  /\ effects \in [Events -> Nat]
  /\ orders \in [Events -> Nat]
  /\ task \in [Workers ->
        [pc : {"record", "reserve", "lookup", "order", "apply", "mark", "answer"}, e : Events]
          \cup {Idle}]
  /\ waiting \in [Events -> Workers \cup {NoWorker}]
  /\ answer \in [Events -> {"OPEN", "DELIVERED", "FAILED"}]
  /\ replayed \subseteq Events
  /\ faults \in Nat

\* Handler w has reserved event e and has not marked it yet.
Holds(w, e) == task[w].e = e /\ task[w].pc \in {"lookup", "order", "apply", "mark"}

\* What the integrations page shows of an event is true: PROCESSED rows took
\* effect, REJECTED ones did not, whatever was retried, replayed or lost since.
RecordIsHonest ==
  \A e \in Events :
    /\ inbox[e] = "PROCESSED" => effects[e] = 1
    /\ inbox[e] \in {"NONE", "REJECTED"} => effects[e] = 0

\* However often the CRM delivers an approval, one service order is raised for it.
OneOrderPerDecision == \A e \in Events : orders[e] <= 1

\* A delivery the CRM has been told failed for good did not take effect.
FailedIsNotApplied == \A e \in Events : answer[e] = "FAILED" => effects[e] = 0

\* The life of an event as its row, its effect and its handlers show it.
LifeOf(e) ==
  IF effects[e] > 1 THEN "TWICE"
  ELSE IF effects[e] = 1 THEN "APPLIED"
  ELSE IF inbox[e] = "NONE" \/ \E w \in Workers : Holds(w, e) THEN "OPEN"
  ELSE "LOST"

Delivery == INSTANCE EventDelivery WITH life <- [e \in Events |-> LifeOf(e)]

\* "We never double-create": an event takes effect once or is lost for good.
AppliesAtMostOnce == Delivery!Spec

\* Crashes and timeouts between the effect and the answer included, the CRM
\* learns in the end that an event it keeps delivering took effect.
AppliedIsAcknowledged == \A e \in Events : effects[e] = 1 ~> answer[e] = "DELIVERED"

\* Without faults a well-formed event about a known change takes effect.
EventLands ==
  [](faults = 0) =>
    \A e \in Events \ (Orphans \cup Malformed) : waiting[e] # NoWorker ~> effects[e] = 1

-----------------------------------------------------------------------------
(* The inductive invariant behind the safety properties above              *)

\* The unique event id lets one handler past the reservation.
OneHolder == \A e \in Events : \A v, w \in Workers : Holds(v, e) /\ Holds(w, e) => v = w

\* How far the holder of an event has come is how much of it is done.
HolderKnows(w, e) ==
  /\ inbox[e] = "FAILED"
  /\ effects[e] = IF At(w, "mark") THEN 1 ELSE 0
  /\ task[w].pc \in {"lookup", "order"} => orders[e] = 0

HoldersKnow == \A e \in Events : \A w \in Workers : Holds(w, e) => HolderKnows(w, e)

\* An event without a row has left no trace, an answered one is marked.
RowsFirst ==
  /\ \A e \in Events : inbox[e] \in {"NONE", "REJECTED"} => orders[e] = 0
  /\ \A e \in Events : effects[e] <= 1
  /\ \A w \in Workers : At(w, "answer") => inbox[task[w].e] = "PROCESSED"

\* The CRM waits for a handler that works on the very event, and for nobody
\* once it has its answer.
OneDelivery ==
  /\ \A e \in Events : \A w \in Workers : waiting[e] = w => task[w].e = e
  /\ \A e \in Events : answer[e] # "OPEN" => waiting[e] = NoWorker

\* A payload nobody has fixed, a change nobody knows: no handler gets past the
\* check that stops the event, and only such events have failed.
HopelessStaysOut ==
  /\ \A w \in Workers : At(w, "record") /\ waiting[task[w].e] = w
       => task[w].e \in Malformed \ replayed
  /\ \A e \in Malformed \ replayed : effects[e] = 0
  /\ \A w \in Workers : task[w].e \in Malformed \ replayed => At(w, "record")
  /\ \A e \in Orphans : effects[e] = 0
  /\ \A w \in Workers : task[w].e \in Orphans => task[w].pc \in {"record", "reserve", "lookup"}
  /\ \A e \in Events : answer[e] = "FAILED" => e \in Orphans \cup (Malformed \ replayed)

InboxInvariant ==
  /\ TypeOK
  /\ OneDelivery
  /\ HopelessStaysOut
  /\ RecordIsHonest
  /\ OneOrderPerDecision
  /\ OneHolder
  /\ HoldersKnow
  /\ RowsFirst

-----------------------------------------------------------------------------
(* What the comments promise and the code does not keep                    *)

\* "A unique-constraint violation means the same event has already been
\* processed": what the CRM is told is delivered took effect, or is about to.
DeliveredIsApplied ==
  \A e \in Events : answer[e] = "DELIVERED" =>
    effects[e] = 1 \/ \E w \in Workers : Holds(w, e)
=============================================================================
