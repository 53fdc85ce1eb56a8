-------------------------- MODULE EventInboxProofs --------------------------
(***************************************************************************)
(* Proofs about EventInbox for any set of events, handlers and faults.     *)
(*                                                                         *)
(* The unique event id lets one handler past the reservation (OneHolder),  *)
(* and how far that handler has come says how much of the event is done    *)
(* (HoldersKnow).  Whatever else happens to the event - a retry, a replay, *)
(* a timeout, a restart - finds the row and stops there.  The safety       *)
(* properties and the step simulation of EventDelivery follow.             *)
(***************************************************************************)
EXTENDS EventInbox, TLAPS

\* Every step of a webhook handler, of the CRM and of an operator, a failed call
\* and a restart keep the inductive invariant.
LEMMA InvariantStep ==
  ASSUME InboxInvariant, [Next]_vars
  PROVE  InboxInvariant'
<1>1. ASSUME NEW w \in Workers, NEW e \in Events, Send(w, e)
      PROVE  InboxInvariant'
  <2>1. TypeOK'
    BY <1>1, InboxAssumption DEF Send, InboxInvariant, TypeOK
  <2>2. OneDelivery'
    BY <1>1, InboxAssumption DEF Send, InboxInvariant, TypeOK, Idle, OneDelivery
  <2>3. HopelessStaysOut'
    BY <1>1, InboxAssumption DEF Send, InboxInvariant, TypeOK, HopelessStaysOut, At
  <2>4. OneHolder'
    BY <1>1, InboxAssumption DEF Send, InboxInvariant, OneHolder, Holds
  <2>5. HoldersKnow'
    BY <1>1, InboxAssumption DEF Send, InboxInvariant, HoldersKnow, Holds,
         HolderKnows, At
  <2>6. RowsFirst'
    BY <1>1, InboxAssumption DEF Send, InboxInvariant, RowsFirst, At
  <2> QED
    BY <1>1, <2>1, <2>2, <2>3, <2>4, <2>5, <2>6 DEF InboxInvariant, Send,
         RecordIsHonest, OneOrderPerDecision
<1>2. ASSUME NEW w \in Workers, Record(w)
      PROVE  InboxInvariant'
  <2>1. TypeOK'
    BY <1>2 DEF Record, InboxInvariant, TypeOK, Respond
  <2>2. OneDelivery'
    BY <1>2, InboxAssumption DEF Record, InboxInvariant, TypeOK, OneDelivery,
         Respond
  <2>3. HopelessStaysOut'
    BY <1>2, InboxAssumption DEF Record, InboxInvariant, TypeOK, Idle,
         HopelessStaysOut, At, Respond
  <2>4. RecordIsHonest'
    BY <1>2 DEF Record, InboxInvariant, TypeOK, RecordIsHonest
  <2>5. OneHolder'
    BY <1>2 DEF Record, InboxInvariant, Idle, OneHolder, Holds, Respond
  <2>6. HoldersKnow'
    BY <1>2 DEF Record, InboxInvariant, TypeOK, Idle, HoldersKnow, Holds,
         HolderKnows, At, Respond
  <2>7. RowsFirst'
    BY <1>2 DEF Record, InboxInvariant, TypeOK, Idle, RowsFirst, At, Respond
  <2> QED
    BY <1>2, <2>1, <2>2, <2>3, <2>4, <2>5, <2>6, <2>7 DEF InboxInvariant, Record,
         OneOrderPerDecision
<1>3. ASSUME NEW w \in Workers, Reserve(w)
      PROVE  InboxInvariant'
  <2>1. TypeOK'
    BY <1>3, InboxAssumption DEF Reserve, InboxInvariant, TypeOK, Idle, At, GoTo
  <2>2. OneDelivery'
    BY <1>3, InboxAssumption DEF Reserve, InboxInvariant, OneDelivery, GoTo
  <2>3. HopelessStaysOut'
    BY <1>3, InboxAssumption DEF Reserve, InboxInvariant, HopelessStaysOut, At, GoTo
  <2>4. RecordIsHonest'
    BY <1>3, InboxAssumption DEF Reserve, InboxInvariant, RecordIsHonest
  <2>5. OneHolder'
    BY <1>3, InboxAssumption DEF Reserve, InboxInvariant, OneHolder, HoldersKnow,
         Holds, HolderKnows, GoTo
  <2>6. HoldersKnow'
    BY <1>3, InboxAssumption DEF Reserve, InboxInvariant, TypeOK, HoldersKnow,
         RecordIsHonest, RowsFirst, Holds, HolderKnows, At, GoTo
  <2>7. RowsFirst'
    BY <1>3, InboxAssumption DEF Reserve, InboxInvariant, RowsFirst, At, GoTo
  <2> QED
    BY <1>3, <2>1, <2>2, <2>3, <2>4, <2>5, <2>6, <2>7 DEF InboxInvariant, Reserve,
         OneOrderPerDecision
<1>4. ASSUME NEW w \in Workers, Duplicate(w)
      PROVE  InboxInvariant'
  <2>1. TypeOK'
    BY <1>4 DEF Duplicate, InboxInvariant, TypeOK, Respond
  <2>2. OneDelivery'
    BY <1>4, InboxAssumption DEF Duplicate, InboxInvariant, TypeOK, OneDelivery,
         Respond
  <2>3. HopelessStaysOut'
    BY <1>4, InboxAssumption DEF Duplicate, InboxInvariant, TypeOK, Idle,
         HopelessStaysOut, At, Respond
  <2>4. OneHolder'
    BY <1>4 DEF Duplicate, InboxInvariant, Idle, OneHolder, Holds, Respond
  <2>5. HoldersKnow'
    BY <1>4 DEF Duplicate, InboxInvariant, Idle, HoldersKnow, Holds, HolderKnows,
         At, Respond
  <2>6. RowsFirst'
    BY <1>4 DEF Duplicate, InboxInvariant, Idle, RowsFirst, At, Respond
  <2> QED
    BY <1>4, <2>1, <2>2, <2>3, <2>4, <2>5, <2>6 DEF InboxInvariant, Duplicate,
         RecordIsHonest, OneOrderPerDecision
<1>5. ASSUME NEW w \in Workers, NotFound(w)
      PROVE  InboxInvariant'
  <2>1. TypeOK'
    BY <1>5 DEF NotFound, InboxInvariant, TypeOK, Respond
  <2>2. OneDelivery'
    BY <1>5, InboxAssumption DEF NotFound, InboxInvariant, TypeOK, OneDelivery,
         Respond
  <2>3. HopelessStaysOut'
    BY <1>5, InboxAssumption DEF NotFound, InboxInvariant, TypeOK, Idle,
         HopelessStaysOut, At, Respond
  <2>4. OneHolder'
    BY <1>5 DEF NotFound, InboxInvariant, Idle, OneHolder, Holds, Respond
  <2>5. HoldersKnow'
    BY <1>5 DEF NotFound, InboxInvariant, Idle, HoldersKnow, Holds, HolderKnows, At,
         Respond
  <2>6. RowsFirst'
    BY <1>5 DEF NotFound, InboxInvariant, Idle, RowsFirst, At, Respond
  <2> QED
    BY <1>5, <2>1, <2>2, <2>3, <2>4, <2>5, <2>6 DEF InboxInvariant, NotFound,
         RecordIsHonest, OneOrderPerDecision
<1>6. ASSUME NEW w \in Workers, Found(w)
      PROVE  InboxInvariant'
  <2>1. TypeOK'
    BY <1>6 DEF Found, InboxInvariant, TypeOK, Idle, At, GoTo
  <2>2. OneDelivery'
    BY <1>6 DEF Found, InboxInvariant, OneDelivery, GoTo
  <2>3. HopelessStaysOut'
    BY <1>6 DEF Found, InboxInvariant, HopelessStaysOut, At, GoTo
  <2>4. OneHolder'
    BY <1>6 DEF Found, InboxInvariant, OneHolder, Holds, At, GoTo
  <2>5. HoldersKnow'
    BY <1>6 DEF Found, InboxInvariant, HoldersKnow, Holds, HolderKnows, At, GoTo
  <2>6. RowsFirst'
    BY <1>6 DEF Found, InboxInvariant, RowsFirst, At, GoTo
  <2> QED
    BY <1>6, <2>1, <2>2, <2>3, <2>4, <2>5, <2>6 DEF InboxInvariant, Found,
         RecordIsHonest, OneOrderPerDecision
<1>7. ASSUME NEW w \in Workers, RaiseOrder(w)
      PROVE  InboxInvariant'
  <2>1. TypeOK'
    BY <1>7 DEF RaiseOrder, InboxInvariant, TypeOK, Idle, At, GoTo
  <2>2. OneDelivery'
    BY <1>7 DEF RaiseOrder, InboxInvariant, OneDelivery, GoTo
  <2>3. HopelessStaysOut'
    BY <1>7 DEF RaiseOrder, InboxInvariant, HopelessStaysOut, At, GoTo
  <2>4. OneOrderPerDecision'
    BY <1>7 DEF RaiseOrder, InboxInvariant, TypeOK, OneOrderPerDecision,
         HoldersKnow, Holds, HolderKnows, At
  <2>5. OneHolder'
    BY <1>7 DEF RaiseOrder, InboxInvariant, OneHolder, Holds, At, GoTo
  <2>6. HoldersKnow'
    BY <1>7 DEF RaiseOrder, InboxInvariant, TypeOK, HoldersKnow, OneHolder, Holds,
         HolderKnows, At, GoTo
  <2>7. RowsFirst'
    BY <1>7 DEF RaiseOrder, InboxInvariant, TypeOK, RowsFirst, HoldersKnow, At,
         Holds, HolderKnows, GoTo
  <2> QED
    BY <1>7, <2>1, <2>2, <2>3, <2>4, <2>5, <2>6, <2>7 DEF InboxInvariant,
         RaiseOrder, RecordIsHonest
<1>8. ASSUME NEW w \in Workers, Apply(w)
      PROVE  InboxInvariant'
  <2>1. TypeOK'
    BY <1>8 DEF Apply, InboxInvariant, TypeOK, Idle, At, GoTo
  <2>2. OneDelivery'
    BY <1>8 DEF Apply, InboxInvariant, OneDelivery, GoTo
  <2>3. HopelessStaysOut'
    BY <1>8 DEF Apply, InboxInvariant, HopelessStaysOut, At, GoTo
  <2>4. RecordIsHonest'
    BY <1>8 DEF Apply, InboxInvariant, RecordIsHonest, HoldersKnow, Holds,
         HolderKnows, At
  <2>5. OneHolder'
    BY <1>8 DEF Apply, InboxInvariant, OneHolder, Holds, At, GoTo
  <2>6. HoldersKnow'
    BY <1>8 DEF Apply, InboxInvariant, TypeOK, HoldersKnow, OneHolder, Holds,
         HolderKnows, At, GoTo
  <2>7. RowsFirst'
    BY <1>8 DEF Apply, InboxInvariant, RowsFirst, HoldersKnow, At, Holds,
         HolderKnows, GoTo
  <2> QED
    BY <1>8, <2>1, <2>2, <2>3, <2>4, <2>5, <2>6, <2>7 DEF InboxInvariant, Apply,
         OneOrderPerDecision
<1>9. ASSUME NEW w \in Workers, Mark(w)
      PROVE  InboxInvariant'
  <2>1. TypeOK'
    BY <1>9 DEF Mark, InboxInvariant, TypeOK, Idle, At, GoTo
  <2>2. OneDelivery'
    BY <1>9 DEF Mark, InboxInvariant, OneDelivery, GoTo
  <2>3. HopelessStaysOut'
    BY <1>9 DEF Mark, InboxInvariant, HopelessStaysOut, At, GoTo
  <2>4. RecordIsHonest'
    BY <1>9 DEF Mark, InboxInvariant, RecordIsHonest, HoldersKnow, Holds,
         HolderKnows, At
  <2>5. OneHolder'
    BY <1>9 DEF Mark, InboxInvariant, OneHolder, Holds, GoTo
  <2>6. HoldersKnow'
    BY <1>9 DEF Mark, InboxInvariant, TypeOK, HoldersKnow, OneHolder, Holds,
         HolderKnows, At, GoTo
  <2>7. RowsFirst'
    BY <1>9 DEF Mark, InboxInvariant, TypeOK, Idle, RowsFirst, At, GoTo
  <2> QED
    BY <1>9, <2>1, <2>2, <2>3, <2>4, <2>5, <2>6, <2>7 DEF InboxInvariant, Mark,
         OneOrderPerDecision
<1>10. ASSUME NEW w \in Workers, Answer(w)
      PROVE  InboxInvariant'
  <2>1. TypeOK'
    BY <1>10 DEF Answer, InboxInvariant, TypeOK, Respond
  <2>2. OneDelivery'
    BY <1>10, InboxAssumption DEF Answer, InboxInvariant, TypeOK, OneDelivery,
         Respond
  <2>3. HopelessStaysOut'
    BY <1>10, InboxAssumption DEF Answer, InboxInvariant, TypeOK, Idle,
         HopelessStaysOut, At, Respond
  <2>4. OneHolder'
    BY <1>10 DEF Answer, InboxInvariant, Idle, OneHolder, Holds, Respond
  <2>5. HoldersKnow'
    BY <1>10 DEF Answer, InboxInvariant, Idle, HoldersKnow, Holds, HolderKnows, At,
         Respond
  <2>6. RowsFirst'
    BY <1>10 DEF Answer, InboxInvariant, Idle, RowsFirst, At, Respond
  <2> QED
    BY <1>10, <2>1, <2>2, <2>3, <2>4, <2>5, <2>6 DEF InboxInvariant, Answer,
         RecordIsHonest, OneOrderPerDecision
<1>11. ASSUME NEW w \in Workers, CallFails(w)
      PROVE  InboxInvariant'
  <2>1. TypeOK'
    BY <1>11 DEF CallFails, InboxInvariant, TypeOK, Respond
  <2>2. OneDelivery'
    BY <1>11, InboxAssumption DEF CallFails, InboxInvariant, TypeOK, OneDelivery,
         Respond
  <2>3. HopelessStaysOut'
    BY <1>11, InboxAssumption DEF CallFails, InboxInvariant, TypeOK, Idle,
         HopelessStaysOut, At, Respond
  <2>4. OneHolder'
    BY <1>11 DEF CallFails, InboxInvariant, Idle, OneHolder, Holds, Respond
  <2>5. HoldersKnow'
    BY <1>11 DEF CallFails, InboxInvariant, Idle, HoldersKnow, Holds, HolderKnows,
         At, Respond
  <2>6. RowsFirst'
    BY <1>11 DEF CallFails, InboxInvariant, Idle, RowsFirst, At, Respond
  <2> QED
    BY <1>11, <2>1, <2>2, <2>3, <2>4, <2>5, <2>6 DEF InboxInvariant, CallFails,
         RecordIsHonest, OneOrderPerDecision
<1>12. ASSUME Restart
      PROVE  InboxInvariant'
  <2>1. TypeOK'
    BY <1>12, InboxAssumption DEF Restart, InboxInvariant, TypeOK
  <2>2. OneDelivery'
    BY <1>12, InboxAssumption DEF Restart, OneDelivery
  <2>3. HopelessStaysOut'
    BY <1>12, InboxAssumption DEF Restart, InboxInvariant, Idle, HopelessStaysOut,
         At
  <2>4. OneHolder'
    BY <1>12, InboxAssumption DEF Restart, Idle, OneHolder, Holds
  <2>5. HoldersKnow'
    BY <1>12, InboxAssumption DEF Restart, Idle, HoldersKnow, Holds
  <2>6. RowsFirst'
    BY <1>12, InboxAssumption DEF Restart, InboxInvariant, Idle, RowsFirst, At
  <2> QED
    BY <1>12, <2>1, <2>2, <2>3, <2>4, <2>5, <2>6 DEF InboxInvariant, Restart,
         RecordIsHonest, OneOrderPerDecision
<1>13. ASSUME NEW e \in Events, Timeout(e)
      PROVE  InboxInvariant'
  <2>1. TypeOK'
    BY <1>13, InboxAssumption DEF Timeout, InboxInvariant, TypeOK
  <2>2. OneDelivery'
    BY <1>13, InboxAssumption DEF Timeout, InboxInvariant, OneDelivery
  <2>3. HopelessStaysOut'
    BY <1>13, InboxAssumption DEF Timeout, InboxInvariant, HopelessStaysOut, At
  <2> QED
    BY <1>13, <2>1, <2>2, <2>3 DEF InboxInvariant, Timeout, RecordIsHonest,
         OneOrderPerDecision, OneHolder, HoldersKnow, RowsFirst, Holds, HolderKnows,
         At
<1>14. ASSUME NEW e \in Events, Replay(e)
      PROVE  InboxInvariant'
  <2>1. TypeOK'
    BY <1>14, InboxAssumption DEF Replay, InboxInvariant, TypeOK
  <2>2. OneDelivery'
    BY <1>14, InboxAssumption DEF Replay, InboxInvariant, OneDelivery
  <2>3. HopelessStaysOut'
    BY <1>14, InboxAssumption DEF Replay, InboxInvariant, TypeOK, HopelessStaysOut,
         OneDelivery, At
  <2> QED
    BY <1>14, <2>1, <2>2, <2>3 DEF InboxInvariant, Replay, RecordIsHonest,
         OneOrderPerDecision, OneHolder, HoldersKnow, RowsFirst, Holds, HolderKnows,
         At
<1>15. CASE UNCHANGED vars
  BY <1>15 DEF vars, InboxInvariant, TypeOK, OneDelivery, HopelessStaysOut,
       RecordIsHonest, OneOrderPerDecision, OneHolder, HoldersKnow, RowsFirst,
       Holds, HolderKnows, At
<1> QED
  BY <1>1, <1>2, <1>3, <1>4, <1>5, <1>6, <1>7, <1>8, <1>9, <1>10, <1>11, <1>12,
       <1>13, <1>14, <1>15 DEF Next, Step, Settled

\* The empty inbox satisfies the inductive invariant.
LEMMA InvariantInit == Init => InboxInvariant
  BY InboxAssumption DEF Init, InboxInvariant, TypeOK, OneDelivery,
       HopelessStaysOut, RecordIsHonest, OneOrderPerDecision, OneHolder,
       HoldersKnow, RowsFirst, Holds, At, Idle

\* The inductive invariant of the webhook inbox holds in every reachable state.
THEOREM InboxInvariantHolds == Spec => []InboxInvariant
<1>1. Init => InboxInvariant
  BY InvariantInit
<1>2. InboxInvariant /\ [Next]_vars => InboxInvariant'
  BY InvariantStep
<1> QED
  BY <1>1, <1>2, PTL DEF Spec

\* The rows of integration_events, the handlers and the CRM's view of its
\* deliveries keep their types.
THEOREM InboxTypesHold == Spec => []TypeOK
<1>1. InboxInvariant => TypeOK
  BY DEF InboxInvariant
<1> QED
  BY <1>1, InboxInvariantHolds, PTL

\* A row the integrations page shows as PROCESSED took effect once, a REJECTED
\* one did not.
THEOREM EveryRecordIsHonest == Spec => []RecordIsHonest
<1>1. InboxInvariant => RecordIsHonest
  BY DEF InboxInvariant
<1> QED
  BY <1>1, InboxInvariantHolds, PTL

\* However often an approval is delivered, raiseDisconnectionServiceOrder raises
\* at most one service order for it.
THEOREM OneOrderIsRaised == Spec => []OneOrderPerDecision
<1>1. InboxInvariant => OneOrderPerDecision
  BY DEF InboxInvariant
<1> QED
  BY <1>1, InboxInvariantHolds, PTL

\* A delivery the endpoint answered with 400 or 404 did not take effect.
THEOREM FailedHasNoEffect == Spec => []FailedIsNotApplied
<1>1. InboxInvariant => FailedIsNotApplied
  BY DEF InboxInvariant, HopelessStaysOut, FailedIsNotApplied
<1> QED
  BY <1>1, InboxInvariantHolds, PTL

\* The refinement mapping.
Life == [e \in Events |-> LifeOf(e)]

\* Initially every event is open, as EventDelivery has it.
LEMMA LifeInit == Init => Delivery!Init
  BY DEF Init, Delivery!Init, LifeOf

\* Events that are lost, any number at once, are a step of EventDelivery.
LEMMA LostTogether ==
  ASSUME \A e \in Events : LifeOf(e)' = LifeOf(e) \/ (LifeOf(e) = "OPEN" /\ LifeOf(e)' = "LOST")
  PROVE  [Delivery!Next]_Life
<1> DEFINE S == {e \in Events : LifeOf(e)' # LifeOf(e)}
<1>1. CASE S = {}
  <2>1. \A e \in Events : LifeOf(e)' = LifeOf(e)
    BY <1>1
  <2> QED
    BY <2>1 DEF Life
<1>2. CASE S # {}
  <2>1. S \in SUBSET Events /\ \A e \in S : LifeOf(e) = "OPEN"
    OBVIOUS
  <2>2. Life' = [e \in Events |-> IF e \in S THEN "LOST" ELSE Life[e]]
    BY DEF Life
  <2>3. Delivery!Lose(S)
    BY <1>2, <2>1, <2>2 DEF Delivery!Lose
  <2> QED
    BY <2>1, <2>3 DEF Delivery!Next
<1> QED
  BY <1>1, <1>2

\* An event that takes effect alone is a step of EventDelivery.
LEMMA AppliedAlone ==
  ASSUME NEW e \in Events, LifeOf(e) = "OPEN", LifeOf(e)' = "APPLIED",
         \A f \in Events \ {e} : LifeOf(f)' = LifeOf(f)
  PROVE  Delivery!Next
<1>1. Delivery!Apply(e)
  BY DEF Delivery!Apply
<1> QED
  BY <1>1 DEF Delivery!Next

\* What a step does to the life of an event, read off its row, its effect and
\* its holder.
LEMMA LifeMoves ==
  ASSUME InboxInvariant, [Next]_vars
  PROVE  [Delivery!Next]_Life
<1> DEFINE KeptOrLost(f) ==
      LifeOf(f)' = LifeOf(f) \/ (LifeOf(f) = "OPEN" /\ LifeOf(f)' = "LOST")
<1>1. ASSUME NEW w \in Workers, NEW e \in Events, Send(w, e), NEW f \in Events
      PROVE  KeptOrLost(f)
  BY <1>1, InboxAssumption DEF Send, LifeOf, Holds
<1>2. ASSUME NEW w \in Workers, Record(w), NEW f \in Events
      PROVE  KeptOrLost(f)
  BY <1>2, InboxAssumption DEF Record, InboxInvariant, TypeOK, LifeOf, Holds,
       Respond, Idle
<1>3. ASSUME NEW w \in Workers, Reserve(w), NEW f \in Events
      PROVE  KeptOrLost(f)
  BY <1>3, InboxAssumption DEF Reserve, LifeOf, Holds, GoTo
<1>4. ASSUME NEW w \in Workers, Duplicate(w), NEW f \in Events
      PROVE  KeptOrLost(f)
  BY <1>4, InboxAssumption DEF Duplicate, LifeOf, Holds, Respond, Idle
<1>5. ASSUME NEW w \in Workers, NotFound(w), NEW f \in Events
      PROVE  KeptOrLost(f)
  BY <1>5, InboxAssumption DEF NotFound, LifeOf, Holds, Respond, Idle
<1>6. ASSUME NEW w \in Workers, Found(w), NEW f \in Events
      PROVE  KeptOrLost(f)
  BY <1>6, InboxAssumption DEF Found, LifeOf, Holds, At, GoTo
<1>7. ASSUME NEW w \in Workers, RaiseOrder(w), NEW f \in Events
      PROVE  KeptOrLost(f)
  BY <1>7, InboxAssumption DEF RaiseOrder, LifeOf, Holds, At, GoTo
<1>8. ASSUME NEW w \in Workers, Mark(w), NEW f \in Events
      PROVE  KeptOrLost(f)
  BY <1>8, InboxAssumption DEF Mark, LifeOf, Holds, GoTo
<1>9. ASSUME NEW w \in Workers, Answer(w), NEW f \in Events
      PROVE  KeptOrLost(f)
  BY <1>9, InboxAssumption DEF Answer, LifeOf, Holds, Respond, Idle
<1>10. ASSUME NEW w \in Workers, CallFails(w), NEW f \in Events
      PROVE  KeptOrLost(f)
  BY <1>10, InboxAssumption DEF CallFails, LifeOf, Holds, Respond, Idle
<1>11. ASSUME Restart, NEW f \in Events
      PROVE  KeptOrLost(f)
  BY <1>11, InboxAssumption DEF Restart, LifeOf, Holds, Idle
<1>12. ASSUME NEW w \in Workers, Apply(w)
       PROVE  Delivery!Next
  <2>1. PICK e \in Events : e = task[w].e /\ Holds(w, e) /\ HolderKnows(w, e)
    BY <1>12, InboxAssumption DEF Apply, InboxInvariant, TypeOK, HoldersKnow, Holds,
         At, Idle
  <2>2. LifeOf(e) = "OPEN" /\ LifeOf(e)' = "APPLIED"
    BY <1>12, <2>1 DEF Apply, InboxInvariant, TypeOK, HolderKnows, LifeOf, At
  <2>3. \A f \in Events \ {e} : LifeOf(f)' = LifeOf(f)
    BY <1>12, <2>1 DEF Apply, LifeOf, Holds, GoTo
  <2> QED
    BY <2>2, <2>3, AppliedAlone
<1>13. ASSUME NEW e \in Events, Timeout(e) \/ Replay(e), NEW f \in Events
       PROVE  KeptOrLost(f)
  BY <1>13 DEF Timeout, Replay, LifeOf, Holds
<1>14. ASSUME UNCHANGED vars, NEW f \in Events
       PROVE  KeptOrLost(f)
  BY <1>14 DEF vars, LifeOf, Holds
<1> QED
  BY <1>1, <1>2, <1>3, <1>4, <1>5, <1>6, <1>7, <1>8, <1>9, <1>10, <1>11, <1>12,
       <1>13, <1>14, LostTogether DEF Next, Step, Settled

\* Reservation, effect and mark, with everything that may come in between,
\* implement EventDelivery: an event takes effect at most once, and a lost one
\* stays lost.
THEOREM InboxImplementsDelivery == Spec => AppliesAtMostOnce
<1>1. Init => Delivery!Init
  BY LifeInit
<1>2. InboxInvariant /\ [Next]_vars => [Delivery!Next]_Life
  BY LifeMoves
<1> QED
  BY <1>1, <1>2, InboxInvariantHolds, PTL DEF Spec, AppliesAtMostOnce,
       Delivery!Spec, Life
=============================================================================
