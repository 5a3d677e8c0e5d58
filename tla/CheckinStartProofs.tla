------------------------ MODULE CheckinStartProofs ------------------------
(***************************************************************************)
(* What asking for a day's check-in guarantees for any number of           *)
(* dispatches, faults and attempts: a recorded run and a nudge ladder      *)
(* always stand on a posted and recorded check-in; dispatches that do not  *)
(* overlap ask a developer at most once; and a message is posted again     *)
(* only for a posted one whose id was lost.                                *)
(***************************************************************************)
EXTENDS CheckinStart, FiniteSetTheorems, TLAPS

\* Every action keeps the values of its variables within their types.
THEOREM StartTypeCorrect == Spec => []TypeOK
<1> USE DEF TypeOK, Places, InStep, Runs
<1>1. Init => TypeOK
  <2> SUFFICES ASSUME Init PROVE TypeOK
    OBVIOUS
  <2>1. /\ posted \in [Dispatches -> Nat] /\ faults \in [Dispatches -> Nat]
        /\ lost \in [Dispatches -> Nat] /\ pc \in [Dispatches -> Places]
    BY DEF Init
  <2>2. overlapped \in BOOLEAN /\ weekday \in BOOLEAN
    BY DEF Init
  <2>3. run \in Runs \cup {NoRun} /\ UNION {asked, correlated, replied, closed} = {}
    BY DEF Init
  <2> QED
    BY <2>1, <2>2, <2>3 DEF Init
<1>2. TypeOK /\ [Next]_vars => TypeOK'
  <2> SUFFICES ASSUME TypeOK, [Next]_vars PROVE TypeOK'
    OBVIOUS
  <2> USE DEF Move, rows, chat, world, trouble
  <2>1. ASSUME NEW d \in Dispatches, Plan(d) \/ Begin(d) \/ Launch(d) \/ Reply(d) \/ CloseOut(d)
        PROVE  TypeOK'
    BY <2>1 DEF Plan, Begin, Launch, Reply, CloseOut
  <2>2. ASSUME NEW d \in Dispatches,
               AlreadyRun(d) \/ NoRunYet(d) \/ RecordSkip(d) \/ ReadOwn(d)
        PROVE  TypeOK'
    BY <2>2 DEF AlreadyRun, NoRunYet, RecordSkip, ReadOwn
  <2>3. ASSUME NEW d \in Dispatches, PostDm(d) \/ PutSendId(d) \/ RecordCheckin(d)
        PROVE  TypeOK'
    BY <2>3 DEF PostDm, PutSendId, RecordCheckin
  <2>4. ASSUME NEW d \in Dispatches, RecordCorrelation(d) \/ RecordRun(d) \/ Complete(d)
        PROVE  TypeOK'
    BY <2>4 DEF RecordCorrelation, RecordRun, Complete
  <2>5. ASSUME NEW d \in Dispatches, Retry(d) \/ GiveUp(d) PROVE TypeOK'
    BY <2>5 DEF Retry, GiveUp, Fault
  <2>6. CASE EditWeekdays
    BY <2>6 DEF EditWeekdays
  <2>7. CASE UNCHANGED vars
    BY <2>7 DEF vars
  <2> QED
    BY <2>1, <2>2, <2>3, <2>4, <2>5, <2>6, <2>7 DEF Next, Step, Work
<1> QED
  BY <1>1, <1>2, PTL DEF Spec

-----------------------------------------------------------------------------
\* What each await of the step leaves behind for the ones after it.
Groundwork(d) ==
    /\ pc[d] \in {"put", "record"} \/ d \in sentIds => posted[d] > 0
    /\ d \in asked => posted[d] > 0
    /\ pc[d] \in {"correlate", "run", "rerun"} => d \in asked
    /\ pc[d] = "run" => d \in correlated
    /\ pc[d] = "rerun" => d \notin fresh
    /\ pc[d] \in {"complete", "result"} /\ d \in fresh => d \in asked /\ d \in correlated
    /\ d \in ladder => d \in asked /\ d \in correlated

\* The run and the ladders stand on the check-ins (the strengthening of
\* SentRunHasItsCheckin and LadderHasItsCheckin that is inductive).
Grounded == /\ \A d \in Dispatches : Groundwork(d)
            /\ run # NoRun /\ run.status = "sent" => run.cor \in asked

\* Every attempt, wherever an earlier one was cut short, keeps the groundwork
\* of the step (start_daily_checkin_activity).
LEMMA GroundedCorrect == Spec => []Grounded
<1>1. Init => Grounded
  BY DEF Init, Grounded, Groundwork
<1>2. TypeOK /\ Grounded /\ [Next]_vars => Grounded'
  <2> SUFFICES ASSUME TypeOK, Grounded, [Next]_vars PROVE Grounded'
    OBVIOUS
  <2> USE DEF TypeOK, Places, InStep, Runs, Grounded, Groundwork, Move, rows, chat,
              world, trouble
  <2>1. ASSUME NEW d \in Dispatches, Plan(d) \/ Begin(d) \/ Reply(d) \/ CloseOut(d)
        PROVE  Grounded'
    BY <2>1 DEF Plan, Begin, Reply, CloseOut
  <2>2. ASSUME NEW d \in Dispatches, AlreadyRun(d) \/ NoRunYet(d) PROVE Grounded'
    BY <2>2 DEF AlreadyRun, NoRunYet
  <2>3. ASSUME NEW d \in Dispatches, RecordSkip(d) PROVE Grounded'
    <3>1. run'.status # "sent"
      BY <2>3 DEF RecordSkip
    <3> QED
      BY <2>3, <3>1 DEF RecordSkip
  <2>4. ASSUME NEW d \in Dispatches, ReadOwn(d) PROVE Grounded'
    BY <2>4 DEF ReadOwn
  <2>5. ASSUME NEW d \in Dispatches, PostDm(d) PROVE Grounded'
    <3>1. \A e \in Dispatches : posted[e] > 0 => posted'[e] > 0
      BY <2>5 DEF PostDm
    <3>2. pc'[d] \in {"put", "record"} /\ posted'[d] > 0
      BY <2>5 DEF PostDm
    <3>3. \A e \in Dispatches \ {d} : pc'[e] = pc[e]
      BY <2>5 DEF PostDm
    <3>4. UNCHANGED <<run, asked, correlated, sentIds, ladder, fresh>>
      BY <2>5 DEF PostDm
    <3>5. \A e \in Dispatches : Groundwork(e)'
      BY <3>1, <3>2, <3>3, <3>4
    <3> QED
      BY <3>4, <3>5
  <2>6. ASSUME NEW d \in Dispatches, PutSendId(d) PROVE Grounded'
    BY <2>6 DEF PutSendId
  <2>7. ASSUME NEW d \in Dispatches, RecordCheckin(d) PROVE Grounded'
    BY <2>7 DEF RecordCheckin
  <2>8. ASSUME NEW d \in Dispatches, RecordCorrelation(d) PROVE Grounded'
    BY <2>8 DEF RecordCorrelation
  <2>9. ASSUME NEW d \in Dispatches, RecordRun(d) PROVE Grounded'
    <3>1. run' = [cor |-> d, status |-> "sent"] /\ run'.cor = d /\ d \in asked'
      BY <2>9 DEF RecordRun
    <3>2. \A e \in Dispatches : Groundwork(e)'
      BY <2>9 DEF RecordRun
    <3> QED
      BY <3>1, <3>2
  <2>10. ASSUME NEW d \in Dispatches, Complete(d) \/ Launch(d) PROVE Grounded'
    BY <2>10 DEF Complete, Launch
  <2>11. ASSUME NEW d \in Dispatches, Retry(d) \/ GiveUp(d) PROVE Grounded'
    BY <2>11 DEF Retry, GiveUp, Fault
  <2>12. CASE EditWeekdays
    BY <2>12 DEF EditWeekdays
  <2>13. CASE UNCHANGED vars
    BY <2>13 DEF vars
  <2> QED
    BY <2>1, <2>2, <2>3, <2>4, <2>5, <2>6, <2>7, <2>8, <2>9, <2>10, <2>11, <2>12, <2>13
    DEF Next, Step, Work
<1> QED
  BY <1>1, <1>2, StartTypeCorrect, PTL DEF Spec

\* Whatever overlaps, fails or is retried, a run recorded as sent names a
\* check-in that was posted and recorded.
THEOREM SentRunsAreReal == Spec => []SentRunHasItsCheckin
<1>1. TypeOK /\ Grounded => SentRunHasItsCheckin
  BY DEF TypeOK, Runs, Grounded, Groundwork, SentRunHasItsCheckin
<1> QED
  BY <1>1, StartTypeCorrect, GroundedCorrect, PTL

\* Whatever overlaps, fails or is retried, a nudge workflow follows only a
\* check-in that was posted and that a reply can be matched to.
THEOREM LaddersAreGrounded == Spec => []LadderHasItsCheckin
<1>1. TypeOK /\ Grounded => LadderHasItsCheckin
  BY DEF TypeOK, Grounded, Groundwork, LadderHasItsCheckin
<1> QED
  BY <1>1, StartTypeCorrect, GroundedCorrect, PTL

-----------------------------------------------------------------------------
\* Past the check of the day's run.
Committed == InStep \ {"look", "complete"}

\* With dispatches one after the other, and no step out of attempts, whoever
\* posted is either still in the step or has recorded the day's run, and
\* nobody is past the check of a run that is recorded.
Serial == /\ \A d, e \in Dispatches : pc[d] \in InStep /\ pc[e] \in InStep => d = e
          /\ \A d \in Dispatches : pc[d] \in {"complete", "result", "done"} => run # NoRun
          /\ \A d \in Dispatches : pc[d] \in {"new", "planned"} => posted[d] = 0
          /\ run # NoRun => \A d \in Dispatches : pc[d] \notin Committed
          /\ \A d, e \in Dispatches : posted[d] > 0 /\ posted[e] > 0 => d = e

\* A day is orderly only if it always was: an overlap is remembered and a failed
\* dispatch stays failed.
LEMMA OrderlyBefore ==
  ASSUME TypeOK, [Next]_vars, Orderly'
  PROVE  Orderly
<1> USE DEF TypeOK, Orderly, Move, rows, chat, world, trouble, Places, InStep
<1>1. ASSUME NEW d \in Dispatches, Step(d) PROVE Orderly
  BY <1>1 DEF Step, Work, Plan, Begin, AlreadyRun, NoRunYet, RecordSkip, ReadOwn, PostDm,
     PutSendId, RecordCheckin, RecordCorrelation, RecordRun, Complete, Launch, Retry,
     GiveUp, Fault, Reply, CloseOut
<1>2. CASE EditWeekdays \/ UNCHANGED vars
  BY <1>2 DEF EditWeekdays, vars
<1> QED
  BY <1>1, <1>2 DEF Next

\* The day's run is a lock once it is recorded; until then the one dispatch in
\* the step holds the day (the first lines of start_daily_checkin_activity).
LEMMA SerialCorrect == Spec => [](Orderly => Serial)
<1> USE DEF Places, InStep, Committed
<1>1. Init => (Orderly => Serial)
  BY DEF Init, Serial
<1>2. TypeOK /\ (Orderly => Serial) /\ [Next]_vars => (Orderly' => Serial')
  <2> SUFFICES ASSUME TypeOK, Orderly => Serial, Orderly', [Next]_vars PROVE Serial'
    OBVIOUS
  <2>0. Orderly /\ Serial
    BY OrderlyBefore
  <2> USE <2>0 DEF TypeOK, Serial, Move, rows, chat, world, trouble
  <2>1. ASSUME NEW d \in Dispatches, Plan(d) \/ Reply(d) \/ CloseOut(d) PROVE Serial'
    BY <2>1 DEF Plan, Reply, CloseOut
  <2>2. ASSUME NEW d \in Dispatches, Begin(d) PROVE Serial'
    <3>1. \A e \in Dispatches : pc[e] \notin InStep
      BY <2>2 DEF Begin, Orderly
    <3>2. pc[d] = "planned" /\ pc' = [pc EXCEPT ![d] = "look"] /\ UNCHANGED <<run, posted>>
      BY <2>2 DEF Begin
    <3> QED
      BY <3>1, <3>2
  <2>3. ASSUME NEW d \in Dispatches, AlreadyRun(d) \/ NoRunYet(d) PROVE Serial'
    BY <2>3 DEF AlreadyRun, NoRunYet
  <2>4. ASSUME NEW d \in Dispatches, RecordSkip(d) \/ RecordRun(d) PROVE Serial'
    <3>1. /\ pc[d] \in Committed
          /\ pc' = [pc EXCEPT ![d] = "complete"]
          /\ run' # NoRun
          /\ posted' = posted
      BY <2>4, NoRunIsNone DEF RecordSkip, RecordRun
    <3> QED
      BY <3>1
  <2>5. ASSUME NEW d \in Dispatches, ReadOwn(d) PROVE Serial'
    BY <2>5 DEF ReadOwn
  <2>6. ASSUME NEW d \in Dispatches, PostDm(d) PROVE Serial'
    <3>1. pc[d] = "post" /\ run = NoRun /\ run' = run
      BY <2>6 DEF PostDm
    <3>2. \A e \in Dispatches : posted[e] > 0 => e = d
      <4> SUFFICES ASSUME NEW e \in Dispatches, posted[e] > 0 PROVE e = d
        OBVIOUS
      <4>1. pc[e] # "failed"
        BY <2>0 DEF Orderly
      <4>2. pc[e] \in InStep
        BY <3>1, <4>1
      <4> QED
        BY <3>1, <4>2
    <3>3. PICK to \in {"record", "put"} : pc' = [pc EXCEPT ![d] = to]
      BY <2>6 DEF PostDm
    <3>4. \A e \in Dispatches \ {d} : posted'[e] = posted[e] /\ pc'[e] = pc[e]
      BY <2>6 DEF PostDm
    <3>5. \A e \in Dispatches : posted'[e] > 0 => e = d
      BY <3>2, <3>4
    <3>6. pc'[d] \in {"record", "put"}
      BY <3>3
    <3> QED
      BY <3>1, <3>4, <3>5, <3>6
  <2>7. ASSUME NEW d \in Dispatches, PutSendId(d) \/ RecordCheckin(d) \/ RecordCorrelation(d)
        PROVE  Serial'
    BY <2>7 DEF PutSendId, RecordCheckin, RecordCorrelation
  <2>8. ASSUME NEW d \in Dispatches, Complete(d) \/ Launch(d) PROVE Serial'
    BY <2>8 DEF Complete, Launch
  <2>9. ASSUME NEW d \in Dispatches, Retry(d) PROVE Serial'
    BY <2>9 DEF Retry, Fault
  <2>10. ASSUME NEW d \in Dispatches, GiveUp(d) PROVE FALSE
    BY <2>10 DEF GiveUp, Fault, Orderly
  <2>11. CASE EditWeekdays
    BY <2>11 DEF EditWeekdays
  <2>12. CASE UNCHANGED vars
    BY <2>12 DEF vars
  <2> QED
    BY <2>1, <2>2, <2>3, <2>4, <2>5, <2>6, <2>7, <2>8, <2>9, <2>10, <2>11, <2>12
    DEF Next, Step, Work
<1> QED
  BY <1>1, <1>2, StartTypeCorrect, PTL DEF Spec

\* On a day whose dispatches do not overlap and do not run out of attempts, the
\* developer is asked at most once, whatever crashes: it is the overlap, not the
\* crash, that the rule of features.md is exposed to.
THEOREM OrderlyDaysAskOnce == Spec => []OrderlyAsksOnce
<1>1. (Orderly => Serial) => OrderlyAsksOnce
  <2> SUFFICES ASSUME Serial PROVE Cardinality(Asking) <= 1
    BY DEF OrderlyAsksOnce
  <2>1. CASE Asking = {}
    BY <2>1, FS_EmptySet
  <2>2. CASE Asking # {}
    <3>1. PICK d \in Asking : TRUE
      BY <2>2
    <3>2. Asking = {d}
      BY <3>1 DEF Serial, Asking
    <3>3. Cardinality({d}) = 1
      BY FS_Singleton
    <3> QED
      BY <3>2, <3>3
  <2> QED
    BY <2>1, <2>2
<1> QED
  BY <1>1, SerialCorrect, PTL

\* On such a day a run recorded as sent is never overwritten.
THEOREM OrderlyRunsStay == Spec => OrderlyRunStays
<1>1. TypeOK /\ (Orderly => Serial) /\ [Next]_vars
        => [Orderly /\ run # NoRun /\ run.status = "sent" => run' = run]_vars
  <2> SUFFICES ASSUME TypeOK, Serial, [Next]_vars, run # NoRun PROVE run' = run
    OBVIOUS
  <2>1. \A d \in Dispatches : ~RecordSkip(d) /\ ~RecordRun(d)
    BY DEF RecordSkip, RecordRun, Serial, Committed, InStep, Move
  <2>2. CASE EditWeekdays \/ UNCHANGED vars
    BY <2>2 DEF EditWeekdays, rows, vars
  <2>3. ASSUME NEW d \in Dispatches, Step(d) PROVE run' = run
    BY <2>1, <2>3 DEF Step, Work, Plan, Begin, AlreadyRun, NoRunYet, ReadOwn, PostDm,
       PutSendId, RecordCheckin, RecordCorrelation, Complete, Launch, Retry, GiveUp,
       Fault, Reply, CloseOut, rows
  <2> QED
    BY <2>2, <2>3 DEF Next
<1> QED
  BY <1>1, StartTypeCorrect, SerialCorrect, PTL DEF Spec, OrderlyRunStays

-----------------------------------------------------------------------------
\* A message beyond those whose ids were lost has its id on record, or is about
\* to: with ResendsArePaidFor this is inductive.
LastIsKept == \A d \in Dispatches :
    /\ posted[d] <= 1 + lost[d]
    /\ d \notin sentIds /\ pc[d] # "put" => posted[d] <= lost[d]

\* A message is posted again only for an attempt that was cut short between its
\* post and its recorded id, whatever overlaps and however often a step is retried.
THEOREM ResendsArePaid == Spec => []ResendsArePaidFor
<1> USE DEF LastIsKept, InStep
<1>1. Init => LastIsKept
  BY DEF Init
<1>2. TypeOK /\ LastIsKept /\ [Next]_vars => LastIsKept'
  <2> SUFFICES ASSUME TypeOK, LastIsKept, [Next]_vars PROVE LastIsKept'
    OBVIOUS
  <2> USE DEF TypeOK, Move, rows, chat, world, trouble
  <2>1. ASSUME NEW d \in Dispatches,
               \/ Plan(d) \/ Begin(d) \/ AlreadyRun(d) \/ NoRunYet(d) \/ RecordSkip(d)
               \/ ReadOwn(d) \/ RecordCheckin(d) \/ RecordCorrelation(d) \/ RecordRun(d)
               \/ Complete(d) \/ Launch(d) \/ Reply(d) \/ CloseOut(d)
        PROVE  LastIsKept'
    <3>1. /\ UNCHANGED <<posted, sentIds, lost>>
          /\ \A e \in Dispatches : pc[e] = "put" => pc'[e] = "put"
      BY <2>1 DEF Plan, Begin, AlreadyRun, NoRunYet, RecordSkip, ReadOwn, RecordCheckin,
                  RecordCorrelation, RecordRun, Complete, Launch, Reply, CloseOut
    <3> QED
      BY <3>1
  <2>2. ASSUME NEW d \in Dispatches, PostDm(d) PROVE LastIsKept'
    BY <2>2 DEF PostDm
  <2>3. ASSUME NEW d \in Dispatches, PutSendId(d) PROVE LastIsKept'
    BY <2>3 DEF PutSendId
  <2>4. ASSUME NEW d \in Dispatches, NEW to \in Places \ {"put"}, Fault(d, to) PROVE LastIsKept'
    <3>1. UNCHANGED <<posted, sentIds>> /\ pc' = [pc EXCEPT ![d] = to]
      BY <2>4 DEF Fault
    <3>2. \A e \in Dispatches : lost'[e] >= lost[e] /\ (pc[e] = "put" /\ e = d => lost'[e] = lost[e] + 1)
      BY <2>4 DEF Fault
    <3>3. \A e \in Dispatches : posted[e] \in Nat /\ lost[e] \in Nat /\ lost'[e] \in Nat
      BY <2>4 DEF Fault
    <3> QED
      BY <3>1, <3>2, <3>3
  <2>5. CASE EditWeekdays \/ UNCHANGED vars
    BY <2>5 DEF EditWeekdays, vars
  <2>6. "look" \in Places \ {"put"} /\ "failed" \in Places \ {"put"}
    BY DEF Places
  <2> QED
    BY <2>1, <2>2, <2>3, <2>4, <2>5, <2>6 DEF Next, Step, Work, Retry, GiveUp
<1>3. LastIsKept => ResendsArePaidFor
  BY DEF ResendsArePaidFor
<1> QED
  BY <1>1, <1>2, <1>3, StartTypeCorrect, PTL DEF Spec
=============================================================================
