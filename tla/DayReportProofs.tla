-------------------------- MODULE DayReportProofs --------------------------
(***************************************************************************)
(* What the day reports guarantee for any reports, destinations, workers,  *)
(* clock and number of calls, crashes and errors: a removed report stays   *)
(* removed, a run left unfinished was cut short, and a scheduled report    *)
(* reaches a destination once for its local day.                           *)
(***************************************************************************)
EXTENDS DayReport, TLAPS

Sending(w) == me[w].pc \in {"build", "deliver", "record"}

LEMMA RunType == \A n \in Nat, r \in Reports, d \in Nat, b \in BOOLEAN :
                    NewRun(n, r, d, b) \in Run
  BY DEF NewRun, Run, Ids

LEMMA RestType == Rest \in Held /\ Rest.pc = "idle" /\ Rest.todo = {}
<1>1. (CHOOSE s \in Settings : TRUE) \in Settings
  BY SettingsType
<1>2. (CHOOSE r \in Reports : TRUE) \in Reports
  BY SettingsType
<1>3. NewRun(0, CHOOSE r \in Reports : TRUE, 0, FALSE) \in Run
  BY <1>2, RunType
<1> QED
  BY <1>1, <1>3 DEF Rest, Held, Places

\* The local day of a definition is a day.
LEMMA DayType == \A s \in Settings, h \in Nat : Day(s, h) \in Nat
<1>1. \A s \in Settings : s.zone \in Nat
  BY SettingsType DEF Setting
<1>2. \A n \in Nat : n \div DayHours \in Nat
  BY NumbersType
<1> QED
  BY <1>1, <1>2 DEF Day

LEMMA RaiseType == ASSUME NEW w \in Workers, TypeOK, Raise(w)
                   PROVE  me' \in [Workers -> Held] /\ dropped' \subseteq Ids
  BY RestType DEF TypeOK, Raise, Stop, Held, Run

LEMMA TypeCorrectStep == ASSUME TypeOK, [Next]_vars PROVE TypeOK'
<1> USE DEF TypeOK, past, At, To
<1>0. now \in Nat
  BY NumbersType
<1>1. CASE Hour
  BY <1>1, NumbersType DEF Hour
<1>2. ASSUME NEW w \in Workers, Dispatch(w) PROVE TypeOK'
  <2>1. [Rest EXCEPT !.pc = "next", !.number = calls, !.seen = defs, !.hour = now,
                     !.todo = kept] \in Held
    BY <1>0, RestType DEF Held, Places
  <2> QED
    BY <1>2, <2>1 DEF Dispatch, Begin
<1>3. ASSUME NEW w \in Workers, NEW r \in Reports, SendNow(w, r) PROVE TypeOK'
  <2>1. NewRun(calls, r, Day(defs[r], now), FALSE) \in Run
    <3>1. Day(defs[r], now) \in Nat
      BY <1>0, DayType
    <3> QED
      BY <3>1, RunType
  <2>2. [Rest EXCEPT !.pc = "start", !.number = calls, !.seen = defs, !.hour = now,
                     !.run = NewRun(calls, r, Day(defs[r], now), FALSE)] \in Held
    BY <1>0, <2>1, RestType DEF Held, Places
  <2> QED
    BY <1>3, <2>2 DEF SendNow, Begin
<1>4. ASSUME NEW w \in Workers, NEW r \in Reports, NEW s \in Settings, Save(w, r, s)
      PROVE  TypeOK'
  <2>1. [Rest EXCEPT !.pc = "save", !.new = s, !.run = NewRun(calls, r, 0, FALSE)] \in Held
    BY RunType, RestType DEF Held, Places
  <2> QED
    BY <1>4, <2>1 DEF Save, Begin
<1>5. ASSUME NEW w \in Workers, PickNext(w) PROVE TypeOK'
  <2>1. PICK r \in me[w].todo :
          \/ me' = [me EXCEPT ![w].todo = @ \ {r}]
          \/ me' = [me EXCEPT ![w].todo = @ \ {r}, ![w].pc = "claim",
                      ![w].run = NewRun(me[w].number, r, Day(me[w].seen[r], me[w].hour), TRUE)]
    BY <1>5 DEF PickNext
  <2>2. me[w] \in Held /\ r \in Reports
    BY <2>1 DEF Held
  <2>3. NewRun(me[w].number, r, Day(me[w].seen[r], me[w].hour), TRUE) \in Run
    BY <2>2, RunType, DayType DEF Held
  <2>4. me' \in [Workers -> Held]
    <3> DEFINE run == NewRun(me[w].number, r, Day(me[w].seen[r], me[w].hour), TRUE)
    <3>1. run \in Run
      BY <2>3
    <3> HIDE DEF run
    <3>2. CASE me' = [me EXCEPT ![w].todo = @ \ {r}]
      BY <2>2, <3>2 DEF Held, Places
    <3>3. CASE me' = [me EXCEPT ![w].todo = @ \ {r}, ![w].pc = "claim", ![w].run = run]
      BY <2>2, <3>1, <3>3 DEF Held, Places
    <3> QED
      BY <2>1, <3>2, <3>3 DEF run
  <2> QED
    BY <1>5, <2>4 DEF PickNext
<1>6. ASSUME NEW w \in Workers, PassEnds(w) \/ SaveRefused(w) \/ SaveWrites(w)
      PROVE  TypeOK'
  BY <1>6, RestType DEF PassEnds, SaveRefused, SaveWrites, Stop, Held, Run
<1>7. ASSUME NEW w \in Workers, Claim(w) \/ Start(w) PROVE TypeOK'
  BY <1>7 DEF Claim, Start, Held, Places
<1>8. ASSUME NEW w \in Workers, Orphaned(w) \/ RecordRefused(w) \/ Crash(w) PROVE TypeOK'
  BY <1>8, RaiseType DEF Orphaned, RecordRefused, Crash
<1>9. ASSUME NEW w \in Workers, Build(w) \/ BuildFails(w) \/ Delivered(w) PROVE TypeOK'
  <2>1. me[w] \in Held /\ Where(w) \subseteq Destinations
    BY SettingsType DEF Where, Held, Setting, Run
  <2> QED
    BY <1>9, <2>1 DEF Build, BuildFails, Delivered, Held, Places, Run
<1>10. ASSUME NEW w \in Workers, NEW d \in Destinations, Deliver(w, d) \/ DeliverFails(w, d)
       PROVE  TypeOK'
  <2>1. me[w] \in Held /\ me[w].run \in Run
    BY DEF Held
  <2>2. [id |-> me[w].run.id, report |-> me[w].run.report, day |-> me[w].run.day,
         scheduled |-> me[w].run.scheduled, to |-> d] \in Delivery
    BY <2>1 DEF Run, Delivery
  <2>3. posted' \subseteq Delivery
    BY <1>10, <2>2 DEF Deliver, DeliverFails, Arrives
  <2>4. me' \in [Workers -> Held]
    <3>1. \/ me' = [me EXCEPT ![w].left = @ \ {d}, ![w].run.ok = @ \cup {d}]
          \/ me' = [me EXCEPT ![w].left = @ \ {d}, ![w].run.failed = @ \cup {d}]
      BY <1>10 DEF Deliver, DeliverFails
    <3>2. CASE me' = [me EXCEPT ![w].left = @ \ {d}, ![w].run.ok = @ \cup {d}]
      BY <2>1, <3>2 DEF Held, Run
    <3>3. CASE me' = [me EXCEPT ![w].left = @ \ {d}, ![w].run.failed = @ \cup {d}]
      BY <2>1, <3>3 DEF Held, Run
    <3> QED
      BY <3>1, <3>2, <3>3
  <2> QED
    BY <1>10, <2>3, <2>4 DEF Deliver, DeliverFails
<1>11. ASSUME NEW w \in Workers, RecordRun(w) PROVE TypeOK'
  <2>1. me[w] \in Held /\ me[w].run \in Run
    BY DEF Held
  <2>2. [me[w].run EXCEPT !.finished = TRUE] \in Run
    BY <2>1 DEF Run
  <2>3. me' \in [Workers -> Held]
    <3>1. CASE Stop(w)
      BY <3>1, RestType DEF Stop
    <3>2. CASE me' = [me EXCEPT ![w].pc = "next", ![w].left = {}]
      BY <2>1, <3>2 DEF Held, Places
    <3> QED
      BY <1>11, <3>1, <3>2 DEF RecordRun
  <2> QED
    BY <1>11, <2>2, <2>3 DEF RecordRun
<1>12. ASSUME NEW r \in Reports, Remove(r) PROVE TypeOK'
  BY <1>12 DEF Remove
<1>13. CASE UNCHANGED vars
  BY <1>13 DEF vars
<1> QED
  BY <1>1, <1>2, <1>3, <1>4, <1>5, <1>6, <1>7, <1>8, <1>9, <1>10, <1>11, <1>12, <1>13
  DEF Next, Step

\* Every step leaves every variable in its type: what a row of day_report_runs,
\* a definition and a call's locals may be (PostgresDayReportRepository).
THEOREM TypeCorrect == Spec => []TypeOK
<1>1. Init => TypeOK
  BY RestType, NumbersType DEF Init, TypeOK
<1> QED
  BY <1>1, TypeCorrectStep, PTL DEF Spec

-----------------------------------------------------------------------------
\* What was delivered, and the runs whose calls may still deliver.
InHand == {me[w].run : w \in {v \in Workers : Sending(v)}}
Items == posted \cup InHand

Same(p, q) == /\ p.id = q.id /\ p.report = q.report
              /\ p.day = q.day /\ p.scheduled = q.scheduled

Calling(w) == me[w].pc \in {"next", "claim", "start", "build", "deliver", "record"}

\* Calls have numbers of their own, and a run is named by its call and report.
CallsAreNumbered ==
    /\ \A w \in Workers : Calling(w) => me[w].number < calls
    /\ \A v, w \in Workers :
          (Calling(v) /\ Calling(w) /\ me[v].number = me[w].number) => v = w
    /\ \A w \in Workers : (Calling(w) /\ me[w].pc # "next") =>
          /\ me[w].run.id = <<me[w].number, me[w].run.report>>
          /\ me[w].run.report \notin me[w].todo
          /\ me[w].pc = "start" => ~me[w].run.scheduled

\* A delivery, whether it succeeds or not, keeps the run in hand.
LEMMA DeliveryShape ==
  ASSUME TypeOK, NEW w \in Workers, NEW d \in Destinations, Deliver(w, d) \/ DeliverFails(w, d)
  PROVE  /\ \A v \in Workers : v # w => me'[v] = me[v]
         /\ calls' = calls /\ me[w].pc = "deliver" /\ me'[w].pc = "deliver"
         /\ me'[w].number = me[w].number /\ me'[w].todo = me[w].todo
         /\ Same(me'[w].run, me[w].run)
BY DEF TypeOK, Held, At, Same, Deliver, DeliverFails, Run

\* What one step of a call leaves of its number, its run and its list.
LEMMA CallShape ==
  ASSUME TypeOK, NEW w \in Workers, Step(w) \/ Crash(w)
  PROVE  /\ \A v \in Workers : v # w => me'[v] = me[v]
         /\ calls' = calls
         /\ \/ me'[w].pc = "idle"
            \/ /\ me[w].pc # "next" /\ Calling(w)
               /\ me'[w].pc \in {"next", "build", "deliver", "record"}
               /\ me'[w].number = me[w].number /\ me'[w].todo = me[w].todo
               /\ Same(me'[w].run, me[w].run)
            \/ /\ me[w].pc = "next" /\ me'[w].pc = "next"
               /\ me'[w].number = me[w].number /\ me'[w].todo \subseteq me[w].todo
            \/ /\ me[w].pc = "next" /\ me'[w].pc = "claim"
               /\ me'[w].number = me[w].number
               /\ me'[w].run.report \in me[w].todo
               /\ me'[w].todo = me[w].todo \ {me'[w].run.report}
               /\ me'[w].run.id = <<me[w].number, me'[w].run.report>>
<1> USE DEF TypeOK, Held, At, To, Stop, Calling, Same
<1>2. CASE Orphaned(w) \/ RecordRefused(w) \/ Crash(w)
  BY RestType, <1>2 DEF Orphaned, RecordRefused, Crash, Raise
<1>3. CASE PickNext(w)
  <2>1. PICK r \in me[w].todo :
          \/ me' = [me EXCEPT ![w].todo = @ \ {r}]
          \/ me' = [me EXCEPT ![w].todo = @ \ {r}, ![w].pc = "claim",
                      ![w].run = NewRun(me[w].number, r, Day(me[w].seen[r], me[w].hour), TRUE)]
    BY <1>3 DEF PickNext
  <2>2. CASE me' = [me EXCEPT ![w].todo = @ \ {r}]
    BY <1>3, <2>2 DEF PickNext
  <2> DEFINE run == NewRun(me[w].number, r, Day(me[w].seen[r], me[w].hour), TRUE)
  <2>3. run.id = <<me[w].number, r>> /\ run.report = r
    BY DEF NewRun
  <2> HIDE DEF run
  <2>4. CASE me' = [me EXCEPT ![w].todo = @ \ {r}, ![w].pc = "claim", ![w].run = run]
    BY <1>3, <2>3, <2>4 DEF PickNext
  <2> QED
    BY <2>1, <2>2, <2>4 DEF run
<1>4. CASE PassEnds(w) \/ SaveWrites(w) \/ SaveRefused(w)
  BY RestType, <1>4 DEF PassEnds, SaveWrites, SaveRefused
<1>5. CASE Claim(w) \/ Start(w)
  BY <1>5 DEF Claim, Start
<1>6. CASE Build(w) \/ BuildFails(w) \/ Delivered(w)
  BY <1>6 DEF Build, BuildFails, Delivered, Run
<1>7. ASSUME NEW d \in Destinations, Deliver(w, d) \/ DeliverFails(w, d)
      PROVE  /\ \A v \in Workers : v # w => me'[v] = me[v]
             /\ calls' = calls /\ me[w].pc = "deliver" /\ me'[w].pc = "deliver"
             /\ me'[w].number = me[w].number /\ me'[w].todo = me[w].todo
             /\ Same(me'[w].run, me[w].run)
  BY <1>7, DeliveryShape
<1>8. CASE RecordRun(w)
  BY RestType, <1>8 DEF RecordRun
<1> QED
  BY <1>2, <1>3, <1>4, <1>5, <1>6, <1>7, <1>8 DEF Step

LEMMA BeginShape ==
  ASSUME TypeOK, NEW w \in Workers,
         \/ Dispatch(w) \/ \E r \in Reports : SendNow(w, r)
         \/ \E r \in Reports, s \in Settings : Save(w, r, s)
  PROVE  /\ \A v \in Workers : v # w => me'[v] = me[v]
         /\ calls' = calls + 1 /\ me[w].pc = "idle"
         /\ \/ me'[w].pc = "save"
            \/ /\ me'[w].pc = "next" /\ me'[w].number = calls
            \/ /\ me'[w].pc = "start" /\ me'[w].number = calls
               /\ me'[w].run.id = <<calls, me'[w].run.report>> /\ me'[w].todo = {}
               /\ ~me'[w].run.scheduled
<1> USE DEF TypeOK, At
<1>1. CASE Dispatch(w)
  BY RestType, <1>1 DEF Dispatch, Begin, Held
<1>2. ASSUME NEW r \in Reports, SendNow(w, r)
      PROVE  /\ \A v \in Workers : v # w => me'[v] = me[v]
             /\ calls' = calls + 1 /\ me[w].pc = "idle"
             /\ me'[w].pc = "start" /\ me'[w].number = calls
             /\ me'[w].run.id = <<calls, r>> /\ me'[w].run.report = r /\ me'[w].todo = {}
             /\ ~me'[w].run.scheduled
  BY RestType, <1>2 DEF SendNow, Begin, Held, NewRun
<1>3. ASSUME NEW r \in Reports, NEW s \in Settings, Save(w, r, s)
      PROVE  /\ \A v \in Workers : v # w => me'[v] = me[v]
             /\ calls' = calls + 1 /\ me[w].pc = "idle" /\ me'[w].pc = "save"
  BY RestType, <1>3 DEF Save, Begin, Held
<1> QED
  BY <1>1, <1>2, <1>3

-----------------------------------------------------------------------------
\* A save in hand is of a report that is there, or was removed under it.
SavesAreKnown == \A w \in Workers :
    (At(w, "save") /\ me[w].run.report \in removed) => me[w].run.report \in raced

\* What a step leaves of a call that saves: its place and its report.
LEMMA OnlySaveSaves ==
  ASSUME TypeOK, NEW w \in Workers, Step(w) \/ Dispatch(w) \/ Crash(w)
                                    \/ \E r \in Reports : SendNow(w, r)
  PROVE  \A v \in Workers : me'[v].pc = "save" => v # w /\ me'[v] = me[v]
<1> USE DEF TypeOK, Held, At, To, Stop
<1>1. CASE Dispatch(w) \/ \E r \in Reports : SendNow(w, r)
  <2>1. \E held : me' = [me EXCEPT ![w] = held] /\ held.pc \in {"next", "start"}
    <3>1. CASE Dispatch(w)
      <4> DEFINE held == [Rest EXCEPT !.pc = "next", !.number = calls, !.seen = defs,
                                      !.hour = now, !.todo = kept]
      <4>1. held.pc = "next"
        BY RestType
      <4>2. me' = [me EXCEPT ![w] = held]
        BY <3>1 DEF Dispatch, Begin
      <4> QED
        BY <4>1, <4>2
    <3>2. ASSUME NEW r \in Reports, SendNow(w, r)
          PROVE  \E held : me' = [me EXCEPT ![w] = held] /\ held.pc \in {"next", "start"}
      <4> DEFINE held == [Rest EXCEPT !.pc = "start", !.number = calls, !.seen = defs,
                          !.hour = now, !.run = NewRun(calls, r, Day(defs[r], now), FALSE)]
      <4>1. held.pc = "start"
        BY RestType
      <4>2. me' = [me EXCEPT ![w] = held]
        BY <3>2 DEF SendNow, Begin
      <4> QED
        BY <4>1, <4>2
    <3> QED
      BY <1>1, <3>1, <3>2
  <2> QED
    BY <2>1
<1> QED
  BY <1>1, CallShape

LEMMA Bookkeeping ==
  ASSUME TypeOK, NEW w \in Workers, Step(w) \/ Dispatch(w) \/ Crash(w)
                                    \/ \E r \in Reports : SendNow(w, r)
  PROVE  /\ removed' = removed /\ raced' = raced
         /\ kept' = kept \/ (At(w, "save") /\ kept' = kept \cup {me[w].run.report})
BY DEF Step, PickNext, PassEnds, Claim, Start, Orphaned, Build, BuildFails, Deliver, DeliverFails,
       Delivered, RecordRun, RecordRefused, SaveWrites, SaveRefused, Dispatch, SendNow, Begin,
       Crash, Raise, past

\* A removed report comes back only when it was removed between a save's lookup
\* and its upsert (DayReportService.save, delete_definition).
LEMMA RemovedStep ==
  ASSUME TypeOK, RemovedStaysRemoved, SavesAreKnown, [Next]_vars
  PROVE  RemovedStaysRemoved' /\ SavesAreKnown'
<1> USE DEF RemovedStaysRemoved, SavesAreKnown, At
<1>1. CASE Hour \/ UNCHANGED vars
  BY <1>1 DEF Hour, vars, past
<1>2. ASSUME NEW w \in Workers, Step(w) \/ Dispatch(w) \/ Crash(w)
                                 \/ \E r \in Reports : SendNow(w, r)
      PROVE  RemovedStaysRemoved' /\ SavesAreKnown'
  BY <1>2, OnlySaveSaves, Bookkeeping
<1>3. ASSUME NEW w \in Workers, NEW r \in Reports, NEW s \in Settings, Save(w, r, s)
      PROVE  RemovedStaysRemoved' /\ SavesAreKnown'
  <2>1. r \in removed => r \in raced
    BY <1>3 DEF Save
  <2>2. \A v \in Workers : v # w => me'[v] = me[v]
    BY <1>3 DEF Save, Begin, TypeOK
  <2>3. me'[w].run.report = r
    BY <1>3 DEF Save, Begin, TypeOK, NewRun, Rest
  <2>4. kept' = kept /\ removed' = removed /\ raced' = raced
    BY <1>3 DEF Save, Begin, past
  <2> QED
    BY <2>1, <2>2, <2>3, <2>4
<1>4. ASSUME NEW r \in Reports, Remove(r) PROVE RemovedStaysRemoved' /\ SavesAreKnown'
  BY <1>4 DEF Remove
<1> QED
  BY <1>1, <1>2, <1>3, <1>4 DEF Next

THEOREM RemovedCorrect == Spec => []RemovedStaysRemoved
<1>1. Init => RemovedStaysRemoved /\ SavesAreKnown
  BY DEF Init, RemovedStaysRemoved, SavesAreKnown
<1> QED
  BY <1>1, RemovedStep, TypeCorrect, PTL DEF Spec

-----------------------------------------------------------------------------
\* Items are named by earlier calls, never by what a call has still to send.
ItemsAreNamed ==
    /\ \A p \in Items, n \in Nat, r \in Reports : p.id = <<n, r>> => n < calls
    /\ \A p \in Items, w \in Workers : Calling(w) =>
          /\ \A r \in me[w].todo : p.id # <<me[w].number, r>>
          /\ me[w].pc \in {"claim", "start"} => p.id # me[w].run.id
    /\ \A p, q \in Items : p.id = q.id => Same(p, q)

ReportsAreKnown == \A p \in Items : p.report \in kept \cup removed

\* While a report stays, each of its items has the row of its run.
RowsStand == \A p \in Items : (p.report \in kept /\ p.report \notin raced) =>
                                  \E q \in runs : Same(p, q)

OneRunADay == \A p, q \in Items :
    (p.scheduled /\ q.scheduled /\ p.report = q.report /\ p.day = q.day /\ p.report \notin raced)
      => p.id = q.id

\* A step other than a claim adds no item that was not in hand.
LEMMA ItemsKept ==
  ASSUME TypeOK, Next, NEW p \in Items'
  PROVE  \/ \E q \in Items : Same(p, q)
         \/ \E w \in Workers : (Claim(w) \/ Start(w)) /\ me'[w].pc = "build" /\ p = me'[w].run
<1> USE DEF Items, InHand, Sending, Same
<1>1. CASE Hour \/ \E r \in Reports : Remove(r)
  BY <1>1 DEF Hour, Remove, past
<1>2. ASSUME NEW w \in Workers,
             \/ Dispatch(w) \/ \E r \in Reports : SendNow(w, r)
             \/ \E r \in Reports, s \in Settings : Save(w, r, s)
      PROVE  \E q \in Items : Same(p, q)
  <2>1. posted' = posted
    BY <1>2 DEF Dispatch, SendNow, Save, Begin, past
  <2> QED
    BY <1>2, <2>1, BeginShape
<1>3. ASSUME NEW w \in Workers, NEW d \in Destinations, Deliver(w, d) \/ DeliverFails(w, d)
      PROVE  \E q \in Items : Same(p, q)
  <2>1. \A q \in posted' : q \in posted \/ Same(q, me[w].run)
    BY <1>3 DEF Deliver, DeliverFails, Arrives
  <2> QED
    BY <1>3, <2>1, DeliveryShape
<1>4. ASSUME NEW w \in Workers, Step(w) \/ Crash(w),
             ~\E d \in Destinations : Deliver(w, d) \/ DeliverFails(w, d)
      PROVE  \/ \E q \in Items : Same(p, q)
             \/ (Claim(w) \/ Start(w)) /\ me'[w].pc = "build" /\ p = me'[w].run
  <2>1. posted' = posted
    BY <1>4 DEF Step, PickNext, PassEnds, Claim, Start, Orphaned, Build, BuildFails, Delivered,
                RecordRun, RecordRefused, SaveWrites, SaveRefused, Crash, past
  <2>2. CASE p \in posted'
    BY <2>1, <2>2
  <2>3. ASSUME NEW v \in Workers, v # w, Sending(v)', p = me'[v].run
        PROVE  \E q \in Items : Same(p, q)
    BY <1>4, <2>3, CallShape
  <2>4. CASE p = me'[w].run /\ Sending(w)'
    <3>1. CASE me'[w].pc = "build" /\ (Claim(w) \/ Start(w))
      BY <2>4, <3>1
    <3>2. CASE Sending(w)
      BY <1>4, <2>4, <3>2, CallShape
    <3>3. Sending(w) \/ Claim(w) \/ Start(w)
      <4>1. me[w].pc \in {"claim", "start"} \/ Sending(w)
        BY <1>4, <2>4, CallShape DEF Calling
      <4>2. CASE Orphaned(w) \/ Crash(w)
        <5>1. me'[w].pc = "idle"
          BY <4>2, RestType DEF Orphaned, Crash, Raise, Stop, TypeOK
        <5> QED
          BY <2>4, <5>1
      <4> QED
        BY <1>4, <4>1, <4>2 DEF Step, PickNext, PassEnds, Build, BuildFails, Delivered,
           RecordRun, RecordRefused, SaveWrites, SaveRefused, At
    <3>4. Claim(w) \/ Start(w) => me'[w].pc \in {"next", "build"}
      BY DEF Claim, Start, To, TypeOK, Held
    <3> QED
      BY <2>4, <3>1, <3>2, <3>3, <3>4
  <2> QED
    BY <2>2, <2>3, <2>4
<1> QED
  BY <1>1, <1>2, <1>3, <1>4 DEF Next

LEMMA NumberedStep ==
  ASSUME TypeOK, CallsAreNumbered, [Next]_vars
  PROVE  CallsAreNumbered'
<1> USE DEF CallsAreNumbered, Calling
<1>1. CASE Hour \/ (\E r \in Reports : Remove(r)) \/ UNCHANGED vars
  BY <1>1 DEF Hour, Remove, vars, past
<1>2. ASSUME NEW w \in Workers,
             \/ Dispatch(w) \/ \E r \in Reports : SendNow(w, r)
             \/ \E r \in Reports, s \in Settings : Save(w, r, s)
      PROVE  CallsAreNumbered'
  <2>1. calls \in Nat /\ \A v \in Workers : me[v].number \in Nat
    BY DEF TypeOK, Held
  <2> QED
    BY <1>2, <2>1, BeginShape
<1>3. ASSUME NEW w \in Workers, Step(w) \/ Crash(w) PROVE CallsAreNumbered'
  BY <1>3, CallShape DEF Same
<1> QED
  BY <1>1, <1>2, <1>3 DEF Next

Lists == ItemsAreNamed /\ ReportsAreKnown /\ RowsStand /\ OneRunADay

Taken(w) == (Claim(w) \/ Start(w)) /\ me'[w].pc = "build"

\* A run taken is of a report that is there, has its row, and is named by its call.
LEMMA TakenShape ==
  ASSUME TypeOK, CallsAreNumbered, NEW w \in Workers, Taken(w)
  PROVE  /\ me[w].pc \in {"claim", "start"} /\ Calling(w)
         /\ Same(me'[w].run, me[w].run)
         /\ me'[w].run.report \in kept
         /\ me'[w].run.id = <<me[w].number, me'[w].run.report>>
         /\ me[w].number \in Nat /\ me'[w].run.report \in Reports
         /\ runs' = runs \cup {me[w].run}
         /\ UNCHANGED <<kept, removed, raced, calls, posted>>
         /\ me[w].run.scheduled => Scheduled(me[w].run.report, me[w].run.day) = {}
<1>1. me[w].pc \in {"claim", "start"} /\ Calling(w) /\ me'[w].run = me[w].run
  BY DEF Taken, Claim, Start, At, To, Calling, TypeOK, Held
<1>2. me[w].run.report \in kept /\ me[w].number \in Nat /\ me[w].run.report \in Reports
  BY DEF Taken, Claim, Start, TypeOK, Held, Run
<1>3. me[w].pc = "start" => ~me[w].run.scheduled
  BY <1>1 DEF CallsAreNumbered
<1>4. /\ runs' = runs \cup {me[w].run}
      /\ UNCHANGED <<kept, removed, raced, calls, posted>>
      /\ me[w].pc = "claim" => Scheduled(me[w].run.report, me[w].run.day) = {}
  BY DEF Taken, Claim, Start, At, To, TypeOK, Held, past
<1>5. me[w].run.id = <<me[w].number, me[w].run.report>>
  BY <1>1 DEF CallsAreNumbered, Calling
<1> QED
  BY <1>1, <1>2, <1>3, <1>4, <1>5 DEF Same

\* What a step keeps of the stored rows and of the history.
LEMMA RowsKept ==
  ASSUME TypeOK, Next, NEW q \in runs
  PROVE  \/ q \in runs'
         \/ q.report \notin kept'
         \/ \E w \in Workers : Sending(w) /\ q.id = me[w].run.id
                             /\ \E k \in runs' : Same(me[w].run, k)
<1>1. ASSUME NEW w \in Workers, RecordRun(w)
      PROVE  q \in runs' \/ (/\ Sending(w) /\ q.id = me[w].run.id
                             /\ \E k \in runs' : Same(me[w].run, k))
  <2>1. Same(me[w].run, [me[w].run EXCEPT !.finished = TRUE])
    BY DEF Same, TypeOK, Held, Run
  <2> QED
    BY <1>1, <2>1 DEF RecordRun, Sending, At
<1>2. ASSUME NEW r \in Reports, Remove(r) PROVE q \in runs' \/ q.report \notin kept'
  BY <1>2 DEF Remove
<1>3. ASSUME NEW w \in Workers, Claim(w) \/ Start(w) PROVE q \in runs'
  BY <1>3 DEF Claim, Start
<1> QED
  BY <1>1, <1>2, <1>3 DEF Next, Hour, Step, PickNext, PassEnds, Orphaned, Build, BuildFails, Deliver,
     DeliverFails, Delivered, RecordRefused, SaveWrites, SaveRefused, Dispatch, SendNow, Save, Begin,
     Crash

\* Invariants of the report's items survive a step that takes no run.
LEMMA ListsKept ==
  ASSUME TypeOK, RemovedStaysRemoved, SavesAreKnown, CallsAreNumbered, Lists, Next,
         ~\E w \in Workers : Taken(w)
  PROVE  Lists'
<1>1. \A p \in Items' : \E q \in Items : Same(p, q)
  BY ItemsKept DEF Taken
<1>2. /\ kept' \subseteq kept \/ \E w \in Workers : SaveWrites(w)
      /\ kept \cup removed \subseteq kept' \cup removed'
      /\ raced \subseteq raced' /\ removed \subseteq removed'
      /\ calls \in Nat /\ (calls' = calls \/ calls' = calls + 1)
  BY DEF Next, Hour, Step, PickNext, PassEnds, Claim, Start, Orphaned, Build, BuildFails, Deliver,
         DeliverFails, Delivered, RecordRun, RecordRefused, SaveWrites, SaveRefused, Dispatch,
         SendNow, Save, Begin, Crash, Raise, Remove, past, TypeOK
<1>3. ItemsAreNamed'
  <2>1. ASSUME NEW p \in Items', NEW n \in Nat, NEW r \in Reports, p.id = <<n, r>>
        PROVE  n < calls'
    BY <1>1, <1>2, <2>1 DEF Lists, ItemsAreNamed, Same
  <2>2. ASSUME NEW p \in Items', NEW w \in Workers, Calling(w)'
        PROVE  /\ \A r \in me'[w].todo : p.id # <<me'[w].number, r>>
               /\ me'[w].pc \in {"claim", "start"} => p.id # me'[w].run.id
    <3>1. PICK q \in Items : p.id = q.id
      BY <1>1 DEF Same
    <3>2. CASE me'[w] = me[w]
      BY <2>2, <3>1, <3>2 DEF Lists, ItemsAreNamed, Calling
    <3>3. CASE \/ Dispatch(w) \/ \E r \in Reports : SendNow(w, r)
               \/ \E r \in Reports, s \in Settings : Save(w, r, s)
      <4>1. \A r \in Reports : q.id # <<calls, r>>
        BY <1>2 DEF Lists, ItemsAreNamed
      <4>2. me'[w].run.report \in Reports /\ me'[w].todo \subseteq Reports
        BY TypeCorrectStep DEF TypeOK, Held, Run
      <4> QED
        BY <2>2, <3>1, <3>3, <4>1, <4>2, BeginShape DEF Calling
    <3>4. CASE Step(w) \/ Crash(w)
      BY <2>2, <3>1, <3>4, CallShape DEF Lists, ItemsAreNamed, Calling
    <3>5. me'[w] = me[w] \/ Step(w) \/ Crash(w) \/ Dispatch(w)
            \/ (\E r \in Reports : SendNow(w, r))
            \/ \E r \in Reports, s \in Settings : Save(w, r, s)
      <4>1. CASE Hour \/ \E r \in Reports : Remove(r)
        BY <4>1 DEF Hour, Remove
      <4> QED
        BY <4>1, CallShape, BeginShape DEF Next
    <3> QED
      BY <3>2, <3>3, <3>4, <3>5
  <2>3. \A p, q \in Items' : p.id = q.id => Same(p, q)
    BY <1>1 DEF Lists, ItemsAreNamed, Same
  <2> QED
    BY <2>1, <2>2, <2>3 DEF ItemsAreNamed
<1>4. ReportsAreKnown'
  BY <1>1, <1>2 DEF Lists, ReportsAreKnown, Same
<1>5. RowsStand'
  <2> SUFFICES ASSUME NEW p \in Items', p.report \in kept', p.report \notin raced'
               PROVE  \E k \in runs' : Same(p, k)
    BY DEF RowsStand
  <2>1. PICK q \in Items : Same(p, q)
    BY <1>1
  <2>2. q.report \in kept
    <3>1. ASSUME NEW w \in Workers, SaveWrites(w), q.report \notin kept PROVE FALSE
      <4>1. q.report = me[w].run.report /\ At(w, "save")
        BY <2>1, <3>1 DEF SaveWrites, Same
      <4>2. q.report \in removed
        BY <3>1 DEF Lists, ReportsAreKnown
      <4> QED
        BY <1>2, <2>1, <4>1, <4>2 DEF SavesAreKnown, Same
    <3> QED
      BY <1>2, <2>1, <3>1 DEF Same
  <2>3. PICK k \in runs : Same(q, k)
    BY <1>2, <2>1, <2>2 DEF Lists, RowsStand, Same
  <2>4. CASE k \in runs'
    BY <2>1, <2>3, <2>4 DEF Same
  <2>5. ASSUME NEW w \in Workers, Sending(w), k.id = me[w].run.id,
               NEW l \in runs', Same(me[w].run, l)
        PROVE  Same(p, l)
    <3>1. me[w].run \in Items /\ q.id = me[w].run.id
      BY <2>3, <2>5 DEF Items, InHand, Same
    <3>2. Same(q, me[w].run)
      BY <3>1 DEF Lists, ItemsAreNamed
    <3> QED
      BY <2>1, <2>5, <3>2 DEF Same
  <2> QED
    BY <2>1, <2>3, <2>4, <2>5, RowsKept DEF Same
<1>6. OneRunADay'
  BY <1>1, <1>2 DEF Lists, OneRunADay, Same
<1> QED
  BY <1>3, <1>4, <1>5, <1>6 DEF Lists

\* They survive the claim of a day, or the first row of a manual send.
LEMMA ListsTaken ==
  ASSUME TypeOK, CallsAreNumbered, Lists, Next, NEW w \in Workers, Taken(w)
  PROVE  Lists'
<1>0. /\ \A v \in Workers : v # w => me'[v] = me[v]
      /\ me'[w].pc = "build" /\ me'[w].number = me[w].number /\ me'[w].todo = me[w].todo
  BY CallShape, TakenShape DEF Taken, Step
<1>1. \A p \in Items' : (\E q \in Items : Same(p, q)) \/ p = me'[w].run
  <2>1. \A v \in Workers : v # w => ~Taken(v)
    BY <1>0, TakenShape DEF Taken
  <2> QED
    BY <2>1, ItemsKept DEF Taken
<1>2. ItemsAreNamed'
  <2>1. ASSUME NEW p \in Items', NEW n \in Nat, NEW r \in Reports, p.id = <<n, r>>
        PROVE  n < calls'
    <3>1. CASE p = me'[w].run
      BY <2>1, <3>1, TakenShape DEF CallsAreNumbered
    <3> QED
      BY <1>1, <2>1, <3>1, TakenShape DEF Lists, ItemsAreNamed, Same
  <2>2. ASSUME NEW p \in Items', NEW v \in Workers, Calling(v)'
        PROVE  /\ \A r \in me'[v].todo : p.id # <<me'[v].number, r>>
               /\ me'[v].pc \in {"claim", "start"} => p.id # me'[v].run.id
    <3>1. CASE v = w
      BY <1>0, <1>1, <3>1, TakenShape DEF Lists, ItemsAreNamed, CallsAreNumbered, Same
    <3>2. CASE v # w /\ p = me'[w].run
      BY <1>0, <2>2, <3>2, TakenShape DEF CallsAreNumbered, Calling
    <3>3. CASE v # w /\ \E q \in Items : Same(p, q)
      BY <1>0, <2>2, <3>3 DEF Lists, ItemsAreNamed, Same, Calling
    <3> QED
      BY <1>1, <3>1, <3>2, <3>3
  <2>3. ASSUME NEW p \in Items', NEW q \in Items', p.id = q.id PROVE Same(p, q)
    <3>1. \A i \in Items : i.id # me'[w].run.id
      BY TakenShape DEF Lists, ItemsAreNamed, Same
    <3> QED
      BY <1>1, <2>3, <3>1 DEF Lists, ItemsAreNamed, Same
  <2> QED
    BY <2>1, <2>2, <2>3 DEF ItemsAreNamed
<1>3. ReportsAreKnown'
  BY <1>1, TakenShape DEF Lists, ReportsAreKnown, Same
<1>4. RowsStand'
  <2>1. me[w].run \in runs' /\ runs \subseteq runs'
    BY TakenShape
  <2> QED
    BY <1>1, <2>1, TakenShape DEF Lists, RowsStand, Same
<1>5. OneRunADay'
  <2>1. ASSUME NEW q \in Items, q.scheduled, me'[w].run.scheduled,
               q.report = me'[w].run.report, q.day = me'[w].run.day, q.report \notin raced
        PROVE  FALSE
    <3>1. PICK k \in runs : Same(q, k)
      BY <2>1, TakenShape DEF Lists, RowsStand
    <3> QED
      BY <2>1, <3>1, TakenShape DEF Scheduled, Same
  <2> QED
    BY <1>1, <2>1, TakenShape DEF Lists, OneRunADay, Same
<1> QED
  BY <1>2, <1>3, <1>4, <1>5 DEF Lists

\* However often the pass fires, overlaps itself or is run again, a scheduled
\* report reaches a destination once for its local day (claim_scheduled_run).
THEOREM ScheduledCorrect == Spec => []ScheduledOnce
<1> DEFINE Inv == CallsAreNumbered /\ Lists
<1>1. Init => Inv
  <2>1. ASSUME Init PROVE Items = {} /\ \A w \in Workers : ~Calling(w)
    BY <2>1, RestType DEF Init, Items, InHand, Sending, Calling
  <2> QED
    BY <2>1 DEF CallsAreNumbered, Lists, ItemsAreNamed, ReportsAreKnown, RowsStand, OneRunADay
<1>2. TypeOK /\ RemovedStaysRemoved /\ SavesAreKnown /\ Inv /\ [Next]_vars => Inv'
  <2> SUFFICES ASSUME TypeOK, RemovedStaysRemoved, SavesAreKnown, Inv, [Next]_vars PROVE Lists'
    BY NumberedStep
  <2>1. CASE UNCHANGED vars
    BY <2>1 DEF vars, past, Lists, ItemsAreNamed, ReportsAreKnown, RowsStand, OneRunADay, Items,
                InHand, Sending, Calling
  <2> QED
    BY <2>1, ListsKept, ListsTaken
<1>3. TypeOK /\ Inv => ScheduledOnce
  BY DEF TypeOK, Delivery, Lists, OneRunADay, Items, ScheduledOnce
<1>4. Init => RemovedStaysRemoved /\ SavesAreKnown
  BY DEF Init, RemovedStaysRemoved, SavesAreKnown
<1> QED
  BY <1>1, <1>2, <1>3, <1>4, RemovedStep, TypeCorrect, PTL DEF Spec

-----------------------------------------------------------------------------
\* A call that lets go of its run has recorded it, or was cut short.
LEMMA LetGo ==
  ASSUME TypeOK, NEW w \in Workers, Sending(w), Step(w) \/ Crash(w)
  PROVE  \/ Sending(w)' /\ me'[w].run.id = me[w].run.id
         \/ me[w].run.id \in dropped'
         \/ RecordRun(w)
<1>1. CASE Build(w) \/ BuildFails(w) \/ Delivered(w)
  BY <1>1 DEF Build, BuildFails, Delivered, To, TypeOK, Held, Run, Sending
<1>2. ASSUME NEW d \in Destinations, Deliver(w, d) \/ DeliverFails(w, d)
      PROVE  Sending(w)' /\ me'[w].run.id = me[w].run.id
  BY <1>2, DeliveryShape DEF Sending, Same
<1>3. CASE Orphaned(w) \/ RecordRefused(w) \/ Crash(w)
  BY <1>3 DEF Orphaned, RecordRefused, Crash, Raise
<1> QED
  BY <1>1, <1>2, <1>3 DEF Step, Sending, PickNext, PassEnds, Claim, Start, SaveWrites, SaveRefused, At

\* A row of day_report_runs that is not finished is being sent, or its call was
\* cut short: no path of _send forgets to record its run.
THEOREM UnfinishedCorrect == Spec => []UnfinishedIsInHand
<1>1. Init => UnfinishedIsInHand
  BY DEF Init, UnfinishedIsInHand
<1>2. TypeOK /\ UnfinishedIsInHand /\ [Next]_vars => UnfinishedIsInHand'
  <2> SUFFICES ASSUME TypeOK, UnfinishedIsInHand, [Next]_vars, NEW q \in runs', ~q.finished,
                      q.id \notin dropped'
               PROVE  \E w \in Workers : Sending(w)' /\ me'[w].run.id = q.id
    BY DEF UnfinishedIsInHand, Sending
  <2>1. CASE Hour \/ (\E r \in Reports : Remove(r)) \/ UNCHANGED vars
    BY <2>1 DEF Hour, Remove, vars, past, UnfinishedIsInHand, Sending
  <2>2. ASSUME NEW w \in Workers,
               \/ Dispatch(w) \/ \E r \in Reports : SendNow(w, r)
               \/ \E r \in Reports, s \in Settings : Save(w, r, s)
        PROVE  \E v \in Workers : Sending(v)' /\ me'[v].run.id = q.id
    <3>1. runs' = runs /\ dropped' = dropped
      BY <2>2 DEF Dispatch, SendNow, Save, Begin, past
    <3> QED
      BY <2>2, <3>1, BeginShape DEF UnfinishedIsInHand, Sending
  <2>3. ASSUME NEW w \in Workers, Step(w) \/ Crash(w)
        PROVE  \E v \in Workers : Sending(v)' /\ me'[v].run.id = q.id
    <3>1. CASE q \in runs
      <4>1. dropped \subseteq dropped'
        BY <2>3 DEF Step, PickNext, PassEnds, Claim, Start, Orphaned, Build, BuildFails, Deliver,
           DeliverFails, Delivered, RecordRun, RecordRefused, SaveWrites, SaveRefused, Crash, Raise,
           past
      <4>2. PICK v \in Workers : Sending(v) /\ me[v].run.id = q.id
        BY <3>1, <4>1 DEF UnfinishedIsInHand, Sending
      <4>3. CASE v # w
        BY <2>3, <4>2, <4>3, CallShape DEF Sending
      <4>4. CASE v = w
        <5>1. ~RecordRun(w)
          BY <4>2, <4>4 DEF RecordRun, TypeOK, Held, Run
        <5> QED
          BY <2>3, <4>2, <4>4, <5>1, LetGo
      <4> QED
        BY <4>3, <4>4
    <3>2. CASE q \notin runs
      <4>1. ~RecordRun(w)
        <5>1. [me[w].run EXCEPT !.finished = TRUE].finished
          BY DEF TypeOK, Held, Run
        <5> QED
          BY <3>2, <5>1 DEF RecordRun
      <4>2. (Claim(w) \/ Start(w)) /\ q = me[w].run
        BY <2>3, <3>2, <4>1 DEF Step, PickNext, PassEnds, Claim, Start, Orphaned, Build, BuildFails,
           Deliver, DeliverFails, Delivered, RecordRefused, SaveWrites, SaveRefused, Crash
      <4>3. me'[w].pc = "build" /\ me'[w].run = me[w].run
        BY <3>2, <4>2 DEF Claim, Start, To, TypeOK, Held
      <4> QED
        BY <4>2, <4>3 DEF Sending
    <3> QED
      BY <3>1, <3>2
  <2> QED
    BY <2>1, <2>2, <2>3 DEF Next
<1> QED
  BY <1>1, <1>2, TypeCorrect, PTL DEF Spec
=============================================================================
