----------------------------- MODULE DayReport -----------------------------
(***************************************************************************)
(* The day reports: their definitions, the scheduled pass that sends what  *)
(* is due, and "send now".  A worker is one call of DayReportService: a    *)
(* dispatch pass, a manual send or a save, one statement of the store or   *)
(* one delivery to a step.  Passes overlap when one outlasts the tick, and *)
(* an administrator edits and removes reports under them.                  *)
(*                                                                         *)
(* Time is counted in hours of UTC; a definition's zone shifts it.  What a *)
(* report says, its day's note and the weekdays are left out.              *)
(***************************************************************************)
EXTENDS Naturals, FiniteSets

CONSTANTS Reports,       \* report ids
          Destinations,  \* where a report may go
          Settings,      \* the definitions an administrator may save
          Workers,       \* calls running at once
          DayHours,      \* hours in a day
          Window,        \* SEND_WINDOW, in hours
          Hours,         \* bound: the last hour
          MaxCalls,      \* bound: calls
          MaxCrashes     \* bound: crashes and raised errors

Setting == [on : BOOLEAN, at : Nat, zone : Nat, to : SUBSET Destinations]

ASSUME SettingsType == Settings \subseteq Setting /\ Settings # {} /\ Reports # {}
ASSUME NumbersType == /\ DayHours \in Nat \ {0} /\ Window \in Nat /\ Hours \in Nat
                      /\ MaxCalls \in Nat /\ MaxCrashes \in Nat

VARIABLES kept,          \* reports with a row of day_reports
          defs,          \* the row's definition
          runs,          \* rows of day_report_runs
          now,           \* the hour
          me,            \* what each worker holds in its call
          calls,         \* calls so far; they name the runs
          crashes,       \* crashes so far
          posted,        \* history: deliveries that arrived
          removed,       \* history: reports removed
          raced,         \* history: reports removed under a save
          dropped        \* history: runs whose call ended before it was recorded

past == <<posted, removed, raced, dropped>>
vars == <<kept, defs, runs, now, me, calls, crashes, posted, removed, raced, dropped>>

\* Faulty variant: the zone is taken off the day instead of added to the hour.
DayWest(setting, hour) == (hour \div DayHours) - setting.zone

Day(setting, hour) == (hour + setting.zone) \div DayHours

\* due_date: on that day, from its send time until the window closes.
Due(setting, hour) == LET local == (hour + setting.zone) % DayHours
                      IN  setting.at <= local /\ local < setting.at + Window

Ids == Nat \X Reports
Run == [id : Ids, report : Reports, day : Nat, scheduled : BOOLEAN, finished : BOOLEAN,
        ok : SUBSET Destinations, failed : SUBSET Destinations]
Delivery == [id : Ids, report : Reports, day : Nat, scheduled : BOOLEAN, to : Destinations]

Places == {"idle", "next", "claim", "start", "build", "deliver", "record", "save"}

\* In a call: where, its number, the definitions and the hour it began with, the
\* reports still to see, the run in hand, where that still goes, what to save.
Held == [pc : Places, number : Nat, seen : [Reports -> Settings], hour : Nat,
         todo : SUBSET Reports, run : Run, left : SUBSET Destinations, new : Settings]

TypeOK == /\ kept \subseteq Reports
          /\ defs \in [Reports -> Settings]
          /\ runs \subseteq Run
          /\ now \in 0..Hours
          /\ me \in [Workers -> Held]
          /\ calls \in Nat /\ crashes \in Nat
          /\ posted \subseteq Delivery
          /\ removed \subseteq Reports /\ raced \subseteq Reports
          /\ dropped \subseteq Ids

NewRun(number, r, day, scheduled) ==
    [id |-> <<number, r>>, report |-> r, day |-> day, scheduled |-> scheduled,
     finished |-> FALSE, ok |-> {}, failed |-> {}]

\* What a worker holds between calls is of no account.
Rest == [pc |-> "idle", number |-> 0, seen |-> [r \in Reports |-> CHOOSE s \in Settings : TRUE],
         hour |-> 0, todo |-> {}, run |-> NewRun(0, CHOOSE r \in Reports : TRUE, 0, FALSE),
         left |-> {}, new |-> CHOOSE s \in Settings : TRUE]

Init == /\ kept \in SUBSET Reports
        /\ defs \in [Reports -> Settings]
        /\ runs = {}
        /\ now = 0
        /\ me = [w \in Workers |-> Rest]
        /\ calls = 0 /\ crashes = 0
        /\ posted = {} /\ removed = {} /\ raced = {} /\ dropped = {}

-----------------------------------------------------------------------------
At(w, place) == me[w].pc = place
To(w, place) == me' = [me EXCEPT ![w].pc = place]
Stop(w) == me' = [me EXCEPT ![w] = Rest]

Begin(w, held) == /\ At(w, "idle")
                  /\ calls < MaxCalls
                  /\ calls' = calls + 1
                  /\ me' = [me EXCEPT ![w] = held]
                  /\ UNCHANGED <<kept, defs, runs, now, crashes, past>>

Hour == now < Hours /\ now' = now + 1
          /\ UNCHANGED <<kept, defs, runs, me, calls, crashes, past>>

\* A raised error ends the call; a scheduled pass leaves the reports it had not
\* come to for the next tick, and the run in hand as it is.
Raise(w) == Stop(w) /\ dropped' = dropped \cup {me[w].run.id}

-----------------------------------------------------------------------------
\* dispatch_due: one list of the definitions, one moment for all of them.
Dispatch(w) == Begin(w, [Rest EXCEPT !.pc = "next", !.number = calls, !.seen = defs,
                                     !.hour = now, !.todo = kept])

\* The next report of the list: passed over unless it is on and due.
PickNext(w) == /\ At(w, "next")
               /\ \E r \in me[w].todo :
                    LET setting == me[w].seen[r]
                        day == Day(setting, me[w].hour)
                    IN  IF setting.on /\ setting.to # {} /\ Due(setting, me[w].hour)
                          THEN me' = [me EXCEPT ![w].todo = @ \ {r}, ![w].pc = "claim",
                                        ![w].run = NewRun(me[w].number, r, day, TRUE)]
                          ELSE me' = [me EXCEPT ![w].todo = @ \ {r}]
               /\ UNCHANGED <<kept, defs, runs, now, calls, crashes, past>>

PassEnds(w) == /\ At(w, "next")
               /\ me[w].todo = {}
               /\ Stop(w)
               /\ UNCHANGED <<kept, defs, runs, now, calls, crashes, past>>

Scheduled(r, day) == {q \in runs : q.scheduled /\ q.report = r /\ q.day = day}

\* Faulty variant: a run that was not finished may be claimed again.
ClaimUnfinished(w) == /\ At(w, "claim")
                      /\ me[w].run.report \in kept
                      /\ IF \E q \in Scheduled(me[w].run.report, me[w].run.day) : q.finished
                           THEN To(w, "next") /\ UNCHANGED runs
                           ELSE To(w, "build") /\ runs' = runs \cup {me[w].run}
                      /\ UNCHANGED <<kept, defs, now, calls, crashes, past>>

\* claim_scheduled_run: the insert, unless a scheduled run of that day is there.
Claim(w) == /\ At(w, "claim")
            /\ me[w].run.report \in kept
            /\ IF Scheduled(me[w].run.report, me[w].run.day) # {}
                 THEN To(w, "next") /\ UNCHANGED runs
                 ELSE To(w, "build") /\ runs' = runs \cup {me[w].run}
            /\ UNCHANGED <<kept, defs, now, calls, crashes, past>>

\* send_now: always a run of its own.
SendNow(w, r) == /\ r \in kept
                 /\ Begin(w, [Rest EXCEPT !.pc = "start", !.number = calls, !.seen = defs,
                        !.hour = now, !.run = NewRun(calls, r, Day(defs[r], now), FALSE)])

Start(w) == /\ At(w, "start")
            /\ me[w].run.report \in kept
            /\ runs' = runs \cup {me[w].run}
            /\ To(w, "build")
            /\ UNCHANGED <<kept, defs, now, calls, crashes, past>>

\* The report was removed under the run, and its runs with it: the row cannot be
\* written.
Orphaned(w) == /\ me[w].pc \in {"claim", "start", "record"}
               /\ me[w].run.report \notin kept
               /\ Raise(w)
               /\ UNCHANGED <<kept, defs, runs, now, calls, crashes, posted, removed,
                              raced>>

-----------------------------------------------------------------------------
Where(w) == me[w].seen[me[w].run.report].to

Build(w) == /\ At(w, "build")
            /\ me' = [me EXCEPT ![w].pc = "deliver", ![w].left = Where(w)]
            /\ UNCHANGED <<kept, defs, runs, now, calls, crashes, past>>

\* Faulty variant: a report that cannot be built leaves its run as it is.
BuildQuits(w) == /\ At(w, "build")
                 /\ To(w, "next")
                 /\ UNCHANGED <<kept, defs, runs, now, calls, crashes, past>>

\* The project or the release is gone: every destination is told off as failed.
BuildFails(w) == /\ At(w, "build")
                 /\ me' = [me EXCEPT ![w].pc = "record", ![w].run.failed = Where(w)]
                 /\ UNCHANGED <<kept, defs, runs, now, calls, crashes, past>>

Arrives(w, d) == posted' = posted \cup {[id |-> me[w].run.id, report |-> me[w].run.report,
                    day |-> me[w].run.day, scheduled |-> me[w].run.scheduled, to |-> d]}

Deliver(w, d) == /\ At(w, "deliver") /\ d \in me[w].left
                 /\ me' = [me EXCEPT ![w].left = @ \ {d}, ![w].run.ok = @ \cup {d}]
                 /\ Arrives(w, d)
                 /\ UNCHANGED <<kept, defs, runs, now, calls, crashes, removed, raced, dropped>>

\* A send that fails, or arrives and answers too late, never raises.
DeliverFails(w, d) == /\ At(w, "deliver") /\ d \in me[w].left
                      /\ me' = [me EXCEPT ![w].left = @ \ {d}, ![w].run.failed = @ \cup {d}]
                      /\ \/ Arrives(w, d)
                         \/ UNCHANGED posted
                      /\ UNCHANGED <<kept, defs, runs, now, calls, crashes, removed, raced,
                                     dropped>>

Delivered(w) == /\ At(w, "deliver")
                /\ me[w].left = {}
                /\ To(w, "record")
                /\ UNCHANGED <<kept, defs, runs, now, calls, crashes, past>>

\* Another scheduled run of the day has the place this run's row lost.
Displaced(w) == /\ me[w].run.scheduled
                /\ \E q \in Scheduled(me[w].run.report, me[w].run.day) : q.id # me[w].run.id

\* record_run: the row of this run id, replaced.
RecordRun(w) == /\ At(w, "record")
                /\ me[w].run.report \in kept
                /\ ~Displaced(w)
                /\ runs' = {q \in runs : q.id # me[w].run.id}
                             \cup {[me[w].run EXCEPT !.finished = TRUE]}
                /\ IF me[w].run.scheduled THEN me' = [me EXCEPT ![w].pc = "next", ![w].left = {}]
                                          ELSE Stop(w)
                /\ UNCHANGED <<kept, defs, now, calls, crashes, past>>

RecordRefused(w) == /\ At(w, "record")
                    /\ Displaced(w)
                    /\ Raise(w)
                    /\ UNCHANGED <<kept, defs, runs, now, calls, crashes, posted,
                                   removed, raced>>

-----------------------------------------------------------------------------
\* Faulty variant: the lookup is left out.
SaveAny(w, r, s) == Begin(w, [Rest EXCEPT !.pc = "save", !.new = s,
                                          !.run = NewRun(calls, r, 0, FALSE)])

\* save: a new report has an id of its own; an old one is looked up first.
Save(w, r, s) == /\ r \in kept \/ r \notin removed
                 /\ Begin(w, [Rest EXCEPT !.pc = "save", !.new = s,
                                          !.run = NewRun(calls, r, 0, FALSE)])

\* save_definition: an upsert, whatever happened since the lookup.
SaveWrites(w) == /\ At(w, "save")
                 /\ kept' = kept \cup {me[w].run.report}
                 /\ defs' = [defs EXCEPT ![me[w].run.report] = me[w].new]
                 /\ Stop(w)
                 /\ UNCHANGED <<runs, now, calls, crashes, past>>

\* The project, or the release, is not one: nothing is saved.
SaveRefused(w) == /\ At(w, "save")
                  /\ Stop(w)
                  /\ UNCHANGED <<kept, defs, runs, now, calls, crashes, past>>

\* delete_definition: the row, and with it its runs.
Remove(r) == /\ r \in kept
             /\ kept' = kept \ {r}
             /\ runs' = {q \in runs : q.report # r}
             /\ removed' = removed \cup {r}
             /\ raced' = IF \E w \in Workers : At(w, "save") /\ me[w].run.report = r
                           THEN raced \cup {r} ELSE raced
             /\ UNCHANGED <<defs, now, me, calls, crashes, posted, dropped>>

\* A process dies in a call, or a step of it raises what nothing handles.
Crash(w) == /\ ~At(w, "idle")
            /\ crashes < MaxCrashes
            /\ crashes' = crashes + 1
            /\ Raise(w)
            /\ UNCHANGED <<kept, defs, runs, now, calls, posted, removed, raced>>

Step(w) == \/ PickNext(w) \/ PassEnds(w) \/ Claim(w) \/ Start(w) \/ Orphaned(w)
           \/ Build(w) \/ BuildFails(w)
           \/ \E d \in Destinations : Deliver(w, d) \/ DeliverFails(w, d)
           \/ Delivered(w) \/ RecordRun(w) \/ RecordRefused(w)
           \/ SaveWrites(w) \/ SaveRefused(w)

Next == \/ Hour
        \/ \E w \in Workers : \/ Step(w) \/ Dispatch(w) \/ Crash(w)
                              \/ \E r \in Reports : SendNow(w, r)
                              \/ \E r \in Reports, s \in Settings : Save(w, r, s)
        \/ \E r \in Reports : Remove(r)

Spec == Init /\ [][Next]_vars

-----------------------------------------------------------------------------
\* A report that was removed stays removed, unless the removal came between a
\* save's lookup and its upsert.
RemovedStaysRemoved == kept \cap removed \subseteq raced

\* However often the pass fires, overlaps itself or is run again, a scheduled
\* report reaches a destination once for its local day: even when its send time
\* or zone is edited that day.  Its runs go with it when it is removed, and a
\* save that brings it back lets the day be claimed anew.
ScheduledOnce == \A p, q \in posted :
                    (/\ p.scheduled /\ q.scheduled /\ p.report = q.report /\ p.day = q.day
                     /\ p.to = q.to /\ p.report \notin raced) => (p = q)

\* A run on record that is not finished is being sent, or its call was cut short.
UnfinishedIsInHand == \A q \in runs :
    q.finished \/ q.id \in dropped
      \/ \E w \in Workers : me[w].pc \in {"build", "deliver", "record"} /\ me[w].run.id = q.id
=============================================================================
