--------------------------- MODULE CheckinStart ---------------------------
(***************************************************************************)
(* Asking one developer for one day's check-in: the dispatches that the    *)
(* fan-out, the reconcile pass and the admin route plan, and the durable   *)
(* step start_daily_checkin_activity that each of their workflows runs.    *)
(*                                                                         *)
(* A dispatch is named by its correlation id: prepare_daily_checkin_payload*)
(* makes one from the workflow's fresh id, so no two dispatches share it   *)
(* and a retried step keeps it.  The send-once guard below the chat call   *)
(* is reduced to the id it records per correlation (module SendOnce).      *)
(***************************************************************************)
EXTENDS Naturals, FiniteSets

CONSTANTS Fanouts,        \* dispatches the scheduled fan-out may plan
          Reconciles,     \* dispatches the reconcile pass may plan
          Admins,         \* dispatches of the admin route
          NoRun,          \* no schedule run is recorded for the day
          Edits,          \* whether the check-in days are edited meanwhile
          MaxFaults,      \* bound: crashes and raised errors one step meets
          Attempts        \* attempts the workflow engine gives a step

Dispatches == Fanouts \cup Reconciles \cup Admins

ASSUME DispatchesFinite == IsFiniteSet(Dispatches)
ASSUME NoRunIsNone == NoRun \notin [cor : Dispatches, status : {"sent", "skipped_weekend"}]
ASSUME EditsBoolean == Edits \in BOOLEAN
ASSUME BoundsNat == MaxFaults \in Nat /\ Attempts \in Nat

VARIABLES run,            \* the developer's row of checkin_schedule_runs for the day
          asked,          \* correlations with a row in checkins
          correlated,     \* correlations with a row in checkin_correlations
          replied,        \* check-ins with a recorded reply
          closed,         \* correlations consumed by the close of a silent ladder
          posted,         \* check-in messages sent, by correlation
          sentIds,        \* correlations whose message id send-once has recorded
          ladder,         \* correlations whose nudge workflow was started
          weekday,        \* whether the preference includes this weekday
          pc,             \* where each dispatch is
          fresh,          \* dispatches whose step found nothing already recorded
          faults,         \* faults each dispatch's step has met
          lost,           \* history: faults between a post and its recorded id
          overlapped      \* history: a step began while another one ran

rows == <<run, asked, correlated>>
chat == <<posted, sentIds>>
world == <<replied, closed, weekday>>
trouble == <<faults, lost, overlapped>>
vars == <<run, asked, correlated, replied, closed, posted, sentIds, ladder,
          weekday, pc, fresh, faults, lost, overlapped>>

Runs == [cor : Dispatches, status : {"sent", "skipped_weekend"}]

\* Inside the durable step, in the order of its awaits; "rerun" is the run
\* recorded for a check-in that a first attempt left behind.
InStep == {"look", "skip", "own", "rerun", "post", "put", "record", "correlate",
           "run", "complete"}

Places == InStep \cup {"new", "planned", "result", "done", "failed"}

TypeOK == /\ run \in Runs \cup {NoRun}
          /\ asked \subseteq Dispatches
          /\ correlated \subseteq Dispatches
          /\ replied \subseteq Dispatches
          /\ closed \subseteq Dispatches
          /\ posted \in [Dispatches -> Nat]
          /\ sentIds \subseteq Dispatches
          /\ ladder \subseteq Dispatches
          /\ weekday \in BOOLEAN
          /\ pc \in [Dispatches -> Places]
          /\ fresh \subseteq Dispatches
          /\ faults \in [Dispatches -> Nat]
          /\ lost \in [Dispatches -> Nat]
          /\ overlapped \in BOOLEAN

Init == /\ run = NoRun
        /\ asked = {} /\ correlated = {} /\ replied = {} /\ closed = {}
        /\ posted = [d \in Dispatches |-> 0]
        /\ sentIds = {} /\ ladder = {} /\ fresh = {}
        /\ weekday \in BOOLEAN
        /\ pc = [d \in Dispatches |-> "new"]
        /\ faults = [d \in Dispatches |-> 0]
        /\ lost = [d \in Dispatches |-> 0]
        /\ overlapped = FALSE

Move(d, from, to) == pc[d] = from /\ pc' = [pc EXCEPT ![d] = to]

-----------------------------------------------------------------------------
(* Planning.  The fan-out takes every developer with no answered check-in  *)
(* that day; the reconcile pass also requires that no run is recorded; the *)
(* admin route asks whatever is recorded.                                  *)

Plan(d) == /\ d \in Fanouts \cup Reconciles => replied = {}
           /\ d \in Reconciles => run = NoRun
           /\ Move(d, "new", "planned")
           /\ UNCHANGED <<rows, chat, world, ladder, fresh, trouble>>

\* The dispatch's workflow starts its step.
Begin(d) == /\ Move(d, "planned", "look")
            /\ overlapped' = (overlapped \/ \E e \in Dispatches : pc[e] \in InStep)
            /\ UNCHANGED <<rows, chat, world, ladder, fresh, faults, lost>>

-----------------------------------------------------------------------------
(* start_daily_checkin_activity.                                           *)

\* The preference and the day's run are read: a recorded run ends the step.
AlreadyRun(d) == /\ run # NoRun
                 /\ Move(d, "look", "complete")
                 /\ fresh' = fresh \ {d}
                 /\ UNCHANGED <<rows, chat, world, ladder, trouble>>

\* Faulty variant: no run is looked for.
NoRunYetUnchecked(d) == /\ Move(d, "look", IF weekday THEN "own" ELSE "skip")
                        /\ fresh' = fresh \cup {d}
                        /\ UNCHANGED <<rows, chat, world, ladder, trouble>>

NoRunYet(d) == /\ run = NoRun
               /\ Move(d, "look", IF weekday THEN "own" ELSE "skip")
               /\ fresh' = fresh \cup {d}
               /\ UNCHANGED <<rows, chat, world, ladder, trouble>>

\* Faulty variant: the skipped day's run gets the status of a sent one.
RecordSkipAsSent(d) == /\ Move(d, "skip", "complete")
                       /\ run' = [cor |-> d, status |-> "sent"]
                       /\ fresh' = fresh \ {d}
                       /\ UNCHANGED <<asked, correlated, chat, world, ladder, trouble>>

\* The run of a weekday the preference excludes.
RecordSkip(d) == /\ Move(d, "skip", "complete")
                 /\ run' = [cor |-> d, status |-> "skipped_weekend"]
                 /\ fresh' = fresh \ {d}
                 /\ UNCHANGED <<asked, correlated, chat, world, ladder, trouble>>

\* The check-in of this correlation is read: an earlier attempt may have left it.
\* A found check-in only has its run recorded, and counts as already recorded.
ReadOwn(d) == /\ Move(d, "own", IF d \in asked THEN "rerun" ELSE "post")
              /\ fresh' = IF d \in asked THEN fresh \ {d} ELSE fresh
              /\ UNCHANGED <<rows, chat, world, ladder, trouble>>

\* Faulty variant: the send carries no idempotency key.
PostDmUnkeyed(d) == /\ Move(d, "post", "put")
                    /\ posted' = [posted EXCEPT ![d] = @ + 1]
                    /\ UNCHANGED <<rows, sentIds, world, ladder, fresh, trouble>>

\* The DM: its send-once id is returned when one is recorded, else it is posted.
PostDm(d) == /\ Move(d, "post", IF d \in sentIds THEN "record" ELSE "put")
             /\ posted' = IF d \in sentIds THEN posted
                          ELSE [posted EXCEPT ![d] = @ + 1]
             /\ UNCHANGED <<rows, sentIds, world, ladder, fresh, trouble>>

PutSendId(d) == /\ Move(d, "put", "record")
                /\ sentIds' = sentIds \cup {d}
                /\ UNCHANGED <<rows, posted, world, ladder, fresh, trouble>>

\* record_checkin.
RecordCheckin(d) == /\ Move(d, "record", "correlate")
                    /\ asked' = asked \cup {d}
                    /\ UNCHANGED <<run, correlated, chat, world, ladder, fresh, trouble>>

\* record_checkin_correlation: from here a reply can find the check-in.
RecordCorrelation(d) == /\ Move(d, "correlate", "run")
                        /\ correlated' = correlated \cup {d}
                        /\ UNCHANGED <<run, asked, chat, world, ladder, fresh, trouble>>

\* Faulty variant: the run is recorded without its correlation.
RecordRunUnnamed(d) == /\ pc[d] \in {"run", "rerun"}
                       /\ pc' = [pc EXCEPT ![d] = "complete"]
                       /\ run' = [cor |-> NoRun, status |-> "sent"]
                       /\ UNCHANGED <<asked, correlated, chat, world, ladder, fresh, trouble>>

\* record_checkin_schedule_run: an upsert, whoever's run was there before.
RecordRun(d) == /\ pc[d] \in {"run", "rerun"}
                /\ pc' = [pc EXCEPT ![d] = "complete"]
                /\ run' = [cor |-> d, status |-> "sent"]
                /\ UNCHANGED <<asked, correlated, chat, world, ladder, fresh, trouble>>

\* The workflow engine records the result of the step, once and for all.
Complete(d) == /\ Move(d, "complete", "result")
               /\ UNCHANGED <<rows, chat, world, ladder, fresh, trouble>>

\* The step raises or its process stops, and a later attempt begins it again...
Fault(d, to) == /\ pc[d] \in InStep
                /\ faults[d] < MaxFaults
                /\ pc' = [pc EXCEPT ![d] = to]
                /\ faults' = [faults EXCEPT ![d] = @ + 1]
                /\ lost' = IF pc[d] = "put" THEN [lost EXCEPT ![d] = @ + 1] ELSE lost
                /\ UNCHANGED <<rows, chat, world, ladder, fresh, overlapped>>

Retry(d) == Fault(d, "look")

\* ...or the engine's attempts are used up and the workflow fails.  (A crash
\* does not use one up, so a step may also meet more faults than that.)
GiveUp(d) == faults[d] + 1 >= Attempts /\ Fault(d, "failed")

\* Faulty variant: only the fan-out's check-ins are followed up.
LaunchFanout(d) == /\ Move(d, "result", "done")
                   /\ ladder' = IF d \in fresh \cap Fanouts THEN ladder \cup {d} ELSE ladder
                   /\ UNCHANGED <<rows, chat, world, fresh, trouble>>

\* The workflow body: only a check-in this step sent starts a nudge workflow.
\* (A step that sent is fresh; a skipped or already recorded one is not.)
Launch(d) == /\ Move(d, "result", "done")
             /\ ladder' = IF d \in fresh THEN ladder \cup {d} ELSE ladder
             /\ UNCHANGED <<rows, chat, world, fresh, trouble>>

-----------------------------------------------------------------------------
(* What goes on around it.                                                 *)

Open == correlated \ (replied \cup closed)

\* A reply is taken when exactly one open check-in of the day can be meant.
Reply(d) == /\ Open = {d} /\ d \in asked
            /\ replied' = replied \cup {d}
            /\ UNCHANGED <<rows, chat, closed, weekday, ladder, pc, fresh, trouble>>

\* A ladder that ends without a reply consumes its correlation.
CloseOut(d) == /\ d \in ladder /\ d \in Open
               /\ closed' = closed \cup {d}
               /\ UNCHANGED <<rows, chat, replied, weekday, ladder, pc, fresh, trouble>>

\* The developer's check-in days are edited.
EditWeekdays == /\ Edits
                /\ weekday' = ~weekday
                /\ UNCHANGED <<rows, chat, replied, closed, ladder, pc, fresh, trouble>>

Work(d) == \/ Begin(d) \/ AlreadyRun(d) \/ NoRunYet(d) \/ RecordSkip(d) \/ ReadOwn(d)
           \/ PostDm(d) \/ PutSendId(d) \/ RecordCheckin(d) \/ RecordCorrelation(d)
           \/ RecordRun(d) \/ Complete(d) \/ Launch(d)

Step(d) == Plan(d) \/ Work(d) \/ Retry(d) \/ GiveUp(d) \/ Reply(d) \/ CloseOut(d)

Next == (\E d \in Dispatches : Step(d)) \/ EditWeekdays

Spec == Init /\ [][Next]_vars

\* The workflow engine keeps running a started workflow to its end.
Fairness == \A d \in Dispatches : WF_vars(Work(d))

FairSpec == Spec /\ Fairness

-----------------------------------------------------------------------------
Ended(d) == pc[d] \in {"done", "failed"}

\* A run recorded as sent names a check-in that was posted and recorded,
\* through any crash and retry of the step, so "already recorded" never
\* stands for a developer who was not asked (the early return of the step).
SentRunHasItsCheckin ==
    run # NoRun /\ run.status = "sent" => run.cor \in asked /\ posted[run.cor] > 0

\* A nudge workflow only ever follows a check-in that reached the developer and
\* to which a reply can be matched (the condition on the step's result).
LadderHasItsCheckin ==
    \A d \in ladder : d \in asked /\ d \in correlated /\ posted[d] > 0

\* A correlation's message is sent again only when its step was cut short after
\* the post and before its id was recorded, and once each time (the send-once
\* key and the early return for a check-in already recorded).
ResendsArePaidFor == \A d \in Dispatches : posted[d] <= 1 + lost[d]

\* Dispatches whose steps never ran at the same time, none of them out of
\* attempts: what a quiet day looks like.
Orderly == ~overlapped /\ \A d \in Dispatches : pc[d] # "failed"

Asking == {d \in Dispatches : posted[d] > 0}

\* On an orderly day the developer is asked once, whatever crashes and whatever
\* the plans were based on: the recorded run, or the one check-in still in its
\* step, holds back every other dispatch.
OrderlyAsksOnce == Orderly => Cardinality(Asking) <= 1

\* On an orderly day a run recorded as sent is never overwritten, by a skipped
\* weekday or by another check-in (the upsert of checkin_schedule_runs).
OrderlyRunStays == [][Orderly /\ run # NoRun /\ run.status = "sent" => run' = run]_vars

\* A recorded check-in whose step met no fault is answered or gets its nudge
\* workflow, also when other dispatches overlap with it.
UnfaultedIsFollowedUp ==
    \A d \in Dispatches :
        d \in asked /\ faults[d] = 0 ~> d \in ladder \/ d \in replied \/ faults[d] > 0
=============================================================================
