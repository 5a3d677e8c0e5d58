------------------------- MODULE ReplyIntakeProofs -------------------------
(***************************************************************************)
(* What the buffer and its drainers guarantee for any set of messages, any *)
(* number of conversations, passes, crashes and pipeline errors: nothing   *)
(* is marked that the pipeline did not take, and no message overtakes an   *)
(* earlier one of its conversation, although drainers are not exclusive;   *)
(* and passes, calls and attempts stay within their bounds.                *)
(***************************************************************************)
EXTENDS ReplyIntake, TLAPS

\* Of the types only those that the proof needs.
Shape == /\ row \in [Events -> {"none", "buffered", "processed"}]
         /\ intake \in [Events -> {"new", "append", "armed", "lost"}]
         /\ stage \in [Drainers -> Stages]
         /\ batch \in [Drainers -> SUBSET Events]
         /\ arrived \in Seq(Events)
         /\ handled \subseteq Events

\* A row exists from its append on, and only existing rows are coalesced.
RowsExist == /\ \A e \in Events : intake[e] = "new" <=> row[e] = "none"
             /\ \A a \in Drainers : \A e \in batch[a] : row[e] # "none"
             /\ \A e \in handled : row[e] # "none"
             /\ \A i \in DOMAIN arrived : row[arrived[i]] # "none"

\* What is marked, or about to be, was handled.
MarkedWasHandled == /\ ProcessedWasHandled
                    /\ \A a \in Drainers : stage[a] = "mark" => batch[a] \subseteq handled

\* A batch holds every message before its own that no pipeline has taken.
BatchesAreComplete ==
    \A a \in Drainers : \A i, j \in DOMAIN arrived :
        i < j /\ Conversation[arrived[i]] = Conversation[arrived[j]] /\ arrived[j] \in batch[a]
            => arrived[i] \in handled \cup batch[a]

Inductive == Shape /\ RowsExist /\ MarkedWasHandled

\* The variables the invariants read besides those of one drainer's batch.
LEMMA ShapeKept ==
  ASSUME Inductive, [Next]_vars
  PROVE  Shape' /\ (\A i \in DOMAIN arrived : i \in DOMAIN arrived' /\ arrived'[i] = arrived[i])
<1> USE DEF Inductive, Shape, Stages, buffer, local, record
<1>1. ASSUME NEW e \in Events, Buffer(e) PROVE Shape' /\ \A i \in DOMAIN arrived :
                                    i \in DOMAIN arrived' /\ arrived'[i] = arrived[i]
  BY <1>1 DEF Buffer
<1>2. ASSUME NEW e \in Events, Arm(e) \/ LoseArm(e) \/ Age(e)
      PROVE  Shape' /\ arrived' = arrived
  <2>1. CASE Arm(e)
    <3>1. /\ intake' = [intake EXCEPT ![e] = "armed"]
          /\ UNCHANGED <<row, arrived, batch, handled>>
      BY <2>1 DEF Arm
    <3>2. PICK b : stage' = [stage EXCEPT ![b] = "debounce"] \/ stage' = stage
      BY <2>1 DEF Arm
    <3> QED
      BY <3>1, <3>2
  <2>2. CASE LoseArm(e) \/ Age(e)
    BY <2>2 DEF LoseArm, Age
  <2> QED
    BY <1>2, <2>1, <2>2
<1>3. ASSUME NEW a \in Drainers, List(a) \/ Process(a) \/ Mark(a)
      PROVE  Shape' /\ arrived' = arrived
  BY <1>3 DEF List, Process, Mark, Unprocessed
<1>4. ASSUME NEW e \in Events, Quiet(e) \/ Again(e) \/ Return(e) \/ RaiseWorkflow(e)
                                \/ CrashWorkflow(e)
      PROVE  Shape' /\ arrived' = arrived
  BY <1>4 DEF Quiet, Again, Return, RaiseWorkflow, CrashWorkflow, Raise, Drainers
<1>5. CASE SweepList \/ SweepNext \/ RaiseSweep \/ CrashSweep
  BY <1>5 DEF SweepList, SweepNext, RaiseSweep, CrashSweep, Raise, Drainers
<1>6. CASE UNCHANGED vars
  BY <1>6 DEF vars
<1> QED
  BY <1>1, <1>2, <1>3, <1>4, <1>5, <1>6 DEF Next, Flow, Sweep, Drainers

\* Every drainer marks only what the pipeline took, from any interleaving of
\* intakes, workflows and sweeps (drain_conversation, mark_processed).
LEMMA InductiveCorrect == Spec => []Inductive
<1>1. Init => Inductive
  BY DEF Init, Inductive, Shape, RowsExist, MarkedWasHandled, ProcessedWasHandled, Stages
<1>2. Inductive /\ [Next]_vars => Inductive'
  <2> SUFFICES ASSUME Inductive, [Next]_vars PROVE RowsExist' /\ MarkedWasHandled'
    BY ShapeKept DEF Inductive
  <2> USE DEF Inductive, Shape, RowsExist, MarkedWasHandled, ProcessedWasHandled, buffer,
              local, record
  <2>1. ASSUME NEW e \in Events, Buffer(e) PROVE RowsExist' /\ MarkedWasHandled'
    BY <2>1 DEF Buffer
  <2>2. ASSUME NEW e \in Events, Arm(e) PROVE RowsExist' /\ MarkedWasHandled'
    <3>1. /\ intake[e] = "append" /\ intake' = [intake EXCEPT ![e] = "armed"]
          /\ UNCHANGED <<row, arrived, batch, handled>>
      BY <2>2 DEF Arm
    <3>2. \A a \in Drainers : stage'[a] = "mark" => stage[a] = "mark"
      BY <2>2 DEF Arm
    <3> QED
      BY <3>1, <3>2
  <2>3. ASSUME NEW e \in Events, LoseArm(e) \/ Age(e) PROVE RowsExist' /\ MarkedWasHandled'
    BY <2>3 DEF LoseArm, Age
  <2>4. ASSUME NEW a \in Drainers, List(a) \/ Process(a)
        PROVE  RowsExist' /\ MarkedWasHandled'
    BY <2>4 DEF List, Process, Unprocessed
  <2>5. ASSUME NEW a \in Drainers, Mark(a) PROVE RowsExist' /\ MarkedWasHandled'
    BY <2>5 DEF Mark
  <2>6. ASSUME NEW e \in Events, Quiet(e) \/ Again(e) \/ Return(e)
        PROVE  RowsExist' /\ MarkedWasHandled'
    BY <2>6 DEF Quiet, Again, Return
  <2>7. ASSUME NEW e \in Events, RaiseWorkflow(e) \/ CrashWorkflow(e)
        PROVE  RowsExist' /\ MarkedWasHandled'
    BY <2>7 DEF RaiseWorkflow, CrashWorkflow, Raise, Drainers
  <2>8. CASE SweepList \/ SweepNext \/ RaiseSweep \/ CrashSweep
    BY <2>8 DEF SweepList, SweepNext, RaiseSweep, CrashSweep, Raise, Drainers
  <2>9. CASE UNCHANGED vars
    BY <2>9 DEF vars
  <2> QED
    BY <2>1, <2>2, <2>3, <2>4, <2>5, <2>6, <2>7, <2>8, <2>9 DEF Next, Flow, Sweep, Drainers
<1> QED
  BY <1>1, <1>2, PTL DEF Spec

\* A row marked processed was taken by the reply pipeline: no crash, error or
\* concurrent drainer loses a buffered message.
THEOREM NothingIsLost == Spec => []ProcessedWasHandled
<1>1. Inductive => ProcessedWasHandled
  BY DEF Inductive, MarkedWasHandled
<1> QED
  BY <1>1, InductiveCorrect, PTL

\* Every listing is complete, so no message is handled before an earlier one
\* of its conversation.
THEOREM MessagesKeepTheirOrder == Spec => []NoOvertaking
<1> DEFINE Ordered == NoOvertaking /\ BatchesAreComplete
<1>1. Init => Ordered
  BY DEF Init, NoOvertaking, BatchesAreComplete
<1>2. Inductive /\ Ordered /\ [Next]_vars => Ordered'
  <2> SUFFICES ASSUME Inductive, NoOvertaking, BatchesAreComplete, [Next]_vars
               PROVE  NoOvertaking' /\ BatchesAreComplete'
    OBVIOUS
  <2> USE DEF Inductive, Shape, RowsExist, MarkedWasHandled, ProcessedWasHandled,
              NoOvertaking, BatchesAreComplete, buffer, local, record
  <2>1. ASSUME NEW e \in Events, Buffer(e) PROVE NoOvertaking' /\ BatchesAreComplete'
    <3>1. e \notin handled /\ \A a \in Drainers : e \notin batch[a]
      BY <2>1 DEF Buffer
    <3>2. arrived' = Append(arrived, e) /\ UNCHANGED <<batch, handled>>
      BY <2>1 DEF Buffer
    <3>3. \A j \in DOMAIN arrived' : arrived'[j] # e => j \in DOMAIN arrived
      BY <3>2
    <3>4. \A i, j \in DOMAIN arrived' : i < j /\ j \in DOMAIN arrived => i \in DOMAIN arrived
      BY <3>2
    <3>5. \A i \in DOMAIN arrived : arrived'[i] = arrived[i]
      BY <3>2
    <3> QED
      BY <3>1, <3>2, <3>3, <3>4, <3>5
  <2>2. ASSUME NEW a \in Drainers, List(a) PROVE NoOvertaking' /\ BatchesAreComplete'
    <3>1. /\ batch' = [batch EXCEPT ![a] = Unprocessed(Target(a))]
          /\ UNCHANGED <<row, arrived, handled>>
      BY <2>2 DEF List
    <3>2. ASSUME NEW i \in DOMAIN arrived, NEW j \in DOMAIN arrived,
                 Conversation[arrived[i]] = Conversation[arrived[j]],
                 arrived[j] \in Unprocessed(Target(a))
          PROVE  arrived[i] \in handled \cup Unprocessed(Target(a))
      BY <3>2 DEF Unprocessed
    <3> QED
      BY <3>1, <3>2
  <2>3. ASSUME NEW a \in Drainers, Process(a) PROVE NoOvertaking' /\ BatchesAreComplete'
    BY <2>3 DEF Process
  <2>4. ASSUME NEW a \in Drainers, Mark(a) PROVE NoOvertaking' /\ BatchesAreComplete'
    BY <2>4 DEF Mark
  <2>5. ASSUME NEW e \in Events, Arm(e) \/ LoseArm(e) \/ Age(e)
        PROVE  NoOvertaking' /\ BatchesAreComplete'
    BY <2>5 DEF Arm, LoseArm, Age
  <2>6. ASSUME NEW e \in Events, Quiet(e) \/ Again(e) \/ Return(e)
        PROVE  NoOvertaking' /\ BatchesAreComplete'
    BY <2>6 DEF Quiet, Again, Return
  <2>7. ASSUME NEW e \in Events, RaiseWorkflow(e) \/ CrashWorkflow(e)
        PROVE  NoOvertaking' /\ BatchesAreComplete'
    BY <2>7 DEF RaiseWorkflow, CrashWorkflow, Raise, Drainers
  <2>8. CASE SweepList \/ SweepNext \/ RaiseSweep \/ CrashSweep
    BY <2>8 DEF SweepList, SweepNext, RaiseSweep, CrashSweep, Raise, Drainers
  <2>9. CASE UNCHANGED vars
    BY <2>9 DEF vars
  <2> QED
    BY <2>1, <2>2, <2>3, <2>4, <2>5, <2>6, <2>7, <2>8, <2>9 DEF Next, Flow, Sweep, Drainers
<1> QED
  BY <1>1, <1>2, InductiveCorrect, PTL DEF Spec

-----------------------------------------------------------------------------
\* A pass under way is one of those a drain call may make, and an attempt under way
\* one of those the engine gives: what keeps the counters within their types.
Counters == /\ \A a \in Drainers : stage[a] \in {"process", "mark"} => passes[a] < InnerPasses
            /\ \A e \in Events : stage[e] # "failed" => tries[e] < Attempts

Bounded == /\ age \in [Events -> 0..2]
           /\ passes \in [Drainers -> 0..InnerPasses]
           /\ calls \in [Events -> 0..OuterPasses]
           /\ tries \in [Events -> 0..Attempts]
           /\ todo \subseteq {Conversation[e] : e \in Events}
           /\ dead \subseteq Events
           /\ faults \in 0..MaxFaults
           /\ sweeping \in BOOLEAN
           /\ Counters

\* The rows, bursts and drainers keep their types: no drain call makes more passes
\* than MAX_DRAIN_PASSES, and no workflow more calls or attempts than it is given.
THEOREM IntakeTypeCorrect == Spec => []TypeOK
<1>0. \A n \in 0..MaxFaults : n < MaxFaults => n + 1 \in 0..MaxFaults
  BY BoundsNat
<1>a. /\ \A n \in 0..InnerPasses : n < InnerPasses => n + 1 \in 0..InnerPasses
      /\ \A n \in 0..OuterPasses : n + 1 < OuterPasses => n + 1 \in 0..OuterPasses
      /\ \A n \in 0..Attempts : n < Attempts => n + 1 \in 0..Attempts
      /\ 0 \in 0..InnerPasses /\ 0 \in 0..OuterPasses /\ 0 \in 0..Attempts /\ 0 \in 0..MaxFaults
      /\ 0 < InnerPasses /\ 0 < Attempts
  BY PassesPositive, RetriesPositive, BoundsNat
<1>b. \A e \in Events : e \in Drainers /\ e # Sweeper
  BY EventsAreNumbers DEF Drainers, Sweeper
<1>1. Init => Bounded
  BY <1>a DEF Init, Bounded, Counters
<1>2. Inductive /\ Bounded /\ [Next]_vars => Bounded'
  <2> SUFFICES ASSUME Inductive, Bounded, [Next]_vars PROVE Bounded'
    OBVIOUS
  <2> USE DEF Bounded, Inductive, Shape, buffer, local, record
  <2>1. ASSUME NEW e \in Events, Buffer(e) \/ LoseArm(e) \/ Age(e) PROVE Bounded'
    <3>1. CASE Buffer(e)
      BY <3>1 DEF Buffer, Counters
    <3>2. CASE LoseArm(e)
      BY <3>2, <1>0 DEF LoseArm, Fault, Counters
    <3>3. CASE Age(e)
      <4>1. /\ age[e] < 2 /\ age' = [age EXCEPT ![e] = @ + 1]
            /\ UNCHANGED <<sweeping, local, dead, faults>>
        BY <3>3 DEF Age
      <4>2. age[e] \in 0..2 /\ age[e] + 1 \in 0..2
        BY <4>1
      <4> QED
        BY <4>1, <4>2 DEF Counters
    <3> QED
      BY <2>1, <3>1, <3>2, <3>3
  <2>2. ASSUME NEW e \in Events, Arm(e) PROVE Bounded'
    <3>1. UNCHANGED <<age, sweeping, passes, calls, tries, todo, dead, faults>>
      BY <2>2 DEF Arm
    <3>2. PICK b : \/ stage' = stage
                   \/ stage[b] = "none" /\ stage' = [stage EXCEPT ![b] = "debounce"]
      BY <2>2 DEF Arm
    <3> QED
      BY <3>1, <3>2, <1>b DEF Counters
  <2>3. ASSUME NEW a \in Drainers, List(a) \/ Process(a) PROVE Bounded'
    BY <2>3, <1>b DEF List, Process, Counters
  <2>4. ASSUME NEW a \in Drainers, Mark(a) PROVE Bounded'
    <3>1. /\ stage' = [stage EXCEPT ![a] = "list"] /\ stage[a] = "mark"
          /\ passes' = [passes EXCEPT ![a] = @ + 1]
          /\ UNCHANGED <<age, sweeping, calls, tries, todo, dead, faults>>
      BY <2>4 DEF Mark
    <3>2. passes[a] + 1 \in 0..InnerPasses
      BY <3>1, <1>a DEF Counters
    <3>3. Counters'
      BY <3>1, <1>b DEF Counters
    <3> QED
      BY <3>1, <3>2, <3>3
  <2>5. ASSUME NEW e \in Events, Quiet(e) \/ Return(e) PROVE Bounded'
    BY <2>5, <1>b DEF Quiet, Return, Drained, Counters
  <2>6. ASSUME NEW e \in Events, Again(e) PROVE Bounded'
    BY <2>6, <1>a, <1>b DEF Again, Drained, Counters
  <2>7. ASSUME NEW e \in Events, RaiseWorkflow(e) PROVE Bounded'
    <3>1. /\ stage[e] = "process" /\ faults' \in {faults, faults + 1}
          /\ faults' = faults \/ faults < MaxFaults
          /\ passes' = [passes EXCEPT ![e] = 0] /\ tries' = [tries EXCEPT ![e] = @ + 1]
          /\ stage' = [stage EXCEPT ![e] = IF tries[e] + 1 < Attempts THEN "list" ELSE "failed"]
          /\ UNCHANGED <<age, sweeping, calls, todo, dead>>
      BY <2>7 DEF RaiseWorkflow, Raise, Fault
    <3>2. tries[e] + 1 \in 0..Attempts /\ faults' \in 0..MaxFaults
      BY <3>1, <1>0, <1>a DEF Counters
    <3>3. Counters'
      BY <3>1, <1>b DEF Counters
    <3> QED
      BY <3>1, <3>2, <3>3, <1>a, <1>b
  <2>8. ASSUME NEW e \in Events, CrashWorkflow(e) PROVE Bounded'
    BY <2>8, <1>0, <1>a, <1>b DEF CrashWorkflow, Fault, Counters
  <2>9. CASE SweepList
    BY <2>9, <1>b DEF SweepList, Stuck, Exhausted, Counters, Drainers
  <2>10. CASE SweepNext
    BY <2>10, <1>a, <1>b DEF SweepNext, Drained, Counters, Drainers
  <2>11. CASE RaiseSweep \/ CrashSweep
    BY <2>11, <1>0, <1>a, <1>b DEF RaiseSweep, CrashSweep, Raise, Fault, Counters, Drainers
  <2>12. CASE UNCHANGED vars
    BY <2>12 DEF vars, Counters
  <2> QED
    BY <2>1, <2>2, <2>3, <2>4, <2>5, <2>6, <2>7, <2>8, <2>9, <2>10, <2>11, <2>12
       DEF Next, Flow, Sweep, Drainers
<1>3. Inductive /\ Bounded => TypeOK
  BY DEF Inductive, Shape, Bounded, TypeOK
<1> QED
  BY <1>1, <1>2, <1>3, InductiveCorrect, PTL DEF Spec
=============================================================================
