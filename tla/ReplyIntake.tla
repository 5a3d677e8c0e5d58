---------------------------- MODULE ReplyIntake ----------------------------
(***************************************************************************)
(* The way of a chat message from the provider to the reply pipeline: the  *)
(* durable buffer, the coalesce workflow of each burst, and the sweeper    *)
(* behind both.  The reply pipeline itself is one step that succeeds or    *)
(* raises.                                                                 *)
(*                                                                         *)
(* An event stands for its row of inbound_chat_events and is a number: the *)
(* order of received_at.  Rows may arrive in another order.  A provider's  *)
(* redelivery of a buffered event changes nothing (ON CONFLICT DO NOTHING, *)
(* and the workflow is not armed), so it is a step that changes no variable*)
(* here.  A burst and its coalesce workflow are named by the burst's       *)
(* earliest unprocessed event; the ping only lengthens the quiet window,   *)
(* which may take any time here.                                           *)
(***************************************************************************)
EXTENDS Naturals, Sequences, FiniteSets, FiniteSetsExt

CONSTANTS Events,          \* numbered in the order of received_at
          Conversation,    \* the conversation number of each event
          Poison,          \* conversations whose replies always raise
          InnerPasses,     \* MAX_DRAIN_PASSES
          OuterPasses,     \* _MAX_COALESCE_PASSES
          Attempts,        \* attempts the workflow engine gives a step
          MaxRetries,      \* reply_processing_max_retries
          MaxFaults        \* bound: crashes and passing errors

ASSUME EventsAreNumbers == Events \subseteq Nat \ {0} /\ IsFiniteSet(Events)
ASSUME ConversationsAreNumbers == Conversation \in [Events -> Nat]
ASSUME PassesPositive == InnerPasses \in Nat \ {0} /\ OuterPasses \in Nat \ {0}
ASSUME RetriesPositive == Attempts \in Nat \ {0} /\ MaxRetries \in Nat \ {0}
ASSUME BoundsNat == MaxFaults \in Nat

\* A coalesce workflow is named by its burst's event; the sweeper is drainer 0.
Sweeper == 0
Drainers == Events \cup {Sweeper}

VARIABLES row,             \* each event's row: "none", "buffered" or "processed"
          age,             \* 0 fresh, 1 past the grace window, 2 past the dead-letter window
          intake,          \* each event's delivery: "new", "append", "armed" or "lost"
          stage,           \* where each drainer is
          batch,           \* the events a drainer has coalesced
          passes,          \* passes of a drainer's current drain call
          calls,           \* drain calls of a coalesce workflow
          tries,           \* attempts of a coalesce workflow's drain step
          todo,            \* conversations the sweeper still has to drain
          dead,            \* events recorded as dead letters
          arrived,         \* history: the order in which rows were appended
          handled,         \* history: events in a batch that the pipeline took
          faults,          \* crashes and passing errors so far
          sweeping         \* whether the sweeper is scheduled in this deployment

buffer == <<row, age, intake, arrived, sweeping>>
local == <<stage, batch, passes, calls, tries, todo>>
record == <<dead, handled>>
vars == <<row, age, intake, arrived, stage, batch, passes, calls, tries, todo,
          dead, handled, faults, sweeping>>

\* A workflow debounces, then lists, processes and marks, pass by pass.
Stages == {"none", "debounce", "list", "process", "mark", "ended", "failed"}

TypeOK == /\ row \in [Events -> {"none", "buffered", "processed"}]
          /\ age \in [Events -> 0..2]
          /\ intake \in [Events -> {"new", "append", "armed", "lost"}]
          /\ stage \in [Drainers -> Stages]
          /\ batch \in [Drainers -> SUBSET Events]
          /\ passes \in [Drainers -> 0..InnerPasses]
          /\ calls \in [Events -> 0..OuterPasses]
          /\ tries \in [Events -> 0..Attempts]
          /\ todo \subseteq {Conversation[e] : e \in Events}
          /\ dead \subseteq Events
          /\ arrived \in Seq(Events)
          /\ handled \subseteq Events
          /\ faults \in 0..MaxFaults
          /\ sweeping \in BOOLEAN

Init == /\ row = [e \in Events |-> "none"]
        /\ age = [e \in Events |-> 0]
        /\ intake = [e \in Events |-> "new"]
        /\ stage = [a \in Drainers |-> "none"]
        /\ batch = [a \in Drainers |-> {}]
        /\ passes = [a \in Drainers |-> 0]
        /\ calls = [e \in Events |-> 0]
        /\ tries = [e \in Events |-> 0]
        /\ todo = {} /\ dead = {} /\ arrived = <<>> /\ handled = {}
        /\ faults = 0
        /\ sweeping \in BOOLEAN

Unprocessed(c) == {e \in Events : row[e] = "buffered" /\ Conversation[e] = c}

\* The conversation a drainer works on: the sweeper takes them in order.
Target(a) == IF a = Sweeper THEN Min(todo) ELSE Conversation[a]

Fault == faults < MaxFaults /\ faults' = faults + 1

-----------------------------------------------------------------------------
(* Intake.                                                                 *)

\* enqueue_inbound_chat_event appends the row...
Buffer(e) == /\ intake[e] = "new"
              /\ intake' = [intake EXCEPT ![e] = "append"]
              /\ row' = [row EXCEPT ![e] = "buffered"]
              /\ arrived' = Append(arrived, e)
              /\ UNCHANGED <<age, sweeping, local, record, faults>>

\* ...and arms the burst of the earliest unprocessed event: the workflow with
\* that name is started unless it ever was (the engine dedupes an id forever).
Arm(e) ==
    LET pending == Unprocessed(Conversation[e])
        burst == Min(pending)
    IN  /\ intake[e] = "append"
        /\ intake' = [intake EXCEPT ![e] = "armed"]
        /\ stage' = IF pending # {} /\ stage[burst] = "none"
                    THEN [stage EXCEPT ![burst] = "debounce"] ELSE stage
        /\ UNCHANGED <<row, age, arrived, sweeping, batch, passes, calls, tries, todo, record, faults>>

\* The process stops between the two; a redelivery is then a duplicate.
LoseArm(e) == /\ intake[e] = "append"
              /\ intake' = [intake EXCEPT ![e] = "lost"]
              /\ Fault
              /\ UNCHANGED <<row, age, arrived, sweeping, local, record>>

\* Time passes for a buffered event; only the sweeper looks at it.
Age(e) == /\ sweeping /\ row[e] = "buffered" /\ age[e] < 2
          /\ age' = [age EXCEPT ![e] = @ + 1]
          /\ UNCHANGED <<row, intake, arrived, sweeping, local, record, faults>>

-----------------------------------------------------------------------------
(* drain_conversation, by a coalesce workflow or by the sweeper.           *)

\* The quiet window of a burst ends.
Quiet(e) == /\ stage[e] = "debounce"
            /\ stage' = [stage EXCEPT ![e] = "list"]
            /\ UNCHANGED <<buffer, batch, passes, calls, tries, todo, record, faults>>

\* Faulty variant: the passes of a call are not bounded.
ListUnbounded(a) == /\ stage[a] = "list"
                    /\ Unprocessed(Target(a)) # {}
                    /\ batch' = [batch EXCEPT ![a] = Unprocessed(Target(a))]
                    /\ stage' = [stage EXCEPT ![a] = "process"]
                    /\ UNCHANGED <<buffer, passes, calls, tries, todo, record, faults>>

\* Faulty variant: a pass takes the newest message only.
ListNewest(a) == /\ stage[a] = "list"
                 /\ passes[a] < InnerPasses
                 /\ Unprocessed(Target(a)) # {}
                 /\ batch' = [batch EXCEPT ![a] = {Max(Unprocessed(Target(a)))}]
                 /\ stage' = [stage EXCEPT ![a] = "process"]
                 /\ UNCHANGED <<buffer, passes, calls, tries, todo, record, faults>>

\* One pass takes every unprocessed event of the conversation.
List(a) == /\ stage[a] = "list"
           /\ passes[a] < InnerPasses
           /\ Unprocessed(Target(a)) # {}
           /\ batch' = [batch EXCEPT ![a] = Unprocessed(Target(a))]
           /\ stage' = [stage EXCEPT ![a] = "process"]
           /\ UNCHANGED <<buffer, passes, calls, tries, todo, record, faults>>

\* Nothing is left, or the passes are used up: the drain call returns.
Drained(a) == /\ stage[a] = "list"
              /\ passes[a] = InnerPasses \/ Unprocessed(Target(a)) = {}

\* A coalesce workflow drains again after a call that processed something.
Again(e) == /\ Drained(e)
            /\ passes[e] > 0 /\ calls[e] + 1 < OuterPasses
            /\ passes' = [passes EXCEPT ![e] = 0]
            /\ calls' = [calls EXCEPT ![e] = @ + 1]
            /\ tries' = [tries EXCEPT ![e] = 0]
            /\ UNCHANGED <<buffer, stage, batch, todo, record, faults>>

Return(e) == /\ Drained(e)
             /\ passes[e] = 0 \/ calls[e] + 1 = OuterPasses
             /\ stage' = [stage EXCEPT ![e] = "ended"]
             /\ UNCHANGED <<buffer, batch, passes, calls, tries, todo, record, faults>>

\* The pipeline takes the coalesced reply.
Process(a) == /\ stage[a] = "process"
              /\ Target(a) \notin Poison
              /\ handled' = handled \cup batch[a]
              /\ stage' = [stage EXCEPT ![a] = "mark"]
              /\ UNCHANGED <<buffer, batch, passes, calls, tries, todo, dead, faults>>

\* mark_processed: rows another drainer marked first stay as they are.
Mark(a) == /\ stage[a] = "mark"
           /\ row' = [e \in Events |-> IF e \in batch[a] THEN "processed" ELSE row[e]]
           /\ batch' = [batch EXCEPT ![a] = {}]
           /\ passes' = [passes EXCEPT ![a] = @ + 1]
           /\ stage' = [stage EXCEPT ![a] = "list"]
           /\ UNCHANGED <<age, intake, arrived, sweeping, calls, tries, todo, record, faults>>

\* The pipeline raises: always for a poisoned conversation, else by a fault.
\* The events stay buffered.
Raise(a) == /\ stage[a] = "process"
            /\ IF Target(a) \in Poison THEN UNCHANGED faults ELSE Fault
            /\ batch' = [batch EXCEPT ![a] = {}]
            /\ passes' = [passes EXCEPT ![a] = 0]
            /\ UNCHANGED <<dead, handled>>

\* The engine retries a workflow's drain step, and then fails the workflow.
RaiseWorkflow(e) ==
    /\ Raise(e)
    /\ tries' = [tries EXCEPT ![e] = @ + 1]
    /\ stage' = [stage EXCEPT ![e] = IF tries[e] + 1 < Attempts THEN "list" ELSE "failed"]
    /\ UNCHANGED <<buffer, calls, todo>>

\* A crash: the engine runs the interrupted drain step again, from its start.
CrashWorkflow(e) == /\ stage[e] \in {"list", "process", "mark"}
                    /\ Fault
                    /\ stage' = [stage EXCEPT ![e] = "list"]
                    /\ batch' = [batch EXCEPT ![e] = {}]
                    /\ passes' = [passes EXCEPT ![e] = 0]
                    /\ UNCHANGED <<buffer, calls, tries, todo, record>>

-----------------------------------------------------------------------------
(* sweep_inbound_events.                                                   *)

Stuck == {e \in Events : row[e] = "buffered" /\ age[e] >= 1}

\* The row's attempts column: only mark_processed increments it.
RowAttempts(e) == IF row[e] = "processed" THEN 1 ELSE 0

Exhausted == {e \in Stuck : age[e] = 2 \/ RowAttempts(e) >= MaxRetries}

\* Faulty variant: a swept conversation's workflow is armed again, not drained.
SweepRearms == /\ sweeping
               /\ stage[Sweeper] = "none" /\ Stuck # {}
               /\ dead' = dead \cup Exhausted
               /\ stage' = [e \in Drainers |->
                     IF e \in {Min(Unprocessed(Conversation[f])) : f \in Stuck} /\ stage[e] = "none"
                     THEN "debounce" ELSE stage[e]]
               /\ UNCHANGED <<buffer, batch, passes, calls, tries, todo, handled, faults>>

\* A tick lists the stuck events and records the dead letters among them.
SweepList == /\ sweeping
             /\ stage[Sweeper] = "none" /\ Stuck # {}
             /\ todo' = {Conversation[e] : e \in Stuck}
             /\ dead' = dead \cup Exhausted
             /\ stage' = [stage EXCEPT ![Sweeper] = "list"]
             /\ UNCHANGED <<buffer, batch, passes, calls, tries, handled, faults>>

\* Its drain of one conversation returned: the next one, or the tick is over.
SweepNext == /\ Drained(Sweeper)
             /\ todo' = todo \ {Target(Sweeper)}
             /\ passes' = [passes EXCEPT ![Sweeper] = 0]
             /\ stage' = [stage EXCEPT ![Sweeper] = IF todo' = {} THEN "none" ELSE "list"]
             /\ UNCHANGED <<buffer, batch, calls, tries, record, faults>>

\* An error in one conversation ends the step; a retry or the next tick begins
\* it again.
RaiseSweep == /\ Raise(Sweeper)
              /\ todo' = {}
              /\ stage' = [stage EXCEPT ![Sweeper] = "none"]
              /\ UNCHANGED <<buffer, calls, tries>>

CrashSweep == /\ stage[Sweeper] \in {"list", "process", "mark"}
              /\ Fault
              /\ todo' = {}
              /\ stage' = [stage EXCEPT ![Sweeper] = "none"]
              /\ batch' = [batch EXCEPT ![Sweeper] = {}]
              /\ passes' = [passes EXCEPT ![Sweeper] = 0]
              /\ UNCHANGED <<buffer, calls, tries, record>>

-----------------------------------------------------------------------------
Flow(e) == \/ Quiet(e) \/ List(e) \/ Again(e) \/ Return(e) \/ Process(e) \/ Mark(e)
           \/ RaiseWorkflow(e)

Sweep == \/ SweepList \/ List(Sweeper) \/ SweepNext \/ Process(Sweeper)
         \/ Mark(Sweeper) \/ RaiseSweep

Next == \/ \E e \in Events : Buffer(e) \/ Arm(e) \/ LoseArm(e) \/ Age(e)
        \/ \E e \in Events : Flow(e) \/ CrashWorkflow(e)
        \/ Sweep \/ CrashSweep

Spec == Init /\ [][Next]_vars

\* The intake, the engine and the clock keep running, and the schedule ticks.
Fairness == /\ \A e \in Events : WF_vars(Arm(e)) /\ WF_vars(Age(e)) /\ WF_vars(Flow(e))
            /\ WF_vars(Sweep)

FairSpec == Spec /\ Fairness

-----------------------------------------------------------------------------
\* A row is marked processed only after the reply pipeline took its event,
\* whichever drainer marks it (the order of drain_conversation: "a raised
\* exception above leaves the events buffered").
ProcessedWasHandled == \A e \in Events : row[e] = "processed" => e \in handled

\* Messages of a conversation reach the pipeline in the order they were
\* buffered, or together, though several drainers run at once
\* (coalesce_inbound_events over one listing).
NoOvertaking ==
    \A i, j \in DOMAIN arrived :
        i < j /\ Conversation[arrived[i]] = Conversation[arrived[j]] /\ arrived[j] \in handled
            => arrived[i] \in handled

\* No buffered message is left behind: its coalesce workflows alone see to it
\* while nothing fails, and with the sweeper whatever crashed between its append
\* and its drain (the coalesce workflow and its sweeper).
BufferedIsProcessed ==
    \A e \in Events :
        row[e] = "buffered" /\ Conversation[e] \notin Poison
            ~> row[e] = "processed" \/ (~sweeping /\ faults > 0)
=============================================================================
