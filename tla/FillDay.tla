------------------------------ MODULE FillDay ------------------------------
(***************************************************************************)
(* Filling one day from the tracker for the people its check-in never      *)
(* reached: the pass of FillDayPass, every 15 minutes, against everything  *)
(* else that gives a person a day or starts to ask for one.  All of them   *)
(* upsert the one row of developer_statuses, the last writer winning.      *)
(*                                                                         *)
(* The steps of the check-in are reduced to the rows the pass reads        *)
(* (modules CheckinStart and CheckinLifecycle).  Whether a filled day is   *)
(* inferred, stale or unknown is left out, as are weekdays and deletion.   *)
(* The names of the specification's own parts say "fill", since the module *)
(* of its theorems also extends another specification.                     *)
(***************************************************************************)
EXTENDS Naturals, FiniteSets

CONSTANTS Last,          \* people are 1..Last, in the order they are listed
          Passes,        \* runs of the pass at once
          OnLeave,       \* people away by their calendar
          Askable,       \* people a check-in may be sent to
          MaxActs,       \* bound: acts in the console
          MaxFaults      \* bound: steps that raise and crashes

People == 1..Last

ASSUME LastPositive == Last \in Nat \ {0}
ASSUME OnLeaveArePeople == OnLeave \subseteq People /\ Askable \subseteq People
ASSUME BoundsType == MaxActs \in Nat /\ MaxFaults \in Nat

VARIABLES on,            \* the tenant's switch
          due,           \* people past their fill time
          day,           \* who gave each person's day
          ask,           \* how far the check-in's ask has come
          run,           \* people with a checkin_schedule_runs row of the day
          place,         \* where each pass is
          todo,          \* people it has yet to see
          who,           \* the person in hand
          desk,          \* what each person is doing in the console
          acts,          \* acts in the console so far
          faults,        \* faults so far
          lost,          \* history: people whose own answer was filled over
          misled,        \* history: people told "not reached" whom the ask had reached
          raced,         \* history: people who answered under a pass that held them
          missed         \* history: people whose ask was in flight under such a pass

world == <<on, due, ask, run, desk, acts, faults>>
past == <<lost, misled, raced, missed>>
fillVars == <<on, due, day, ask, run, place, todo, who, desk, acts, faults, lost,
              misled, raced, missed>>

\* "silent" is what the ladder of an unanswered check-in leaves.
Days == {"none", "filled", "silent", "reply", "partial", "confirmed"}
Answers == {"reply", "partial", "confirmed"}

\* "posted" is a message that went out and whose run is not recorded yet.
Asks == {"no", "posting", "posted", "waiting", "answered", "closed"}
Reached == {"posted", "waiting", "answered", "closed"}

PassPlaces == {"idle", "pick", "status", "run", "write"}

FillTypeOK == /\ on \in BOOLEAN
              /\ due \subseteq People /\ run \subseteq People
              /\ day \in [People -> Days]
              /\ ask \in [People -> Asks]
              /\ place \in [Passes -> PassPlaces]
              /\ todo \in [Passes -> SUBSET People]
              /\ who \in [Passes -> People]
              /\ desk \in [People -> {"idle", "confirm", "task"}]
              /\ acts \in Nat /\ faults \in Nat
              /\ lost \subseteq People /\ misled \subseteq People
              /\ raced \subseteq People /\ missed \subseteq People

FillInit == /\ on = TRUE
            /\ due = {} /\ run = {}
            /\ day = [p \in People |-> "none"]
            /\ ask = [p \in People |-> "no"]
            /\ place = [w \in Passes |-> "idle"]
            /\ todo = [w \in Passes |-> {}]
            /\ who = [w \in Passes |-> 1]
            /\ desk = [p \in People |-> "idle"]
            /\ acts = 0 /\ faults = 0
            /\ lost = {} /\ misled = {} /\ raced = {} /\ missed = {}

-----------------------------------------------------------------------------
\* The pass.

Holds(w, p) == place[w] \in {"run", "write"} /\ who[w] = p
Held(p) == \E w \in Passes : Holds(w, p)

Go(w, from, to) == place[w] = from /\ place' = [place EXCEPT ![w] = to]

\* The switch is read, then everyone with no reply for the day is listed.
Begin(w) == /\ on
            /\ Go(w, "idle", "pick")
            /\ todo' = [todo EXCEPT ![w] = {p \in People : ask[p] # "answered"}]
            /\ UNCHANGED <<world, day, who, past>>

\* Faulty variant: someone who is not due, or is away, ends the pass.
PickOrQuit(w) == /\ todo[w] # {}
                 /\ LET p == CHOOSE q \in todo[w] : \A r \in todo[w] : q <= r
                    IN  /\ who' = [who EXCEPT ![w] = p]
                        /\ todo' = [todo EXCEPT ![w] = @ \ {p}]
                        /\ Go(w, "pick", IF p \in due THEN "status" ELSE "idle")
                 /\ UNCHANGED <<world, day, past>>

\* The next of the list, passed over before their fill time.
Pick(w) == /\ todo[w] # {}
           /\ LET p == CHOOSE q \in todo[w] : \A r \in todo[w] : q <= r
              IN  /\ who' = [who EXCEPT ![w] = p]
                  /\ todo' = [todo EXCEPT ![w] = @ \ {p}]
                  /\ Go(w, "pick", IF p \in due THEN "status" ELSE "pick")
           /\ UNCHANGED <<world, day, past>>

PassEnds(w) == /\ todo[w] = {}
               /\ Go(w, "pick", "idle")
               /\ UNCHANGED <<world, day, todo, who, past>>

\* Faulty variant: what the day already holds is not looked at.
LookPast(w) == /\ Go(w, "status", "run")
               /\ UNCHANGED <<world, day, todo, who, past>>

\* latest_developer_status: a status of the day itself ends it.
LookStatus(w) == /\ Go(w, "status", IF day[who[w]] = "none" THEN "run" ELSE "pick")
                 /\ UNCHANGED <<world, day, todo, who, past>>

\* Faulty variant: a run of the day is not looked for.
LookCalendar(w) == /\ Go(w, "run", IF who[w] \notin OnLeave THEN "write" ELSE "pick")
                   /\ UNCHANGED <<world, day, todo, who, past>>

\* checkin_schedule_run, then the calendar; a calendar that fails says nothing.
LookRun(w) == /\ Go(w, "run", IF who[w] \notin run \cup OnLeave THEN "write" ELSE "pick")
              /\ missed' = IF who[w] \notin run /\ ask[who[w]] \in Reached
                            THEN missed \cup {who[w]} ELSE missed
              /\ UNCHANGED <<world, day, todo, who, lost, misled, raced>>

\* fill_day: what moved is read and the row written, whatever is in it by now.
Write(w) == LET p == who[w] IN
            /\ Go(w, "write", "pick")
            /\ day' = [day EXCEPT ![p] = "filled"]
            /\ lost' = IF day[p] \in Answers THEN lost \cup {p} ELSE lost
            /\ misled' = IF ask[p] \in Reached THEN misled \cup {p} ELSE misled
            /\ UNCHANGED <<world, todo, who, raced, missed>>

\* A step raises or the process dies: the rest of the list waits for the next tick.
PassFails(w) == /\ place[w] # "idle"
                /\ faults < MaxFaults
                /\ faults' = faults + 1
                /\ place' = [place EXCEPT ![w] = "idle"]
                /\ todo' = [todo EXCEPT ![w] = {}]
                /\ UNCHANGED <<on, due, ask, run, desk, acts, day, who, past>>

-----------------------------------------------------------------------------
\* Everything else that touches the day.

passes == <<place, todo, who>>

Switch == /\ on' = ~on
          /\ UNCHANGED <<due, ask, run, desk, acts, faults, day, passes, past>>

BecomesDue(p) == /\ due' = due \cup {p}
                 /\ UNCHANGED <<on, ask, run, desk, acts, faults, day, passes, past>>

Ask(p, from, to) == ask[p] = from /\ ask' = [ask EXCEPT ![p] = to]

\* The durable step of the check-in: the message, and only then the run's row.
StartAsk(p) == /\ p \in Askable
               /\ Ask(p, "no", "posting")
               /\ UNCHANGED <<on, due, run, desk, acts, faults, day, passes, past>>

AskFails(p) == /\ faults < MaxFaults
               /\ faults' = faults + 1
               /\ Ask(p, "posting", "no")
               /\ UNCHANGED <<on, due, run, desk, acts, day, passes, past>>

AskPosts(p) == /\ Ask(p, "posting", "posted")
               /\ missed' = IF Held(p) THEN missed \cup {p} ELSE missed
               /\ UNCHANGED <<on, due, run, desk, acts, faults, day, passes, lost, misled,
                              raced>>

RecordRun(p) == /\ Ask(p, "posted", "waiting")
                /\ run' = run \cup {p}
                /\ UNCHANGED <<on, due, desk, acts, faults, day, passes, past>>

\* A write of the person's own.
Answered(p, answer) == /\ day' = [day EXCEPT ![p] = answer]
                       /\ raced' = IF Held(p) THEN raced \cup {p} ELSE raced
                       /\ UNCHANGED <<passes, lost, misled, missed>>

Reply(p) == /\ Ask(p, "waiting", "answered")
            /\ Answered(p, "reply")
            /\ UNCHANGED <<on, due, run, desk, acts, faults>>

\* The ladder ends with no reply: a console answer of the day is kept.
Close(p) == /\ Ask(p, "waiting", "closed")
            /\ day' = [day EXCEPT ![p] = IF @ \in Answers THEN @ ELSE "silent"]
            /\ UNCHANGED <<on, due, run, desk, acts, faults, passes, past>>

\* The console reads the day, then writes it: a confirmation or a correction, or
\* an update of a task, which leaves an answer of the day as it is.
OpenDesk(p, what) == /\ desk[p] = "idle"
                     /\ acts < MaxActs
                     /\ acts' = acts + 1
                     /\ desk' = [desk EXCEPT ![p] = what]
                     /\ UNCHANGED <<on, due, ask, run, faults, day, passes, past>>

Confirm(p) == /\ desk[p] = "confirm"
              /\ desk' = [desk EXCEPT ![p] = "idle"]
              /\ Answered(p, "confirmed")
              /\ UNCHANGED <<on, due, ask, run, acts, faults>>

UpdateTask(p) == /\ desk[p] = "task"
                 /\ desk' = [desk EXCEPT ![p] = "idle"]
                 /\ Answered(p, IF day[p] \in Answers THEN day[p] ELSE "partial")
                 /\ UNCHANGED <<on, due, ask, run, acts, faults>>

PassStep(w) == Pick(w) \/ PassEnds(w) \/ LookStatus(w) \/ LookRun(w) \/ Write(w)

AskStep(p) == AskPosts(p) \/ RecordRun(p)

FillNext == \/ Switch
            \/ \E w \in Passes : Begin(w) \/ PassStep(w) \/ PassFails(w)
            \/ \E p \in People : \/ BecomesDue(p) \/ StartAsk(p) \/ AskFails(p) \/ AskStep(p)
                                 \/ Reply(p) \/ Close(p) \/ Confirm(p) \/ UpdateTask(p)
                                 \/ \E what \in {"confirm", "task"} : OpenDesk(p, what)

FillSpec == FillInit /\ [][FillNext]_fillVars

\* The schedule fires again and again, and a pass that runs goes on running.
FillFairness == \A w \in Passes : WF_fillVars(Begin(w)) /\ WF_fillVars(PassStep(w))

FairFillSpec == FillSpec /\ FillFairness

-----------------------------------------------------------------------------
\* An answer of the person, in the chat or the console, is filled over only when
\* it came while a pass, having found no status, was still at work on them.
AnswerFilledOverOnlyIfRaced == lost \subseteq raced

\* "Not reached" is said of someone the check-in reached only when the ask was
\* between its message and its run's row, or went out under the pass.
NotReachedIsTrue == misled \subseteq missed

\* With the switch left on, everyone due ends up with a day, a check-in of their
\* own for it, or away: a person passed over never holds up those listed after.
EveryoneGetsADay ==
    <>[]on => \A p \in People : (p \in due) ~> (day[p] # "none" \/ p \in run \cup OnLeave)
=============================================================================
