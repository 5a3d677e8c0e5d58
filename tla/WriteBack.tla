----------------------------- MODULE WriteBack -----------------------------
(***************************************************************************)
(* The audited writes to one issue of the tracker: what a check-in claims  *)
(* of it, the yes or no of its owner, the moves made in the console, the   *)
(* reverts of an administrator, and the append-only audit that all of them *)
(* read to decide.  The issue lives in the tracker, where people move and  *)
(* reassign it too, so every read may be stale when it is used.            *)
(*                                                                         *)
(* A worker runs one call at a time, one database statement or tracker     *)
(* request to a step.  Answers hold the lock of their correlation; claims, *)
(* console moves and reverts hold none.  A crash drops the call and, with  *)
(* its transaction, the lock.                                              *)
(*                                                                         *)
(* Targets are the canonical ones.  The comment of a write, OpenProgram's  *)
(* own copy of the issue and the wording of answers are left out.          *)
(***************************************************************************)
EXTENDS Naturals, Sequences, FiniteSets

CONSTANTS States,        \* states of the issue in the tracker
          Targets,       \* the states OpenProgram may move it to
          Todo, Done,    \* the states that have rules of their own
          Updates,       \* console task updates, each a correlation of its own
          Workers,       \* processes that run service calls
          MaxCalls,      \* bound on service calls
          MaxEdits,      \* bound on what people change in between
          MaxLost        \* bound on moves a crash or a lost answer hides

ASSUME StatesType == Targets \subseteq States /\ Todo \in States /\ Done \in Targets
ASSUME BoundsType == MaxCalls \in Nat /\ MaxEdits \in Nat /\ MaxLost \in Nat
ASSUME UpdatesAreOthers == Updates \cap {"checkin", "suggestion"} = {}

VARIABLES issue,         \* its state in the tracker
          mine,          \* whether the tracker shows the person as its assignee
          openMR,        \* whether a merge request naming it is open
          on,            \* the write-back switch and the person's capability
          consent,       \* the person's standing consent
          audit,         \* the rows of writeback_audit, oldest first
          lock,          \* who holds the lock of each correlation
          me,            \* what each worker holds in its call
          calls,         \* service calls so far
          edits          \* changes by people so far

VARIABLES moves,         \* history: transitions the tracker made for a call
          lost,          \* history: of those, the ones that left no row
          yesMoves,      \* history: transitions made for a yes, by target
          undone,        \* history: rows whose revert was made in the tracker
          twice,         \* history: rows whose revert was made again
          refused,       \* history: rows a revert found reverted already
          doubled        \* history: two reverts of one row overlapped

tracker == <<issue, mine, openMR, on, consent, edits>>
past == <<moves, lost, yesMoves, undone, twice, refused, doubled>>
vars == <<tracker, audit, lock, me, calls, past>>

Correlations == {"checkin", "suggestion"} \cup Updates
Calls == {"claim", "answer", "expire", "console", "suggest", "revert"}
Statuses == {"proposed", "applied", "declined", "expired", "failed", "reverted"}
Terminal == {"applied", "declined", "reverted", "expired"}
NoOne == "no one"
ASSUME WorkersType == NoOne \notin Workers

Places == {"idle", "find", "lock", "check", "expire", "read", "merge_requests",
           "move", "record", "undo_check", "undo", "undo_record"}

\* "before" is kept for the rows a revert reads, the applied ones.
Row == [status : Statuses, target : States, before : States, corr : Correlations,
        by : Calls]

\* In a call: where, which, the target, the correlation, the state it read, the
\* consent it read, a yes or no, the proposals it will expire, the row to revert.
Held == [pc : Places, call : Calls, target : States, corr : Correlations,
         before : States, auto : BOOLEAN, yes : BOOLEAN, todo : SUBSET Targets, row : Nat]

Rest == [pc |-> "idle", call |-> "claim", target |-> Todo, corr |-> "checkin",
         before |-> Todo, auto |-> FALSE, yes |-> FALSE, todo |-> {}, row |-> 0]

TypeOK == /\ issue \in States
          /\ mine \in BOOLEAN /\ openMR \in BOOLEAN /\ on \in BOOLEAN
          /\ consent \in {"always_ask", "auto_apply", "never"}
          /\ audit \in Seq(Row)
          /\ lock \in [Correlations -> Workers \cup {NoOne}]
          /\ me \in [Workers -> Held]
          /\ calls \in Nat /\ edits \in Nat
          /\ moves \in Nat /\ lost \in Nat
          /\ yesMoves \in [Targets -> Nat]
          /\ undone \subseteq Nat /\ twice \subseteq Nat /\ refused \subseteq Nat
          /\ doubled \in BOOLEAN

Init == /\ issue \in States
        /\ mine \in BOOLEAN /\ openMR \in BOOLEAN /\ on = TRUE
        /\ consent \in {"always_ask", "auto_apply"}
        /\ audit = <<>>
        /\ lock = [c \in Correlations |-> NoOne]
        /\ me = [w \in Workers |-> Rest]
        /\ calls = 0 /\ edits = 0 /\ moves = 0 /\ lost = 0
        /\ yesMoves = [t \in Targets |-> 0]
        /\ undone = {} /\ twice = {} /\ refused = {}
        /\ doubled = FALSE

-----------------------------------------------------------------------------
At(w, place) == me[w].pc = place
To(w, place) == me' = [me EXCEPT ![w].pc = place] /\ UNCHANGED lock

\* A call ends; with it ends the transaction that held its lock.
Stop(w) == /\ me' = [me EXCEPT ![w] = Rest]
           /\ lock' = [c \in Correlations |-> IF lock[c] = w THEN NoOne ELSE lock[c]]

Begin(w, held) == /\ At(w, "idle")
                  /\ calls < MaxCalls
                  /\ calls' = calls + 1
                  /\ me' = [me EXCEPT ![w] = held]
                  /\ UNCHANGED <<tracker, audit, lock, past>>

Rows(corr) == {i \in DOMAIN audit : audit[i].corr = corr}

\* _pending_proposals: proposed, and no terminal row of its issue and target.
Pending == {t \in Targets :
              /\ \E i \in Rows("checkin") : audit[i].target = t /\ audit[i].status = "proposed"
              /\ ~\E i \in Rows("checkin") : audit[i].target = t /\ audit[i].status \in Terminal}

\* The gates a writing call passes first: switch, capability, consent.
Gates == on /\ consent # "never"

\* The call's row, keyed by its target.
Record(w, status, before) ==
    audit' = Append(audit, [status |-> status, target |-> me[w].target, before |-> before,
                            corr |-> me[w].corr, by |-> me[w].call])

-----------------------------------------------------------------------------
\* Faulty variant: the target is the parser's wording, not a canonical state.
ClaimFreeText(w, t) == /\ Gates
                       /\ Begin(w, [Rest EXCEPT !.pc = "find", !.target = "nearly there"])

\* The check-in's reply claims a state.
Claim(w, t) == /\ Gates
               /\ Begin(w, [Rest EXCEPT !.pc = "find", !.call = "claim", !.target = t,
                                        !.auto = (consent = "auto_apply")])

\* find_existing: any row of this issue, target and check-in ends the claim.
Find(w) == /\ At(w, "find")
           /\ IF \E i \in Rows("checkin") : audit[i].target = me[w].target
                THEN Stop(w) ELSE To(w, "read")
           /\ UNCHANGED <<tracker, audit, calls, past>>

\* A yes or a no to a proposal, in the chat or in the console.
Answer(w, t, yes) == /\ \E i \in Rows("checkin") : /\ audit[i].target = t
                                                   /\ audit[i].status = "proposed"
                     /\ Begin(w, [Rest EXCEPT !.pc = "lock", !.call = "answer",
                                              !.target = t, !.yes = yes])

\* The check-in closes: what is still pending expires.
Expire(w) == Begin(w, [Rest EXCEPT !.pc = "lock", !.call = "expire"])

\* A suggestion of the console: the issue is open though its request is merged.
Suggest(w, yes) == Begin(w, [Rest EXCEPT !.pc = "lock", !.call = "suggest",
                          !.target = Done, !.corr = "suggestion", !.yes = yes])

\* "Also move in Jira", ticked in a task update.
Console(w, t, u) == /\ Gates
                    /\ Rows(u) = {} /\ \A v \in Workers : me[v].corr # u
                    /\ Begin(w, [Rest EXCEPT !.pc = "read", !.call = "console",
                                             !.target = t, !.corr = u])

\* An administrator reverts an applied write.
Revert(w, i) == /\ i \in DOMAIN audit
                /\ audit[i].status = "applied"
                /\ Begin(w, [Rest EXCEPT !.pc = "undo_check", !.call = "revert",
                              !.target = audit[i].before, !.before = audit[i].target,
                              !.corr = audit[i].corr, !.row = i])

-----------------------------------------------------------------------------
\* Faulty variant: the answer is given without the lock.
LockFree(w) == /\ At(w, "lock")
               /\ To(w, "check")
               /\ UNCHANGED <<tracker, audit, calls, past>>

\* exclusive_correlation; a wait that lasts too long raises.
Lock(w) == /\ At(w, "lock")
           /\ lock[me[w].corr] = NoOne
           /\ lock' = [lock EXCEPT ![me[w].corr] = w]
           /\ me' = [me EXCEPT ![w].pc = "check"]
           /\ UNCHANGED <<tracker, audit, calls, past>>

LockTimeout(w) == /\ At(w, "lock")
                  /\ lock[me[w].corr] # NoOne
                  /\ Stop(w)
                  /\ UNCHANGED <<tracker, audit, calls, past>>

\* Whether what is answered still waits for an answer.
Waits(w) == IF me[w].call = "suggest"
              THEN ~\E i \in Rows("suggestion") : audit[i].status \in {"applied", "declined"}
              ELSE me[w].target \in Pending

\* Under the lock: answered already, a no, a yes that finds the gates closed, or
\* a yes that goes on to the tracker.
Check(w) == /\ At(w, "check")
            /\ me[w].call \in {"answer", "suggest"}
            /\ CASE ~Waits(w) -> Stop(w) /\ UNCHANGED audit
                 [] Waits(w) /\ ~me[w].yes -> Record(w, "declined", me[w].before) /\ Stop(w)
                 [] Waits(w) /\ me[w].yes /\ ~Gates -> Stop(w) /\ UNCHANGED audit
                 [] OTHER -> To(w, "read") /\ UNCHANGED audit
            /\ UNCHANGED <<tracker, calls, past>>

CheckPending(w) == /\ At(w, "check")
                   /\ me[w].call = "expire"
                   /\ me' = [me EXCEPT ![w].pc = "expire", ![w].todo = Pending]
                   /\ UNCHANGED <<tracker, audit, lock, calls, past>>

ExpireOne(w) == /\ At(w, "expire")
                /\ \E t \in me[w].todo :
                      /\ me' = [me EXCEPT ![w].todo = @ \ {t}]
                      /\ audit' = Append(audit, [status |-> "expired", target |-> t,
                                    before |-> t, corr |-> "checkin", by |-> "expire"])
                /\ UNCHANGED <<tracker, lock, calls, past>>

ExpireDone(w) == /\ At(w, "expire")
                 /\ me[w].todo = {}
                 /\ Stop(w)
                 /\ UNCHANGED <<tracker, audit, calls, past>>

-----------------------------------------------------------------------------
\* The claims' and the console's own refusals to leave a row: OpenProgram's copy
\* shows the state already, or the person only mentioned a merge request.
Silent(w) == me[w].call # "answer" /\ Stop(w) /\ UNCHANGED audit

ReadFails(w) == /\ At(w, "read")
                /\ (Record(w, "failed", me[w].before) /\ Stop(w)) \/ Silent(w)
                /\ UNCHANGED <<tracker, calls, past>>

\* "Started" with no state of its own moves only an issue that is still to do.
LeaveAlone(w) == /\ At(w, "read")
                 /\ me[w].call = "claim"
                 /\ issue # Todo \/ ~mine
                 /\ Stop(w)
                 /\ UNCHANGED <<tracker, audit, calls, past>>

NotTheirs(w) == /\ At(w, "read")
                /\ ~mine
                /\ Record(w, "declined", issue)
                /\ Stop(w)
                /\ UNCHANGED <<tracker, calls, past>>

\* Nothing to change: the yes is settled, anything else leaves no row.
AlreadyThere(w) == /\ At(w, "read")
                   /\ mine /\ issue = me[w].target
                   /\ IF me[w].call = "answer" THEN Record(w, "expired", issue)
                                               ELSE UNCHANGED audit
                   /\ Stop(w)
                   /\ UNCHANGED <<tracker, calls, past>>

ReadOn(w) == /\ At(w, "read")
             /\ mine /\ issue # me[w].target
             /\ me' = [me EXCEPT ![w].pc = "merge_requests", ![w].before = issue]
             /\ UNCHANGED <<tracker, audit, lock, calls, past>>

\* Done waits for the merge requests; a claim of someone who is asked first
\* becomes a proposal; anything else is written.
MergeRequests(w) == /\ At(w, "merge_requests")
                    /\ CASE me[w].target = Done /\ openMR ->
                               Record(w, "declined", me[w].before) /\ Stop(w)
                         [] me[w].call = "claim" /\ ~me[w].auto
                              /\ ~(me[w].target = Done /\ openMR) ->
                               Record(w, "proposed", me[w].before) /\ Stop(w)
                         [] OTHER -> To(w, "move") /\ UNCHANGED audit
                    /\ UNCHANGED <<tracker, calls, past>>

-----------------------------------------------------------------------------
\* What a transition leaves behind, whether or not its answer arrives.
Transit(w) == /\ issue' = me[w].target
              /\ moves' = moves + 1
              /\ yesMoves' = IF me[w].call = "answer"
                               THEN [yesMoves EXCEPT ![me[w].target] = @ + 1] ELSE yesMoves
              /\ IF me[w].call = "revert"
                   THEN undone' = undone \cup {me[w].row}
                        /\ twice' = twice \cup (undone \cap {me[w].row})
                   ELSE UNCHANGED <<undone, twice>>
              /\ UNCHANGED <<mine, openMR, on, consent, edits, calls, refused, doubled>>

Moved(w) == /\ At(w, "move")
            /\ Transit(w)
            /\ To(w, "record")
            /\ UNCHANGED <<audit, lost>>

\* The tracker refuses, cannot be reached, or moved the issue and was not heard.
MoveFails(w) == /\ me[w].pc \in {"move", "undo"}
                /\ Record(w, "failed", me[w].before)
                /\ Stop(w)
                /\ UNCHANGED <<tracker, calls, past>>

MovedUnheard(w) == /\ me[w].pc \in {"move", "undo"}
                   /\ lost < MaxLost
                   /\ lost' = lost + 1
                   /\ Transit(w)
                   /\ Record(w, "failed", me[w].before)
                   /\ Stop(w)

\* Faulty variant: a comment that fails takes the row with it.
RecordIfTold(w) == /\ At(w, "record")
                   /\ Record(w, "applied", me[w].before) \/ UNCHANGED audit
                   /\ Stop(w)
                   /\ UNCHANGED <<tracker, calls, past>>

RecordApplied(w) == /\ At(w, "record")
                    /\ Record(w, "applied", me[w].before)
                    /\ Stop(w)
                    /\ UNCHANGED <<tracker, calls, past>>

-----------------------------------------------------------------------------
\* _already_reverted: a revert of this correlation back to the same state.
Reverted(i) == \E j \in Rows(audit[i].corr) :
                  audit[j].status = "reverted" /\ audit[j].target = audit[i].before

Undoing(v, i) == me[v].call = "revert" /\ me[v].row = i /\ me[v].pc \in {"undo", "undo_record"}

\* Faulty variant: only the switch is asked.
UndoCheckSwitch(w) == /\ At(w, "undo_check")
                      /\ IF on THEN To(w, "undo") ELSE Stop(w)
                      /\ UNCHANGED <<tracker, audit, calls, past>>

UndoCheck(w) == /\ At(w, "undo_check")
                /\ LET i == me[w].row IN
                     IF Reverted(i)
                       THEN refused' = refused \cup {i} /\ Stop(w) /\ UNCHANGED doubled
                       ELSE /\ IF on THEN To(w, "undo") ELSE Stop(w)
                            /\ doubled' = (doubled \/ \E v \in Workers \ {w} : Undoing(v, i))
                            /\ UNCHANGED refused
                /\ UNCHANGED <<tracker, audit, calls, moves, lost, yesMoves, undone, twice>>

Undo(w) == /\ At(w, "undo")
           /\ Transit(w)
           /\ To(w, "undo_record")
           /\ UNCHANGED <<audit, lost>>

UndoRecord(w) == /\ At(w, "undo_record")
                 /\ Record(w, "reverted", me[w].before)
                 /\ Stop(w)
                 /\ UNCHANGED <<tracker, calls, past>>

-----------------------------------------------------------------------------
Edit == edits < MaxEdits /\ edits' = edits + 1 /\ UNCHANGED <<audit, lock, me, calls, past>>

\* People work in the tracker, in Git and in the settings meanwhile.
MoveByHand(s) == Edit /\ issue' = s /\ UNCHANGED <<mine, openMR, on, consent>>
Reassign == Edit /\ mine' = ~mine /\ UNCHANGED <<issue, openMR, on, consent>>
MergeRequestChanges == Edit /\ openMR' = ~openMR /\ UNCHANGED <<issue, mine, on, consent>>
Switch == Edit /\ on' = ~on /\ UNCHANGED <<issue, mine, openMR, consent>>
Consent(c) == Edit /\ consent' = c /\ UNCHANGED <<issue, mine, openMR, on>>

\* The process dies, or a step raises what the call does not handle.
Crash(w) == /\ ~At(w, "idle")
            /\ IF me[w].pc \in {"record", "undo_record"}
                 THEN lost < MaxLost /\ lost' = lost + 1 ELSE UNCHANGED lost
            /\ Stop(w)
            /\ UNCHANGED <<tracker, audit, calls, moves, yesMoves, undone, twice, refused,
                           doubled>>

Starts(w) == \/ \E t \in Targets : Claim(w, t)
             \/ \E t \in Targets, yes \in BOOLEAN : Answer(w, t, yes)
             \/ Expire(w)
             \/ \E yes \in BOOLEAN : Suggest(w, yes)
             \/ \E t \in Targets, u \in Updates : Console(w, t, u)
             \/ \E i \in DOMAIN audit : Revert(w, i)

Steps(w) == \/ Find(w) \/ Lock(w) \/ LockTimeout(w) \/ Check(w)
            \/ CheckPending(w) \/ ExpireOne(w) \/ ExpireDone(w)
            \/ ReadFails(w) \/ LeaveAlone(w) \/ NotTheirs(w) \/ AlreadyThere(w) \/ ReadOn(w)
            \/ MergeRequests(w) \/ Moved(w) \/ MoveFails(w) \/ MovedUnheard(w)
            \/ RecordApplied(w) \/ UndoCheck(w) \/ Undo(w) \/ UndoRecord(w)
            \/ Crash(w)

People == \/ \E s \in States : MoveByHand(s)
          \/ Reassign \/ MergeRequestChanges \/ Switch
          \/ \E c \in {"always_ask", "auto_apply", "never"} : Consent(c)

Next == (\E w \in Workers : Starts(w) \/ Steps(w)) \/ People

Spec == Init /\ [][Next]_vars

-----------------------------------------------------------------------------
InFlight == {w \in Workers : me[w].pc \in {"record", "undo_record"}}

\* Every move OpenProgram made in the tracker has its applied or reverted row, is
\* about to get one, or is one of those a crash or a lost answer hides.
MovesAreAudited ==
    moves = Cardinality({i \in DOMAIN audit : audit[i].status \in {"applied", "reverted"}})
              + Cardinality(InFlight) + lost

Settled(corr, t) == {i \in Rows(corr) : /\ audit[i].target = t
                                        /\ audit[i].by \in {"answer", "expire", "suggest"}
                                        /\ audit[i].status \in Terminal}

\* A proposal, and a day's suggestion, is answered once: of the yes in the chat,
\* the no in the console and the close of the check-in, only one leaves its row.
AnsweredOnce == \A corr \in {"checkin", "suggestion"}, t \in Targets :
                    \A i, j \in Settled(corr, t) : i = j

\* However often and wherever a proposal is answered yes, the issue moves once
\* for it, and once more only for each move no row remembers.
AnswerMovesOnce == \A t \in Targets : yesMoves[t] <= 1 + lost

\* A write is reverted once, unless two reverts of it overlapped or the first
\* one left no row.
RevertedOnce == twice = {} \/ doubled \/ lost > 0

\* A revert that is told "already reverted" is told so of a write that was
\* reverted.
RefusedWasReverted == refused \subseteq undone
=============================================================================
