-------------------------- MODULE WriteBackProofs --------------------------
(***************************************************************************)
(* What the writes to the tracker guarantee for any states, targets,       *)
(* workers, console updates and numbers of calls, changes by people and    *)
(* lost answers: every move has its row, a proposal is answered once and   *)
(* moves the issue once, and a write is reverted once unless two reverts   *)
(* of it overlap.                                                          *)
(***************************************************************************)
EXTENDS WriteBack, FiniteSetTheorems, TLAPS

LEMMA RestType == Rest \in Held /\ Rest.pc = "idle" /\ Rest.call = "claim" /\ Rest.corr = "checkin"
  BY StatesType DEF Rest, Held, Places, Calls, Correlations

LEMMA StopType == ASSUME TypeOK, NEW w \in Workers, Stop(w)
                  PROVE  /\ me' \in [Workers -> Held]
                         /\ lock' \in [Correlations -> Workers \cup {NoOne}]
  BY RestType DEF TypeOK, Stop

LEMMA ToType == ASSUME TypeOK, NEW w \in Workers, NEW place \in Places, To(w, place)
                PROVE  me' \in [Workers -> Held] /\ lock' = lock
  BY DEF TypeOK, To, Held

LEMMA RecordType ==
  ASSUME TypeOK, NEW w \in Workers, NEW status \in Statuses, NEW before \in States,
         Record(w, status, before)
  PROVE  audit' \in Seq(Row)
  BY DEF TypeOK, Record, Held, Row

LEMMA BeginType == ASSUME TypeOK, NEW w \in Workers, NEW held \in Held, Begin(w, held)
                   PROVE  TypeOK'
  BY DEF TypeOK, Begin, tracker, past

\* A new call holds what its kind of call starts with.
LEMMA StartType == ASSUME TypeOK, NEW w \in Workers, Starts(w) PROVE TypeOK'
<1> USE StatesType, RestType DEF Held, Places, Calls, Correlations
<1>1. ASSUME NEW t \in Targets, Claim(w, t) PROVE TypeOK'
  <2>1. [Rest EXCEPT !.pc = "find", !.call = "claim", !.target = t,
                     !.auto = (consent = "auto_apply")] \in Held
    OBVIOUS
  <2> QED
    BY <1>1, <2>1, BeginType DEF Claim
<1>2. ASSUME NEW t \in Targets, NEW yes \in BOOLEAN, Answer(w, t, yes) PROVE TypeOK'
  <2>1. [Rest EXCEPT !.pc = "lock", !.call = "answer", !.target = t, !.yes = yes] \in Held
    OBVIOUS
  <2> QED
    BY <1>2, <2>1, BeginType DEF Answer
<1>3. CASE Expire(w)
  <2>1. [Rest EXCEPT !.pc = "lock", !.call = "expire"] \in Held
    OBVIOUS
  <2> QED
    BY <1>3, <2>1, BeginType DEF Expire
<1>4. ASSUME NEW yes \in BOOLEAN, Suggest(w, yes) PROVE TypeOK'
  <2>1. [Rest EXCEPT !.pc = "lock", !.call = "suggest", !.target = Done,
                     !.corr = "suggestion", !.yes = yes] \in Held
    OBVIOUS
  <2> QED
    BY <1>4, <2>1, BeginType DEF Suggest
<1>5. ASSUME NEW t \in Targets, NEW u \in Updates, Console(w, t, u) PROVE TypeOK'
  <2>1. [Rest EXCEPT !.pc = "read", !.call = "console", !.target = t, !.corr = u] \in Held
    OBVIOUS
  <2> QED
    BY <1>5, <2>1, BeginType DEF Console
<1>6. ASSUME NEW i \in DOMAIN audit, Revert(w, i) PROVE TypeOK'
  <2>1. audit[i] \in Row /\ i \in Nat
    BY DEF TypeOK
  <2>2. [Rest EXCEPT !.pc = "undo_check", !.call = "revert", !.target = audit[i].before,
                     !.before = audit[i].target, !.corr = audit[i].corr, !.row = i] \in Held
    BY <2>1 DEF Row
  <2> QED
    BY <1>6, <2>2, BeginType DEF Revert
<1> QED
  BY <1>1, <1>2, <1>3, <1>4, <1>5, <1>6 DEF Starts

LEMMA TransitType == ASSUME TypeOK, NEW w \in Workers, Transit(w)
                     PROVE  /\ issue' \in States /\ moves' \in Nat
                            /\ yesMoves' \in [Targets -> Nat]
                            /\ undone' \subseteq Nat /\ twice' \subseteq Nat
                            /\ UNCHANGED <<mine, openMR, on, consent, edits, calls, refused,
                                           doubled>>
<1>1. me[w] \in Held
  BY DEF TypeOK
<1>2. me[w].target \in States /\ me[w].row \in Nat
  BY <1>1 DEF Held
<1>3. issue' \in States /\ moves' \in Nat
  BY <1>2 DEF TypeOK, Transit
<1>4. yesMoves' \in [Targets -> Nat]
  <2>1. CASE me[w].call = "answer"
    <3>1. yesMoves' = [yesMoves EXCEPT ![me[w].target] = @ + 1] /\ yesMoves \in [Targets -> Nat]
      BY <2>1 DEF Transit, TypeOK
    <3>2. \A t \in Targets : yesMoves[t] \in Nat /\ yesMoves[t] + 1 \in Nat
      BY <3>1
    <3> QED
      BY <3>1, <3>2, Zenon
  <2>2. CASE me[w].call # "answer"
    BY <2>2 DEF TypeOK, Transit
  <2> QED
    BY <2>1, <2>2
<1>5. undone' \subseteq Nat /\ twice' \subseteq Nat
  <2>1. CASE me[w].call = "revert"
    <3>1. undone' = undone \cup {me[w].row} /\ twice' = twice \cup (undone \cap {me[w].row})
      BY <2>1 DEF Transit
    <3> QED
      BY <3>1, <1>2 DEF TypeOK
  <2>2. CASE me[w].call # "revert"
    BY <2>2 DEF TypeOK, Transit
  <2> QED
    BY <2>1, <2>2
<1> QED
  BY <1>3, <1>4, <1>5 DEF Transit

LEMMA StepType == ASSUME TypeOK, NEW w \in Workers, Steps(w) PROVE TypeOK'
<1> USE DEF tracker, past, Places, Statuses
<1>0. me[w] \in Held /\ me[w].before \in States /\ issue \in States
  BY DEF TypeOK, Held
<1>1. CASE Find(w) \/ UndoCheck(w)
  <2>1. me' \in [Workers -> Held] /\ lock' \in [Correlations -> Workers \cup {NoOne}]
    BY <1>1, StopType, ToType DEF Find, UndoCheck, TypeOK
  <2>2. me[w].row \in Nat
    BY <1>0 DEF Held
  <2> QED
    BY <1>1, <2>1, <2>2 DEF Find, UndoCheck, TypeOK
<1>2. CASE Lock(w)
  <2>1. me' = [me EXCEPT ![w].pc = "check"] /\ lock' = [lock EXCEPT ![me[w].corr] = w]
        /\ UNCHANGED <<tracker, audit, calls, past>>
    BY <1>2 DEF Lock
  <2>5. [me[w] EXCEPT !.pc = "check"] \in Held
    BY <1>0 DEF Held
  <2>2. me' \in [Workers -> Held]
    BY <2>1, <2>5 DEF TypeOK
  <2>4. me[w].corr \in Correlations
    BY <1>0 DEF Held
  <2>3. lock' \in [Correlations -> Workers \cup {NoOne}]
    BY <2>1, <2>4 DEF TypeOK
  <2> QED
    BY <2>1, <2>2, <2>3 DEF TypeOK
<1>10. CASE CheckPending(w)
  <2>1. me' = [me EXCEPT ![w].pc = "expire", ![w].todo = Pending]
        /\ UNCHANGED <<tracker, audit, lock, calls, past>>
    BY <1>10 DEF CheckPending
  <2>2. Pending \in SUBSET Targets
    BY DEF Pending
  <2> DEFINE held == [me[w] EXCEPT !.pc = "expire", !.todo = Pending]
  <2>4. held \in Held
    BY <1>0, <2>2 DEF Held
  <2>5. me' = [me EXCEPT ![w] = held]
    BY <2>1 DEF TypeOK
  <2> HIDE DEF held
  <2>3. me' \in [Workers -> Held]
    BY <2>4, <2>5 DEF TypeOK
  <2> QED
    BY <2>1, <2>3 DEF TypeOK
<1>11. CASE ReadOn(w)
  <2>1. me' = [me EXCEPT ![w].pc = "merge_requests", ![w].before = issue]
        /\ UNCHANGED <<tracker, audit, lock, calls, past>>
    BY <1>11 DEF ReadOn
  <2>2. me' \in [Workers -> Held]
    BY <1>0, <2>1 DEF TypeOK, Held
  <2> QED
    BY <2>1, <2>2 DEF TypeOK
<1>3. CASE LockTimeout(w) \/ ExpireDone(w) \/ LeaveAlone(w)
  BY <1>3, StopType DEF LockTimeout, ExpireDone, LeaveAlone, TypeOK
<1>4. CASE Check(w) \/ MergeRequests(w)
  <2>1. me' \in [Workers -> Held] /\ lock' \in [Correlations -> Workers \cup {NoOne}]
    BY <1>4, StopType, ToType DEF Check, MergeRequests, TypeOK
  <2>2. audit' \in Seq(Row)
    BY <1>0, <1>4, RecordType DEF Check, MergeRequests, TypeOK
  <2> QED
    BY <1>4, <2>1, <2>2 DEF Check, MergeRequests, TypeOK
<1>5. CASE ExpireOne(w)
  <2>1. PICK t \in me[w].todo :
           /\ me' = [me EXCEPT ![w].todo = @ \ {t}]
           /\ audit' = Append(audit, [status |-> "expired", target |-> t, before |-> t,
                                      corr |-> "checkin", by |-> "expire"])
    BY <1>5 DEF ExpireOne
  <2>2. t \in States
    BY <1>0, StatesType DEF Held
  <2>3. [status |-> "expired", target |-> t, before |-> t, corr |-> "checkin",
         by |-> "expire"] \in Row
    BY <2>2 DEF Row, Correlations, Calls
  <2>4. audit' \in Seq(Row)
    BY <2>1, <2>3 DEF TypeOK
  <2>5. me' \in [Workers -> Held]
    BY <1>0, <2>1 DEF TypeOK, Held
  <2> QED
    BY <1>5, <2>4, <2>5 DEF ExpireOne, TypeOK
<1>6. CASE ReadFails(w) \/ NotTheirs(w) \/ AlreadyThere(w) \/ MoveFails(w)
           \/ RecordApplied(w) \/ UndoRecord(w)
  <2>1. me' \in [Workers -> Held] /\ lock' \in [Correlations -> Workers \cup {NoOne}]
    BY <1>6, StopType DEF ReadFails, NotTheirs, AlreadyThere, MoveFails, RecordApplied,
                          UndoRecord, Silent
  <2>2. audit' \in Seq(Row)
    BY <1>0, <1>6, RecordType DEF ReadFails, NotTheirs, AlreadyThere, MoveFails, RecordApplied,
                                  UndoRecord, Silent, TypeOK
  <2> QED
    BY <1>6, <2>1, <2>2 DEF ReadFails, NotTheirs, AlreadyThere, MoveFails, RecordApplied,
                            UndoRecord, TypeOK
<1>7. CASE Moved(w) \/ Undo(w)
  BY <1>7, TransitType, ToType DEF Moved, Undo, TypeOK
<1>8. CASE MovedUnheard(w)
  <2>1. audit' \in Seq(Row)
    BY <1>0, <1>8, RecordType DEF MovedUnheard
  <2>2. lost' \in Nat
    BY <1>8 DEF MovedUnheard, TypeOK
  <2>3. Transit(w) /\ Stop(w)
    BY <1>8 DEF MovedUnheard
  <2>4. /\ issue' \in States /\ moves' \in Nat
        /\ yesMoves' \in [Targets -> Nat]
        /\ undone' \subseteq Nat /\ twice' \subseteq Nat
        /\ UNCHANGED <<mine, openMR, on, consent, edits, calls, refused, doubled>>
    BY <2>3, TransitType
  <2>5. me' \in [Workers -> Held] /\ lock' \in [Correlations -> Workers \cup {NoOne}]
    BY <2>3, StopType
  <2> QED
    BY <2>1, <2>2, <2>4, <2>5 DEF TypeOK
<1>9. CASE Crash(w)
  BY <1>9, StopType DEF Crash, TypeOK
<1> QED
  BY <1>1, <1>2, <1>3, <1>4, <1>5, <1>6, <1>7, <1>8, <1>9, <1>10, <1>11 DEF Steps

\* The rows of writeback_audit and the locals of a call keep their types: a row
\* names a canonical state of the issue, whoever wrote it (_record).
THEOREM TypeCorrect == Spec => []TypeOK
<1>1. Init => TypeOK
  <2> SUFFICES ASSUME Init PROVE TypeOK
    OBVIOUS
  <2>1. me \in [Workers -> Held] /\ lock \in [Correlations -> Workers \cup {NoOne}]
    BY RestType DEF Init
  <2>2. audit \in Seq(Row) /\ yesMoves \in [Targets -> Nat]
    BY DEF Init
  <2> QED
    BY <2>1, <2>2 DEF Init, TypeOK
<1>2. TypeOK /\ [Next]_vars => TypeOK'
  <2> SUFFICES ASSUME TypeOK, [Next]_vars PROVE TypeOK'
    OBVIOUS
  <2>1. CASE People
    <3> USE DEF Edit, TypeOK, past
    <3>1. ASSUME NEW s \in States, MoveByHand(s) PROVE TypeOK'
      BY <3>1 DEF MoveByHand
    <3>2. CASE Reassign
      BY <3>2 DEF Reassign
    <3>4. CASE MergeRequestChanges
      BY <3>4 DEF MergeRequestChanges
    <3>5. CASE Switch
      BY <3>5 DEF Switch
    <3>3. ASSUME NEW c \in {"always_ask", "auto_apply", "never"}, Consent(c) PROVE TypeOK'
      BY <3>3 DEF Consent
    <3> QED
      BY <2>1, <3>1, <3>2, <3>3, <3>4, <3>5 DEF People
  <2>2. CASE UNCHANGED vars
    BY <2>2 DEF vars, tracker, past, TypeOK
  <2> QED
    BY <2>1, <2>2, StartType, StepType DEF Next
<1> QED
  BY <1>1, <1>2, PTL DEF Spec

-----------------------------------------------------------------------------
\* The ways through a call.
Onwards == {<<"find", "read">>, <<"lock", "check">>, <<"check", "read">>, <<"check", "expire">>,
            <<"expire", "expire">>, <<"read", "merge_requests">>,
            <<"merge_requests", "move">>, <<"move", "record">>, <<"undo_check", "undo">>,
            <<"undo", "undo_record">>}

\* A step that does not end its call takes it one place on and keeps what it is about.
GoesOn(w) == /\ me'[w].call = me[w].call /\ me'[w].target = me[w].target
             /\ me'[w].corr = me[w].corr /\ me'[w].row = me[w].row
             /\ <<me[w].pc, me'[w].pc>> \in Onwards
             /\ me[w].pc = "lock" => Lock(w)
             /\ me[w].pc = "check" => /\ me'[w].pc = "read" <=> me[w].call # "expire"
                                      /\ me'[w].pc = "expire" <=> me[w].call = "expire"

LEMMA StopShape == ASSUME TypeOK, NEW w \in Workers, Stop(w)
                   PROVE  me'[w] = Rest /\ \A v \in Workers \ {w} : me'[v] = me[v]
  BY DEF TypeOK, Stop

LEMMA ToShape == ASSUME TypeOK, NEW w \in Workers, NEW place, To(w, place)
                 PROVE  /\ \A v \in Workers \ {w} : me'[v] = me[v]
                        /\ me'[w].call = me[w].call /\ me'[w].target = me[w].target
                        /\ me'[w].corr = me[w].corr /\ me'[w].row = me[w].row
                        /\ me'[w].pc = place
  BY DEF TypeOK, To, Held

LEMMA StepShape ==
  ASSUME TypeOK, NEW w \in Workers, Steps(w)
  PROVE  /\ \A v \in Workers \ {w} : me'[v] = me[v]
         /\ Stop(w) \/ Lock(w) \/ lock' = lock
         /\ Stop(w) \/ GoesOn(w)
<1> USE DEF Onwards, GoesOn
<1>0. me[w] \in Held /\ me \in [Workers -> Held]
  BY DEF TypeOK
<1>1. CASE Stop(w)
  BY <1>1, StopShape
<1>2. CASE ~Stop(w)
  <2>1. CASE Find(w)
    BY <1>2, <2>1, ToShape DEF Find, At, To
  <2>2. CASE Lock(w)
    <3>1. me' = [me EXCEPT ![w].pc = "check"]
      BY <2>2 DEF Lock
    <3>2. me'[w] = [me[w] EXCEPT !.pc = "check"] /\ \A v \in Workers \ {w} : me'[v] = me[v]
      BY <1>0, <3>1
    <3> QED
      BY <1>0, <2>2, <3>2 DEF Held, Lock, At
  <2>3. CASE LockTimeout(w) \/ ExpireDone(w) \/ LeaveAlone(w) \/ ReadFails(w) \/ NotTheirs(w)
             \/ AlreadyThere(w) \/ MoveFails(w) \/ MovedUnheard(w) \/ RecordApplied(w)
             \/ UndoRecord(w) \/ Crash(w)
    BY <1>2, <2>3 DEF LockTimeout, ExpireDone, LeaveAlone, ReadFails, NotTheirs, AlreadyThere,
                      MoveFails, MovedUnheard, RecordApplied, UndoRecord, Crash, Silent
  <2>4. CASE Check(w)
    BY <1>2, <2>4, ToShape DEF Check, At, To
  <2>5. CASE CheckPending(w)
    <3>1. me' = [me EXCEPT ![w].pc = "expire", ![w].todo = Pending]
      BY <2>5 DEF CheckPending
    <3>2. me'[w] = [me[w] EXCEPT !.pc = "expire", !.todo = Pending]
          /\ \A v \in Workers \ {w} : me'[v] = me[v]
      BY <1>0, <3>1
    <3> QED
      BY <1>0, <2>5, <3>2 DEF Held, CheckPending, At
  <2>6. CASE ExpireOne(w)
    <3>1. PICK t \in me[w].todo : me' = [me EXCEPT ![w].todo = @ \ {t}]
      BY <2>6 DEF ExpireOne
    <3>2. me'[w] = [me[w] EXCEPT !.todo = @ \ {t}]
          /\ \A v \in Workers \ {w} : me'[v] = me[v]
      BY <1>0, <3>1
    <3> QED
      BY <1>0, <2>6, <3>2 DEF Held, ExpireOne, At
  <2>7. CASE ReadOn(w)
    <3>1. me' = [me EXCEPT ![w].pc = "merge_requests", ![w].before = issue]
      BY <2>7 DEF ReadOn
    <3>2. me'[w] = [me[w] EXCEPT !.pc = "merge_requests", !.before = issue]
          /\ \A v \in Workers \ {w} : me'[v] = me[v]
      BY <1>0, <3>1
    <3> QED
      BY <1>0, <2>7, <3>2 DEF Held, ReadOn, At
  <2>8. CASE MergeRequests(w)
    BY <1>2, <2>8, ToShape DEF MergeRequests, At, To
  <2>9. CASE Moved(w) \/ Undo(w)
    BY <2>9, ToShape DEF Moved, Undo, At, To
  <2>10. CASE UndoCheck(w)
    BY <1>2, <2>10, ToShape DEF UndoCheck, At, To
  <2> QED
    BY <2>1, <2>2, <2>3, <2>4, <2>5, <2>6, <2>7, <2>8, <2>9, <2>10 DEF Steps
<1> QED
  BY <1>1, <1>2

\* A new call finds its worker idle and touches nothing but what it holds.
LEMMA StartShape ==
  ASSUME TypeOK, NEW w \in Workers, Starts(w)
  PROVE  /\ me[w].pc = "idle"
         /\ \A v \in Workers \ {w} : me'[v] = me[v]
         /\ UNCHANGED <<tracker, audit, lock, past>>
         /\ \/ me'[w].pc = "find" /\ me'[w].call = "claim"
            \/ me'[w].pc = "lock" /\ me'[w].call \in {"answer", "expire"}
                  /\ me'[w].corr = "checkin"
            \/ me'[w].pc = "lock" /\ me'[w].call = "suggest" /\ me'[w].corr = "suggestion"
                  /\ me'[w].target = Done
            \/ me'[w].pc = "read" /\ me'[w].call = "console"
            \/ /\ me'[w].pc = "undo_check" /\ me'[w].call = "revert"
               /\ me'[w].row \in DOMAIN audit
               /\ me'[w].target = audit[me'[w].row].before
               /\ me'[w].corr = audit[me'[w].row].corr
<1>0. me \in [Workers -> Held] /\ Rest \in Held
  BY RestType DEF TypeOK
<1>1. ASSUME NEW held, Begin(w, held)
      PROVE  /\ me[w].pc = "idle" /\ me'[w] = held
             /\ \A v \in Workers \ {w} : me'[v] = me[v]
             /\ UNCHANGED <<tracker, audit, lock, past>>
  BY <1>0, <1>1 DEF Begin, At
<1>2. ASSUME NEW t \in Targets, Claim(w, t)
      PROVE  me'[w].pc = "find" /\ me'[w].call = "claim"
  <2>1. Begin(w, [Rest EXCEPT !.pc = "find", !.call = "claim", !.target = t,
                                 !.auto = (consent = "auto_apply")])
    BY <1>2 DEF Claim
  <2>2. me'[w] = [Rest EXCEPT !.pc = "find", !.call = "claim", !.target = t,
                                 !.auto = (consent = "auto_apply")]
    BY <1>1, <2>1
  <2> QED
    BY <2>2 DEF Rest
<1>3. ASSUME NEW t \in Targets, NEW yes \in BOOLEAN, Answer(w, t, yes)
      PROVE  me'[w].pc = "lock" /\ me'[w].call = "answer" /\ me'[w].corr = "checkin"
  <2>1. Begin(w, [Rest EXCEPT !.pc = "lock", !.call = "answer", !.target = t, !.yes = yes])
    BY <1>3 DEF Answer
  <2>2. me'[w] = [Rest EXCEPT !.pc = "lock", !.call = "answer", !.target = t, !.yes = yes]
    BY <1>1, <2>1
  <2> QED
    BY <2>2 DEF Rest
<1>4. ASSUME Expire(w)
      PROVE  me'[w].pc = "lock" /\ me'[w].call = "expire" /\ me'[w].corr = "checkin"
  <2>1. Begin(w, [Rest EXCEPT !.pc = "lock", !.call = "expire"])
    BY <1>4 DEF Expire
  <2>2. me'[w] = [Rest EXCEPT !.pc = "lock", !.call = "expire"]
    BY <1>1, <2>1
  <2> QED
    BY <2>2 DEF Rest
<1>5. ASSUME NEW yes \in BOOLEAN, Suggest(w, yes)
      PROVE  /\ me'[w].pc = "lock" /\ me'[w].call = "suggest" /\ me'[w].corr = "suggestion"
             /\ me'[w].target = Done
  <2>1. Begin(w, [Rest EXCEPT !.pc = "lock", !.call = "suggest", !.target = Done,
                                 !.corr = "suggestion", !.yes = yes])
    BY <1>5 DEF Suggest
  <2>2. me'[w] = [Rest EXCEPT !.pc = "lock", !.call = "suggest", !.target = Done,
                                 !.corr = "suggestion", !.yes = yes]
    BY <1>1, <2>1
  <2> QED
    BY <2>2 DEF Rest
<1>6. ASSUME NEW t \in Targets, NEW u \in Updates, Console(w, t, u)
      PROVE  me'[w].pc = "read" /\ me'[w].call = "console"
  <2>1. Begin(w, [Rest EXCEPT !.pc = "read", !.call = "console", !.target = t, !.corr = u])
    BY <1>6 DEF Console
  <2>2. me'[w] = [Rest EXCEPT !.pc = "read", !.call = "console", !.target = t, !.corr = u]
    BY <1>1, <2>1
  <2> QED
    BY <2>2 DEF Rest
<1>7. ASSUME NEW i \in DOMAIN audit, Revert(w, i)
      PROVE  /\ me'[w].pc = "undo_check" /\ me'[w].call = "revert"
             /\ me'[w].row = i
             /\ me'[w].target = audit[i].before
             /\ me'[w].corr = audit[i].corr
  <2>1. Begin(w, [Rest EXCEPT !.pc = "undo_check", !.call = "revert",
                                 !.target = audit[i].before, !.before = audit[i].target,
                                 !.corr = audit[i].corr, !.row = i])
    BY <1>7 DEF Revert
  <2>2. me'[w] = [Rest EXCEPT !.pc = "undo_check", !.call = "revert",
                                 !.target = audit[i].before, !.before = audit[i].target,
                                 !.corr = audit[i].corr, !.row = i]
    BY <1>1, <2>1
  <2> QED
    BY <2>2 DEF Rest
<1>8. PICK held : Begin(w, held)
  BY DEF Starts, Claim, Answer, Expire, Suggest, Console, Revert
<1> QED
  BY <1>1, <1>2, <1>3, <1>4, <1>5, <1>6, <1>7, <1>8 DEF Starts

-----------------------------------------------------------------------------
\* The row a step leaves, and what it says of the call that leaves it.
EndsWith(w, r) ==
    /\ Stop(w)
    /\ r.corr = me[w].corr /\ r.target = me[w].target /\ r.by = me[w].call
    /\ \/ /\ me[w].pc = "check" /\ me[w].call # "expire"
          /\ Waits(w) /\ r.status = "declined"
       \/ me[w].pc \in {"read", "merge_requests"} /\ r.status \in {"failed", "declined", "proposed"}
       \/ me[w].pc = "read" /\ me[w].call = "answer" /\ r.status = "expired"
       \/ me[w].pc \in {"move", "undo"} /\ r.status = "failed"
       \/ me[w].pc = "record" /\ r.status = "applied"
       \/ me[w].pc = "undo_record" /\ r.status = "reverted"

Expires(w, r) ==
    /\ me[w].pc = "expire" /\ r.status = "expired" /\ r.corr = "checkin" /\ r.by = "expire"
    /\ r.target \in me[w].todo /\ me'[w].todo = me[w].todo \ {r.target}
    /\ me'[w].pc = "expire"

LEMMA RecordShape ==
  ASSUME TypeOK, NEW w \in Workers, NEW status, NEW before, Record(w, status, before)
  PROVE  \E r : /\ audit' = Append(audit, r) /\ r.status = status
                /\ r.corr = me[w].corr /\ r.target = me[w].target /\ r.by = me[w].call
<1> DEFINE r == [status |-> status, target |-> me[w].target, before |-> before,
                 corr |-> me[w].corr, by |-> me[w].call]
<1>1. audit' = Append(audit, r)
  BY DEF Record
<1>2. /\ r.status = status /\ r.corr = me[w].corr
      /\ r.target = me[w].target /\ r.by = me[w].call
  OBVIOUS
<1> QED
  BY <1>1, <1>2

LEMMA WriteShape ==
  ASSUME TypeOK, NEW w \in Workers, Steps(w)
  PROVE  \/ (audit' = audit /\ me[w].pc \notin {"record", "undo_record"}) \/ Crash(w)
         \/ \E r : audit' = Append(audit, r) /\ (EndsWith(w, r) \/ Expires(w, r))
<1> USE DEF EndsWith, Expires, At
<1>1. CASE Find(w) \/ Lock(w) \/ LockTimeout(w) \/ CheckPending(w) \/ ExpireDone(w)
           \/ LeaveAlone(w) \/ ReadOn(w) \/ Moved(w) \/ UndoCheck(w) \/ Undo(w)
  BY <1>1 DEF Find, Lock, LockTimeout, CheckPending, ExpireDone, LeaveAlone, ReadOn, Moved,
              UndoCheck, Undo
<1>2. CASE Check(w)
  BY <1>2, RecordShape DEF Check
<1>3. CASE ExpireOne(w)
  <2>1. PICK t \in me[w].todo :
           /\ me' = [me EXCEPT ![w].todo = @ \ {t}]
           /\ audit' = Append(audit, [status |-> "expired", target |-> t, before |-> t,
                                      corr |-> "checkin", by |-> "expire"])
    BY <1>3 DEF ExpireOne
  <2>2. me'[w].todo = me[w].todo \ {t} /\ me'[w].pc = me[w].pc
    BY <2>1 DEF TypeOK, Held
  <2> QED
    BY <1>3, <2>1, <2>2 DEF ExpireOne
<1>4. CASE ReadFails(w) \/ NotTheirs(w) \/ AlreadyThere(w)
  BY <1>4, RecordShape DEF ReadFails, NotTheirs, AlreadyThere, Silent
<1>5. CASE MergeRequests(w)
  BY <1>5, RecordShape DEF MergeRequests
<1>6. CASE MoveFails(w) \/ MovedUnheard(w)
  BY <1>6, RecordShape DEF MoveFails, MovedUnheard
<1>7. CASE RecordApplied(w) \/ UndoRecord(w)
  BY <1>7, RecordShape DEF RecordApplied, UndoRecord
<1> QED
  BY <1>1, <1>2, <1>3, <1>4, <1>5, <1>6, <1>7 DEF Steps

LEMMA CrashKeepsAudit == ASSUME NEW w, Crash(w) PROVE audit' = audit /\ Stop(w)
  BY DEF Crash

-----------------------------------------------------------------------------
\* What a call is about, wherever it stands.
CallsAreOrderly ==
    \A w \in Workers :
      LET c == me[w] IN
        /\ c.pc = "find" => c.call = "claim"
        /\ c.pc \in {"lock", "check"} => c.call \in {"answer", "expire", "suggest"}
        /\ c.pc = "expire" => c.call = "expire"
        /\ c.pc \in {"read", "merge_requests", "move", "record"}
             => c.call \in {"claim", "answer", "console", "suggest"}
        /\ c.pc \in {"undo_check", "undo", "undo_record"} => c.call = "revert"
        /\ c.call \in {"answer", "expire"} => c.corr = "checkin"
        /\ c.call = "suggest" => c.corr = "suggestion" /\ c.target = Done

\* From the lock to its end, an answer or an expiry holds its correlation's lock.
NeedsLock(w) == \/ me[w].pc \in {"check", "expire"}
                \/ /\ me[w].pc \in {"read", "merge_requests", "move", "record"}
                   /\ me[w].call \in {"answer", "suggest"}
AnswersHoldLock == \A w \in Workers : NeedsLock(w) => lock[me[w].corr] = w

LEMMA OrderlyInit == ASSUME Init PROVE CallsAreOrderly /\ AnswersHoldLock
  BY DEF Init, Rest, CallsAreOrderly, AnswersHoldLock, NeedsLock

LEMMA OrderlyNext ==
  ASSUME TypeOK, CallsAreOrderly, [Next]_vars PROVE CallsAreOrderly'
<1>1. ASSUME NEW w \in Workers, Starts(w) PROVE CallsAreOrderly'
  BY <1>1, StartShape DEF CallsAreOrderly
<1>2. ASSUME NEW w \in Workers, Steps(w) PROVE CallsAreOrderly'
  <2>1. CASE Stop(w)
    <3>1. me'[w] = Rest /\ \A v \in Workers \ {w} : me'[v] = me[v]
      BY <2>1, StopShape
    <3> QED
      BY <3>1 DEF CallsAreOrderly, Rest
  <2>2. CASE GoesOn(w)
    BY <1>2, <2>2, StepShape DEF CallsAreOrderly, GoesOn, Onwards
  <2> QED
    BY <1>2, <2>1, <2>2, StepShape
<1>3. CASE UNCHANGED me
  BY <1>3 DEF CallsAreOrderly
<1>4. CASE People
  BY <1>3, <1>4 DEF People, MoveByHand, Reassign, MergeRequestChanges, Switch, Consent, Edit
<1> QED
  BY <1>1, <1>2, <1>3, <1>4 DEF Next, vars

LEMMA HoldLockNext ==
  ASSUME TypeOK, CallsAreOrderly, AnswersHoldLock, [Next]_vars PROVE AnswersHoldLock'
<1>0. /\ lock \in [Correlations -> Workers \cup {NoOne}]
      /\ \A v \in Workers : me[v].corr \in Correlations
  BY DEF TypeOK, Held
<1>1. ASSUME NEW w \in Workers, Starts(w) PROVE AnswersHoldLock'
  BY <1>1, StartShape DEF AnswersHoldLock, NeedsLock
<1>2. ASSUME NEW w \in Workers, Steps(w) PROVE AnswersHoldLock'
  <2>1. CASE Stop(w)
    <3>1. me'[w] = Rest /\ \A v \in Workers \ {w} : me'[v] = me[v]
      BY <2>1, StopShape
    <3>2. \A c \in Correlations : lock[c] # w => lock'[c] = lock[c]
      BY <2>1 DEF Stop
    <3> QED
      BY <1>0, <3>1, <3>2 DEF AnswersHoldLock, NeedsLock, Rest
  <2>2. CASE Lock(w) /\ ~Stop(w)
    <3>1. /\ lock[me[w].corr] = NoOne /\ lock' = [lock EXCEPT ![me[w].corr] = w]
      BY <2>2 DEF Lock
    <3>2. /\ me'[w].corr = me[w].corr
          /\ \A v \in Workers \ {w} : me'[v] = me[v]
      BY <1>2, <2>2, StepShape DEF GoesOn
    <3>3. \A v \in Workers \ {w} : NeedsLock(v) => me[v].corr # me[w].corr
      BY <3>1, WorkersType DEF AnswersHoldLock
    <3> QED
      BY <1>0, <3>1, <3>2, <3>3 DEF AnswersHoldLock, NeedsLock
  <2>3. CASE lock' = lock /\ GoesOn(w) /\ ~Lock(w)
    <3>1. \A v \in Workers \ {w} : me'[v] = me[v]
      BY <1>2, StepShape
    <3>2. NeedsLock(w)' => NeedsLock(w)
      BY <2>3 DEF NeedsLock, GoesOn, Onwards, CallsAreOrderly
    <3>3. me'[w].corr = me[w].corr
      BY <2>3 DEF GoesOn
    <3> QED
      BY <2>3, <3>1, <3>2, <3>3 DEF AnswersHoldLock, NeedsLock
  <2> QED
    BY <1>2, <2>1, <2>2, <2>3, StepShape
<1>3. CASE UNCHANGED <<me, lock>>
  BY <1>3 DEF AnswersHoldLock, NeedsLock
<1>4. CASE People
  BY <1>3, <1>4 DEF People, MoveByHand, Reassign, MergeRequestChanges, Switch, Consent, Edit
<1> QED
  BY <1>1, <1>2, <1>3, <1>4 DEF Next, vars

-----------------------------------------------------------------------------
\* What a call under the lock finds out before it goes on.
LEMMA CheckShape ==
  ASSUME TypeOK, NEW w \in Workers, Steps(w), me[w].pc \in {"check", "expire"}, ~Stop(w)
  PROVE  \/ me[w].pc = "check" /\ me[w].call # "expire" /\ Waits(w) /\ audit' = audit
         \/ /\ me[w].pc = "check" /\ me[w].call = "expire"
            /\ me'[w].todo = Pending /\ audit' = audit
         \/ \E r : audit' = Append(audit, r) /\ Expires(w, r)
<1>1. Check(w) \/ CheckPending(w) \/ ExpireOne(w)
  BY DEF Steps, At, Find, Lock, LockTimeout, ExpireDone, ReadFails, LeaveAlone, NotTheirs,
         AlreadyThere, ReadOn, MergeRequests, Moved, MoveFails, MovedUnheard, RecordApplied,
         UndoCheck, Undo, UndoRecord, Crash
<1>2. CASE Check(w)
  BY <1>2 DEF Check, At
<1>3. CASE CheckPending(w)
  <2>1. me'[w] = [me[w] EXCEPT !.pc = "expire", !.todo = Pending] /\ me[w] \in Held
    BY <1>3 DEF CheckPending, TypeOK
  <2> QED
    BY <1>3, <2>1 DEF CheckPending, At, Held
<1>4. CASE ExpireOne(w)
  BY <1>4, WriteShape DEF ExpireOne, At, EndsWith, Crash, CheckPending
<1> QED
  BY <1>1, <1>2, <1>3, <1>4

\* The answers by row.
Settles(r) == r.by \in {"answer", "expire", "suggest"} /\ r.status \in Terminal

LEMMA SettledShape ==
  ASSUME TypeOK, NEW r, audit' = Append(audit, r), NEW corr, NEW t
  PROVE  /\ DOMAIN audit' = DOMAIN audit \cup {Len(audit) + 1}
         /\ audit'[Len(audit) + 1] = r /\ \A i \in DOMAIN audit : audit'[i] = audit[i]
         /\ (r.corr = corr /\ r.target = t /\ Settles(r))
               => Settled(corr, t)' = Settled(corr, t) \cup {Len(audit) + 1}
         /\ ~(r.corr = corr /\ r.target = t /\ Settles(r))
               => Settled(corr, t)' = Settled(corr, t)
<1>1. Len(audit) \in Nat /\ DOMAIN audit = 1..Len(audit)
  BY DEF TypeOK
<1>2. /\ DOMAIN audit' = DOMAIN audit \cup {Len(audit) + 1}
      /\ audit'[Len(audit) + 1] = r /\ \A i \in DOMAIN audit : audit'[i] = audit[i]
      /\ Len(audit) + 1 \notin DOMAIN audit
  BY <1>1 DEF TypeOK
<1> QED
  BY <1>2 DEF Settled, Rows, Settles

\* Whom a row by an answer, a suggestion or an expiry may still come from.
WillSettle(w, corr, t) ==
    \/ /\ me[w].pc \in {"read", "merge_requests", "move", "record"}
       /\ me[w].call \in {"answer", "suggest"}
       /\ corr = me[w].corr /\ t = me[w].target
    \/ me[w].pc = "expire" /\ corr = "checkin" /\ t \in me[w].todo
NothingYet == \A w \in Workers, corr \in Correlations, t \in States :
                 WillSettle(w, corr, t) => Settled(corr, t) = {}
OnePerKey == \A corr \in Correlations, t \in States : \A i, j \in Settled(corr, t) : i = j

\* An answer is a check-in's; a suggestion's rows that end it are a yes or a no.
RowIsOrderly(r) == /\ r.by \in {"answer", "expire"} => r.corr = "checkin"
                   /\ (r.by = "suggest" /\ r.status \in Terminal)
                        => r.status \in {"applied", "declined"}
RowsAreOrderly == \A i \in DOMAIN audit : RowIsOrderly(audit[i])

LockInv == TypeOK /\ CallsAreOrderly /\ AnswersHoldLock
SettledInv == RowsAreOrderly /\ NothingYet /\ OnePerKey

LEMMA WaitsMeansOpen ==
  ASSUME LockInv, RowsAreOrderly, NEW w \in Workers, Waits(w), me[w].call \in {"answer", "suggest"}
  PROVE  Settled(me[w].corr, me[w].target) = {}
<1>1. CASE me[w].call = "answer"
  BY <1>1 DEF LockInv, CallsAreOrderly, Waits, Pending, Settled
<1>2. CASE me[w].call = "suggest"
  <2>1. \A i \in Rows("suggestion") : /\ audit[i].status \notin {"applied", "declined"}
                                     /\ i \in DOMAIN audit
    BY <1>2 DEF Waits, Rows
  <2> QED
    BY <1>2, <2>1 DEF LockInv, CallsAreOrderly, Settled, RowsAreOrderly, RowIsOrderly, Rows
<1> QED
  BY <1>1, <1>2

\* A row that settles comes from a call that holds the lock and finds nothing settled.
LEMMA SettlingIsFirst ==
  ASSUME LockInv, SettledInv, NEW w \in Workers, Steps(w), NEW r,
         audit' = Append(audit, r), EndsWith(w, r) \/ Expires(w, r)
  PROVE  /\ RowIsOrderly(r)
         /\ Settles(r) => /\ NeedsLock(w) /\ r.corr = me[w].corr
                          /\ Settled(r.corr, r.target) = {}
                          /\ ~WillSettle(w, r.corr, r.target)'
<1> USE DEF LockInv, CallsAreOrderly
<1>0. me[w] \in Held /\ me[w].corr \in Correlations /\ me[w].target \in States
      /\ me[w].todo \subseteq Targets
  BY DEF TypeOK, Held
<1>1. CASE Expires(w, r)
  <2>1. Settled("checkin", r.target) = {}
    <3>1. WillSettle(w, "checkin", r.target)
      BY <1>1 DEF Expires, WillSettle
    <3>2. "checkin" \in Correlations /\ r.target \in States
      BY <1>0, <1>1, StatesType DEF Correlations, Expires
    <3> QED
      BY <3>1, <3>2 DEF SettledInv, NothingYet
  <2> QED
    BY <1>1, <2>1 DEF Expires, RowIsOrderly, NeedsLock, WillSettle
<1>2. CASE EndsWith(w, r)
  <2>1. RowIsOrderly(r)
    BY <1>2 DEF EndsWith, RowIsOrderly, Terminal
  <2>2. me'[w].pc = "idle"
    BY <1>2, StopShape, RestType DEF EndsWith
  <2>3. ASSUME Settles(r) PROVE NeedsLock(w) /\ Settled(me[w].corr, me[w].target) = {}
    <3>1. r.by = me[w].call /\ me[w].call \in {"answer", "expire", "suggest"}
      BY <1>2, <2>3 DEF EndsWith, Settles
    <3>2. CASE me[w].pc = "check"
      BY <1>2, <3>1, <3>2, WaitsMeansOpen DEF EndsWith, SettledInv, NeedsLock
    <3>3. CASE me[w].pc \in {"read", "merge_requests", "move", "record"}
      <4>1. me[w].call \in {"answer", "suggest"}
        BY <3>1, <3>3
      <4>2. WillSettle(w, me[w].corr, me[w].target)
        BY <3>3, <4>1 DEF WillSettle
      <4> QED
        BY <1>0, <3>3, <4>1, <4>2 DEF SettledInv, NothingYet, NeedsLock
    <3>4. me[w].pc \in {"check", "read", "merge_requests", "move", "record"}
      BY <1>2, <3>1 DEF EndsWith
    <3> QED
      BY <3>2, <3>3, <3>4
  <2> QED
    BY <1>2, <2>1, <2>2, <2>3 DEF EndsWith, WillSettle
<1> QED
  BY <1>1, <1>2

LEMMA SettledNext == ASSUME LockInv, SettledInv, [Next]_vars PROVE SettledInv'
<1>0. TypeOK /\ (\A v \in Workers : /\ me[v] \in Held /\ me[v].corr \in Correlations
                                   /\ me[v].target \in States)
  BY DEF LockInv, TypeOK, Held
<1>1. CASE UNCHANGED <<me, audit>>
  BY <1>1 DEF SettledInv, RowsAreOrderly, NothingYet, WillSettle, OnePerKey, Settled, Rows
<1>2. CASE People
  BY <1>1, <1>2 DEF People, MoveByHand, Reassign, MergeRequestChanges, Switch, Consent, Edit
<1>3. ASSUME UNCHANGED audit, NothingYet' PROVE SettledInv'
  BY <1>3 DEF SettledInv, RowsAreOrderly, OnePerKey, Settled, Rows
<1>4. ASSUME NEW w \in Workers, Starts(w) PROVE SettledInv'
  <2>1. /\ \A v \in Workers \ {w} : me'[v] = me[v]
        /\ audit' = audit
        /\ me'[w].pc \in {"find", "lock", "read", "undo_check"}
        /\ me'[w].pc = "read" => me'[w].call = "console"
    BY <1>0, <1>4, StartShape
  <2>2. NothingYet'
    BY <2>1 DEF SettledInv, NothingYet, WillSettle, Settled, Rows
  <2> QED
    BY <1>3, <2>1, <2>2
<1>5. ASSUME NEW w \in Workers, Steps(w), audit' = audit PROVE SettledInv'
  <2>1. \A v \in Workers \ {w} : me'[v] = me[v]
    BY <1>0, <1>5, StepShape
  <2>2. \A corr \in Correlations, t \in States :
           WillSettle(w, corr, t)' => Settled(corr, t) = {}
    <3>1. CASE Stop(w)
      BY <1>0, <3>1, StopShape, RestType DEF WillSettle
    <3>2. CASE ~Stop(w) /\ me[w].pc \in {"check", "expire"}
      <4>1. GoesOn(w)
        BY <1>0, <1>5, <3>2, StepShape
      <4>2. \A r : audit' # Append(audit, r)
        BY <1>0, <1>5 DEF TypeOK
      <4>3. CASE me[w].pc = "check" /\ me[w].call # "expire" /\ Waits(w)
        <5>1. me[w].call \in {"answer", "suggest"}
          BY <4>3 DEF LockInv, CallsAreOrderly
        <5>2. Settled(me[w].corr, me[w].target) = {}
          BY <4>3, <5>1, WaitsMeansOpen DEF SettledInv
        <5> QED
          BY <4>1, <4>3, <5>2 DEF GoesOn, WillSettle
      <4>4. CASE me[w].pc = "check" /\ me[w].call = "expire" /\ me'[w].todo = Pending
        <5>1. \A t \in Pending : Settled("checkin", t) = {}
          BY DEF Pending, Settled
        <5> QED
          BY <4>1, <4>4, <5>1 DEF GoesOn, WillSettle
      <4> QED
        BY <1>0, <1>5, <3>2, <4>2, <4>3, <4>4, CheckShape
    <3>3. CASE ~Stop(w) /\ me[w].pc \notin {"check", "expire"}
      <4>1. GoesOn(w)
        BY <1>0, <1>5, <3>3, StepShape
      <4>2. \A corr, t : WillSettle(w, corr, t)' => WillSettle(w, corr, t)
        BY <3>3, <4>1 DEF GoesOn, Onwards, WillSettle, LockInv, CallsAreOrderly
      <4> QED
        BY <4>2 DEF SettledInv, NothingYet
    <3> QED
      BY <3>1, <3>2, <3>3
  <2>3. NothingYet'
    BY <1>5, <2>1, <2>2 DEF SettledInv, NothingYet, WillSettle, Settled, Rows
  <2> QED
    BY <1>3, <1>5, <2>3
<1>6. ASSUME NEW w \in Workers, Steps(w), NEW r, audit' = Append(audit, r),
             EndsWith(w, r) \/ Expires(w, r)
      PROVE  SettledInv'
  <2>1. /\ RowIsOrderly(r)
        /\ Settles(r) => /\ NeedsLock(w) /\ r.corr = me[w].corr
                         /\ Settled(r.corr, r.target) = {}
                         /\ ~WillSettle(w, r.corr, r.target)'
    BY <1>6, SettlingIsFirst
  <2>2. /\ DOMAIN audit' = DOMAIN audit \cup {Len(audit) + 1}
        /\ audit'[Len(audit) + 1] = r /\ \A i \in DOMAIN audit : audit'[i] = audit[i]
    BY <1>0, <1>6, SettledShape
  <2>3. RowsAreOrderly'
    BY <2>1, <2>2 DEF SettledInv, RowsAreOrderly
  <2>4. \A corr, t :
           /\ (r.corr = corr /\ r.target = t /\ Settles(r))
                  => Settled(corr, t)' = Settled(corr, t) \cup {Len(audit) + 1}
           /\ ~(r.corr = corr /\ r.target = t /\ Settles(r))
                  => Settled(corr, t)' = Settled(corr, t)
    BY <1>0, <1>6, SettledShape
  <2>5. OnePerKey'
    BY <2>1, <2>4 DEF SettledInv, OnePerKey
  <2>6. \A v \in Workers \ {w} : me'[v] = me[v]
    BY <1>0, <1>6, StepShape
  <2>7. \A corr, t : WillSettle(w, corr, t)' => WillSettle(w, corr, t)
    <3>1. CASE EndsWith(w, r)
      BY <1>0, <3>1, StopShape, RestType DEF EndsWith, WillSettle
    <3>2. CASE Expires(w, r)
      BY <3>2 DEF Expires, WillSettle
    <3> QED
      BY <1>6, <3>1, <3>2
  <2>8. ASSUME NEW v \in Workers, NEW corr \in Correlations, NEW t \in States,
               WillSettle(v, corr, t)'
        PROVE  Settled(corr, t)' = {}
    <3>1. WillSettle(v, corr, t)
      BY <2>6, <2>7, <2>8 DEF WillSettle
    <3>2. Settled(corr, t) = {}
      BY <3>1 DEF SettledInv, NothingYet
    <3>3. ASSUME r.corr = corr, r.target = t, Settles(r) PROVE FALSE
      <4>1. v # w
        BY <2>1, <2>8, <3>3
      <4>2. NeedsLock(v) /\ me[v].corr = corr
        BY <3>1 DEF WillSettle, NeedsLock, LockInv, CallsAreOrderly
      <4> QED
        BY <2>1, <3>3, <4>1, <4>2 DEF LockInv, AnswersHoldLock
    <3> QED
      BY <2>4, <3>2, <3>3
  <2> QED
    BY <2>3, <2>5, <2>8 DEF SettledInv, NothingYet
<1>7. ASSUME NEW w \in Workers, Steps(w) PROVE SettledInv'
  BY <1>0, <1>5, <1>6, <1>7, WriteShape, CrashKeepsAudit
<1> QED
  BY <1>1, <1>2, <1>4, <1>7 DEF Next, vars

LEMMA LockCorrect == Spec => []LockInv
<1>1. Init => CallsAreOrderly /\ AnswersHoldLock
  BY OrderlyInit
<1>2. TypeOK /\ CallsAreOrderly /\ [Next]_vars => CallsAreOrderly'
  BY OrderlyNext
<1>3. TypeOK /\ CallsAreOrderly /\ AnswersHoldLock /\ [Next]_vars => AnswersHoldLock'
  BY HoldLockNext
<1> QED
  BY <1>1, <1>2, <1>3, TypeCorrect, PTL DEF Spec, LockInv

LEMMA SettledCorrect == Spec => []SettledInv
<1>1. Init => SettledInv
  BY DEF Init, Rest, SettledInv, RowsAreOrderly, NothingYet, WillSettle, OnePerKey, Settled, Rows
<1>2. LockInv /\ SettledInv /\ [Next]_vars => SettledInv'
  BY SettledNext
<1> QED
  BY <1>1, <1>2, LockCorrect, PTL DEF Spec

\* A proposal of the check-in, and a day's suggestion, gets one row that settles
\* it: the yes in the chat, the no in the console and the close of the check-in
\* are ordered by the correlation's lock, and each finds the row of the first.
THEOREM AnsweredOnceCorrect == Spec => []AnsweredOnce
<1>1. SettledInv => AnsweredOnce
  BY StatesType DEF SettledInv, OnePerKey, AnsweredOnce, Correlations
<1> QED
  BY <1>1, SettledCorrect, PTL

-----------------------------------------------------------------------------
\* A yes that has no applied row yet, and none on its way, has moved the issue
\* only for moves that no row remembers.
AppliedYes(t) == \E i \in DOMAIN audit : /\ audit[i].by = "answer"
                                         /\ audit[i].status = "applied"
                                         /\ audit[i].target = t
MovedYes(w, t) == me[w].pc = "record" /\ me[w].call = "answer" /\ me[w].target = t
YesNotYet == \A t \in Targets :
               ~(AppliedYes(t) \/ \E w \in Workers : MovedYes(w, t)) => yesMoves[t] <= lost
YesInv == YesNotYet /\ AnswerMovesOnce

LEMMA AuditGrows ==
  ASSUME TypeOK, NEW w \in Workers, Steps(w)
  PROVE  /\ DOMAIN audit \subseteq DOMAIN audit'
         /\ \A i \in DOMAIN audit : audit'[i] = audit[i]
  BY WriteShape, SettledShape, CrashKeepsAudit

\* The place a call stands at tells the step it can take.
LEMMA RecordSteps ==
  ASSUME NEW w \in Workers, Steps(w)
  PROVE  /\ me[w].pc = "record" => RecordApplied(w) \/ Crash(w)
         /\ me[w].pc = "undo_record" => UndoRecord(w) \/ Crash(w)
         /\ me[w].pc \notin {"record", "undo_record"}
              => ~RecordApplied(w) /\ ~UndoRecord(w)
  BY DEF Steps, At, Find, Lock, LockTimeout, Check, CheckPending, ExpireOne, ExpireDone,
         ReadFails, LeaveAlone, NotTheirs, AlreadyThere, ReadOn, MergeRequests, Moved,
         MoveFails, MovedUnheard, RecordApplied, UndoCheck, Undo, UndoRecord

\* Only a transition counts as a move; only a lost answer or a crash after it hides one.
LEMMA CountShape ==
  ASSUME TypeOK, NEW w \in Workers, Steps(w)
  PROVE  \/ Moved(w) \/ Undo(w) \/ MovedUnheard(w)
         \/ /\ UNCHANGED <<moves, yesMoves, undone, twice>>
            /\ \/ lost' = lost /\ ~(Crash(w) /\ me[w].pc \in {"record", "undo_record"})
               \/ /\ Crash(w) /\ me[w].pc \in {"record", "undo_record"} /\ lost' = lost + 1
  BY DEF Steps, Find, Lock, LockTimeout, Check, CheckPending, ExpireOne, ExpireDone,
         ReadFails, LeaveAlone, NotTheirs, AlreadyThere, ReadOn, MergeRequests,
         MoveFails, RecordApplied, UndoCheck, UndoRecord, Crash, past

LEMMA YesNext == ASSUME LockInv, SettledInv, YesInv, [Next]_vars PROVE YesInv'
<1>0. /\ TypeOK /\ lost \in Nat /\ yesMoves \in [Targets -> Nat]
      /\ \A t \in Targets : yesMoves[t] \in Nat /\ yesMoves[t] <= 1 + lost
  BY DEF LockInv, TypeOK, YesInv, AnswerMovesOnce
<1>1. CASE UNCHANGED <<me, audit, past>>
  BY <1>1 DEF YesInv, YesNotYet, AnswerMovesOnce, AppliedYes, MovedYes, past
<1>2. CASE People
  BY <1>1, <1>2 DEF People, MoveByHand, Reassign, MergeRequestChanges, Switch, Consent, Edit
<1>3. ASSUME NEW w \in Workers, Starts(w) PROVE YesInv'
  <2>1. /\ me[w].pc = "idle" /\ \A v \in Workers \ {w} : me'[v] = me[v]
        /\ UNCHANGED <<audit, past>>
    BY <1>0, <1>3, StartShape
  <2>2. \A t \in Targets, v \in Workers : MovedYes(v, t) => MovedYes(v, t)'
    BY <2>1 DEF MovedYes
  <2> QED
    BY <2>1, <2>2 DEF YesInv, YesNotYet, AnswerMovesOnce, AppliedYes, past
<1>4. ASSUME NEW w \in Workers, Steps(w) PROVE YesInv'
  <2>1. \A v \in Workers \ {w} : me'[v] = me[v]
    BY <1>0, <1>4, StepShape
  <2>2. \A t \in Targets : AppliedYes(t) => AppliedYes(t)'
    BY <1>0, <1>4, AuditGrows DEF AppliedYes
  <2>3. \A t \in Targets, v \in Workers \ {w} : MovedYes(v, t) => MovedYes(v, t)'
    BY <2>1 DEF MovedYes
  <2>4. CASE (Moved(w) \/ MovedUnheard(w)) /\ me[w].call = "answer"
    <3> DEFINE t0 == me[w].target
    <3>1. me[w].pc = "move" /\ me[w].corr = "checkin"
      BY <2>4 DEF Moved, MovedUnheard, At, LockInv, CallsAreOrderly
    <3>2. Settled("checkin", t0) = {}
      <4>1. WillSettle(w, "checkin", t0) /\ t0 \in States
        BY <1>0, <2>4, <3>1 DEF WillSettle, TypeOK, Held
      <4> QED
        BY <4>1 DEF SettledInv, NothingYet, Correlations
    <3>3. ~AppliedYes(t0)
      BY <3>2 DEF AppliedYes, Settled, Rows, SettledInv, RowsAreOrderly, RowIsOrderly, Terminal
    <3>4. \A v \in Workers : ~MovedYes(v, t0)
      <4>1. NeedsLock(w)
        BY <2>4, <3>1 DEF NeedsLock
      <4>2. ASSUME NEW v \in Workers, MovedYes(v, t0) PROVE FALSE
        <5>1. NeedsLock(v) /\ me[v].corr = "checkin" /\ v # w
          BY <3>1, <4>2 DEF MovedYes, NeedsLock, LockInv, CallsAreOrderly
        <5> QED
          BY <3>1, <4>1, <5>1 DEF LockInv, AnswersHoldLock
      <4> QED
        BY <4>2
    <3>5. t0 \in Targets => yesMoves[t0] <= lost
      BY <3>3, <3>4 DEF YesInv, YesNotYet
    <3>6. /\ t0 \in Targets => yesMoves'[t0] = yesMoves[t0] + 1
          /\ \A t \in Targets \ {t0} : yesMoves'[t] = yesMoves[t]
      <4>1. yesMoves' = [yesMoves EXCEPT ![t0] = @ + 1]
        BY <2>4 DEF Moved, MovedUnheard, Transit
      <4> QED
        BY <1>0, <4>1
    <3>7. CASE Moved(w)
      <4>1. lost' = lost
        BY <3>7 DEF Moved
      <4>2. \A t \in Targets : t = t0 => MovedYes(w, t)'
        <5>1. To(w, "record")
          BY <3>7 DEF Moved
        <5> QED
          BY <1>0, <2>4, <5>1, ToShape DEF MovedYes
      <4>3. AnswerMovesOnce'
        BY <1>0, <3>5, <3>6, <4>1 DEF AnswerMovesOnce
      <4>4. \A t \in Targets \ {t0} : ~MovedYes(w, t)
        BY <3>1 DEF MovedYes
      <4>5. YesNotYet'
        <5>1. ASSUME NEW t \in Targets, ~AppliedYes(t)', \A v \in Workers : ~MovedYes(v, t)'
              PROVE  yesMoves'[t] <= lost'
          <6>1. t # t0
            BY <4>2, <5>1
          <6>2. ~AppliedYes(t)
            BY <2>2, <5>1
          <6>3. \A v \in Workers : ~MovedYes(v, t)
            BY <2>3, <4>4, <5>1, <6>1
          <6>4. yesMoves[t] <= lost
            BY <6>2, <6>3 DEF YesInv, YesNotYet
          <6> QED
            BY <3>6, <4>1, <6>1, <6>4
        <5> QED
          BY <5>1 DEF YesNotYet
      <4> QED
        BY <4>3, <4>5 DEF YesInv
    <3>8. CASE MovedUnheard(w)
      <4>1. lost' = lost + 1
        BY <3>8 DEF MovedUnheard
      <4>2. \A t \in Targets : yesMoves'[t] \in Nat /\ yesMoves'[t] <= lost'
        BY <1>0, <3>5, <3>6, <4>1
      <4> QED
        BY <1>0, <4>1, <4>2 DEF YesInv, YesNotYet, AnswerMovesOnce
    <3> QED
      BY <2>4, <3>7, <3>8
  <2>5. CASE ~((Moved(w) \/ MovedUnheard(w)) /\ me[w].call = "answer")
    <3>1. yesMoves' = yesMoves
      <4>1. CASE Undo(w)
        BY <4>1 DEF Undo, At, Transit, LockInv, CallsAreOrderly
      <4>2. CASE Moved(w) \/ MovedUnheard(w)
        BY <2>5, <4>2 DEF Moved, MovedUnheard, Transit
      <4> QED
        BY <1>0, <1>4, <4>1, <4>2, CountShape
    <3>2. lost' \in {lost, lost + 1}
      BY <1>0, <1>4, CountShape DEF Moved, Undo, MovedUnheard
    <3>3. CASE lost' = lost + 1
      BY <1>0, <3>1, <3>3 DEF YesInv, YesNotYet, AnswerMovesOnce
    <3>4. CASE lost' = lost
      <4>1. \A t \in Targets : MovedYes(w, t) => AppliedYes(t)'
        <5>1. ASSUME NEW t \in Targets, MovedYes(w, t) PROVE AppliedYes(t)'
          <6>1. me[w].pc = "record" /\ RecordApplied(w)
            BY <1>0, <1>4, <3>4, <5>1, RecordSteps, CountShape
               DEF MovedYes, Moved, Undo, MovedUnheard, At
          <6>2. PICK r : /\ audit' = Append(audit, r) /\ r.status = "applied"
                         /\ r.target = t /\ r.by = "answer"
            BY <1>0, <5>1, <6>1, RecordShape DEF RecordApplied, MovedYes
          <6> QED
            BY <1>0, <6>2, SettledShape DEF AppliedYes
        <5> QED
          BY <5>1
      <4>2. YesNotYet'
        BY <2>2, <2>3, <3>1, <3>4, <4>1 DEF YesInv, YesNotYet
      <4> QED
        BY <3>1, <3>4, <4>2 DEF YesInv, AnswerMovesOnce
    <3> QED
      BY <3>2, <3>3, <3>4
  <2> QED
    BY <2>4, <2>5
<1> QED
  BY <1>1, <1>2, <1>3, <1>4 DEF Next, vars

\* However many workers answer a proposal yes, its issue moves once for it, and
\* once more only for each move whose row a crash or a lost answer took.
THEOREM AnswerMovesOnceCorrect == Spec => []AnswerMovesOnce
<1>1. Init => YesInv
  BY DEF Init, YesInv, YesNotYet, AnswerMovesOnce
<1>2. LockInv /\ SettledInv /\ YesInv /\ [Next]_vars => YesInv'
  BY YesNext
<1>3. YesInv => AnswerMovesOnce
  BY DEF YesInv
<1> QED
  BY <1>1, <1>2, <1>3, LockCorrect, SettledCorrect, PTL DEF Spec

-----------------------------------------------------------------------------
InUndo(w) == me[w].pc \in {"undo", "undo_record"}

\* A revert goes back to the state before its row, in the row's correlation.
RevertsKnowTheirRow ==
    \A w \in Workers : me[w].pc \in {"undo_check", "undo", "undo_record"} =>
                        /\ me[w].row \in DOMAIN audit
                        /\ me[w].target = audit[me[w].row].before
                        /\ me[w].corr = audit[me[w].row].corr

\* While reverts neither overlap nor lose their row, one that may still write
\* finds its row not undone, and a row undone has its reverted row or gets it.
Undone(i) == \/ Reverted(i)
             \/ \E v \in Workers : me[v].pc = "undo_record" /\ me[v].row = i
InTurn == /\ twice = {}
          /\ \A i \in undone : i \in DOMAIN audit /\ Undone(i)
          /\ \A v \in Workers : me[v].pc = "undo" => me[v].row \notin undone
          /\ \A u, v \in Workers : (InUndo(u) /\ InUndo(v) /\ u # v) => me[u].row # me[v].row
RevertInv == RevertsKnowTheirRow /\ (~doubled /\ lost = 0 => InTurn)

LEMMA UndoSteps ==
  ASSUME TypeOK, NEW w \in Workers, Steps(w)
  PROVE  /\ UndoCheck(w) \/ doubled' = doubled
         /\ me[w].pc = "undo_check" => UndoCheck(w) \/ Crash(w)
         /\ me[w].pc = "undo" => Undo(w) \/ Stop(w)
         /\ me[w].pc # "undo" => ~Undo(w)
  BY DEF Steps, At, Find, Lock, LockTimeout, Check, CheckPending, ExpireOne, ExpireDone,
         ReadFails, LeaveAlone, NotTheirs, AlreadyThere, ReadOn, MergeRequests, Moved,
         MoveFails, MovedUnheard, RecordApplied, UndoCheck, Undo, UndoRecord, Crash, Transit, past

LEMMA RevertedStays ==
  ASSUME TypeOK, NEW i \in DOMAIN audit, Reverted(i),
         DOMAIN audit \subseteq DOMAIN audit', \A j \in DOMAIN audit : audit'[j] = audit[j]
  PROVE  Reverted(i)'
  BY DEF Reverted, Rows

LEMMA RowsKnownNext ==
  ASSUME LockInv, RevertsKnowTheirRow, NEW w \in Workers, Steps(w)
  PROVE  RevertsKnowTheirRow'
<1>0. TypeOK
  BY DEF LockInv
<1>1. /\ \A v \in Workers \ {w} : me'[v] = me[v]
      /\ Stop(w) \/ GoesOn(w)
      /\ DOMAIN audit \subseteq DOMAIN audit' /\ \A j \in DOMAIN audit : audit'[j] = audit[j]
  BY <1>0, StepShape, AuditGrows
<1>2. CASE Stop(w)
  BY <1>0, <1>1, <1>2, StopShape, RestType DEF RevertsKnowTheirRow
<1>3. CASE GoesOn(w)
  <2>1. me'[w].pc \in {"undo_check", "undo", "undo_record"} => me[w].pc \in {"undo_check", "undo"}
    BY <1>3 DEF GoesOn, Onwards
  <2> QED
    BY <1>1, <1>3, <2>1 DEF RevertsKnowTheirRow, GoesOn
<1> QED
  BY <1>1, <1>2, <1>3

LEMMA InTurnNext ==
  ASSUME LockInv, RevertsKnowTheirRow, InTurn, ~doubled, lost = 0,
         NEW w \in Workers, Steps(w), ~doubled', lost' = 0
  PROVE  InTurn'
<1>0. TypeOK
  BY DEF LockInv
<1>1. /\ \A v \in Workers \ {w} : me'[v] = me[v]
      /\ DOMAIN audit \subseteq DOMAIN audit' /\ \A j \in DOMAIN audit : audit'[j] = audit[j]
  BY <1>0, StepShape, AuditGrows
<1>2. \A i \in DOMAIN audit : Reverted(i) => Reverted(i)'
  BY <1>0, <1>1, RevertedStays
<1>3. ~MovedUnheard(w) /\ ~(Crash(w) /\ me[w].pc \in {"record", "undo_record"})
  BY <1>0 DEF MovedUnheard, Crash
<1>4. CASE Undo(w)
  <2>1. me[w].pc = "undo" /\ me[w].call = "revert" /\ To(w, "undo_record") /\ Transit(w)
        /\ audit' = audit
    BY <1>4 DEF Undo, At, LockInv, CallsAreOrderly
  <2>2. me'[w].pc = "undo_record" /\ me'[w].row = me[w].row
    BY <1>0, <2>1, ToShape
  <2>3. /\ undone' = undone \cup {me[w].row}
        /\ twice' = twice \cup (undone \cap {me[w].row})
        /\ me[w].row \notin undone /\ me[w].row \in DOMAIN audit
    BY <2>1 DEF Transit, InTurn, RevertsKnowTheirRow
  <2>4. \A i \in DOMAIN audit : Undone(i) => Undone(i)'
    BY <1>1, <1>2, <2>1 DEF Undone
  <2>6. \A i \in undone' : i \in DOMAIN audit' /\ Undone(i)'
    <3>1. \A i : i = me[w].row => Undone(i)'
      BY <2>2 DEF Undone
    <3> QED
      BY <1>1, <2>3, <2>4, <3>1 DEF InTurn
  <2>7. \A v \in Workers : me'[v].pc = "undo" => me'[v].row \notin undone'
    BY <1>1, <2>1, <2>2, <2>3 DEF InTurn, InUndo
  <2>8. \A u, v \in Workers : (InUndo(u)' /\ InUndo(v)' /\ u # v) => me'[u].row # me'[v].row
    BY <1>1, <2>1, <2>2 DEF InTurn, InUndo
  <2> QED
    BY <2>3, <2>6, <2>7, <2>8 DEF InTurn
<1>5. CASE ~Undo(w)
  <2>1. undone' = undone /\ twice' = twice
    <3>1. CASE Moved(w)
      <4>1. me[w].call # "revert" /\ Transit(w)
        BY <3>1 DEF Moved, At, LockInv, CallsAreOrderly
      <4> QED
        BY <4>1 DEF Transit
    <3> QED
      BY <1>0, <1>3, <1>5, <3>1, CountShape
  <2>2. \A i \in undone : i \in DOMAIN audit' /\ Undone(i)'
    <3>1. ASSUME NEW i \in DOMAIN audit, me[w].pc = "undo_record", i = me[w].row
          PROVE  Reverted(i)'
      <4>1. Record(w, "reverted", me[w].before)
        BY <1>3, <3>1, RecordSteps DEF UndoRecord
      <4>2. PICK r : /\ audit' = Append(audit, r) /\ r.status = "reverted"
                     /\ r.corr = me[w].corr /\ r.target = me[w].target
        BY <1>0, <4>1, RecordShape
      <4>3. Len(audit) + 1 \in DOMAIN audit' /\ audit'[Len(audit) + 1] = r
        BY <1>0, <4>2, SettledShape
      <4>4. r.target = audit'[i].before /\ r.corr = audit'[i].corr
        BY <1>1, <3>1, <4>2 DEF RevertsKnowTheirRow
      <4> QED
        BY <4>2, <4>3, <4>4 DEF Reverted, Rows
    <3> QED
      BY <1>1, <1>2, <3>1 DEF InTurn, Undone
  <2>3. InUndo(w)' => /\ UndoCheck(w) /\ To(w, "undo") /\ ~Reverted(me[w].row)
                      /\ \A v \in Workers \ {w} : ~Undoing(v, me[w].row)
    <3>1. CASE Stop(w)
      BY <1>0, <3>1, StopShape, RestType DEF InUndo
    <3>2. CASE GoesOn(w) /\ ~Stop(w) /\ InUndo(w)'
      <4>1. me[w].pc \in {"undo_check", "undo"}
        BY <3>2 DEF GoesOn, Onwards, InUndo
      <4>2. UndoCheck(w)
        BY <1>0, <1>5, <3>2, <4>1, UndoSteps, CrashKeepsAudit
      <4> QED
        BY <3>2, <4>2 DEF UndoCheck
    <3> QED
      BY <1>0, <3>1, <3>2, StepShape
  <2>4. CASE ~InUndo(w)'
    BY <1>1, <2>1, <2>2, <2>4 DEF InTurn, InUndo
  <2>5. CASE InUndo(w)'
    <3>1. /\ me'[w].pc = "undo" /\ me'[w].row = me[w].row /\ ~Reverted(me[w].row)
          /\ me[w].pc = "undo_check"
          /\ \A v \in Workers \ {w} : ~Undoing(v, me[w].row)
      BY <1>0, <2>3, <2>5, ToShape DEF UndoCheck, At
    <3>2. \A v \in Workers \ {w} : InUndo(v) => me[v].row # me[w].row
      BY <3>1 DEF InUndo, Undoing, LockInv, CallsAreOrderly
    <3>3. me[w].row \notin undone
      BY <3>1, <3>2 DEF InTurn, Undone, InUndo
    <3>4. \A v \in Workers : me'[v].pc = "undo" => me'[v].row \notin undone'
      BY <1>1, <2>1, <3>1, <3>3 DEF InTurn
    <3>5. \A u, v \in Workers : (InUndo(u)' /\ InUndo(v)' /\ u # v) => me'[u].row # me'[v].row
      BY <1>1, <3>1, <3>2 DEF InTurn, InUndo
    <3> QED
      BY <2>1, <2>2, <3>4, <3>5 DEF InTurn
  <2> QED
    BY <2>4, <2>5
<1> QED
  BY <1>4, <1>5

LEMMA RevertNext == ASSUME LockInv, RevertInv, [Next]_vars PROVE RevertInv'
<1>0. TypeOK
  BY DEF LockInv
<1>1. CASE UNCHANGED <<me, audit, past>>
  BY <1>1 DEF RevertInv, RevertsKnowTheirRow, InTurn, Undone, Reverted, Rows, InUndo, past
<1>2. CASE People
  BY <1>1, <1>2 DEF People, MoveByHand, Reassign, MergeRequestChanges, Switch, Consent, Edit
<1>3. ASSUME NEW w \in Workers, Starts(w) PROVE RevertInv'
  <2>1. /\ me[w].pc = "idle" /\ \A v \in Workers \ {w} : me'[v] = me[v]
        /\ UNCHANGED <<audit, past>>
        /\ me'[w].pc \notin {"undo", "undo_record"}
        /\ me'[w].pc = "undo_check" => /\ me'[w].row \in DOMAIN audit
                                       /\ me'[w].target = audit[me'[w].row].before
                                       /\ me'[w].corr = audit[me'[w].row].corr
    BY <1>0, <1>3, StartShape
  <2>2. RevertsKnowTheirRow'
    BY <2>1 DEF RevertInv, RevertsKnowTheirRow
  <2>3. \A i \in undone : Undone(i) => Undone(i)'
    BY <2>1 DEF Undone, Reverted, Rows
  <2> QED
    BY <2>1, <2>2, <2>3 DEF RevertInv, InTurn, InUndo, past
<1>4. ASSUME NEW w \in Workers, Steps(w) PROVE RevertInv'
  <2>1. RevertsKnowTheirRow'
    BY <1>4, RowsKnownNext DEF RevertInv
  <2>2. ASSUME ~doubled', lost' = 0 PROVE ~doubled /\ lost = 0
    <3>1. ~doubled
      BY <1>0, <1>4, <2>2, UndoSteps DEF UndoCheck, TypeOK
    <3>2. lost' \in {lost, lost + 1} /\ lost \in Nat
      BY <1>0, <1>4, CountShape DEF Moved, Undo, MovedUnheard, TypeOK
    <3> QED
      BY <2>2, <3>1, <3>2
  <2> QED
    BY <1>4, <2>1, <2>2, InTurnNext DEF RevertInv
<1> QED
  BY <1>1, <1>2, <1>3, <1>4 DEF Next, vars

\* A write is reverted once in the tracker: the second revert finds the row of
\* the first, or a check the two made side by side, or a row a crash took.
THEOREM RevertedOnceCorrect == Spec => []RevertedOnce
<1>1. Init => RevertInv
  BY DEF Init, Rest, RevertInv, RevertsKnowTheirRow, InTurn, InUndo
<1>2. LockInv /\ RevertInv /\ [Next]_vars => RevertInv'
  BY RevertNext
<1>3. TypeOK /\ RevertInv => RevertedOnce
  BY DEF TypeOK, RevertInv, InTurn, RevertedOnce
<1> QED
  BY <1>1, <1>2, <1>3, TypeCorrect, LockCorrect, PTL DEF Spec

-----------------------------------------------------------------------------
\* The rows that stand for a move, and the moves that have no row yet.
Audited == {i \in DOMAIN audit : audit[i].status \in {"applied", "reverted"}}
CountInv == IsFiniteSet(InFlight) /\ MovesAreAudited

LEMMA AuditedFinite == ASSUME TypeOK PROVE IsFiniteSet(Audited) /\ Cardinality(Audited) \in Nat
<1>1. IsFiniteSet(DOMAIN audit)
  <2>1. Len(audit) \in Nat /\ DOMAIN audit = 1..Len(audit)
    BY DEF TypeOK
  <2> QED
    BY <2>1, FS_Interval
<1> QED
  BY <1>1, FS_Subset, FS_CardinalityType DEF Audited

LEMMA AuditedShape ==
  ASSUME TypeOK, NEW r, audit' = Append(audit, r)
  PROVE  /\ r.status \in {"applied", "reverted"}
              => Cardinality(Audited') = Cardinality(Audited) + 1
         /\ r.status \notin {"applied", "reverted"} => Audited' = Audited
<1>1. /\ DOMAIN audit' = DOMAIN audit \cup {Len(audit) + 1}
      /\ audit'[Len(audit) + 1] = r /\ \A i \in DOMAIN audit : audit'[i] = audit[i]
  BY SettledShape
<1>2. Len(audit) + 1 \notin DOMAIN audit
  BY DEF TypeOK
<1>3. CASE r.status \in {"applied", "reverted"}
  <2>1. Audited' = Audited \cup {Len(audit) + 1} /\ Len(audit) + 1 \notin Audited
    BY <1>1, <1>2, <1>3 DEF Audited
  <2> QED
    BY <1>3, <2>1, AuditedFinite, FS_AddElement
<1>4. CASE r.status \notin {"applied", "reverted"}
  BY <1>1, <1>4 DEF Audited
<1> QED
  BY <1>3, <1>4

LEMMA CountNext == ASSUME LockInv, CountInv, [Next]_vars PROVE CountInv'
<1>0. /\ TypeOK /\ moves \in Nat /\ lost \in Nat /\ IsFiniteSet(InFlight)
      /\ Cardinality(Audited) \in Nat /\ Cardinality(InFlight) \in Nat
      /\ moves = Cardinality(Audited) + Cardinality(InFlight) + lost
  BY AuditedFinite, FS_CardinalityType DEF LockInv, TypeOK, CountInv, MovesAreAudited, Audited
<1>1. ASSUME IsFiniteSet(InFlight)',
             moves' = Cardinality(Audited') + Cardinality(InFlight') + lost'
      PROVE  CountInv'
  BY <1>1 DEF CountInv, MovesAreAudited, Audited
<1>2. CASE UNCHANGED <<me, audit, past>>
  BY <1>0, <1>1, <1>2 DEF InFlight, Audited, past
<1>3. CASE People
  BY <1>2, <1>3 DEF People, MoveByHand, Reassign, MergeRequestChanges, Switch, Consent, Edit
<1>4. ASSUME NEW w \in Workers, Starts(w) PROVE CountInv'
  <2>1. /\ me[w].pc = "idle" /\ \A v \in Workers \ {w} : me'[v] = me[v]
        /\ UNCHANGED <<audit, past>>
        /\ me'[w].pc \notin {"record", "undo_record"}
    BY <1>0, <1>4, StartShape
  <2>2. InFlight' = InFlight /\ Audited' = Audited
    BY <2>1 DEF InFlight, Audited
  <2> QED
    BY <1>0, <1>1, <2>1, <2>2 DEF past
<1>5. ASSUME NEW w \in Workers, Steps(w) PROVE CountInv'
  <2>0. /\ \A v \in Workers \ {w} : me'[v] = me[v]
        /\ Stop(w) => me'[w].pc = "idle"
        /\ Stop(w) \/ GoesOn(w)
    BY <1>0, <1>5, StepShape, StopShape, RestType
  <2>1. CASE Moved(w) \/ Undo(w)
    <3>1. /\ audit' = audit /\ lost' = lost /\ moves' = moves + 1
          /\ me[w].pc \in {"move", "undo"}
      BY <2>1 DEF Moved, Undo, Transit, At
    <3>2. me'[w].pc \in {"record", "undo_record"}
      BY <1>0, <2>1, ToShape DEF Moved, Undo
    <3>3. InFlight' = InFlight \cup {w} /\ w \notin InFlight
      BY <2>0, <3>1, <3>2 DEF InFlight
    <3>4. IsFiniteSet(InFlight)' /\ Cardinality(InFlight') = Cardinality(InFlight) + 1
      BY <1>0, <3>3, FS_AddElement
    <3>5. Audited' = Audited
      BY <3>1 DEF Audited
    <3> QED
      BY <1>0, <1>1, <3>1, <3>4, <3>5
  <2>2. CASE MovedUnheard(w)
    <3>1. /\ lost' = lost + 1 /\ moves' = moves + 1 /\ Stop(w)
          /\ me[w].pc \in {"move", "undo"} /\ Record(w, "failed", me[w].before)
      BY <2>2 DEF MovedUnheard, Transit
    <3>2. InFlight' = InFlight
      BY <2>0, <3>1 DEF InFlight
    <3>3. Audited' = Audited
      BY <1>0, <3>1, RecordShape, AuditedShape
    <3> QED
      BY <1>0, <1>1, <3>1, <3>2, <3>3
  <2>3. CASE me[w].pc \in {"record", "undo_record"}
    <3>1. Stop(w) /\ InFlight' = InFlight \ {w} /\ w \in InFlight
      <4>1. Stop(w)
        BY <1>5, <2>3, RecordSteps DEF RecordApplied, UndoRecord, Crash
      <4> QED
        BY <2>0, <2>3, <4>1 DEF InFlight
    <3>2. IsFiniteSet(InFlight)' /\ Cardinality(InFlight') = Cardinality(InFlight) - 1
      BY <1>0, <3>1, FS_RemoveElement
    <3>3. CASE Crash(w)
      <4>1. lost' = lost + 1 /\ moves' = moves /\ audit' = audit
        BY <2>3, <3>3 DEF Crash
      <4>2. Audited' = Audited
        BY <4>1 DEF Audited
      <4> QED
        BY <1>0, <1>1, <3>2, <4>1, <4>2
    <3>4. CASE RecordApplied(w) \/ UndoRecord(w)
      <4>1. lost' = lost /\ moves' = moves
        BY <3>4 DEF RecordApplied, UndoRecord, past
      <4>2. PICK r : audit' = Append(audit, r) /\ r.status \in {"applied", "reverted"}
        BY <1>0, <3>4, RecordShape DEF RecordApplied, UndoRecord
      <4>3. Cardinality(Audited') = Cardinality(Audited) + 1
        BY <1>0, <4>2, AuditedShape
      <4> QED
        BY <1>0, <1>1, <3>2, <4>1, <4>3
    <3> QED
      BY <1>5, <2>3, <3>3, <3>4, RecordSteps
  <2>4. CASE ~(Moved(w) \/ Undo(w) \/ MovedUnheard(w)) /\ me[w].pc \notin {"record", "undo_record"}
    <3>1. moves' = moves /\ lost' = lost
      BY <1>0, <1>5, <2>4, CountShape
    <3>2. InFlight' = InFlight
      <4>1. me'[w].pc \notin {"record", "undo_record"}
        <5>1. me[w].pc = "move" => Stop(w)
          BY <1>5, <2>4 DEF Steps, At, Find, Lock, LockTimeout, Check, CheckPending, ExpireOne,
             ExpireDone, ReadFails, LeaveAlone, NotTheirs, AlreadyThere, ReadOn, MergeRequests,
             MoveFails, RecordApplied, UndoCheck, UndoRecord, Crash
        <5>2. me[w].pc = "undo" => Stop(w)
          BY <1>0, <1>5, <2>4, UndoSteps
        <5> QED
          BY <2>0, <2>4, <5>1, <5>2 DEF GoesOn, Onwards
      <4> QED
        BY <2>0, <2>4, <4>1 DEF InFlight
    <3>3. Audited' = Audited
      <4>1. CASE audit' = audit
        BY <4>1 DEF Audited
      <4>2. ASSUME NEW r, audit' = Append(audit, r), EndsWith(w, r) \/ Expires(w, r)
            PROVE  r.status \notin {"applied", "reverted"}
        BY <2>4, <4>2 DEF EndsWith, Expires
      <4> QED
        BY <1>0, <1>5, <4>1, <4>2, WriteShape, CrashKeepsAudit, AuditedShape
    <3> QED
      BY <1>0, <1>1, <3>1, <3>2, <3>3
  <2> QED
    BY <2>1, <2>2, <2>3, <2>4
<1> QED
  BY <1>2, <1>3, <1>4, <1>5 DEF Next, vars

\* Every move OpenProgram makes in the tracker has its row, is about to get it, or
\* is one of those a crash or a lost answer hides: no path writes and leaves no row.
THEOREM MovesAreAuditedCorrect == Spec => []MovesAreAudited
<1>1. Init => CountInv
  <2> SUFFICES ASSUME Init PROVE CountInv
    OBVIOUS
  <2>1. InFlight = {} /\ DOMAIN audit = {} /\ moves = 0 /\ lost = 0
    BY RestType DEF Init, InFlight
  <2>2. {i \in DOMAIN audit : audit[i].status \in {"applied", "reverted"}} = {}
    BY <2>1
  <2> QED
    BY <2>1, <2>2, FS_EmptySet DEF CountInv, MovesAreAudited
<1>2. LockInv /\ CountInv /\ [Next]_vars => CountInv'
  BY CountNext
<1> QED
  BY <1>1, <1>2, LockCorrect, PTL DEF Spec, CountInv
=============================================================================
