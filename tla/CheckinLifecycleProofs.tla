----------------------- MODULE CheckinLifecycleProofs -----------------------
(***************************************************************************)
(* What holds of one check-in for any number of messages, drains, rungs,   *)
(* follow-ups, console acts and crashes.                                   *)
(***************************************************************************)
EXTENDS CheckinLifecycle, TLAPS

\* An actor that is first to record the reply, on its way to the receipt.
Accepting == {"status", "lateStatus", "consume", "ack"}

\* There is one such actor, and no receipt before it is done.
OneReceipt == /\ \A a \in Actors : pc[a] \in Accepting => replied /\ acks = 0
              /\ \A a, b \in Actors : pc[a] \in Accepting /\ pc[b] \in Accepting => a = b
              /\ acks # 0 => replied

\* Whoever is about to close the check-in knows of a status.
StatusFirst == /\ ClosedDayHasStatus
               /\ \A a \in Actors : pc[a] \in {"consume", "ack"} => day # "none"
               /\ pc[Ladder] = "close" => day # "none"

\* A rung is sent after it is claimed, it is claimed in order, and while the
\* check-in is open, the ladder is not done.
RungsInOrder == /\ \A s \in 1..Rungs : posts[s] # 0 => s \in nudges
                /\ \A s \in nudges : s <= rung
                /\ pc[Ladder] = "post" => rung \in nudges
                /\ consumed /\ ~replied => pc[Ladder] = "ended"

\* A turn heard of stays on record, and stops the rung where the turns are read.
StillHeard == /\ pc[Ladder] \in {"console", "inbox", "deliver", "post"} => ~heard
              /\ pc[Ladder] = "turns" /\ heard => turns # {}

\* Only a recorded reply makes the day a reply's.
ReplyOnRecord == /\ day = "reply" \/ seen = "reply" => replied
                 /\ \A a \in Actors : pc[a] \in {"recover", "rewrite"} => replied

\* What the close-out has not seen, it has not been given before it began.
SeenBeforeClose ==
  /\ pc[Ladder] \notin Handling
  /\ pc[Ladder] \in (Closing \ {"closing"}) \cup Finalizing => ~(early /\ day = "reply")
  /\ pc[Ladder] = "noStatus" => turns # {}
  /\ pc[Ladder] = "infer" => ~(early /\ day = "console")

Inductive == /\ OneReceipt /\ StatusFirst /\ RungsInOrder
             /\ StillHeard /\ ReplyOnRecord /\ SeenBeforeClose

USE DrainsAreNumbers, RungsPositive, BoundsNat
    DEF Actors, Ladder, chat, checkin, status, notices, climb, desk, local

\* The places are those of the four parts.
LEMMA PlaceNames ==
  /\ "idle" \in Places /\ "check" \in Places /\ "load" \in Places /\ "route" \in Places
  /\ "turn" \in Places /\ "lateTurn" \in Places /\ "read" \in Places
  /\ "lateRead" \in Places /\ "hold" \in Places /\ "partial" \in Places /\ "ask" \in Places
  /\ "mark" \in Places /\ "record" \in Places /\ "status" \in Places
  /\ "lateStatus" \in Places /\ "consume" \in Places /\ "ack" \in Places
  /\ "recover" \in Places /\ "rewrite" \in Places /\ "rung" \in Places
  /\ "turns" \in Places /\ "console" \in Places /\ "inbox" \in Places
  /\ "deliver" \in Places /\ "post" \in Places /\ "closing" \in Places
  /\ "ended" \in Places /\ "closeDay" \in Places /\ "gather" \in Places
  /\ "weigh" \in Places /\ "noStatus" \in Places /\ "consoleCheck" \in Places
  /\ "infer" \in Places /\ "close" \in Places
BY DEF Places, Finalizing, Handling, Climbing, Closing

\* A move changes the place of one actor, and keeps it within the places.
LEMMA MoveTyped ==
  ASSUME pc \in [Actors -> Places], NEW a \in Actors, NEW from, NEW to \in Places,
         Move(a, from, to)
  PROVE  /\ pc' \in [Actors -> Places] /\ pc[a] = from /\ pc'[a] = to
         /\ \A b \in Actors : b # a => pc'[b] = pc[b]
BY DEF Move

\* The variables that hold a Boolean, and the others.
Flags == /\ refused \in BOOLEAN /\ replied \in BOOLEAN /\ held \in BOOLEAN
         /\ consumed \in BOOLEAN /\ kept \in BOOLEAN
         /\ told \in BOOLEAN /\ early \in BOOLEAN /\ heard \in BOOLEAN

Shape == /\ inbox \in [Messages -> {"unsent", "buffered", "processed"}]
         /\ turns \subseteq Messages
         /\ clarifs \in 0..Cap
         /\ day \in Days
         /\ acks \in Nat
         /\ nudges \subseteq 1..Rungs
         /\ posts \in [1..Rungs -> Nat]
         /\ batch \in [Drains -> SUBSET Messages]
         /\ asks \in [Drains -> 0..Cap]
         /\ rung \in 1..Rungs
         /\ console \in {"idle", "confirm", "task"}
         /\ seen \in Days
         /\ acts \in 0..Consoles
         /\ crashes \in 0..MaxCrashes

LEMMA FlagsKept == ASSUME Flags, [Next]_vars PROVE Flags'
<1> USE DEF Flags
<1>1. ASSUME NEW m \in Messages, Say(m) PROVE Flags'
  BY <1>1 DEF Say
<1>2. ASSUME NEW d \in Drains, Take(d) \/ Mark(d) PROVE Flags'
  BY <1>2 DEF Take, Mark, Buffered
<1>3. ASSUME NEW d \in Drains, Check(d) \/ Load(d) \/ Route(d) \/ RegisterTurn(d) PROVE Flags'
  BY <1>3 DEF Check, Load, Route, RegisterTurn
<1>4. ASSUME NEW d \in Drains, NoStatus(d) \/ Hold(d) \/ Partial(d) PROVE Flags'
  BY <1>4 DEF NoStatus, Hold, Partial
<1>5. ASSUME NEW d \in Drains, Unclear(d) \/ Ask(d) PROVE Flags'
  BY <1>5 DEF Unclear, Ask
<1>6. ASSUME NEW a \in Actors, Finalize(a) PROVE Flags'
  BY <1>6 DEF Finalize, Record, Finish, Status, Consume, Ack, Recover, Rewrite,
                WriteReply, After
<1>7. CASE RungLoad \/ RungTurns \/ RungConsole \/ RungInbox
  BY <1>7 DEF RungLoad, RungTurns, RungConsole, RungInbox, Climb, NextRung
<1>8. CASE Claim \/ Post
  BY <1>8 DEF Claim, Post, Climb, NextRung
<1>9. CASE CloseLoad \/ CloseDay \/ Gather \/ Weigh
  BY <1>9 DEF CloseLoad, CloseDay, Gather, Weigh, Climb
<1>10. CASE NoStatusDay \/ ConsoleCheck \/ Silence \/ Close
  BY <1>10 DEF NoStatusDay, ConsoleCheck, Silence, Close, Climb
<1>11. CASE ConsoleRead \/ ConsoleWrite
  BY <1>11 DEF ConsoleRead, ConsoleWrite
<1>12. ASSUME NEW a \in Actors, Crash(a) PROVE Flags'
  BY <1>12 DEF Crash
<1>13. CASE UNCHANGED vars
  BY <1>13 DEF vars
<1> QED
  BY <1>1, <1>2, <1>3, <1>4, <1>5, <1>6, <1>7, <1>8, <1>9, <1>10, <1>11, <1>12, <1>13
     DEF Next, Drain, Climbs, Closes

\* The others, by what a step changes of them.
data == <<inbox, turns, clarifs, day, acks, nudges, posts, batch, asks, rung, console, seen,
          acts, crashes>>

LEMMA ShapeKept == ASSUME Shape, [Next]_vars PROVE Shape'
<1> USE DEF Shape, Days
<1>1. ASSUME NEW m \in Messages, Say(m) PROVE Shape'
  BY <1>1 DEF Say
<1>2. ASSUME NEW d \in Drains, Take(d) \/ Mark(d) PROVE Shape'
  BY <1>2 DEF Take, Mark, Buffered
<1>3. ASSUME NEW d \in Drains, RegisterTurn(d) \/ Partial(d) PROVE Shape'
  BY <1>3 DEF RegisterTurn, Partial
<1>4. ASSUME NEW d \in Drains, Unclear(d) PROVE Shape'
  BY <1>4 DEF Unclear
<1>5. ASSUME NEW d \in Drains, Ask(d) PROVE Shape'
  BY <1>5 DEF Ask
<1>6. ASSUME NEW d \in Drains, Check(d) \/ Load(d) \/ Route(d) \/ NoStatus(d) \/ Hold(d)
      PROVE  UNCHANGED data
  BY <1>6 DEF Check, Load, Route, NoStatus, Hold, data
<1>7. ASSUME NEW a \in Actors, Record(a) \/ Consume(a) \/ Recover(a) PROVE UNCHANGED data
  BY <1>7 DEF Record, Consume, Recover, data
<1>8. ASSUME NEW a \in Actors, Status(a) \/ Rewrite(a) PROVE Shape'
  BY <1>8 DEF Status, Rewrite, WriteReply
<1>9. ASSUME NEW a \in Actors, Ack(a) PROVE Shape'
  BY <1>9 DEF Ack
<1>10. ASSUME NEW from, NextRung(from), UNCHANGED <<inbox, turns, clarifs, day, acks, batch, asks,
                                              console, seen, acts, crashes>>,
              nudges' \subseteq 1..Rungs, posts' \in [1..Rungs -> Nat]
       PROVE  Shape'
  <2>1. rung' \in 1..Rungs
    BY <1>10 DEF NextRung
  <2> QED
    BY <1>10, <2>1
<1>11. CASE RungLoad
  BY <1>11 DEF RungLoad
<1>12. CASE RungTurns \/ RungConsole \/ RungInbox
  <2>1. PICK from : NextRung(from) \/ Climb(from, "console") \/ Climb(from, "inbox")
                    \/ Climb(from, "deliver")
    BY <1>12 DEF RungTurns, RungConsole, RungInbox
  <2>2. UNCHANGED <<inbox, turns, clarifs, day, acks, batch, asks, console, seen, acts, crashes,
                    nudges, posts>>
    BY <1>12 DEF RungTurns, RungConsole, RungInbox
  <2> QED
    BY <1>10, <2>1, <2>2 DEF Climb
<1>13. CASE Claim
  <2>1. UNCHANGED <<inbox, turns, clarifs, day, acks, batch, asks, console, seen, acts, crashes,
                    posts>>
    BY <1>13 DEF Claim
  <2>2. nudges' \subseteq 1..Rungs
    BY <1>13 DEF Claim
  <2>3. NextRung("deliver") \/ UNCHANGED rung
    BY <1>13 DEF Claim, Climb
  <2> QED
    BY <1>10, <2>1, <2>2, <2>3
<1>14. CASE Post
  <2>1. posts' \in [1..Rungs -> Nat]
    BY <1>14 DEF Post
  <2> QED
    BY <1>10, <1>14, <2>1 DEF Post
<1>15. CASE CloseLoad \/ CloseDay \/ Gather \/ ConsoleCheck \/ Close
  BY <1>15 DEF CloseLoad, CloseDay, Gather, ConsoleCheck, Close, Climb
<1>16. CASE Weigh
  <2>1. UNCHANGED climb
    BY <1>16 DEF Weigh, Climb
  <2>2. UNCHANGED data
    BY <1>16, <2>1 DEF Weigh, data
  <2> QED
    BY <2>2 DEF data
<1>17. CASE NoStatusDay \/ Silence
  BY <1>17 DEF NoStatusDay, Silence, Climb
<1>18. CASE ConsoleRead
  BY <1>18 DEF ConsoleRead
<1>19. CASE ConsoleWrite
  <2>1. day' \in Days /\ seen' \in Days
    BY <1>19 DEF ConsoleWrite
  <2>2. console' \in {"idle", "confirm", "task"}
    BY <1>19 DEF ConsoleWrite
  <2>3. UNCHANGED <<inbox, turns, clarifs, acks, nudges, posts, batch, asks, rung, acts, crashes>>
    BY <1>19 DEF ConsoleWrite
  <2> QED
    BY <2>1, <2>2, <2>3
<1>20. ASSUME NEW a \in Actors, Crash(a) PROVE Shape'
  BY <1>20 DEF Crash
<1>21. ASSUME UNCHANGED data PROVE Shape'
  BY <1>21 DEF data
<1>22. CASE UNCHANGED vars
  BY <1>22 DEF vars
<1> QED
  BY <1>1, <1>2, <1>3, <1>4, <1>5, <1>6, <1>7, <1>8, <1>9, <1>11, <1>12, <1>13, <1>14, <1>15,
     <1>16, <1>17, <1>18, <1>19, <1>20, <1>21, <1>22
     DEF Next, Drain, Climbs, Closes, Finalize

\* Every step moves one actor to one of the places, or none.
LEMMA PlacesKept == ASSUME pc \in [Actors -> Places], [Next]_vars PROVE pc' \in [Actors -> Places]
<1> USE PlaceNames DEF Move
<1>1. ASSUME NEW m \in Messages, Say(m) PROVE pc' \in [Actors -> Places]
  BY <1>1 DEF Say
<1>2. ASSUME NEW d \in Drains, Take(d) \/ Check(d) \/ Load(d) \/ Route(d) PROVE pc' \in [Actors -> Places]
  BY <1>2 DEF Take, Check, Load, Route
<1>3. ASSUME NEW d \in Drains, RegisterTurn(d) \/ NoStatus(d) \/ Unclear(d) PROVE pc' \in [Actors -> Places]
  BY <1>3 DEF RegisterTurn, NoStatus, Unclear
<1>4. ASSUME NEW d \in Drains, Hold(d) \/ Partial(d) \/ Ask(d) \/ Mark(d) PROVE pc' \in [Actors -> Places]
  BY <1>4 DEF Hold, Partial, Ask, Mark
<1>5. ASSUME NEW a \in Actors, Record(a) PROVE pc' \in [Actors -> Places]
  BY <1>5 DEF Record, Finish
<1>6. ASSUME NEW a \in Actors, Status(a) \/ Consume(a) \/ Rewrite(a) PROVE pc' \in [Actors -> Places]
  BY <1>6 DEF Status, Consume, Rewrite, After
<1>7. ASSUME NEW a \in Actors, Ack(a) \/ Recover(a) PROVE pc' \in [Actors -> Places]
  BY <1>7 DEF Ack, Recover, After
<1>8. CASE RungLoad \/ RungTurns \/ RungConsole \/ RungInbox
  BY <1>8 DEF RungLoad, RungTurns, RungConsole, RungInbox, Climb, NextRung
<1>9. CASE Claim \/ Post
  BY <1>9 DEF Claim, Post, Climb, NextRung
<1>10. CASE CloseLoad \/ CloseDay \/ Gather \/ Weigh
  BY <1>10 DEF CloseLoad, CloseDay, Gather, Weigh, Climb
<1>11. CASE NoStatusDay \/ ConsoleCheck \/ Silence \/ Close
  BY <1>11 DEF NoStatusDay, ConsoleCheck, Silence, Close, Climb
<1>12. CASE ConsoleRead \/ ConsoleWrite
  BY <1>12 DEF ConsoleRead, ConsoleWrite
<1>13. ASSUME NEW a \in Actors, Crash(a) PROVE pc' \in [Actors -> Places]
  BY <1>13 DEF Crash
<1>14. CASE UNCHANGED vars
  BY <1>14 DEF vars
<1> QED
  BY <1>1, <1>2, <1>3, <1>4, <1>5, <1>6, <1>7, <1>8, <1>9, <1>10, <1>11, <1>12, <1>13, <1>14
     DEF Next, Drain, Climbs, Closes, Finalize

-----------------------------------------------------------------------------
(* The parts of the inductive invariant, each with the steps it depends on. *)

\* Drains and the ladder are moved by nobody else, and a step that is not one of
\* the recording of a reply moves its actor to a place that does not accept one.
Aside(a) == \E to : to \notin Accepting /\ pc' = [pc EXCEPT ![a] = to]

LEMMA StepsAside ==
  ASSUME NEW d \in Drains,
         Take(d) \/ Check(d) \/ Load(d) \/ Route(d) \/ RegisterTurn(d) \/ NoStatus(d)
            \/ Unclear(d) \/ Hold(d) \/ Partial(d) \/ Ask(d) \/ Mark(d)
  PROVE  Aside(d) /\ UNCHANGED <<replied, acks, consumed, notices, climb, desk, told, early>>
<1> USE DEF Aside, Accepting, Move
<1>1. CASE Take(d) \/ Check(d) \/ Load(d) \/ Route(d)
  BY <1>1 DEF Take, Check, Load, Route
<1>2. CASE RegisterTurn(d) \/ NoStatus(d) \/ Unclear(d)
  BY <1>2 DEF RegisterTurn, NoStatus, Unclear
<1>3. CASE Hold(d) \/ Partial(d) \/ Ask(d) \/ Mark(d)
  BY <1>3 DEF Hold, Partial, Ask, Mark
<1> QED
  BY <1>1, <1>2, <1>3

LEMMA OneReceiptKept ==
  ASSUME pc \in [Actors -> Places], OneReceipt, [Next]_vars
  PROVE  OneReceipt'
<1>1. ASSUME NEW a \in Actors, Aside(a), UNCHANGED <<replied, acks>> PROVE OneReceipt'
  BY <1>1 DEF Aside, OneReceipt
<1>2. ASSUME UNCHANGED <<pc, replied, acks>> PROVE OneReceipt'
  BY <1>2 DEF OneReceipt
<1>3. ASSUME NEW a \in Actors, Record(a) PROVE OneReceipt'
  <2> USE DEF OneReceipt, Finish, Move, Accepting
  <2>1. CASE replied
    BY <1>3, <2>1 DEF Record
  <2>2. CASE ~replied
    BY <1>3, <2>2 DEF Record
  <2> QED
    BY <2>1, <2>2
<1>4. ASSUME NEW a \in Actors, Status(a) \/ Consume(a) PROVE OneReceipt'
  BY <1>4 DEF Status, Consume, OneReceipt, Move, Accepting
<1>5. ASSUME NEW a \in Actors, Ack(a) PROVE OneReceipt'
  BY <1>5 DEF Ack, OneReceipt, Move, After, Accepting
<1>6. ASSUME NEW a \in Actors, Recover(a) \/ Rewrite(a) PROVE OneReceipt'
  <2>1. Aside(a) /\ UNCHANGED <<replied, acks>>
    BY <1>6 DEF Recover, Rewrite, Aside, Accepting, Move, After
  <2> QED
    BY <1>1, <2>1
<1>7. CASE Climbs
  <2>1. Aside(Ladder) /\ UNCHANGED <<replied, acks>>
    BY <1>7 DEF Climbs, RungLoad, RungTurns, RungConsole, RungInbox, Claim, Post, Climb,
                NextRung, Move, Aside, Accepting
  <2> QED
    BY <1>1, <2>1
<1>8. CASE CloseLoad \/ CloseDay \/ Gather \/ Weigh \/ NoStatusDay \/ ConsoleCheck
           \/ Silence \/ Close
  <2>1. Aside(Ladder) /\ UNCHANGED <<replied, acks>>
    BY <1>8 DEF CloseLoad, CloseDay, Gather, Weigh, NoStatusDay, ConsoleCheck, Silence, Close,
                Climb, Move, Aside, Accepting
  <2> QED
    BY <1>1, <2>1
<1>9. ASSUME NEW a \in Actors, Crash(a) PROVE OneReceipt'
  <2> DEFINE to == IF a # Ladder THEN "idle" ELSE IF pc[a] \in Climbing THEN "rung" ELSE "closing"
  <2>1. pc' = [pc EXCEPT ![a] = to] /\ to \notin Accepting /\ UNCHANGED <<replied, acks>>
    BY <1>9 DEF Crash, Accepting
  <2> QED
    BY <1>1, <2>1 DEF Aside
<1>10. CASE (\E m \in Messages : Say(m)) \/ ConsoleRead \/ ConsoleWrite \/ UNCHANGED vars
  BY <1>2, <1>10 DEF Say, ConsoleRead, ConsoleWrite, vars
<1> QED
  BY <1>1, <1>3, <1>4, <1>5, <1>6, <1>7, <1>8, <1>9, <1>10, StepsAside
     DEF Next, Drain, Finalize, Closes

LEMMA StatusFirstKept ==
  ASSUME pc \in [Actors -> Places], StatusFirst, [Next]_vars
  PROVE  StatusFirst'
<1> USE DEF StatusFirst, ClosedDayHasStatus, Move
<1>1. ASSUME NEW d \in Drains,
             Take(d) \/ Check(d) \/ Load(d) \/ Route(d) \/ RegisterTurn(d) \/ NoStatus(d)
               \/ Unclear(d)
      PROVE  StatusFirst'
  BY <1>1 DEF Take, Check, Load, Route, RegisterTurn, NoStatus, Unclear
<1>2. ASSUME NEW d \in Drains, Hold(d) \/ Partial(d) \/ Ask(d) \/ Mark(d)
      PROVE  StatusFirst'
  BY <1>2 DEF Hold, Partial, Ask, Mark
<1>3. ASSUME NEW a \in Actors, Record(a) PROVE StatusFirst'
  <2>1. PICK to \in {"recover", "status", "lateStatus"} : pc' = [pc EXCEPT ![a] = to]
    BY <1>3 DEF Record, Finish
  <2>2. UNCHANGED <<day, consumed>>
    BY <1>3 DEF Record
  <2> QED
    BY <2>1, <2>2
<1>4. ASSUME NEW a \in Actors, Status(a) \/ Rewrite(a) PROVE StatusFirst'
  BY <1>4 DEF Status, Rewrite, WriteReply, After
<1>5. ASSUME NEW a \in Actors, Consume(a) PROVE StatusFirst'
  BY <1>5 DEF Consume
<1>6. ASSUME NEW a \in Actors, Ack(a) \/ Recover(a) PROVE StatusFirst'
  BY <1>6 DEF Ack, Recover, After
<1>7. CASE RungLoad \/ RungTurns \/ RungConsole \/ RungInbox
  BY <1>7 DEF RungLoad, RungTurns, RungConsole, RungInbox, Climb, NextRung
<1>8. CASE Claim \/ Post
  BY <1>8 DEF Claim, Post, Climb, NextRung
<1>9. CASE CloseLoad \/ CloseDay \/ Gather
  BY <1>9 DEF CloseLoad, CloseDay, Gather, Climb
<1>10. CASE Weigh
  BY <1>10 DEF Weigh, Climb
<1>11. CASE NoStatusDay \/ ConsoleCheck \/ Silence
  BY <1>11 DEF NoStatusDay, ConsoleCheck, Silence, Climb
<1>12. CASE Close
  BY <1>12 DEF Close, Climb
<1>13. CASE ConsoleRead \/ ConsoleWrite
  BY <1>13 DEF ConsoleRead, ConsoleWrite
<1>14. ASSUME NEW a \in Actors, Crash(a) PROVE StatusFirst'
  BY <1>14 DEF Crash
<1>15. CASE (\E m \in Messages : Say(m)) \/ UNCHANGED vars
  BY <1>15 DEF Say, vars
<1> QED
  BY <1>1, <1>2, <1>3, <1>4, <1>5, <1>6, <1>7, <1>8, <1>9, <1>10, <1>11, <1>12, <1>13, <1>14,
     <1>15 DEF Next, Drain, Climbs, Closes, Finalize

\* What no step of a drain, of a finalization or of the console touches.
LEMMA LadderAlone ==
  ASSUME pc \in [Actors -> Places], NEW d \in Drains, Drain(d)
  PROVE  /\ UNCHANGED <<notices, climb, seen>> /\ pc'[Ladder] = pc[Ladder]
         /\ turns \subseteq turns' /\ (replied => replied')
<1> USE DEF Move
<1>1. CASE Take(d) \/ Check(d) \/ Load(d) \/ Route(d)
  BY <1>1 DEF Take, Check, Load, Route
<1>2. CASE RegisterTurn(d) \/ NoStatus(d) \/ Unclear(d)
  BY <1>2 DEF RegisterTurn, NoStatus, Unclear
<1>3. CASE Hold(d) \/ Partial(d) \/ Ask(d) \/ Mark(d)
  BY <1>3 DEF Hold, Partial, Ask, Mark
<1>4. CASE Record(d)
  BY <1>4 DEF Record, Finish
<1>5. CASE Status(d) \/ Consume(d) \/ Ack(d)
  BY <1>5 DEF Status, Consume, Ack
<1>6. CASE Recover(d) \/ Rewrite(d)
  BY <1>6 DEF Recover, Rewrite
<1> QED
  BY <1>1, <1>2, <1>3, <1>4, <1>5, <1>6 DEF Drain, Finalize

LEMMA RungsInOrderKept ==
  ASSUME pc \in [Actors -> Places], Shape, OneReceipt, RungsInOrder, [Next]_vars
  PROVE  RungsInOrder'
<1> USE DEF RungsInOrder, Shape
<1>1. ASSUME NEW d \in Drains, Drain(d) PROVE RungsInOrder'
  <2>1. UNCHANGED notices /\ UNCHANGED climb /\ pc'[Ladder] = pc[Ladder] /\ (replied => replied')
    BY <1>1, LadderAlone
  <2>2. consumed' = consumed \/ replied
    <3>1. CASE Consume(d)
      BY <3>1 DEF Consume, Move, OneReceipt, Accepting
    <3>2. CASE Record(d) \/ Status(d) \/ Ack(d) \/ Recover(d) \/ Rewrite(d)
      BY <3>2 DEF Record, Status, Ack, Recover, Rewrite
    <3> QED
      BY <1>1, <3>1, <3>2, StepsAside DEF Drain, Finalize
  <2> QED
    BY <2>1, <2>2
<1>2. ASSUME NEW from, from # "ended", NextRung(from), UNCHANGED <<replied, consumed>>,
             nudges' = nudges, \A s \in 1..Rungs : posts'[s] # 0 => posts[s] # 0 \/ s \in nudges
      PROVE  RungsInOrder'
  BY <1>2 DEF NextRung, Move
<1>3. ASSUME NEW from, NEW to, from # "ended", Climb(from, to), UNCHANGED <<consumed, posts>>,
             replied => replied', nudges' \subseteq nudges \cup {rung}, nudges \subseteq nudges',
             to = "post" => rung \in nudges'
      PROVE  RungsInOrder'
  BY <1>3 DEF Climb, Move
<1>4. CASE RungLoad
  BY <1>4 DEF RungLoad, Move
<1>5. CASE RungTurns \/ RungConsole \/ RungInbox
  <2>1. UNCHANGED <<replied, consumed, nudges, posts>>
    BY <1>5 DEF RungTurns, RungConsole, RungInbox
  <2>2. PICK from \in {"turns", "console", "inbox"} :
             NextRung(from) \/ \E to : to # "post" /\ Climb(from, to)
    BY <1>5 DEF RungTurns, RungConsole, RungInbox
  <2> QED
    BY <1>2, <1>3, <2>1, <2>2
<1>6. CASE Claim
  <2>1. UNCHANGED <<replied, consumed, posts>>
    BY <1>6 DEF Claim
  <2>2. \/ NextRung("deliver") /\ nudges' = nudges
        \/ nudges' = nudges /\ Climb("deliver", "rung")
        \/ nudges' = nudges \cup {rung} /\ Climb("deliver", "post")
    BY <1>6 DEF Claim
  <2> QED
    BY <1>2, <1>3, <2>1, <2>2
<1>7. CASE Post
  <2>1. \A r \in 1..Rungs : posts'[r] # 0 => posts[r] # 0 \/ r \in nudges
    BY <1>7 DEF Post, NextRung, Move
  <2> QED
    BY <1>2, <1>7, <2>1 DEF Post
<1>8. CASE CloseLoad \/ CloseDay \/ ConsoleCheck \/ Silence \/ NoStatusDay
  <2>1. UNCHANGED <<replied, consumed, notices>>
    BY <1>8 DEF CloseLoad, CloseDay, ConsoleCheck, Silence, NoStatusDay
  <2>2. \E from, to : from # "ended" /\ to # "post" /\ Climb(from, to)
    BY <1>8 DEF CloseLoad, CloseDay, ConsoleCheck, Silence, NoStatusDay
  <2> QED
    BY <1>3, <2>1, <2>2
<1>9. CASE Gather
  BY <1>9 DEF Gather, Move
<1>10. CASE Weigh
  <2>1. UNCHANGED <<replied, consumed, notices>>
    BY <1>10 DEF Weigh
  <2>2. \E to : to # "post" /\ Climb("weigh", to)
    BY <1>10 DEF Weigh
  <2> QED
    BY <1>3, <2>1, <2>2
<1>11. CASE Close
  BY <1>11 DEF Close, Climb, Move
<1>12. CASE Record(Ladder) \/ Recover(Ladder) \/ Rewrite(Ladder)
  <2>1. UNCHANGED <<consumed, notices, climb>> /\ (replied => replied')
    BY <1>12 DEF Record, Recover, Rewrite
  <2>2. \E from, to : from # "ended" /\ to # "post" /\ Move(Ladder, from, to)
    BY <1>12 DEF Record, Finish, Recover, Rewrite, After
  <2> QED
    BY <1>3, <2>1, <2>2 DEF Climb
<1>13. CASE Status(Ladder) \/ Consume(Ladder) \/ Ack(Ladder)
  <2>1. UNCHANGED <<replied, notices, climb>> /\ replied
    BY <1>13 DEF Status, Consume, Ack, Move, OneReceipt, Accepting
  <2>2. pc'[Ladder] # "post"
    BY <1>13 DEF Status, Consume, Ack, Move, After
  <2> QED
    BY <2>1, <2>2
<1>14. ASSUME NEW a \in Actors, Crash(a) PROVE RungsInOrder'
  <2>1. UNCHANGED <<replied, consumed, notices, climb>>
    BY <1>14 DEF Crash
  <2>2. pc[Ladder] = "ended" => pc'[Ladder] = "ended"
    BY <1>14 DEF Crash
  <2>3. pc'[Ladder] = "post" => pc[Ladder] = "post"
    BY <1>14 DEF Crash
  <2> QED
    BY <2>1, <2>2, <2>3
<1>15. CASE (\E m \in Messages : Say(m)) \/ ConsoleRead \/ ConsoleWrite \/ UNCHANGED vars
  <2>1. UNCHANGED <<replied, consumed, notices, rung, pc>>
    BY <1>15 DEF Say, ConsoleRead, ConsoleWrite, vars
  <2> QED
    BY <2>1
<1> QED
  BY <1>1, <1>4, <1>5, <1>6, <1>7, <1>8, <1>9, <1>10, <1>11, <1>12, <1>13, <1>14, <1>15
     DEF Next, Climbs, Closes, Finalize

LEMMA StillHeardKept ==
  ASSUME pc \in [Actors -> Places], StillHeard, [Next]_vars
  PROVE  StillHeard'
<1> USE DEF StillHeard, Move
<1>1. ASSUME NEW d \in Drains, Drain(d) PROVE StillHeard'
  BY <1>1, LadderAlone
<1>2. CASE RungLoad
  BY <1>2 DEF RungLoad
<1>3. CASE RungTurns
  BY <1>3 DEF RungTurns, Climb, NextRung
<1>4. CASE RungConsole \/ RungInbox \/ Claim \/ Post
  BY <1>4 DEF RungConsole, RungInbox, Claim, Post, Climb, NextRung
<1>5. CASE CloseLoad \/ CloseDay \/ Gather \/ ConsoleCheck
  BY <1>5 DEF CloseLoad, CloseDay, Gather, ConsoleCheck, Climb
<1>6. CASE Weigh
  BY <1>6 DEF Weigh, Climb
<1>7. CASE NoStatusDay \/ Silence \/ Close
  BY <1>7 DEF NoStatusDay, Silence, Close, Climb
<1>8. CASE Record(Ladder)
  BY <1>8 DEF Record, Finish
<1>9. CASE Status(Ladder) \/ Consume(Ladder) \/ Ack(Ladder) \/ Recover(Ladder) \/ Rewrite(Ladder)
  BY <1>9 DEF Status, Consume, Ack, Recover, Rewrite, After
<1>10. ASSUME NEW a \in Actors, Crash(a) PROVE StillHeard'
  BY <1>10 DEF Crash
<1>11. CASE (\E m \in Messages : Say(m)) \/ ConsoleRead \/ ConsoleWrite \/ UNCHANGED vars
  BY <1>11 DEF Say, ConsoleRead, ConsoleWrite, vars
<1> QED
  BY <1>1, <1>2, <1>3, <1>4, <1>5, <1>6, <1>7, <1>8, <1>9, <1>10, <1>11
     DEF Next, Climbs, Closes, Finalize

LEMMA ReplyOnRecordKept ==
  ASSUME pc \in [Actors -> Places], OneReceipt, ReplyOnRecord, [Next]_vars
  PROVE  ReplyOnRecord'
<1> USE DEF ReplyOnRecord, Move
<1>1. ASSUME NEW d \in Drains, Take(d) \/ Check(d) \/ Route(d) \/ RegisterTurn(d) \/ NoStatus(d)
      PROVE  ReplyOnRecord'
  BY <1>1 DEF Take, Check, Route, RegisterTurn, NoStatus
<1>2. ASSUME NEW d \in Drains, Load(d) PROVE ReplyOnRecord'
  BY <1>2 DEF Load
<1>3. ASSUME NEW d \in Drains, Unclear(d) \/ Hold(d) \/ Ask(d) \/ Mark(d) PROVE ReplyOnRecord'
  BY <1>3 DEF Unclear, Hold, Ask, Mark
<1>4. ASSUME NEW d \in Drains, Partial(d) PROVE ReplyOnRecord'
  BY <1>4 DEF Partial
<1>5. ASSUME NEW a \in Actors, Record(a) PROVE ReplyOnRecord'
  <2>1. replied'
    BY <1>5 DEF Record
  <2> QED
    BY <2>1
<1>6. ASSUME NEW a \in Actors, Status(a) \/ Rewrite(a) PROVE ReplyOnRecord'
  <2>1. replied'
    BY <1>6 DEF Status, Rewrite, OneReceipt, Accepting
  <2> QED
    BY <2>1
<1>7. ASSUME NEW a \in Actors, Consume(a) \/ Ack(a) \/ Recover(a) PROVE ReplyOnRecord'
  BY <1>7 DEF Consume, Ack, Recover, After
<1>8. CASE RungLoad \/ RungTurns \/ RungConsole \/ RungInbox
  BY <1>8 DEF RungLoad, RungTurns, RungConsole, RungInbox, Climb, NextRung
<1>9. CASE Claim \/ Post
  BY <1>9 DEF Claim, Post, Climb, NextRung
<1>10. CASE CloseLoad \/ CloseDay \/ Gather
  BY <1>10 DEF CloseLoad, CloseDay, Gather, Climb
<1>11. CASE Weigh
  BY <1>11 DEF Weigh, Climb
<1>12. CASE NoStatusDay \/ ConsoleCheck \/ Silence \/ Close
  BY <1>12 DEF NoStatusDay, ConsoleCheck, Silence, Close, Climb
<1>13. CASE ConsoleRead
  BY <1>13 DEF ConsoleRead
<1>14. CASE ConsoleWrite
  <2>1. day' \in {"console", seen} /\ seen' = "none" /\ UNCHANGED <<pc, replied>>
    BY <1>14 DEF ConsoleWrite
  <2> QED
    BY <2>1
<1>15. ASSUME NEW a \in Actors, Crash(a) PROVE ReplyOnRecord'
  BY <1>15 DEF Crash
<1>16. CASE (\E m \in Messages : Say(m)) \/ UNCHANGED vars
  BY <1>16 DEF Say, vars
<1> QED
  BY <1>1, <1>2, <1>3, <1>4, <1>5, <1>6, <1>7, <1>8, <1>9, <1>10, <1>11, <1>12, <1>13, <1>14,
     <1>15, <1>16 DEF Next, Drain, Climbs, Closes, Finalize

LEMMA SeenBeforeCloseKept ==
  ASSUME pc \in [Actors -> Places], OneReceipt, ReplyOnRecord, SeenBeforeClose, [Next]_vars
  PROVE  SeenBeforeClose'
<1> USE DEF SeenBeforeClose, Move
\* A status that is written sets early to whether the close-out has not begun.
<1>1. ASSUME early' = ~Closeout, turns \subseteq turns', pc'[Ladder] = pc[Ladder]
      PROVE  SeenBeforeClose'
  BY <1>1 DEF Closeout, Closing, Finalizing
<1>2. ASSUME NEW d \in Drains, Drain(d) PROVE SeenBeforeClose'
  <2>1. turns \subseteq turns' /\ pc'[Ladder] = pc[Ladder]
    BY <1>2, LadderAlone
  <2>2. CASE Partial(d)
    BY <2>1, <2>2 DEF Partial
  <2>3. CASE Status(d) \/ Rewrite(d)
    BY <1>1, <2>1, <2>3 DEF Status, Rewrite, WriteReply
  <2>4. ASSUME UNCHANGED <<day, early>> PROVE SeenBeforeClose'
    BY <2>1, <2>4
  <2>5. CASE Take(d) \/ Check(d) \/ Load(d) \/ Route(d) \/ RegisterTurn(d) \/ NoStatus(d)
    BY <2>4, <2>5 DEF Take, Check, Load, Route, RegisterTurn, NoStatus
  <2>6. CASE Unclear(d) \/ Hold(d) \/ Ask(d) \/ Mark(d)
    BY <2>4, <2>6 DEF Unclear, Hold, Ask, Mark
  <2>7. CASE Record(d) \/ Consume(d) \/ Ack(d) \/ Recover(d)
    BY <2>4, <2>7 DEF Record, Consume, Ack, Recover
  <2> QED
    BY <1>2, <2>2, <2>3, <2>5, <2>6, <2>7 DEF Drain, Finalize
<1>3. CASE Climbs
  <2>1. pc'[Ladder] \in {"rung", "turns", "console", "inbox", "deliver", "post", "closing", "ended"}
    BY <1>3 DEF Climbs, RungLoad, RungTurns, RungConsole, RungInbox, Claim, Post, Climb, NextRung
  <2> QED
    BY <2>1 DEF Closing, Finalizing, Handling
<1>4. CASE CloseLoad
  BY <1>4 DEF CloseLoad, Climb, ReplyOnRecord, Closing, Finalizing, Handling
<1>5. CASE CloseDay \/ Gather
  BY <1>5 DEF CloseDay, Gather, Climb, Closing, Finalizing, Handling
<1>6. CASE Weigh
  BY <1>6 DEF Weigh, Climb, Closing, Finalizing, Handling
<1>7. CASE NoStatusDay \/ Silence
  BY <1>7 DEF NoStatusDay, Silence, Climb, Closing, Finalizing, Handling
<1>8. CASE ConsoleCheck
  BY <1>8 DEF ConsoleCheck, Climb, Closing, Finalizing, Handling
<1>9. CASE Close
  BY <1>9 DEF Close, Climb, Closing, Finalizing, Handling
<1>10. CASE Finalize(Ladder)
  <2>1. pc[Ladder] \in Finalizing /\ pc'[Ladder] \in Finalizing \cup {"close"} /\ turns' = turns
    BY <1>10 DEF Finalize, Record, Finish, Status, Consume, Ack, Recover, Rewrite, After,
                 Finalizing, Handling
  <2>2. UNCHANGED <<day, early>> \/ early' = ~Closeout
    BY <1>10 DEF Finalize, Record, Status, Consume, Ack, Recover, Rewrite, WriteReply
  <2>3. Closeout
    BY <2>1 DEF Closeout
  <2>4. ~(early' /\ day' = "reply")
    BY <2>1, <2>2, <2>3
  <2>5. pc'[Ladder] \notin Handling \cup {"noStatus", "infer"}
    BY <2>1 DEF Finalizing, Handling
  <2> QED
    BY <2>4, <2>5
<1>11. CASE ConsoleRead
  BY <1>11 DEF ConsoleRead
<1>12. CASE ConsoleWrite
  BY <1>1, <1>12 DEF ConsoleWrite
<1>13. ASSUME NEW a \in Actors, Crash(a) PROVE SeenBeforeClose'
  <2>1. UNCHANGED <<day, early, turns>>
    BY <1>13 DEF Crash
  <2>2. pc'[Ladder] \in {pc[Ladder], "rung", "closing"}
    BY <1>13 DEF Crash
  <2> QED
    BY <2>1, <2>2 DEF Closing, Finalizing, Handling
<1>14. CASE (\E m \in Messages : Say(m)) \/ UNCHANGED vars
  BY <1>14 DEF Say, vars
<1> QED
  BY <1>2, <1>3, <1>4, <1>5, <1>6, <1>7, <1>8, <1>9, <1>10, <1>11, <1>12, <1>13, <1>14
     DEF Next, Closes

-----------------------------------------------------------------------------
(* The invariant and what follows from it.                                 *)

Types == Flags /\ Shape /\ pc \in [Actors -> Places]

LEMMA TypesHold == Spec => []Types
<1>1. Init => Types
  <2> SUFFICES ASSUME Init PROVE Types
    OBVIOUS
  <2>1. Flags
    BY DEF Init, Flags
  <2>2. Shape
    BY DEF Init, Shape, Days
  <2>3. pc \in [Actors -> Places]
    BY PlaceNames DEF Init
  <2> QED
    BY <2>1, <2>2, <2>3 DEF Types
<1>2. Types /\ [Next]_vars => Types'
  BY FlagsKept, ShapeKept, PlacesKept DEF Types
<1> QED
  BY <1>1, <1>2, PTL DEF Spec

LEMMA InductiveHolds == Spec => []Inductive
<1>1. Init => Inductive
  <2> SUFFICES ASSUME Init PROVE Inductive
    OBVIOUS
  <2>1. \A a \in Actors : pc[a] \in {"idle", "rung"}
    BY DEF Init
  <2>2. OneReceipt /\ ReplyOnRecord
    BY <2>1 DEF Init, OneReceipt, Accepting, ReplyOnRecord
  <2>3. StatusFirst /\ StillHeard
    BY <2>1 DEF Init, StatusFirst, ClosedDayHasStatus, StillHeard
  <2>4. RungsInOrder
    BY <2>1 DEF Init, RungsInOrder
  <2>5. SeenBeforeClose
    BY DEF Init, SeenBeforeClose, Handling, Closing, Finalizing
  <2> QED
    BY <2>2, <2>3, <2>4, <2>5 DEF Inductive
<1>2. Types /\ Inductive /\ [Next]_vars => Inductive'
  BY OneReceiptKept, StatusFirstKept, RungsInOrderKept, StillHeardKept, ReplyOnRecordKept,
     SeenBeforeCloseKept DEF Inductive, Types
<1> QED
  BY <1>1, <1>2, TypesHold, PTL DEF Spec

\* Every action keeps the values of its variables within their types.
THEOREM LifecycleTypeCorrect == Spec => []TypeOK
<1>1. Types => TypeOK
  BY DEF Types, Flags, Shape, TypeOK
<1> QED
  BY <1>1, TypesHold, PTL

\* Whoever consumes the correlation has seen to it that the day has a status.
THEOREM ClosedDayStatus == Spec => []ClosedDayHasStatus
<1>1. Inductive => ClosedDayHasStatus
  BY DEF Inductive, StatusFirst
<1> QED
  BY <1>1, InductiveHolds, PTL

\* A rung that began with a turn on record is not sent.
THEOREM HeardNotNudged == Spec => []HeardIsNotNudged
<1>1. Inductive => HeardIsNotNudged
  BY DEF Inductive, StillHeard, HeardIsNotNudged
<1> QED
  BY <1>1, InductiveHolds, PTL

\* An answer that was there before the close-out began is not replaced by silence.
THEOREM AnswerStays == Spec => AnsweredBeforeCloseStays
<1>1. Types /\ Inductive /\ [Next]_vars
         => [early /\ (day = "reply" \/ (day = "console" /\ turns = {})) => day' # "silent"]_vars
  <2> SUFFICES ASSUME Types, Inductive, Next, early,
                      day = "reply" \/ (day = "console" /\ turns = {}), day' = "silent"
               PROVE  FALSE
    BY DEF vars
  <2>1. CASE NoStatusDay \/ Silence
    BY <2>1 DEF NoStatusDay, Silence, Climb, Move, Inductive, SeenBeforeClose, Closing
  <2>2. CASE ConsoleWrite
    BY <2>2 DEF ConsoleWrite
  <2>3. ASSUME NEW d \in Drains, Drain(d) PROVE FALSE
    <3>1. CASE Take(d) \/ Check(d) \/ Load(d) \/ Route(d) \/ RegisterTurn(d) \/ NoStatus(d)
      BY <3>1 DEF Take, Check, Load, Route, RegisterTurn, NoStatus
    <3>2. CASE Unclear(d) \/ Hold(d) \/ Partial(d) \/ Ask(d) \/ Mark(d)
      BY <3>2 DEF Unclear, Hold, Partial, Ask, Mark
    <3>3. CASE Finalize(d)
      BY <3>3 DEF Finalize, Record, Status, Consume, Ack, Recover, Rewrite, WriteReply
    <3> QED
      BY <2>3, <3>1, <3>2, <3>3 DEF Drain
  <2>4. CASE Climbs
    BY <2>4 DEF Climbs, RungLoad, RungTurns, RungConsole, RungInbox, Claim, Post
  <2>5. CASE CloseLoad \/ CloseDay \/ Gather \/ Weigh \/ ConsoleCheck \/ Close
    BY <2>5 DEF CloseLoad, CloseDay, Gather, Weigh, ConsoleCheck, Close
  <2>6. CASE Finalize(Ladder)
    BY <2>6 DEF Finalize, Record, Status, Consume, Ack, Recover, Rewrite, WriteReply
  <2>7. CASE (\E m \in Messages : Say(m)) \/ ConsoleRead \/ \E a \in Actors : Crash(a)
    BY <2>7 DEF Say, ConsoleRead, Crash
  <2> QED
    BY <2>1, <2>2, <2>3, <2>4, <2>5, <2>6, <2>7 DEF Next, Closes
<1> QED
  BY <1>1, TypesHold, InductiveHolds, PTL DEF Spec, AnsweredBeforeCloseStays

-----------------------------------------------------------------------------
(* Every step is one of the promise's, or none.                            *)

going == IF pc[Ladder] = "post" THEN rung ELSE 0

\* What the promise sees of the steps that it does not ask for.
Unseen == UNCHANGED <<replied, consumed, acks, posts>> /\ going' = going

LEMMA UnseenSteps ==
  ASSUME Unseen
  PROVE  UNCHANGED Promise!vars
BY DEF Unseen, Promise!vars, going

LEMMA DrainsUnseen ==
  ASSUME pc \in [Actors -> Places], NEW d \in Drains, Drain(d), ~Finalize(d)
  PROVE  Unseen
<1>1. UNCHANGED <<replied, consumed, acks, posts>>
  BY StepsAside DEF Drain
<1>2. UNCHANGED rung /\ pc'[Ladder] = pc[Ladder]
  BY LadderAlone
<1> QED
  BY <1>1, <1>2 DEF Unseen, going

LEMMA ClimbUnseen ==
  ASSUME pc \in [Actors -> Places], RungLoad \/ RungTurns \/ RungConsole \/ RungInbox
  PROVE  Unseen
<1>1. UNCHANGED <<replied, consumed, acks, posts>>
  BY DEF RungLoad, RungTurns, RungConsole, RungInbox
<1>2. pc[Ladder] # "post" /\ pc'[Ladder] # "post"
  BY DEF RungLoad, RungTurns, RungConsole, RungInbox, Climb, NextRung, Move
<1> QED
  BY <1>1, <1>2 DEF Unseen, going

LEMMA ClosesUnseen ==
  ASSUME pc \in [Actors -> Places],
         CloseLoad \/ CloseDay \/ Gather \/ Weigh \/ NoStatusDay \/ ConsoleCheck \/ Silence
  PROVE  Unseen
<1>1. UNCHANGED <<replied, consumed, acks, posts>>
  BY DEF CloseLoad, CloseDay, Gather, Weigh, NoStatusDay, ConsoleCheck, Silence
<1>2. pc[Ladder] # "post" /\ pc'[Ladder] # "post"
  BY DEF CloseLoad, CloseDay, Gather, Weigh, NoStatusDay, ConsoleCheck, Silence, Climb, Move
<1> QED
  BY <1>1, <1>2 DEF Unseen, going

LEMMA FinalizeKeepsPromise ==
  ASSUME Types, OneReceipt, NEW a \in Actors, Finalize(a)
  PROVE  [Promise!Next]_Promise!vars
<1> USE DEF Types
<1>1. UNCHANGED <<posts, rung>>
  BY DEF Finalize, Record, Status, Consume, Ack, Recover, Rewrite
<1>2. (pc'[Ladder] = "post") = (pc[Ladder] = "post")
  BY DEF Finalize, Record, Finish, Status, Consume, Ack, Recover, Rewrite, After, Move
<1>3. going' = going
  BY <1>1, <1>2 DEF going
<1>4. CASE Record(a)
  <2>1. replied' /\ UNCHANGED <<consumed, acks>>
    BY <1>4 DEF Record
  <2>2. CASE replied
    BY <1>1, <1>3, <2>1, <2>2, UnseenSteps DEF Unseen
  <2>3. CASE ~replied
    BY <1>1, <1>3, <2>1, <2>3 DEF Promise!Next, Promise!Answer, going
  <2> QED
    BY <2>2, <2>3
<1>5. CASE Consume(a)
  <2>1. replied /\ replied' /\ acks' = acks
    BY <1>5 DEF Consume, Move, OneReceipt, Accepting
  <2> QED
    BY <1>1, <1>3, <2>1 DEF Promise!vars, going
<1>6. CASE Ack(a)
  <2>1. replied /\ acks = 0
    BY <1>6 DEF Ack, Move, OneReceipt, Accepting
  <2>2. UNCHANGED <<replied, consumed>> /\ acks' \in {0, 1}
    BY <1>6, <2>1 DEF Ack
  <2>3. CASE acks' = 0
    BY <1>1, <1>3, <2>1, <2>2, <2>3, UnseenSteps DEF Unseen
  <2>4. CASE acks' = 1
    BY <1>1, <1>3, <2>1, <2>2, <2>4 DEF Promise!Next, Promise!Receipt, going
  <2> QED
    BY <2>2, <2>3, <2>4
<1>7. CASE Status(a) \/ Recover(a) \/ Rewrite(a)
  <2>1. UNCHANGED <<replied, consumed, acks>>
    BY <1>7 DEF Status, Recover, Rewrite
  <2> QED
    BY <1>1, <1>3, <2>1, UnseenSteps DEF Unseen
<1> QED
  BY <1>4, <1>5, <1>6, <1>7 DEF Finalize

LEMMA ClaimKeepsPromise ==
  ASSUME Types, RungsInOrder, Claim
  PROVE  [Promise!Next]_Promise!vars
<1> USE DEF Types
<1>1. UNCHANGED <<replied, consumed, acks, posts>> /\ pc[Ladder] = "deliver"
  BY DEF Claim, Climb, NextRung, Move
<1>2. CASE pc'[Ladder] # "post"
  <2>1. going' = going
    BY <1>1, <1>2 DEF going
  <2> QED
    BY <1>1, <2>1, UnseenSteps DEF Unseen
<1>3. CASE pc'[Ladder] = "post"
  <2>1. ~replied /\ rung \notin nudges /\ rung' = rung
    BY <1>3 DEF Claim, Climb, NextRung, Move
  <2>2. ~consumed
    BY <1>1, <2>1 DEF RungsInOrder
  <2>3. rung \in 1..Rungs /\ posts \in [1..Rungs -> Nat] /\ nudges \subseteq 1..Rungs
    BY DEF Shape
  <2>4. \A s \in rung..Rungs : posts[s] = 0
    BY <2>1, <2>3 DEF RungsInOrder
  <2>5. Promise!Decide(rung)
    BY <1>1, <1>3, <2>1, <2>2, <2>4 DEF Promise!Decide
  <2> QED
    BY <2>3, <2>5 DEF Promise!Next
<1> QED
  BY <1>2, <1>3

LEMMA PostKeepsPromise ==
  ASSUME Types, Post
  PROVE  Promise!Send
<1>1. UNCHANGED <<replied, consumed, acks>> /\ posts' = [posts EXCEPT ![rung] = @ + 1]
  BY DEF Post
<1>2. pc[Ladder] = "post" /\ pc'[Ladder] # "post"
  BY DEF Post, NextRung, Move, Types
<1>3. rung # 0
  BY DEF Types, Shape
<1> QED
  BY <1>1, <1>2, <1>3 DEF Promise!Send

LEMMA CloseKeepsPromise ==
  ASSUME Types, Close
  PROVE  [Promise!Next]_Promise!vars
<1>1. UNCHANGED <<replied, acks, posts>> /\ consumed'
  BY DEF Close
<1>2. pc[Ladder] # "post" /\ pc'[Ladder] # "post"
  BY DEF Close, Climb, Move, Types
<1>3. CASE replied \/ consumed
  BY <1>1, <1>2, <1>3 DEF Promise!vars
<1>4. CASE ~replied /\ ~consumed
  BY <1>1, <1>2, <1>4 DEF Promise!Next, Promise!Close
<1> QED
  BY <1>3, <1>4

LEMMA CrashKeepsPromise ==
  ASSUME Types, NEW a \in Actors, Crash(a)
  PROVE  [Promise!Next]_Promise!vars
<1>1. UNCHANGED <<replied, consumed, acks, posts, rung>>
  BY DEF Crash
<1>2. pc'[Ladder] # "post" \/ pc'[Ladder] = pc[Ladder]
  BY DEF Crash, Types
<1>3. CASE pc[Ladder] = "post" /\ pc'[Ladder] # "post"
  <2>1. rung # 0
    BY DEF Types, Shape
  <2> QED
    BY <1>1, <1>3, <2>1 DEF Promise!Next, Promise!Drop
<1>4. CASE ~(pc[Ladder] = "post" /\ pc'[Ladder] # "post")
  <2>1. going' = going
    BY <1>1, <1>2, <1>4 DEF going
  <2> QED
    BY <1>1, <2>1, UnseenSteps DEF Unseen
<1> QED
  BY <1>3, <1>4

\* The drains, the ladder, the close-out and the console together take only steps
\* that the promise of the check-in allows.
THEOREM PromiseKept == Spec => StepsKeepPromise
<1>1. Init => Promise!Init
  BY DEF Init, Promise!Init
<1>2. Types /\ Inductive /\ [Next]_vars => [Promise!Next]_Promise!vars
  <2> SUFFICES ASSUME Types, Inductive, [Next]_vars PROVE [Promise!Next]_Promise!vars
    OBVIOUS
  <2> USE DEF Types, Inductive
  <2>1. ASSUME NEW d \in Drains, Drain(d) PROVE [Promise!Next]_Promise!vars
    BY <2>1, DrainsUnseen, UnseenSteps, FinalizeKeepsPromise
  <2>2. CASE Climbs
    BY <2>2, ClimbUnseen, UnseenSteps, ClaimKeepsPromise, PostKeepsPromise
       DEF Climbs, Promise!Next
  <2>3. CASE Closes
    BY <2>3, ClosesUnseen, UnseenSteps, CloseKeepsPromise, FinalizeKeepsPromise DEF Closes
  <2>4. ASSUME NEW a \in Actors, Crash(a) PROVE [Promise!Next]_Promise!vars
    BY <2>4, CrashKeepsPromise
  <2>5. CASE (\E m \in Messages : Say(m)) \/ ConsoleRead \/ ConsoleWrite \/ UNCHANGED vars
    <3>1. UNCHANGED <<replied, consumed, acks, posts, rung, pc>>
      BY <2>5 DEF Say, ConsoleRead, ConsoleWrite, vars
    <3> QED
      BY <3>1, UnseenSteps DEF Unseen, going
  <2> QED
    BY <2>1, <2>2, <2>3, <2>4, <2>5 DEF Next
<1> QED
  BY <1>1, <1>2, TypesHold, InductiveHolds, PTL DEF Spec, StepsKeepPromise
=============================================================================
