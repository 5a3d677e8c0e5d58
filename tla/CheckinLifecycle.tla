-------------------------- MODULE CheckinLifecycle --------------------------
(***************************************************************************)
(* One asked check-in from its correlation to its end, as the three parts  *)
(* that write the developer's day see it: the drains that run the reply    *)
(* pipeline (process_inbound_message, handle_reply), the nudge ladder with *)
(* its close-out (dbos_nudge_workflow), and the console.  They share rows  *)
(* and no lock.  An action reads or writes one shared row; reads that only *)
(* it or its own writer could change in between are one action.            *)
(*                                                                         *)
(* A message is one coalesced reply (module ReplyIntake).  What the        *)
(* language model reads in it is a choice.  Of the day's status only who   *)
(* gave it is kept.  Write-back consent, cross-person requests, facts and  *)
(* blocker rows are left out.  A crash and a raised error of a durable     *)
(* step are one thing: the engine runs the step again from its start.      *)
(***************************************************************************)
EXTENDS Naturals

CONSTANTS Messages,      \* coalesced replies the developer may send
          Drains,        \* drains of the conversation, numbers above 0
          Rungs,         \* the number of rungs of the ladder
          Cap,           \* checkin_max_clarifications
          Consoles,      \* bound: acts of the developer in the console
          MaxCrashes     \* bound: crashes and raised errors (below the
                         \* attempts after which the engine fails a step)

Ladder == 0
Actors == Drains \cup {Ladder}

ASSUME DrainsAreNumbers == Drains \subseteq Nat \ {0}
ASSUME RungsPositive == Rungs \in Nat \ {0}
ASSUME BoundsNat == Cap \in Nat /\ Consoles \in Nat /\ MaxCrashes \in Nat

VARIABLES inbox,         \* each message: "unsent", "buffered" or "processed"
          turns,         \* messages with a user turn on the correlation
          refused,       \* whether "no status in that" was answered and recorded
          replied,       \* checkins.replied_at is set
          held,          \* an open check-in holds signals
          clarifs,       \* rows of checkin_clarifications
          consumed,      \* checkin_correlations.consumed_at is set
          day,           \* who gave the day's status
          acks,          \* receipts sent for the recorded reply
          nudges,        \* rungs with a row of checkin_nudges
          posts,         \* notices sent, by rung
          pc,            \* where each drain and the ladder is
          batch,         \* the messages a drain has coalesced
          asks,          \* the number of the follow-up a drain is asking, or 0
          rung,          \* the rung the ladder is at
          console,       \* what the console is doing
          kept,          \* whether signals were held when the close-out read
          seen,          \* the status a console act has read
          acts,          \* console acts so far
          crashes,       \* crashes so far
          told,          \* history: a recorded reply's status was written
          early,         \* history: day was last answered before the close-out began
          heard          \* history: a turn was on record when the rung began

chat == <<inbox, turns, refused>>
checkin == <<replied, held, clarifs, consumed>>
status == <<day, told, early>>
notices == <<nudges, posts>>
climb == <<rung, kept, heard>>
desk == <<console, seen, acts>>
local == <<batch, asks>>
vars == <<inbox, turns, refused, replied, held, clarifs, consumed, day, acks, nudges,
          posts, pc, batch, asks, rung, kept, console, seen, acts, crashes, told, early, heard>>

\* "reply" is a finalized reply, "partial" one that drew a follow-up, "silent"
\* an inferred, stale or unknown day.
Days == {"none", "partial", "reply", "console", "silent"}

\* _finalize_checkin_reply and _recover_finalized_status, run by drains and by
\* the close-out; the late path skips the consume.
Finalizing == {"record", "status", "lateStatus", "consume", "ack", "recover", "rewrite"}
Handling == {"idle", "check", "load", "route", "turn", "lateTurn", "read", "lateRead",
             "hold", "partial", "ask", "mark"}
Climbing == {"rung", "turns", "console", "inbox", "deliver", "post"}
Closing == {"closing", "closeDay", "gather", "weigh", "noStatus", "consoleCheck", "infer",
            "close"}
Places == Handling \cup Finalizing \cup Climbing \cup Closing \cup {"ended"}

TypeOK == /\ inbox \in [Messages -> {"unsent", "buffered", "processed"}]
          /\ turns \subseteq Messages
          /\ refused \in BOOLEAN /\ replied \in BOOLEAN /\ held \in BOOLEAN
          /\ clarifs \in 0..Cap
          /\ consumed \in BOOLEAN
          /\ day \in Days
          /\ acks \in Nat
          /\ nudges \subseteq 1..Rungs
          /\ posts \in [1..Rungs -> Nat]
          /\ pc \in [Actors -> Places]
          /\ batch \in [Drains -> SUBSET Messages]
          /\ asks \in [Drains -> 0..Cap]
          /\ rung \in 1..Rungs /\ kept \in BOOLEAN
          /\ console \in {"idle", "confirm", "task"}
          /\ seen \in Days
          /\ acts \in 0..Consoles
          /\ crashes \in 0..MaxCrashes
          /\ told \in BOOLEAN /\ early \in BOOLEAN /\ heard \in BOOLEAN

Init == /\ inbox = [m \in Messages |-> "unsent"]
        /\ turns = {} /\ refused = FALSE
        /\ replied = FALSE /\ held = FALSE /\ clarifs = 0 /\ consumed = FALSE
        /\ day \in {"none", "silent"}
        /\ acks = 0
        /\ nudges = {}
        /\ posts = [r \in 1..Rungs |-> 0]
        /\ pc = [a \in Actors |-> IF a = Ladder THEN "rung" ELSE "idle"]
        /\ batch = [d \in Drains |-> {}]
        /\ asks = [d \in Drains |-> 0]
        /\ rung = 1 /\ kept = FALSE
        /\ console = "idle" /\ seen = "none" /\ acts = 0
        /\ crashes = 0
        /\ told = FALSE /\ early = FALSE /\ heard = FALSE

Move(a, from, to) == pc[a] = from /\ pc' = [pc EXCEPT ![a] = to]

Buffered == {m \in Messages : inbox[m] = "buffered"}

\* The close-out step has begun.
Closeout == pc[Ladder] \in (Closing \ {"closing"}) \cup Finalizing \cup {"ended"}

-----------------------------------------------------------------------------
(* A drain: the reply pipeline, up to where the reply is finalized.        *)

\* A reply reaches the inbound buffer.
Say(m) == /\ inbox[m] = "unsent"
          /\ inbox' = [inbox EXCEPT ![m] = "buffered"]
          /\ UNCHANGED <<turns, refused, checkin, status, acks, notices, pc, local, climb,
                         desk, crashes>>

\* The unprocessed messages of the conversation are read as one reply.
Take(d) == /\ Buffered # {}
           /\ Move(d, "idle", "check")
           /\ batch' = [batch EXCEPT ![d] = Buffered]
           /\ UNCHANGED <<chat, checkin, status, acks, notices, asks, climb, desk, crashes>>

\* process_inbound_message: an answered check-in makes the reply a duplicate...
Check(d) == /\ Move(d, "check", IF replied THEN "mark" ELSE "load")
            /\ UNCHANGED <<chat, checkin, status, acks, notices, local, climb, desk, crashes>>

\* ...and so does one answered by the time handle_reply reads it again.
Load(d) == /\ Move(d, "load", IF replied THEN "recover" ELSE "route")
           /\ UNCHANGED <<chat, checkin, status, acks, notices, local, climb, desk, crashes>>

\* A check-in that closed unanswered takes the reply as a late update.
Route(d) == /\ Move(d, "route", IF consumed THEN "lateTurn" ELSE "turn")
            /\ UNCHANGED <<chat, checkin, status, acks, notices, local, climb, desk, crashes>>

\* The user turn is recorded, unless an earlier attempt did.
RegisterTurn(d) == /\ Move(d, "turn", "read") \/ Move(d, "lateTurn", "lateRead")
                   /\ turns' = turns \cup batch[d]
                   /\ UNCHANGED <<inbox, refused, checkin, status, acks, notices, local,
                                  climb, desk, crashes>>

\* The reply carries no status: said once per check-in, and not at all late.
NoStatus(d) == /\ Move(d, "read", "mark") \/ Move(d, "lateRead", "mark")
               /\ refused' = (refused \/ pc[d] = "read")
               /\ UNCHANGED <<inbox, turns, checkin, status, acks, notices, local, climb, desk,
                              crashes>>

\* Faulty variant: follow-ups are not limited.
UnclearUncapped(d) == /\ Move(d, "read", "hold")
                      /\ asks' = [asks EXCEPT ![d] = clarifs + 1]
                      /\ UNCHANGED <<chat, checkin, status, acks, notices, batch, climb, desk,
                                     crashes>>

\* It leaves something out, and follow-ups are left: what it did say is held
\* (unless the reading brought no signals), then the follow-up is asked.
Unclear(d) == /\ clarifs < Cap
              /\ Move(d, "read", "hold") \/ Move(d, "read", "ask")
              /\ asks' = [asks EXCEPT ![d] = clarifs + 1]
              /\ UNCHANGED <<chat, checkin, status, acks, notices, batch, climb, desk, crashes>>

\* record_open_checkin_signals leaves an answered check-in alone.
Hold(d) == /\ Move(d, "hold", "partial")
           /\ held' = (held \/ ~replied)
           /\ UNCHANGED <<chat, replied, clarifs, consumed, status, acks, notices, local,
                          climb, desk, crashes>>

\* The partial status is an upsert over whatever the day has.
Partial(d) == /\ Move(d, "partial", "ask")
              /\ day' = "partial"
              /\ UNCHANGED <<chat, checkin, told, early, acks, notices, local, climb, desk,
                             crashes>>

\* The follow-up is claimed by its number and sent under it.
Ask(d) == /\ Move(d, "ask", "mark")
          /\ clarifs' = IF asks[d] > clarifs THEN asks[d] ELSE clarifs
          /\ asks' = [asks EXCEPT ![d] = 0]
          /\ UNCHANGED <<chat, replied, held, consumed, status, acks, notices, batch, climb,
                         desk, crashes>>

\* The drain marks its messages, and looks for more.
Mark(d) == /\ Move(d, "mark", "idle")
           /\ inbox' = [m \in Messages |-> IF m \in batch[d] THEN "processed" ELSE inbox[m]]
           /\ batch' = [batch EXCEPT ![d] = {}]
           /\ UNCHANGED <<turns, refused, checkin, status, acks, notices, asks, climb, desk,
                          crashes>>

-----------------------------------------------------------------------------
(* Finalizing a reply, by a drain or by the close-out.                     *)

After(a) == IF a = Ladder THEN "close" ELSE "mark"

\* A reply that is enough, or has to be, or the close-out's reading of them all.
Finish(a, ontime, late) == \/ Move(a, "record", ontime) \/ Move(a, "read", ontime)
                           \/ Move(a, "lateRead", late)

\* Faulty variant: the reply is recorded whether or not one is.
RecordAlways(a) == /\ Finish(a, "status", "lateStatus")
                   /\ replied' = TRUE
                   /\ UNCHANGED <<chat, held, clarifs, consumed, status, acks, notices, local,
                                  climb, desk, crashes>>

\* Faulty variant: an answer in time is recorded and consumed, its status is not
\* written.
RecordUnwritten(a) == /\ IF replied THEN Finish(a, "recover", "recover")
                                    ELSE Finish(a, "consume", "lateStatus")
                      /\ replied' = TRUE
                      /\ UNCHANGED <<chat, held, clarifs, consumed, status, acks, notices,
                                     local, climb, desk, crashes>>

\* record_checkin_reply_once: the first one wins, any other looks after its status.
Record(a) == /\ IF replied THEN Finish(a, "recover", "recover")
                           ELSE Finish(a, "status", "lateStatus")
             /\ replied' = TRUE
             /\ UNCHANGED <<chat, held, clarifs, consumed, status, acks, notices, local, climb,
                            desk, crashes>>

WriteReply == /\ day' = "reply"
              /\ told' = TRUE
              /\ early' = ~Closeout

Status(a) == /\ Move(a, "status", "consume") \/ Move(a, "lateStatus", "ack")
             /\ WriteReply
             /\ UNCHANGED <<chat, checkin, acks, notices, local, climb, desk, crashes>>

Consume(a) == /\ Move(a, "consume", "ack")
              /\ consumed' = TRUE
              /\ UNCHANGED <<chat, replied, held, clarifs, status, acks, notices, local, climb,
                             desk, crashes>>

\* One receipt, best effort: it may be switched off or fail.
Ack(a) == /\ Move(a, "ack", After(a))
          /\ acks' \in {acks, acks + 1}
          /\ UNCHANGED <<chat, checkin, status, notices, local, climb, desk, crashes>>

\* _recover_finalized_status: a status that reads as an answer is left alone,
\* else the recorded reply's is written.
Recover(a) == /\ Move(a, "recover",
                      IF day \in {"partial", "reply", "console"} THEN After(a) ELSE "rewrite")
              /\ UNCHANGED <<chat, checkin, status, acks, notices, local, climb, desk, crashes>>

Rewrite(a) == /\ Move(a, "rewrite", After(a))
              /\ WriteReply
              /\ UNCHANGED <<chat, checkin, acks, notices, local, climb, desk, crashes>>

-----------------------------------------------------------------------------
(* The ladder: one rung after another, then the close-out.                 *)

Climb(from, to) == Move(Ladder, from, to) /\ UNCHANGED climb

NextRung(from) == /\ Move(Ladder, from, IF rung = Rungs THEN "closing" ELSE "rung")
                  /\ rung' = IF rung = Rungs THEN rung ELSE rung + 1
                  /\ heard' = FALSE
                  /\ UNCHANGED kept

\* An answered check-in ends the ladder.
RungLoad == /\ Move(Ladder, "rung", IF replied THEN "ended" ELSE "turns")
            /\ heard' = (turns # {})
            /\ UNCHANGED <<chat, checkin, status, acks, notices, local, rung, kept, desk,
                           crashes>>

\* Faulty variant: only a finalized reply counts as one.
RungTurnsUnread == /\ Climb("turns", "console")
                   /\ UNCHANGED <<chat, checkin, status, acks, notices, local, desk, crashes>>

\* Someone who has said anything is passed over: a turn on record...
RungTurns == /\ IF turns # {} THEN NextRung("turns") ELSE Climb("turns", "console")
             /\ UNCHANGED <<chat, checkin, status, acks, notices, local, desk, crashes>>

\* ...or a status given in the console...
RungConsole == /\ IF day = "console" THEN NextRung("console") ELSE Climb("console", "inbox")
               /\ UNCHANGED <<chat, checkin, status, acks, notices, local, desk, crashes>>

\* ...or a reply in the buffer.  So is a developer away, or a missing contact.
RungInbox == /\ NextRung("inbox") \/ (Buffered = {} /\ Climb("inbox", "deliver"))
             /\ UNCHANGED <<chat, checkin, status, acks, notices, local, desk, crashes>>

\* send_nudge reads again: an answer by now is an error, and the step is retried;
\* a rung that an earlier attempt claimed is not sent again.  The row's second
\* write, after the message, only adds the message's id.
Claim == /\ \/ replied /\ Climb("deliver", "rung") /\ UNCHANGED nudges
            \/ ~replied /\ rung \in nudges /\ NextRung("deliver") /\ UNCHANGED nudges
            \/ /\ ~replied /\ rung \notin nudges /\ Climb("deliver", "post")
               /\ nudges' = nudges \cup {rung}
         /\ UNCHANGED <<chat, checkin, status, acks, posts, local, desk, crashes>>

Post == /\ NextRung("post")
        /\ posts' = [posts EXCEPT ![rung] = @ + 1]
        /\ UNCHANGED <<chat, checkin, status, acks, nudges, local, desk, crashes>>

\* close_checkin_non_response_activity: an answered check-in is not closed...
CloseLoad == /\ Climb("closing", IF replied THEN "ended" ELSE "closeDay")
             /\ UNCHANGED <<chat, checkin, status, acks, notices, local, desk, crashes>>

\* Faulty variant: a day that is closed leaves the check-in open.
CloseDayEnds == /\ Climb("closeDay", IF day = "silent" THEN "ended" ELSE "gather")
                /\ UNCHANGED <<chat, checkin, status, acks, notices, local, desk, crashes>>

\* ...and a day an earlier check-in closed is only consumed.
CloseDay == /\ Climb("closeDay", IF day = "silent" THEN "close" ELSE "gather")
            /\ UNCHANGED <<chat, checkin, status, acks, notices, local, desk, crashes>>

\* _finalize_accumulated_reply_on_timeout reads the check-in...
Gather == /\ Move(Ladder, "gather", IF replied THEN "consoleCheck" ELSE "weigh")
          /\ kept' = held
          /\ UNCHANGED <<chat, checkin, status, acks, notices, local, rung, heard, desk, crashes>>

\* ...then the turns.  None: no reply.  Answered as no status and nothing held:
\* no status.  Else they are read again as one reply.
Weigh == /\ \/ turns = {} /\ Climb("weigh", "consoleCheck")
            \/ /\ turns # {} /\ ~kept
               /\ Climb("weigh", "noStatus")
            \/ /\ turns # {} /\ (kept \/ clarifs > 0 \/ ~refused)
               /\ Climb("weigh", "record") \/ (kept /\ Climb("weigh", "consoleCheck"))
         /\ UNCHANGED <<chat, checkin, status, acks, notices, local, desk, crashes>>

\* _record_non_status_reply_day: inferred or unknown.
NoStatusDay == /\ Climb("noStatus", "close")
               /\ day' = "silent"
               /\ UNCHANGED <<chat, checkin, told, early, acks, notices, local, desk, crashes>>

\* Faulty variant: the console is not looked at.
ConsoleCheckSkipped == /\ Climb("consoleCheck", "infer")
                       /\ UNCHANGED <<chat, checkin, status, acks, notices, local, desk,
                                      crashes>>

\* A day given in the console stands...
ConsoleCheck == /\ Climb("consoleCheck", IF day = "console" THEN "close" ELSE "infer")
                /\ UNCHANGED <<chat, checkin, status, acks, notices, local, desk, crashes>>

\* ...any other is inferred, stale or unknown.
Silence == /\ Climb("infer", "close")
           /\ day' = "silent"
           /\ UNCHANGED <<chat, checkin, told, early, acks, notices, local, desk, crashes>>

Close == /\ Climb("close", "ended")
         /\ consumed' = TRUE
         /\ UNCHANGED <<chat, replied, held, clarifs, status, acks, notices, local, desk,
                        crashes>>

-----------------------------------------------------------------------------
(* The console, and what may go wrong.                                     *)

\* A confirm or correction, or a task update, reads the day's status...
ConsoleRead == /\ console = "idle" /\ acts < Consoles
               /\ console' \in {"confirm", "task"}
               /\ seen' = day
               /\ acts' = acts + 1
               /\ UNCHANGED <<chat, checkin, status, acks, notices, pc, local, climb, crashes>>

\* ...and writes it: a task update of a day that has a reply keeps whose it is.
ConsoleWrite == /\ console # "idle"
                /\ console' = "idle"
                /\ day' = IF console = "confirm" \/ seen \in {"none", "silent"}
                          THEN "console" ELSE seen
                /\ seen' = "none"
                /\ early' = ~Closeout
                /\ UNCHANGED <<chat, checkin, told, acks, notices, pc, local, climb, acts,
                               crashes>>

Crash(a) == /\ crashes < MaxCrashes
            /\ pc[a] \notin {"idle", "ended"}
            /\ pc' = [pc EXCEPT ![a] = IF a # Ladder THEN "idle"
                                       ELSE IF @ \in Climbing THEN "rung" ELSE "closing"]
            /\ batch' = [d \in Drains |-> IF d = a THEN {} ELSE batch[d]]
            /\ asks' = [d \in Drains |-> IF d = a THEN 0 ELSE asks[d]]
            /\ crashes' = crashes + 1
            /\ UNCHANGED <<chat, checkin, status, acks, notices, climb, desk>>

-----------------------------------------------------------------------------
Finalize(a) == Record(a) \/ Status(a) \/ Consume(a) \/ Ack(a) \/ Recover(a) \/ Rewrite(a)

Drain(d) == \/ Take(d) \/ Check(d) \/ Load(d) \/ Route(d) \/ RegisterTurn(d)
            \/ NoStatus(d) \/ Unclear(d) \/ Hold(d) \/ Partial(d) \/ Ask(d)
            \/ Mark(d) \/ Finalize(d)

Climbs == RungLoad \/ RungTurns \/ RungConsole \/ RungInbox \/ Claim \/ Post

Closes == \/ CloseLoad \/ CloseDay \/ Gather \/ Weigh \/ NoStatusDay \/ ConsoleCheck
          \/ Silence \/ Close \/ Finalize(Ladder)

Next == \/ \E m \in Messages : Say(m)
        \/ \E d \in Drains : Drain(d)
        \/ Climbs \/ Closes
        \/ ConsoleRead \/ ConsoleWrite
        \/ \E a \in Actors : Crash(a)

\* A drain and the ladder are durable work the engine runs to its end, and a
\* request in the console is answered; nobody has to reply, act or crash.
Fairness == /\ \A d \in Drains : WF_vars(Drain(d))
            /\ WF_vars(Climbs \/ Closes)
            /\ WF_vars(ConsoleWrite)

Spec == Init /\ [][Next]_vars
FairSpec == Spec /\ Fairness

-----------------------------------------------------------------------------
(* Properties.                                                             *)

\* What the check-in promises: it ends answered or closed, one answer, one
\* receipt, each rung decided while it is open and sent at most once, in order.
Promise == INSTANCE CheckinPromise WITH
             phase <- IF replied THEN "answered" ELSE IF consumed THEN "closed" ELSE "open",
             receipts <- acks,
             going <- IF pc[Ladder] = "post" THEN rung ELSE 0,
             notices <- posts

\* handle_reply, the ladder and the close-out together keep that promise.
KeepsPromise == Promise!Spec

\* Every step of theirs is a step of the promise, or none.
StepsKeepPromise == Promise!Init /\ [][Promise!Next]_Promise!vars

\* consume_checkin_correlation: whoever closes the check-in has seen to it that
\* the day has a status, so a closed check-in never leaves the day blank.
ClosedDayHasStatus == consumed => day # "none"

\* send_escalation_step_activity: a rung that begins when the developer has a
\* turn on record is not sent, whatever has come of that turn.
HeardIsNotNudged == pc[Ladder] \in {"deliver", "post"} => ~heard

\* _close_out_status: a reply, or a status given in the console by someone who
\* said nothing in chat, that was there before the close-out began is not
\* replaced by an inferred, stale or unknown day.
AnsweredBeforeCloseStays ==
  [][early /\ (day = "reply" \/ (day = "console" /\ turns = {})) => day' # "silent"]_vars

\* record_checkin_reply_once and the status write: as long as no step crashes or
\* fails, a recorded reply's status is written.
UnfaultedReplyReachesStatus == (replied /\ crashes = 0) ~> (told \/ crashes > 0)

\* _recover_finalized_status: "Otherwise the process died between
\* record_checkin_reply_once and the status write, so rebuild".  So a recorded
\* reply's status is written through a crash, too.
RecordedReplyReachesStatus == replied ~> told
=============================================================================
