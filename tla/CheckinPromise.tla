--------------------------- MODULE CheckinPromise ---------------------------
(***************************************************************************)
(* What one asked check-in promises to the developer and to its readers,   *)
(* without saying who keeps it: it ends answered or closed, an answer is   *)
(* taken once and may still come after the close, at most one receipt      *)
(* follows an answer, and each rung of the nudge ladder is decided while   *)
(* the check-in is open and sent at most once, the lower rungs first.      *)
(***************************************************************************)
EXTENDS Naturals

CONSTANT Rungs           \* the number of rungs of the ladder

VARIABLES phase,         \* "open", "closed" (unanswered) or "answered"
          receipts,      \* acks sent for the answer
          going,         \* the rung that was decided and is being sent, or 0
          notices        \* notices sent, by rung

vars == <<phase, receipts, going, notices>>

Init == /\ phase = "open"
        /\ receipts = 0
        /\ going = 0
        /\ notices = [r \in 1..Rungs |-> 0]

Answer == /\ phase # "answered"
          /\ phase' = "answered"
          /\ UNCHANGED <<receipts, going, notices>>

Close == /\ phase = "open" /\ going = 0
         /\ phase' = "closed"
         /\ UNCHANGED <<receipts, going, notices>>

Receipt == /\ phase = "answered" /\ receipts = 0
           /\ receipts' = 1
           /\ UNCHANGED <<phase, going, notices>>

Decide(r) == /\ phase = "open" /\ going = 0
             /\ \A s \in r..Rungs : notices[s] = 0
             /\ going' = r
             /\ UNCHANGED <<phase, receipts, notices>>

\* A rung under way is sent, although the answer may have overtaken it...
Send == /\ going # 0
        /\ notices' = [notices EXCEPT ![going] = @ + 1]
        /\ going' = 0
        /\ UNCHANGED <<phase, receipts>>

\* ...or given up, when its sender stops.
Drop == /\ going # 0
        /\ going' = 0
        /\ UNCHANGED <<phase, receipts, notices>>

Next == \/ Answer \/ Close \/ Receipt \/ Send \/ Drop
        \/ \E r \in 1..Rungs : Decide(r)

\* A check-in does not stay open; one that closed need not be answered.
Settle == phase = "open" /\ (Answer \/ Close)

Spec == Init /\ [][Next]_vars /\ WF_vars(Settle)
=============================================================================
