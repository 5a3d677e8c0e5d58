----------------------------- MODULE SendOnce -----------------------------
(***************************************************************************)
(* The guard that keeps one idempotency key to one outbound chat message:  *)
(* the Redis store of send_once.py and the send_dm of the Slack adapter    *)
(* that uses it.  One key is modelled, since keys do not interact.         *)
(*                                                                         *)
(* A sender is one call of send_dm with this key: a workflow step, its     *)
(* retry after a crash, or a second pass racing with it.  The store holds  *)
(* nothing, a claim without an owner's name, or the message id.  A claim   *)
(* expires after claim_seconds whether or not its taker still runs.  The   *)
(* day-long expiry of a recorded message id is left out.                   *)
(***************************************************************************)
EXTENDS Naturals, FiniteSets

CONSTANT Senders         \* the calls of send_dm that carry this key

ASSUME SendersFinite == IsFiniteSet(Senders)

VARIABLES key,           \* the Redis value: "free", "claimed" or "sent"
          pc,            \* where each sender is in send_dm
          posts,         \* messages that reached the chat
          lapses,        \* history: claims that expired
          unknowns,      \* history: posts that landed though the call raised
          outlasted      \* history: a claim expired under a sender at work

vars == <<key, pc, posts, lapses, unknowns, outlasted>>

Keys == {"free", "claimed", "sent"}

\* "read" follows a refused claim; "release" and "delete" are the two Redis
\* calls of release; "returned" and "raised" end a call, "dead" is a process
\* that stopped inside it.
Places == {"idle", "claim", "read", "post", "put", "release", "delete",
           "returned", "raised", "dead"}

\* A sender between its claim and the end of its call.
Holding == {"post", "put", "release", "delete"}

TypeOK == /\ key \in Keys
          /\ pc \in [Senders -> Places]
          /\ posts \in Nat
          /\ lapses \in Nat
          /\ unknowns \in Nat
          /\ outlasted \in BOOLEAN

Init == /\ key = "free"
        /\ pc = [s \in Senders |-> "idle"]
        /\ posts = 0
        /\ lapses = 0
        /\ unknowns = 0
        /\ outlasted = FALSE

Move(s, from, to) == pc[s] = from /\ pc' = [pc EXCEPT ![s] = to]

\* send_dm is called.
Call(s) == Move(s, "idle", "claim") /\ UNCHANGED <<key, posts, lapses, unknowns, outlasted>>

\* SET NX EX: the first taker of a free key goes on to post.
Claim(s) == /\ key = "free"
            /\ key' = "claimed"
            /\ Move(s, "claim", "post")
            /\ UNCHANGED <<posts, lapses, unknowns, outlasted>>

Refused(s) == /\ key # "free"
              /\ Move(s, "claim", "read")
              /\ UNCHANGED <<key, posts, lapses, unknowns, outlasted>>

\* A refused sender reads the key: the id of a recorded message is returned.
FindSent(s) == /\ key = "sent"
               /\ Move(s, "read", "returned")
               /\ UNCHANGED <<key, posts, lapses, unknowns, outlasted>>

\* Faulty variant: the refused sender releases the key when it gives up.
DeadlineReleases(s) == /\ key # "sent"
                       /\ Move(s, "read", "release")
                       /\ UNCHANGED <<key, posts, lapses, unknowns, outlasted>>

\* Otherwise it sleeps and tries the claim again, or its deadline has passed
\* and it raises ProviderUnavailable with nothing posted.
PollAgain(s) == /\ key # "sent"
                /\ Move(s, "read", "claim")
                /\ UNCHANGED <<key, posts, lapses, unknowns, outlasted>>

Deadline(s) == /\ key # "sent"
               /\ Move(s, "read", "raised")
               /\ UNCHANGED <<key, posts, lapses, unknowns, outlasted>>

\* chat.postMessage and the calls before it.
Post(s) == /\ Move(s, "post", "put")
           /\ posts' = posts + 1
           /\ UNCHANGED <<key, lapses, unknowns, outlasted>>

\* Faulty variant: a failed post releases the claim and starts the call again.
PostFailsLoops(s) == /\ Move(s, "post", "claim")
                     /\ key' = "free"
                     /\ UNCHANGED <<posts, lapses, unknowns, outlasted>>

PostFails(s) == Move(s, "post", "release") /\ UNCHANGED <<key, posts, lapses, unknowns, outlasted>>

\* The call raised (a timeout, a cancellation) after the provider had taken
\* the message: the adapter treats it like a failed post.
PostUnknown(s) == /\ Move(s, "post", "release")
                  /\ posts' = posts + 1
                  /\ unknowns' = unknowns + 1
                  /\ UNCHANGED <<key, lapses, outlasted>>

\* Faulty variants: the id is written to nothing, or an empty value is written.
PutDropped(s) == /\ Move(s, "put", "returned")
                 /\ key' = "free"
                 /\ UNCHANGED <<posts, lapses, unknowns, outlasted>>

PutEmpty(s) == /\ Move(s, "put", "returned")
               /\ key' = "empty"
               /\ UNCHANGED <<posts, lapses, unknowns, outlasted>>

\* put: an unconditional SET of the message id.
Put(s) == /\ Move(s, "put", "returned")
          /\ key' = "sent"
          /\ UNCHANGED <<posts, lapses, unknowns, outlasted>>

\* release reads the key and deletes it in a second call, and only a claim
\* (anyone's) makes it go on to the delete.
ReleaseRead(s) == /\ Move(s, "release", IF key = "claimed" THEN "delete" ELSE "raised")
                  /\ UNCHANGED <<key, posts, lapses, unknowns, outlasted>>

ReleaseDelete(s) == /\ Move(s, "delete", "raised")
                    /\ key' = "free"
                    /\ UNCHANGED <<posts, lapses, unknowns, outlasted>>

\* The process of a sender stops; or put itself raises, which leaves the claim.
Die(s) == /\ pc[s] \in Holding \cup {"claim", "read"}
          /\ pc' = [pc EXCEPT ![s] = "dead"]
          /\ UNCHANGED <<key, posts, lapses, unknowns, outlasted>>

\* Redis expires a claim, whether its sender is dead or still at work.
Lapse == /\ key = "claimed"
         /\ key' = "free"
         /\ lapses' = lapses + 1
         /\ outlasted' = (outlasted \/ \E s \in Senders : pc[s] \in Holding)
         /\ UNCHANGED <<pc, posts, unknowns>>

Step(s) == \/ Call(s) \/ Claim(s) \/ Refused(s) \/ FindSent(s) \/ PollAgain(s)
           \/ Deadline(s) \/ Post(s) \/ PostFails(s) \/ PostUnknown(s) \/ Put(s)
           \/ ReleaseRead(s) \/ ReleaseDelete(s)

Ended(s) == pc[s] \in {"returned", "raised", "dead"}

\* Every call has ended and no claim is left to expire.
Finished == (\A s \in Senders : Ended(s)) /\ key # "claimed" /\ UNCHANGED vars

Next == (\E s \in Senders : Step(s) \/ Die(s)) \/ Lapse \/ Finished

Spec == Init /\ [][Next]_vars

\* A live sender keeps running, a claim does expire, and a refused sender's
\* deadline does come however often it polls.
Fairness == /\ WF_vars(Lapse)
            /\ \A s \in Senders : WF_vars(Step(s)) /\ SF_vars(Deadline(s))

FairSpec == Spec /\ Fairness

-----------------------------------------------------------------------------
\* Senders that took the key and have not yet posted, recorded or given up:
\* each can still add a message, or free the key for one.
Unposted == {s \in Senders : pc[s] \in {"post", "release", "delete"}}

\* The strengthening that is inductive: messages posted, sends still unposted
\* and a free key together never exceed what one claim, the expired claims and
\* the unknown outcomes account for (the claim and release of send_once.py).
SendsAreAccountedFor ==
    posts + Cardinality(Unposted) + (IF key = "free" THEN 1 ELSE 0)
        <= 1 + lapses + unknowns

\* The same message reaches the chat more than once only as often as a claim
\* expired or a call raised after its post had landed: every duplicate DM is
\* paid for by one of those (send_dm over RedisSendOnceStore).
DuplicatesArePaidFor == posts <= 1 + lapses + unknowns

\* While no send has outlasted its claim, a sender between its claim and the end of
\* its call is the only one there, and the key still holds its claim.
HolderIsAlone == ~outlasted =>
    \A s \in Senders : pc[s] \in Holding =>
        key = "claimed" /\ \A t \in Senders : pc[t] \in Holding => t = s

\* A recorded id, or a sender about to record one, means a posted message.
IdMeansPosted == (key = "sent" \/ \E s \in Senders : pc[s] \in {"put", "returned"})
                    => posts > 0

\* A call returns a message id only when the message was posted, by it or by
\* another call with its key (the early return of send_dm).
ReturnedWasPosted == (\E s \in Senders : pc[s] = "returned") => posts > 0

\* While no send has outlasted its claim, a recorded message id is never deleted,
\* although release reads and deletes the key in two calls.
PromptIdStays == [][key = "sent" /\ ~outlasted => key' = "sent"]_vars

\* Every call of send_dm ends, whoever else dies holding the claim.
EveryCallEnds == \A s \in Senders : pc[s] = "claim" ~> Ended(s)
=============================================================================
