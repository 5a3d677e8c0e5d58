---------------------------- MODULE CrossPerson ----------------------------
(***************************************************************************)
(* Asks that one member makes of another in a check-in: the rows of        *)
(* cross_person_requests, and the service calls that record them, DM the   *)
(* person asked, close them and tell the requester.  Every row is of one   *)
(* requester and one person asked; rows with the same Ask are copies, "the *)
(* same ask of the same person by the same requester, another row".        *)
(*                                                                         *)
(* A worker runs one service call at a time: a check-in that records or    *)
(* settles a request, a retry pass over failed DMs, the person's reply, a  *)
(* console act, or the pass after a repository sync.  Every database       *)
(* statement and every DM is a step of its own.  A crash, or an exception  *)
(* that ends the call, drops what the worker held and frees it.            *)
(*                                                                         *)
(* Time is counted in check-ins, which is all that created_at and          *)
(* updated_at are compared for.  DMs go through the send-once guard of     *)
(* SendOnce: one key posts one message.  The facts of the feed and the     *)
(* requester's blockers, which follow the rows, are left out, and so is    *)
(* the order in which a pass takes the rows it has listed.                 *)
(***************************************************************************)
EXTENDS Naturals, FiniteSets

CONSTANTS Requests,      \* the request ids, ordered as numbers
          Asks,          \* pieces of work asked for
          Ask,           \* the ask each request is about
          Start,         \* the time at the start
          CreatedBefore, \* created_at of the rows there from the start
          Workers,       \* processes that run service calls
          Does,          \* the calls each worker makes
          MaxAttempts,   \* notify_max_attempts
          Horizon,       \* bound: the time of the last check-in
          MaxCrashes     \* bound on crashes

ASSUME RequestIds == Requests \subseteq Nat /\ IsFiniteSet(Requests) /\ Requests # {}
ASSUME AskType == Ask \in [Requests -> Asks]
ASSUME StartType == Start \in Nat \ {0} /\ CreatedBefore \in [Requests -> 1..Start]
ASSUME AttemptsType == MaxAttempts \in Nat \ {0}
ASSUME BoundsType == Horizon \in Nat /\ MaxCrashes \in Nat

VARIABLES rows,          \* the request rows
          me,            \* what each worker holds in its call
          now,           \* the time
          mergedAt,      \* when an ask's merge requests were all merged; 0 if not
          asked,         \* requests whose DM reached the person asked
          notices,       \* requests whose requester was told they are resolved
          acks,          \* requests whose requester was told an ETA
          crashes        \* history: crashes so far

VARIABLES resolvedAs,    \* history: the time each resolution was written with
          shut,          \* history: the time at which it happened
          beside,        \* history: copies still open at that moment
          byHand,        \* history: requests their requester resolved
          raced,         \* history: two resolutions of an ask overlapped, or a
                         \* check-in came before one had closed the copies
          touched,       \* history: a closed row's updated_at was moved
          silent,        \* history: requests whose resolution told nobody, a copy having
                        \* been resolved before
          behind,        \* history: copies closed by such a resolution, and requests that
                        \* were silent only because of silent ones or of these
          lost           \* history: a resolution was left without its notice

sent == <<asked, notices, acks>>
past == <<resolvedAs, shut, beside, byHand, raced, touched, silent, behind, lost>>
world == <<now, mergedAt, crashes>>
vars == <<rows, me, sent, past, world>>

Open == {"open", "acknowledged"}
Closed == {"resolved", "dismissed"}
Statuses == {"none", "needs_resolution"} \cup Open \cup Closed
Jobs == {"record", "settle", "retry", "reply", "asked", "requester", "merge"}

Row == [status : Statuses, created : Nat, updated : Nat, named : BOOLEAN,
        attempts : 0..MaxAttempts, due : BOOLEAN, notified : BOOLEAN]

NoRow == [status |-> "none", created |-> 0, updated |-> 0, named |-> FALSE,
          attempts |-> 0, due |-> FALSE, notified |-> FALSE]

\* A row recorded before asks were refreshed in place, its person long told.
OldRow(r) == [NoRow EXCEPT !.status = "open", !.named = TRUE, !.attempts = 1,
                           !.created = CreatedBefore[r],
                           !.updated = CreatedBefore[r], !.notified = TRUE]

Places == {"idle", "list", "refresh", "create", "assign", "claim", "send",
           "note", "pick", "look", "acknowledge", "tell_ack", "close", "told",
           "sweep", "copies", "tell", "older", "open", "index", "next"}

\* In a call: where it is, which call, the request it works on, the rows its
\* pass has listed with the attempts it read, the copies it has yet to close,
\* the attempts and status it read, the time it writes, _told_about_a_copy.
Held == [pc : Places, job : Jobs, at : Requests, queue : SUBSET (Requests \X Nat),
         todo : SUBSET Requests, saw : Nat, was : Statuses, stamp : Nat, told : BOOLEAN]

Rest == [pc |-> "idle", job |-> "record", at |-> CHOOSE r \in Requests : TRUE,
         queue |-> {}, todo |-> {}, saw |-> 0, was |-> "none", stamp |-> 0,
         told |-> FALSE]

TypeOK == /\ rows \in [Requests -> Row]
          /\ me \in [Workers -> Held]
          /\ now \in Nat
          /\ mergedAt \in [Asks -> Nat]
          /\ asked \subseteq Requests /\ notices \subseteq Requests /\ acks \subseteq Requests
          /\ crashes \in Nat
          /\ resolvedAs \in [Requests -> Nat]
          /\ shut \in [Requests -> Nat]
          /\ beside \in [Requests -> SUBSET Requests]
          /\ byHand \subseteq Requests
          /\ raced \in BOOLEAN /\ touched \in BOOLEAN /\ lost \in BOOLEAN
          /\ silent \subseteq Requests /\ behind \subseteq Requests

Init == /\ \E old \in SUBSET Requests :
              /\ rows = [r \in Requests |-> IF r \in old THEN OldRow(r) ELSE NoRow]
              /\ asked = old
        /\ me = [w \in Workers |-> Rest]
        /\ now = Start
        /\ mergedAt = [a \in Asks |-> 0]
        /\ notices = {} /\ acks = {} /\ crashes = 0
        /\ resolvedAs = [r \in Requests |-> 0]
        /\ shut = [r \in Requests |-> 0]
        /\ beside = [r \in Requests |-> {}]
        /\ byHand = {} /\ raced = FALSE /\ touched = FALSE /\ lost = FALSE
        /\ silent = {} /\ behind = {}

-----------------------------------------------------------------------------
Later(s, t) == IF s >= t THEN s ELSE t

Still(r) == rows[r].status \in Open

\* Another row of the same ask: is_repeat_of needs someone named in both.
Repeats(r, c) == c # r /\ Ask[c] = Ask[r] /\ rows[r].named /\ rows[c].named

\* The order in which rows are listed: created_at, updated_at, id, descending.
Newer(r, c) == \/ rows[r].created > rows[c].created
               \/ /\ rows[r].created = rows[c].created
                  /\ \/ rows[r].updated > rows[c].updated
                     \/ rows[r].updated = rows[c].updated /\ r > c

SetRow(r, row) == rows' = [rows EXCEPT ![r] = row]

At(w, place) == me[w].pc = place
To(w, place) == me' = [me EXCEPT ![w].pc = place]
Stop(w) == me' = [me EXCEPT ![w] = Rest]

Begin(w, call, held) == /\ At(w, "idle")
                        /\ call \in Does[w]
                        /\ me' = [me EXCEPT ![w] = held]
                        /\ UNCHANGED <<rows, sent, past>>

\* After one request: the merge and retry passes go on to the next they listed.
Loop == [merge |-> "next", retry |-> "pick"]

Onward(w) == IF me[w].job \in DOMAIN Loop
               THEN me' = [me EXCEPT ![w] = [Rest EXCEPT
                             !.pc = Loop[me[w].job], !.job = me[w].job, !.queue = me[w].queue]]
               ELSE Stop(w)

-----------------------------------------------------------------------------
\* A check-in states a request, naming the person (or not yet).  The same
\* request is recorded again when its reply is processed again.
Record(w, r) == /\ now < Horizon
                /\ now' = now + 1
                /\ \E named \in BOOLEAN :
                      Begin(w, "record", [Rest EXCEPT
                        !.pc = IF named THEN "list" ELSE "create", !.job = "record",
                        !.at = r, !.stamp = now + 1,
                        !.was = IF named THEN "open" ELSE "needs_resolution"])
                /\ UNCHANGED <<mergedAt, crashes>>

List(w) == /\ At(w, "list")
           /\ me' = [me EXCEPT ![w].pc = "refresh",
                       ![w].todo = {c \in Requests \ {me[w].at} :
                                      Still(c) /\ Ask[c] = Ask[me[w].at] /\ rows[c].named}]
           /\ UNCHANGED <<rows, sent, past, world>>

\* The first listed repeat that is still open is refreshed instead.
Refresh(w) ==
    /\ At(w, "refresh")
    /\ IF me[w].todo = {}
         THEN To(w, "create") /\ UNCHANGED rows
         ELSE \E c \in me[w].todo :
                IF Still(c)
                  THEN /\ SetRow(c, [rows[c] EXCEPT !.updated = Later(@, me[w].stamp)])
                       /\ Stop(w)
                  ELSE /\ me' = [me EXCEPT ![w].todo = @ \ {c}]
                       /\ UNCHANGED rows
    /\ UNCHANGED <<sent, past, world>>

\* _should_notify of the row as the statement returned it.
ToNotify(row) == row.named /\ ~row.notified /\ row.attempts < MaxAttempts

\* INSERT ... ON CONFLICT that changes nothing and returns the row there is.
Create(w) ==
    LET r == me[w].at
        new == [NoRow EXCEPT !.status = me[w].was, !.created = me[w].stamp,
                             !.updated = me[w].stamp, !.named = (me[w].was = "open")]
        stored == IF rows[r].status = "none" THEN new ELSE rows[r]
    IN /\ At(w, "create")
       /\ SetRow(r, stored)
       /\ IF stored.status = "open" /\ ToNotify(stored)
            THEN me' = [me EXCEPT ![w].pc = "claim", ![w].saw = stored.attempts]
            ELSE Stop(w)
       /\ UNCHANGED <<sent, past, world>>

\* The requester says who they meant.
Settle(w, r) == /\ now < Horizon
                /\ now' = now + 1
                /\ rows[r].status # "none"
                /\ Begin(w, "settle", [Rest EXCEPT !.pc = "assign", !.job = "settle",
                                                   !.at = r, !.stamp = now + 1])
                /\ UNCHANGED <<mergedAt, crashes>>

\* Only a request that waits for its person is opened; another is left as it is.
Assign(w) ==
    LET r == me[w].at
    IN /\ At(w, "assign")
       /\ IF rows[r].status = "needs_resolution"
            THEN /\ SetRow(r, [rows[r] EXCEPT !.status = "open", !.named = TRUE,
                                              !.updated = me[w].stamp])
                 /\ me' = [me EXCEPT ![w].pc = "claim", ![w].saw = rows[r].attempts]
            ELSE UNCHANGED rows /\ Stop(w)
       /\ UNCHANGED <<sent, past, world>>

-----------------------------------------------------------------------------
\* A retry pass lists the open requests with an attempt to come.
RetryPass(w) == /\ Begin(w, "retry", [Rest EXCEPT !.pc = "pick", !.job = "retry",
                     !.queue = {<<r, rows[r].attempts>> : r \in
                                  {r \in Requests : /\ rows[r].status = "open"
                                                    /\ rows[r].attempts > 0
                                                    /\ rows[r].due
                                                    /\ ToNotify(rows[r])}}])
                /\ UNCHANGED world

Pick(w) == /\ At(w, "pick")
           /\ IF me[w].queue = {}
                THEN Stop(w)
                ELSE \E q \in me[w].queue :
                       me' = [me EXCEPT ![w].pc = "claim", ![w].at = q[1],
                                        ![w].saw = q[2], ![w].queue = @ \ {q}]
           /\ UNCHANGED <<rows, sent, past, world>>

\* Faulty variants: an attempt is claimed whatever was read, also past the
\* limit; the count that was read is not compared, only written back plus one.
ClaimPastLimit(w) ==
    LET r == me[w].at
    IN /\ At(w, "claim")
       /\ SetRow(r, [rows[r] EXCEPT !.attempts = @ + 1,
                                    !.due = (rows[r].attempts + 1 < MaxAttempts)])
       /\ To(w, "send")
       /\ UNCHANGED <<sent, past, world>>

ClaimStale(w) ==
    LET r == me[w].at
    IN /\ At(w, "claim")
       /\ rows[r].status = "open" /\ rows[r].named /\ ~rows[r].notified
       /\ SetRow(r, [rows[r] EXCEPT !.attempts = me[w].saw + 1,
                                    !.due = (me[w].saw + 1 < MaxAttempts)])
       /\ To(w, "send")
       /\ UNCHANGED <<sent, past, world>>

\* One conditional UPDATE: the attempt is this worker's, or someone else's.
Claim(w) ==
    LET r == me[w].at
    IN /\ At(w, "claim")
       /\ IF /\ rows[r].status = "open" /\ rows[r].named /\ ~rows[r].notified
             /\ rows[r].attempts = me[w].saw
            THEN /\ SetRow(r, [rows[r] EXCEPT !.attempts = @ + 1,
                                              !.due = (me[w].saw + 1 < MaxAttempts)])
                 /\ To(w, "send")
            ELSE UNCHANGED rows /\ Onward(w)
       /\ UNCHANGED <<sent, past, world>>

\* The DM to the person asked arrives, or fails, or arrives although it raised.
Send(w) == /\ At(w, "send")
           /\ asked' = asked \cup {me[w].at}
           /\ To(w, "note") \/ Onward(w)
           /\ UNCHANGED <<rows, notices, acks, past, world>>

SendFails(w) == At(w, "send") /\ Onward(w) /\ UNCHANGED <<rows, sent, past, world>>

\* record_notification, whatever has become of the request meanwhile.
Note(w) ==
    LET r == me[w].at
    IN /\ At(w, "note")
       /\ SetRow(r, [rows[r] EXCEPT !.notified = TRUE, !.due = FALSE, !.updated = now])
       /\ touched' = (touched \/ rows[r].status \in Closed)
       /\ Onward(w)
       /\ UNCHANGED <<sent, resolvedAs, shut, beside, byHand, raced, silent, behind, lost,
                      world>>

-----------------------------------------------------------------------------
\* The person asked replies: in the DM's thread, or with one ask open in all.
Reply(w, r) == /\ rows[r].notified \/ {c \in Requests : Still(c)} = {r}
               /\ Begin(w, "reply", [Rest EXCEPT !.pc = "look", !.job = "reply",
                                                 !.at = r, !.stamp = now])
               /\ UNCHANGED world

\* The console's buttons, pressed by the person asked or by the requester.
Console(w, r, by) == /\ rows[r].status # "none"
                     /\ by = "asked" => rows[r].named
                     /\ Begin(w, by, [Rest EXCEPT !.pc = "look", !.job = by, !.at = r])
                     /\ UNCHANGED world

\* What the call reads of the request, and what it will make of it.
Look(w) ==
    LET row == rows[me[w].at]
        Read(place) == me' = [me EXCEPT ![w].pc = place, ![w].was = row.status]
    IN /\ At(w, "look")
       /\ \/ me[w].job = "reply" /\ row.status \in Closed /\ Stop(w)
          \/ me[w].job = "reply" /\ row.status \notin Closed
                /\ (Read("acknowledge") \/ Read("close"))
          \/ me[w].job = "asked" /\ row.status # "acknowledged" /\ Read("acknowledge")
          \/ me[w].job \in {"asked", "requester"} /\ row.status # "resolved" /\ Read("close")
          \/ me[w].job # "reply" /\ Stop(w)
       /\ UNCHANGED <<rows, sent, past, world>>

\* The time a call writes: a reply's received_at, a merge's, else the clock's.
WriteTime(w) == IF me[w].job \in {"reply", "merge"} THEN me[w].stamp ELSE now

\* Only an open request becomes acknowledged.  The requester hears of the ETA
\* in a reply, if the request was open when the reply was routed.
Acknowledge(w) ==
    LET r == me[w].at
    IN /\ At(w, "acknowledge")
       /\ IF rows[r].status = "open"
            THEN /\ SetRow(r, [rows[r] EXCEPT !.status = "acknowledged",
                                              !.updated = WriteTime(w)])
                 /\ \/ Stop(w)
                    \/ me[w].job = "reply" /\ me[w].was = "open" /\ To(w, "tell_ack")
            ELSE UNCHANGED rows /\ Stop(w)
       /\ UNCHANGED <<sent, past, world>>

TellAck(w) == /\ At(w, "tell_ack")
              /\ acks' = acks \cup {me[w].at} \/ UNCHANGED acks
              /\ Stop(w)
              /\ UNCHANGED <<rows, asked, notices, past, world>>

\* Whom a resolution may close: by hand also a request that names nobody.
MayClose(w, r) == \/ Still(r)
                  \/ me[w].job \in {"asked", "requester"} /\ rows[r].status = "needs_resolution"

\* The statement that resolves a request, for the call's own and for copies.
Resolve(w, r) ==
    /\ SetRow(r, [rows[r] EXCEPT !.status = "resolved", !.updated = WriteTime(w)])
    /\ resolvedAs' = [resolvedAs EXCEPT ![r] = WriteTime(w)]
    /\ shut' = [shut EXCEPT ![r] = now]
    /\ byHand' = IF me[w].job = "requester" THEN byHand \cup {r} ELSE byHand
    /\ UNCHANGED touched

Resolving(v) == me[v].pc = "told"

Close(w) ==
    LET r == me[w].at
    IN /\ At(w, "close")
       /\ IF MayClose(w, r)
            THEN /\ Resolve(w, r)
                 /\ UNCHANGED <<silent, behind>>
                 /\ beside' = [beside EXCEPT ![r] = {c \in Requests : Repeats(r, c) /\ Still(c)}]
                 /\ raced' = (raced \/ \E v \in Workers \ {w} :
                                          Resolving(v) /\ Ask[me[v].at] = Ask[r])
                 /\ To(w, "told")
                 /\ UNCHANGED lost
            ELSE Onward(w) /\ UNCHANGED <<rows, past>>
       /\ UNCHANGED <<sent, world>>

\* Faulty variants: any resolved copy counts, however long ago; or none does.
ToldEver(w) ==
    /\ At(w, "told")
    /\ me' = [me EXCEPT ![w].pc = "sweep", ![w].told = \E c \in Requests :
                 c # me[w].at /\ Ask[c] = Ask[me[w].at] /\ rows[c].status = "resolved"]
    /\ UNCHANGED <<rows, sent, past, world>>

ToldNever(w) == /\ At(w, "told")
                /\ me' = [me EXCEPT ![w].pc = "sweep", ![w].told = FALSE]
                /\ UNCHANGED <<rows, sent, past, world>>

\* _told_about_a_copy: a copy resolved since this request was made, whether or not
\* the requester was told when it was.
Copies(r) == {c \in Requests : /\ Repeats(r, c)
                               /\ rows[c].status = "resolved"
                               /\ rows[c].updated >= rows[r].created}

Told(w) ==
    LET r == me[w].at
        hushed == Copies(r) # {} /\ me[w].job # "requester"
    IN /\ At(w, "told")
       /\ me' = [me EXCEPT ![w].pc = "sweep", ![w].told = Copies(r) # {}]
       /\ silent' = IF hushed THEN silent \cup {r} ELSE silent
       /\ behind' = IF hushed /\ Copies(r) \subseteq silent \cup behind
                      THEN behind \cup {r} ELSE behind
       /\ UNCHANGED <<rows, sent, resolvedAs, shut, beside, byHand, raced, touched, lost,
                      world>>

\* Faulty variant: the requester is told before the copies are closed.
SweepAfter(w) == At(w, "sweep") /\ To(w, "tell") /\ UNCHANGED <<rows, sent, past, world>>

\* _close_repeats lists the copies still open, then closes them one by one.
Sweep(w) == /\ At(w, "sweep")
            /\ me' = [me EXCEPT ![w].pc = "copies",
                        ![w].todo = {c \in Requests : Repeats(me[w].at, c) /\ Still(c)}]
            /\ UNCHANGED <<rows, sent, past, world>>

CloseCopy(w) == /\ At(w, "copies")
                /\ \E c \in me[w].todo :
                      /\ me' = [me EXCEPT ![w].todo = @ \ {c}]
                      /\ IF Still(c)
                           THEN /\ Resolve(w, c)
                                /\ raced' = (raced \/ now > shut[me[w].at])
                                /\ behind' = IF me[w].told /\ me[w].job # "requester"
                                             THEN behind \cup {c} ELSE behind
                                /\ UNCHANGED <<beside, silent, lost>>
                           ELSE UNCHANGED <<rows, past>>
                /\ UNCHANGED <<sent, world>>

CopiesClosed(w) == /\ At(w, "copies")
                   /\ me[w].todo = {}
                   /\ IF me[w].told \/ me[w].job = "requester"
                        THEN Onward(w)
                        ELSE To(w, "tell")
                   /\ UNCHANGED <<rows, sent, past, world>>

Tell(w) == /\ At(w, "tell")
           /\ notices' = notices \cup {me[w].at}
           /\ Onward(w)
           /\ UNCHANGED <<rows, asked, acks, past, world>>

\* The notice fails: logged in a merge pass, the end of any other call.
TellFails(w) == /\ At(w, "tell")
                /\ crashes < MaxCrashes
                /\ crashes' = crashes + 1
                /\ lost' = TRUE
                /\ Onward(w)
                /\ UNCHANGED <<rows, sent, resolvedAs, shut, beside, byHand, raced, touched,
                               silent, behind, now, mergedAt>>

-----------------------------------------------------------------------------
\* All merge requests of an ask are merged, and a sync has recorded it.
Merge(a) == /\ mergedAt[a] = 0
            /\ mergedAt' = [mergedAt EXCEPT ![a] = now]
            /\ UNCHANGED <<rows, me, sent, past, now, crashes>>

\* Faulty variant: no copy is kept.
MergePassAll(w) == /\ Begin(w, "merge", [Rest EXCEPT !.pc = "older", !.job = "merge",
                     !.queue = {<<r, 0>> : r \in {r \in Requests : Still(r) /\
                        \E c \in Requests : Still(c) /\ Repeats(r, c)}}])
                   /\ UNCHANGED world

\* The pass after a sync: older copies of an ask first, by the order in which
\* the rows were listed.
MergePass(w) == /\ Begin(w, "merge", [Rest EXCEPT !.pc = "older", !.job = "merge",
                     !.queue = {<<r, 0>> : r \in {r \in Requests : Still(r) /\
                        \E c \in Requests : Still(c) /\ Repeats(r, c) /\ Newer(c, r)}}])
                /\ UNCHANGED world

Supersede(w) == /\ At(w, "older")
                /\ \E q \in me[w].queue :
                      /\ me' = [me EXCEPT ![w].queue = @ \ {q}]
                      /\ IF Still(q[1])
                           THEN SetRow(q[1], [rows[q[1]] EXCEPT !.status = "dismissed",
                                                !.updated = Later(now, @)])
                           ELSE UNCHANGED rows
                /\ UNCHANGED <<sent, past, world>>

\* The copies are handled, or an exception ends that part: the pass goes on.
Superseded(w) == /\ At(w, "older")
                 /\ me' = [me EXCEPT ![w].pc = "open", ![w].queue = {}]
                 /\ \/ me[w].queue = {} /\ UNCHANGED crashes
                    \/ crashes < MaxCrashes /\ crashes' = crashes + 1
                 /\ UNCHANGED <<rows, sent, past, now, mergedAt>>

ListOpen(w) == /\ At(w, "open")
               /\ me' = [me EXCEPT ![w].pc = "index",
                           ![w].queue = {<<r, 0>> : r \in {r \in Requests : Still(r)}}]
               /\ UNCHANGED <<rows, sent, past, world>>

Index(w) == /\ At(w, "index")
            /\ me' = [me EXCEPT ![w].pc = "next",
                        ![w].queue = {q \in @ : mergedAt[Ask[q[1]]] > 0}]
            /\ UNCHANGED <<rows, sent, past, world>>

\* _resolve_by_merge reads the request again before it resolves it.
NextMerged(w) ==
    /\ At(w, "next")
    /\ IF me[w].queue = {}
         THEN Stop(w)
         ELSE \E q \in me[w].queue :
                IF Still(q[1])
                  THEN me' = [me EXCEPT ![w].pc = "close", ![w].queue = @ \ {q},
                                ![w].at = q[1],
                                ![w].stamp = Later(mergedAt[Ask[q[1]]], rows[q[1]].updated)]
                  ELSE me' = [me EXCEPT ![w].queue = @ \ {q}]
    /\ UNCHANGED <<rows, sent, past, world>>

-----------------------------------------------------------------------------
\* A process stops, or a step of the call raises.
Crash(w) == /\ ~At(w, "idle")
            /\ crashes < MaxCrashes
            /\ crashes' = crashes + 1
            /\ Stop(w)
            /\ lost' = (lost \/ me[w].pc \in {"told", "sweep", "copies", "tell"})
            /\ UNCHANGED <<rows, sent, resolvedAs, shut, beside, byHand, raced, touched,
                           silent, behind, now, mergedAt>>

Step(w) == \/ List(w) \/ Refresh(w) \/ Create(w) \/ Assign(w) \/ Claim(w) \/ Send(w)
           \/ SendFails(w) \/ Note(w) \/ Pick(w) \/ Look(w) \/ Acknowledge(w)
           \/ TellAck(w) \/ Close(w) \/ Told(w) \/ Sweep(w) \/ CloseCopy(w)
           \/ CopiesClosed(w) \/ Tell(w) \/ TellFails(w) \/ Supersede(w) \/ Superseded(w)
           \/ ListOpen(w) \/ Index(w) \/ NextMerged(w)

Call(w) == \/ \E r \in Requests : \/ Record(w, r) \/ Settle(w, r) \/ Reply(w, r)
                                  \/ \E by \in {"asked", "requester"} : Console(w, r, by)
           \/ MergePass(w) \/ RetryPass(w)

Next == \/ \E w \in Workers : Call(w) \/ Step(w) \/ Crash(w)
        \/ \E a \in Asks : Merge(a)

Spec == Init /\ [][Next]_vars

-----------------------------------------------------------------------------
\* No two senders hold one attempt at a request's DM: each was claimed by one
\* conditional UPDATE on the number of attempts read (claim_notification_attempt).
AttemptIsHeldOnce == \A v, w \in Workers :
    v # w /\ {me[v].pc, me[w].pc} \subseteq {"send"} /\ me[v].at = me[w].at
        => me[v].saw # me[w].saw

\* "The requester hears about the ask once" (_told_about_a_copy): of two copies that
\* were open together by the times they were resolved with, only one has a notice.
HeardAtMostOnce == \A r, c \in notices : r # c /\ Ask[c] = Ask[r] =>
    resolvedAs[r] < rows[c].created \/ resolvedAs[c] < rows[r].created

\* A requester is not told before every copy that was open at the resolution has
\* closed: "a failed DM cannot leave a copy open behind it" (handle_counterpart_reply).
NoticeAfterCopies == \A r \in notices : \A c \in beside[r] : ~Still(c)

\* Something told the requester of r: a notice for it or for a copy resolved
\* since r was made, or resolving one of them by hand.
Heard(r) == \E c \in Requests : /\ Ask[c] = Ask[r]
                                /\ c \in notices \cup byHand
                                /\ shut[c] >= rows[r].created

Idle == \A w \in Workers : At(w, "idle")

\* The requester of a resolved ask has heard of it, unless two resolutions
\* overlapped, each taking the other for the copy its requester had heard of, a
\* check-in came between a resolution and its closing of a copy, a notification
\* recorded late made an older request look resolved since, or the request is
\* behind a resolution that was silent itself (_told_about_a_copy asks whether a
\* copy was resolved, not whether its requester was told; record_notification).
QuietOnlyIfRaced == Idle /\ ~lost /\ ~raced /\ ~touched =>
    \A r \in Requests : rows[r].status = "resolved" /\ r \notin behind => Heard(r)

\* An ask is not lost to the cleanup: a request dismissed as superseded has a copy
\* that was not, open still or resolved (supersede_repeats, run by passes at once).
AskSurvives == \A r \in Requests : rows[r].status = "dismissed" =>
    \E c \in Requests : Ask[c] = Ask[r] /\ rows[c].named /\ rows[c].status # "dismissed"
=============================================================================
