------------------------------ MODULE Blockers ------------------------------
(***************************************************************************)
(* One person's blockers: the rows of developer_blockers, which are the    *)
(* source of truth, and the list in the status of the day, which is        *)
(* derived from them.                                                      *)
(*                                                                         *)
(* Three kinds of call change them.  A writer (a reply, a task update, a   *)
(* correction, a confirm) reads the open rows, reconciles what the person  *)
(* states with them, and writes status and rows in one transaction.  The   *)
(* close-out reads the open rows and writes a status only.  A settlement   *)
(* resolves open rows whose wait has ended (a request resolved, a merge    *)
(* request merged) and takes them out of the latest status.                *)
(*                                                                         *)
(* A transaction runs statement by statement at READ COMMITTED: what it    *)
(* wrote is locked and unseen until it commits, a statement waits for the  *)
(* transaction that holds its row, and of transactions that wait for one   *)
(* another the database ends one.                                          *)
(*                                                                         *)
(* A blocker is told from another by its wording; work items, pods and     *)
(* rewordings are left out.  Days are "before" and "today".                *)
(***************************************************************************)
EXTENDS Naturals, FiniteSets, Functions

CONSTANTS Ids,           \* blocker ids
          Keys,          \* wordings (normalized_key)
          Shim,          \* the id of the shim row of a legacy status's wording
          Workers,       \* processes that run calls
          Does,          \* the calls each worker makes
          MaxCalls,      \* bound on calls
          MaxCrashes     \* bound on crashes

ASSUME ShimType == /\ Keys # {}
                   /\ Shim \in [Keys -> Ids]
                   /\ \A j, k \in Keys : j # k => Shim[j] # Shim[k]
ASSUME BoundsType == MaxCalls \in Nat /\ MaxCrashes \in Nat

VARIABLES rows,          \* developer_blockers, as committed
          status,        \* developer_statuses, as committed
          me,            \* each worker's call and transaction
          endedAt,       \* when the wait on a wording ended; 0 if it has not
          now,           \* the time of the last transaction or end of a wait
          calls,         \* calls begun
          crashes,       \* crashes so far
          commits,       \* history: transactions committed
          raced          \* history: a status was written from rows read before
                         \* another transaction committed, or the first of the
                         \* day while a settlement revised the one before

vars == <<rows, status, me, endedAt, now, calls, crashes, commits, raced>>

Jobs == {"checkin", "resolve_all", "authoritative_set", "confirm_all", "close_out", "settle"}
Days == {"before", "today"}

Row == [key : Keys, state : {"none", "open", "resolved"}, at : Nat]
Status == [given : BOOLEAN, lists : SUBSET Keys]

\* A row to write: the statement's values, and the updated_at it was read with.
Write == [id : Ids, key : Keys, state : {"open", "resolved"}, saw : Nat]

Places == {"idle", "prior", "reconcile", "status", "rows", "revise", "commit"}

\* Where a call is; the wordings it settles or the person states; the status's list
\* and the rows it read, and the commits by then; the time its rows get and the list
\* it writes; the rows it has yet to write, the next, and those it wrote and locks;
\* the day whose status it locks.
Held == [pc : Places, job : Jobs, about : SUBSET Keys, lists : SUBSET Keys,
         prior : SUBSET Write, seen : Nat, start : Nat, says : SUBSET Keys,
         todo : SUBSET Write, next : SUBSET Write, wrote : SUBSET Write, day : {"none"} \cup Days]

Rest == [pc |-> "idle", job |-> "settle", about |-> {}, lists |-> {}, prior |-> {},
         seen |-> 0, start |-> 0, says |-> {}, todo |-> {}, next |-> {}, wrote |-> {}, day |-> "none"]

NoRow == [key |-> CHOOSE k \in Keys : TRUE, state |-> "none", at |-> 0]

\* A call that is over holds no lock and leaves nothing half written.
TypeOK == /\ rows \in [Ids -> Row]
          /\ status \in [Days -> Status]
          /\ me \in [Workers -> Held]
          /\ \A w \in Workers : me[w].pc = "idle" => me[w] = Rest
          /\ endedAt \in [Keys -> Nat]
          /\ now \in Nat /\ calls \in Nat /\ crashes \in Nat /\ commits \in Nat
          /\ raced \in BOOLEAN

\* The person's blockers are rows, or still only strings of a legacy status.
Init == /\ \E listed \in SUBSET Keys, legacy \in BOOLEAN :
              /\ status = [d \in Days |-> [given |-> d = "before",
                                           lists |-> IF d = "before" THEN listed ELSE {}]]
              /\ rows = [i \in Ids |->
                   IF ~legacy /\ \E k \in listed : Shim[k] = i
                     THEN [key |-> CHOOSE k \in listed : Shim[k] = i,
                           state |-> "open", at |-> 1]
                     ELSE NoRow]
        /\ me = [w \in Workers |-> Rest]
        /\ endedAt = [k \in Keys |-> 0]
        /\ now = 1 /\ calls = 0 /\ crashes = 0 /\ commits = 0 /\ raced = FALSE

-----------------------------------------------------------------------------
IsOpen(i) == rows[i].state = "open"
HasRows == \E i \in Ids : rows[i].state # "none"
OpenKeys == {rows[i].key : i \in {i \in Ids : IsOpen(i)}}
Latest == IF status["today"].given THEN "today" ELSE "before"

KeysOf(writes) == {u.key : u \in writes}
IdsOf(writes) == {u.id : u \in writes}

At(w, place) == me[w].pc = place
Stop(w) == me' = [me EXCEPT ![w] = Rest]

\* The rows as one reads them: blocker_id, wording, updated_at.
Read(ids) == {[id |-> i, key |-> rows[i].key, state |-> "open", saw |-> rows[i].at] : i \in ids}

\* Ids nobody has used: uuid4.
Fresh == {i \in Ids : /\ rows[i].state = "none"
                      /\ \A k \in Keys : Shim[k] # i
                      /\ \A v \in Workers : i \notin IdsOf(me[v].todo \cup me[v].wrote)}

\* Whose locks keep worker w's next statement waiting: of the row it writes or,
\* for the index on open wordings, of a row of that wording; of the status.
Busy(w, v) ==
    v # w /\ \/ /\ At(w, "status")
                /\ me[v].day = "today"
             \/ /\ At(w, "revise")
                /\ me[v].day = Latest
             \/ /\ At(w, "rows")
                /\ \E u \in me[w].next, x \in me[v].wrote :
                      x.id = u.id \/ (x.key = u.key /\ u.state = "open" /\ me[w].job # "settle")

Free(w) == \A v \in Workers : ~Busy(w, v)

Begin(w, job, held) == /\ At(w, "idle")
                       /\ calls < MaxCalls
                       /\ job \in Does[w]
                       /\ calls' = calls + 1
                       /\ me' = [me EXCEPT ![w] = held]
                       /\ UNCHANGED <<rows, status, endedAt, now, crashes, commits, raced>>

-----------------------------------------------------------------------------
\* A writer or the close-out reads the latest status.
Open(w, job) == /\ job # "settle"
                /\ Begin(w, job, [Rest EXCEPT !.pc = "prior", !.job = job,
                                              !.lists = status[Latest].lists,
                                              !.seen = commits])

\* The open rows, or shim rows of the status that was read while there is no row.
Prior(w) ==
    /\ At(w, "prior")
    /\ me[w].job # "settle"
    /\ me' = [me EXCEPT ![w].pc = "reconcile",
                ![w].prior = IF HasRows
                               THEN Read({i \in Ids : IsOpen(i)})
                               ELSE {[id |-> Shim[k], key |-> k, state |-> "open", saw |-> 0] :
                                        k \in me[w].lists}]
    /\ UNCHANGED <<rows, status, endedAt, now, calls, crashes, commits, raced>>

Resolved(writes) == {[u EXCEPT !.state = "resolved"] : u \in writes}

\* reconcile_blockers: what is re-asserted, resolved and carried of the rows that
\* were read, when the person states the wordings `reports` and ends `over`.
Touched(w, reports, over) ==
    {u \in me[w].prior : /\ u.key \notin over
                         /\ u.key \in reports \/ me[w].job = "confirm_all"}
Ended(w, reports, over) ==
    {u \in me[w].prior : \/ u.key \in over
                         \/ /\ u.key \notin reports
                            /\ me[w].job \in {"resolve_all", "authoritative_set"}}
Carried(w, reports, over) ==
    me[w].prior \ (Touched(w, reports, over) \cup Ended(w, reports, over))

\* Faulty variant: what is carried forward is written with the rest.
UpsertsCarried(w, reports, over) ==
    Touched(w, reports, over) \cup Resolved(Ended(w, reports, over))
        \cup {u \in Carried(w, reports, over) : u.saw > 0}

\* What is written of the rows that were read; a carried row is not.
Upserts(w, reports, over) == Touched(w, reports, over) \cup Resolved(Ended(w, reports, over))

\* New rows: for what is stated and was not open, and for carried shims, which
\* get an id of their own.
NewKeys(w, reports, over) ==
    (reports \ (over \cup KeysOf(me[w].prior)))
        \cup {u.key : u \in {u \in Carried(w, reports, over) : u.saw = 0}}

Minted(w, reports, over) ==
    LET id == CHOOSE id \in Injection(NewKeys(w, reports, over), Fresh) : TRUE
    IN {[id |-> id[k], key |-> k, state |-> "open", saw |-> 0] :
           k \in NewKeys(w, reports, over)}

\* What may be stated in each kind of call.
Statable(job, reports, over) ==
    CASE job = "checkin" -> reports \cap over = {}
      [] job = "authoritative_set" -> over = {}
      [] OTHER -> reports = {} /\ over = {}

\* The status's list: the open wordings after reconciling; a confirmed status
\* without any repeats its own.
Says(w, open) == IF open = {} /\ me[w].job = "confirm_all" THEN me[w].lists ELSE open

\* The transaction starts, and with it the time its rows get (now()).
Reconcile(w) ==
    /\ At(w, "reconcile")
    /\ me[w].job # "close_out"
    /\ \E reports, over \in SUBSET Keys :
          LET minted == Minted(w, reports, over)
              open == KeysOf(Touched(w, reports, over) \cup Carried(w, reports, over)
                               \cup minted)
          IN /\ Statable(me[w].job, reports, over)
             /\ ExistsInjection(NewKeys(w, reports, over), Fresh)   \* bound: ids are left
             /\ me' = [me EXCEPT ![w].pc = "status", ![w].start = now + 1,
                         ![w].lists = {}, ![w].prior = {},
                         ![w].about = IF me[w].job = "confirm_all" THEN KeysOf(me[w].prior)
                                                                   ELSE reports,
                         ![w].says = Says(w, open),
                         ![w].todo = Upserts(w, reports, over) \cup minted]
    /\ now' = now + 1
    /\ UNCHANGED <<rows, status, endedAt, calls, crashes, commits, raced>>

\* A stale day lists the open rows; an inferred or unknown one may list none.
CloseOut(w) == /\ At(w, "reconcile")
               /\ me[w].job = "close_out"
               /\ \E lists \in {KeysOf(me[w].prior), {}} :
                     me' = [me EXCEPT ![w].pc = "status", ![w].start = now + 1, ![w].says = lists,
                                      ![w].lists = {}, ![w].prior = {}]
               /\ now' = now + 1
               /\ UNCHANGED <<rows, status, endedAt, calls, crashes, commits, raced>>

\* After a statement: the next row to write, or the end of the transaction.
Goto(w, held, last) ==
    IF held.todo = {} THEN me' = [me EXCEPT ![w] = [held EXCEPT !.pc = last, !.next = {}]]
    ELSE \E u \in held.todo : me' = [me EXCEPT ![w] = [held EXCEPT !.pc = "rows", !.next = {u}]]

WriteStatus(w) == /\ At(w, "status")
                  /\ Free(w)
                  /\ Goto(w, [me[w] EXCEPT !.day = "today"], "commit")
                  /\ UNCHANGED <<rows, status, endedAt, now, calls, crashes, commits, raced>>

\* The unique index on open wordings: another row of the wording is open.
Taken(w, u) == /\ u.state = "open"
               /\ \E i \in Ids \ IdsOf(me[w].wrote) :
                     i # u.id /\ IsOpen(i) /\ rows[i].key = u.key

\* A row is upserted; a second open row of a wording ends the transaction.
WriteRow(w) ==
    /\ At(w, "rows")
    /\ me[w].job # "settle"
    /\ Free(w)
    /\ \E u \in me[w].next :
          IF Taken(w, u)
            THEN Stop(w)
            ELSE Goto(w, [me[w] EXCEPT !.todo = @ \ {u}, !.wrote = @ \cup {u}], "commit")
    /\ UNCHANGED <<rows, status, endedAt, now, calls, crashes, commits, raced>>

-----------------------------------------------------------------------------
\* A wait ends: the person asked has answered, or the merge requests are merged.
EndWait(k) == /\ endedAt[k] = 0
              /\ endedAt' = [endedAt EXCEPT ![k] = now + 1]
              /\ now' = now + 1
              /\ UNCHANGED <<rows, status, me, calls, crashes, commits, raced>>

\* A settlement for one request, or for all merged work.
Settle(w, about) == /\ about # {} /\ \A k \in about : endedAt[k] > 0
                    /\ \/ Cardinality(about) = 1
                       \/ about = {k \in Keys : endedAt[k] > 0}
                    /\ Begin(w, "settle", [Rest EXCEPT !.pc = "prior", !.job = "settle",
                                                       !.about = about])

\* The open rows that were last stated before their wait ended.
ReadSettled(w) ==
    LET settled == {i \in Ids : /\ IsOpen(i) /\ rows[i].key \in me[w].about
                                /\ rows[i].at < endedAt[rows[i].key]}
    IN /\ At(w, "prior")
       /\ me[w].job = "settle"
       /\ IF settled = {}
            THEN Stop(w) /\ UNCHANGED now
            ELSE /\ Goto(w, [me[w] EXCEPT !.start = now + 1,
                                           !.todo = Resolved(Read(settled))], "revise")
                 /\ now' = now + 1
       /\ UNCHANGED <<rows, status, endedAt, calls, crashes, commits, raced>>

\* Faulty variant: resolved whatever has become of the row since it was read.
ResolveRowRead(w) ==
    /\ At(w, "rows")
    /\ me[w].job = "settle"
    /\ Free(w)
    /\ \E u \in me[w].next :
          Goto(w, [me[w] EXCEPT !.todo = @ \ {u}, !.wrote = @ \cup {u}], "revise")
    /\ UNCHANGED <<rows, status, endedAt, now, calls, crashes, commits, raced>>

\* Resolved only while it is unresolved and unchanged since it was read.
ResolveRow(w) ==
    /\ At(w, "rows")
    /\ me[w].job = "settle"
    /\ Free(w)
    /\ \E u \in me[w].next :
          Goto(w, [me[w] EXCEPT !.todo = @ \ {u},
                      !.wrote = IF IsOpen(u.id) /\ rows[u.id].at = u.saw THEN @ \cup {u} ELSE @],
                "revise")
    /\ UNCHANGED <<rows, status, endedAt, now, calls, crashes, commits, raced>>

\* Faulty variant: the latest status is read without FOR UPDATE.
ReviseUnlocked(w) ==
    /\ At(w, "revise")
    /\ IF me[w].wrote = {}
         THEN Stop(w)
         ELSE me' = [me EXCEPT ![w].pc = "commit", ![w].day = Latest,
                       ![w].says = status[Latest].lists \ KeysOf(me[w].wrote)]
    /\ UNCHANGED <<rows, status, endedAt, now, calls, crashes, commits, raced>>

\* The latest status is read FOR UPDATE and loses the rows that were changed.
Revise(w) ==
    /\ At(w, "revise")
    /\ IF me[w].wrote = {}
         THEN Stop(w)
         ELSE /\ Free(w)
              /\ me' = [me EXCEPT ![w].pc = "commit", ![w].day = Latest,
                          ![w].says = status[Latest].lists \ KeysOf(me[w].wrote)]
    /\ UNCHANGED <<rows, status, endedAt, now, calls, crashes, commits, raced>>

-----------------------------------------------------------------------------
Commit(w) ==
    /\ At(w, "commit")
    /\ rows' = [i \in Ids |-> IF i \in IdsOf(me[w].wrote)
                                THEN LET u == CHOOSE u \in me[w].wrote : u.id = i
                                     IN [key |-> u.key, state |-> u.state, at |-> me[w].start]
                                ELSE rows[i]]
    /\ status' = [status EXCEPT ![me[w].day] = [given |-> TRUE, lists |-> me[w].says]]
    /\ commits' = commits + 1
    /\ raced' = (raced \/ IF me[w].job = "settle" THEN me[w].day # Latest
                                                 ELSE me[w].seen # commits)
    /\ Stop(w)
    /\ UNCHANGED <<endedAt, now, calls, crashes>>

\* Workers each of which waits for another of them.
Deadlocked(w) == \E some \in SUBSET Workers : /\ w \in some
                    /\ \A v \in some : /\ \E x \in some : Busy(v, x)
                                       /\ \E x \in some : Busy(x, v)

\* Faulty variant: none is ended.
VictimNever(w) == FALSE /\ UNCHANGED vars

\* The database ends one transaction of a deadlock: it is rolled back.
Victim(w) == /\ Deadlocked(w)
             /\ Stop(w)
             /\ UNCHANGED <<rows, status, endedAt, now, calls, crashes, commits, raced>>

\* Faulty variant: the call ends, its transaction does not.
CrashHeld(w) == /\ ~At(w, "idle")
                /\ crashes < MaxCrashes
                /\ crashes' = crashes + 1
                /\ me' = [me EXCEPT ![w].pc = "idle"]
                /\ UNCHANGED <<rows, status, endedAt, now, calls, commits, raced>>

\* A process stops, or a statement raises: the transaction is rolled back.
Crash(w) == /\ ~At(w, "idle")
            /\ crashes < MaxCrashes
            /\ crashes' = crashes + 1
            /\ Stop(w)
            /\ UNCHANGED <<rows, status, endedAt, now, calls, commits, raced>>

Step(w) == \/ Prior(w) \/ Reconcile(w) \/ CloseOut(w) \/ WriteStatus(w) \/ WriteRow(w)
           \/ ReadSettled(w) \/ ResolveRow(w) \/ Revise(w) \/ Commit(w) \/ Victim(w)

Call(w) == \/ \E job \in Jobs : Open(w, job)
           \/ \E about \in SUBSET Keys : Settle(w, about)

Next == \/ \E w \in Workers : Call(w) \/ Step(w) \/ Crash(w)
        \/ \E k \in Keys : EndWait(k)

Spec == Init /\ [][Next]_vars

\* A call that was begun goes on: nothing in it waits but for a lock.
Fairness == \A w \in Workers : WF_vars(Step(w))

FairSpec == Spec /\ Fairness

-----------------------------------------------------------------------------
\* "A blocker restated after the review or the merge is what the person still
\* reports, and stays open": a settlement resolves only rows last written before
\* their wait ended, though it read them earlier (blocker_settlement).
RestatedStays == [][\A w \in Workers, i \in Ids :
    (/\ me[w].job = "settle" /\ me[w].pc = "commit" /\ me'[w].pc = "idle"
     /\ IsOpen(i) /\ rows'[i].state = "resolved")
        => rows[i].at < endedAt[rows[i].key]]_vars

\* A resolved row opens again only for a person who stated it or confirmed the day
\* on what they read: a blocker that was merely carried forward stays settled
\* (reconcile_blockers, record_developer_status_with_blockers).
SettledStaysSettled == [][\A i \in Ids :
    (rows[i].state = "resolved" /\ rows'[i].state = "open")
        => \E w \in Workers : /\ me[w].pc = "commit"
                              /\ rows[i].key \in me[w].about]_vars

\* The status lists no blocker that is resolved, so the rollup's flat-status
\* fallback cannot bring it back, when no status was written from rows read
\* before another transaction committed, and none while a settlement revised an
\* earlier day's.  Settlements may overlap (_without_resolved).
ClearedIsListedOnlyIfRaced == ~raced /\ HasRows => status[Latest].lists \subseteq OpenKeys

\* Every call ends: two transactions that lock status and rows in opposite orders
\* do not keep one another (record_developer_status_with_blockers locks the status
\* first, resolve_developer_blockers the rows).
EveryCallEnds == \A w \in Workers : me[w].pc # "idle" ~> me[w].pc = "idle"
=============================================================================
