--------------------------- MODULE BlockersProofs ---------------------------
(***************************************************************************)
(* What a person's blockers guarantee for any ids, wordings, workers and   *)
(* bounds: a settlement resolves no row that was stated again since the    *)
(* wait ended, a call that merely carried a blocker reopens none, and the  *)
(* latest status lists no resolved blocker unless two writers raced.       *)
(***************************************************************************)
EXTENDS Blockers, TLAPS

ByWorker(w) == Call(w) \/ Step(w) \/ Crash(w)

-----------------------------------------------------------------------------
\* What a worker's step makes of its call, by what the step is for.
Still(w) == rows' = rows /\ endedAt' = endedAt

Ends(w) == Still(w) /\ me'[w] = Rest

Starts(w) == /\ Still(w) /\ me[w].pc = "idle" /\ me'[w].pc = "prior"
             /\ me'[w].prior = {} /\ me'[w].todo = {} /\ me'[w].wrote = {} /\ me'[w].next = {}

\* The rows of a person without any: a legacy status's wordings.
Shimmed(u) == u.id = Shim[u.key]

Reads(w) == /\ Still(w) /\ me[w].pc = "prior" /\ me[w].job # "settle"
            /\ me'[w].pc = "reconcile" /\ me'[w].job = me[w].job
            /\ me'[w].todo = me[w].todo /\ me'[w].wrote = me[w].wrote
            /\ me'[w].next = me[w].next
            /\ \A u \in me'[w].prior :
                 \/ IsOpen(u.id) /\ rows[u.id].key = u.key
                 \/ Shimmed(u) /\ ~HasRows

\* A row to write is one that was read, reopened only if it is what the call is
\* about, or has a new id.
Plans(w) == /\ Still(w) /\ me[w].pc = "reconcile" /\ me'[w].pc = "status"
            /\ me'[w].job = me[w].job /\ me'[w].prior = {}
            /\ me'[w].wrote = me[w].wrote /\ me'[w].next = me[w].next
            /\ \A u \in me'[w].todo :
                 \/ /\ \E x \in me[w].prior : x.id = u.id /\ x.key = u.key
                    /\ u.state = "open" => u.key \in me'[w].about
                 \/ u.id \in Fresh /\ u.state = "open"
            /\ \A u, x \in me'[w].todo : u.id = x.id =>
                 u.key = x.key \/ \E y \in me[w].prior : y.id = u.id

Selects(w) == /\ Still(w) /\ me[w].pc = "prior" /\ me[w].job = "settle"
              /\ me'[w].pc \in {"rows", "revise"} /\ me'[w].job = "settle"
              /\ me'[w].prior = me[w].prior /\ me'[w].wrote = me[w].wrote
              /\ me'[w].next \subseteq me'[w].todo
              /\ \A u \in me'[w].todo :
                   /\ IsOpen(u.id) /\ rows[u.id].key = u.key /\ u.state = "resolved"
                   /\ u.saw = rows[u.id].at /\ u.saw < endedAt[u.key]

\* A call goes on with what it planned: it drops some, or writes the next row,
\* which nobody else holds.
Writes(w, u) == /\ me[w].pc = "rows" /\ Free(w) /\ u \in me[w].next
                /\ me'[w].wrote = me[w].wrote \cup {u}
                /\ me[w].job = "settle" => IsOpen(u.id) /\ rows[u.id].at = u.saw

GoesOn(w) == /\ Still(w) /\ me[w].pc \notin {"idle", "prior"}
             /\ me'[w].pc \in {"status", "rows", "revise", "commit"}
             /\ me'[w].pc = "status" => me[w].pc = "reconcile"
             /\ me'[w].job = me[w].job /\ me'[w].about = me[w].about
             /\ me'[w].prior \subseteq me[w].prior
             /\ me'[w].todo \subseteq me[w].todo /\ me'[w].next \subseteq me'[w].todo
             /\ me'[w].wrote = me[w].wrote \/ \E u \in me[w].next : Writes(w, u)

Commits(w) ==
    /\ me[w].pc = "commit" /\ me'[w] = Rest /\ endedAt' = endedAt
    /\ rows' \in [Ids -> Row]
    /\ \A i \in Ids :
         \/ rows'[i] = rows[i] /\ i \notin IdsOf(me[w].wrote)
         \/ \E u \in me[w].wrote : /\ u.id = i /\ rows'[i].key = u.key
                                   /\ rows'[i].state = u.state

Shapes(w) == Ends(w) \/ Starts(w) \/ Reads(w) \/ Plans(w) \/ Selects(w) \/ GoesOn(w) \/ Commits(w)

-----------------------------------------------------------------------------
Basic == /\ TypeOK
         /\ \A w \in Workers :
              /\ me[w].next \subseteq me[w].todo
              /\ me[w].pc \in {"idle", "prior", "reconcile"} => me[w].todo = {} /\ me[w].wrote = {}
              /\ me[w].pc \in {"idle", "prior"} => me[w].prior = {}
              /\ me[w].job = "settle" => me[w].pc \notin {"reconcile", "status"}

Claims(w) == me[w].prior \cup me[w].todo \cup me[w].wrote

\* One id never stands for two wordings, among rows and what calls hold.
Keyed(u) == /\ \A k \in Keys : Shim[k] = u.id => u.key = k
            /\ rows[u.id].state # "none" => rows[u.id].key = u.key

OneKeyAnId ==
    /\ \A k \in Keys : rows[Shim[k]].state # "none" => rows[Shim[k]].key = k
    /\ \A w \in Workers : \A u \in Claims(w) : Keyed(u)
    /\ \A v, w \in Workers : \A u \in Claims(v), x \in Claims(w) : u.id = x.id => u.key = x.key
    /\ \A w \in Workers : \A u \in me[w].prior :
         rows[u.id].state # "none" \/ \E k \in Keys : Shim[k] = u.id

\* A row that was written and not committed is held by one call.
RowsAreLocked == \A v, w \in Workers : v # w =>
    \A u \in me[v].wrote, x \in me[w].wrote : u.id # x.id

\* A settlement's rows were last written before their wait ended; those it has
\* resolved are as it read them until it commits.
SettledInTime == \A w \in Workers : me[w].job = "settle" =>
    /\ \A u \in me[w].todo \cup me[w].wrote : u.state = "resolved" /\ u.saw < endedAt[u.key]
    /\ \A u \in me[w].wrote : IsOpen(u.id) /\ rows[u.id].at = u.saw

\* A row a call will open is what the call is about, or of an id only it has.
New(w, u) == /\ rows[u.id].state = "none"
             /\ \A k \in Keys : Shim[k] # u.id
             /\ \A v \in Workers \ {w} : \A x \in Claims(v) : x.id # u.id

OpensItsOwn == \A w \in Workers : \A u \in me[w].todo \cup me[w].wrote :
    u.state = "open" => u.key \in me[w].about \/ New(w, u)

IInv == Basic /\ OneKeyAnId /\ RowsAreLocked /\ SettledInTime /\ OpensItsOwn

-----------------------------------------------------------------------------
LEMMA RestType == /\ Rest \in Held /\ Rest.pc = "idle" /\ Rest.prior = {} /\ Rest.todo = {}
                  /\ Rest.wrote = {} /\ Rest.next = {}
  BY DEF Rest, Held, Places, Jobs, Days

\* What every step of a worker leaves of the calls.
Calls(w) == /\ me' \in [Workers -> Held]
            /\ \A v \in Workers \ {w} : me'[v] = me[v]
            /\ me'[w].pc = "idle" => me'[w] = Rest

LEMMA StopShape == ASSUME TypeOK, NEW w \in Workers, Stop(w)
                   PROVE  Calls(w) /\ me'[w] = Rest
  BY RestType DEF Stop, Calls, TypeOK

LEMMA SetShape == ASSUME TypeOK, NEW w \in Workers, NEW h \in Held, h.pc # "idle",
                         me' = [me EXCEPT ![w] = h]
                  PROVE  Calls(w) /\ me'[w] = h
  BY DEF Calls, TypeOK

LEMMA GotoShape ==
  ASSUME TypeOK, NEW w \in Workers, NEW held \in Held, NEW last \in Places \ {"idle"},
         Goto(w, held, last)
  PROVE  /\ Calls(w)
         /\ me'[w].pc \in {last, "rows"} /\ me'[w].job = held.job /\ me'[w].about = held.about
         /\ me'[w].prior = held.prior /\ me'[w].todo = held.todo /\ me'[w].wrote = held.wrote
         /\ me'[w].next \subseteq held.todo
<1>1. CASE held.todo = {}
  <2> DEFINE h == [held EXCEPT !.pc = last, !.next = {}]
  <2>1. me' = [me EXCEPT ![w] = h]
    BY <1>1 DEF Goto
  <2>2. /\ h \in Held /\ h.pc = last /\ h.job = held.job /\ h.about = held.about
        /\ h.prior = held.prior /\ h.todo = held.todo /\ h.wrote = held.wrote /\ h.next = {}
    BY DEF Held
  <2> HIDE DEF h
  <2> QED
    BY <2>1, <2>2, SetShape
<1>2. CASE held.todo # {}
  <2>1. PICK u \in held.todo : me' = [me EXCEPT ![w] = [held EXCEPT !.pc = "rows", !.next = {u}]]
    BY <1>2 DEF Goto
  <2> DEFINE h == [held EXCEPT !.pc = "rows", !.next = {u}]
  <2>2. /\ h \in Held /\ h.pc = "rows" /\ h.job = held.job /\ h.about = held.about
        /\ h.prior = held.prior /\ h.todo = held.todo /\ h.wrote = held.wrote /\ h.next = {u}
    BY DEF Held, Places
  <2> HIDE DEF h
  <2> QED
    BY <2>1, <2>2, SetShape DEF h
<1> QED
  BY <1>1, <1>2

-----------------------------------------------------------------------------
LEMMA CallShape ==
  ASSUME Basic, NEW w \in Workers, Call(w) PROVE Calls(w) /\ Starts(w)
<1>0. TypeOK
  BY DEF Basic
<1>1. PICK held \in Held : /\ me' = [me EXCEPT ![w] = held] /\ me[w].pc = "idle"
                           /\ held.pc = "prior" /\ held.prior = {} /\ held.todo = {}
                           /\ held.wrote = {} /\ held.next = {}
                           /\ rows' = rows /\ endedAt' = endedAt
  <2>1. ASSUME NEW job \in Jobs, Open(w, job)
        PROVE  \E held \in Held : /\ me' = [me EXCEPT ![w] = held] /\ me[w].pc = "idle"
                                  /\ held.pc = "prior" /\ held.prior = {} /\ held.todo = {}
                                  /\ held.wrote = {} /\ held.next = {}
                                  /\ rows' = rows /\ endedAt' = endedAt
    <3> DEFINE held == [Rest EXCEPT !.pc = "prior", !.job = job,
                                   !.lists = status[Latest].lists, !.seen = commits]
    <3>1. Latest \in Days
      BY DEF Latest, Days
    <3>2. status[Latest].lists \in SUBSET Keys /\ commits \in Nat
      BY <1>0, <3>1 DEF TypeOK, Status
    <3>3. held \in Held
      BY RestType, <3>2 DEF Held, Places
    <3>4. held.pc = "prior" /\ held.prior = {} /\ held.todo = {} /\ held.wrote = {} /\ held.next = {}
      BY RestType DEF Rest
    <3>5. /\ me' = [me EXCEPT ![w] = held] /\ me[w].pc = "idle"
          /\ rows' = rows /\ endedAt' = endedAt
      BY <2>1 DEF Open, Begin, At
    <3> HIDE DEF held
    <3> QED
      BY <3>3, <3>4, <3>5
  <2>2. ASSUME NEW about \in SUBSET Keys, Settle(w, about)
        PROVE  \E held \in Held : /\ me' = [me EXCEPT ![w] = held] /\ me[w].pc = "idle"
                                  /\ held.pc = "prior" /\ held.prior = {} /\ held.todo = {}
                                  /\ held.wrote = {} /\ held.next = {}
                                  /\ rows' = rows /\ endedAt' = endedAt
    <3> DEFINE held == [Rest EXCEPT !.pc = "prior", !.job = "settle", !.about = about]
    <3>3. held \in Held
      BY RestType DEF Held, Places, Jobs
    <3>4. held.pc = "prior" /\ held.prior = {} /\ held.todo = {} /\ held.wrote = {} /\ held.next = {}
      BY RestType DEF Rest
    <3>5. /\ me' = [me EXCEPT ![w] = held] /\ me[w].pc = "idle"
          /\ rows' = rows /\ endedAt' = endedAt
      BY <2>2 DEF Settle, Begin, At
    <3> HIDE DEF held
    <3> QED
      BY <3>3, <3>4, <3>5
  <2> QED
    BY <2>1, <2>2 DEF Call
<1> QED
  BY <1>0, <1>1, SetShape DEF Starts, Still

LEMMA PriorShape ==
  ASSUME Basic, NEW w \in Workers, Prior(w) PROVE Calls(w) /\ Reads(w)
<1>0. TypeOK /\ me[w] \in Held
  BY DEF Basic, TypeOK
<1> DEFINE prior == IF HasRows
                     THEN Read({i \in Ids : IsOpen(i)})
                     ELSE {[id |-> Shim[k], key |-> k, state |-> "open", saw |-> 0] :
                              k \in me[w].lists}
          h == [me[w] EXCEPT !.pc = "reconcile", !.prior = prior]
<1>1. /\ me' = [me EXCEPT ![w] = h] /\ rows' = rows /\ endedAt' = endedAt
      /\ me[w].pc = "prior" /\ me[w].job # "settle"
  BY <1>0 DEF Prior, At, TypeOK
<1>2. /\ prior \in SUBSET Write
      /\ \A u \in prior : \/ IsOpen(u.id) /\ rows[u.id].key = u.key
                          \/ Shimmed(u) /\ ~HasRows
  <2>1. CASE HasRows
    <3>1. \A i \in Ids : [id |-> i, key |-> rows[i].key, state |-> "open", saw |-> rows[i].at] \in Write
      BY <1>0 DEF TypeOK, Row, Write
    <3> QED
      BY <2>1, <3>1 DEF Read
  <2>2. CASE ~HasRows
    <3>1. me[w].lists \subseteq Keys
      BY <1>0 DEF Held
    <3>2. \A k \in Keys : [id |-> Shim[k], key |-> k, state |-> "open", saw |-> 0] \in Write
      BY ShimType DEF Write
    <3> QED
      BY <2>2, <3>1, <3>2 DEF Shimmed
  <2> QED
    BY <2>1, <2>2
<1> HIDE DEF prior
<1>3. /\ h \in Held /\ h.pc = "reconcile" /\ h.job = me[w].job /\ h.prior = prior
      /\ h.todo = me[w].todo /\ h.wrote = me[w].wrote /\ h.next = me[w].next
  BY <1>0, <1>2 DEF Held, Places
<1> HIDE DEF h
<1> QED
  BY <1>0, <1>1, <1>2, <1>3, SetShape DEF Reads, Still

\* New ids are nobody else's, one to a wording.
LEMMA MintedShape ==
  ASSUME NEW w \in Workers, NEW reports, NEW over,
         ExistsInjection(NewKeys(w, reports, over), Fresh)
  PROVE  /\ \A u \in Minted(w, reports, over) :
              u.id \in Fresh /\ u.state = "open" /\ u.saw = 0 /\ u.key \in NewKeys(w, reports, over)
         /\ \A u, x \in Minted(w, reports, over) : u.id = x.id => u.key = x.key
<1> DEFINE keys == NewKeys(w, reports, over)
           id == CHOOSE id \in Injection(keys, Fresh) : TRUE
<1>1. id \in Injection(keys, Fresh)
  BY DEF ExistsInjection
<1> HIDE DEF id
<1>2. id \in [keys -> Fresh] /\ \A j, k \in keys : id[j] = id[k] => j = k
  BY <1>1 DEF Injection, IsInjective
<1>3. Minted(w, reports, over) =
        {[id |-> id[k], key |-> k, state |-> "open", saw |-> 0] : k \in keys}
  BY DEF Minted, id
<1> QED
  BY <1>2, <1>3

LEMMA ReconcileShape ==
  ASSUME Basic, NEW w \in Workers, Reconcile(w) PROVE Calls(w) /\ Plans(w)
<1>0. /\ TypeOK /\ me[w] \in Held /\ now \in Nat /\ me[w].prior \subseteq Write
      /\ me[w].lists \subseteq Keys /\ me[w].todo = {}
  <2>1. me[w].pc = "reconcile"
    BY DEF Reconcile, At
  <2> QED
    BY <2>1 DEF Basic, TypeOK, Held
<1>1. PICK reports \in SUBSET Keys, over \in SUBSET Keys :
         /\ ExistsInjection(NewKeys(w, reports, over), Fresh)
         /\ me' = [me EXCEPT ![w].pc = "status", ![w].start = now + 1,
                     ![w].lists = {}, ![w].prior = {},
                     ![w].about = IF me[w].job = "confirm_all" THEN KeysOf(me[w].prior)
                                                               ELSE reports,
                     ![w].says = Says(w, KeysOf(Touched(w, reports, over)
                                                  \cup Carried(w, reports, over)
                                                  \cup Minted(w, reports, over))),
                     ![w].todo = Upserts(w, reports, over) \cup Minted(w, reports, over)]
  BY DEF Reconcile
<1> DEFINE about == IF me[w].job = "confirm_all" THEN KeysOf(me[w].prior) ELSE reports
           minted == Minted(w, reports, over)
           says == Says(w, KeysOf(Touched(w, reports, over) \cup Carried(w, reports, over)
                                    \cup minted))
           todo == Upserts(w, reports, over) \cup minted
           t == now + 1
           h == [me[w] EXCEPT !.pc = "status", !.start = t, !.lists = {}, !.prior = {},
                              !.about = about, !.says = says, !.todo = todo]
<1>2. Still(w) /\ me[w].pc = "reconcile" /\ t \in Nat
  BY <1>0 DEF Reconcile, At, Still
<1>s. me' = [me EXCEPT ![w].pc = "status", ![w].start = t, ![w].lists = {}, ![w].prior = {},
                       ![w].about = about, ![w].says = says, ![w].todo = todo]
  BY <1>1
<1>3. /\ \A u \in minted : u.id \in Fresh /\ u.state = "open" /\ u \in Write
      /\ \A u, x \in minted : u.id = x.id => u.key = x.key
  <2>1. NewKeys(w, reports, over) \subseteq Keys
    BY <1>0 DEF NewKeys, Carried, Write
  <2>2. Fresh \subseteq Ids
    BY DEF Fresh
  <2>3. /\ \A u \in minted : u.id \in Fresh /\ u.state = "open" /\ u.saw = 0
                              /\ u.key \in NewKeys(w, reports, over)
        /\ \A u, x \in minted : u.id = x.id => u.key = x.key
    BY <1>1, MintedShape
  <2>4. \A u \in minted : u = [id |-> u.id, key |-> u.key, state |-> u.state, saw |-> u.saw]
    BY DEF Minted
  <2> QED
    BY <2>1, <2>2, <2>3, <2>4 DEF Write
<1>4. \A u \in Touched(w, reports, over) : u \in me[w].prior /\ u.key \in about
  BY DEF Touched, KeysOf
<1>5. ASSUME NEW u \in Resolved(Ended(w, reports, over))
      PROVE  u \in Write /\ u.state = "resolved"
             /\ \E x \in me[w].prior : x.id = u.id /\ x.key = u.key
  <2>1. PICK x \in Ended(w, reports, over) : u = [x EXCEPT !.state = "resolved"]
    BY DEF Resolved
  <2>2. x \in me[w].prior /\ x \in Write
    BY <1>0, <2>1 DEF Ended
  <2> QED
    BY <2>1, <2>2 DEF Write
<1>6. about \in SUBSET Keys /\ says \in SUBSET Keys /\ todo \in SUBSET Write
  <2>1. about \in SUBSET Keys
    BY <1>0 DEF KeysOf, Write
  <2>2. says \in SUBSET Keys
    BY <1>0, <1>3 DEF Says, KeysOf, Touched, Carried, Write
  <2>3. todo \in SUBSET Write
    BY <1>0, <1>3, <1>4, <1>5 DEF Upserts
  <2> QED
    BY <2>1, <2>2, <2>3
<1>7. /\ \A u \in todo :
           \/ /\ \E x \in me[w].prior : x.id = u.id /\ x.key = u.key
              /\ u.state = "open" => u.key \in about
           \/ u.id \in Fresh /\ u.state = "open" /\ u \in minted
  BY <1>3, <1>4, <1>5 DEF Upserts
<1>8. \A u, x \in todo : u.id = x.id => u.key = x.key \/ \E y \in me[w].prior : y.id = u.id
  BY <1>3, <1>7
<1> HIDE DEF about, says, todo, t
<1>h. me' = [me EXCEPT ![w] = h]
  BY <1>0, <1>s DEF TypeOK
<1>9. /\ h \in Held /\ h.pc = "status" /\ h.job = me[w].job /\ h.prior = {} /\ h.todo = todo
      /\ h.wrote = me[w].wrote /\ h.next = me[w].next /\ h.about = about
  BY <1>0, <1>2, <1>6 DEF Held, Places
<1> HIDE DEF h, minted
<1> QED
  BY <1>0, <1>2, <1>h, <1>7, <1>8, <1>9, SetShape DEF Plans

LEMMA CloseOutShape ==
  ASSUME Basic, NEW w \in Workers, CloseOut(w) PROVE Calls(w) /\ GoesOn(w)
<1>0. TypeOK /\ me[w] \in Held /\ now \in Nat /\ me[w].prior \subseteq Write
      /\ me[w].next \subseteq me[w].todo
  BY DEF Basic, TypeOK, Held
<1>1. PICK lists \in {KeysOf(me[w].prior), {}} :
         me' = [me EXCEPT ![w].pc = "status", ![w].start = now + 1, ![w].says = lists,
                          ![w].lists = {}, ![w].prior = {}]
  BY DEF CloseOut
<1> DEFINE t == now + 1
           h == [me[w] EXCEPT !.pc = "status", !.start = t, !.says = lists,
                              !.lists = {}, !.prior = {}]
<1>2. lists \in SUBSET Keys /\ t \in Nat
  BY <1>0 DEF KeysOf, Write
<1>3. me' = [me EXCEPT ![w] = h] /\ Still(w) /\ me[w].pc = "reconcile"
  BY <1>0, <1>1 DEF CloseOut, At, Still, TypeOK
<1> HIDE DEF t
<1>4. /\ h \in Held /\ h.pc = "status" /\ h.job = me[w].job /\ h.about = me[w].about
      /\ h.prior = {} /\ h.todo = me[w].todo /\ h.wrote = me[w].wrote /\ h.next = me[w].next
  BY <1>0, <1>2 DEF Held, Places
<1> HIDE DEF h
<1> QED
  BY <1>0, <1>3, <1>4, SetShape DEF GoesOn

LEMMA WriteStatusShape ==
  ASSUME Basic, NEW w \in Workers, WriteStatus(w) PROVE Calls(w) /\ GoesOn(w)
<1>0. TypeOK /\ me[w] \in Held
  BY DEF Basic, TypeOK
<1> DEFINE held == [me[w] EXCEPT !.day = "today"]
<1>1. /\ held \in Held /\ held.job = me[w].job /\ held.about = me[w].about
      /\ held.prior = me[w].prior /\ held.todo = me[w].todo /\ held.wrote = me[w].wrote
  BY <1>0 DEF Held, Days
<1>2. Goto(w, held, "commit") /\ Still(w) /\ me[w].pc = "status"
  BY DEF WriteStatus, Still, At
<1> HIDE DEF held
<1>3. "commit" \in Places \ {"idle"}
  BY DEF Places
<1> QED
  BY <1>0, <1>1, <1>2, <1>3, GotoShape DEF GoesOn

LEMMA RowShape ==
  ASSUME Basic, NEW w \in Workers, WriteRow(w) \/ ResolveRow(w)
  PROVE  Calls(w) /\ (Ends(w) \/ GoesOn(w))
<1>0. TypeOK /\ me[w] \in Held /\ me[w].pc = "rows" /\ Free(w) /\ Still(w)
      /\ me[w].next \subseteq me[w].todo /\ me[w].todo \subseteq Write /\ me[w].wrote \subseteq Write
  BY DEF Basic, TypeOK, Held, WriteRow, ResolveRow, At, Still
<1>1. ASSUME NEW u \in me[w].next, NEW wrote, wrote \in {me[w].wrote, me[w].wrote \cup {u}},
             (wrote # me[w].wrote /\ me[w].job = "settle") => IsOpen(u.id) /\ rows[u.id].at = u.saw,
             NEW last \in {"commit", "revise"},
             Goto(w, [me[w] EXCEPT !.todo = @ \ {u}, !.wrote = wrote], last)
      PROVE  Calls(w) /\ GoesOn(w)
  <2> DEFINE held == [me[w] EXCEPT !.todo = @ \ {u}, !.wrote = wrote]
  <2>1. wrote \subseteq Write
    BY <1>0, <1>1
  <2>2. /\ held \in Held /\ held.job = me[w].job /\ held.about = me[w].about
        /\ held.prior = me[w].prior /\ held.todo = me[w].todo \ {u} /\ held.wrote = wrote
    BY <1>0, <2>1 DEF Held
  <2>3. last \in Places \ {"idle"} /\ Goto(w, held, last)
    BY <1>1 DEF Places
  <2> HIDE DEF held
  <2>4. /\ Calls(w)
        /\ me'[w].pc \in {last, "rows"} /\ me'[w].job = me[w].job /\ me'[w].about = me[w].about
        /\ me'[w].prior = me[w].prior /\ me'[w].todo = me[w].todo \ {u} /\ me'[w].wrote = wrote
        /\ me'[w].next \subseteq me'[w].todo
    BY <1>0, <2>2, <2>3, GotoShape
  <2>5. me'[w].wrote = me[w].wrote \/ Writes(w, u)
    BY <1>0, <1>1, <2>4 DEF Writes
  <2> QED
    BY <1>0, <2>4, <2>5 DEF GoesOn
<1>2. CASE WriteRow(w)
  <2>1. PICK u \in me[w].next :
           IF Taken(w, u)
             THEN Stop(w)
             ELSE Goto(w, [me[w] EXCEPT !.todo = @ \ {u}, !.wrote = @ \cup {u}], "commit")
    BY <1>2 DEF WriteRow
  <2>2. me[w].job # "settle"
    BY <1>2 DEF WriteRow
  <2>3. CASE Taken(w, u)
    BY <1>0, <2>1, <2>3, StopShape DEF Ends
  <2>4. CASE ~Taken(w, u)
    <3>1. Goto(w, [me[w] EXCEPT !.todo = @ \ {u}, !.wrote = me[w].wrote \cup {u}], "commit")
      BY <1>0, <2>1, <2>4 DEF Held
    <3> QED
      BY <1>1, <2>2, <3>1
  <2> QED
    BY <2>3, <2>4
<1>3. CASE ResolveRow(w)
  <2>1. PICK u \in me[w].next :
           Goto(w, [me[w] EXCEPT !.todo = @ \ {u},
                      !.wrote = IF IsOpen(u.id) /\ rows[u.id].at = u.saw THEN @ \cup {u} ELSE @],
                "revise")
    BY <1>3 DEF ResolveRow
  <2> DEFINE wrote == IF IsOpen(u.id) /\ rows[u.id].at = u.saw THEN me[w].wrote \cup {u}
                                                              ELSE me[w].wrote
  <2>2. Goto(w, [me[w] EXCEPT !.todo = @ \ {u}, !.wrote = wrote], "revise")
    BY <1>0, <2>1 DEF Held
  <2>3. /\ wrote \in {me[w].wrote, me[w].wrote \cup {u}}
        /\ wrote # me[w].wrote => IsOpen(u.id) /\ rows[u.id].at = u.saw
    OBVIOUS
  <2> HIDE DEF wrote
  <2> QED
    BY <1>1, <2>2, <2>3
<1> QED
  BY <1>2, <1>3

LEMMA SettledShape ==
  ASSUME Basic, NEW w \in Workers, ReadSettled(w)
  PROVE  Calls(w) /\ (Ends(w) \/ Selects(w))
<1>0. TypeOK /\ me[w] \in Held /\ me[w].pc = "prior" /\ me[w].job = "settle" /\ Still(w)
      /\ now \in Nat
  BY DEF Basic, TypeOK, ReadSettled, At, Still
<1> DEFINE settled == {i \in Ids : /\ IsOpen(i) /\ rows[i].key \in me[w].about
                                   /\ rows[i].at < endedAt[rows[i].key]}
           todo == Resolved(Read(settled))
           t == now + 1
           held == [me[w] EXCEPT !.start = t, !.todo = todo]
<1>1. CASE settled = {}
  <2>1. Stop(w)
    BY <1>1 DEF ReadSettled
  <2> QED
    BY <1>0, <2>1, StopShape DEF Ends
<1>2. CASE settled # {}
  <2>1. Goto(w, held, "revise")
    BY <1>2 DEF ReadSettled
  <2>2. \A u \in todo : /\ u \in Write
                        /\ IsOpen(u.id) /\ rows[u.id].key = u.key /\ u.state = "resolved"
                        /\ u.saw = rows[u.id].at /\ u.saw < endedAt[u.key]
    <3> TAKE u \in todo
    <3>1. PICK x \in Read(settled) : u = [x EXCEPT !.state = "resolved"]
      BY DEF Resolved
    <3>2. PICK i \in settled :
             x = [id |-> i, key |-> rows[i].key, state |-> "open", saw |-> rows[i].at]
      BY <3>1 DEF Read
    <3>3. rows[i].key \in Keys /\ rows[i].at \in Nat /\ i \in Ids
      BY <1>0 DEF TypeOK, Row
    <3>4. /\ u.id = i /\ u.key = rows[i].key /\ u.state = "resolved" /\ u.saw = rows[i].at
          /\ u = [id |-> i, key |-> rows[i].key, state |-> "resolved", saw |-> rows[i].at]
      BY <3>1, <3>2
    <3> QED
      BY <3>3, <3>4 DEF Write
  <2> HIDE DEF todo
  <2>3. /\ held \in Held /\ held.job = me[w].job /\ held.about = me[w].about
        /\ held.prior = me[w].prior /\ held.todo = todo /\ held.wrote = me[w].wrote
    <3>1. todo \in SUBSET Write /\ t \in Nat
      BY <1>0, <2>2
    <3> HIDE DEF t
    <3> QED
      BY <1>0, <3>1 DEF Held
  <2> HIDE DEF held
  <2>4. "revise" \in Places \ {"idle"}
    BY DEF Places
  <2>5. /\ Calls(w)
        /\ me'[w].pc \in {"revise", "rows"} /\ me'[w].job = me[w].job
        /\ me'[w].prior = me[w].prior /\ me'[w].todo = todo /\ me'[w].wrote = me[w].wrote
        /\ me'[w].next \subseteq me'[w].todo
    BY <1>0, <2>1, <2>3, <2>4, GotoShape
  <2> QED
    BY <1>0, <2>2, <2>5 DEF Selects
<1> QED
  BY <1>1, <1>2

LEMMA ReviseShape ==
  ASSUME Basic, NEW w \in Workers, Revise(w)
  PROVE  Calls(w) /\ (Ends(w) \/ GoesOn(w))
<1>0. TypeOK /\ me[w] \in Held /\ me[w].pc = "revise" /\ Still(w)
      /\ me[w].next \subseteq me[w].todo
  BY DEF Basic, TypeOK, Revise, At, Still
<1>1. CASE me[w].wrote = {}
  BY <1>0, <1>1, StopShape DEF Revise, Ends
<1>2. CASE me[w].wrote # {}
  <2> DEFINE h == [me[w] EXCEPT !.pc = "commit", !.day = Latest,
                                !.says = status[Latest].lists \ KeysOf(me[w].wrote)]
  <2>1. Latest \in Days
    BY DEF Latest, Days
  <2>2. status[Latest].lists \in SUBSET Keys
    BY <1>0, <2>1 DEF TypeOK, Status
  <2>3. me' = [me EXCEPT ![w] = h]
    BY <1>0, <1>2 DEF Revise, TypeOK
  <2>4. /\ h \in Held /\ h.pc = "commit" /\ h.job = me[w].job /\ h.about = me[w].about
        /\ h.prior = me[w].prior /\ h.todo = me[w].todo /\ h.wrote = me[w].wrote
        /\ h.next = me[w].next
    BY <1>0, <2>1, <2>2 DEF Held, Places
  <2> HIDE DEF h
  <2> QED
    BY <1>0, <2>3, <2>4, SetShape DEF GoesOn
<1> QED
  BY <1>1, <1>2

LEMMA CommitShape ==
  ASSUME Basic, NEW w \in Workers, Commit(w) PROVE Calls(w) /\ Commits(w)
<1>0. TypeOK /\ me[w] \in Held /\ me[w].pc = "commit" /\ me[w].wrote \subseteq Write
      /\ endedAt' = endedAt /\ Stop(w) /\ me[w].start \in Nat
  BY DEF Basic, TypeOK, Commit, At, Held
<1> DEFINE u(i) == CHOOSE u \in me[w].wrote : u.id = i
<1>1. rows' = [i \in Ids |-> IF i \in IdsOf(me[w].wrote)
                                THEN [key |-> u(i).key, state |-> u(i).state, at |-> me[w].start]
                                ELSE rows[i]]
  BY DEF Commit
<1>2. \A i \in IdsOf(me[w].wrote) : u(i) \in me[w].wrote /\ u(i).id = i
  BY DEF IdsOf
<1> HIDE DEF u
<1>3. \A i \in IdsOf(me[w].wrote) :
         [key |-> u(i).key, state |-> u(i).state, at |-> me[w].start] \in Row
  BY <1>0, <1>2 DEF Write, Row
<1>4. rows' \in [Ids -> Row]
  BY <1>0, <1>1, <1>3 DEF TypeOK
<1>5. ASSUME NEW i \in Ids
      PROVE  \/ rows'[i] = rows[i] /\ i \notin IdsOf(me[w].wrote)
             \/ \E x \in me[w].wrote : x.id = i /\ rows'[i].key = x.key /\ rows'[i].state = x.state
  <2>1. CASE i \in IdsOf(me[w].wrote)
    <3>1. rows'[i] = [key |-> u(i).key, state |-> u(i).state, at |-> me[w].start]
      BY <1>1, <2>1
    <3> QED
      BY <1>2, <2>1, <3>1
  <2>2. CASE i \notin IdsOf(me[w].wrote)
    BY <1>1, <2>2
  <2> QED
    BY <2>1, <2>2
<1> QED
  BY <1>0, <1>4, <1>5, StopShape DEF Commits

\* Every step of a worker is one of these.
LEMMA WorkerStep ==
  ASSUME Basic, NEW w \in Workers, ByWorker(w) PROVE Calls(w) /\ Shapes(w)
<1>1. CASE Victim(w) \/ Crash(w)
  BY <1>1, StopShape DEF Basic, Victim, Crash, Ends, Still, Shapes
<1> QED
  BY <1>1, CallShape, PriorShape, ReconcileShape, CloseOutShape, WriteStatusShape, RowShape,
     SettledShape, ReviseShape, CommitShape DEF ByWorker, Step, Shapes

-----------------------------------------------------------------------------
\* A step of the system is one worker's, the end of a wait, or changes nothing.
LEMMA WhoseStep ==
  ASSUME [Next]_vars
  PROVE  \/ \E w \in Workers : ByWorker(w)
         \/ \E k \in Keys : EndWait(k)
         \/ UNCHANGED vars
  BY DEF Next, ByWorker

LEMMA OthersType ==
  ASSUME Basic, NEW w \in Workers, ByWorker(w)
  PROVE  /\ rows' \in [Ids -> Row] /\ status' \in [Days -> Status]
         /\ endedAt' = endedAt /\ now' \in Nat /\ calls' \in Nat /\ crashes' \in Nat
         /\ commits' \in Nat /\ raced' \in BOOLEAN
<1> USE DEF Basic, TypeOK
<1>1. CASE Call(w)
  <2>1. ASSUME NEW job, NEW held, Begin(w, job, held)
        PROVE  /\ rows' = rows /\ status' = status /\ endedAt' = endedAt /\ now' = now
               /\ calls' = calls + 1 /\ crashes' = crashes /\ commits' = commits /\ raced' = raced
    BY <2>1 DEF Begin
  <2>2. PICK job, held : Begin(w, job, held)
    BY <1>1 DEF Call, Open, Settle
  <2> QED
    BY <2>1, <2>2
<1>2. CASE Prior(w) \/ WriteStatus(w) \/ WriteRow(w) \/ ResolveRow(w) \/ Revise(w) \/ Victim(w)
  BY <1>2 DEF Prior, WriteStatus, WriteRow, ResolveRow, Revise, Victim
<1>3. CASE Reconcile(w) \/ CloseOut(w) \/ ReadSettled(w)
  <2>1. /\ rows' = rows /\ status' = status /\ endedAt' = endedAt /\ calls' = calls
        /\ crashes' = crashes /\ commits' = commits /\ raced' = raced
    BY <1>3 DEF Reconcile, CloseOut, ReadSettled
  <2>2. now' = now + 1 \/ now' = now
    <3>1. CASE Reconcile(w)
      BY <3>1 DEF Reconcile
    <3>2. CASE CloseOut(w)
      BY <3>2 DEF CloseOut
    <3>3. CASE ReadSettled(w)
      BY <3>3 DEF ReadSettled
    <3> QED
      BY <1>3, <3>1, <3>2, <3>3
  <2> QED
    BY <2>1, <2>2
<1>4. CASE Crash(w)
  BY <1>4 DEF Crash
<1>5. CASE Commit(w)
  <2>1. rows' \in [Ids -> Row]
    BY <1>5, CommitShape DEF Commits
  <2>2. [given |-> TRUE, lists |-> me[w].says] \in Status
    BY DEF Held, Status
  <2>3. status' \in [Days -> Status]
    BY <1>5, <2>2 DEF Commit
  <2>4. raced' \in BOOLEAN
    BY <1>5 DEF Commit
  <2> QED
    BY <1>5, <2>1, <2>3, <2>4 DEF Commit
<1> QED
  BY <1>1, <1>2, <1>3, <1>4, <1>5 DEF ByWorker, Step

LEMMA BasicNext == ASSUME Basic, [Next]_vars PROVE Basic'
<1>1. ASSUME NEW w \in Workers, ByWorker(w) PROVE Basic'
  <2>0. Calls(w) /\ Shapes(w)
    BY <1>1, WorkerStep
  <2>1. TypeOK'
    BY <1>1, <2>0, OthersType DEF Calls, Basic, TypeOK
  <2>2. /\ me'[w].next \subseteq me'[w].todo
        /\ me'[w].pc \in {"idle", "prior", "reconcile"} => me'[w].todo = {} /\ me'[w].wrote = {}
        /\ me'[w].pc \in {"idle", "prior"} => me'[w].prior = {}
        /\ me'[w].job = "settle" => me'[w].pc \notin {"reconcile", "status"}
    <3>0. /\ me[w].next \subseteq me[w].todo
          /\ me[w].pc \in {"idle", "prior", "reconcile"} => me[w].todo = {} /\ me[w].wrote = {}
          /\ me[w].job = "settle" => me[w].pc \notin {"reconcile", "status"}
      BY DEF Basic
    <3>1. CASE Ends(w) \/ Commits(w)
      BY <3>1, RestType DEF Ends, Commits
    <3>2. CASE Starts(w)
      BY <3>2 DEF Starts
    <3>3. CASE Reads(w) \/ Plans(w)
      BY <3>0, <3>3 DEF Reads, Plans
    <3>4. CASE Selects(w)
      BY <3>4 DEF Selects
    <3>5. CASE GoesOn(w)
      BY <3>0, <3>5 DEF GoesOn
    <3> QED
      BY <2>0, <3>1, <3>2, <3>3, <3>4, <3>5 DEF Shapes
  <2> QED
    BY <2>0, <2>1, <2>2 DEF Basic, Calls
<1>2. ASSUME NEW k \in Keys, EndWait(k) PROVE Basic'
  BY <1>2 DEF EndWait, Basic, TypeOK
<1>3. CASE UNCHANGED vars
  BY <1>3 DEF vars, Basic, TypeOK
<1> QED
  BY <1>1, <1>2, <1>3, WhoseStep

\* What a call holds is of the types it reads and writes.
LEMMA ClaimsType ==
  ASSUME Basic, NEW w \in Workers
  PROVE  Claims(w) \subseteq Write /\ me[w].prior \subseteq Claims(w)
         /\ me[w].todo \subseteq Claims(w) /\ me[w].wrote \subseteq Claims(w)
         /\ \A u \in Claims(w) : u.id \in Ids /\ u.key \in Keys /\ u.state \in {"open", "resolved"}
  BY DEF Basic, TypeOK, Held, Claims, Write

\* A call that goes on holds no more than it did.
LEMMA GoesOnClaims ==
  ASSUME Basic, NEW w \in Workers, GoesOn(w)
  PROVE  Claims(w)' \subseteq Claims(w) /\ me'[w].prior \subseteq me[w].prior
         /\ me'[w].todo \cup me'[w].wrote \subseteq me[w].todo \cup me[w].wrote
  BY DEF Basic, GoesOn, Writes, Claims

-----------------------------------------------------------------------------
LEMMA KeyNext == ASSUME Basic, OneKeyAnId, [Next]_vars PROVE OneKeyAnId'
<1>s. \A j, k \in Keys : Shim[j] = Shim[k] => j = k
  BY ShimType
<1>i. \A k \in Keys : Shim[k] \in Ids
  BY ShimType
<1>1. ASSUME NEW w \in Workers, ByWorker(w) PROVE OneKeyAnId'
  <2>0. /\ Calls(w) /\ Shapes(w) /\ Basic'
        /\ \A v \in Workers \ {w} : Claims(v)' = Claims(v) /\ me'[v].prior = me[v].prior
    BY <1>1, WorkerStep, BasicNext DEF Calls, Claims, Next, ByWorker
  <2>1. ASSUME rows' = rows, Claims(w)' \subseteq Claims(w), me'[w].prior \subseteq me[w].prior
        PROVE  OneKeyAnId'
    <3>1. \A v \in Workers : Claims(v)' \subseteq Claims(v) /\ me'[v].prior \subseteq me[v].prior
      BY <2>0, <2>1
    <3> QED
      BY <2>1, <3>1 DEF OneKeyAnId, Keyed
  <2>2. ASSUME rows' = rows,
               \A u \in Claims(w)' : \/ rows[u.id].state # "none" /\ rows[u.id].key = u.key
                                     \/ Shimmed(u)
        PROVE  OneKeyAnId'
    <3>1. \A u \in Claims(w)' : u.id \in Ids /\ u.key \in Keys
      BY <2>0, ClaimsType DEF Basic, TypeOK, Held, Claims, Write
    <3>2. \A u \in Claims(w)' : Keyed(u)
      BY <1>s, <2>2, <3>1 DEF OneKeyAnId, Keyed, Shimmed
    <3>3. \A v \in Workers : \A u \in Claims(v)' : Keyed(u)
      BY <2>0, <3>2 DEF OneKeyAnId
    <3>4. \A u \in Claims(w)' : \A v \in Workers : \A x \in Claims(v)' : u.id = x.id => u.key = x.key
      BY <2>2, <3>1, <3>3 DEF Keyed, Shimmed
    <3>5. \A u, v \in Workers : \A x \in Claims(u)', y \in Claims(v)' : x.id = y.id => x.key = y.key
      <4> SUFFICES ASSUME NEW u \in Workers, NEW v \in Workers, NEW x \in Claims(u)',
                          NEW y \in Claims(v)', x.id = y.id
                   PROVE  x.key = y.key
        OBVIOUS
      <4>1. CASE u = w
        BY <3>4, <4>1
      <4>2. CASE v = w
        BY <3>4, <4>2
      <4>3. CASE u # w /\ v # w
        BY <2>0, <4>3 DEF OneKeyAnId
      <4> QED
        BY <4>1, <4>2, <4>3
    <3>6. \A u \in me'[w].prior : u \in Claims(w)'
      BY DEF Claims
    <3>7. \A v \in Workers : \A u \in me'[v].prior :
            rows[u.id].state # "none" \/ \E k \in Keys : Shim[k] = u.id
      BY <2>0, <2>2, <3>1, <3>6 DEF OneKeyAnId, Shimmed
    <3>8. \A k \in Keys : rows'[Shim[k]].state # "none" => rows'[Shim[k]].key = k
      BY <2>2 DEF OneKeyAnId
    <3>9. \A v \in Workers : \A u \in Claims(v)' : Keyed(u)'
      BY <2>2, <3>3 DEF Keyed
    <3> QED
      BY <2>2, <3>5, <3>7, <3>8, <3>9 DEF OneKeyAnId
  <2>3. CASE Ends(w) \/ Starts(w)
    BY <2>1, <2>3, RestType DEF Ends, Starts, Still, Claims
  <2>4. CASE GoesOn(w)
    BY <2>1, <2>4, GoesOnClaims DEF GoesOn, Still
  <2>5. CASE Reads(w)
    <3>1. Claims(w)' = me'[w].prior
      BY <2>5 DEF Reads, Basic, Claims
    <3>2. \A u \in Claims(w)' : \/ rows[u.id].state # "none" /\ rows[u.id].key = u.key
                                \/ Shimmed(u)
      BY <2>5, <3>1 DEF Reads, IsOpen
    <3> QED
      BY <2>2, <2>5, <3>2 DEF Reads, Still
  <2>6. CASE Selects(w)
    <3>1. Claims(w)' = me'[w].todo
      BY <2>6 DEF Selects, Basic, Claims
    <3>2. \A u \in Claims(w)' : rows[u.id].state # "none" /\ rows[u.id].key = u.key
      BY <2>6, <3>1 DEF Selects, IsOpen
    <3> QED
      BY <2>2, <2>6, <3>2 DEF Selects, Still
  <2>7. CASE Plans(w)
    <3>0. rows' = rows /\ Claims(w)' = me'[w].todo /\ me'[w].prior = {}
          /\ me[w].prior \subseteq Claims(w)
      BY <2>7 DEF Plans, Still, Basic, Claims
    <3>1. \A u \in Claims(w)' : u.id \in Ids /\ u.key \in Keys
      BY <2>0, ClaimsType DEF Basic, TypeOK, Held, Claims, Write
    <3>2. \A v \in Workers : \A x \in me[v].prior : x.id \notin Fresh
      BY DEF OneKeyAnId, Fresh
    <3>3. \A v \in Workers : \A x \in Claims(v) : x.id \notin Fresh
      BY <3>2 DEF Fresh, Claims, IdsOf
    <3>4. \A u \in Claims(w)' : \/ \E x \in me[w].prior : x.id = u.id /\ x.key = u.key
                                \/ u.id \in Fresh
      BY <2>7, <3>0 DEF Plans
    <3>5. \A u \in Claims(w)' : Keyed(u)
      BY <3>0, <3>4 DEF OneKeyAnId, Keyed, Fresh
    <3>6. ASSUME NEW u \in Claims(w)', NEW v \in Workers \ {w}, NEW x \in Claims(v), u.id = x.id
          PROVE  u.key = x.key
      <4>1. PICK y \in me[w].prior : y.id = u.id /\ y.key = u.key
        BY <3>3, <3>4, <3>6
      <4> QED
        BY <3>0, <3>6, <4>1 DEF OneKeyAnId
    <3>7. ASSUME NEW u \in Claims(w)', NEW x \in Claims(w)', u.id = x.id
          PROVE  u.key = x.key
      <4>1. CASE \E y \in me[w].prior : y.id = u.id
        <5>1. u.id \notin Fresh
          BY <3>2, <4>1
        <5>2. PICK y \in me[w].prior : y.id = u.id /\ y.key = u.key
          BY <3>4, <5>1
        <5>3. PICK z \in me[w].prior : z.id = x.id /\ z.key = x.key
          BY <3>4, <3>7, <5>1
        <5> QED
          BY <3>0, <3>7, <5>2, <5>3 DEF OneKeyAnId
      <4>2. CASE ~\E y \in me[w].prior : y.id = u.id
        BY <2>7, <3>0, <3>7, <4>2 DEF Plans
      <4> QED
        BY <4>1, <4>2
    <3>8. \A u, v \in Workers : \A x \in Claims(u)', y \in Claims(v)' : x.id = y.id => x.key = y.key
      <4> SUFFICES ASSUME NEW u \in Workers, NEW v \in Workers, NEW x \in Claims(u)',
                          NEW y \in Claims(v)', x.id = y.id
                   PROVE  x.key = y.key
        OBVIOUS
      <4>1. CASE u = w /\ v = w
        BY <3>7, <4>1
      <4>2. CASE u = w /\ v # w
        BY <2>0, <3>6, <4>2
      <4>3. CASE u # w /\ v = w
        BY <2>0, <3>6, <4>3
      <4>4. CASE u # w /\ v # w
        BY <2>0, <4>4 DEF OneKeyAnId
      <4> QED
        BY <4>1, <4>2, <4>3, <4>4
    <3>9. \A v \in Workers : \A u \in Claims(v)' : Keyed(u)'
      BY <2>0, <3>0, <3>5 DEF OneKeyAnId, Keyed
    <3> QED
      BY <2>0, <3>0, <3>8, <3>9 DEF OneKeyAnId
  <2>8. CASE Commits(w)
    <3>0. Claims(w)' = {} /\ me'[w].prior = {}
      BY <2>8, RestType DEF Commits, Claims
    <3>1. ASSUME NEW i \in Ids
          PROVE  \/ rows'[i] = rows[i]
                 \/ \E x \in Claims(w) : x.id = i /\ rows'[i].key = x.key
                                         /\ rows'[i].state # "none"
      BY <2>8, <3>1, ClaimsType DEF Commits
    <3>2. \A k \in Keys : rows'[Shim[k]].state # "none" => rows'[Shim[k]].key = k
      BY <1>i, <3>1 DEF OneKeyAnId, Keyed
    <3>3. ASSUME NEW v \in Workers \ {w}, NEW u \in Claims(v) PROVE Keyed(u)'
      <4>1. u.id \in Ids /\ Keyed(u)
        BY ClaimsType DEF OneKeyAnId
      <4>2. rows'[u.id].state # "none" => rows'[u.id].key = u.key
        BY <3>1, <4>1 DEF OneKeyAnId, Keyed
      <4> QED
        BY <4>1, <4>2 DEF Keyed
    <3>4. \A v \in Workers \ {w} : \A u \in me[v].prior :
            rows'[u.id].state # "none" \/ \E k \in Keys : Shim[k] = u.id
      BY <3>1, ClaimsType DEF OneKeyAnId
    <3>5. \A v \in Workers : \A u \in Claims(v)' : v # w /\ u \in Claims(v)
      BY <2>0, <3>0
    <3>6. \A v \in Workers : \A u \in Claims(v)' : Keyed(u)'
      BY <3>3, <3>5
    <3>7. \A v \in Workers : \A u \in me'[v].prior : v # w /\ u \in me[v].prior
      BY <2>0, <3>0
    <3> QED
      BY <3>2, <3>4, <3>5, <3>6, <3>7 DEF OneKeyAnId
  <2> QED
    BY <2>0, <2>3, <2>4, <2>5, <2>6, <2>7, <2>8 DEF Shapes
<1>2. ASSUME NEW k \in Keys, EndWait(k) PROVE OneKeyAnId'
  BY <1>2 DEF EndWait, OneKeyAnId, Keyed, Claims
<1>3. CASE UNCHANGED vars
  BY <1>3 DEF vars, OneKeyAnId, Keyed, Claims
<1> QED
  BY <1>1, <1>2, <1>3, WhoseStep

LEMMA LocksNext == ASSUME Basic, RowsAreLocked, [Next]_vars PROVE RowsAreLocked'
<1>1. ASSUME NEW w \in Workers, ByWorker(w) PROVE RowsAreLocked'
  <2>0. Calls(w) /\ Shapes(w) /\ \A v \in Workers \ {w} : me'[v].wrote = me[v].wrote
    BY <1>1, WorkerStep DEF Calls
  <2>1. ASSUME NEW u \in me'[w].wrote, NEW v \in Workers \ {w}, NEW x \in me[v].wrote
        PROVE  u.id # x.id
    <3>1. u \in me[w].wrote \/ Writes(w, u)
      <4>1. CASE Ends(w) \/ Starts(w) \/ Commits(w)
        BY <4>1, RestType DEF Ends, Starts, Commits
      <4>2. CASE Reads(w) \/ Plans(w) \/ Selects(w)
        BY <4>2 DEF Reads, Plans, Selects
      <4>3. CASE GoesOn(w)
        BY <4>3 DEF GoesOn, Writes
      <4> QED
        BY <2>0, <4>1, <4>2, <4>3 DEF Shapes
    <3>2. CASE u \in me[w].wrote
      BY <3>2 DEF RowsAreLocked
    <3>3. CASE Writes(w, u)
      BY <3>3 DEF Writes, Free, Busy, At
    <3> QED
      BY <3>1, <3>2, <3>3
  <2> QED
    BY <2>0, <2>1 DEF RowsAreLocked
<1>2. ASSUME NEW k \in Keys, EndWait(k) PROVE RowsAreLocked'
  BY <1>2 DEF EndWait, RowsAreLocked
<1>3. CASE UNCHANGED vars
  BY <1>3 DEF vars, RowsAreLocked
<1> QED
  BY <1>1, <1>2, <1>3, WhoseStep

LEMMA SettledNext ==
  ASSUME Basic, RowsAreLocked, SettledInTime, [Next]_vars PROVE SettledInTime'
<1> DEFINE Own(w) ==
      me[w].job = "settle" =>
        /\ \A u \in me[w].todo \cup me[w].wrote : u.state = "resolved" /\ u.saw < endedAt[u.key]
        /\ \A u \in me[w].wrote : IsOpen(u.id) /\ rows[u.id].at = u.saw
<1>0. \A w \in Workers : Own(w)
  BY DEF SettledInTime
<1>1. ASSUME NEW w \in Workers, ByWorker(w) PROVE SettledInTime'
  <2>0. Calls(w) /\ Shapes(w) /\ \A v \in Workers \ {w} : me'[v] = me[v]
    BY <1>1, WorkerStep DEF Calls
  <2>1. Own(w)'
    <3>1. CASE Ends(w) \/ Starts(w) \/ Commits(w)
      BY <3>1, RestType DEF Ends, Starts, Commits
    <3>2. CASE Reads(w) \/ Plans(w)
      BY <3>2 DEF Reads, Plans, Basic
    <3>3. CASE Selects(w)
      BY <3>3 DEF Selects, Still, Basic
    <3>4. CASE GoesOn(w)
      <4>1. /\ rows' = rows /\ endedAt' = endedAt /\ me'[w].job = me[w].job
            /\ me'[w].todo \subseteq me[w].todo /\ me[w].next \subseteq me[w].todo
        BY <3>4 DEF GoesOn, Still, Basic
      <4>2. ASSUME NEW u \in me'[w].wrote, me[w].job = "settle"
            PROVE  /\ u \in me[w].todo \cup me[w].wrote
                   /\ IsOpen(u.id) /\ rows[u.id].at = u.saw
        <5>1. u \in me[w].wrote \/ (u \in me[w].next /\ Writes(w, u))
          BY <3>4 DEF GoesOn, Writes
        <5> QED
          BY <1>0, <4>1, <4>2, <5>1 DEF Writes
      <4> QED
        BY <1>0, <4>1, <4>2 DEF IsOpen
    <3> QED
      BY <2>0, <3>1, <3>2, <3>3, <3>4 DEF Shapes
  <2>2. ASSUME NEW v \in Workers \ {w} PROVE Own(v)'
    <3>1. endedAt' = endedAt /\ me'[v] = me[v]
      BY <2>0 DEF Shapes, Ends, Starts, Reads, Plans, Selects, GoesOn, Commits, Still
    <3>2. ASSUME NEW u \in me[v].wrote PROVE rows'[u.id] = rows[u.id]
      <4>1. CASE Commits(w)
        <5>1. u.id \in Ids /\ \A x \in me[w].wrote : x.id # u.id
          BY ClaimsType DEF RowsAreLocked
        <5> QED
          BY <4>1, <5>1 DEF Commits
      <4>2. CASE ~Commits(w)
        BY <2>0, <4>2 DEF Shapes, Ends, Starts, Reads, Plans, Selects, GoesOn, Still
      <4> QED
        BY <4>1, <4>2
    <3> QED
      BY <1>0, <3>1, <3>2 DEF IsOpen
  <2> QED
    BY <2>1, <2>2 DEF SettledInTime
<1>2. ASSUME NEW k \in Keys, EndWait(k) PROVE SettledInTime'
  <2>1. rows' = rows /\ me' = me /\ endedAt[k] = 0 /\ endedAt' = [endedAt EXCEPT ![k] = now + 1]
    BY <1>2 DEF EndWait
  <2>2. ASSUME NEW w \in Workers, NEW u \in me[w].todo \cup me[w].wrote,
               u.saw < endedAt[u.key]
        PROVE  endedAt'[u.key] = endedAt[u.key]
    <3>1. u.saw \in Nat /\ u.key \in Keys
      BY DEF Basic, TypeOK, Held, Write
    <3>2. u.key # k
      BY <2>1, <2>2, <3>1
    <3> QED
      BY <2>1, <3>1, <3>2 DEF Basic, TypeOK
  <2> QED
    BY <2>1, <2>2 DEF SettledInTime, IsOpen
<1>3. CASE UNCHANGED vars
  BY <1>3 DEF vars, SettledInTime, IsOpen
<1> QED
  BY <1>1, <1>2, <1>3, WhoseStep

LEMMA OpensNext ==
  ASSUME Basic, OneKeyAnId, OpensItsOwn, [Next]_vars PROVE OpensItsOwn'
<1>1. ASSUME NEW w \in Workers, ByWorker(w) PROVE OpensItsOwn'
  <2>0. /\ Calls(w) /\ Shapes(w)
        /\ \A v \in Workers \ {w} : me'[v] = me[v] /\ Claims(v)' = Claims(v)
    BY <1>1, WorkerStep DEF Calls, Claims
  <2>1. ASSUME NEW v \in Workers \ {w}, NEW u \in me[v].todo \cup me[v].wrote, New(v, u)
        PROVE  New(v, u)'
    <3>0. u.id \in Ids /\ u.id \notin Fresh
      BY ClaimsType DEF Fresh, IdsOf, Claims
    <3>n. rows[u.id].state = "none" /\ \A x \in Claims(w) : x.id # u.id
      BY <2>1 DEF New
    <3>s. \A k \in Keys : Shim[k] # u.id
      BY <2>1 DEF New
    <3>1. rows'[u.id].state = "none"
      <4>1. CASE Commits(w)
        BY <3>0, <3>n, <4>1, ClaimsType DEF Commits
      <4>2. CASE ~Commits(w)
        BY <2>0, <3>n, <4>2 DEF Shapes, Ends, Starts, Reads, Plans, Selects, GoesOn, Still
      <4> QED
        BY <4>1, <4>2
    <3>2. \A x \in Claims(w)' : x.id # u.id
      <4>1. CASE Ends(w) \/ Starts(w) \/ Commits(w)
        BY <4>1, RestType DEF Ends, Starts, Commits, Claims
      <4>2. CASE GoesOn(w)
        BY <3>n, <4>2, GoesOnClaims
      <4>3. CASE Reads(w)
        <5>1. Claims(w)' = me'[w].prior
          BY <4>3 DEF Reads, Basic, Claims
        <5>2. \A x \in me'[w].prior : x.key \in Keys
          BY <1>1, BasicNext DEF Basic, TypeOK, Held, Write, Next, ByWorker
        <5> QED
          BY <3>n, <3>s, <4>3, <5>1, <5>2 DEF Reads, IsOpen, Shimmed
      <4>4. CASE Selects(w)
        <5>1. Claims(w)' = me'[w].todo
          BY <4>4 DEF Selects, Basic, Claims
        <5> QED
          BY <3>n, <4>4, <5>1 DEF Selects, IsOpen
      <4>5. CASE Plans(w)
        <5>1. Claims(w)' = me'[w].todo /\ me[w].prior \subseteq Claims(w)
          BY <4>5 DEF Plans, Basic, Claims
        <5> QED
          BY <3>0, <3>n, <4>5, <5>1 DEF Plans
      <4> QED
        BY <2>0, <4>1, <4>2, <4>3, <4>4, <4>5 DEF Shapes
    <3>3. \A x \in Workers \ {v} : \A y \in Claims(x)' : y.id # u.id
      BY <2>0, <2>1, <3>2 DEF New
    <3> QED
      BY <3>1, <3>3, <3>s DEF New
  <2>2. ASSUME NEW v \in Workers \ {w}, NEW u \in me'[v].todo \cup me'[v].wrote, u.state = "open"
        PROVE  u.key \in me'[v].about \/ New(v, u)'
    BY <2>0, <2>1, <2>2 DEF OpensItsOwn
  <2>3. ASSUME NEW u \in me'[w].todo \cup me'[w].wrote, u.state = "open"
        PROVE  u.key \in me'[w].about \/ New(w, u)'
    <3>1. CASE Ends(w) \/ Starts(w) \/ Commits(w)
      BY <2>3, <3>1, RestType DEF Ends, Starts, Commits
    <3>2. CASE Reads(w)
      BY <2>3, <3>2 DEF Reads, Basic
    <3>3. CASE Selects(w)
      BY <2>3, <3>3 DEF Selects, Basic
    <3>4. CASE GoesOn(w)
      <4>1. u \in me[w].todo \cup me[w].wrote /\ me'[w].about = me[w].about /\ rows' = rows
        BY <3>4, GoesOnClaims DEF GoesOn, Still
      <4>2. CASE u.key \in me[w].about
        BY <4>1, <4>2
      <4>3. CASE New(w, u)
        <5>1. \A v \in Workers \ {w} : \A x \in Claims(v)' : x.id # u.id
          BY <2>0, <4>3 DEF New
        <5> QED
          BY <4>1, <4>3, <5>1 DEF New
      <4> QED
        BY <2>3, <4>1, <4>2, <4>3 DEF OpensItsOwn
    <3>5. CASE Plans(w)
      <4>1. u \in me'[w].todo /\ rows' = rows
        BY <3>5 DEF Plans, Still, Basic
      <4>2. CASE u.id \in Fresh
        <5>1. \A v \in Workers : \A x \in me[v].prior : x.id \notin Fresh
          BY DEF OneKeyAnId, Fresh
        <5>2. \A v \in Workers : \A x \in Claims(v) : x.id \notin Fresh
          BY <5>1 DEF Fresh, Claims, IdsOf
        <5>3. \A v \in Workers \ {w} : \A x \in Claims(v)' : x.id # u.id
          BY <2>0, <4>2, <5>2
        <5>4. rows[u.id].state = "none" /\ \A k \in Keys : Shim[k] # u.id
          BY <4>2 DEF Fresh
        <5> QED
          BY <4>1, <5>3, <5>4 DEF New
      <4> QED
        BY <2>3, <3>5, <4>1, <4>2 DEF Plans
    <3> QED
      BY <2>0, <3>1, <3>2, <3>3, <3>4, <3>5 DEF Shapes
  <2> QED
    BY <2>2, <2>3 DEF OpensItsOwn
<1>2. ASSUME NEW k \in Keys, EndWait(k) PROVE OpensItsOwn'
  BY <1>2 DEF EndWait, OpensItsOwn, New, Claims
<1>3. CASE UNCHANGED vars
  BY <1>3 DEF vars, OpensItsOwn, New, Claims
<1> QED
  BY <1>1, <1>2, <1>3, WhoseStep

-----------------------------------------------------------------------------
LEMMA InitIInv == Init => IInv
<1> SUFFICES ASSUME Init PROVE IInv
  OBVIOUS
<1>1. PICK listed \in SUBSET Keys, legacy \in BOOLEAN :
        /\ status = [d \in Days |-> [given |-> d = "before",
                                     lists |-> IF d = "before" THEN listed ELSE {}]]
        /\ rows = [i \in Ids |->
             IF ~legacy /\ \E k \in listed : Shim[k] = i
               THEN [key |-> CHOOSE k \in listed : Shim[k] = i, state |-> "open", at |-> 1]
               ELSE NoRow]
  BY DEF Init
<1>2. /\ me = [w \in Workers |-> Rest] /\ endedAt = [k \in Keys |-> 0]
      /\ now = 1 /\ calls = 0 /\ crashes = 0 /\ commits = 0 /\ raced = FALSE
  BY DEF Init
<1>3. \A w \in Workers : me[w] = Rest /\ Claims(w) = {} /\ me[w].job = Rest.job
  BY <1>2, RestType DEF Claims
<1>4. NoRow \in Row /\ NoRow.state = "none"
  <2>1. (CHOOSE k \in Keys : TRUE) \in Keys
    BY ShimType
  <2> QED
    BY <2>1 DEF NoRow, Row
<1> DEFINE key(i) == CHOOSE k \in listed : Shim[k] = i
<1>5. ASSUME NEW i \in Ids, \E k \in listed : Shim[k] = i
      PROVE  key(i) \in listed /\ Shim[key(i)] = i
  BY <1>5
<1>r. rows = [i \in Ids |-> IF ~legacy /\ \E k \in listed : Shim[k] = i
                               THEN [key |-> key(i), state |-> "open", at |-> 1]
                               ELSE NoRow]
  BY <1>1
<1> HIDE DEF key
<1>6. rows \in [Ids -> Row]
  <2>1. ASSUME NEW i \in Ids, \E k \in listed : Shim[k] = i
        PROVE  [key |-> key(i), state |-> "open", at |-> 1] \in Row
    BY <1>5, <2>1 DEF Row
  <2> QED
    BY <1>r, <1>4, <2>1
<1>7. status \in [Days -> Status]
  BY <1>1 DEF Status
<1>8. TypeOK
  BY <1>2, <1>6, <1>7, RestType DEF TypeOK
<1>9. Basic
  BY <1>3, <1>8, RestType DEF Basic, Rest
<1>10. ASSUME NEW k \in Keys, rows[Shim[k]].state # "none" PROVE rows[Shim[k]].key = k
  <2>1. Shim[k] \in Ids
    BY ShimType
  <2>2. /\ \E j \in listed : Shim[j] = Shim[k]
        /\ rows[Shim[k]] = [key |-> key(Shim[k]), state |-> "open", at |-> 1]
    BY <1>4, <1>10, <1>r, <2>1
  <2>3. key(Shim[k]) = k
    BY <1>5, <2>1, <2>2, ShimType
  <2> QED
    BY <2>2, <2>3
<1>11. OneKeyAnId
  BY <1>3, <1>10, RestType DEF OneKeyAnId
<1>12. RowsAreLocked /\ SettledInTime /\ OpensItsOwn
  BY <1>3, RestType DEF RowsAreLocked, SettledInTime, OpensItsOwn
<1> QED
  BY <1>9, <1>11, <1>12 DEF IInv

LEMMA IInvNext == IInv /\ [Next]_vars => IInv'
  BY BasicNext, KeyNext, LocksNext, SettledNext, OpensNext DEF IInv

LEMMA Inductive == Spec => []IInv
  BY InitIInv, IInvNext, PTL DEF Spec

-----------------------------------------------------------------------------
\* The rows and statuses stay well formed, and a call that is over holds no lock
\* and leaves nothing half written.
THEOREM TypeCorrect == Spec => []TypeOK
<1>1. IInv => TypeOK
  BY DEF IInv, Basic
<1> QED
  BY <1>1, Inductive, PTL

\* A settlement resolves only rows last written before their wait ended, whoever
\* writes them between its reading them and its commit.
THEOREM RestatedStaysCorrect == Spec => RestatedStays
<1> DEFINE Restated ==
      \A w \in Workers, i \in Ids :
        (/\ me[w].job = "settle" /\ me[w].pc = "commit" /\ me'[w].pc = "idle"
         /\ IsOpen(i) /\ rows'[i].state = "resolved")
            => rows[i].at < endedAt[rows[i].key]
<1>1. IInv /\ [Next]_vars => [Restated]_vars
  <2> SUFFICES ASSUME IInv, [Next]_vars, NEW w \in Workers, NEW i \in Ids,
                      me[w].job = "settle", me[w].pc = "commit", me'[w].pc = "idle",
                      IsOpen(i), rows'[i].state = "resolved"
               PROVE  rows[i].at < endedAt[rows[i].key]
    OBVIOUS
  <2>1. ByWorker(w)
    <3>1. ASSUME NEW v \in Workers, ByWorker(v), v # w PROVE FALSE
      BY <3>1, WorkerStep DEF IInv, Calls
    <3>2. ASSUME NEW k \in Keys, EndWait(k) PROVE FALSE
      BY <3>2 DEF EndWait
    <3> QED
      BY <3>1, <3>2, WhoseStep DEF vars
  <2>2. Commits(w)
    BY <2>1, WorkerStep, RestType
       DEF IInv, Shapes, Ends, Starts, Reads, Plans, Selects, GoesOn, Still, IsOpen
  <2>3. PICK u \in me[w].wrote : u.id = i
    BY <2>2 DEF Commits, IsOpen
  <2>4. u.saw < endedAt[u.key] /\ rows[i].at = u.saw
    BY <2>3 DEF IInv, SettledInTime
  <2>5. rows[i].key = u.key
    BY <2>3 DEF IInv, OneKeyAnId, Keyed, Claims, IsOpen
  <2> QED
    BY <2>4, <2>5
<1> QED
  BY <1>1, Inductive, PTL DEF Spec, RestatedStays

\* A resolved blocker opens again only for a call that is about it: one that read
\* it as open and carried it forward does not bring it back.
THEOREM SettledStaysSettledCorrect == Spec => SettledStaysSettled
<1> DEFINE Settled ==
      \A i \in Ids : (rows[i].state = "resolved" /\ rows'[i].state = "open")
        => \E w \in Workers : /\ me[w].pc = "commit"
                              /\ rows[i].key \in me[w].about
<1>1. IInv /\ [Next]_vars => [Settled]_vars
  <2> SUFFICES ASSUME IInv, [Next]_vars, NEW i \in Ids,
                      rows[i].state = "resolved", rows'[i].state = "open"
               PROVE  \E w \in Workers : me[w].pc = "commit" /\ rows[i].key \in me[w].about
    OBVIOUS
  <2>1. PICK w \in Workers : ByWorker(w)
    BY WhoseStep DEF EndWait, vars
  <2>2. Commits(w)
    BY <2>1, WorkerStep
       DEF IInv, Shapes, Ends, Starts, Reads, Plans, Selects, GoesOn, Still
  <2>3. PICK u \in me[w].wrote : u.id = i /\ u.state = "open"
    BY <2>2 DEF Commits
  <2>4. u.key \in me[w].about
    BY <2>3 DEF IInv, OpensItsOwn, New
  <2>5. rows[i].key = u.key
    BY <2>3 DEF IInv, OneKeyAnId, Keyed, Claims
  <2> QED
    BY <2>2, <2>4, <2>5 DEF Commits
<1> QED
  BY <1>1, Inductive, PTL DEF Spec, SettledStaysSettled

-----------------------------------------------------------------------------
\* A writer that read what is committed now.
Timely(w) == me[w].job # "settle" /\ me[w].seen = commits

\* What a writer reads of a person whose status lists these.
WasRead(lists) == IF HasRows
                    THEN Read({i \in Ids : IsOpen(i)})
                    ELSE {[id |-> Shim[k], key |-> k, state |-> "open", saw |-> 0] : k \in lists}

ReadsInv(w) == /\ me[w].seen <= commits
               /\ me[w].pc = "revise" => me[w].job = "settle"
               /\ Timely(w) /\ me[w].pc \in {"prior", "reconcile"} =>
                    me[w].lists = status[Latest].lists
               /\ Timely(w) /\ me[w].pc = "reconcile" => me[w].prior = WasRead(me[w].lists)

\* After the call's commit there is an open row of the wording: one it writes, or one
\* that is there and that it leaves alone.
Planned(w) == me[w].todo \cup me[w].wrote
Keeps(w, k) == \/ \E u \in Planned(w) : u.key = k /\ u.state = "open"
               \/ \E i \in Ids \ IdsOf(Planned(w)) : IsOpen(i) /\ rows[i].key = k

\* What a writer will list is open once it commits, or the person has no rows.
SaysInv(w) == Timely(w) /\ ~raced /\ me[w].pc \in {"status", "rows", "commit"} =>
    \/ ~HasRows /\ Planned(w) = {}
    \/ \A k \in me[w].says : Keeps(w, k)

OneARow(writes) == \A u, x \in writes : u.id = x.id => u = x

WriterInv(w) == me[w].job # "settle" =>
    /\ OneARow(me[w].prior) /\ OneARow(Planned(w))
    /\ me[w].pc = "commit" => me[w].todo = {}
    /\ me[w].day = IF me[w].pc \in {"rows", "commit"} THEN "today" ELSE "none"

\* What a settlement lists is what the status lists now without the rows it resolved.
RevisesInv(w) == me[w].job = "settle" =>
    /\ me[w].pc # "commit" => me[w].day = "none"
    /\ me[w].pc = "commit" => /\ me[w].day \in Days /\ me[w].wrote # {}
                              /\ me[w].says = status[me[w].day].lists \ KeysOf(me[w].wrote)

CallListed(w) == ReadsInv(w) /\ SaysInv(w) /\ WriterInv(w) /\ RevisesInv(w)

\* A day's status is locked by one call.
DaysAreLocked == \A v, w \in Workers : v # w /\ me[v].day = me[w].day => me[v].day = "none"

Listed == DaysAreLocked /\ ClearedIsListedOnlyIfRaced /\ \A w \in Workers : CallListed(w)

-----------------------------------------------------------------------------
\* What every step but a commit leaves alone.
Uncommitted == rows' = rows /\ status' = status /\ commits' = commits /\ raced' = raced

LEMMA UncommittedShape ==
  ASSUME Uncommitted
  PROVE  /\ Latest' = Latest /\ HasRows' = HasRows
         /\ \A i \in Ids : IsOpen(i)' = IsOpen(i)
         /\ \A lists : WasRead(lists)' = WasRead(lists)
         /\ ClearedIsListedOnlyIfRaced => ClearedIsListedOnlyIfRaced'
<1>1. Latest' = Latest /\ HasRows' = HasRows /\ \A i \in Ids : IsOpen(i)' = IsOpen(i)
  BY DEF Uncommitted, Latest, HasRows, IsOpen
<1>2. OpenKeys' = OpenKeys
  BY DEF Uncommitted, OpenKeys, IsOpen
<1>3. \A lists : WasRead(lists)' = WasRead(lists)
  BY DEF Uncommitted, WasRead, HasRows, Read, IsOpen
<1> QED
  BY <1>1, <1>2, <1>3 DEF Uncommitted, ClearedIsListedOnlyIfRaced

\* Another's step that commits nothing leaves a call what it was.
LEMMA OthersListed ==
  ASSUME Uncommitted, NEW v \in Workers, me'[v] = me[v], CallListed(v)
  PROVE  CallListed(v)'
<1>1. ReadsInv(v)'
  BY UncommittedShape DEF CallListed, ReadsInv, Timely, Uncommitted
<1>2. SaysInv(v)'
  <2>1. \A k : Keeps(v, k) => Keeps(v, k)'
    BY DEF Keeps, Planned, IdsOf, IsOpen, Uncommitted
  <2> QED
    BY <2>1, UncommittedShape DEF CallListed, SaysInv, Timely, Planned, Uncommitted
<1>3. WriterInv(v)' /\ RevisesInv(v)'
  BY DEF CallListed, WriterInv, RevisesInv, OneARow, Planned, Uncommitted
<1> QED
  BY <1>1, <1>2, <1>3 DEF CallListed

LEMMA RestListed == ASSUME Basic', NEW w \in Workers, me'[w] = Rest PROVE CallListed(w)'
<1>1. /\ Rest.seen = 0 /\ Rest.pc = "idle" /\ Rest.job = "settle" /\ Rest.day = "none"
      /\ commits' \in Nat
  BY DEF Rest, Basic, TypeOK
<1> QED
  BY <1>1 DEF CallListed, ReadsInv, SaysInv, WriterInv, RevisesInv, Timely

\* What else a statement's end keeps.
LEMMA GotoMore ==
  ASSUME TypeOK, NEW w \in Workers, NEW held \in Held, NEW last \in Places \ {"idle"},
         Goto(w, held, last)
  PROVE  /\ me'[w].says = held.says /\ me'[w].seen = held.seen
         /\ me'[w].lists = held.lists /\ me'[w].day = held.day
         /\ me'[w].pc # "rows" => held.todo = {}
<1>1. CASE held.todo = {}
  <2> DEFINE h == [held EXCEPT !.pc = last, !.next = {}]
  <2>1. me' = [me EXCEPT ![w] = h]
    BY <1>1 DEF Goto
  <2>2. /\ h.says = held.says /\ h.seen = held.seen
        /\ h.lists = held.lists /\ h.day = held.day
    BY DEF Held
  <2> HIDE DEF h
  <2> QED
    BY <1>1, <2>1, <2>2 DEF TypeOK
<1>2. CASE held.todo # {}
  <2>1. PICK u \in held.todo : me' = [me EXCEPT ![w] = [held EXCEPT !.pc = "rows", !.next = {u}]]
    BY <1>2 DEF Goto
  <2> DEFINE h == [held EXCEPT !.pc = "rows", !.next = {u}]
  <2>2. /\ h.pc = "rows" /\ h.says = held.says /\ h.seen = held.seen
        /\ h.lists = held.lists /\ h.day = held.day
    BY DEF Held
  <2>3. me' = [me EXCEPT ![w] = h]
    BY <2>1
  <2> HIDE DEF h
  <2> QED
    BY <2>2, <2>3 DEF TypeOK
<1> QED
  BY <1>1, <1>2

-----------------------------------------------------------------------------
\* A call's own step: what it holds then is as the invariant says, and it locks no
\* day another holds.
LocksFree(w) == me'[w].day = "none" \/ \A v \in Workers \ {w} : me[v].day # me'[w].day

Own(w) == Uncommitted /\ CallListed(w)' /\ LocksFree(w)

LEMMA CallOwn ==
  ASSUME Basic, Basic', NEW w \in Workers, Call(w) PROVE Own(w)
<1>0. TypeOK /\ commits \in Nat /\ Rest \in Held
  BY RestType DEF Basic, TypeOK
<1>1. ASSUME NEW job \in Jobs, Open(w, job) PROVE Own(w)
  <2> DEFINE lists == status[Latest].lists
             h == [Rest EXCEPT !.pc = "prior", !.job = job, !.lists = lists, !.seen = commits]
  <2>1. /\ h.pc = "prior" /\ h.job = job /\ h.lists = lists /\ h.seen = commits
        /\ h.day = "none" /\ h.prior = {} /\ h.todo = {} /\ h.wrote = {}
    BY DEF Rest
  <2>2. me' = [me EXCEPT ![w] = h] /\ job # "settle" /\ Uncommitted
    BY <1>1 DEF Open, Begin, Uncommitted
  <2> HIDE DEF h
  <2>3. me'[w] = h
    BY <1>0, <2>2 DEF TypeOK
  <2>4. ReadsInv(w)'
    BY <1>0, <2>1, <2>2, <2>3, UncommittedShape DEF ReadsInv, Timely, Uncommitted
  <2>5. SaysInv(w)' /\ WriterInv(w)' /\ RevisesInv(w)'
    BY <2>1, <2>2, <2>3 DEF SaysInv, WriterInv, RevisesInv, OneARow, Planned
  <2> QED
    BY <2>1, <2>2, <2>3, <2>4, <2>5 DEF Own, CallListed, LocksFree
<1>2. ASSUME NEW about \in SUBSET Keys, Settle(w, about) PROVE Own(w)
  <2> DEFINE h == [Rest EXCEPT !.pc = "prior", !.job = "settle", !.about = about]
  <2>1. h.pc = "prior" /\ h.job = "settle" /\ h.seen = 0 /\ h.day = "none"
    BY DEF Rest
  <2>2. me' = [me EXCEPT ![w] = h] /\ Uncommitted
    BY <1>2 DEF Settle, Begin, Uncommitted
  <2> HIDE DEF h
  <2>3. me'[w] = h
    BY <1>0, <2>2 DEF TypeOK
  <2>4. CallListed(w)'
    BY <1>0, <2>1, <2>2, <2>3
       DEF CallListed, ReadsInv, SaysInv, WriterInv, RevisesInv, Timely, Uncommitted
  <2> QED
    BY <2>1, <2>2, <2>3, <2>4 DEF Own, LocksFree
<1> QED
  BY <1>1, <1>2 DEF Call

LEMMA PriorOwn ==
  ASSUME Basic, NEW w \in Workers, CallListed(w), Prior(w) PROVE Own(w)
<1> DEFINE prior == WasRead(me[w].lists)
           h == [me[w] EXCEPT !.pc = "reconcile", !.prior = prior]
<1>0. /\ TypeOK /\ me[w] \in Held /\ me[w].pc = "prior" /\ me[w].job # "settle"
      /\ me[w].todo = {} /\ me[w].wrote = {} /\ me[w].lists \subseteq Keys /\ Uncommitted
  BY DEF Basic, TypeOK, Prior, At, Held, Uncommitted
<1>1. me' = [me EXCEPT ![w] = h]
  BY <1>0 DEF Prior, WasRead, TypeOK
<1>2. OneARow(prior)
  <2>1. CASE HasRows
    <3>1. prior = Read({i \in Ids : IsOpen(i)})
      BY <2>1 DEF WasRead
    <3> QED
      BY <3>1 DEF OneARow, Read
  <2>2. CASE ~HasRows
    <3>1. prior = {[id |-> Shim[k], key |-> k, state |-> "open", saw |-> 0] : k \in me[w].lists}
      BY <2>2 DEF WasRead
    <3>2. \A j, k \in me[w].lists : Shim[j] = Shim[k] => j = k
      BY <1>0, ShimType
    <3> QED
      BY <3>1, <3>2 DEF OneARow
  <2> QED
    BY <2>1, <2>2
<1>3. \A lists : WasRead(lists)' = WasRead(lists)
  BY <1>0, UncommittedShape
<1> HIDE DEF prior
<1>4. /\ h.pc = "reconcile" /\ h.prior = prior /\ h.job = me[w].job /\ h.lists = me[w].lists
      /\ h.seen = me[w].seen /\ h.day = me[w].day /\ h.todo = {} /\ h.wrote = {}
  BY <1>0 DEF Held
<1> HIDE DEF h
<1>5. me'[w] = h
  BY <1>0, <1>1 DEF TypeOK
<1>6. ReadsInv(w)'
  BY <1>0, <1>3, <1>4, <1>5, UncommittedShape
     DEF CallListed, ReadsInv, Timely, Uncommitted, prior
<1>7. SaysInv(w)' /\ WriterInv(w)' /\ RevisesInv(w)' /\ me'[w].day = "none"
  BY <1>0, <1>2, <1>4, <1>5 DEF CallListed, SaysInv, WriterInv, RevisesInv, OneARow, Planned
<1> QED
  BY <1>0, <1>6, <1>7 DEF Own, CallListed, LocksFree

LEMMA ReconcileOwn ==
  ASSUME Basic, OneKeyAnId, ClearedIsListedOnlyIfRaced, NEW w \in Workers, CallListed(w),
         Reconcile(w)
  PROVE  Own(w)
<1>0. /\ TypeOK /\ me[w] \in Held /\ me[w].pc = "reconcile" /\ me[w].job # "settle"
      /\ me[w].todo = {} /\ me[w].wrote = {} /\ me[w].prior \subseteq Write /\ Uncommitted
  BY DEF Basic, TypeOK, Reconcile, At, Held, Uncommitted
<1>1. PICK reports \in SUBSET Keys, over \in SUBSET Keys :
         /\ Statable(me[w].job, reports, over)
         /\ ExistsInjection(NewKeys(w, reports, over), Fresh)
         /\ me' = [me EXCEPT ![w].pc = "status", ![w].start = now + 1,
                     ![w].lists = {}, ![w].prior = {},
                     ![w].about = IF me[w].job = "confirm_all" THEN KeysOf(me[w].prior)
                                                               ELSE reports,
                     ![w].says = Says(w, KeysOf(Touched(w, reports, over)
                                                  \cup Carried(w, reports, over)
                                                  \cup Minted(w, reports, over))),
                     ![w].todo = Upserts(w, reports, over) \cup Minted(w, reports, over)]
  BY DEF Reconcile
<1> DEFINE touched == Touched(w, reports, over)
           ended == Ended(w, reports, over)
           carried == Carried(w, reports, over)
           minted == Minted(w, reports, over)
           about == IF me[w].job = "confirm_all" THEN KeysOf(me[w].prior) ELSE reports
           says == Says(w, KeysOf(touched \cup carried \cup minted))
           todo == Upserts(w, reports, over) \cup minted
           t == now + 1
           h == [me[w] EXCEPT !.pc = "status", !.start = t, !.lists = {}, !.prior = {},
                              !.about = about, !.says = says, !.todo = todo]
<1>2. me' = [me EXCEPT ![w] = h]
  BY <1>0, <1>1 DEF TypeOK
<1>3. todo = touched \cup Resolved(ended) \cup minted
  BY DEF Upserts
<1>4. /\ touched \subseteq me[w].prior /\ ended \subseteq me[w].prior
      /\ touched \cap ended = {}
      /\ carried = me[w].prior \ (touched \cup ended)
  BY DEF Touched, Ended, Carried
<1>5. \A x \in me[w].prior : x.id \notin Fresh
  BY DEF OneKeyAnId, Fresh
<1>6. /\ \A u \in minted : u.id \in Fresh /\ u.state = "open" /\ u.saw = 0
      /\ OneARow(minted)
      /\ \A u \in carried : u.saw = 0 =>
           \E x \in minted : x.key = u.key /\ x.state = "open"
  <2>1. /\ \A u \in minted : u.id \in Fresh /\ u.state = "open" /\ u.saw = 0
                             /\ u.key \in NewKeys(w, reports, over)
        /\ \A u, x \in minted : u.id = x.id => u.key = x.key
    BY <1>1, MintedShape
  <2>2. \A u \in minted : u = [id |-> u.id, key |-> u.key, state |-> u.state, saw |-> u.saw]
    BY DEF Minted
  <2>3. OneARow(minted)
    <3> SUFFICES ASSUME NEW u \in minted, NEW x \in minted, u.id = x.id PROVE u = x
      BY DEF OneARow
    <3>1. u.key = x.key /\ u.state = x.state /\ u.saw = x.saw
      BY <2>1
    <3> QED
      BY <2>2, <3>1
  <2>4. \A k \in NewKeys(w, reports, over) : \E x \in minted : x.key = k
    <3> DEFINE keys == NewKeys(w, reports, over)
               id == CHOOSE id \in Injection(keys, Fresh) : TRUE
    <3>1. minted = {[id |-> id[k], key |-> k, state |-> "open", saw |-> 0] : k \in keys}
      BY DEF Minted
    <3> HIDE DEF id, keys, minted
    <3>2. ASSUME NEW k \in keys PROVE \E x \in minted : x.key = k
      <4>1. [id |-> id[k], key |-> k, state |-> "open", saw |-> 0] \in minted
        BY <3>1
      <4> QED
        BY <4>1
    <3> QED
      BY <3>2 DEF keys
  <2>5. \A u \in carried : u.saw = 0 => u.key \in NewKeys(w, reports, over)
    BY DEF NewKeys
  <2> QED
    BY <2>1, <2>3, <2>4, <2>5
<1>7. \A u \in Resolved(ended) : \E x \in ended : u = [x EXCEPT !.state = "resolved"] /\ u.id = x.id
  <2> SUFFICES ASSUME NEW u \in Resolved(ended)
               PROVE  \E x \in ended : u = [x EXCEPT !.state = "resolved"] /\ u.id = x.id
    OBVIOUS
  <2>1. PICK x \in ended : u = [x EXCEPT !.state = "resolved"]
    BY DEF Resolved
  <2>2. x \in Write
    BY <1>0, <1>4
  <2> QED
    BY <2>1, <2>2 DEF Write
<1>p. OneARow(me[w].prior)
  BY <1>0 DEF CallListed, WriterInv
<1> HIDE DEF touched, ended, carried, minted, about, t
\* The rows to write are those touched, those that ended, and new ones.
<1>8. OneARow(todo)
  <2> SUFFICES ASSUME NEW u \in todo, NEW x \in todo, u.id = x.id PROVE u = x
    BY DEF OneARow
  <2>1. CASE u \in minted \/ x \in minted
    <3>1. \A y \in touched \cup Resolved(ended) : y.id \notin Fresh
      BY <1>4, <1>5, <1>7
    <3>2. u \in minted /\ x \in minted
      BY <1>3, <1>6, <2>1, <3>1
    <3> QED
      BY <1>6, <3>2 DEF OneARow
  <2>2. CASE u \notin minted /\ x \notin minted
    <3>1. CASE u \in touched /\ x \in touched
      BY <1>4, <1>p, <3>1 DEF OneARow
    <3>2. CASE u \in Resolved(ended) /\ x \in Resolved(ended)
      <4>1. PICK y \in ended : u = [y EXCEPT !.state = "resolved"] /\ u.id = y.id
        BY <1>7, <3>2
      <4>2. PICK z \in ended : x = [z EXCEPT !.state = "resolved"] /\ x.id = z.id
        BY <1>7, <3>2
      <4>3. y = z
        BY <1>4, <1>p, <4>1, <4>2 DEF OneARow
      <4> QED
        BY <4>1, <4>2, <4>3
    <3>3. \A y \in touched, z \in Resolved(ended) : y.id # z.id
      BY <1>4, <1>7, <1>p DEF OneARow
    <3> QED
      BY <1>3, <2>2, <3>1, <3>2, <3>3
  <2> QED
    BY <2>1, <2>2
<1> DEFINE KeptBy(k) ==
      \/ \E u \in todo : u.key = k /\ u.state = "open"
      \/ \E i \in Ids \ IdsOf(todo) : IsOpen(i) /\ rows[i].key = k
\* What it lists it writes as open, or it left the open row alone.
<1>9. ASSUME Timely(w), ~raced, NEW k \in says PROVE KeptBy(k)
  <2>0. me[w].lists = status[Latest].lists /\ me[w].prior = WasRead(me[w].lists)
    BY <1>0, <1>9 DEF CallListed, ReadsInv
  <2>1. ASSUME NEW u \in me[w].prior
        PROVE  u.state = "open" /\ (u.saw = 0 \/ (IsOpen(u.id) /\ rows[u.id].key = u.key /\ u.id \in Ids))
    <3>1. CASE HasRows
      <4>1. u \in Read({i \in Ids : IsOpen(i)})
        BY <2>0, <3>1 DEF WasRead
      <4> QED
        BY <4>1 DEF Read
    <3>2. CASE ~HasRows
      <4>1. u \in {[id |-> Shim[j], key |-> j, state |-> "open", saw |-> 0] : j \in me[w].lists}
        BY <2>0, <3>2 DEF WasRead
      <4> QED
        BY <4>1
    <3> QED
      BY <3>1, <3>2
  <2>2. CASE k \in KeysOf(touched \cup carried \cup minted)
    <3>1. PICK u \in touched \cup carried \cup minted : u.key = k
      BY <2>2 DEF KeysOf
    <3>2. CASE u \in touched \cup minted
      BY <1>3, <1>4, <1>6, <2>1, <3>1, <3>2
    <3>3. CASE u \in carried /\ u.saw = 0
      BY <1>3, <1>6, <3>1, <3>3
    <3>4. CASE u \in carried /\ u.saw # 0
      <4>1. u \in me[w].prior /\ u \notin touched /\ u \notin ended
        BY <1>4, <3>4
      <4>2. u.id \in Ids /\ IsOpen(u.id) /\ rows[u.id].key = k
        BY <2>1, <3>1, <3>4, <4>1
      <4>3. \A x \in touched \cup ended \cup minted : x.id # u.id
        BY <1>4, <1>5, <1>6, <1>p, <4>1 DEF OneARow
      <4>4. u.id \notin IdsOf(todo)
        BY <1>3, <1>7, <4>3 DEF IdsOf
      <4> QED
        BY <4>2, <4>4
    <3> QED
      BY <3>1, <3>2, <3>3, <3>4
  <2>3. CASE KeysOf(touched \cup carried \cup minted) = {} /\ me[w].job = "confirm_all"
    <3>1. over = {}
      BY <1>1, <2>3 DEF Statable
    <3>2. ended = {}
      BY <2>3, <3>1 DEF ended, Ended
    <3>3. touched \cup carried = {}
      BY <2>3 DEF KeysOf
    <3>4. me[w].prior = {}
      BY <1>4, <3>2, <3>3
    <3>5. k \in me[w].lists
      BY <2>3, <1>9 DEF Says
    <3>6. HasRows
      <4> SUFFICES ASSUME ~HasRows PROVE FALSE
        OBVIOUS
      <4>1. me[w].prior = {[id |-> Shim[j], key |-> j, state |-> "open", saw |-> 0] : j \in me[w].lists}
        BY <2>0 DEF WasRead
      <4> QED
        BY <3>4, <3>5, <4>1
    <3>7. PICK i \in Ids : IsOpen(i)
      BY <1>9, <2>0, <3>5, <3>6 DEF ClearedIsListedOnlyIfRaced, OpenKeys
    <3>8. me[w].prior = Read({j \in Ids : IsOpen(j)})
      BY <2>0, <3>6 DEF WasRead
    <3>9. me[w].prior # {}
      BY <3>7, <3>8 DEF Read
    <3> QED
      BY <3>4, <3>9
  <2>4. k \in KeysOf(touched \cup carried \cup minted)
        \/ (KeysOf(touched \cup carried \cup minted) = {} /\ me[w].job = "confirm_all")
    BY <1>9 DEF Says
  <2> QED
    BY <2>2, <2>3, <2>4
<1> HIDE DEF todo, says
<1>10. /\ h.pc = "status" /\ h.job = me[w].job /\ h.seen = me[w].seen /\ h.day = me[w].day
       /\ h.says = says /\ h.todo = todo /\ h.wrote = {} /\ h.prior = {}
  BY <1>0 DEF Held
<1> HIDE DEF h
<1>11. me'[w] = h
  BY <1>0, <1>2 DEF TypeOK
<1>12. ReadsInv(w)' /\ WriterInv(w)' /\ RevisesInv(w)' /\ me'[w].day = "none"
  BY <1>0, <1>8, <1>10, <1>11
     DEF CallListed, ReadsInv, WriterInv, RevisesInv, OneARow, Planned, Uncommitted
<1>13. SaysInv(w)'
  <2> SUFFICES ASSUME Timely(w), ~raced, NEW k \in says PROVE Keeps(w, k)'
    BY <1>0, <1>10, <1>11 DEF SaysInv, Timely, Uncommitted
  <2>1. KeptBy(k)
    BY <1>9
  <2> QED
    BY <1>0, <1>10, <1>11, <2>1 DEF Keeps, Planned, IdsOf, IsOpen, Uncommitted
<1> QED
  BY <1>0, <1>12, <1>13 DEF Own, CallListed, LocksFree

LEMMA CloseOutOwn ==
  ASSUME Basic, NEW w \in Workers, CallListed(w), CloseOut(w) PROVE Own(w)
<1>0. /\ TypeOK /\ me[w] \in Held /\ me[w].pc = "reconcile" /\ me[w].job # "settle"
      /\ me[w].todo = {} /\ me[w].wrote = {} /\ Uncommitted
  BY DEF Basic, TypeOK, CloseOut, At, Held, Uncommitted
<1>1. PICK says \in {KeysOf(me[w].prior), {}} :
         me' = [me EXCEPT ![w].pc = "status", ![w].start = now + 1, ![w].says = says,
                          ![w].lists = {}, ![w].prior = {}]
  BY DEF CloseOut
<1> DEFINE t == now + 1
           h == [me[w] EXCEPT !.pc = "status", !.start = t, !.says = says,
                              !.lists = {}, !.prior = {}]
<1>2. me' = [me EXCEPT ![w] = h]
  BY <1>0, <1>1 DEF TypeOK
<1> HIDE DEF t
<1>3. /\ h.pc = "status" /\ h.job = me[w].job /\ h.seen = me[w].seen /\ h.day = me[w].day
      /\ h.says = says /\ h.todo = {} /\ h.wrote = {} /\ h.prior = {}
  BY <1>0 DEF Held
<1> HIDE DEF h
<1>4. me'[w] = h
  BY <1>0, <1>2 DEF TypeOK
<1>5. ReadsInv(w)' /\ WriterInv(w)' /\ RevisesInv(w)' /\ me'[w].day = "none"
  BY <1>0, <1>3, <1>4
     DEF CallListed, ReadsInv, WriterInv, RevisesInv, OneARow, Planned, Uncommitted
<1>6. SaysInv(w)'
  <2> SUFFICES ASSUME Timely(w), HasRows, NEW k \in says PROVE Keeps(w, k)'
    BY <1>0, <1>3, <1>4, UncommittedShape DEF SaysInv, Timely, Planned, Uncommitted
  <2>1. me[w].prior = Read({i \in Ids : IsOpen(i)})
    BY <1>0 DEF CallListed, ReadsInv, WasRead
  <2>2. PICK i \in Ids : IsOpen(i) /\ rows[i].key = k
    BY <1>1, <2>1 DEF KeysOf, Read
  <2> QED
    BY <1>0, <1>3, <1>4, <2>2 DEF Keeps, Planned, IdsOf, IsOpen, Uncommitted
<1> QED
  BY <1>0, <1>5, <1>6 DEF Own, CallListed, LocksFree

\* A writer's statement: what it will have written, and lists, is what it was.
LEMMA WriterOwn ==
  ASSUME Basic, NEW w \in Workers, CallListed(w), Uncommitted,
         me[w].job # "settle", me[w].pc \in {"status", "rows"}, NEW held \in Held,
         Goto(w, held, "commit"), held.job = me[w].job, held.seen = me[w].seen,
         held.says = me[w].says, held.prior = me[w].prior,
         held.todo \cup held.wrote = Planned(w), held.day = "today"
  PROVE  CallListed(w)' /\ me'[w].day = "today"
<1>0. TypeOK /\ "commit" \in Places \ {"idle"}
  BY DEF Basic, Places
<1>1. /\ me'[w].pc \in {"commit", "rows"} /\ me'[w].job = me[w].job
      /\ me'[w].prior = me[w].prior /\ me'[w].todo = held.todo /\ me'[w].wrote = held.wrote
  BY <1>0, GotoShape
<1>2. /\ me'[w].says = me[w].says /\ me'[w].seen = me[w].seen /\ me'[w].day = "today"
      /\ me'[w].pc # "rows" => me'[w].todo = {}
  BY <1>0, <1>1, GotoMore
<1>3. Planned(w)' = Planned(w)
  BY <1>1 DEF Planned
<1>4. \A k : Keeps(w, k) => Keeps(w, k)'
  BY <1>3 DEF Keeps, IdsOf, IsOpen, Uncommitted
<1>5. SaysInv(w)'
  BY <1>1, <1>2, <1>3, <1>4, UncommittedShape DEF CallListed, SaysInv, Timely, Uncommitted
<1>6. ReadsInv(w)' /\ RevisesInv(w)'
  BY <1>1, <1>2 DEF CallListed, ReadsInv, RevisesInv, Uncommitted
<1>7. WriterInv(w)'
  BY <1>1, <1>2, <1>3 DEF CallListed, WriterInv, OneARow
<1> QED
  BY <1>2, <1>5, <1>6, <1>7 DEF CallListed

LEMMA WriteStatusOwn ==
  ASSUME Basic, NEW w \in Workers, CallListed(w), WriteStatus(w) PROVE Own(w)
<1>0. /\ TypeOK /\ me[w] \in Held /\ me[w].pc = "status" /\ me[w].job # "settle"
      /\ Uncommitted /\ Free(w)
  BY DEF Basic, TypeOK, WriteStatus, At, Uncommitted
<1> DEFINE held == [me[w] EXCEPT !.day = "today"]
<1>1. /\ held \in Held /\ held.job = me[w].job /\ held.prior = me[w].prior
      /\ held.todo = me[w].todo /\ held.wrote = me[w].wrote /\ held.says = me[w].says
      /\ held.seen = me[w].seen /\ held.day = "today"
  BY <1>0 DEF Held, Days
<1>2. Goto(w, held, "commit")
  BY DEF WriteStatus
<1> HIDE DEF held
<1>3. CallListed(w)' /\ me'[w].day = "today"
  BY <1>0, <1>1, <1>2, WriterOwn DEF Planned
<1>4. \A v \in Workers \ {w} : me[v].day # "today"
  BY <1>0 DEF Free, Busy, At
<1> QED
  BY <1>0, <1>3, <1>4 DEF Own, LocksFree

\* A settlement before its revision lists nothing and locks no status.
LEMMA SettlingOwn ==
  ASSUME Basic, NEW w \in Workers, CallListed(w), Uncommitted,
         me[w].job = "settle", me[w].pc # "commit", NEW held \in Held,
         Goto(w, held, "revise"), held.job = "settle", held.seen = me[w].seen,
         held.day = me[w].day
  PROVE  Own(w)
<1>0. TypeOK /\ "revise" \in Places \ {"idle"}
  BY DEF Basic, Places
<1>1. me'[w].pc \in {"revise", "rows"} /\ me'[w].job = "settle"
  BY <1>0, GotoShape
<1>2. me'[w].seen = me[w].seen /\ me'[w].day = "none"
  BY <1>0, GotoMore DEF CallListed, RevisesInv
<1> QED
  BY <1>1, <1>2 DEF Own, CallListed, ReadsInv, SaysInv, WriterInv, RevisesInv, Timely,
                    Uncommitted, LocksFree

LEMMA StopOwn ==
  ASSUME Basic, Basic', NEW w \in Workers, Stop(w), Uncommitted PROVE Own(w)
<1>1. me'[w] = Rest
  BY StopShape DEF Basic
<1> QED
  BY <1>1, RestListed DEF Own, LocksFree, Rest

LEMMA RowOwn ==
  ASSUME Basic, Basic', DaysAreLocked, NEW w \in Workers, CallListed(w), WriteRow(w) \/ ResolveRow(w)
  PROVE  Own(w)
<1>0. /\ TypeOK /\ me[w] \in Held /\ me[w].pc = "rows" /\ Uncommitted
      /\ me[w].next \subseteq me[w].todo /\ me[w].todo \subseteq Write /\ me[w].wrote \subseteq Write
  BY DEF Basic, TypeOK, Held, WriteRow, ResolveRow, At, Uncommitted
<1>1. CASE WriteRow(w)
  <2>1. PICK u \in me[w].next :
           IF Taken(w, u)
             THEN Stop(w)
             ELSE Goto(w, [me[w] EXCEPT !.todo = @ \ {u}, !.wrote = @ \cup {u}], "commit")
    BY <1>1 DEF WriteRow
  <2>2. me[w].job # "settle"
    BY <1>1 DEF WriteRow
  <2>3. CASE Taken(w, u)
    BY <1>0, <2>1, <2>3, StopOwn
  <2>4. CASE ~Taken(w, u)
    <3> DEFINE held == [me[w] EXCEPT !.todo = @ \ {u}, !.wrote = @ \cup {u}]
    <3>1. Goto(w, held, "commit")
      BY <2>1, <2>4
    <3>2. u \in me[w].todo /\ u \in Write
      BY <1>0
    <3>3. /\ held \in Held /\ held.job = me[w].job /\ held.prior = me[w].prior
          /\ held.todo = me[w].todo \ {u} /\ held.wrote = me[w].wrote \cup {u}
          /\ held.says = me[w].says /\ held.seen = me[w].seen /\ held.day = me[w].day
      BY <1>0, <3>2 DEF Held
    <3> HIDE DEF held
    <3>4. held.todo \cup held.wrote = Planned(w)
      BY <3>2, <3>3 DEF Planned
    <3>5. me[w].day = "today"
      BY <1>0, <2>2 DEF CallListed, WriterInv
    <3>6. CallListed(w)' /\ me'[w].day = "today"
      BY <1>0, <2>2, <3>1, <3>3, <3>4, <3>5, WriterOwn
    <3> QED
      BY <1>0, <3>5, <3>6 DEF Own, LocksFree, DaysAreLocked
  <2> QED
    BY <2>3, <2>4
<1>2. CASE ResolveRow(w)
  <2>1. PICK u \in me[w].next :
           Goto(w, [me[w] EXCEPT !.todo = @ \ {u},
                      !.wrote = IF IsOpen(u.id) /\ rows[u.id].at = u.saw THEN @ \cup {u} ELSE @],
                "revise")
    BY <1>2 DEF ResolveRow
  <2> DEFINE wrote == IF IsOpen(u.id) /\ rows[u.id].at = u.saw THEN me[w].wrote \cup {u}
                                                              ELSE me[w].wrote
             held == [me[w] EXCEPT !.todo = @ \ {u}, !.wrote = wrote]
  <2>2. Goto(w, held, "revise") /\ me[w].job = "settle"
    BY <1>0, <1>2, <2>1 DEF Held, ResolveRow
  <2>3. wrote \subseteq Write
    BY <1>0
  <2> HIDE DEF wrote
  <2>4. held \in Held /\ held.job = me[w].job /\ held.seen = me[w].seen /\ held.day = me[w].day
    BY <1>0, <2>3 DEF Held
  <2> HIDE DEF held
  <2> QED
    BY <1>0, <2>2, <2>4, SettlingOwn
<1> QED
  BY <1>1, <1>2

LEMMA ReadSettledOwn ==
  ASSUME Basic, Basic', NEW w \in Workers, CallListed(w), ReadSettled(w) PROVE Own(w)
<1>0. TypeOK /\ me[w] \in Held /\ me[w].pc = "prior" /\ me[w].job = "settle" /\ Uncommitted
      /\ now \in Nat
  BY DEF Basic, TypeOK, ReadSettled, At, Uncommitted
<1> DEFINE settled == {i \in Ids : /\ IsOpen(i) /\ rows[i].key \in me[w].about
                                   /\ rows[i].at < endedAt[rows[i].key]}
           todo == Resolved(Read(settled))
           t == now + 1
           held == [me[w] EXCEPT !.start = t, !.todo = todo]
<1>1. CASE settled = {}
  <2>1. Stop(w)
    BY <1>1 DEF ReadSettled
  <2> QED
    BY <1>0, <2>1, StopOwn
<1>2. CASE settled # {}
  <2>1. Goto(w, held, "revise")
    BY <1>2 DEF ReadSettled
  <2>2. ASSUME NEW u \in todo PROVE u \in Write
    <3>1. PICK x \in Read(settled) : u = [x EXCEPT !.state = "resolved"]
      BY <2>2 DEF Resolved
    <3>2. PICK i \in settled :
             x = [id |-> i, key |-> rows[i].key, state |-> "open", saw |-> rows[i].at]
      BY <3>1 DEF Read
    <3>3. rows[i].key \in Keys /\ rows[i].at \in Nat /\ i \in Ids
      BY <1>0 DEF TypeOK, Row
    <3>4. u = [id |-> i, key |-> rows[i].key, state |-> "resolved", saw |-> rows[i].at]
      BY <3>1, <3>2
    <3> QED
      BY <3>3, <3>4 DEF Write
  <2>3. todo \in SUBSET Write /\ t \in Nat
    BY <1>0, <2>2
  <2> HIDE DEF todo, t
  <2>4. held \in Held /\ held.job = "settle" /\ held.seen = me[w].seen /\ held.day = me[w].day
    BY <1>0, <2>3 DEF Held
  <2> HIDE DEF held
  <2> QED
    BY <1>0, <2>1, <2>4, SettlingOwn
<1> QED
  BY <1>1, <1>2

LEMMA ReviseOwn ==
  ASSUME Basic, Basic', NEW w \in Workers, CallListed(w), Revise(w) PROVE Own(w)
<1>0. /\ TypeOK /\ me[w] \in Held /\ me[w].pc = "revise" /\ Uncommitted
      /\ me[w].job = "settle"
  BY DEF Basic, TypeOK, Revise, At, Uncommitted, CallListed, ReadsInv
<1>1. CASE me[w].wrote = {}
  BY <1>0, <1>1, StopOwn DEF Revise
<1>2. CASE me[w].wrote # {}
  <2> DEFINE says == status[Latest].lists \ KeysOf(me[w].wrote)
             h == [me[w] EXCEPT !.pc = "commit", !.day = Latest, !.says = says]
  <2>1. Latest \in Days
    BY DEF Latest, Days
  <2>2. me' = [me EXCEPT ![w] = h] /\ Free(w)
    BY <1>0, <1>2 DEF Revise, TypeOK
  <2>3. /\ h.pc = "commit" /\ h.job = "settle" /\ h.day = Latest /\ h.says = says
        /\ h.seen = me[w].seen /\ h.wrote = me[w].wrote
    BY <1>0 DEF Held
  <2> HIDE DEF h
  <2>4. me'[w] = h
    BY <1>0, <2>2 DEF TypeOK
  <2>5. RevisesInv(w)'
    BY <1>0, <1>2, <2>1, <2>3, <2>4 DEF RevisesInv, KeysOf, Uncommitted
  <2>6. ReadsInv(w)' /\ SaysInv(w)' /\ WriterInv(w)'
    BY <1>0, <2>3, <2>4
       DEF CallListed, ReadsInv, SaysInv, WriterInv, Timely, Uncommitted
  <2>7. LocksFree(w)
    BY <1>0, <2>2, <2>3, <2>4 DEF LocksFree, Free, Busy, At
  <2> QED
    BY <1>0, <2>5, <2>6, <2>7 DEF Own, CallListed
<1> QED
  BY <1>1, <1>2

\* What every call's step but its commit does.
LEMMA WorkerOwn ==
  ASSUME Basic, Basic', OneKeyAnId, Listed, NEW w \in Workers, ByWorker(w), ~Commit(w)
  PROVE  Own(w)
<1>1. CASE Victim(w) \/ Crash(w)
  <2>1. Stop(w) /\ Uncommitted
    BY <1>1 DEF Victim, Crash, Uncommitted
  <2> QED
    BY <2>1, StopOwn
<1> QED
  BY <1>1, CallOwn, PriorOwn, ReconcileOwn, CloseOutOwn, WriteStatusOwn, RowOwn,
     ReadSettledOwn, ReviseOwn DEF Listed, ByWorker, Step

-----------------------------------------------------------------------------
\* A commit leaves another call what it was, or makes what it read too old.
LEMMA CommitOthers ==
  ASSUME Basic, DaysAreLocked, NEW w \in Workers, RevisesInv(w), WriterInv(w), Commit(w),
         NEW v \in Workers \ {w}, CallListed(v)
  PROVE  CallListed(v)'
<1>0. /\ me'[v] = me[v] /\ commits' = commits + 1 /\ commits \in Nat /\ me[v].seen \in Nat
      /\ status' = [status EXCEPT ![me[w].day] = [given |-> TRUE, lists |-> me[w].says]]
      /\ me[w].pc = "commit" /\ status \in [Days -> Status]
  BY CommitShape DEF Basic, TypeOK, Held, Commit, Calls, At
<1>1. ~Timely(v)' /\ ReadsInv(v)'
  BY <1>0 DEF CallListed, ReadsInv, Timely
<1>2. SaysInv(v)' /\ WriterInv(v)'
  BY <1>0, <1>1 DEF CallListed, SaysInv, WriterInv, OneARow, Planned
<1>3. RevisesInv(v)'
  <2>1. ASSUME me[v].pc = "commit", me[v].job = "settle"
        PROVE  status'[me[v].day] = status[me[v].day]
    <3>1. me[v].day \in Days /\ me[v].day # "none"
      BY <2>1 DEF CallListed, RevisesInv, Days
    <3>2. me[v].day # me[w].day
      BY <3>1 DEF DaysAreLocked
    <3> QED
      BY <1>0, <3>1, <3>2
  <2> QED
    BY <1>0, <2>1 DEF CallListed, RevisesInv, KeysOf
<1> QED
  BY <1>1, <1>2, <1>3 DEF CallListed

\* A commit that raced with none lists what is open after it.
LEMMA CommitLists ==
  ASSUME Basic, Basic', OneKeyAnId, SettledInTime, Listed, NEW w \in Workers, Commit(w)
  PROVE  ClearedIsListedOnlyIfRaced'
<1> SUFFICES ASSUME ~raced', HasRows' PROVE status'[Latest'].lists \subseteq OpenKeys'
  BY DEF ClearedIsListedOnlyIfRaced
<1>0. /\ me[w].pc = "commit" /\ me[w] \in Held /\ status \in [Days -> Status]
      /\ status' = [status EXCEPT ![me[w].day] = [given |-> TRUE, lists |-> me[w].says]]
      /\ ~raced /\ CallListed(w) /\ "today" \in Days /\ "before" \in Days
  BY DEF Basic, TypeOK, Commit, At, Listed, Days
<1>1. Commits(w)
  BY CommitShape
<1>2. \A i \in Ids \ IdsOf(me[w].wrote) : rows'[i] = rows[i]
  BY <1>1 DEF Commits, IdsOf
<1>3. \A i \in Ids : IsOpen(i)' => rows'[i].key \in OpenKeys'
  BY DEF OpenKeys
<1>4. ASSUME me[w].job = "settle" PROVE status'[Latest'].lists \subseteq OpenKeys'
  <2>1. /\ me[w].day = Latest /\ Latest \in Days /\ me[w].wrote # {}
        /\ me[w].says = status[Latest].lists \ KeysOf(me[w].wrote)
    BY <1>0, <1>4 DEF Commit, CallListed, RevisesInv
  <2>2. Latest' = Latest /\ status'[Latest].lists = me[w].says
    BY <1>0, <2>1 DEF Latest
  <2>3. HasRows
    <3>1. PICK u \in me[w].wrote : IsOpen(u.id)
      BY <1>4, <2>1 DEF SettledInTime
    <3>2. u.id \in Ids
      BY ClaimsType
    <3> QED
      BY <3>1, <3>2 DEF HasRows, IsOpen
  <2>4. ASSUME NEW k \in me[w].says PROVE k \in OpenKeys'
    <3>1. k \in OpenKeys /\ k \notin KeysOf(me[w].wrote)
      BY <1>0, <2>1, <2>3 DEF Listed, ClearedIsListedOnlyIfRaced
    <3>2. PICK i \in Ids : IsOpen(i) /\ rows[i].key = k
      BY <3>1 DEF OpenKeys
    <3>3. i \notin IdsOf(me[w].wrote)
      <4> SUFFICES ASSUME NEW u \in me[w].wrote, u.id = i PROVE FALSE
        BY DEF IdsOf
      <4>1. u.key = k
        BY <3>2 DEF OneKeyAnId, Keyed, Claims, IsOpen
      <4> QED
        BY <3>1, <4>1 DEF KeysOf
    <3> QED
      BY <1>2, <1>3, <3>2, <3>3 DEF IsOpen
  <2> QED
    BY <2>2, <2>4
<1>5. ASSUME me[w].job # "settle" PROVE status'[Latest'].lists \subseteq OpenKeys'
  <2>1. /\ Timely(w) /\ me[w].day = "today" /\ me[w].todo = {} /\ OneARow(me[w].wrote)
        /\ Planned(w) = me[w].wrote
    BY <1>0, <1>5 DEF Commit, Timely, CallListed, WriterInv, Planned
  <2>2. Latest' = "today" /\ status'["today"].lists = me[w].says
    BY <1>0, <2>1 DEF Latest
  <2>3. \A k \in me[w].says : Keeps(w, k)
    <3> SUFFICES ASSUME ~HasRows, me[w].wrote = {} PROVE FALSE
      BY <1>0, <2>1 DEF CallListed, SaysInv
    <3> QED
      BY <1>2 DEF HasRows, IdsOf
  <2>4. ASSUME NEW k \in me[w].says PROVE k \in OpenKeys'
    <3>1. CASE \E u \in me[w].wrote : u.key = k /\ u.state = "open"
      <4>1. PICK u \in me[w].wrote : u.key = k /\ u.state = "open"
        BY <3>1
      <4>2. u.id \in Ids /\ u.id \in IdsOf(me[w].wrote)
        BY ClaimsType DEF IdsOf
      <4>3. PICK x \in me[w].wrote : /\ x.id = u.id /\ rows'[u.id].key = x.key
                                     /\ rows'[u.id].state = x.state
        BY <1>1, <4>2 DEF Commits
      <4>4. x = u
        BY <2>1, <4>3 DEF OneARow
      <4> QED
        BY <1>3, <4>1, <4>2, <4>3, <4>4 DEF IsOpen
    <3>2. CASE \E i \in Ids \ IdsOf(me[w].wrote) : IsOpen(i) /\ rows[i].key = k
      BY <1>2, <1>3, <3>2 DEF IsOpen
    <3> QED
      BY <2>1, <2>3, <3>1, <3>2 DEF Keeps
  <2> QED
    BY <2>2, <2>4
<1> QED
  BY <1>4, <1>5

LEMMA ListedNext ==
  ASSUME Basic, OneKeyAnId, SettledInTime, Listed, [Next]_vars PROVE Listed'
<1>0. Basic'
  BY BasicNext
<1>1. ASSUME NEW w \in Workers, ByWorker(w) PROVE Listed'
  <2>0. Calls(w) /\ \A v \in Workers \ {w} : me'[v] = me[v]
    BY <1>1, WorkerStep DEF Calls
  <2>1. CASE Commit(w)
    <3>1. me'[w] = Rest /\ Rest.day = "none"
      BY <2>1, CommitShape DEF Commits, Rest
    <3>2. DaysAreLocked'
      BY <2>0, <3>1 DEF Listed, DaysAreLocked
    <3>3. \A v \in Workers : CallListed(v)'
      BY <1>0, <2>1, <3>1, RestListed, CommitOthers DEF Listed, CallListed
    <3> QED
      BY <1>0, <2>1, <3>2, <3>3, CommitLists DEF Listed
  <2>2. CASE ~Commit(w)
    <3>1. Own(w)
      BY <1>0, <1>1, <2>2, WorkerOwn
    <3>2. \A v \in Workers : CallListed(v)'
      BY <2>0, <3>1, OthersListed DEF Listed, Own
    <3>3. DaysAreLocked'
      BY <2>0, <3>1 DEF Listed, DaysAreLocked, Own, LocksFree
    <3> QED
      BY <3>1, <3>2, <3>3, UncommittedShape DEF Listed, Own
  <2> QED
    BY <2>1, <2>2
<1>2. ASSUME Uncommitted, me' = me PROVE Listed'
  <2>1. \A v \in Workers : CallListed(v)'
    BY <1>2, OthersListed DEF Listed
  <2> QED
    BY <1>2, <2>1, UncommittedShape DEF Listed, DaysAreLocked
<1>3. CASE UNCHANGED vars
  BY <1>2, <1>3 DEF vars, Uncommitted
<1>4. ASSUME NEW k \in Keys, EndWait(k) PROVE Listed'
  BY <1>2, <1>4 DEF EndWait, Uncommitted
<1> QED
  BY <1>1, <1>3, <1>4, WhoseStep

LEMMA InitListed == Init => Listed
<1> SUFFICES ASSUME Init PROVE Listed
  OBVIOUS
<1>1. PICK listed \in SUBSET Keys, legacy \in BOOLEAN :
        /\ status = [d \in Days |-> [given |-> d = "before",
                                     lists |-> IF d = "before" THEN listed ELSE {}]]
        /\ rows = [i \in Ids |->
             IF ~legacy /\ \E k \in listed : Shim[k] = i
               THEN [key |-> CHOOSE k \in listed : Shim[k] = i, state |-> "open", at |-> 1]
               ELSE NoRow]
  BY DEF Init
<1>2. me = [w \in Workers |-> Rest] /\ commits = 0
  BY DEF Init
<1>3. /\ Rest.seen = 0 /\ Rest.pc = "idle" /\ Rest.job = "settle" /\ Rest.day = "none"
  BY DEF Rest
<1>4. \A w \in Workers : CallListed(w)
  BY <1>2, <1>3 DEF CallListed, ReadsInv, SaysInv, WriterInv, RevisesInv, Timely
<1>5. DaysAreLocked
  BY <1>2, <1>3 DEF DaysAreLocked
<1>6. status[Latest].lists = listed
  BY <1>1 DEF Latest, Days
<1> DEFINE key(i) == CHOOSE k \in listed : Shim[k] = i
<1>7. rows = [i \in Ids |-> IF ~legacy /\ \E k \in listed : Shim[k] = i
                               THEN [key |-> key(i), state |-> "open", at |-> 1]
                               ELSE NoRow]
  BY <1>1
<1>8. \A k \in listed : Shim[k] \in Ids /\ key(Shim[k]) = k
  <2> SUFFICES ASSUME NEW k \in listed PROVE Shim[k] \in Ids /\ key(Shim[k]) = k
    OBVIOUS
  <2>1. key(Shim[k]) \in listed /\ Shim[key(Shim[k])] = Shim[k]
    OBVIOUS
  <2> QED
    BY <2>1, ShimType
<1> HIDE DEF key
<1>9. ClearedIsListedOnlyIfRaced
  <2> SUFFICES ASSUME HasRows, NEW k \in listed PROVE k \in OpenKeys
    BY <1>6 DEF ClearedIsListedOnlyIfRaced
  <2>1. ~legacy
    BY <1>7 DEF HasRows, NoRow
  <2>2. rows[Shim[k]] = [key |-> k, state |-> "open", at |-> 1]
    BY <1>7, <1>8, <2>1
  <2> QED
    BY <1>8, <2>2 DEF OpenKeys, IsOpen
<1> QED
  BY <1>4, <1>5, <1>9 DEF Listed

\* No resolved blocker stays on the latest status's list, unless a status was written
\* from rows read before another commit, or while a settlement revised the day before.
THEOREM ClearedIsListedCorrect == Spec => []ClearedIsListedOnlyIfRaced
<1>1. Init => IInv /\ Listed
  BY InitIInv, InitListed
<1>2. IInv /\ Listed /\ [Next]_vars => IInv' /\ Listed'
  BY IInvNext, ListedNext DEF IInv
<1>3. Listed => ClearedIsListedOnlyIfRaced
  BY DEF Listed
<1> QED
  BY <1>1, <1>2, <1>3, PTL DEF Spec
=============================================================================
