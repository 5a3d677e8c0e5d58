------------------------- MODULE CrossPersonProofs -------------------------
(***************************************************************************)
(* What asks between two members guarantee for any requests, asks, workers *)
(* and bounds: an attempt at a DM is held by one sender, the requester is  *)
(* told after the copies are closed and of one of two copies only, has     *)
(* heard of every resolved ask that no race or silent resolution hid, and  *)
(* the cleanup of copies never dismisses the last of them.                 *)
(***************************************************************************)
EXTENDS CrossPerson, TLAPS

\* What a call holds is about what it does, and of times that have passed.
HeldOk(h, t) ==
    /\ h.pc = "claim" => h.saw < MaxAttempts
    /\ h.job = "retry" => \A q \in h.queue : q[2] < MaxAttempts
    /\ h.pc = "pick" => h.job = "retry"
    /\ h.pc \in {"list", "refresh", "create"} => h.was \in {"open", "needs_resolution"}
    /\ h.pc \in {"list", "refresh", "create"} => h.job = "record"
    /\ h.pc \in {"older", "open", "index", "next"} => h.job = "merge"
    /\ h.stamp <= t

\* A row that waits for its person was never sent; an open one names its person.
RowOk(row, t) ==
    /\ row.status \in {"none", "needs_resolution"} => row.attempts = 0 /\ ~row.named
    /\ row.status \in Open => row.named
    /\ row.updated <= t

TypeInv == /\ TypeOK
           /\ \A w \in Workers : HeldOk(me[w], now)
           /\ \A r \in Requests : RowOk(rows[r], now)
           /\ \A a \in Asks : mergedAt[a] <= now
           /\ \A w \in Workers : me[w].pc \in {"send", "note"} => rows[me[w].at].status # "none"

ByWorker(w) == Call(w) \/ Step(w) \/ Crash(w)

LEMMA RestType == Rest \in Held /\ Rest.pc = "idle" /\ Rest.at \in Requests
                  /\ (\A t \in Nat : HeldOk(Rest, t))
  BY RequestIds DEF Rest, Held, HeldOk, Places, Jobs, Statuses, Open, Closed

LEMMA LaterType == ASSUME NEW s \in Nat, NEW t \in Nat
                   PROVE  Later(s, t) \in {s, t} /\ Later(s, t) >= s /\ Later(s, t) >= t
  BY DEF Later

\* A step that only ends its call, or only takes it to another place.
LEMMA StopHeld == ASSUME TypeOK, NEW w \in Workers, Stop(w)
                  PROVE  me' = [me EXCEPT ![w] = Rest]
  BY DEF Stop

LEMMA ToHeld ==
  ASSUME TypeOK, NEW w \in Workers, NEW place \in Places, To(w, place)
  PROVE  \E h \in Held : /\ me' = [me EXCEPT ![w] = h]
                         /\ h = [me[w] EXCEPT !.pc = place]
<1>1. [me[w] EXCEPT !.pc = place] \in Held
  BY DEF TypeOK, Held
<1>2. me' = [me EXCEPT ![w] = [me[w] EXCEPT !.pc = place]]
  BY DEF TypeOK, To
<1> QED
  BY <1>1, <1>2

LEMMA OnwardHeld ==
  ASSUME TypeInv, NEW w \in Workers, Onward(w)
  PROVE  \E h \in Held : /\ me' = [me EXCEPT ![w] = h] /\ HeldOk(h, now)
                         /\ h.pc \in {"idle", "pick", "next"}
<1>0. TypeOK /\ me[w] \in Held /\ HeldOk(me[w], now) /\ now \in Nat
  BY DEF TypeInv, TypeOK
<1>1. CASE me[w].job \in DOMAIN Loop
  <2> DEFINE h == [Rest EXCEPT !.pc = Loop[me[w].job], !.job = me[w].job, !.queue = me[w].queue]
  <2>1. me' = [me EXCEPT ![w] = h]
    BY <1>1 DEF Onward
  <2>2. me[w].job \in {"merge", "retry"} /\ Loop["merge"] = "next" /\ Loop["retry"] = "pick"
    BY <1>1 DEF Loop
  <2>3. h \in Held /\ h.pc \in {"idle", "pick", "next"} /\ h.job = me[w].job
        /\ h.queue = me[w].queue /\ h.stamp = Rest.stamp /\ (h.pc = "pick" => h.job = "retry") /\ (h.pc = "next" => h.job = "merge")
    BY <1>0, <2>2, RestType DEF Held, Places
  <2>4. HeldOk(h, now)
    BY <1>0, <2>3, RestType DEF HeldOk
  <2> QED
    BY <2>1, <2>3, <2>4
<1>2. CASE me[w].job \notin DOMAIN Loop
  BY <1>0, <1>2, RestType, StopHeld DEF Onward
<1> QED
  BY <1>1, <1>2

-----------------------------------------------------------------------------
\* A call finds its worker idle, changes no row and tells nobody.
LEMMA CallShape ==
  ASSUME TypeInv, NEW w \in Workers, Call(w)
  PROVE  /\ me[w].pc = "idle"
         /\ UNCHANGED <<rows, sent, past, mergedAt, crashes>>
         /\ now' \in {now, now + 1}
         /\ \E h \in Held :
              /\ me' = [me EXCEPT ![w] = h] /\ HeldOk(h, now')
              /\ h.pc \in {"list", "create", "assign", "pick", "look", "older"}
              /\ h.pc \in {"list", "create"} => h.stamp = now + 1 /\ now' = now + 1
              /\ h.pc = "look" => /\ h.job \in {"reply", "asked", "requester"}
                                  /\ h.job = "asked" => rows[h.at].named
              /\ h.pc = "older" =>
                   \A q \in h.queue : \E c \in Requests :
                      Still(q[1]) /\ Still(c) /\ Repeats(q[1], c) /\ Newer(c, q[1])
<1>0. /\ now \in Nat /\ now + 1 \in Nat /\ rows \in [Requests -> Row]
      /\ me \in [Workers -> Held] /\ Rest \in Held /\ now <= now + 1
      /\ \A r \in Requests : rows[r].attempts \in Nat
  BY RestType DEF TypeInv, TypeOK, Row
<1> USE DEF Begin, At, world
<1>1. ASSUME NEW r \in Requests, Record(w, r), NEW named \in BOOLEAN,
             Begin(w, "record", [Rest EXCEPT
                        !.pc = IF named THEN "list" ELSE "create", !.job = "record",
                        !.at = r, !.stamp = now + 1,
                        !.was = IF named THEN "open" ELSE "needs_resolution"])
      PROVE  \E h \in Held :
              /\ me' = [me EXCEPT ![w] = h] /\ HeldOk(h, now')
              /\ h.pc \in {"list", "create"} /\ h.stamp = now + 1 /\ now' = now + 1
  <2> DEFINE h == [Rest EXCEPT
                        !.pc = IF named THEN "list" ELSE "create", !.job = "record",
                        !.at = r, !.stamp = now + 1,
                        !.was = IF named THEN "open" ELSE "needs_resolution"]
  <2>1. now' = now + 1 /\ me' = [me EXCEPT ![w] = h]
    BY <1>1 DEF Record
  <2>2. h \in Held
    BY <1>0 DEF Held, Places, Jobs, Statuses, Open, Closed
  <2>3. h.pc \in {"list", "create"} /\ h.stamp = now + 1 /\ h.job = "record"
        /\ h.was = (IF named THEN "open" ELSE "needs_resolution")
        /\ (h.pc = "list" => named)
    BY <1>0 DEF Rest
  <2>4. HeldOk(h, now')
    BY <1>0, <2>1, <2>3 DEF HeldOk
  <2> QED
    BY <2>1, <2>2, <2>3, <2>4
<1>2. ASSUME NEW r \in Requests, Settle(w, r)
      PROVE  \E h \in Held : /\ me' = [me EXCEPT ![w] = h] /\ HeldOk(h, now')
                             /\ h.pc = "assign"
  <2> DEFINE h == [Rest EXCEPT !.pc = "assign", !.job = "settle", !.at = r, !.stamp = now + 1]
  <2>1. now' = now + 1 /\ me' = [me EXCEPT ![w] = h]
    BY <1>2 DEF Settle
  <2>2. h \in Held
    BY <1>0 DEF Held, Places, Jobs
  <2>3. h.pc = "assign" /\ h.stamp = now + 1 /\ h.job = "settle"
    BY <1>0 DEF Rest
  <2>4. HeldOk(h, now')
    BY <1>0, <2>1, <2>3 DEF HeldOk
  <2> QED
    BY <2>1, <2>2, <2>3, <2>4
<1>3. ASSUME NEW r \in Requests, Reply(w, r)
      PROVE  \E h \in Held : /\ me' = [me EXCEPT ![w] = h] /\ HeldOk(h, now')
                             /\ h.pc = "look" /\ h.job = "reply"
  <2> DEFINE h == [Rest EXCEPT !.pc = "look", !.job = "reply", !.at = r, !.stamp = now]
  <2>1. now' = now /\ me' = [me EXCEPT ![w] = h]
    BY <1>3 DEF Reply
  <2>2. h \in Held
    BY <1>0 DEF Held, Places, Jobs
  <2>3. h.pc = "look" /\ h.stamp = now /\ h.job = "reply"
    BY <1>0 DEF Rest
  <2>4. HeldOk(h, now')
    BY <1>0, <2>1, <2>3 DEF HeldOk
  <2> QED
    BY <2>1, <2>2, <2>3, <2>4
<1>4. ASSUME NEW r \in Requests, NEW by \in {"asked", "requester"}, Console(w, r, by)
      PROVE  \E h \in Held : /\ me' = [me EXCEPT ![w] = h] /\ HeldOk(h, now')
                             /\ h.pc = "look" /\ h.job \in {"asked", "requester"}
                             /\ h.job = "asked" => rows[h.at].named
  <2> DEFINE h == [Rest EXCEPT !.pc = "look", !.job = by, !.at = r]
  <2>1. now' = now /\ me' = [me EXCEPT ![w] = h] /\ (by = "asked" => rows[r].named)
    BY <1>4 DEF Console
  <2>2. h \in Held
    BY <1>0 DEF Held, Places, Jobs
  <2>3. h.pc = "look" /\ h.stamp = 0 /\ h.job = by /\ h.at = r
    BY <1>0 DEF Rest
  <2>4. HeldOk(h, now')
    BY <1>0, <2>1, <2>3 DEF HeldOk
  <2> QED
    BY <2>1, <2>2, <2>3, <2>4
<1>5. CASE MergePass(w)
  <2> DEFINE older == {<<r, 0>> : r \in {r \in Requests : Still(r) /\
                        \E c \in Requests : Still(c) /\ Repeats(r, c) /\ Newer(c, r)}}
             h == [Rest EXCEPT !.pc = "older", !.job = "merge", !.queue = older]
  <2>1. now' = now /\ me' = [me EXCEPT ![w] = h]
    BY <1>5 DEF MergePass
  <2>2. older \in SUBSET (Requests \X Nat)
    OBVIOUS
  <2>3. \A q \in older : \E c \in Requests :
            Still(q[1]) /\ Still(c) /\ Repeats(q[1], c) /\ Newer(c, q[1])
    OBVIOUS
  <2> HIDE DEF older
  <2>4. h \in Held
    BY <1>0, <2>2 DEF Held, Places, Jobs
  <2>5. h.pc = "older" /\ h.stamp = 0 /\ h.job = "merge" /\ h.queue = older
    BY <1>0 DEF Rest
  <2>6. HeldOk(h, now')
    BY <1>0, <2>1, <2>5 DEF HeldOk
  <2>7. \A q \in h.queue : \E c \in Requests :
            Still(q[1]) /\ Still(c) /\ Repeats(q[1], c) /\ Newer(c, q[1])
    BY <2>3, <2>5
  <2> HIDE DEF h
  <2>8. \E x \in Held :
              /\ me' = [me EXCEPT ![w] = x] /\ HeldOk(x, now')
              /\ x.pc = "older"
              /\ \A q \in x.queue : \E c \in Requests :
                      Still(q[1]) /\ Still(c) /\ Repeats(q[1], c) /\ Newer(c, q[1])
    BY <2>1, <2>4, <2>5, <2>6, <2>7
  <2> QED
    BY <1>5, <2>8 DEF MergePass
<1>6. CASE RetryPass(w)
  <2> DEFINE due == {<<r, rows[r].attempts>> : r \in
                       {r \in Requests : /\ rows[r].status = "open"
                                         /\ rows[r].attempts > 0
                                         /\ rows[r].due
                                         /\ ToNotify(rows[r])}}
             h == [Rest EXCEPT !.pc = "pick", !.job = "retry", !.queue = due]
  <2>1. now' = now /\ me' = [me EXCEPT ![w] = h]
    BY <1>6 DEF RetryPass
  <2>2. due \in SUBSET (Requests \X Nat) /\ \A q \in due : q[2] < MaxAttempts
    BY <1>0 DEF ToNotify
  <2> HIDE DEF due
  <2>3. h \in Held
    BY <1>0, <2>2 DEF Held, Places, Jobs
  <2>4. h.pc = "pick" /\ h.stamp = 0 /\ h.job = "retry" /\ h.queue = due
    BY <1>0 DEF Rest
  <2>5. HeldOk(h, now')
    BY <1>0, <2>1, <2>2, <2>4 DEF HeldOk
  <2> HIDE DEF h
  <2>6. \E x \in Held : me' = [me EXCEPT ![w] = x] /\ HeldOk(x, now') /\ x.pc = "pick"
    BY <2>1, <2>3, <2>4, <2>5
  <2> QED
    BY <1>6, <2>6 DEF RetryPass
<1>7. /\ me[w].pc = "idle"
      /\ UNCHANGED <<rows, sent, past, mergedAt, crashes>>
      /\ now' \in {now, now + 1}
  BY DEF Call, Record, Settle, Reply, Console, MergePass, RetryPass
<1>8. CASE \E r \in Requests : Record(w, r)
  BY <1>1, <1>7, <1>8 DEF Record
<1>9. CASE \E r \in Requests : Settle(w, r) \/ Reply(w, r)
                              \/ \E by \in {"asked", "requester"} : Console(w, r, by)
  BY <1>2, <1>3, <1>4, <1>7, <1>9
<1> QED
  BY <1>5, <1>6, <1>8, <1>9 DEF Call

-----------------------------------------------------------------------------
\* What one statement may make of a request's row.
Flow(w, r, row) ==
    /\ row \in Row /\ RowOk(row, now)
    /\ rows[r].status # "none" => row.created = rows[r].created /\ row.status # "none"
    /\ rows[r].status = "none" => /\ me[w].pc = "create" /\ me[w].at = r
                                  /\ row.created = me[w].stamp
                                  /\ row.status \in {"open", "needs_resolution"}
    /\ rows[r].named => row.named
    /\ row.named => rows[r].named \/ row.status = "open"
    /\ row.attempts >= rows[r].attempts
    /\ rows[r].status \in Closed => row.status = rows[r].status
    /\ rows[r].status \in Open => row.status \in Open \cup Closed
    /\ rows[r].status = "resolved" => row.updated >= rows[r].updated
    /\ row.status = "dismissed" =>
         \/ rows[r].status = "dismissed"
         \/ me[w].pc = "older" /\ \E q \in me[w].queue : q[1] = r
    /\ row.status = "resolved" =>
         \/ rows[r].status = "resolved" /\ resolvedAs' = resolvedAs
         \/ /\ rows[r].status # "resolved" /\ MayClose(w, r)
            /\ me[w].pc \in {"close", "copies"}
            /\ resolvedAs' = [resolvedAs EXCEPT ![r] = row.updated]

LEMMA RowShape ==
  ASSUME TypeInv, NEW w \in Workers, Step(w)
  PROVE  \/ rows' = rows /\ resolvedAs' = resolvedAs
         \/ \E r \in Requests, row \in Row :
               /\ SetRow(r, row) /\ Flow(w, r, row)
               /\ row.status # "resolved" => resolvedAs' = resolvedAs
<1> USE DEF At
<1>0. /\ now \in Nat /\ me[w] \in Held /\ me[w].at \in Requests /\ HeldOk(me[w], now)
      /\ me[w].stamp \in Nat /\ me[w].stamp <= now
      /\ MaxAttempts \in Nat \ {0}
  BY AttemptsType DEF TypeInv, TypeOK, Held, HeldOk
<1>r. ASSUME NEW r \in Requests
      PROVE  /\ rows[r] \in Row /\ RowOk(rows[r], now)
             /\ rows[r].updated \in Nat /\ rows[r].created \in Nat /\ rows[r].updated <= now
             /\ rows[r].attempts \in 0..MaxAttempts
             /\ rows[r].status \in Statuses
  BY DEF TypeInv, TypeOK, Row, RowOk
<1>s. Statuses = {"none", "needs_resolution", "open", "acknowledged", "resolved", "dismissed"}
  BY DEF Statuses, Open, Closed
<1>w. WriteTime(w) \in Nat /\ WriteTime(w) <= now
  BY <1>0 DEF WriteTime
<1>1. CASE Refresh(w)
  <2>1. CASE UNCHANGED rows
    BY <1>1, <2>1 DEF Refresh, past
  <2>2. CASE ~UNCHANGED rows
    <3>1. PICK c \in me[w].todo :
             /\ Still(c) /\ SetRow(c, [rows[c] EXCEPT !.updated = Later(@, me[w].stamp)])
      BY <1>1, <2>2 DEF Refresh
    <3>2. c \in Requests
      BY <1>0 DEF Held
    <3>3. Later(rows[c].updated, me[w].stamp) \in Nat /\ Later(rows[c].updated, me[w].stamp) <= now
      BY <1>0, <1>r, <3>2, LaterType
    <3> DEFINE row == [rows[c] EXCEPT !.updated = Later(@, me[w].stamp)]
    <3>4. row \in Row /\ row.status = rows[c].status /\ row.created = rows[c].created
          /\ row.named = rows[c].named /\ row.attempts = rows[c].attempts
          /\ row.updated = Later(rows[c].updated, me[w].stamp)
      BY <1>r, <3>2, <3>3 DEF Row
    <3> HIDE DEF row
    <3>5. Flow(w, c, row) /\ row.status # "resolved"
      BY <1>r, <3>1, <3>2, <3>3, <3>4 DEF Flow, RowOk, Still, Open, Closed
    <3>6. SetRow(c, row) /\ resolvedAs' = resolvedAs
      BY <1>1, <3>1 DEF row, Refresh, past
    <3> QED
      BY <3>2, <3>4, <3>5, <3>6
  <2> QED
    BY <2>1, <2>2
<1>2. CASE Create(w)
  <2> DEFINE r == me[w].at
             new == [NoRow EXCEPT !.status = me[w].was, !.created = me[w].stamp,
                             !.updated = me[w].stamp, !.named = (me[w].was = "open")]
  <2>1. SetRow(r, IF rows[r].status = "none" THEN new ELSE rows[r]) /\ resolvedAs' = resolvedAs
    BY <1>2 DEF Create, past
  <2>2. CASE rows[r].status # "none"
    <3>1. SetRow(r, rows[r])
      BY <2>1, <2>2
    <3>2. rows' = rows
      BY <1>0, <3>1 DEF SetRow, TypeInv, TypeOK
    <3> QED
      BY <2>1, <3>2
  <2>3. CASE rows[r].status = "none"
    <3>1. me[w].was \in {"open", "needs_resolution"} /\ me[w].pc = "create"
      BY <1>0, <1>2 DEF HeldOk, Create
    <3>2. /\ new.status = me[w].was /\ new.created = me[w].stamp /\ new.updated = me[w].stamp
          /\ new.named = (me[w].was = "open") /\ new.attempts = 0
      BY DEF NoRow
    <3>3. new \in Row
      <4>1. NoRow \in Row
        BY <1>0, <1>s DEF NoRow, Row
      <4>2. me[w].was \in Statuses /\ (me[w].was = "open") \in BOOLEAN
        BY <1>0, <1>s, <3>1
      <4> QED
        BY <1>0, <4>1, <4>2 DEF Row
    <3>4. SetRow(r, new)
      BY <2>1, <2>3
    <3> HIDE DEF new
    <3>5. Flow(w, r, new) /\ new.status # "resolved"
      <4>1. RowOk(new, now) /\ new.status \in {"open", "needs_resolution"}
            /\ (new.named => new.status = "open")
        BY <1>0, <3>1, <3>2 DEF RowOk, Open
      <4>2. rows[r].attempts = 0 /\ ~rows[r].named
        BY <1>0, <1>r, <2>3 DEF RowOk
      <4> QED
        BY <1>0, <2>3, <3>1, <3>2, <3>3, <4>1, <4>2 DEF Flow, Open, Closed
    <3> QED
      BY <1>0, <2>1, <3>3, <3>4, <3>5
  <2> QED
    BY <2>2, <2>3
<1>3. CASE Assign(w)
  <2>1. CASE UNCHANGED rows
    BY <1>3, <2>1 DEF Assign, past
  <2>2. CASE ~UNCHANGED rows
    <3> DEFINE r == me[w].at
               row == [rows[r] EXCEPT !.status = "open", !.named = TRUE, !.updated = me[w].stamp]
    <3>1. rows[r].status = "needs_resolution" /\ SetRow(r, row) /\ resolvedAs' = resolvedAs
      BY <1>3, <2>2 DEF Assign, past
    <3>2. /\ row \in Row /\ row.status = "open" /\ row.named /\ row.updated = me[w].stamp
          /\ row.created = rows[r].created /\ row.attempts = rows[r].attempts
      <4>1. rows[r] \in Row /\ "open" \in Statuses /\ TRUE \in BOOLEAN
        BY <1>0, <1>r, <1>s
      <4> QED
        BY <1>0, <4>1 DEF Row
    <3> HIDE DEF row
    <3>3. Flow(w, r, row)
      BY <1>0, <1>r, <3>1, <3>2 DEF Flow, RowOk, Open, Closed
    <3> QED
      BY <1>0, <3>1, <3>2, <3>3
  <2> QED
    BY <2>1, <2>2
<1>4. CASE Claim(w)
  <2>1. CASE UNCHANGED rows
    BY <1>4, <2>1 DEF Claim, past
  <2>2. CASE ~UNCHANGED rows
    <3> DEFINE r == me[w].at
               row == [rows[r] EXCEPT !.attempts = @ + 1, !.due = (me[w].saw + 1 < MaxAttempts)]
    <3>1. /\ rows[r].status = "open" /\ rows[r].attempts = me[w].saw /\ SetRow(r, row)
          /\ me[w].pc = "claim" /\ resolvedAs' = resolvedAs
      BY <1>4, <2>2 DEF Claim, past
    <3>2. rows[r].attempts + 1 \in 0..MaxAttempts
      BY <1>0, <1>r, <3>1 DEF HeldOk
    <3>3. /\ row \in Row /\ row.status = "open" /\ row.named = rows[r].named
          /\ row.updated = rows[r].updated
          /\ row.created = rows[r].created /\ row.attempts = rows[r].attempts + 1
      <4>1. rows[r] \in Row /\ rows[r].status = "open" /\ (me[w].saw + 1 < MaxAttempts) \in BOOLEAN
        BY <1>0, <1>r, <3>1
      <4> QED
        BY <3>2, <4>1 DEF Row
    <3> HIDE DEF row
    <3>4. Flow(w, r, row)
      BY <1>0, <1>r, <3>1, <3>3 DEF Flow, RowOk, Open, Closed
    <3> QED
      BY <1>0, <3>1, <3>3, <3>4
  <2> QED
    BY <2>1, <2>2
<1>5. CASE Note(w)
  <2> DEFINE r == me[w].at
             row == [rows[r] EXCEPT !.notified = TRUE, !.due = FALSE, !.updated = now]
  <2>1. SetRow(r, row) /\ resolvedAs' = resolvedAs
    BY <1>5 DEF Note
  <2>2. /\ row \in Row /\ row.status = rows[r].status /\ row.named = rows[r].named
        /\ row.updated = now /\ row.created = rows[r].created /\ row.attempts = rows[r].attempts
    BY <1>0, <1>r DEF Row
  <2> HIDE DEF row
  <2>3. rows[r].status # "none"
    BY <1>5 DEF TypeInv, Note
  <2>4. Flow(w, r, row)
    BY <1>0, <1>r, <2>1, <2>2, <2>3 DEF Flow, RowOk, Open, Closed
  <2> QED
    BY <1>0, <2>1, <2>2, <2>4
<1>6. CASE Acknowledge(w)
  <2>1. CASE UNCHANGED rows
    BY <1>6, <2>1 DEF Acknowledge, past
  <2>2. CASE ~UNCHANGED rows
    <3> DEFINE r == me[w].at
               row == [rows[r] EXCEPT !.status = "acknowledged", !.updated = WriteTime(w)]
    <3>1. rows[r].status = "open" /\ SetRow(r, row) /\ resolvedAs' = resolvedAs
      BY <1>6, <2>2 DEF Acknowledge, past
    <3>2. /\ row \in Row /\ row.status = "acknowledged" /\ row.named = rows[r].named
          /\ row.updated = WriteTime(w)
          /\ row.created = rows[r].created /\ row.attempts = rows[r].attempts
      BY <1>0, <1>r, <1>s, <1>w DEF Row
    <3> HIDE DEF row
    <3>3. Flow(w, r, row)
      BY <1>0, <1>r, <1>w, <3>1, <3>2 DEF Flow, RowOk, Open, Closed
    <3> QED
      BY <1>0, <3>1, <3>2, <3>3
  <2> QED
    BY <2>1, <2>2
<1>7. ASSUME NEW r \in Requests, MayClose(w, r), Resolve(w, r), me[w].pc \in {"close", "copies"}
      PROVE  \E row \in Row : SetRow(r, row) /\ Flow(w, r, row) /\ row.status = "resolved"
  <2> DEFINE row == [rows[r] EXCEPT !.status = "resolved", !.updated = WriteTime(w)]
  <2>1. SetRow(r, row) /\ resolvedAs' = [resolvedAs EXCEPT ![r] = WriteTime(w)]
    BY <1>7 DEF Resolve
  <2>2. rows[r].status \in Open \cup {"needs_resolution"}
    BY <1>7 DEF MayClose, Still
  <2>3. /\ row \in Row /\ row.status = "resolved" /\ row.named = rows[r].named
        /\ row.updated = WriteTime(w)
        /\ row.created = rows[r].created /\ row.attempts = rows[r].attempts
    BY <1>r, <1>s, <1>w DEF Row
  <2> HIDE DEF row
  <2>4. Flow(w, r, row)
    BY <1>0, <1>r, <1>w, <1>7, <2>1, <2>2, <2>3 DEF Flow, RowOk, Open, Closed
  <2> QED
    BY <2>1, <2>3, <2>4
<1>8. CASE Close(w)
  BY <1>0, <1>7, <1>8 DEF Close, past
<1>9. CASE CloseCopy(w)
  <2>1. CASE UNCHANGED <<rows, past>>
    BY <2>1 DEF past
  <2>2. CASE ~UNCHANGED <<rows, past>>
    <3>1. PICK c \in me[w].todo : Still(c) /\ Resolve(w, c)
      BY <1>9, <2>2 DEF CloseCopy
    <3>2. c \in Requests /\ MayClose(w, c)
      BY <1>0, <3>1 DEF Held, MayClose
    <3> QED
      BY <1>7, <1>9, <3>1, <3>2 DEF CloseCopy
  <2> QED
    BY <2>1, <2>2
<1>10. CASE Supersede(w)
  <2>1. CASE UNCHANGED rows
    BY <1>10, <2>1 DEF Supersede, past
  <2>2. CASE ~UNCHANGED rows
    <3>1. PICK q \in me[w].queue :
            /\ Still(q[1])
            /\ SetRow(q[1], [rows[q[1]] EXCEPT !.status = "dismissed", !.updated = Later(now, @)])
      BY <1>10, <2>2 DEF Supersede
    <3> DEFINE r == q[1]
               row == [rows[r] EXCEPT !.status = "dismissed", !.updated = Later(now, @)]
    <3>2. r \in Requests
      BY <1>0 DEF Held
    <3>3. Later(now, rows[r].updated) = now
      BY <1>0, <1>r, <3>2, LaterType
    <3>4. /\ row \in Row /\ row.status = "dismissed" /\ row.named = rows[r].named
          /\ row.updated = now
          /\ row.created = rows[r].created /\ row.attempts = rows[r].attempts
      BY <1>0, <1>r, <1>s, <3>2, <3>3 DEF Row
    <3>5. SetRow(r, row) /\ resolvedAs' = resolvedAs
      BY <1>10, <3>1 DEF Supersede, past
    <3> HIDE DEF row
    <3>6. Flow(w, r, row)
      BY <1>0, <1>r, <1>10, <3>1, <3>2, <3>4 DEF Flow, RowOk, Still, Open, Closed, Supersede
    <3> QED
      BY <3>2, <3>4, <3>5, <3>6
  <2> QED
    BY <2>1, <2>2
<1>11. CASE List(w) \/ Send(w) \/ SendFails(w) \/ Pick(w) \/ Look(w) \/ TellAck(w) \/ Told(w)
            \/ Sweep(w) \/ CopiesClosed(w) \/ Tell(w) \/ TellFails(w) \/ Superseded(w)
            \/ ListOpen(w) \/ Index(w) \/ NextMerged(w)
  BY <1>11 DEF List, Send, SendFails, Pick, Look, TellAck, Told, Sweep, CopiesClosed, Tell,
               TellFails, Superseded, ListOpen, Index, NextMerged, past
<1> QED
  BY <1>1, <1>2, <1>3, <1>4, <1>5, <1>6, <1>8, <1>9, <1>10, <1>11 DEF Step

-----------------------------------------------------------------------------
\* The ways through a call.
Paths == {<<"list", "refresh">>, <<"refresh", "refresh">>, <<"refresh", "create">>,
          <<"create", "claim">>, <<"assign", "claim">>, <<"claim", "send">>, <<"send", "note">>,
          <<"look", "acknowledge">>, <<"look", "close">>, <<"acknowledge", "tell_ack">>,
          <<"close", "told">>, <<"told", "sweep">>, <<"sweep", "copies">>,
          <<"copies", "copies">>, <<"copies", "tell">>, <<"older", "older">>,
          <<"older", "open">>, <<"open", "index">>, <<"index", "next">>, <<"next", "next">>,
          <<"pick", "claim">>, <<"next", "close">>}

\* A step that does not end what its worker does keeps what the call is about.
GoesOn(w, h) == /\ h.job = me[w].job
                /\ <<me[w].pc, h.pc>> \in Paths
                /\ me[w].pc \notin {"pick", "next"} => h.at = me[w].at /\ h.stamp = me[w].stamp
                /\ me[w].pc = "older" => h.queue \subseteq me[w].queue
                /\ me[w].pc # "told" => h.told = me[w].told

\* All but the places with conditions of their own.
LEMMA HeldOkKept ==
  ASSUME TypeInv, NEW w \in Workers, NEW h \in Held,
         h.job = me[w].job, h.stamp = me[w].stamp, h.queue \subseteq me[w].queue,
         h.pc \notin {"claim", "list", "refresh", "create", "pick", "older", "open", "index",
                     "next"}
  PROVE  HeldOk(h, now)
  BY DEF TypeInv, HeldOk

LEMMA HeldShape ==
  ASSUME TypeInv, NEW w \in Workers, Step(w) \/ Crash(w)
  PROVE  \E h \in Held : /\ me' = [me EXCEPT ![w] = h] /\ HeldOk(h, now)
                         /\ h.pc \in {"idle", "pick", "next"} \/ GoesOn(w, h)
<1> USE DEF At
<1>0. /\ TypeOK /\ now \in Nat /\ me \in [Workers -> Held] /\ me[w] \in Held
      /\ HeldOk(me[w], now)
      /\ me[w].stamp \in Nat /\ me[w].stamp <= now
      /\ \A r \in Requests : /\ rows[r].attempts \in Nat /\ rows[r].updated \in Nat
                             /\ rows[r].updated <= now /\ rows[r].status \in Statuses
      /\ \A a \in Asks : mergedAt[a] \in Nat /\ mergedAt[a] <= now
  BY DEF TypeInv, TypeOK, Held, HeldOk, Row, RowOk
<1>t. ASSUME NEW place \in Places, To(w, place), <<me[w].pc, place>> \in Paths,
             place \notin {"claim", "list", "refresh", "create", "pick", "older", "open",
                           "index", "next"},
             me[w].pc \notin {"pick", "next"}
      PROVE  \E h \in Held : /\ me' = [me EXCEPT ![w] = h] /\ HeldOk(h, now)
                             /\ h.pc \in {"idle", "pick", "next"} \/ GoesOn(w, h)
  <2>1. PICK h \in Held : me' = [me EXCEPT ![w] = h] /\ h = [me[w] EXCEPT !.pc = place]
    BY <1>0, <1>t, ToHeld
  <2>2. /\ h.pc = place /\ h.job = me[w].job /\ h.stamp = me[w].stamp /\ h.at = me[w].at
        /\ h.queue = me[w].queue /\ h.told = me[w].told
    BY <1>0, <2>1 DEF Held
  <2> QED
    BY <1>t, <2>1, <2>2, HeldOkKept DEF GoesOn
<1>e. ASSUME Stop(w) \/ Onward(w)
      PROVE  \E h \in Held : /\ me' = [me EXCEPT ![w] = h] /\ HeldOk(h, now)
                             /\ h.pc \in {"idle", "pick", "next"} \/ GoesOn(w, h)
  BY <1>0, <1>e, RestType, StopHeld, OnwardHeld
<1>1. CASE List(w)
  <2> DEFINE todo == {c \in Requests \ {me[w].at} :
                        Still(c) /\ Ask[c] = Ask[me[w].at] /\ rows[c].named}
             h == [me[w] EXCEPT !.pc = "refresh", !.todo = todo]
  <2>1. todo \in SUBSET Requests
    OBVIOUS
  <2>2. me' = [me EXCEPT ![w] = h] /\ me[w].pc = "list"
    BY <1>0, <1>1 DEF List
  <2> HIDE DEF todo
  <2>3. h \in Held /\ h.pc = "refresh" /\ h.job = me[w].job /\ h.stamp = me[w].stamp
        /\ h.at = me[w].at /\ h.queue = me[w].queue /\ h.told = me[w].told /\ h.was = me[w].was
    BY <1>0, <2>1 DEF Held, Places
  <2> HIDE DEF h
  <2>4. HeldOk(h, now) /\ GoesOn(w, h)
    BY <1>0, <2>2, <2>3 DEF HeldOk, GoesOn, Paths
  <2> QED
    BY <2>2, <2>3, <2>4
<1>2. CASE Refresh(w)
  <2>1. CASE me[w].todo = {}
    <3>1. To(w, "create") /\ me[w].pc = "refresh"
      BY <1>2, <2>1 DEF Refresh
    <3>2. PICK h \in Held : me' = [me EXCEPT ![w] = h] /\ h = [me[w] EXCEPT !.pc = "create"]
      BY <1>0, <3>1, ToHeld DEF Places
    <3>3. /\ h.pc = "create" /\ h.job = me[w].job /\ h.stamp = me[w].stamp /\ h.at = me[w].at
          /\ h.queue = me[w].queue /\ h.told = me[w].told /\ h.was = me[w].was
      BY <1>0, <3>2 DEF Held
    <3>4. HeldOk(h, now) /\ GoesOn(w, h)
      BY <1>0, <3>1, <3>3 DEF HeldOk, GoesOn, Paths
    <3> QED
      BY <3>2, <3>4
  <2>2. ASSUME NEW c \in me[w].todo, me' = [me EXCEPT ![w].todo = @ \ {c}]
        PROVE  \E h \in Held : /\ me' = [me EXCEPT ![w] = h] /\ HeldOk(h, now)
                               /\ h.pc \in {"idle", "pick", "next"} \/ GoesOn(w, h)
    <3> DEFINE h == [me[w] EXCEPT !.todo = @ \ {c}]
    <3>1. me' = [me EXCEPT ![w] = h] /\ me[w].pc = "refresh"
      BY <1>0, <1>2, <2>2 DEF Refresh
    <3>2. h \in Held /\ h.pc = me[w].pc /\ h.job = me[w].job /\ h.stamp = me[w].stamp
          /\ h.at = me[w].at /\ h.queue = me[w].queue /\ h.told = me[w].told
          /\ h.was = me[w].was /\ h.saw = me[w].saw
      BY <1>0 DEF Held
    <3> HIDE DEF h
    <3>3. HeldOk(h, now) /\ GoesOn(w, h)
      BY <1>0, <3>1, <3>2 DEF HeldOk, GoesOn, Paths
    <3> QED
      BY <3>1, <3>2, <3>3
  <2> QED
    BY <1>2, <1>e, <2>1, <2>2 DEF Refresh
<1>3. ASSUME Create(w) \/ Assign(w), ~Stop(w)
      PROVE  \E h \in Held : /\ me' = [me EXCEPT ![w] = h] /\ HeldOk(h, now)
                             /\ h.pc \in {"idle", "pick", "next"} \/ GoesOn(w, h)
  <2>1. PICK saw \in Nat : /\ me' = [me EXCEPT ![w].pc = "claim", ![w].saw = saw]
                           /\ saw < MaxAttempts /\ me[w].pc \in {"create", "assign"}
    <3>1. CASE Create(w)
      <4> DEFINE r == me[w].at
                 new == [NoRow EXCEPT !.status = me[w].was, !.created = me[w].stamp,
                             !.updated = me[w].stamp, !.named = (me[w].was = "open")]
                 stored == IF rows[r].status = "none" THEN new ELSE rows[r]
      <4>1. /\ me' = [me EXCEPT ![w].pc = "claim", ![w].saw = stored.attempts]
            /\ ToNotify(stored) /\ me[w].pc = "create"
        BY <1>3, <3>1 DEF Create, Assign
      <4>2. stored.attempts \in Nat
        BY <1>0 DEF NoRow, Held
      <4> QED
        BY <4>1, <4>2 DEF ToNotify
    <3>2. CASE Assign(w)
      <4>1. /\ me' = [me EXCEPT ![w].pc = "claim", ![w].saw = rows[me[w].at].attempts]
            /\ rows[me[w].at].status = "needs_resolution" /\ me[w].pc = "assign"
        BY <1>3, <3>2 DEF Assign
      <4>2. rows[me[w].at].attempts = 0
        BY <1>0, <4>1 DEF TypeInv, RowOk, Held
      <4>3. me' = [me EXCEPT ![w].pc = "claim", ![w].saw = 0]
        BY <4>1, <4>2
      <4>4. 0 \in Nat /\ 0 < MaxAttempts /\ me[w].pc \in {"create", "assign"}
        BY <4>1, AttemptsType
      <4> QED
        BY <4>3, <4>4, Zenon
    <3> QED
      BY <1>3, <3>1, <3>2
  <2> DEFINE h == [me[w] EXCEPT !.pc = "claim", !.saw = saw]
  <2>2. me' = [me EXCEPT ![w] = h]
    BY <1>0, <2>1
  <2>3. h \in Held /\ h.pc = "claim" /\ h.job = me[w].job /\ h.stamp = me[w].stamp
        /\ h.at = me[w].at /\ h.queue = me[w].queue /\ h.told = me[w].told /\ h.saw = saw
    BY <1>0, <2>1 DEF Held, Places
  <2> HIDE DEF h
  <2>4. HeldOk(h, now) /\ GoesOn(w, h)
    BY <1>0, <2>1, <2>3 DEF HeldOk, GoesOn, Paths
  <2> QED
    BY <2>2, <2>3, <2>4
<1>4. CASE Claim(w)
  <2>1. me[w].pc = "claim" /\ (To(w, "send") \/ Onward(w))
    BY <1>4 DEF Claim
  <2> QED
    BY <1>e, <1>t, <2>1 DEF Paths, Places
<1>5. CASE Send(w) \/ SendFails(w) \/ Note(w)
  <2>1. me[w].pc \in {"send", "note"}
        /\ ((To(w, "note") /\ me[w].pc = "send") \/ Onward(w))
    BY <1>5 DEF Send, SendFails, Note
  <2> QED
    BY <1>e, <1>t, <2>1 DEF Paths, Places
<1>6. CASE Pick(w)
  <2>1. CASE me[w].queue = {}
    BY <1>6, <1>e, <2>1 DEF Pick
  <2>2. CASE me[w].queue # {}
    <3>1. PICK q \in me[w].queue :
             me' = [me EXCEPT ![w].pc = "claim", ![w].at = q[1],
                              ![w].saw = q[2], ![w].queue = @ \ {q}]
      BY <1>6, <2>2 DEF Pick
    <3> DEFINE h == [me[w] EXCEPT !.pc = "claim", !.at = q[1], !.saw = q[2], !.queue = @ \ {q}]
    <3>2. me' = [me EXCEPT ![w] = h] /\ me[w].pc = "pick"
      BY <1>0, <1>6, <3>1 DEF Pick
    <3>3. q \in Requests \X Nat
      BY <1>0 DEF Held
    <3>4. q[2] < MaxAttempts
      BY <1>0, <3>2 DEF HeldOk
    <3>5. h \in Held /\ h.pc = "claim" /\ h.job = me[w].job /\ h.stamp = me[w].stamp
          /\ h.queue = me[w].queue \ {q} /\ h.told = me[w].told /\ h.saw = q[2]
      BY <1>0, <3>3 DEF Held, Places
    <3> HIDE DEF h
    <3>6. HeldOk(h, now) /\ GoesOn(w, h)
      BY <1>0, <3>2, <3>4, <3>5 DEF HeldOk, GoesOn, Paths
    <3> QED
      BY <3>2, <3>5, <3>6
  <2> QED
    BY <2>1, <2>2
<1>7. CASE Look(w)
  <2>1. CASE Stop(w)
    BY <1>e, <2>1
  <2>2. CASE ~Stop(w)
    <3>1. PICK place \in {"acknowledge", "close"} :
             me' = [me EXCEPT ![w].pc = place, ![w].was = rows[me[w].at].status]
      BY <1>7, <2>2 DEF Look
    <3> DEFINE h == [me[w] EXCEPT !.pc = place, !.was = rows[me[w].at].status]
    <3>2. me' = [me EXCEPT ![w] = h] /\ me[w].pc = "look"
      BY <1>0, <1>7, <3>1 DEF Look
    <3>3. rows[me[w].at].status \in Statuses
      BY <1>0 DEF Held
    <3>4. h \in Held /\ h.pc = place /\ h.job = me[w].job /\ h.stamp = me[w].stamp
          /\ h.at = me[w].at /\ h.queue = me[w].queue /\ h.told = me[w].told
      BY <1>0, <3>3 DEF Held, Places
    <3> HIDE DEF h
    <3>5. HeldOk(h, now)
      BY <3>4, HeldOkKept
    <3>6. GoesOn(w, h)
      BY <3>2, <3>4 DEF GoesOn, Paths
    <3> QED
      BY <3>2, <3>4, <3>5, <3>6
  <2> QED
    BY <2>1, <2>2
<1>8. CASE Acknowledge(w) \/ TellAck(w)
  <2>1. me[w].pc \in {"acknowledge", "tell_ack"}
        /\ ((To(w, "tell_ack") /\ me[w].pc = "acknowledge") \/ Stop(w))
    BY <1>8 DEF Acknowledge, TellAck
  <2> QED
    BY <1>e, <1>t, <2>1 DEF Paths, Places
<1>9. CASE Close(w)
  <2>1. me[w].pc = "close" /\ (To(w, "told") \/ Onward(w))
    BY <1>9 DEF Close
  <2> QED
    BY <1>e, <1>t, <2>1 DEF Paths, Places
<1>10. CASE Told(w)
  <2> DEFINE told == Copies(me[w].at) # {}
             h == [me[w] EXCEPT !.pc = "sweep", !.told = told]
  <2>1. me' = [me EXCEPT ![w] = h] /\ me[w].pc = "told"
    BY <1>0, <1>10 DEF Told
  <2>2. told \in BOOLEAN
    OBVIOUS
  <2> HIDE DEF told
  <2>3. h \in Held /\ h.pc = "sweep" /\ h.job = me[w].job /\ h.stamp = me[w].stamp
        /\ h.at = me[w].at /\ h.queue = me[w].queue
    BY <1>0, <2>2 DEF Held, Places
  <2> HIDE DEF h
  <2>4. HeldOk(h, now)
    BY <2>3, HeldOkKept
  <2>5. GoesOn(w, h)
    BY <2>1, <2>3 DEF GoesOn, Paths
  <2> QED
    BY <2>1, <2>3, <2>4, <2>5
<1>11. CASE Sweep(w)
  <2> DEFINE todo == {c \in Requests : Repeats(me[w].at, c) /\ Still(c)}
             h == [me[w] EXCEPT !.pc = "copies", !.todo = todo]
  <2>1. me' = [me EXCEPT ![w] = h] /\ me[w].pc = "sweep"
    BY <1>0, <1>11 DEF Sweep
  <2>2. todo \in SUBSET Requests
    OBVIOUS
  <2> HIDE DEF todo
  <2>3. h \in Held /\ h.pc = "copies" /\ h.job = me[w].job /\ h.stamp = me[w].stamp
        /\ h.at = me[w].at /\ h.queue = me[w].queue /\ h.told = me[w].told
    BY <1>0, <2>2 DEF Held, Places
  <2> HIDE DEF h
  <2>4. HeldOk(h, now)
    BY <2>3, HeldOkKept
  <2>5. GoesOn(w, h)
    BY <2>1, <2>3 DEF GoesOn, Paths
  <2> QED
    BY <2>1, <2>3, <2>4, <2>5
<1>12. CASE CloseCopy(w)
  <2>1. PICK c \in me[w].todo : me' = [me EXCEPT ![w].todo = @ \ {c}]
    BY <1>12 DEF CloseCopy
  <2> DEFINE h == [me[w] EXCEPT !.todo = @ \ {c}]
  <2>2. me' = [me EXCEPT ![w] = h] /\ me[w].pc = "copies"
    BY <1>0, <1>12, <2>1 DEF CloseCopy
  <2>3. h \in Held /\ h.pc = me[w].pc /\ h.job = me[w].job /\ h.stamp = me[w].stamp
        /\ h.at = me[w].at /\ h.queue = me[w].queue /\ h.told = me[w].told
    BY <1>0 DEF Held
  <2> HIDE DEF h
  <2>4. HeldOk(h, now)
    BY <2>2, <2>3, HeldOkKept
  <2>5. GoesOn(w, h)
    BY <2>2, <2>3 DEF GoesOn, Paths
  <2> QED
    BY <2>2, <2>3, <2>4, <2>5
<1>13. CASE CopiesClosed(w) \/ Tell(w) \/ TellFails(w)
  <2>1. me[w].pc \in {"copies", "tell"}
        /\ ((To(w, "tell") /\ me[w].pc = "copies") \/ Onward(w))
    BY <1>13 DEF CopiesClosed, Tell, TellFails
  <2> QED
    BY <1>e, <1>t, <2>1 DEF Paths, Places
<1>14. CASE Supersede(w) \/ Superseded(w) \/ ListOpen(w) \/ Index(w)
  <2>1. PICK place \in Places, queue \in SUBSET (Requests \X Nat) :
           /\ me' = [me EXCEPT ![w] = [me[w] EXCEPT !.pc = place, !.queue = queue]]
           /\ <<me[w].pc, place>> \in Paths /\ me[w].pc \in {"older", "open", "index"}
           /\ me[w].pc = "older" => queue \subseteq me[w].queue
    <3>0. me[w].queue \in SUBSET (Requests \X Nat)
      BY <1>0 DEF Held
    <3>1. CASE Supersede(w)
      <4>1. PICK q \in me[w].queue : me' = [me EXCEPT ![w].queue = @ \ {q}]
        BY <3>1 DEF Supersede
      <4>2. me' = [me EXCEPT ![w] = [me[w] EXCEPT !.queue = @ \ {q}]] /\ me[w].pc = "older"
        BY <1>0, <3>1, <4>1 DEF Supersede
      <4>3. [me[w] EXCEPT !.queue = @ \ {q}]
              = [me[w] EXCEPT !.pc = "older", !.queue = me[w].queue \ {q}]
        BY <1>0, <4>2 DEF Held
      <4>4. me[w].queue \ {q} \in SUBSET (Requests \X Nat) /\ me[w].queue \ {q} \subseteq me[w].queue
            /\ "older" \in Places /\ <<me[w].pc, "older">> \in Paths
        BY <3>0, <4>2 DEF Places, Paths
      <4>5. me' = [me EXCEPT ![w] = [me[w] EXCEPT !.pc = "older", !.queue = me[w].queue \ {q}]]
        BY <4>2, <4>3
      <4> QED
        BY <4>2, <4>4, <4>5
    <3>2. CASE Superseded(w)
      <4>1. me' = [me EXCEPT ![w] = [me[w] EXCEPT !.pc = "open", !.queue = {}]]
            /\ me[w].pc = "older"
        BY <1>0, <3>2 DEF Superseded
      <4>2. {} \in SUBSET (Requests \X Nat) /\ {} \subseteq me[w].queue
            /\ "open" \in Places /\ <<me[w].pc, "open">> \in Paths
        BY <4>1 DEF Places, Paths
      <4> QED
        BY <4>1, <4>2
    <3>3. CASE ListOpen(w)
      <4> DEFINE queue == {<<r, 0>> : r \in {r \in Requests : Still(r)}}
      <4>1. me' = [me EXCEPT ![w] = [me[w] EXCEPT !.pc = "index", !.queue = queue]]
            /\ me[w].pc = "open"
        BY <1>0, <3>3 DEF ListOpen
      <4>2. queue \in SUBSET (Requests \X Nat)
        OBVIOUS
      <4> HIDE DEF queue
      <4> QED
        BY <4>1, <4>2 DEF Places, Paths
    <3>4. CASE Index(w)
      <4> DEFINE queue == {q \in me[w].queue : mergedAt[Ask[q[1]]] > 0}
      <4>1. me' = [me EXCEPT ![w] = [me[w] EXCEPT !.pc = "next", !.queue = queue]]
            /\ me[w].pc = "index"
        BY <1>0, <3>4 DEF Index
      <4>2. queue \in SUBSET (Requests \X Nat)
        BY <3>0
      <4> HIDE DEF queue
      <4> QED
        BY <4>1, <4>2 DEF Places, Paths
    <3> QED
      BY <1>14, <3>1, <3>2, <3>3, <3>4
  <2> DEFINE h == [me[w] EXCEPT !.pc = place, !.queue = queue]
  <2>2. h \in Held /\ h.pc = place /\ h.job = me[w].job /\ h.stamp = me[w].stamp
        /\ h.at = me[w].at /\ h.queue = queue /\ h.told = me[w].told
    BY <1>0 DEF Held
  <2> HIDE DEF h
  <2>3. HeldOk(h, now)
    BY <1>0, <2>1, <2>2 DEF HeldOk, Paths
  <2>4. GoesOn(w, h)
    BY <2>1, <2>2 DEF GoesOn
  <2> QED
    BY <2>1, <2>2, <2>3, <2>4 DEF h
<1>15. CASE NextMerged(w)
  <2>0. me[w].pc = "next" /\ me[w].job = "merge"
    BY <1>0, <1>15 DEF NextMerged, HeldOk
  <2>1. CASE me[w].queue = {}
    BY <1>15, <1>e, <2>1 DEF NextMerged
  <2>2. ASSUME NEW q \in me[w].queue,
               me' = [me EXCEPT ![w].pc = "close", ![w].queue = @ \ {q}, ![w].at = q[1],
                          ![w].stamp = Later(mergedAt[Ask[q[1]]], rows[q[1]].updated)]
        PROVE  \E h \in Held : /\ me' = [me EXCEPT ![w] = h] /\ HeldOk(h, now)
                               /\ h.pc \in {"idle", "pick", "next"} \/ GoesOn(w, h)
    <3> DEFINE t == Later(mergedAt[Ask[q[1]]], rows[q[1]].updated)
               h == [me[w] EXCEPT !.pc = "close", !.queue = @ \ {q}, !.at = q[1], !.stamp = t]
    <3>1. q[1] \in Requests
      BY <1>0 DEF Held
    <3>2. t \in Nat /\ t <= now
      BY <1>0, <3>1, AskType, LaterType
    <3>3. me' = [me EXCEPT ![w] = h]
      BY <1>0, <2>2
    <3> HIDE DEF t
    <3>4. h \in Held /\ h.pc = "close" /\ h.job = me[w].job /\ h.stamp = t
          /\ h.queue = me[w].queue \ {q} /\ h.told = me[w].told
      BY <1>0, <3>1, <3>2 DEF Held, Places
    <3> HIDE DEF h
    <3>5. HeldOk(h, now) /\ GoesOn(w, h)
      BY <2>0, <3>2, <3>4 DEF HeldOk, GoesOn, Paths
    <3> QED
      BY <3>3, <3>4, <3>5
  <2>3. ASSUME NEW q \in me[w].queue, me' = [me EXCEPT ![w].queue = @ \ {q}]
        PROVE  \E h \in Held : /\ me' = [me EXCEPT ![w] = h] /\ HeldOk(h, now)
                               /\ h.pc \in {"idle", "pick", "next"} \/ GoesOn(w, h)
    <3> DEFINE h == [me[w] EXCEPT !.queue = @ \ {q}]
    <3>1. me' = [me EXCEPT ![w] = h]
      BY <1>0, <2>3
    <3>2. h \in Held /\ h.pc = "next" /\ h.job = me[w].job /\ h.stamp = me[w].stamp
      BY <1>0, <2>0 DEF Held
    <3> HIDE DEF h
    <3>3. HeldOk(h, now)
      BY <1>0, <2>0, <3>2 DEF HeldOk
    <3> QED
      BY <3>1, <3>2, <3>3
  <2> QED
    BY <1>15, <2>1, <2>2, <2>3 DEF NextMerged
<1>16. CASE Crash(w)
  BY <1>16, <1>e DEF Crash
<1> QED
  BY <1>1, <1>2, <1>3, <1>4, <1>5, <1>6, <1>7, <1>8, <1>9, <1>10, <1>11, <1>12, <1>13,
     <1>14, <1>15, <1>16, <1>e DEF Step

-----------------------------------------------------------------------------
LEMMA LaterOk == ASSUME NEW h, HeldOk(h, now), now \in Nat, now' \in {now, now + 1},
                        h.stamp \in Nat
                 PROVE  HeldOk(h, now')
  BY DEF HeldOk

\* The rest of the variables keep their types.
LEMMA OthersType ==
  ASSUME TypeInv, NEW w \in Workers, ByWorker(w)
  PROVE  /\ now' \in Nat /\ mergedAt' = mergedAt /\ crashes' \in Nat
         /\ asked' \subseteq Requests /\ notices' \subseteq Requests /\ acks' \subseteq Requests
         /\ resolvedAs' \in [Requests -> Nat] /\ shut' \in [Requests -> Nat]
         /\ beside' \in [Requests -> SUBSET Requests]
         /\ byHand' \subseteq Requests
         /\ raced' \in BOOLEAN /\ touched' \in BOOLEAN /\ lost' \in BOOLEAN
         /\ silent' \subseteq Requests /\ behind' \subseteq Requests
<1> USE DEF TypeInv, TypeOK, world, sent, past
<1>0. me[w].at \in Requests /\ me[w].todo \subseteq Requests /\ WriteTime(w) \in Nat
  BY DEF Held, WriteTime
<1>1. CASE Call(w)
  BY <1>1, CallShape
<1>2. CASE List(w) \/ Refresh(w) \/ Create(w) \/ Assign(w) \/ Claim(w) \/ Pick(w) \/ Look(w)
           \/ Acknowledge(w) \/ Sweep(w) \/ CopiesClosed(w) \/ Supersede(w)
           \/ ListOpen(w) \/ Index(w) \/ NextMerged(w) \/ SendFails(w)
  BY <1>2 DEF List, Refresh, Create, Assign, Claim, Pick, Look, Acknowledge, Sweep,
              CopiesClosed, Supersede, ListOpen, Index, NextMerged, SendFails
<1>3. CASE Send(w) \/ TellAck(w) \/ Tell(w)
  BY <1>0, <1>3 DEF Send, TellAck, Tell
<1>10. CASE Told(w)
  <2>1. silent' \in {silent, silent \cup {me[w].at}} /\ behind' \in {behind, behind \cup {me[w].at}}
    BY <1>10 DEF Told
  <2> QED
    BY <1>0, <1>10, <2>1 DEF Told
<1>7. CASE Superseded(w)
  BY <1>7 DEF Superseded
<1>8. CASE Note(w)
  BY <1>8 DEF Note
<1>4. CASE TellFails(w)
  BY <1>4 DEF TellFails
<1>9. CASE Crash(w)
  <2>1. /\ crashes' = crashes + 1
        /\ lost' = (lost \/ me[w].pc \in {"told", "sweep", "copies", "tell"})
        /\ UNCHANGED <<rows, sent, resolvedAs, shut, beside, byHand, raced, touched, silent,
                       behind, now, mergedAt>>
    BY <1>9 DEF Crash
  <2>2. lost' \in BOOLEAN
    BY <2>1
  <2> QED
    BY <2>1, <2>2
<1>5. CASE Close(w)
  <2>1. CASE UNCHANGED past
    BY <1>5, <2>1 DEF Close
  <2>2. CASE ~UNCHANGED past
    <3>1. /\ Resolve(w, me[w].at) /\ lost' = lost /\ raced' \in BOOLEAN
          /\ UNCHANGED <<silent, behind>>
          /\ beside' = [beside EXCEPT ![me[w].at] =
                          {c \in Requests : Repeats(me[w].at, c) /\ Still(c)}]
      BY <1>5, <2>2 DEF Close
    <3>2. beside' \in [Requests -> SUBSET Requests]
      BY <3>1
    <3> QED
      BY <1>0, <1>5, <3>1, <3>2 DEF Resolve, Close
  <2> QED
    BY <2>1, <2>2
<1>6. CASE CloseCopy(w)
  <2>1. CASE UNCHANGED past
    BY <1>6, <2>1 DEF CloseCopy
  <2>2. CASE ~UNCHANGED past
    <3>1. PICK c \in me[w].todo : /\ Resolve(w, c) /\ raced' = (raced \/ now > shut[me[w].at])
                                  /\ behind' \in {behind, behind \cup {c}}
                                  /\ UNCHANGED <<beside, silent, lost>>
      BY <1>6, <2>2 DEF CloseCopy
    <3>2. c \in Requests
      BY <1>0
    <3> QED
      BY <1>0, <1>6, <3>1, <3>2 DEF Resolve, CloseCopy
  <2> QED
    BY <2>1, <2>2
<1> QED
  BY <1>1, <1>2, <1>3, <1>4, <1>5, <1>6, <1>7, <1>8, <1>9, <1>10 DEF ByWorker, Step

\* What one worker's step leaves of the rest.
LEMMA WorkerStep ==
  ASSUME TypeInv, NEW w \in Workers, ByWorker(w)
  PROVE  /\ now' \in {now, now + 1}
         /\ \A v \in Workers \ {w} : me'[v] = me[v]
         /\ me' \in [Workers -> Held] /\ HeldOk(me'[w], now')
         /\ (Step(w) \/ Crash(w)) => /\ now' = now
                                     /\ me'[w].pc \in {"idle", "pick", "next"} \/ GoesOn(w, me'[w])
<1>0. me \in [Workers -> Held]
  BY DEF TypeInv, TypeOK
<1>1. CASE Call(w)
  <2>1. PICK h \in Held : me' = [me EXCEPT ![w] = h] /\ HeldOk(h, now')
    BY <1>1, CallShape
  <2>2. ~(Step(w) \/ Crash(w))
    BY <1>1, CallShape DEF Step, Crash, At, List, Refresh, Create, Assign, Claim, Send,
       SendFails, Note, Pick, Look, Acknowledge, TellAck, Close, Told, Sweep, CloseCopy,
       CopiesClosed, Tell, TellFails, Supersede, Superseded, ListOpen, Index, NextMerged
  <2> QED
    BY <1>0, <1>1, <2>1, <2>2, CallShape
<1>2. CASE Step(w) \/ Crash(w)
  <2>1. PICK h \in Held : /\ me' = [me EXCEPT ![w] = h] /\ HeldOk(h, now)
                          /\ h.pc \in {"idle", "pick", "next"} \/ GoesOn(w, h)
    BY <1>2, HeldShape
  <2>2. now' = now
    BY <1>2 DEF Step, Crash, world, List, Refresh, Create, Assign, Claim, Send,
       SendFails, Note, Pick, Look, Acknowledge, TellAck, Close, Told, Sweep, CloseCopy,
       CopiesClosed, Tell, TellFails, Supersede, Superseded, ListOpen, Index, NextMerged
  <2>3. me'[w] = h
    BY <1>0, <2>1
  <2> QED
    BY <1>0, <2>1, <2>2, <2>3
<1> QED
  BY <1>1, <1>2 DEF ByWorker

\* Each row stays as it is or flows.
LEMMA RowStep ==
  ASSUME TypeInv, NEW w \in Workers, ByWorker(w)
  PROVE  /\ rows' \in [Requests -> Row]
         /\ \A r \in Requests : \/ rows'[r] = rows[r] /\ resolvedAs'[r] = resolvedAs[r]
                                \/ Flow(w, r, rows'[r]) /\ Step(w)
<1>0. rows \in [Requests -> Row] /\ resolvedAs \in [Requests -> Nat]
  BY DEF TypeInv, TypeOK
<1>1. ASSUME rows' = rows, resolvedAs' = resolvedAs
      PROVE  /\ rows' \in [Requests -> Row]
             /\ \A r \in Requests : rows'[r] = rows[r] /\ resolvedAs'[r] = resolvedAs[r]
  BY <1>0, <1>1
<1>2. ASSUME Step(w), NEW r \in Requests, NEW row \in Row, SetRow(r, row), Flow(w, r, row),
             row.status # "resolved" => resolvedAs' = resolvedAs
      PROVE  /\ rows' \in [Requests -> Row]
             /\ \A c \in Requests : \/ rows'[c] = rows[c] /\ resolvedAs'[c] = resolvedAs[c]
                                    \/ Flow(w, c, rows'[c]) /\ Step(w)
  <2>1. rows' = [rows EXCEPT ![r] = row]
    BY <1>2 DEF SetRow
  <2>2. \A c \in Requests \ {r} : rows'[c] = rows[c]
    BY <1>0, <2>1
  <2>3. rows'[r] = row /\ rows' \in [Requests -> Row]
    BY <1>0, <2>1
  <2>4. \A c \in Requests \ {r} : resolvedAs'[c] = resolvedAs[c]
    BY <1>0, <1>2 DEF Flow
  <2> QED
    BY <1>2, <2>2, <2>3, <2>4
<1>3. CASE Call(w) \/ Crash(w)
  <2>1. rows' = rows /\ resolvedAs' = resolvedAs
    BY <1>3, CallShape DEF Crash, past
  <2>2. /\ rows' \in [Requests -> Row]
        /\ \A r \in Requests : rows'[r] = rows[r] /\ resolvedAs'[r] = resolvedAs[r]
    BY <1>1, <2>1
  <2> QED
    BY <2>2, Zenon
<1> QED
  BY <1>1, <1>2, <1>3, RowShape DEF ByWorker

\* A claimed attempt is one more than the sender read, of an open request.
LEMMA ClaimShape ==
  ASSUME TypeInv, NEW w \in Workers, Step(w), me[w].pc = "claim", me'[w].pc = "send"
  PROVE  /\ rows[me[w].at].status = "open" /\ rows[me[w].at].attempts = me[w].saw
         /\ rows'[me[w].at].attempts = me[w].saw + 1
         /\ me'[w].at = me[w].at /\ me'[w].saw = me[w].saw
<1>0. TypeOK /\ me[w] \in Held /\ rows \in [Requests -> Row] /\ me[w].at \in Requests
  BY DEF TypeInv, TypeOK, Held
<1>1. Claim(w)
  BY DEF Step, At, List, Refresh, Create, Assign, Claim, Send, SendFails, Note, Pick, Look,
     Acknowledge, TellAck, Close, Told, Sweep, CloseCopy, CopiesClosed, Tell, TellFails,
     Supersede, Superseded, ListOpen, Index, NextMerged
<1>2. ~Onward(w)
  BY OnwardHeld, <1>0 DEF TypeOK
<1>3. /\ rows[me[w].at].status = "open" /\ rows[me[w].at].attempts = me[w].saw
      /\ SetRow(me[w].at, [rows[me[w].at] EXCEPT !.attempts = @ + 1,
                                                !.due = (me[w].saw + 1 < MaxAttempts)])
      /\ To(w, "send")
  BY <1>1, <1>2 DEF Claim
<1>4. rows'[me[w].at].attempts = me[w].saw + 1
  BY <1>0, <1>3 DEF SetRow, Row
<1>5. me'[w].at = me[w].at /\ me'[w].saw = me[w].saw
  BY <1>0, <1>3 DEF To, TypeOK, Held
<1> QED
  BY <1>3, <1>4, <1>5

LEMMA TypeNext == ASSUME TypeInv, [Next]_vars PROVE TypeInv'
<1>0. /\ now \in Nat /\ me \in [Workers -> Held] /\ rows \in [Requests -> Row]
      /\ \A v \in Workers : me[v].stamp \in Nat /\ me[v].at \in Requests
  BY DEF TypeInv, TypeOK, Held
<1>1. ASSUME NEW w \in Workers, ByWorker(w) PROVE TypeInv'
  <2>1. TypeOK'
    BY <1>1, OthersType, WorkerStep, RowStep DEF TypeInv, TypeOK
  <2>2. \A v \in Workers : HeldOk(me[v], now)'
    BY <1>0, <1>1, WorkerStep, LaterOk DEF TypeInv
  <2>3. \A r \in Requests : RowOk(rows[r], now)'
    <3>1. ASSUME NEW r \in Requests PROVE RowOk(rows'[r], now')
      <4>1. RowOk(rows'[r], now)
        BY <1>1, RowStep DEF TypeInv, Flow
      <4> QED
        BY <1>0, <1>1, <2>1, <4>1, WorkerStep DEF RowOk, TypeOK, Row
    <3> QED
      BY <3>1
  <2>4. \A a \in Asks : mergedAt'[a] <= now'
    BY <1>0, <1>1, OthersType, WorkerStep DEF TypeInv, TypeOK
  <2>5. ASSUME NEW v \in Workers, me'[v].pc \in {"send", "note"}
        PROVE  rows'[me'[v].at].status # "none"
    <3>1. \A r \in Requests : rows[r].status # "none" => rows'[r].status # "none"
      BY <1>1, RowStep DEF Flow
    <3>2. CASE v # w
      BY <1>0, <1>1, <2>5, <3>1, <3>2, WorkerStep DEF TypeInv
    <3>3. CASE v = w
      <4>1. Step(w) /\ GoesOn(w, me'[w])
        BY <1>1, <2>5, <3>3, CallShape, WorkerStep, RestType, <1>0 DEF ByWorker, Crash, Stop
      <4>2. CASE me[w].pc = "claim"
        <5>1. me'[w].pc = "send"
          BY <2>5, <3>3, <4>1, <4>2 DEF GoesOn, Paths
        <5> QED
          BY <1>0, <3>1, <3>3, <4>1, <4>2, <5>1, ClaimShape
      <4>3. CASE me[w].pc = "send"
        BY <1>0, <3>1, <3>3, <4>1, <4>3 DEF GoesOn, TypeInv
      <4> QED
        BY <2>5, <3>3, <4>1, <4>2, <4>3 DEF GoesOn, Paths
    <3> QED
      BY <3>2, <3>3
  <2> QED
    BY <2>1, <2>2, <2>3, <2>4, <2>5 DEF TypeInv
<1>2. ASSUME NEW a \in Asks, Merge(a) PROVE TypeInv'
  BY <1>0, <1>2 DEF Merge, TypeInv, TypeOK, sent, past
<1>3. CASE UNCHANGED vars
  BY <1>3 DEF vars, sent, past, world, TypeInv, TypeOK
<1> QED
  BY <1>1, <1>2, <1>3 DEF Next, ByWorker

LEMMA TypeInvCorrect == Spec => []TypeInv
<1>1. Init => TypeInv
  <2> SUFFICES ASSUME Init PROVE TypeInv
    OBVIOUS
  <2> USE StartType, AttemptsType
  <2>0. \A r \in Requests : CreatedBefore[r] \in Nat /\ CreatedBefore[r] <= Start
    OBVIOUS
  <2>1. NoRow \in Row /\ NoRow.status = "none" /\ NoRow.attempts = 0 /\ ~NoRow.named
        /\ NoRow.updated = 0 /\ NoRow.created = 0
    BY DEF NoRow, Row, Statuses
  <2>2. ASSUME NEW r \in Requests
        PROVE  OldRow(r) \in Row /\ OldRow(r).status = "open" /\ OldRow(r).named
               /\ OldRow(r).updated = CreatedBefore[r] /\ OldRow(r).created = CreatedBefore[r]
    <3>1. "open" \in Statuses /\ 1 \in 0..MaxAttempts
      BY DEF Statuses, Open
    <3> QED
      BY <2>0, <2>1, <3>1 DEF OldRow, Row
  <2>3. PICK old \in SUBSET Requests :
           /\ rows = [r \in Requests |-> IF r \in old THEN OldRow(r) ELSE NoRow]
           /\ asked = old
    BY DEF Init
  <2>4. rows \in [Requests -> Row] /\ (\A r \in Requests : RowOk(rows[r], now))
    <3>1. now = Start
      BY DEF Init
    <3>2. \A r \in Requests : RowOk(OldRow(r), Start) /\ RowOk(NoRow, Start)
      BY <2>0, <2>1, <2>2 DEF RowOk, Open
    <3> QED
      BY <2>1, <2>2, <2>3, <3>1, <3>2
  <2>5. me = [w \in Workers |-> Rest] /\ me \in [Workers -> Held]
    BY RestType DEF Init
  <2>6. TypeOK
    <3>1. beside \in [Requests -> SUBSET Requests] /\ mergedAt \in [Asks -> Nat]
          /\ resolvedAs \in [Requests -> Nat] /\ shut \in [Requests -> Nat]
      BY DEF Init
    <3> QED
      BY <2>3, <2>4, <2>5, <3>1 DEF Init, TypeOK
  <2>7. (\A a \in Asks : mergedAt[a] <= now) /\ now \in Nat
    BY DEF Init
  <2> QED
    BY <2>4, <2>5, <2>6, <2>7, RestType DEF TypeInv
<1> QED
  BY <1>1, TypeNext, PTL DEF Spec

\* Requests, the calls that work on them and every count of the model keep their
\* types: no attempt is claimed past the limit of notifications.
THEOREM TypeCorrect == Spec => []TypeOK
<1>1. TypeInv => TypeOK
  BY DEF TypeInv
<1> QED
  BY <1>1, TypeInvCorrect, PTL

-----------------------------------------------------------------------------
\* A step of the system is one worker's, or leaves calls, rows and notices alone.
LEMMA WhoseStep ==
  ASSUME [Next]_vars
  PROVE  \/ \E w \in Workers : ByWorker(w)
         \/ /\ UNCHANGED <<rows, me, sent, past, now>>
  BY DEF Next, ByWorker, vars, Merge, world

\* A worker comes to the places between two statements only along Paths.
LEMMA Came ==
  ASSUME TypeInv, NEW w \in Workers, ByWorker(w),
         me'[w].pc \in {"send", "close", "told", "sweep", "copies", "tell"}
  PROVE  Step(w) /\ GoesOn(w, me'[w])
<1>0. me \in [Workers -> Held]
  BY DEF TypeInv, TypeOK
<1>1. ~Call(w)
  BY <1>0, CallShape
<1>2. ~Crash(w)
  BY <1>0, RestType DEF Crash, Stop
<1> QED
  BY <1>1, <1>2, WorkerStep DEF ByWorker

\* A sender's attempt is among those the row counts.
Counted == \A w \in Workers : At(w, "send") => me[w].saw < rows[me[w].at].attempts

\* No two senders hold one attempt at a request's DM (claim_notification_attempt).
THEOREM AttemptIsHeldOnceCorrect == Spec => []AttemptIsHeldOnce
<1> USE DEF At
<1>1. Init => Counted /\ AttemptIsHeldOnce
  BY RestType DEF Init, Counted, AttemptIsHeldOnce
<1>2. ASSUME TypeInv, Counted, AttemptIsHeldOnce, [Next]_vars
      PROVE  (Counted /\ AttemptIsHeldOnce)'
  <2>1. ASSUME NEW w \in Workers, ByWorker(w) PROVE (Counted /\ AttemptIsHeldOnce)'
    <3>0. /\ \A v \in Workers \ {w} : me'[v] = me[v]
          /\ \A v \in Workers : me[v].at \in Requests /\ me[v].saw \in Nat
          /\ \A r \in Requests : rows[r].attempts \in Nat /\ rows'[r].attempts \in Nat
                                 /\ rows'[r].attempts >= rows[r].attempts
      BY <1>2, <2>1, WorkerStep, RowStep DEF TypeInv, TypeOK, Held, Row, Flow
    <3>1. CASE me'[w].pc # "send"
      BY <1>2, <3>0, <3>1 DEF Counted, AttemptIsHeldOnce
    <3>2. CASE me'[w].pc = "send"
      <4>1. Step(w) /\ me[w].pc = "claim"
        BY <1>2, <2>1, <3>2, Came DEF GoesOn, Paths
      <4>2. /\ rows[me[w].at].attempts = me[w].saw /\ rows'[me[w].at].attempts = me[w].saw + 1
            /\ me'[w].at = me[w].at /\ me'[w].saw = me[w].saw
        BY <1>2, <3>2, <4>1, ClaimShape
      <4>3. \A v \in Workers \ {w} :
               me[v].pc = "send" /\ me[v].at = me[w].at => me[v].saw # me[w].saw
        BY <1>2, <3>0, <4>2 DEF Counted
      <4> QED
        BY <1>2, <3>0, <3>2, <4>2, <4>3 DEF Counted, AttemptIsHeldOnce
    <3> QED
      BY <3>1, <3>2
  <2>2. CASE UNCHANGED <<rows, me, sent, past, now>>
    BY <1>2, <2>2 DEF Counted, AttemptIsHeldOnce
  <2> QED
    BY <1>2, <2>1, <2>2, WhoseStep
<1> QED
  BY <1>1, <1>2, TypeInvCorrect, PTL DEF Spec

-----------------------------------------------------------------------------
\* The steps of a resolution, and what each has done when it goes on.
LEMMA Resolution ==
  ASSUME TypeInv, NEW w \in Workers, Step(w)
  PROVE  /\ (me[w].pc = "close" /\ me'[w].pc = "told") =>
              /\ MayClose(w, me[w].at) /\ rows'[me[w].at].status = "resolved"
              /\ beside' = [beside EXCEPT ![me[w].at] =
                              {c \in Requests : Repeats(me[w].at, c) /\ Still(c)}]
         /\ ~(me[w].pc = "close" /\ me'[w].pc = "told") => beside' = beside
         /\ (me[w].pc = "told" /\ me'[w].pc = "sweep") =>
              /\ rows' = rows /\ resolvedAs' = resolvedAs
              /\ me'[w].told = (Copies(me[w].at) # {})
         /\ (me[w].pc = "sweep" /\ me'[w].pc = "copies") =>
              /\ rows' = rows
              /\ me'[w].todo = {c \in Requests : Repeats(me[w].at, c) /\ Still(c)}
         /\ (me[w].pc = "copies" /\ me'[w].pc = "copies") =>
              \E c \in me[w].todo : /\ me'[w].todo = me[w].todo \ {c}
                                    /\ rows'[c].status \notin Open
         /\ (me[w].pc = "copies" /\ me'[w].pc = "tell") =>
              /\ rows' = rows /\ me[w].todo = {}
              /\ ~(me[w].told \/ me[w].job = "requester")
         /\ me[w].pc = "tell" => rows' = rows /\ notices' \in {notices, notices \cup {me[w].at}}
         /\ me[w].pc # "tell" => notices' = notices
<1> USE DEF At, sent, past
<1>0. /\ me \in [Workers -> Held] /\ me[w] \in Held /\ me[w].at \in Requests
      /\ me[w].todo \subseteq Requests
      /\ rows \in [Requests -> Row] /\ TypeOK /\ now \in Nat
  BY DEF TypeInv, TypeOK, Held
<1>1. CASE List(w) \/ Refresh(w) \/ Create(w) \/ Assign(w) \/ Claim(w) \/ Send(w) \/ SendFails(w)
           \/ Note(w) \/ Pick(w) \/ Look(w) \/ Acknowledge(w) \/ TellAck(w)
           \/ Supersede(w) \/ Superseded(w) \/ ListOpen(w) \/ Index(w) \/ NextMerged(w)
  BY <1>1 DEF List, Refresh, Create, Assign, Claim, Send, SendFails, Note, Pick, Look,
     Acknowledge, TellAck, Supersede, Superseded, ListOpen, Index, NextMerged
<1>o. ASSUME Onward(w) PROVE me'[w].pc \in {"idle", "pick", "next"}
  BY <1>0, <1>o, OnwardHeld
<1>2. CASE Close(w)
  <2>1. CASE Onward(w) /\ UNCHANGED <<rows, past>>
    BY <1>2, <1>o, <2>1 DEF Close
  <2>2. CASE ~(Onward(w) /\ UNCHANGED <<rows, past>>)
    <3>1. /\ MayClose(w, me[w].at) /\ Resolve(w, me[w].at) /\ To(w, "told")
          /\ beside' = [beside EXCEPT ![me[w].at] =
                          {c \in Requests : Repeats(me[w].at, c) /\ Still(c)}]
      BY <1>2, <2>2 DEF Close
    <3>2. rows'[me[w].at].status = "resolved"
      BY <1>0, <3>1 DEF Resolve, SetRow, Row
    <3>3. me'[w].pc = "told"
      BY <1>0, <3>1 DEF To, Held
    <3> QED
      BY <1>2, <3>1, <3>2, <3>3 DEF Close
  <2> QED
    BY <2>1, <2>2
<1>3. CASE Told(w)
  <2> DEFINE told == Copies(me[w].at) # {}
  <2>1. /\ me[w].pc = "told" /\ UNCHANGED <<rows, sent, resolvedAs, beside>>
        /\ me' = [me EXCEPT ![w].pc = "sweep", ![w].told = told]
    BY <1>3 DEF Told
  <2>2. told \in BOOLEAN
    OBVIOUS
  <2> HIDE DEF told
  <2>3. me'[w].told = told /\ me'[w].pc = "sweep"
    BY <1>0, <2>1, <2>2 DEF Held
  <2> QED
    BY <2>1, <2>3 DEF told
<1>4. CASE Sweep(w)
  <2> DEFINE todo == {c \in Requests : Repeats(me[w].at, c) /\ Still(c)}
  <2>1. /\ me[w].pc = "sweep" /\ UNCHANGED <<rows, sent, past, world>>
        /\ me' = [me EXCEPT ![w].pc = "copies", ![w].todo = todo]
    BY <1>4 DEF Sweep
  <2> HIDE DEF todo
  <2>2. me'[w].todo = todo /\ me'[w].pc = "copies"
    BY <1>0, <2>1 DEF Held
  <2> QED
    BY <2>1, <2>2 DEF todo
<1>5. CASE CloseCopy(w)
  <2>1. PICK c \in me[w].todo :
           /\ me' = [me EXCEPT ![w].todo = @ \ {c}]
           /\ IF Still(c) THEN Resolve(w, c) /\ UNCHANGED <<beside, lost>>
                          ELSE UNCHANGED <<rows, past>>
    BY <1>5 DEF CloseCopy
  <2>2. me'[w].todo = me[w].todo \ {c} /\ me[w].pc = "copies" /\ me'[w].pc = "copies"
    BY <1>0, <1>5, <2>1 DEF CloseCopy, Held
  <2>3. rows'[c].status \notin Open
    <3>1. CASE Still(c)
      <4>1. rows' = [rows EXCEPT ![c] = [rows[c] EXCEPT !.status = "resolved", !.updated = WriteTime(w)]]
        BY <2>1, <3>1 DEF Resolve, SetRow
      <4>2. rows'[c].status = "resolved"
        BY <1>0, <4>1 DEF Row
      <4> QED
        BY <4>2 DEF Open
    <3>2. CASE ~Still(c)
      BY <2>1, <3>2 DEF Still
    <3> QED
      BY <3>1, <3>2
  <2>4. beside' = beside /\ notices' = notices
    BY <1>5, <2>1 DEF CloseCopy
  <2> QED
    BY <2>2, <2>3, <2>4
<1>6. CASE CopiesClosed(w)
  <2>1. To(w, "tell") => me'[w].pc = "tell"
    BY <1>0 DEF To, Held
  <2> QED
    BY <1>6, <1>o, <2>1 DEF CopiesClosed
<1>7. CASE Tell(w) \/ TellFails(w)
  BY <1>7, <1>o DEF Tell, TellFails
<1> QED
  BY <1>1, <1>2, <1>3, <1>4, <1>5, <1>6, <1>7 DEF Step

\* What a step does to the rows a resolution works with.
LEMMA RowsFlow ==
  ASSUME TypeInv, NEW w \in Workers, ByWorker(w)
  PROVE  /\ \A c \in Requests : /\ rows[c].status \in Open \cup Closed
                                      => rows'[c].status \in Open \cup Closed
                                /\ rows[c].status \in Closed => rows'[c].status = rows[c].status
                                /\ rows[c].named => rows'[c].named
                                /\ rows[c].status # "none" => /\ rows'[c].status # "none"
                                                              /\ rows'[c].created = rows[c].created
         /\ \A r \in Requests, c \in Requests : Repeats(r, c) => Repeats(r, c)'
<1>1. \A c \in Requests : /\ rows[c].status \in Open \cup Closed
                                => rows'[c].status \in Open \cup Closed
                          /\ rows[c].status \in Closed => rows'[c].status = rows[c].status
                          /\ rows[c].named => rows'[c].named
                          /\ rows[c].status # "none" => /\ rows'[c].status # "none"
                                                        /\ rows'[c].created = rows[c].created
  BY RowStep DEF Flow, Open, Closed
<1>2. \A r \in Requests, c \in Requests : Repeats(r, c) => Repeats(r, c)'
  BY <1>1 DEF Repeats
<1> QED
  BY <1>1, <1>2

Resolved == {"told", "sweep", "copies", "tell"}

\* A call that has resolved its request has yet to close each copy of it that was
\* open then, or has closed it.
CopiesInv ==
    /\ \A r \in Requests : \A c \in beside[r] : /\ Repeats(r, c)
                                                /\ rows[c].status \in Open \cup Closed
    /\ \A w \in Workers : me[w].pc \in Resolved => rows[me[w].at].status = "resolved"
    /\ \A w \in Workers : At(w, "copies") =>
         \A c \in beside[me[w].at] : Still(c) => c \in me[w].todo
    /\ \A w \in Workers : At(w, "tell") => \A c \in beside[me[w].at] : ~Still(c)
    /\ \A r \in notices : rows[r].status = "resolved" /\ (\A c \in beside[r] : ~Still(c))

LEMMA CopiesNext == ASSUME TypeInv, CopiesInv, [Next]_vars PROVE CopiesInv'
<1> USE DEF At
<1>1. ASSUME NEW w \in Workers, ByWorker(w) PROVE CopiesInv'
  <2>0. /\ \A v \in Workers : me[v].at \in Requests
        /\ \A v \in Workers \ {w} : me'[v] = me[v]
        /\ beside \in [Requests -> SUBSET Requests] /\ notices \subseteq Requests
    BY <1>1, WorkerStep DEF TypeInv, TypeOK, Held
  <2>1. ~(Step(w) /\ me[w].pc = "close" /\ me'[w].pc = "told") => beside' = beside
    BY <1>1, CallShape, Resolution DEF ByWorker, Crash, past
  <2>2. \A r \in Requests : rows[r].status = "resolved" => beside'[r] = beside[r]
    BY <1>1, <2>0, <2>1, Resolution DEF MayClose, Still, Open
  <2>3. \A r \in Requests : \A c \in beside'[r] : Repeats(r, c)' /\ rows'[c].status \in Open \cup Closed
    <3>1. CASE beside' = beside
      BY <1>1, <2>0, <3>1, RowsFlow DEF CopiesInv
    <3>2. CASE beside' # beside
      <4>1. beside' = [beside EXCEPT ![me[w].at] =
                          {c \in Requests : Repeats(me[w].at, c) /\ Still(c)}]
        BY <1>1, <2>1, <3>2, Resolution
      <4>2. \A r \in Requests : \A c \in beside'[r] : c \in Requests /\ Repeats(r, c)
                                                    /\ rows[c].status \in Open \cup Closed
        BY <2>0, <4>1 DEF CopiesInv, Still
      <4> QED
        BY <1>1, <4>2, RowsFlow
    <3> QED
      BY <3>1, <3>2
  <2>4. ASSUME NEW r \in Requests, rows[r].status = "resolved",
               \A c \in beside[r] : ~Still(c)
        PROVE  rows'[r].status = "resolved" /\ (\A c \in beside'[r] : ~Still(c)')
    <3>1. \A c \in beside[r] : c \in Requests /\ rows[c].status \in Closed
      BY <2>0, <2>4 DEF CopiesInv, Still
    <3> QED
      BY <1>1, <2>2, <2>4, <3>1, RowsFlow DEF Still, Open, Closed
  <2>5. ASSUME NEW v \in Workers, v # w
        PROVE  /\ me'[v].pc \in Resolved => rows'[me'[v].at].status = "resolved"
               /\ me'[v].pc = "copies" =>
                    \A c \in beside'[me'[v].at] : Still(c)' => c \in me'[v].todo
               /\ me'[v].pc = "tell" => \A c \in beside'[me'[v].at] : ~Still(c)'
    <3>1. me'[v] = me[v] /\ me[v].at \in Requests
      BY <2>0, <2>5
    <3>2. me[v].pc \in Resolved =>
             rows'[me[v].at].status = "resolved" /\ beside'[me[v].at] = beside[me[v].at]
      BY <1>1, <2>2, <3>1, RowsFlow DEF CopiesInv, Closed
    <3>3. \A c \in beside[me[v].at] : c \in Requests /\ (Still(c)' => Still(c))
      BY <1>1, <2>0, <3>1, RowsFlow DEF CopiesInv, Still, Open, Closed
    <3> QED
      BY <3>1, <3>2, <3>3 DEF CopiesInv, Resolved
  <2>6. /\ me'[w].pc \in Resolved => rows'[me'[w].at].status = "resolved"
        /\ me'[w].pc = "copies" =>
             \A c \in beside'[me'[w].at] : Still(c)' => c \in me'[w].todo
        /\ me'[w].pc = "tell" => \A c \in beside'[me'[w].at] : ~Still(c)'
    <3>1. CASE me'[w].pc \in Resolved
      <4>1. /\ Step(w) /\ me'[w].at = me[w].at /\ me[w].at \in Requests
            /\ <<me[w].pc, me'[w].pc>> \in
                 {<<"close", "told">>, <<"told", "sweep">>, <<"sweep", "copies">>,
                  <<"copies", "copies">>, <<"copies", "tell">>}
        BY <1>1, <2>0, <3>1, Came DEF GoesOn, Paths, Resolved
      <4>2. rows'[me[w].at].status = "resolved"
        <5>1. CASE me[w].pc = "close"
          BY <4>1, <5>1, Resolution
        <5>2. CASE me[w].pc # "close"
          <6>1. rows[me[w].at].status = "resolved"
            BY <4>1, <5>2 DEF CopiesInv, Resolved
          <6> QED
            BY <1>1, <4>1, <6>1, RowsFlow DEF Closed
        <5> QED
          BY <5>1, <5>2
      <4>3. me[w].pc # "close" => beside'[me[w].at] = beside[me[w].at]
                                  /\ \A c \in beside[me[w].at] : c \in Requests
        BY <2>0, <2>1
      <4>4. me'[w].pc = "copies" =>
               \A c \in beside'[me'[w].at] : Still(c)' => c \in me'[w].todo
        <5>1. CASE me[w].pc = "sweep" /\ me'[w].pc = "copies"
          BY <1>1, <4>1, <4>3, <5>1, Resolution DEF CopiesInv, Still
        <5>2. CASE me[w].pc = "copies" /\ me'[w].pc = "copies"
          <6>1. PICK d \in me[w].todo : me'[w].todo = me[w].todo \ {d}
                                        /\ rows'[d].status \notin Open
            BY <1>1, <4>1, <5>2, Resolution
          <6>2. \A c \in beside[me[w].at] : Still(c)' => Still(c) /\ c # d
            BY <1>1, <4>1, <4>3, <5>2, <6>1, RowsFlow DEF CopiesInv, Still, Open, Closed
          <6> QED
            BY <4>1, <4>3, <5>2, <6>1, <6>2 DEF CopiesInv
        <5> QED
          BY <4>1, <5>1, <5>2
      <4>5. me'[w].pc = "tell" => \A c \in beside'[me'[w].at] : ~Still(c)'
        BY <1>1, <4>1, <4>3, Resolution DEF CopiesInv, Still
      <4> QED
        BY <4>1, <4>2, <4>4, <4>5
    <3>2. CASE me'[w].pc \notin Resolved
      BY <3>2 DEF Resolved
    <3> QED
      BY <3>1, <3>2
  <2>7. \A r \in notices' : rows'[r].status = "resolved" /\ (\A c \in beside'[r] : ~Still(c)')
    <3>1. \A r \in notices' : r \in notices \/ (me[w].pc = "tell" /\ r = me[w].at)
      BY <1>1, CallShape, Resolution DEF ByWorker, Crash, sent
    <3>2. \A r \in notices' : r \in Requests /\ rows[r].status = "resolved"
                              /\ \A c \in beside[r] : ~Still(c)
      BY <2>0, <3>1 DEF CopiesInv, Resolved
    <3> QED
      BY <2>4, <3>2
  <2> QED
    BY <2>3, <2>5, <2>6, <2>7 DEF CopiesInv
<1>2. CASE UNCHANGED <<rows, me, sent, past, now>>
  BY <1>2 DEF sent, past, CopiesInv, Repeats, Still
<1> QED
  BY <1>1, <1>2, WhoseStep

LEMMA CopiesCorrect == Spec => []CopiesInv
<1>1. Init => CopiesInv
  BY RestType DEF Init, CopiesInv, At, Resolved
<1> QED
  BY <1>1, CopiesNext, TypeInvCorrect, PTL DEF Spec

\* The requester is told only when each copy that was open at the resolution has
\* closed (CrossPersonRequestService.update_status).
THEOREM NoticeAfterCopiesCorrect == Spec => []NoticeAfterCopies
<1>1. CopiesInv => NoticeAfterCopies
  BY DEF CopiesInv, NoticeAfterCopies
<1> QED
  BY <1>1, CopiesCorrect, PTL

-----------------------------------------------------------------------------
\* A call that found no copy its requester had heard of, or the notice it sent.
Telling(r) == \/ r \in notices
              \/ \E w \in Workers : /\ me[w].pc \in {"sweep", "copies", "tell"} /\ me[w].at = r
                                    /\ ~me[w].told /\ me[w].job # "requester"

\* Two resolutions written with these times are of requests open one after the other.
Apart(r, c) == resolvedAs[r] < rows[c].created \/ resolvedAs[c] < rows[r].created

HeardInv ==
    /\ \A r \in Requests : rows[r].status = "resolved" => resolvedAs[r] <= rows[r].updated
    /\ \A w \in Workers : me[w].job = "asked" /\ me[w].pc \in {"look", "close"}
                             => rows[me[w].at].named
    /\ \A w \in Workers : me[w].pc \in Resolved /\ me[w].job # "requester"
                             => rows[me[w].at].named
    /\ \A r \in notices : rows[r].named
    /\ \A w \in Workers : At(w, "tell") => ~me[w].told /\ me[w].job # "requester"
    /\ \A r, c \in Requests : Telling(r) /\ Telling(c) /\ r # c /\ Ask[c] = Ask[r] => Apart(r, c)

\* Only _told_about_a_copy lets another request be told of.
LEMMA TellingStep ==
  ASSUME TypeInv, HeardInv, NEW w \in Workers, ByWorker(w), NEW r \in Requests, Telling(r)'
  PROVE  \/ Telling(r)
         \/ /\ Step(w) /\ me[w].pc = "told" /\ me'[w].pc = "sweep" /\ me[w].at = r
            /\ ~me'[w].told /\ me[w].job # "requester"
<1>0. \A v \in Workers \ {w} : me'[v] = me[v]
  BY WorkerStep
<1>1. CASE r \in notices' /\ r \notin notices
  <2>1. Step(w) /\ me[w].pc = "tell" /\ r = me[w].at
    BY <1>1, CallShape, Resolution DEF ByWorker, Crash, sent
  <2> QED
    BY <1>1, <2>1 DEF Telling, HeardInv, At
<1>2. CASE r \in notices
  BY <1>2 DEF Telling
<1>3. ASSUME NEW v \in Workers,
             me'[v].pc \in {"sweep", "copies", "tell"}, me'[v].at = r,
             ~me'[v].told, me'[v].job # "requester"
      PROVE  \/ Telling(r)
             \/ /\ Step(w) /\ me[w].pc = "told" /\ me'[w].pc = "sweep" /\ me[w].at = r
                /\ ~me'[w].told /\ me[w].job # "requester"
  <2>1. CASE v # w
    BY <1>0, <1>3, <2>1 DEF Telling
  <2>2. CASE v = w
    <3>1. Step(w) /\ GoesOn(w, me'[w])
      BY <1>3, <2>2, Came
    <3>2. /\ me'[w].at = me[w].at /\ me'[w].job = me[w].job
          /\ <<me[w].pc, me'[w].pc>> \in
               {<<"told", "sweep">>, <<"sweep", "copies">>,
                <<"copies", "copies">>, <<"copies", "tell">>}
          /\ me[w].pc # "told" => me'[w].told = me[w].told
      BY <1>3, <2>2, <3>1 DEF GoesOn, Paths
    <3> QED
      BY <1>3, <2>2, <3>1, <3>2 DEF Telling
  <2> QED
    BY <2>1, <2>2
<1> QED
  BY <1>1, <1>2, <1>3 DEF Telling

LEMMA HeardNext ==
  ASSUME TypeInv, CopiesInv, HeardInv, [Next]_vars PROVE HeardInv'
<1>1. ASSUME NEW w \in Workers, ByWorker(w) PROVE HeardInv'
  <2>0. /\ \A v \in Workers : me[v].at \in Requests
        /\ \A v \in Workers \ {w} : me'[v] = me[v]
        /\ notices \subseteq Requests
        /\ resolvedAs \in [Requests -> Nat]
        /\ \A r \in Requests : /\ rows[r].updated \in Nat /\ rows'[r].updated \in Nat
                               /\ rows[r].created \in Nat
                               /\ RowOk(rows[r], now)
    BY <1>1, WorkerStep, RowStep DEF TypeInv, TypeOK, Held, Row
  <2>1. ASSUME NEW r \in Requests, rows'[r].status = "resolved"
        PROVE  resolvedAs'[r] <= rows'[r].updated
               /\ (rows[r].status = "resolved" => resolvedAs'[r] = resolvedAs[r])
    BY <1>1, <2>0, <2>1, RowStep DEF HeardInv, Flow
  <2>2. ASSUME NEW v \in Workers, me'[v].job = "asked", me'[v].pc \in {"look", "close"}
        PROVE  rows'[me'[v].at].named
    <3>1. CASE v # w
      BY <1>1, <2>0, <2>2, <3>1, RowsFlow DEF HeardInv
    <3>2. CASE v = w /\ me'[w].pc = "close"
      <4>1. Step(w) /\ GoesOn(w, me'[w])
        BY <1>1, <3>2, Came
      <4>2. me'[w].at = me[w].at /\ me[w].pc = "look" /\ me[w].job = "asked"
        BY <2>2, <3>2, <4>1 DEF GoesOn, Paths, TypeInv, HeldOk
      <4> QED
        BY <1>1, <2>0, <3>2, <4>2, RowsFlow DEF HeardInv
    <3>3. CASE v = w /\ me'[w].pc = "look"
      <4>1. Call(w)
        <5>1. ~Step(w)
          BY <1>1, <3>3, WorkerStep DEF GoesOn, Paths
        <5>2. ~Crash(w)
          BY <3>3, RestType DEF Crash, Stop, TypeInv, TypeOK
        <5> QED
          BY <1>1, <5>1, <5>2 DEF ByWorker
      <4>2. PICK h \in Held : /\ me' = [me EXCEPT ![w] = h]
                              /\ h.pc = "look" /\ h.job = "asked" => rows[h.at].named
        BY <4>1, CallShape
      <4>3. me'[w] = h /\ h.at \in Requests
        BY <4>2 DEF TypeInv, TypeOK, Held
      <4> QED
        BY <1>1, <2>2, <3>3, <4>2, <4>3, RowsFlow
    <3> QED
      BY <2>2, <3>1, <3>2, <3>3
  <2>3. ASSUME NEW v \in Workers, me'[v].pc \in Resolved, me'[v].job # "requester"
        PROVE  rows'[me'[v].at].named
    <3>1. CASE v # w
      BY <1>1, <2>0, <2>3, <3>1, RowsFlow DEF HeardInv
    <3>2. CASE v = w
      <4>1. Step(w) /\ GoesOn(w, me'[w])
        BY <1>1, <2>3, <3>2, Came DEF Resolved
      <4>2. me'[w].at = me[w].at /\ me'[w].job = me[w].job /\ me[w].pc \in Resolved \cup {"close"}
            /\ (me[w].pc = "close" => me'[w].pc = "told")
        BY <2>3, <3>2, <4>1 DEF GoesOn, Paths, Resolved
      <4>3. rows[me[w].at].named
        <5>1. CASE me[w].pc = "close"
          <6>1. MayClose(w, me[w].at)
            BY <4>1, <4>2, <5>1, Resolution
          <6>2. Still(me[w].at) => rows[me[w].at].named
            BY <2>0 DEF Still, RowOk
          <6> QED
            BY <2>3, <3>2, <4>2, <5>1, <6>1, <6>2 DEF MayClose, HeardInv
        <5> QED
          BY <2>3, <3>2, <4>2, <5>1 DEF HeardInv
      <4> QED
        BY <1>1, <2>0, <3>2, <4>2, <4>3, RowsFlow
    <3> QED
      BY <3>1, <3>2
  <2>4. \A r \in Requests : Telling(r) => /\ rows[r].status = "resolved" /\ rows[r].named
                                          /\ resolvedAs'[r] = resolvedAs[r]
                                          /\ rows'[r].created = rows[r].created
                                          /\ rows'[r].named
    <3>1. \A r \in Requests : Telling(r) => rows[r].status = "resolved" /\ rows[r].named
      BY DEF Telling, CopiesInv, HeardInv, Resolved
    <3> QED
      BY <1>1, <2>1, <3>1, RowsFlow DEF Closed
  <2>5. \A r \in notices' : rows'[r].named
    <3>1. \A r \in notices' : Telling(r) /\ r \in Requests
      <4>1. \A r \in notices' : r \in Requests
        BY <1>1, OthersType
      <4>2. \A r \in notices' : Telling(r)'
        BY DEF Telling
      <4>3. ASSUME NEW r \in notices', r \notin notices PROVE Telling(r)
        <5>1. Step(w) /\ me[w].pc = "tell"
          BY <1>1, <4>3, CallShape, Resolution DEF ByWorker, Crash, sent
        <5> QED
          BY <1>1, <4>1, <4>2, <5>1, TellingStep
      <4> QED
        BY <4>1, <4>3 DEF Telling
    <3> QED
      BY <2>4, <3>1
  <2>6. ASSUME NEW r \in Requests, NEW c \in Requests, Telling(r)', Telling(c), r # c,
               Ask[c] = Ask[r]
        PROVE  Apart(r, c)'
    <3>1. CASE Telling(r)
      BY <2>4, <2>6, <3>1 DEF HeardInv, Apart
    <3>2. CASE ~Telling(r)
      <4>1. /\ Step(w) /\ me[w].pc = "told" /\ me'[w].pc = "sweep" /\ me[w].at = r
            /\ ~me'[w].told /\ me[w].job # "requester"
        BY <1>1, <2>6, <3>2, TellingStep
      <4>2. rows' = rows /\ resolvedAs' = resolvedAs
            /\ ~(Repeats(r, c) /\ rows[c].status = "resolved" /\ rows[c].updated >= rows[r].created)
        BY <4>1, Resolution DEF Copies
      <4>3. Repeats(r, c) /\ rows[c].status = "resolved"
        BY <2>4, <2>6, <4>1 DEF Repeats, HeardInv, Resolved
      <4>4. resolvedAs[c] < rows[r].created
        BY <2>0, <4>2, <4>3 DEF HeardInv
      <4> QED
        BY <4>2, <4>4 DEF Apart
    <3> QED
      BY <3>1, <3>2
  <2>7. \A r, c \in Requests : Telling(r)' /\ Telling(c)' /\ r # c /\ Ask[c] = Ask[r]
                                  => Apart(r, c)'
    <3> SUFFICES ASSUME NEW r \in Requests, NEW c \in Requests, Telling(r)', Telling(c)', r # c,
                        Ask[c] = Ask[r]
                 PROVE  Apart(r, c)'
      OBVIOUS
    <3>1. Telling(r) \/ Telling(c)
      BY <1>1, TellingStep
    <3>2. Apart(r, c)' \/ Apart(c, r)'
      BY <2>6, <3>1
    <3> QED
      BY <3>2 DEF Apart
  <2>8. ASSUME NEW v \in Workers, me'[v].pc = "tell"
        PROVE  ~me'[v].told /\ me'[v].job # "requester"
    <3>1. CASE v # w
      BY <2>0, <2>8, <3>1 DEF HeardInv, At
    <3>2. CASE v = w
      <4>1. Step(w) /\ GoesOn(w, me'[w])
        BY <1>1, <2>8, <3>2, Came
      <4>2. /\ me[w].pc = "copies" /\ me'[w].told = me[w].told /\ me'[w].job = me[w].job
        BY <2>8, <3>2, <4>1 DEF GoesOn, Paths
      <4> QED
        BY <2>8, <3>2, <4>1, <4>2, Resolution
    <3> QED
      BY <3>1, <3>2
  <2> QED
    BY <2>1, <2>2, <2>3, <2>5, <2>7, <2>8 DEF HeardInv, At
<1>2. CASE UNCHANGED <<rows, me, sent, past, now>>
  BY <1>2 DEF sent, past, HeardInv, Telling, Apart, At
<1> QED
  BY <1>1, <1>2, WhoseStep

\* Of two copies that were open together, the requester is told of one only
\* (_told_about_a_copy).
THEOREM HeardAtMostOnceCorrect == Spec => []HeardAtMostOnce
<1>1. Init => HeardInv
  <2> SUFFICES ASSUME Init PROVE HeardInv
    OBVIOUS
  <2>1. /\ notices = {} /\ \A w \in Workers : me[w] = Rest
    BY DEF Init
  <2>2. PICK old \in SUBSET Requests :
           rows = [r \in Requests |-> IF r \in old THEN OldRow(r) ELSE NoRow]
    BY DEF Init
  <2>3. \A r \in Requests : OldRow(r).status = "open" /\ NoRow.status = "none"
    BY DEF OldRow, NoRow
  <2>4. \A r \in Requests : rows[r].status # "resolved"
    BY <2>2, <2>3
  <2> QED
    BY <2>1, <2>4, RestType DEF HeardInv, Telling, Resolved, At
<1>2. TypeInv /\ HeardInv => HeardAtMostOnce
  BY DEF HeardInv, HeardAtMostOnce, Telling, Apart, TypeInv, TypeOK
<1> QED
  BY <1>1, <1>2, HeardNext, CopiesCorrect, TypeInvCorrect, PTL DEF Spec

-----------------------------------------------------------------------------
Recording == {"list", "refresh", "create"}

\* Another request of the ask, made later.
Outlasts(c, r) == Ask[c] = Ask[r] /\ rows[c].named /\ rows[c].created > rows[r].created

\* The ask of a request that names its person has one, as late, not dismissed.
Survives(r) == \E c \in Requests : /\ Ask[c] = Ask[r] /\ rows[c].named
                                   /\ rows[c].status # "dismissed"
                                   /\ rows[c].created >= rows[r].created

\* No two requests are made at one time.
OneAtATime ==
    /\ \A r \in Requests : rows[r].created <= now
    /\ \A r, c \in Requests : r # c /\ rows[r].status # "none" /\ rows[c].status # "none"
                                 => rows[r].created # rows[c].created
    /\ \A w \in Workers : me[w].pc \in Recording =>
         /\ \A r \in Requests : rows[r].status # "none" => rows[r].created # me[w].stamp
         /\ \A v \in Workers \ {w} : me[v].pc \in Recording => me[v].stamp # me[w].stamp

SurviveInv ==
    /\ OneAtATime
    /\ \A w \in Workers : At(w, "older") =>
         \A q \in me[w].queue : rows[q[1]].named /\ \E c \in Requests : Outlasts(c, q[1])
    /\ \A r \in Requests : rows[r].named => Survives(r)
    /\ \A r \in Requests : rows[r].status = "dismissed" => rows[r].named

LEMMA OneAtATimeNext ==
  ASSUME TypeInv, OneAtATime, NEW w \in Workers, ByWorker(w) PROVE OneAtATime'
<1>0. /\ now \in Nat /\ now' \in {now, now + 1} /\ me \in [Workers -> Held]
      /\ \A v \in Workers \ {w} : me'[v] = me[v]
      /\ \A v \in Workers : me[v].stamp \in Nat /\ me[v].stamp <= now
      /\ \A r \in Requests : rows[r].created \in Nat /\ rows'[r].created \in Nat
                             /\ rows[r].created <= now
  BY WorkerStep, RowStep DEF TypeInv, TypeOK, Held, HeldOk, Row, OneAtATime
<1>1. ASSUME NEW r \in Requests
      PROVE  \/ rows'[r].created = rows[r].created /\ (rows'[r].status = "none" <=> rows[r].status = "none")
             \/ /\ rows[r].status = "none" /\ me[w].pc = "create" /\ me[w].at = r /\ Step(w)
                /\ rows'[r].created = me[w].stamp
  BY RowStep, <1>1 DEF Flow
<1>2. CASE Call(w)
  <2>1. rows' = rows
    BY <1>2, CallShape
  <2>2. me'[w].pc \in Recording => me'[w].stamp = now + 1
    BY <1>0, <1>2, CallShape DEF Recording
  <2>3. \A v \in Workers \ {w} : me'[v].stamp # now + 1
    BY <1>0
  <2>4. \A r \in Requests : rows'[r].created # now + 1 /\ rows'[r].created <= now'
    BY <1>0, <2>1
  <2> QED
    BY <1>0, <2>1, <2>2, <2>3, <2>4 DEF OneAtATime
<1>3. CASE Step(w) \/ Crash(w)
  <2>1. me'[w].pc \in Recording =>
           me[w].pc \in {"list", "refresh"} /\ me'[w].stamp = me[w].stamp
    BY <1>3, WorkerStep DEF GoesOn, Paths, Recording
  <2>2. \A v \in Workers : me'[v].pc \in Recording =>
           /\ me[v].pc \in Recording /\ me'[v].stamp = me[v].stamp
           /\ me[w].pc = "create" => v # w
    BY <1>0, <2>1 DEF Recording
  <2>3. \A r \in Requests : rows'[r].created <= now'
    BY <1>0, <1>1
  <2>4. ASSUME NEW r \in Requests, NEW c \in Requests, r # c,
               rows'[r].status # "none", rows'[c].status # "none"
        PROVE  rows'[r].created # rows'[c].created
    BY <1>0, <1>1, <2>4 DEF OneAtATime, Recording
  <2>5. ASSUME NEW v \in Workers, me'[v].pc \in Recording,
               NEW r \in Requests, rows'[r].status # "none"
        PROVE  rows'[r].created # me'[v].stamp
    BY <1>0, <1>1, <2>2, <2>5 DEF OneAtATime, Recording
  <2>6. ASSUME NEW u \in Workers, NEW v \in Workers \ {u},
               me'[u].pc \in Recording, me'[v].pc \in Recording
        PROVE  me'[v].stamp # me'[u].stamp
    BY <2>2, <2>6 DEF OneAtATime
  <2> QED
    BY <2>3, <2>4, <2>5, <2>6 DEF OneAtATime
<1> QED
  BY <1>2, <1>3 DEF ByWorker

LEMMA SurviveNext == ASSUME TypeInv, SurviveInv, [Next]_vars PROVE SurviveInv'
<1> USE DEF At
<1>1. ASSUME NEW w \in Workers, ByWorker(w) PROVE SurviveInv'
  <2>0. /\ me \in [Workers -> Held] /\ me' \in [Workers -> Held]
        /\ \A v \in Workers \ {w} : me'[v] = me[v]
        /\ \A v \in Workers : me[v].queue \subseteq Requests \X Nat
        /\ rows \in [Requests -> Row]
        /\ \A r \in Requests : rows[r].created \in Nat /\ rows'[r].created \in Nat
        /\ \A r \in Requests : rows[r].named => rows[r].status # "none"
    BY <1>1, WorkerStep, RowStep DEF TypeInv, TypeOK, Held, Row, RowOk
  <2>1. OneAtATime'
    BY <1>1, OneAtATimeNext DEF SurviveInv
  <2>2. \A r, c \in Requests : rows[r].named /\ Outlasts(c, r) => rows'[r].named /\ Outlasts(c, r)'
    BY <1>1, <2>0, RowsFlow DEF Outlasts
  <2>3. ASSUME NEW v \in Workers, me'[v].pc = "older", NEW q \in me'[v].queue
        PROVE  rows'[q[1]].named /\ \E c \in Requests : Outlasts(c, q[1])'
    <3>1. CASE me[v].pc = "older" /\ q \in me[v].queue
      <4>1. q[1] \in Requests
        BY <2>0, <3>1
      <4>2. rows[q[1]].named /\ \E c \in Requests : Outlasts(c, q[1])
        BY <3>1 DEF SurviveInv
      <4> QED
        BY <2>2, <4>1, <4>2
    <3>2. CASE v = w /\ Call(w)
      <4>1. PICK h \in Held : /\ me' = [me EXCEPT ![w] = h]
                              /\ h.pc = "older" =>
                                   \A x \in h.queue : \E c \in Requests :
                                      Still(x[1]) /\ Still(c) /\ Repeats(x[1], c) /\ Newer(c, x[1])
        BY <3>2, CallShape
      <4>2. me'[w] = h /\ q[1] \in Requests
        BY <2>0, <2>3, <3>2, <4>1 DEF Held
      <4>3. PICK c \in Requests : Still(q[1]) /\ Still(c) /\ Repeats(q[1], c) /\ Newer(c, q[1])
        BY <2>3, <3>2, <4>1, <4>2
      <4>4. rows[c].created # rows[q[1]].created
        BY <4>2, <4>3 DEF SurviveInv, OneAtATime, Still, Open, Repeats
      <4>5. rows[q[1]].named /\ Outlasts(c, q[1])
        BY <4>3, <4>4 DEF Repeats, Newer, Outlasts
      <4> QED
        BY <2>2, <4>2, <4>5
    <3>3. CASE v = w /\ ~Call(w)
      <4>1. GoesOn(w, me'[w])
        BY <1>1, <2>3, <3>3, WorkerStep DEF ByWorker
      <4>2. me[w].pc = "older" /\ me'[w].queue \subseteq me[w].queue
        BY <2>3, <3>3, <4>1 DEF GoesOn, Paths
      <4> QED
        BY <2>3, <3>1, <3>3, <4>2
    <3> QED
      BY <2>0, <2>3, <3>1, <3>2, <3>3
  <2>4. (\A r \in Requests : rows'[r].named => Survives(r)')
        /\ \A r \in Requests : rows'[r].status = "dismissed" => rows'[r].named
    <3>1. CASE rows' = rows
      BY <3>1 DEF SurviveInv, Survives
    <3>2. CASE rows' # rows
      <4>1. Step(w)
        BY <1>1, <3>2, CallShape DEF ByWorker, Crash
      <4>2. PICK x \in Requests, row \in Row : SetRow(x, row) /\ Flow(w, x, row)
        BY <3>2, <4>1, RowShape
      <4>3. rows'[x] = row /\ \A r \in Requests \ {x} : rows'[r] = rows[r]
        BY <2>0, <4>2 DEF SetRow
      <4>4. ASSUME row.status = "dismissed", rows[x].status # "dismissed"
            PROVE  rows[x].named /\ Survives(x)' /\
                   \E d \in Requests \ {x} : /\ Ask[d] = Ask[x] /\ rows[d].named
                                             /\ rows[d].status # "dismissed"
                                             /\ rows[d].created > rows[x].created
        <5>1. PICK q \in me[w].queue : me[w].pc = "older" /\ q[1] = x
          BY <4>2, <4>4 DEF Flow
        <5>2. PICK c \in Requests : rows[x].named /\ Outlasts(c, x)
          BY <5>1 DEF SurviveInv
        <5>3. PICK d \in Requests : /\ Ask[d] = Ask[c] /\ rows[d].named
                                    /\ rows[d].status # "dismissed"
                                    /\ rows[d].created >= rows[c].created
          BY <5>2 DEF SurviveInv, Survives, Outlasts
        <5>4. d # x /\ rows[d].created > rows[x].created /\ Ask[d] = Ask[x]
          BY <2>0, <5>2, <5>3 DEF Outlasts
        <5>5. Survives(x)'
          <6>1. rows'[d] = rows[d] /\ rows'[x].created = rows[x].created
            BY <2>0, <4>2, <4>3, <5>2, <5>4 DEF Flow
          <6> QED
            BY <2>0, <5>3, <5>4, <6>1 DEF Survives
        <5> QED
          BY <5>2, <5>3, <5>4, <5>5
      <4>5. ASSUME NEW r \in Requests, rows'[r].named PROVE Survives(r)'
        <5>1. CASE r = x /\ row.status # "dismissed"
          BY <2>0, <4>3, <4>5, <5>1 DEF Survives
        <5>2. CASE rows[r].named
          <6>1. PICK c \in Requests : /\ Ask[c] = Ask[r] /\ rows[c].named
                                      /\ rows[c].status # "dismissed"
                                      /\ rows[c].created >= rows[r].created
            BY <5>2 DEF SurviveInv, Survives
          <6>2. /\ rows'[r].created = rows[r].created /\ rows'[c].created = rows[c].created
                /\ rows'[c].named
            BY <1>1, <2>0, <5>2, <6>1, RowsFlow
          <6>3. CASE rows'[c].status # "dismissed"
            BY <6>1, <6>2, <6>3 DEF Survives
          <6>4. CASE rows'[c].status = "dismissed"
            <7>1. c = x /\ row.status = "dismissed"
              BY <4>3, <6>1, <6>4
            <7>2. PICK d \in Requests \ {x} : /\ Ask[d] = Ask[x] /\ rows[d].named
                                             /\ rows[d].status # "dismissed"
                                             /\ rows[d].created > rows[x].created
              BY <4>4, <6>1, <7>1
            <7>3. rows'[d] = rows[d] /\ Ask[d] = Ask[r] /\ rows[d].created >= rows[r].created
              BY <2>0, <4>3, <6>1, <7>1, <7>2
            <7> QED
              BY <6>2, <7>2, <7>3 DEF Survives
          <6> QED
            BY <6>3, <6>4
        <5>3. CASE r = x /\ row.status = "dismissed" /\ ~rows[x].named
          <6>1. rows[x].status = "dismissed"
            BY <4>4, <5>3
          <6> QED
            BY <5>3, <6>1 DEF SurviveInv
        <5> QED
          BY <4>3, <4>5, <5>1, <5>2, <5>3
      <4>6. ASSUME NEW r \in Requests, rows'[r].status = "dismissed" PROVE rows'[r].named
        <5>1. CASE rows[r].status = "dismissed"
          BY <1>1, <5>1, RowsFlow DEF SurviveInv
        <5>2. CASE rows[r].status # "dismissed"
          BY <1>1, <4>3, <4>4, <4>6, <5>2, RowsFlow
        <5> QED
          BY <5>1, <5>2
      <4> QED
        BY <4>5, <4>6
    <3> QED
      BY <3>1, <3>2
  <2> QED
    BY <2>1, <2>3, <2>4 DEF SurviveInv
<1>2. CASE UNCHANGED <<rows, me, sent, past, now>>
  BY <1>2 DEF SurviveInv, OneAtATime, Outlasts, Survives
<1> QED
  BY <1>1, <1>2, WhoseStep

LEMMA SurviveInit ==
  ASSUME Init, \A r, c \in Requests : r # c => CreatedBefore[r] # CreatedBefore[c]
  PROVE  SurviveInv
<1>1. PICK old \in SUBSET Requests :
         rows = [r \in Requests |-> IF r \in old THEN OldRow(r) ELSE NoRow]
  BY DEF Init
<1>2. /\ \A r \in Requests : CreatedBefore[r] \in Nat /\ CreatedBefore[r] <= Start
      /\ Start \in Nat /\ now = Start
  BY StartType DEF Init
<1>3. /\ NoRow.status = "none" /\ ~NoRow.named /\ NoRow.created = 0
      /\ \A r \in Requests : /\ OldRow(r).status = "open" /\ OldRow(r).named
                             /\ OldRow(r).created = CreatedBefore[r]
  BY DEF NoRow, OldRow
<1>4. \A w \in Workers : me[w].pc = "idle"
  BY RestType DEF Init
<1>5. OneAtATime
  BY <1>1, <1>2, <1>3, <1>4 DEF OneAtATime, Recording
<1>6. \A r \in Requests : /\ rows[r].status # "dismissed" /\ rows[r].created \in Nat
  BY <1>1, <1>2, <1>3
<1>7. \A r \in Requests : rows[r].named => Survives(r)
  BY <1>6 DEF Survives
<1> QED
  BY <1>4, <1>5, <1>6, <1>7 DEF SurviveInv, At

\* Cleaning up copies never drops an ask, however many passes run at once, when
\* the rows there from the start were not made at one time (supersede_repeats).
THEOREM AskSurvivesCorrect ==
  ASSUME \A r, c \in Requests : r # c => CreatedBefore[r] # CreatedBefore[c]
  PROVE  Spec => []AskSurvives
<1>1. Init => SurviveInv
  BY SurviveInit
<1>2. SurviveInv => AskSurvives
  BY DEF SurviveInv, AskSurvives, Survives
<1> QED
  BY <1>1, <1>2, SurviveNext, TypeInvCorrect, PTL DEF Spec
-----------------------------------------------------------------------------
Trusted == ~lost /\ ~raced /\ ~touched

\* The requester has heard of d, or the call that resolved it is on its way to say so.
Tells(d) == \/ d \in notices \cup byHand
            \/ \E w \in Workers : /\ me[w].pc \in {"sweep", "copies", "tell"}
                                  /\ me[w].at = d /\ ~me[w].told

\* Of a copy of c resolved at t or after it.
Knows(c, t) == \E d \in Requests : Ask[d] = Ask[c] /\ Tells(d) /\ shut[d] >= t

\* A call has resolved r and has yet to look for copies the requester has heard of.
Unlooked(r) == \E w \in Workers : /\ me[w].pc = "told" /\ me[w].at = r
                                  /\ me[w].job # "requester"

\* A resolved request, its times those it was resolved with, is one the requester
\* knows of; a resolution that was not silent is known of as late as it was written.
Quiet(r) ==
    /\ rows[r].updated = resolvedAs[r]
    /\ resolvedAs[r] <= shut[r] /\ rows[r].created <= shut[r]
    /\ \/ r \in behind
       \/ Unlooked(r)
       \/ /\ Knows(r, rows[r].created)
          /\ r \notin silent => Knows(r, resolvedAs[r])

QuietInv ==
    /\ \A r \in Requests : rows[r].created <= now /\ shut[r] <= now
    /\ \A w \in Workers : me[w].pc \in Resolved /\ me[w].job = "requester"
                             => me[w].at \in byHand
    /\ \A w \in Workers :
         me[w].pc \in {"sweep", "copies"} /\ me[w].told /\ me[w].job # "requester"
            => me[w].at \in silent
    /\ \A w \in Workers : At(w, "copies") =>
         \A c \in me[w].todo : Ask[c] = Ask[me[w].at]
    /\ Trusted => \A v, w \in Workers : v # w /\ At(v, "told") /\ At(w, "told")
                                           => Ask[me[v].at] # Ask[me[w].at]
    /\ Trusted => \A r \in Requests : rows[r].status = "resolved" => Quiet(r)

\* What resolving r writes: only r's row, with one time, and when it happened.
Shuts(w, r) ==
    /\ rows[r].status \notin {"none", "resolved"} /\ rows'[r].status = "resolved"
    /\ rows'[r].updated = resolvedAs'[r] /\ resolvedAs'[r] <= now /\ shut'[r] = now
    /\ \A c \in Requests \ {r} : /\ rows'[c] = rows[c]
                                 /\ resolvedAs'[c] = resolvedAs[c] /\ shut'[c] = shut[c]
    /\ byHand' = IF me[w].job = "requester" THEN byHand \cup {r} ELSE byHand
    /\ touched' = touched

LEMMA Shutting ==
  ASSUME TypeInv, NEW w \in Workers, NEW r \in Requests, Resolve(w, r),
         rows[r].status \notin {"none", "resolved"}
  PROVE  Shuts(w, r)
<1>0. /\ rows \in [Requests -> Row] /\ resolvedAs \in [Requests -> Nat]
      /\ shut \in [Requests -> Nat] /\ now \in Nat
      /\ me[w].stamp \in Nat /\ me[w].stamp <= now
  BY DEF TypeInv, TypeOK, Held, HeldOk
<1>1. WriteTime(w) \in Nat /\ WriteTime(w) <= now
  BY <1>0 DEF WriteTime
<1> DEFINE row == [rows[r] EXCEPT !.status = "resolved", !.updated = WriteTime(w)]
<1>2. row.status = "resolved" /\ row.updated = WriteTime(w)
  BY <1>0 DEF Row
<1>3. /\ rows' = [rows EXCEPT ![r] = row]
      /\ resolvedAs' = [resolvedAs EXCEPT ![r] = WriteTime(w)]
      /\ shut' = [shut EXCEPT ![r] = now]
      /\ byHand' = IF me[w].job = "requester" THEN byHand \cup {r} ELSE byHand
      /\ touched' = touched
  BY DEF Resolve, SetRow
<1> HIDE DEF row
<1>4. /\ rows'[r] = row /\ resolvedAs'[r] = WriteTime(w) /\ shut'[r] = now
      /\ \A c \in Requests \ {r} : /\ rows'[c] = rows[c]
                                   /\ resolvedAs'[c] = resolvedAs[c] /\ shut'[c] = shut[c]
  BY <1>0, <1>3
<1> QED
  BY <1>1, <1>2, <1>3, <1>4 DEF Shuts

\* A step resolves no request and looks for no copy, and moves a resolved one's
\* time only by a late notification.
Aside(w) ==
    /\ UNCHANGED <<resolvedAs, shut, byHand, silent, behind, raced>>
    /\ \A r \in Requests :
          /\ rows'[r].status = "resolved" => rows[r].status = "resolved"
          /\ rows[r].status = "resolved" => rows'[r].updated = rows[r].updated \/ touched'
    /\ me'[w].pc \notin {"told", "sweep"}

ClosesOwn(w) ==
    /\ me[w].pc = "close" /\ me'[w].pc = "told"
    /\ Shuts(w, me[w].at) /\ UNCHANGED <<silent, behind, lost>>
    /\ raced' = (raced \/ \E v \in Workers \ {w} :
                             Resolving(v) /\ Ask[me[v].at] = Ask[me[w].at])

Looks(w) ==
    /\ me[w].pc = "told" /\ me'[w].pc = "sweep"
    /\ UNCHANGED <<rows, resolvedAs, shut, byHand, raced, touched, lost>>
    /\ me'[w].told = (Copies(me[w].at) # {})
    /\ IF Copies(me[w].at) # {} /\ me[w].job # "requester"
         THEN /\ silent' = silent \cup {me[w].at}
              /\ behind' = IF Copies(me[w].at) \subseteq silent \cup behind
                             THEN behind \cup {me[w].at} ELSE behind
         ELSE UNCHANGED <<silent, behind>>

ClosesCopy(w) ==
    /\ me[w].pc = "copies" /\ me'[w].pc = "copies"
    /\ raced' = (raced \/ now > shut[me[w].at]) /\ UNCHANGED <<silent, lost>>
    /\ \E c \in me[w].todo :
          /\ Shuts(w, c)
          /\ behind' = IF me[w].told /\ me[w].job # "requester"
                         THEN behind \cup {c} ELSE behind

\* The time of a resolved row moves only with a notification recorded late.
LEMMA TimeKept ==
  ASSUME TypeInv, NEW w \in Workers, Step(w), NEW r \in Requests,
         rows[r].status = "resolved", rows'[r].updated # rows[r].updated
  PROVE  touched'
<1> USE DEF At
<1>0. /\ rows \in [Requests -> Row] /\ me[w] \in Held /\ me[w].at \in Requests
      /\ me[w].todo \subseteq Requests
  BY DEF TypeInv, TypeOK, Held
<1>k. ASSUME NEW c \in Requests, NEW row, SetRow(c, row),
             rows[c].status # "resolved" \/ row = rows[c]
      PROVE  FALSE
  BY <1>0, <1>k DEF SetRow
<1>1. CASE Refresh(w)
  BY <1>0, <1>1, <1>k DEF Refresh, Still, Open
<1>2. CASE Create(w)
  <2>1. PICK row : SetRow(me[w].at, row)
                   /\ (rows[me[w].at].status # "none" => row = rows[me[w].at])
    BY <1>2 DEF Create
  <2> QED
    BY <1>0, <1>k, <2>1
<1>3. CASE Assign(w)
  BY <1>0, <1>3, <1>k DEF Assign
<1>4. CASE Claim(w)
  BY <1>0, <1>4, <1>k DEF Claim
<1>5. CASE Note(w)
  <2>1. PICK row : SetRow(me[w].at, row)
    BY <1>5 DEF Note
  <2>2. me[w].at = r
    BY <1>0, <2>1 DEF SetRow
  <2> QED
    BY <1>5, <2>2 DEF Note, Closed
<1>6. CASE Acknowledge(w)
  BY <1>0, <1>6, <1>k DEF Acknowledge
<1>7. CASE Supersede(w)
  <2>1. PICK q \in me[w].queue :
           IF Still(q[1])
             THEN SetRow(q[1], [rows[q[1]] EXCEPT !.status = "dismissed",
                                                  !.updated = Later(now, @)])
             ELSE UNCHANGED rows
    BY <1>7 DEF Supersede
  <2>2. q[1] \in Requests
    BY <1>0 DEF Held
  <2> QED
    BY <1>k, <2>1, <2>2 DEF Still, Open
<1>8. CASE Close(w) \/ CloseCopy(w)
  <2>1. ASSUME NEW c \in Requests, Resolve(w, c) PROVE rows[c].status = "resolved"
    BY <1>k, <2>1 DEF Resolve
  <2>2. ~ (\E c \in me[w].todo : Still(c) /\ Resolve(w, c))
    BY <1>0, <2>1 DEF Still, Open
  <2>3. ~ (MayClose(w, me[w].at) /\ Resolve(w, me[w].at))
    BY <1>0, <2>1 DEF MayClose, Still, Open
  <2> QED
    BY <1>8, <2>2, <2>3 DEF Close, CloseCopy
<1>9. CASE List(w) \/ Send(w) \/ SendFails(w) \/ Pick(w) \/ Look(w) \/ TellAck(w) \/ Told(w)
           \/ Sweep(w) \/ CopiesClosed(w) \/ Tell(w) \/ TellFails(w) \/ Superseded(w)
           \/ ListOpen(w) \/ Index(w) \/ NextMerged(w)
  BY <1>9 DEF List, Send, SendFails, Pick, Look, TellAck, Told, Sweep, CopiesClosed, Tell,
     TellFails, Superseded, ListOpen, Index, NextMerged
<1> QED
  BY <1>1, <1>2, <1>3, <1>4, <1>5, <1>6, <1>7, <1>8, <1>9 DEF Step

\* What a step does to what is remembered of resolutions.
LEMMA History ==
  ASSUME TypeInv, NEW w \in Workers, ByWorker(w)
  PROVE  /\ Trusted' => Trusted
         /\ notices \subseteq notices' /\ byHand \subseteq byHand'
         /\ silent \subseteq silent' /\ behind \subseteq behind'
         /\ \/ Aside(w)
            \/ Step(w) /\ (ClosesOwn(w) \/ Looks(w) \/ ClosesCopy(w))
<1> USE DEF At
<1>0. /\ TypeOK /\ rows \in [Requests -> Row] /\ me \in [Workers -> Held] /\ me[w] \in Held
      /\ me[w].at \in Requests /\ me[w].todo \subseteq Requests /\ now \in Nat
  BY DEF TypeInv, TypeOK, Held
<1> DEFINE Same == UNCHANGED <<resolvedAs, shut, byHand, silent, behind, raced>>
           More == /\ Trusted' => Trusted
                   /\ notices \subseteq notices' /\ byHand \subseteq byHand'
                   /\ silent \subseteq silent' /\ behind \subseteq behind'
           Goal == More /\ \/ Aside(w)
                           \/ Step(w) /\ (ClosesOwn(w) \/ Looks(w) \/ ClosesCopy(w))
<1>a. ASSUME Same, Step(w), me[w].pc \notin {"close", "copies"} \/ rows' = rows,
             me'[w].pc \notin {"told", "sweep"}
      PROVE  Aside(w)
  <2>1. \A r \in Requests : rows'[r].status = "resolved" => rows[r].status = "resolved"
    BY <1>a, RowStep DEF ByWorker, Flow
  <2> QED
    BY <1>a, <2>1, TimeKept DEF Aside
<1>o. ASSUME Onward(w) \/ Stop(w) PROVE me'[w].pc \notin {"told", "sweep"}
  <2>1. Stop(w) => me'[w].pc = "idle"
    BY <1>0, RestType DEF Stop
  <2> QED
    BY <1>0, <1>o, <2>1, OnwardHeld
<1>1. CASE Call(w)
  <2>1. UNCHANGED <<rows, sent, past>> /\ me'[w].pc \notin {"told", "sweep"}
    BY <1>0, <1>1, CallShape
  <2> QED
    BY <2>1 DEF past, sent, Aside, Trusted
<1>2. CASE Crash(w)
  <2>1. /\ UNCHANGED <<rows, sent, resolvedAs, shut, byHand, raced, touched, silent, behind>>
        /\ lost => lost'
    BY <1>2 DEF Crash
  <2>2. me'[w].pc \notin {"told", "sweep"}
    BY <1>2, <1>o DEF Crash
  <2> QED
    BY <2>1, <2>2 DEF Aside, sent, Trusted
<1>3. CASE List(w) \/ Refresh(w) \/ Create(w) \/ Assign(w) \/ Claim(w) \/ Send(w) \/ SendFails(w)
           \/ Pick(w) \/ Look(w) \/ Acknowledge(w) \/ TellAck(w) \/ Sweep(w) \/ CopiesClosed(w)
           \/ Tell(w) \/ Supersede(w) \/ Superseded(w) \/ ListOpen(w) \/ Index(w)
           \/ NextMerged(w)
  <2>1. UNCHANGED past /\ Step(w) /\ notices \subseteq notices'
    BY <1>3 DEF sent, Step, List, Refresh, Create, Assign, Claim, Send, SendFails, Pick, Look,
       Acknowledge, TellAck, Sweep, CopiesClosed, Tell, Supersede, Superseded, ListOpen, Index,
       NextMerged
  <2>2. me[w].pc \notin {"close", "copies"} \/ rows' = rows
    BY <1>3 DEF List, Refresh, Create, Assign, Claim, Send, SendFails, Pick, Look, Acknowledge,
       TellAck, Sweep, CopiesClosed, Tell, Supersede, Superseded, ListOpen, Index, NextMerged
  <2>3. me[w].pc \notin {"close", "told"}
    BY <1>3 DEF List, Refresh, Create, Assign, Claim, Send, SendFails, Pick, Look, Acknowledge,
       TellAck, Sweep, CopiesClosed, Tell, Supersede, Superseded, ListOpen, Index, NextMerged
  <2>4. me'[w].pc \notin {"told", "sweep"}
    BY <2>1, <2>3, Came DEF ByWorker, GoesOn, Paths
  <2> QED
    BY <1>a, <2>1, <2>2, <2>4 DEF past, Trusted
<1>4. CASE Note(w) \/ TellFails(w)
  <2>1. /\ UNCHANGED <<notices, resolvedAs, shut, byHand, raced, silent, behind>>
        /\ touched => touched'
        /\ lost => lost'
        /\ me[w].pc \notin {"close", "copies"}
        /\ me'[w].pc \notin {"told", "sweep"}
    <3>1. CASE Note(w)
      BY <1>o, <3>1 DEF Note, sent
    <3>2. CASE TellFails(w)
      BY <1>o, <3>2 DEF TellFails, sent
    <3> QED
      BY <1>4, <3>1, <3>2
  <2>2. Step(w)
    BY <1>4 DEF Step
  <2>3. Aside(w)
    BY <1>a, <2>1, <2>2
  <2>4. More
    BY <2>1 DEF Trusted
  <2> QED
    BY <2>3, <2>4
<1>5. CASE Close(w)
  <2>1. CASE Onward(w) /\ UNCHANGED <<rows, past>>
    <3>1. Step(w) /\ notices' = notices
      BY <1>5 DEF Step, Close, sent
    <3> QED
      BY <1>a, <1>o, <2>1, <3>1 DEF past, Trusted
  <2>2. CASE ~(Onward(w) /\ UNCHANGED <<rows, past>>)
    <3>1. /\ MayClose(w, me[w].at) /\ Resolve(w, me[w].at) /\ To(w, "told")
          /\ UNCHANGED <<silent, behind, lost, notices>> /\ me[w].pc = "close"
          /\ raced' = (raced \/ \E v \in Workers \ {w} :
                                   Resolving(v) /\ Ask[me[v].at] = Ask[me[w].at])
      BY <1>5, <2>2 DEF Close, sent
    <3>2. me'[w].pc = "told"
      BY <1>0, <3>1 DEF To, Held
    <3>3. Shuts(w, me[w].at)
      BY <1>0, <3>1, Shutting DEF MayClose, Still, Open
    <3>4. ClosesOwn(w)
      BY <3>1, <3>2, <3>3 DEF ClosesOwn
    <3>5. More
      BY <3>1, <3>3 DEF Shuts, Trusted
    <3>6. Step(w)
      BY <1>5 DEF Step
    <3> QED
      BY <3>4, <3>5, <3>6
  <2> QED
    BY <2>1, <2>2
<1>6. CASE Told(w)
  <2>1. /\ me[w].pc = "told"
        /\ UNCHANGED <<rows, resolvedAs, shut, byHand, raced, touched, lost, notices>>
        /\ IF Copies(me[w].at) # {} /\ me[w].job # "requester"
             THEN /\ silent' = silent \cup {me[w].at}
                  /\ behind' = IF Copies(me[w].at) \subseteq silent \cup behind
                                 THEN behind \cup {me[w].at} ELSE behind
             ELSE UNCHANGED <<silent, behind>>
    BY <1>6 DEF Told, sent
  <2>2. Step(w) /\ me'[w].pc = "sweep"
    BY <1>0, <1>6 DEF Told, Step, Held
  <2>3. me'[w].told = (Copies(me[w].at) # {})
    BY <2>1, <2>2, Resolution
  <2>4. Looks(w)
    BY <2>1, <2>2, <2>3 DEF Looks
  <2>5. More
    BY <2>1 DEF Trusted
  <2> QED
    BY <2>2, <2>4, <2>5
<1>7. CASE CloseCopy(w)
  <2>0. /\ Step(w) /\ me[w].pc = "copies" /\ me'[w].pc = "copies" /\ notices' = notices
    <3>1. PICK c \in me[w].todo : me' = [me EXCEPT ![w].todo = @ \ {c}]
      BY <1>7 DEF CloseCopy
    <3> QED
      BY <1>0, <1>7, <3>1 DEF CloseCopy, Step, Held, sent
  <2>1. CASE UNCHANGED <<rows, past>>
    BY <1>a, <2>0, <2>1 DEF past, Trusted
  <2>2. CASE ~UNCHANGED <<rows, past>>
    <3>1. PICK c \in me[w].todo : /\ Still(c) /\ Resolve(w, c)
                                  /\ raced' = (raced \/ now > shut[me[w].at])
                                  /\ behind' = IF me[w].told /\ me[w].job # "requester"
                                                 THEN behind \cup {c} ELSE behind
                                  /\ UNCHANGED <<silent, lost>>
      BY <1>7, <2>2 DEF CloseCopy
    <3>2. Shuts(w, c)
      BY <1>0, <3>1, Shutting DEF Still, Open
    <3>3. ClosesCopy(w)
      BY <2>0, <3>1, <3>2 DEF ClosesCopy
    <3>4. More
      BY <2>0, <3>1, <3>2 DEF Shuts, Trusted
    <3> QED
      BY <2>0, <3>3, <3>4
  <2> QED
    BY <2>1, <2>2
<1> QED
  BY <1>1, <1>2, <1>3, <1>4, <1>5, <1>6, <1>7 DEF ByWorker, Step

\* A resolution that is not cut short goes on to its notice, if it is to send one.
LEMMA Onwards ==
  ASSUME TypeInv, NEW w \in Workers, ByWorker(w), ~lost', me[w].pc \in Resolved
  PROVE  /\ Step(w)
         /\ me[w].pc = "told" => me'[w].pc = "sweep"
         /\ me[w].pc = "sweep" => me'[w].pc = "copies"
         /\ me[w].pc = "copies" => \/ me'[w].pc \in {"copies", "tell"}
                                   \/ me[w].told
                                   \/ me[w].job = "requester"
         /\ me[w].pc = "tell" => me[w].at \in notices'
<1> USE DEF At
<1>0. /\ TypeOK /\ me \in [Workers -> Held] /\ me[w] \in Held
  BY DEF TypeInv, TypeOK
<1>1. ~Call(w) /\ ~Crash(w)
  <2>1. me[w].pc # "idle"
    BY DEF Resolved
  <2>2. Crash(w) => lost'
    BY DEF Crash, Resolved
  <2> QED
    BY <2>1, <2>2, CallShape
<1>2. Step(w)
  BY <1>1 DEF ByWorker
<1>3. me[w].pc = "told" => me'[w].pc = "sweep"
  <2>1. me[w].pc = "told" => Told(w)
    BY <1>2 DEF Step, List, Refresh, Create, Assign, Claim, Send, SendFails, Note, Pick, Look,
       Acknowledge, TellAck, Close, Told, Sweep, CloseCopy, CopiesClosed, Tell, TellFails,
       Supersede, Superseded, ListOpen, Index, NextMerged
  <2> QED
    BY <1>0, <2>1 DEF Told, Held
<1>4. me[w].pc = "sweep" => me'[w].pc = "copies"
  <2>1. me[w].pc = "sweep" => Sweep(w)
    BY <1>2 DEF Step, List, Refresh, Create, Assign, Claim, Send, SendFails, Note, Pick, Look,
       Acknowledge, TellAck, Close, Told, Sweep, CloseCopy, CopiesClosed, Tell, TellFails,
       Supersede, Superseded, ListOpen, Index, NextMerged
  <2> QED
    BY <1>0, <2>1 DEF Sweep, Held
<1>5. ASSUME me[w].pc = "copies"
      PROVE  me'[w].pc \in {"copies", "tell"} \/ me[w].told \/ me[w].job = "requester"
  <2>1. CloseCopy(w) \/ CopiesClosed(w)
    BY <1>2, <1>5 DEF Step, List, Refresh, Create, Assign, Claim, Send, SendFails, Note, Pick,
       Look, Acknowledge, TellAck, Close, Told, Sweep, CloseCopy, CopiesClosed, Tell,
       TellFails, Supersede, Superseded, ListOpen, Index, NextMerged
  <2>2. CASE CloseCopy(w)
    <3>1. PICK c \in me[w].todo : me' = [me EXCEPT ![w].todo = @ \ {c}]
      BY <2>2 DEF CloseCopy
    <3> QED
      BY <1>0, <1>5, <3>1 DEF Held
  <2>3. CASE CopiesClosed(w)
    BY <1>0, <2>3 DEF CopiesClosed, To, Held
  <2> QED
    BY <2>1, <2>2, <2>3
<1>6. me[w].pc = "tell" => me[w].at \in notices'
  <2>1. me[w].pc = "tell" => Tell(w) \/ TellFails(w)
    BY <1>2 DEF Step, List, Refresh, Create, Assign, Claim, Send, SendFails, Note, Pick, Look,
       Acknowledge, TellAck, Close, Told, Sweep, CloseCopy, CopiesClosed, Tell, TellFails,
       Supersede, Superseded, ListOpen, Index, NextMerged
  <2> QED
    BY <2>1 DEF Tell, TellFails
<1> QED
  BY <1>2, <1>3, <1>4, <1>5, <1>6

\* What is told stays told.
LEMMA TellsStep ==
  ASSUME TypeInv, QuietInv, NEW w \in Workers, ByWorker(w), ~lost',
         NEW d \in Requests, Tells(d)
  PROVE  Tells(d)'
<1>0. /\ \A v \in Workers \ {w} : me'[v] = me[v]
      /\ notices \cup byHand \subseteq notices' \cup byHand'
  BY WorkerStep, History
<1>1. CASE d \in notices \cup byHand
  BY <1>0, <1>1 DEF Tells
<1>2. ASSUME NEW v \in Workers, me[v].pc \in {"sweep", "copies", "tell"}, me[v].at = d,
             ~me[v].told
      PROVE  Tells(d)'
  <2>1. CASE v # w
    BY <1>0, <1>2, <2>1 DEF Tells
  <2>2. CASE v = w
    <3>1. CASE me[w].job = "requester"
      BY <1>0, <1>2, <2>2, <3>1 DEF QuietInv, Resolved, Tells
    <3>2. CASE me[w].pc = "tell"
      BY <1>2, <2>2, <3>2, Onwards DEF Resolved, Tells
    <3>3. CASE me[w].job # "requester" /\ me[w].pc # "tell"
      <4>1. me'[w].pc \in {"copies", "tell"}
        BY <1>2, <2>2, <3>3, Onwards DEF Resolved
      <4>2. me'[w].at = d /\ ~me'[w].told
        BY <1>2, <2>2, <4>1, Came DEF GoesOn
      <4> QED
        BY <4>1, <4>2 DEF Tells
    <3> QED
      BY <3>1, <3>2, <3>3
  <2> QED
    BY <2>1, <2>2
<1> QED
  BY <1>1, <1>2 DEF Tells

\* The time at which a request was resolved does not move back.
LEMMA ShutStep ==
  ASSUME TypeInv, QuietInv, NEW w \in Workers, ByWorker(w), NEW d \in Requests
  PROVE  /\ shut[d] \in Nat /\ shut'[d] \in Nat
         /\ shut'[d] = shut[d] \/ (Step(w) /\ rows[d].status # "resolved" /\ shut'[d] = now)
         /\ shut'[d] >= shut[d]
<1>0. /\ shut \in [Requests -> Nat] /\ shut' \in [Requests -> Nat] /\ now \in Nat
      /\ shut[d] <= now /\ me[w].at \in Requests /\ me[w].todo \subseteq Requests
  BY OthersType DEF TypeInv, TypeOK, QuietInv, Held
<1>1. CASE Aside(w) \/ Looks(w)
  BY <1>0, <1>1 DEF Aside, Looks
<1>2. ASSUME NEW r \in Requests, Shuts(w, r), Step(w)
      PROVE  shut'[d] = shut[d] \/ (Step(w) /\ rows[d].status # "resolved" /\ shut'[d] = now)
  BY <1>2 DEF Shuts
<1>3. shut'[d] = shut[d] \/ (Step(w) /\ rows[d].status # "resolved" /\ shut'[d] = now)
  BY <1>0, <1>1, <1>2, History DEF ClosesOwn, ClosesCopy, Aside, Looks
<1> QED
  BY <1>0, <1>3

LEMMA KnowsStep ==
  ASSUME TypeInv, QuietInv, NEW w \in Workers, ByWorker(w), ~lost', NEW c \in Requests
  PROVE  \A t \in Nat : Knows(c, t) =>
            \E d \in Requests : Ask[d] = Ask[c] /\ Tells(d)' /\ shut'[d] >= t
<1> SUFFICES ASSUME NEW t \in Nat, Knows(c, t)
             PROVE  \E d \in Requests : Ask[d] = Ask[c] /\ Tells(d)' /\ shut'[d] >= t
  OBVIOUS
<1>1. PICK d \in Requests : Ask[d] = Ask[c] /\ Tells(d) /\ shut[d] >= t
  BY DEF Knows
<1>2. Tells(d)' /\ shut'[d] >= t
  BY <1>1, TellsStep, ShutStep
<1> QED
  BY <1>1, <1>2

\* The requester of a request resolved before still knows of it as they did.
LEMMA QuietKept ==
  ASSUME TypeInv, CopiesInv, QuietInv, NEW w \in Workers, ByWorker(w), Trusted',
         NEW r \in Requests, rows[r].status = "resolved"
  PROVE  /\ rows'[r].created = rows[r].created /\ resolvedAs'[r] = resolvedAs[r]
         /\ shut'[r] = shut[r] /\ rows'[r].updated = rows[r].updated
         /\ rows[r].updated = resolvedAs[r]
         /\ resolvedAs[r] <= shut[r] /\ rows[r].created <= shut[r]
         /\ r \in behind => r \in behind'
         /\ Knows(r, rows[r].created) /\ (r \notin silent => Knows(r, resolvedAs[r])) =>
              Knows(r, rows[r].created)' /\ (r \notin silent' => Knows(r, resolvedAs[r])')
<1>0. /\ Trusted /\ ~lost' /\ ~touched' /\ behind \subseteq behind' /\ silent \subseteq silent'
  BY History DEF Trusted
<1>1. Quiet(r)
  BY <1>0 DEF QuietInv
<1>2. /\ rows[r].created \in Nat /\ resolvedAs[r] \in Nat
      /\ me[w].at \in Requests /\ me[w].todo \subseteq Requests
  BY DEF TypeInv, TypeOK, Row, Held
<1>3. rows'[r].created = rows[r].created
  BY RowsFlow
<1>4. shut'[r] = shut[r]
  BY ShutStep
<1>5. resolvedAs'[r] = resolvedAs[r] /\ rows'[r].updated = rows[r].updated
  <2>1. CASE Aside(w)
    BY <1>0, <2>1 DEF Aside
  <2>2. CASE Looks(w)
    BY <2>2 DEF Looks
  <2>3. ASSUME NEW c \in Requests, Shuts(w, c)
        PROVE  resolvedAs'[r] = resolvedAs[r] /\ rows'[r].updated = rows[r].updated
    BY <2>3 DEF Shuts
  <2> QED
    BY <1>2, <2>1, <2>2, <2>3, History DEF ClosesOwn, ClosesCopy
<1>6. \A t \in Nat : Knows(r, t) =>
         \E d \in Requests : Ask[d] = Ask[r] /\ Tells(d)' /\ shut'[d] >= t
  BY <1>0, KnowsStep
<1>7. Knows(r, rows[r].created) => Knows(r, rows[r].created)'
  BY <1>2, <1>3, <1>6 DEF Knows
<1>8. Knows(r, resolvedAs[r]) => Knows(r, resolvedAs[r])'
  BY <1>2, <1>5, <1>6 DEF Knows
<1> QED
  BY <1>0, <1>1, <1>3, <1>4, <1>5, <1>7, <1>8 DEF Quiet

\* A resolution that looks for copies sends a notice of its own, or is silent for a
\* copy whose resolution the requester knows of, or goes behind.
LEMMA LookQuiet ==
  ASSUME TypeInv, CopiesInv, QuietInv, NEW w \in Workers, ByWorker(w), Step(w), Trusted',
         Looks(w), me[w].job # "requester", NEW r \in Requests, me[w].at = r
  PROVE  Quiet(r)'
<1>0. /\ Trusted /\ ~lost'
      /\ \A v \in Workers : me[v].at \in Requests
      /\ \A c \in Requests : /\ rows[c].created \in Nat /\ rows[c].updated \in Nat
                             /\ resolvedAs[c] \in Nat /\ shut[c] \in Nat
  BY History DEF TypeInv, TypeOK, Held, Row, Trusted
<1>1. rows[r].status = "resolved"
  BY DEF Looks, CopiesInv, Resolved
<1>2. me'[w].at = r /\ me'[w].pc = "sweep" /\ me'[w].told = (Copies(r) # {})
  BY Came DEF Looks, GoesOn
<1>3. /\ rows'[r].created = rows[r].created /\ resolvedAs'[r] = resolvedAs[r]
      /\ shut'[r] = shut[r] /\ rows'[r].updated = resolvedAs'[r]
      /\ resolvedAs'[r] <= shut'[r] /\ rows'[r].created <= shut'[r]
  BY <1>0, <1>1, QuietKept
<1>4. CASE Copies(r) = {}
  <2>1. Tells(r)'
    BY <1>2, <1>4 DEF Tells
  <2> QED
    BY <1>0, <1>3, <2>1 DEF Quiet, Knows
<1>5. CASE Copies(r) # {} /\ Copies(r) \subseteq silent \cup behind
  <2>1. r \in behind'
    BY <1>5 DEF Looks
  <2> QED
    BY <1>3, <2>1 DEF Quiet
<1>6. CASE Copies(r) # {} /\ ~(Copies(r) \subseteq silent \cup behind)
  <2>1. PICK c \in Requests : /\ Repeats(r, c) /\ rows[c].status = "resolved"
                              /\ rows[c].updated >= rows[r].created
                              /\ c \notin silent \cup behind
    BY <1>6 DEF Copies
  <2>2. Quiet(c) /\ Ask[c] = Ask[r] /\ c # r
    BY <1>0, <2>1 DEF QuietInv, Repeats
  <2>3. ~Unlooked(c)
    <3>1. ASSUME NEW v \in Workers, me[v].pc = "told", me[v].at = c PROVE FALSE
      BY <1>0, <2>2, <3>1 DEF QuietInv, At, Looks
    <3> QED
      BY <3>1 DEF Unlooked
  <2>4. Knows(c, resolvedAs[c]) /\ resolvedAs[c] >= rows[r].created
    BY <2>1, <2>2, <2>3 DEF Quiet
  <2>5. PICK d \in Requests : Ask[d] = Ask[c] /\ Tells(d)' /\ shut'[d] >= resolvedAs[c]
    BY <1>0, <2>4, KnowsStep
  <2>6. shut'[d] \in Nat
    BY ShutStep
  <2>7. Knows(r, rows[r].created)'
    BY <1>0, <1>3, <2>2, <2>4, <2>5, <2>6 DEF Knows
  <2>8. r \in silent'
    BY <1>6 DEF Looks
  <2> QED
    BY <1>3, <2>7, <2>8 DEF Quiet
<1> QED
  BY <1>4, <1>5, <1>6

\* A request just resolved is looked into next, was resolved by its requester, or is
\* a copy closed by a call that tells the requester or goes behind.
LEMMA ResolvedQuiet ==
  ASSUME TypeInv, CopiesInv, QuietInv, NEW w \in Workers, ByWorker(w), Step(w), Trusted',
         NEW r \in Requests, Shuts(w, r),
         \/ ClosesOwn(w) /\ r = me[w].at
         \/ /\ me[w].pc = "copies" /\ me'[w].pc = "copies"
            /\ ~(now > shut[me[w].at]) /\ r \in me[w].todo
            /\ me[w].told /\ me[w].job # "requester" => r \in behind'
  PROVE  Quiet(r)'
<1>0. /\ now \in Nat /\ me[w].at \in Requests /\ ~lost'
      /\ rows[r].created \in Nat /\ rows[r].created <= now
      /\ resolvedAs' \in [Requests -> Nat]
  BY OthersType DEF TypeInv, TypeOK, Held, Row, QuietInv, Trusted
<1>1. /\ rows'[r].updated = resolvedAs'[r] /\ resolvedAs'[r] <= now /\ shut'[r] = now
  BY DEF Shuts
<1>2. rows'[r].created = rows[r].created
  BY RowsFlow DEF Shuts
<1>3. CASE me[w].job = "requester"
  <2>1. Tells(r)'
    BY <1>3 DEF Shuts, Tells
  <2> QED
    BY <1>0, <1>1, <1>2, <2>1 DEF Quiet, Knows
<1>4. CASE ClosesOwn(w) /\ r = me[w].at /\ me[w].job # "requester"
  <2>1. me'[w].pc = "told" /\ me'[w].at = r /\ me'[w].job # "requester"
    BY <1>4, Came DEF ClosesOwn, GoesOn
  <2> QED
    BY <1>0, <1>1, <1>2, <2>1 DEF Quiet, Unlooked
<1>5. CASE r \in behind'
  BY <1>0, <1>1, <1>2, <1>5 DEF Quiet
<1>6. CASE me[w].pc = "copies" /\ ~me[w].told /\ me[w].job # "requester" /\ ~ClosesOwn(w)
  <2>0. PICK d \in Requests : d = me[w].at
    BY <1>0
  <2>1. me'[w].pc = "copies" /\ me'[w].at = d /\ ~me'[w].told
    BY <1>6, <2>0, Came DEF GoesOn
  <2>2. Tells(d)'
    BY <2>1 DEF Tells
  <2>3. rows[d].status = "resolved" /\ Ask[d] = Ask[r]
    BY <1>6, <2>0 DEF CopiesInv, Resolved, QuietInv, At
  <2>4. shut'[d] = shut[d] /\ shut[d] \in Nat /\ shut[d] >= now
    BY <1>0, <1>6, <2>0, <2>3, ShutStep
  <2> QED
    BY <1>0, <1>1, <1>2, <2>2, <2>3, <2>4 DEF Quiet, Knows
<1> QED
  BY <1>3, <1>4, <1>5, <1>6 DEF ClosesOwn

LEMMA QuietNext == ASSUME TypeInv, CopiesInv, QuietInv, [Next]_vars PROVE QuietInv'
<1>1. ASSUME NEW w \in Workers, ByWorker(w) PROVE QuietInv'
  <2>0. /\ \A v \in Workers : me[v].at \in Requests /\ me[v].stamp \in Nat
        /\ \A v \in Workers \ {w} : me'[v] = me[v]
        /\ now \in Nat /\ now' \in {now, now + 1}
        /\ \A r \in Requests : /\ rows[r].created \in Nat /\ rows'[r].created \in Nat
                               /\ shut[r] \in Nat /\ shut'[r] \in Nat
        /\ HeldOk(me[w], now)
        /\ byHand \subseteq byHand' /\ silent \subseteq silent'
    BY <1>1, WorkerStep, RowStep, OthersType, History DEF TypeInv, TypeOK, Held, Row
  <2>1. ASSUME NEW r \in Requests PROVE rows'[r].created <= now' /\ shut'[r] <= now'
    <3>1. rows'[r].created <= now
      <4>1. CASE rows'[r] = rows[r]
        BY <4>1 DEF QuietInv
      <4>2. CASE Flow(w, r, rows'[r])
        BY <2>0, <4>2 DEF Flow, QuietInv, HeldOk
      <4> QED
        BY <1>1, <4>1, <4>2, RowStep
    <3>2. shut'[r] <= now
      BY <1>1, <2>0, ShutStep DEF QuietInv
    <3> QED
      BY <2>0, <3>1, <3>2
  <2>2. ASSUME NEW v \in Workers, me'[v].pc \in Resolved, me'[v].job = "requester"
        PROVE  me'[v].at \in byHand'
    <3>1. CASE v # w
      BY <2>0, <2>2, <3>1 DEF QuietInv
    <3>2. CASE v = w
      <4>1. /\ Step(w) /\ me'[w].at = me[w].at /\ me'[w].job = me[w].job
            /\ me[w].pc \in Resolved \/ (me[w].pc = "close" /\ me'[w].pc = "told")
        BY <1>1, <2>2, <3>2, Came DEF GoesOn, Paths, Resolved
      <4>2. CASE me[w].pc \in Resolved
        BY <2>0, <2>2, <3>2, <4>1, <4>2 DEF QuietInv
      <4>3. CASE me[w].pc = "close" /\ me'[w].pc = "told"
        <5>1. ClosesOwn(w)
          BY <1>1, <4>3, History DEF Aside, Looks, ClosesCopy
        <5> QED
          BY <2>2, <3>2, <4>1, <5>1 DEF ClosesOwn, Shuts
      <4> QED
        BY <4>1, <4>2, <4>3
    <3> QED
      BY <3>1, <3>2
  <2>3. ASSUME NEW v \in Workers, me'[v].pc \in {"sweep", "copies"}, me'[v].told,
               me'[v].job # "requester"
        PROVE  me'[v].at \in silent'
    <3>1. CASE v # w
      BY <2>0, <2>3, <3>1 DEF QuietInv
    <3>2. CASE v = w
      <4>1. /\ Step(w) /\ me'[w].at = me[w].at /\ me'[w].job = me[w].job
            /\ \/ me[w].pc \in {"sweep", "copies"} /\ me'[w].told = me[w].told
               \/ me[w].pc = "told" /\ me'[w].pc = "sweep"
        BY <1>1, <2>3, <3>2, Came DEF GoesOn, Paths
      <4>2. CASE me[w].pc = "told" /\ me'[w].pc = "sweep"
        <5>1. Looks(w)
          BY <1>1, <4>2, History DEF Aside, ClosesOwn, ClosesCopy
        <5> QED
          BY <2>3, <3>2, <4>1, <5>1 DEF Looks
      <4>3. CASE me[w].pc \in {"sweep", "copies"} /\ me'[w].told = me[w].told
        BY <2>0, <2>3, <3>2, <4>1, <4>3 DEF QuietInv
      <4> QED
        BY <4>1, <4>2, <4>3
    <3> QED
      BY <3>1, <3>2
  <2>4. ASSUME NEW v \in Workers, me'[v].pc = "copies", NEW c \in me'[v].todo
        PROVE  Ask[c] = Ask[me'[v].at]
    <3>1. CASE v # w
      BY <2>0, <2>4, <3>1 DEF QuietInv, At
    <3>2. CASE v = w
      <4>1. /\ Step(w) /\ me'[w].at = me[w].at
            /\ me[w].pc \in {"sweep", "copies"}
        BY <1>1, <2>4, <3>2, Came DEF GoesOn, Paths
      <4> QED
        BY <2>4, <3>2, <4>1, Resolution DEF QuietInv, At, Repeats
    <3> QED
      BY <3>1, <3>2
  <2>5. ASSUME Trusted', NEW v \in Workers, NEW u \in Workers, u # v,
               me'[v].pc = "told", me'[u].pc = "told"
        PROVE  Ask[me'[v].at] # Ask[me'[u].at]
    <3>0. Trusted
      BY <1>1, <2>5, History
    <3>1. ASSUME NEW x \in Workers, x # w, me'[w].pc = "told", me'[x].pc = "told"
          PROVE  Ask[me'[w].at] # Ask[me'[x].at]
      <4>1. Step(w) /\ me'[w].at = me[w].at /\ me[w].pc = "close"
        BY <1>1, <3>1, Came DEF GoesOn, Paths
      <4>2. ClosesOwn(w)
        BY <1>1, <3>1, <4>1, History DEF Aside, Looks, ClosesCopy
      <4> QED
        BY <2>0, <2>5, <3>1, <4>1, <4>2 DEF ClosesOwn, Resolving, Trusted
    <3>2. CASE v # w /\ u # w
      BY <2>0, <2>5, <3>0, <3>2 DEF QuietInv, At
    <3> QED
      BY <2>5, <3>1, <3>2
  <2>6. ASSUME Trusted', NEW r \in Requests, rows'[r].status = "resolved"
        PROVE  Quiet(r)'
    <3>1. CASE rows[r].status # "resolved"
      <4>1. ~Aside(w) /\ ~Looks(w)
        BY <2>6, <3>1 DEF Aside, Looks
      <4>2. CASE ClosesOwn(w) /\ Step(w)
        <5>1. r = me[w].at /\ Shuts(w, r)
          BY <2>6, <3>1, <4>2 DEF ClosesOwn, Shuts
        <5> QED
          BY <1>1, <2>6, <4>2, <5>1, ResolvedQuiet
      <4>3. CASE ClosesCopy(w) /\ Step(w)
        <5>1. PICK c \in me[w].todo :
                 Shuts(w, c) /\ (me[w].told /\ me[w].job # "requester" => c \in behind')
          BY <4>3 DEF ClosesCopy
        <5>2. c = r
          BY <2>6, <3>1, <5>1 DEF Shuts
        <5>3. me[w].pc = "copies" /\ me'[w].pc = "copies" /\ ~(now > shut[me[w].at])
          BY <2>6, <4>3 DEF ClosesCopy, Trusted
        <5> QED
          BY <1>1, <2>6, <4>3, <5>1, <5>2, <5>3, ResolvedQuiet
      <4> QED
        BY <1>1, <4>1, <4>2, <4>3, History
    <3>2. CASE rows[r].status = "resolved"
      <4>0. Quiet(r)
        BY <1>1, <2>6, <3>2, History DEF QuietInv
      <4>1. CASE ~Unlooked(r) \/ r \in behind
        BY <1>1, <2>6, <3>2, <4>0, <4>1, QuietKept DEF Quiet
      <4>2. ASSUME NEW v \in Workers, me[v].pc = "told", me[v].at = r,
                   me[v].job # "requester"
            PROVE  Quiet(r)'
        <5>1. CASE v # w
          <6>1. Unlooked(r)'
            BY <2>0, <4>2, <5>1 DEF Unlooked
          <6> QED
            BY <1>1, <2>6, <3>2, <6>1, QuietKept DEF Quiet
        <5>2. CASE v = w
          <6>1. Step(w) /\ me'[w].pc = "sweep"
            BY <1>1, <2>6, <4>2, <5>2, Onwards DEF Resolved, Trusted
          <6>2. Looks(w)
            BY <1>1, <6>1, History DEF Aside, ClosesOwn, ClosesCopy
          <6> QED
            BY <1>1, <2>6, <4>2, <5>2, <6>1, <6>2, LookQuiet
        <5> QED
          BY <5>1, <5>2
      <4> QED
        BY <4>1, <4>2 DEF Unlooked
    <3> QED
      BY <3>1, <3>2
  <2> QED
    BY <2>1, <2>2, <2>3, <2>4, <2>5, <2>6 DEF QuietInv, At
<1>2. CASE UNCHANGED <<rows, me, sent, past, now>>
  BY <1>2 DEF sent, past, QuietInv, Quiet, Knows, Tells, Unlooked, Trusted, At
<1> QED
  BY <1>1, <1>2, WhoseStep

\* Unless two resolutions raced, a notice was lost or a closed row's time was moved,
\* the requester of a resolved ask has heard of it, but for requests behind a silent
\* resolution (_told_about_a_copy, _close_repeats).
THEOREM QuietOnlyIfRacedCorrect == Spec => []QuietOnlyIfRaced
<1>1. Init => QuietInv
  <2> SUFFICES ASSUME Init PROVE QuietInv
    OBVIOUS
  <2>1. /\ \A w \in Workers : me[w] = Rest
        /\ \A r \in Requests : shut[r] = 0
        /\ now = Start
    BY DEF Init
  <2>2. PICK old \in SUBSET Requests :
           rows = [r \in Requests |-> IF r \in old THEN OldRow(r) ELSE NoRow]
    BY DEF Init
  <2>3. \A r \in Requests : /\ OldRow(r).status = "open" /\ NoRow.status = "none"
                            /\ OldRow(r).created = CreatedBefore[r] /\ NoRow.created = 0
    BY DEF OldRow, NoRow
  <2>4. \A r \in Requests : rows[r].status # "resolved" /\ rows[r].created <= Start
    BY <2>2, <2>3, StartType
  <2> QED
    BY <2>1, <2>4, StartType, RestType DEF QuietInv, Resolved, At
<1>2. QuietInv => QuietOnlyIfRaced
  BY DEF QuietInv, QuietOnlyIfRaced, Quiet, Knows, Tells, Unlooked, Heard, Idle, At, Trusted
<1> QED
  BY <1>1, <1>2, QuietNext, CopiesCorrect, TypeInvCorrect, PTL DEF Spec
=============================================================================
