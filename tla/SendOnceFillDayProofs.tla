----------------------- MODULE SendOnceFillDayProofs -----------------------
(***************************************************************************)
(* Two parts with few theorems each share this module.                     *)
(*                                                                         *)
(* What the send-once guard guarantees for any number of senders.  The     *)
(* duplicates a key can produce are bounded by an accounting argument: a   *)
(* free key and every unposted send are each worth one message, and only   *)
(* an expired claim or a post of unknown outcome adds to the total.        *)
(*                                                                         *)
(* What the pass that fills a day guarantees for any people, passes and    *)
(* bounds: it writes over an answer, or says "not reached" of someone the  *)
(* check-in reached, only when that happened under its own hands.          *)
(***************************************************************************)
EXTENDS SendOnce, FillDay, FiniteSetTheorems, WellFoundedInduction, TLAPS

Pending == {"post", "release", "delete"}

\* Every action keeps the values of its variables within their types (all of
\* send_dm and the store).
THEOREM TypeCorrect == Spec => []TypeOK
<1>1. Init => TypeOK
  <2> SUFFICES ASSUME Init PROVE TypeOK
    OBVIOUS
  <2>1. pc \in [Senders -> Places]
    BY DEF Init, Places
  <2> QED
    BY <2>1 DEF Init, TypeOK, Keys
<1>2. TypeOK /\ [Next]_vars => TypeOK'
  <2> SUFFICES ASSUME TypeOK, [Next]_vars PROVE TypeOK'
    OBVIOUS
  <2> USE DEF TypeOK, Keys, Places, Move
  <2>1. ASSUME NEW s \in Senders, Step(s) PROVE TypeOK'
    BY <2>1 DEF Step, Call, Claim, Refused, FindSent, PollAgain, Deadline, Post,
                PostFails, PostUnknown, Put, ReleaseRead, ReleaseDelete
  <2>2. ASSUME NEW s \in Senders, Die(s) PROVE TypeOK'
    BY <2>2 DEF Die, Holding
  <2>3. CASE Lapse
    BY <2>3 DEF Lapse
  <2>4. CASE UNCHANGED vars
    BY <2>4 DEF vars
  <2> QED
    BY <2>1, <2>2, <2>3, <2>4 DEF Next, Finished
<1> QED
  BY <1>1, <1>2, PTL DEF Spec

\* How the number of unposted sends changes when one sender moves.
LEMMA UnpostedMoves ==
  ASSUME TypeOK, NEW s \in Senders, NEW to \in Places,
         pc' = [pc EXCEPT ![s] = to]
  PROVE  /\ Cardinality(Unposted) \in Nat
         /\ Cardinality(Unposted') \in Nat
         /\ pc[s] \in Pending /\ to \in Pending
              => Cardinality(Unposted') = Cardinality(Unposted)
         /\ pc[s] \notin Pending /\ to \notin Pending
              => Cardinality(Unposted') = Cardinality(Unposted)
         /\ pc[s] \in Pending /\ to \notin Pending
              => Cardinality(Unposted') = Cardinality(Unposted) - 1
         /\ pc[s] \notin Pending /\ to \in Pending
              => Cardinality(Unposted') = Cardinality(Unposted) + 1
<1> USE DEF TypeOK, Pending
<1>1. IsFiniteSet(Unposted)
  <2>1. Unposted \in SUBSET Senders
    BY DEF Unposted
  <2> QED
    BY <2>1, SendersFinite, FS_Subset
<1>2. IsFiniteSet(Unposted')
  <2>1. Unposted' \in SUBSET Senders
    BY DEF Unposted
  <2> QED
    BY <2>1, SendersFinite, FS_Subset
<1>3. s \in Unposted <=> pc[s] \in Pending
  BY DEF Unposted
<1>4. CASE pc[s] \in Pending /\ to \in Pending
  <2>1. Unposted' = Unposted
    BY <1>4 DEF Unposted
  <2> QED
    BY <1>1, <1>4, <2>1, FS_CardinalityType
<1>5. CASE pc[s] \notin Pending /\ to \notin Pending
  <2>1. Unposted' = Unposted
    BY <1>5 DEF Unposted
  <2> QED
    BY <1>1, <1>5, <2>1, FS_CardinalityType
<1>6. CASE pc[s] \in Pending /\ to \notin Pending
  <2>1. Unposted' = Unposted \ {s}
    BY <1>6 DEF Unposted
  <2>2. Cardinality(Unposted') = Cardinality(Unposted) - 1
    BY <1>1, <1>3, <1>6, <2>1, FS_RemoveElement
  <2> QED
    BY <1>1, <1>2, <1>6, <2>2, FS_CardinalityType
<1>7. CASE pc[s] \notin Pending /\ to \in Pending
  <2>1. Unposted' = Unposted \cup {s}
    BY <1>7 DEF Unposted
  <2>2. Cardinality(Unposted') = Cardinality(Unposted) + 1
    BY <1>1, <1>3, <1>7, <2>1, FS_AddElement
  <2> QED
    BY <1>1, <1>2, <1>7, <2>2, FS_CardinalityType
<1> QED
  BY <1>4, <1>5, <1>6, <1>7

\* The accounting is inductive (the claim, the expiry and both calls of release).
THEOREM SendsAccounted == Spec => []SendsAreAccountedFor
<1>1. Init => SendsAreAccountedFor
  <2> SUFFICES ASSUME Init PROVE SendsAreAccountedFor
    OBVIOUS
  <2>1. Unposted = {}
    BY DEF Init, Unposted
  <2> QED
    BY <2>1, FS_EmptySet DEF Init, SendsAreAccountedFor
<1>2. TypeOK /\ SendsAreAccountedFor /\ [Next]_vars => SendsAreAccountedFor'
  <2> SUFFICES ASSUME TypeOK, SendsAreAccountedFor, [Next]_vars
               PROVE  SendsAreAccountedFor'
    OBVIOUS
  <2> USE DEF SendsAreAccountedFor
  <2>0. Cardinality(Unposted) \in Nat
    BY SendersFinite, FS_Subset, FS_CardinalityType DEF Unposted
  <2>1. ASSUME NEW s \in Senders, Step(s) PROVE SendsAreAccountedFor'
    <3>0. PICK to \in Places : pc' = [pc EXCEPT ![s] = to]
      BY <2>1 DEF Step, Call, Claim, Refused, FindSent, PollAgain, Deadline, Post,
                  PostFails, PostUnknown, Put, ReleaseRead, ReleaseDelete, Move, Places
    <3>1. pc'[s] = to
      BY <3>0 DEF TypeOK
    <3>2. /\ Cardinality(Unposted') \in Nat
          /\ pc[s] \in Pending /\ to \in Pending
              => Cardinality(Unposted') = Cardinality(Unposted)
          /\ pc[s] \notin Pending /\ to \notin Pending
              => Cardinality(Unposted') = Cardinality(Unposted)
          /\ pc[s] \in Pending /\ to \notin Pending
              => Cardinality(Unposted') = Cardinality(Unposted) - 1
          /\ pc[s] \notin Pending /\ to \in Pending
              => Cardinality(Unposted') = Cardinality(Unposted) + 1
      BY <3>0, UnpostedMoves
    <3> HIDE DEF SendsAreAccountedFor
    <3>3. CASE Call(s) \/ Refused(s) \/ FindSent(s) \/ PollAgain(s) \/ Deadline(s)
      <4>1. pc[s] \notin Pending /\ to \notin Pending
        BY <3>1, <3>3 DEF Call, Refused, FindSent, PollAgain, Deadline, Move, Pending, TypeOK
      <4>2. UNCHANGED <<key, posts, lapses, unknowns, outlasted>>
        BY <3>3 DEF Call, Refused, FindSent, PollAgain, Deadline
      <4> QED
        BY <3>2, <4>1, <4>2 DEF SendsAreAccountedFor
    <3>4. CASE Claim(s)
      <4>1. pc[s] \notin Pending /\ to \in Pending
        BY <3>1, <3>4 DEF Claim, Move, Pending, TypeOK
      <4> QED
        BY <2>0, <3>2, <3>4, <4>1 DEF Claim, SendsAreAccountedFor, TypeOK
    <3>5. CASE Post(s)
      <4>1. pc[s] \in Pending /\ to \notin Pending
        BY <3>1, <3>5 DEF Post, Move, Pending, TypeOK
      <4> QED
        BY <2>0, <3>2, <3>5, <4>1 DEF Post, SendsAreAccountedFor, TypeOK
    <3>6. CASE PostFails(s)
      <4>1. pc[s] \in Pending /\ to \in Pending
        BY <3>1, <3>6 DEF PostFails, Move, Pending, TypeOK
      <4> QED
        BY <2>0, <3>2, <3>6, <4>1 DEF PostFails, SendsAreAccountedFor, TypeOK
    <3>7. CASE PostUnknown(s)
      <4>1. pc[s] \in Pending /\ to \in Pending
        BY <3>1, <3>7 DEF PostUnknown, Move, Pending, TypeOK
      <4> QED
        BY <2>0, <3>2, <3>7, <4>1 DEF PostUnknown, SendsAreAccountedFor, TypeOK
    <3>8. CASE Put(s)
      <4>1. pc[s] \notin Pending /\ to \notin Pending
        BY <3>1, <3>8 DEF Put, Move, Pending, TypeOK
      <4> QED
        BY <2>0, <3>2, <3>8, <4>1 DEF Put, SendsAreAccountedFor, TypeOK
    <3>9. CASE ReleaseRead(s)
      <4>1. pc[s] \in Pending /\ UNCHANGED <<key, posts, lapses, unknowns, outlasted>>
        BY <3>9 DEF ReleaseRead, Move, Pending
      <4>2. Cardinality(Unposted') <= Cardinality(Unposted)
        BY <2>0, <3>2, <4>1
      <4> QED
        BY <2>0, <3>2, <4>1, <4>2 DEF SendsAreAccountedFor, TypeOK
    <3>10. CASE ReleaseDelete(s)
      <4>1. pc[s] \in Pending /\ to \notin Pending
        BY <3>1, <3>10 DEF ReleaseDelete, Move, Pending, TypeOK
      <4> QED
        BY <2>0, <3>2, <3>10, <4>1 DEF ReleaseDelete, SendsAreAccountedFor, TypeOK
    <3> QED
      BY <2>1, <3>3, <3>4, <3>5, <3>6, <3>7, <3>8, <3>9, <3>10 DEF Step
  <2>2. ASSUME NEW s \in Senders, Die(s) PROVE SendsAreAccountedFor'
    <3>1. "dead" \in Places /\ "dead" \notin Pending
      BY DEF Places, Pending
    <3>2. pc' = [pc EXCEPT ![s] = "dead"] /\ UNCHANGED <<key, posts, lapses, unknowns, outlasted>>
      BY <2>2 DEF Die
    <3>3. /\ Cardinality(Unposted') \in Nat
          /\ pc[s] \notin Pending => Cardinality(Unposted') = Cardinality(Unposted)
          /\ pc[s] \in Pending => Cardinality(Unposted') = Cardinality(Unposted) - 1
      BY <3>1, <3>2, UnpostedMoves
    <3>4. Cardinality(Unposted') <= Cardinality(Unposted)
      BY <2>0, <3>3
    <3> QED
      BY <2>0, <3>2, <3>3, <3>4 DEF TypeOK
  <2>3. CASE Lapse
    <3>1. Unposted' = Unposted
      BY <2>3 DEF Lapse, Unposted
    <3> QED
      BY <2>0, <2>3, <3>1 DEF Lapse, TypeOK
  <2>4. CASE UNCHANGED vars
    BY <2>4 DEF vars, Unposted
  <2> QED
    BY <2>1, <2>2, <2>3, <2>4 DEF Next, Finished
<1> QED
  BY <1>1, <1>2, TypeCorrect, PTL DEF Spec

\* For any number of senders of one key, every message beyond the first is
\* matched by a claim that expired or a post whose outcome the sender did not
\* learn (send_dm over RedisSendOnceStore).
THEOREM DuplicatesBounded == Spec => []DuplicatesArePaidFor
<1>1. TypeOK /\ SendsAreAccountedFor => DuplicatesArePaidFor
  <2> SUFFICES ASSUME TypeOK, SendsAreAccountedFor PROVE DuplicatesArePaidFor
    OBVIOUS
  <2>1. Cardinality(Unposted) \in Nat
    BY SendersFinite, FS_Subset, FS_CardinalityType DEF Unposted
  <2> QED
    BY <2>1 DEF TypeOK, SendsAreAccountedFor, DuplicatesArePaidFor
<1> QED
  BY <1>1, TypeCorrect, SendsAccounted, PTL

\* While no send has outlasted its claim, the claim of a sender at work is
\* its own.
LEMMA HolderAlone == Spec => []HolderIsAlone
<1>1. Init => HolderIsAlone
  BY DEF Init, HolderIsAlone, Holding
<1>2. TypeOK /\ HolderIsAlone /\ [Next]_vars => HolderIsAlone'
  <2> SUFFICES ASSUME TypeOK, HolderIsAlone, [Next]_vars, ~outlasted'
               PROVE  \A s \in Senders : pc'[s] \in Holding =>
                         key' = "claimed" /\ \A t \in Senders : pc'[t] \in Holding => t = s
    BY DEF HolderIsAlone
  <2> USE DEF TypeOK, HolderIsAlone, Holding, Move
  <2>1. ASSUME NEW s \in Senders, Step(s)
        PROVE  \A u \in Senders : pc'[u] \in Holding =>
                  key' = "claimed" /\ \A t \in Senders : pc'[t] \in Holding => t = u
    <3>1. CASE Claim(s)
      BY <3>1 DEF Claim
    <3>2. CASE Call(s) \/ Refused(s) \/ FindSent(s) \/ PollAgain(s) \/ Deadline(s)
      BY <3>2 DEF Call, Refused, FindSent, PollAgain, Deadline
    <3>3. CASE Post(s) \/ PostFails(s) \/ PostUnknown(s) \/ ReleaseRead(s)
      BY <3>3 DEF Post, PostFails, PostUnknown, ReleaseRead
    <3>4. CASE Put(s) \/ ReleaseDelete(s)
      BY <3>4 DEF Put, ReleaseDelete
    <3> QED
      BY <2>1, <3>1, <3>2, <3>3, <3>4 DEF Step
  <2>2. ASSUME NEW s \in Senders, Die(s)
        PROVE  \A u \in Senders : pc'[u] \in Holding =>
                  key' = "claimed" /\ \A t \in Senders : pc'[t] \in Holding => t = u
    BY <2>2 DEF Die
  <2>3. CASE Lapse
    BY <2>3 DEF Lapse
  <2>4. CASE UNCHANGED vars
    BY <2>4 DEF vars
  <2> QED
    BY <2>1, <2>2, <2>3, <2>4 DEF Next, Finished
<1> QED
  BY <1>1, <1>2, TypeCorrect, PTL DEF Spec

\* While no send has outlasted its claim, a recorded message id is never deleted:
\* the comment in RedisSendOnceStore.release holds as long as sends are prompt.
THEOREM PromptSendsKeepTheId == Spec => PromptIdStays
<1>1. TypeOK /\ HolderIsAlone /\ [Next]_vars => [key = "sent" /\ ~outlasted => key' = "sent"]_vars
  <2> SUFFICES ASSUME TypeOK, HolderIsAlone, [Next]_vars, key = "sent", ~outlasted
               PROVE  key' = "sent"
    OBVIOUS
  <2> USE DEF TypeOK, HolderIsAlone, Holding, Move
  <2>1. ASSUME NEW s \in Senders, Step(s) PROVE key' = "sent"
    BY <2>1 DEF Step, Call, Claim, Refused, FindSent, PollAgain, Deadline, Post,
                PostFails, PostUnknown, Put, ReleaseRead, ReleaseDelete
  <2>2. ASSUME NEW s \in Senders, Die(s) PROVE key' = "sent"
    BY <2>2 DEF Die
  <2>3. CASE Lapse
    BY <2>3 DEF Lapse
  <2>4. CASE UNCHANGED vars
    BY <2>4 DEF vars
  <2> QED
    BY <2>1, <2>2, <2>3, <2>4 DEF Next, Finished
<1> QED
  BY <1>1, TypeCorrect, HolderAlone, PTL DEF Spec, PromptIdStays

\* A call of send_dm that returns an id returns that of a posted message.
THEOREM ReturnMeansPosted == Spec => []ReturnedWasPosted
<1>1. Init => IdMeansPosted
  BY DEF Init, IdMeansPosted
<1>2. TypeOK /\ IdMeansPosted /\ [Next]_vars => IdMeansPosted'
  <2> SUFFICES ASSUME TypeOK, IdMeansPosted, [Next]_vars PROVE IdMeansPosted'
    OBVIOUS
  <2> USE DEF TypeOK, IdMeansPosted, Move
  <2>1. ASSUME NEW s \in Senders, Step(s) PROVE IdMeansPosted'
    BY <2>1 DEF Step, Call, Claim, Refused, FindSent, PollAgain, Deadline, Post,
                PostFails, PostUnknown, Put, ReleaseRead, ReleaseDelete
  <2>2. ASSUME NEW s \in Senders, Die(s) PROVE IdMeansPosted'
    BY <2>2 DEF Die
  <2>3. CASE Lapse
    BY <2>3 DEF Lapse
  <2>4. CASE UNCHANGED vars
    BY <2>4 DEF vars
  <2> QED
    BY <2>1, <2>2, <2>3, <2>4 DEF Next, Finished
<1>3. IdMeansPosted => ReturnedWasPosted
  BY DEF IdMeansPosted, ReturnedWasPosted
<1> QED
  BY <1>1, <1>2, <1>3, TypeCorrect, PTL DEF Spec
-----------------------------------------------------------------------------
\* The list of a pass has a first person.
LEMMA FirstOf ==
  ASSUME NEW S \in SUBSET People, S # {}
  PROVE  (CHOOSE q \in S : \A r \in S : q <= r) \in S
<1>1. S \subseteq Nat
  BY LastPositive DEF People
<1>2. PICK q \in S : \A r \in S : ~(<<r, q>> \in OpToRel(<, Nat))
  BY <1>1, NatLessThanWellFounded, WFMin
<1>3. ASSUME NEW r \in S PROVE q <= r
  <2>1. ~(r < q)
    BY <1>1, <1>2 DEF OpToRel
  <2> QED
    BY <1>1, <2>1
<1> QED
  BY <1>3

\* Every step of the pass, the check-in and the console keeps its variables' types, and
\* a pass has a person in hand that is one of those it listed (FillDayPass.run).
THEOREM FillTypeCorrect == FillSpec => []FillTypeOK
<1>1. FillInit => FillTypeOK
  <2>1. 1 \in People
    BY LastPositive DEF People
  <2> QED
    BY <2>1 DEF FillInit, FillTypeOK, Days, Asks, PassPlaces
<1>2. FillTypeOK /\ [FillNext]_fillVars => FillTypeOK'
  <2> SUFFICES ASSUME FillTypeOK, [FillNext]_fillVars PROVE FillTypeOK'
    OBVIOUS
  <2> USE DEF FillTypeOK, world, past, passes, Go, Ask, PassPlaces, Days, Asks, Answers
  <2>1. ASSUME NEW w \in Passes, Pick(w) PROVE FillTypeOK'
    <3> DEFINE p == CHOOSE q \in todo[w] : \A r \in todo[w] : q <= r
    <3>1. p \in People
      BY <2>1, FirstOf DEF Pick
    <3>2. /\ who' = [who EXCEPT ![w] = p] /\ todo' = [todo EXCEPT ![w] = @ \ {p}]
          /\ place' = [place EXCEPT ![w] = IF p \in due THEN "status" ELSE "pick"]
          /\ UNCHANGED <<world, day, past>>
      BY <2>1 DEF Pick
    <3> HIDE DEF p
    <3> QED
      BY <3>1, <3>2
  <2>2. ASSUME NEW w \in Passes,
               Begin(w) \/ PassEnds(w) \/ LookStatus(w) \/ LookRun(w) \/ Write(w) \/ PassFails(w)
        PROVE  FillTypeOK'
    BY <2>2 DEF Begin, PassEnds, LookStatus, LookRun, Write, PassFails
  <2>3. ASSUME NEW p \in People,
               BecomesDue(p) \/ StartAsk(p) \/ AskFails(p) \/ AskPosts(p) \/ RecordRun(p)
        PROVE  FillTypeOK'
    BY <2>3 DEF BecomesDue, StartAsk, AskFails, AskPosts, RecordRun
  <2>4. ASSUME NEW p \in People,
               \/ Reply(p) \/ Close(p) \/ Confirm(p) \/ UpdateTask(p)
               \/ \E what \in {"confirm", "task"} : OpenDesk(p, what)
        PROVE  FillTypeOK'
    BY <2>4 DEF Reply, Close, Confirm, UpdateTask, OpenDesk, Answered
  <2>5. CASE Switch \/ UNCHANGED fillVars
    BY <2>5 DEF Switch, fillVars
  <2> QED
    BY <2>1, <2>2, <2>3, <2>4, <2>5 DEF FillNext, PassStep, AskStep
<1> QED
  BY <1>1, <1>2, PTL DEF FillSpec

\* An answer in a day under a pass past its look, or an ask out under a pass that is
\* to write, came there while the pass held the person.
UnderThePass ==
    /\ \A w \in Passes : place[w] \in {"run", "write"} /\ day[who[w]] \in Answers
                            => who[w] \in raced
    /\ \A w \in Passes : place[w] = "write" /\ ask[who[w]] \in Reached
                            => who[w] \in missed

FillInv == /\ UnderThePass
           /\ AnswerFilledOverOnlyIfRaced
           /\ NotReachedIsTrue

LEMMA FillPassStep ==
  ASSUME FillTypeOK, FillInv, NEW w \in Passes,
         Begin(w) \/ PassStep(w) \/ PassFails(w)
  PROVE  FillInv'
<1> USE DEF FillTypeOK, FillInv, UnderThePass, AnswerFilledOverOnlyIfRaced,
            NotReachedIsTrue, world, past, Go, PassPlaces
<1>1. CASE Begin(w)
  BY <1>1 DEF Begin
<1>2. CASE Pick(w)
  <2>1. PICK p : /\ who' = [who EXCEPT ![w] = p] /\ place[w] = "pick"
                 /\ place' = [place EXCEPT ![w] = IF p \in due THEN "status" ELSE "pick"]
                 /\ UNCHANGED <<due, day, ask, desk, lost, misled, raced, missed>>
    BY <1>2 DEF Pick
  <2>2. who'[w] = p /\ \A v \in Passes \ {w} : who'[v] = who[v] /\ place'[v] = place[v]
    BY <2>1
  <2> QED
    BY <2>1, <2>2
<1>3. CASE PassEnds(w)
  BY <1>3 DEF PassEnds
<1>4. CASE LookStatus(w)
  BY <1>4 DEF LookStatus, Answers
<1>5. CASE LookRun(w)
  BY <1>5 DEF LookRun
<1>6. CASE Write(w)
  BY <1>6 DEF Write, Days, Answers
<1>7. CASE PassFails(w)
  BY <1>7 DEF PassFails
<1> QED
  BY <1>1, <1>2, <1>3, <1>4, <1>5, <1>6, <1>7 DEF PassStep

LEMMA FillPersonStep ==
  ASSUME FillTypeOK, FillInv, NEW p \in People,
         \/ BecomesDue(p) \/ StartAsk(p) \/ AskFails(p) \/ AskStep(p)
         \/ Reply(p) \/ Close(p) \/ Confirm(p) \/ UpdateTask(p)
         \/ \E what \in {"confirm", "task"} : OpenDesk(p, what)
  PROVE  FillInv'
<1> USE DEF FillTypeOK, FillInv, UnderThePass, AnswerFilledOverOnlyIfRaced,
            NotReachedIsTrue, past, passes, Ask, Asks, Reached,
            Held, Holds, Days, Answers
<1>1. CASE BecomesDue(p)
  BY <1>1 DEF BecomesDue
<1>2. CASE StartAsk(p)
  BY <1>2 DEF StartAsk
<1>3. CASE AskFails(p)
  BY <1>3 DEF AskFails
<1>4. CASE AskPosts(p)
  BY <1>4 DEF AskPosts
<1>5. CASE RecordRun(p)
  BY <1>5 DEF RecordRun
<1>6. CASE Reply(p)
  BY <1>6 DEF Reply, Answered
<1>7. CASE Close(p)
  BY <1>7 DEF Close
<1>8. CASE Confirm(p)
  BY <1>8 DEF Confirm, Answered
<1>9. CASE UpdateTask(p)
  BY <1>9 DEF UpdateTask, Answered
<1>10. CASE \E what \in {"confirm", "task"} : OpenDesk(p, what)
  BY <1>10 DEF OpenDesk
<1> QED
  BY <1>1, <1>2, <1>3, <1>4, <1>5, <1>6, <1>7, <1>8, <1>9, <1>10 DEF AskStep

LEMMA FillInvCorrect == FillSpec => []FillInv
<1>1. FillInit => FillInv
  BY DEF FillInit, FillInv, UnderThePass, AnswerFilledOverOnlyIfRaced, NotReachedIsTrue
<1>2. FillTypeOK /\ FillInv /\ [FillNext]_fillVars => FillInv'
  <2> SUFFICES ASSUME FillTypeOK, FillInv, [FillNext]_fillVars PROVE FillInv'
    OBVIOUS
  <2>1. CASE Switch \/ UNCHANGED fillVars
    BY <2>1 DEF Switch, fillVars, past, passes, FillInv, UnderThePass,
       AnswerFilledOverOnlyIfRaced, NotReachedIsTrue
  <2> QED
    BY <2>1, FillPassStep, FillPersonStep DEF FillNext
<1> QED
  BY <1>1, <1>2, FillTypeCorrect, PTL DEF FillSpec

\* An answer of the person is filled over only when it came while a pass, having found
\* no status, was still at work on them (FillDayPass._fill_one, fill_day).
THEOREM FilledOverIsRaced == FillSpec => []AnswerFilledOverOnlyIfRaced
  BY FillInvCorrect, PTL DEF FillInv

\* "Not reached" is said of someone the check-in reached only when the ask was between
\* its message and its run's row, or went out under the pass (_fill_one).
THEOREM NotReachedCorrect == FillSpec => []NotReachedIsTrue
  BY FillInvCorrect, PTL DEF FillInv
=============================================================================
