----------------------- MODULE InclusionProducerProofs -----------------------
(***************************************************************************)
(* Proofs about what InclusionProducer tracks, for any pool, any room for  *)
(* its events and any lag of the task, and about the lists it publishes.   *)
(***************************************************************************)
EXTENDS InclusionProducer, DataProofs

Event == [kind : EventKinds, tx : Txs]

\* Event i says whether t is pending; a propagated transaction was so already.
Decides(i, t) == events[i].tx = t /\ events[i].kind # "propagated"

LastWord(i, t) ==
    /\ i \in 1..Len(events)
    /\ Decides(i, t)
    /\ \A j \in 1..Len(events) : i < j => ~Decides(j, t)

Unheard(t) == \A i \in 1..Len(events) : ~Decides(i, t)

QueueType ==
    /\ pool \in [Txs -> SubPools]
    /\ events \in Seq(Event)
    /\ untold \in SUBSET Txs
    /\ pendingTxs \in SUBSET (Txs \ Blobs)

\* The last event on its way decides alike with the pool, and without one the
\* task already agrees with it; of a transaction it was told the place of.
Agrees(t) ==
    running /\ t \notin untold =>
        /\ \A i \in 1..Len(events) :
              LastWord(i, t) => (events[i].kind = "pending" <=> pool[t] = "pending")
        /\ Unheard(t) => (t \in pendingTxs <=> pool[t] = "pending" /\ t \notin Blobs)

TrackingInv == QueueType /\ \A t \in Txs : Agrees(t)

-----------------------------------------------------------------------------
\* At first nothing is tracked, and nothing told is pending.
LEMMA InitTracking == Init => TrackingInv
BY TxsAssumption
DEF Init, TrackingInv, QueueType, Agrees, SubPools, Event, Unheard, LastWord

\* A step that touches neither the pool nor what the task tracks.
LEMMA TrackingKept ==
    ASSUME TrackingInv, UNCHANGED <<pool, events, untold, pendingTxs, running>>
    PROVE  TrackingInv'
BY DEF TrackingInv, QueueType, Agrees, Unheard, LastWord, Decides

\* A change of the pool, with its event.
LEMMA PoolStepKeeps ==
    ASSUME TrackingInv, NEW u \in Txs, NEW place \in SubPools, NEW kind \in EventKinds,
           kind = "propagated" => place = pool[u],
           kind # "propagated" => (kind = "pending" <=> place = "pending"),
           PoolStep(u, place), Tell(u, kind)
    PROVE  TrackingInv'
<1> DEFINE e == [kind |-> kind, tx |-> u]
<1>1. /\ pool' = [pool EXCEPT ![u] = place]
      /\ UNCHANGED <<pendingTxs, running>>
  BY DEF PoolStep, producerVars
<1>2. \/ /\ running /\ events' = Append(events, e)
         /\ untold' = IF kind = "propagated" THEN untold ELSE untold \ {u}
      \/ /\ UNCHANGED events
         /\ untold' = IF kind = "propagated" THEN untold ELSE untold \cup {u}
  BY DEF Tell
<1>3. /\ e \in Event /\ events \in Seq(Event) /\ Len(events) \in Nat
      /\ pool \in [Txs -> SubPools]
  BY DEF Event, TrackingInv, QueueType
<1>4. QueueType'
  <2>1. events' \in Seq(Event)
    BY <1>2, <1>3
  <2>2. untold' \in SUBSET Txs
    BY <1>2 DEF TrackingInv, QueueType
  <2> QED BY <1>1, <1>3, <2>1, <2>2 DEF TrackingInv, QueueType
<1>5. ASSUME NEW t \in Txs, running, t \notin untold'
      PROVE  /\ \A i \in 1..Len(events') :
                   LastWord(i, t)' => (events'[i].kind = "pending" <=> pool'[t] = "pending")
             /\ Unheard(t)' => (t \in pendingTxs' <=> pool'[t] = "pending" /\ t \notin Blobs)
  <2>1. Agrees(t)
    BY DEF TrackingInv
  <2>2. CASE /\ events' = Append(events, e)
             /\ untold' = IF kind = "propagated" THEN untold ELSE untold \ {u}
    <3>0. PICK n \in Nat : n = Len(events)
      BY <1>3
    <3>1. /\ Len(events') = n + 1
          /\ \A i \in 1..n : events'[i] = events[i]
          /\ events'[n + 1].kind = kind /\ events'[n + 1].tx = u
      BY <1>3, <2>2, <3>0
    <3>2. CASE u = t /\ kind # "propagated"
      <4>1. n + 1 \in 1..Len(events') /\ Decides(n + 1, t)'
        BY <3>0, <3>1, <3>2 DEF Decides
      <4>2. ASSUME NEW i \in 1..Len(events'), LastWord(i, t)'
            PROVE  i = n + 1
        BY <3>0, <3>1, <4>1, <4>2 DEF LastWord
      <4>3. kind = "pending" <=> pool'[t] = "pending"
        BY <1>1, <1>3, <3>2
      <4> QED BY <3>1, <4>1, <4>2, <4>3 DEF Unheard
    <3>3. CASE ~(u = t /\ kind # "propagated")
      <4>1. pool'[t] = pool[t] /\ t \notin untold /\ UNCHANGED pendingTxs
        BY <1>1, <1>3, <1>5, <2>2, <3>3
      <4>2. /\ ~Decides(n + 1, t)'
            /\ \A i \in 1..n : Decides(i, t)' <=> Decides(i, t)
        BY <3>0, <3>1, <3>3 DEF Decides
      <4>3. Unheard(t)' => Unheard(t)
        BY <3>0, <3>1, <4>2 DEF Unheard
      <4>4. ASSUME NEW i \in 1..Len(events'), LastWord(i, t)'
            PROVE  i \in 1..Len(events) /\ LastWord(i, t) /\ events'[i] = events[i]
        <5>1. i # n + 1
          BY <4>2, <4>4 DEF LastWord
        <5>2. i \in 1..n /\ \A j \in 1..n : j \in 1..Len(events')
          BY <3>0, <3>1, <5>1
        <5> QED BY <3>0, <3>1, <4>2, <4>4, <5>2 DEF LastWord
      <4> QED BY <1>5, <2>1, <4>1, <4>3, <4>4 DEF Agrees
    <3> QED BY <3>2, <3>3
  <2>3. CASE /\ UNCHANGED events
             /\ untold' = IF kind = "propagated" THEN untold ELSE untold \cup {u}
    <3>1. pool'[t] = pool[t] /\ t \notin untold /\ UNCHANGED pendingTxs
      BY <1>1, <1>3, <1>5, <2>3
    <3>2. /\ Unheard(t)' <=> Unheard(t)
          /\ \A i \in 1..Len(events) : LastWord(i, t)' <=> LastWord(i, t)
      BY <2>3 DEF Unheard, LastWord, Decides
    <3> QED BY <1>5, <2>1, <2>3, <3>1, <3>2 DEF Agrees
  <2> QED BY <1>2, <2>2, <2>3
<1>6. ASSUME NEW t \in Txs PROVE Agrees(t)'
  BY <1>1, <1>5 DEF Agrees
<1> QED BY <1>4, <1>6 DEF TrackingInv

\* A demotion, of which there is no event.
LEMMA DemoteKeeps ==
    ASSUME TrackingInv, NEW u \in Txs, Demote(u)
    PROVE  TrackingInv'
<1>1. /\ pool' = [pool EXCEPT ![u] = "queued"] /\ untold' = untold \cup {u}
      /\ UNCHANGED <<events, pendingTxs, running>>
  BY DEF Demote, PoolStep, producerVars
<1>2. QueueType'
  BY <1>1 DEF TrackingInv, QueueType, SubPools
<1>3. ASSUME NEW t \in Txs, t # u PROVE Agrees(t)'
  <2>1. Agrees(t) /\ pool'[t] = pool[t] /\ (t \in untold' <=> t \in untold)
    BY <1>1, <1>3 DEF TrackingInv, QueueType
  <2>2. /\ Unheard(t)' <=> Unheard(t)
        /\ \A i \in 1..Len(events) : LastWord(i, t)' <=> LastWord(i, t)
    BY <1>1 DEF Unheard, LastWord, Decides
  <2> QED BY <1>1, <2>1, <2>2 DEF Agrees
<1>4. Agrees(u)'
  BY <1>1 DEF Agrees
<1> QED BY <1>2, <1>3, <1>4 DEF TrackingInv

\* The task takes an event; the pool answers for the present.
LEMMA TakeEventKeeps ==
    ASSUME TrackingInv, TakeEvent
    PROVE  TrackingInv'
<1> DEFINE e == Head(events)
<1>1. /\ running /\ events # <<>> /\ events' = Tail(events)
      /\ UNCHANGED <<pool, untold, running>>
  BY DEF TakeEvent
<1>2. /\ e = events[1] /\ e \in Event /\ 1 \in 1..Len(events)
      /\ events' \in Seq(Event) /\ Len(events') = Len(events) - 1 /\ Len(events) \in Nat
      /\ \A i \in 1..Len(events') : events'[i] = events[i + 1]
  BY <1>1 DEF TrackingInv, QueueType
<1>3. PICK score \in Scores : HandleTxEvent(e, score)
  BY DEF TakeEvent
<1> HIDE DEF e
<1>4. /\ e.kind \in EventKinds /\ e.tx \in Txs
      /\ e.kind = "pending" /\ pool[e.tx] # "absent" /\ e.tx \notin Blobs =>
            pendingTxs' = pendingTxs \cup {e.tx}
      /\ e.kind = "pending" /\ ~(pool[e.tx] # "absent" /\ e.tx \notin Blobs) =>
            pendingTxs' = pendingTxs
      /\ e.kind \in {"queued", "left"} => pendingTxs' = pendingTxs \ {e.tx}
      /\ e.kind = "propagated" => pendingTxs' = pendingTxs
  BY <1>2, <1>3 DEF HandleTxEvent, Tracks, Event, EventKinds
<1>5. QueueType'
  BY <1>1, <1>2, <1>4 DEF TrackingInv, QueueType, EventKinds
<1>6. ASSUME NEW t \in Txs, t \notin untold PROVE Agrees(t)'
  <2>1. Agrees(t) /\ pendingTxs \in SUBSET (Txs \ Blobs)
    BY DEF TrackingInv, QueueType
  <2>2. \A i \in 1..Len(events') :
           i + 1 \in 1..Len(events) /\ (Decides(i, t)' <=> Decides(i + 1, t))
    BY <1>2 DEF Decides
  <2>3. \A j \in 2..Len(events) : j - 1 \in 1..Len(events') /\ j = (j - 1) + 1
    BY <1>2
  <2>4. ASSUME NEW i \in 1..Len(events'), LastWord(i, t)'
        PROVE  events'[i].kind = "pending" <=> pool'[t] = "pending"
    <3>1. ASSUME NEW j \in 1..Len(events), i + 1 < j PROVE ~Decides(j, t)
      <4>1. j - 1 \in 1..Len(events') /\ i < j - 1 /\ j = (j - 1) + 1
        BY <1>2, <3>1
      <4>2. ~Decides(j - 1, t)'
        BY <2>4, <4>1 DEF LastWord
      <4> QED BY <2>2, <4>1, <4>2
    <3>2. LastWord(i + 1, t)
      BY <2>2, <2>4, <3>1 DEF LastWord
    <3> QED BY <1>1, <1>2, <1>6, <2>1, <2>2, <3>2 DEF Agrees
  <2>5. ASSUME Unheard(t)'
        PROVE  t \in pendingTxs' <=> pool'[t] = "pending" /\ t \notin Blobs
    <3>1. \A j \in 2..Len(events) : ~Decides(j, t)
      BY <2>2, <2>3, <2>5 DEF Unheard
    <3>2. CASE Decides(1, t)
      <4>1. LastWord(1, t)
        BY <1>2, <3>1, <3>2 DEF LastWord
      <4>2. /\ e.tx = t /\ e.kind # "propagated"
            /\ e.kind = "pending" <=> pool[t] = "pending"
        BY <1>1, <1>2, <1>6, <2>1, <3>2, <4>1 DEF Agrees, Decides
      <4> QED BY <1>1, <1>4, <2>1, <4>2 DEF EventKinds
    <3>3. CASE ~Decides(1, t)
      <4>1. Unheard(t)
        BY <1>2, <3>1, <3>3 DEF Unheard
      <4>2. t \in pendingTxs <=> pool[t] = "pending" /\ t \notin Blobs
        BY <1>1, <1>6, <2>1, <4>1 DEF Agrees
      <4>3. e.tx # t \/ e.kind = "propagated"
        BY <1>2, <3>3 DEF Decides
      <4>4. t \in pendingTxs' <=> t \in pendingTxs
        BY <1>4, <4>3 DEF EventKinds
      <4> QED BY <1>1, <4>2, <4>4
    <3> QED BY <3>2, <3>3
  <2> QED BY <1>1, <2>4, <2>5 DEF Agrees
<1>7. ASSUME NEW t \in Txs, t \in untold PROVE Agrees(t)'
  BY <1>1, <1>7 DEF Agrees
<1> QED BY <1>5, <1>6, <1>7 DEF TrackingInv

\* Every step keeps the invariant.
LEMMA NextTracking == TrackingInv /\ [Next]_vars => TrackingInv'
<1> SUFFICES ASSUME TrackingInv, [Next]_vars PROVE TrackingInv'
  OBVIOUS
<1> USE DEF poolVars, chainVars, producerVars, taskVars, clientVars, subscriptionVars
<1>1. CASE PoolNext
  <2>1. PICK t \in Txs :
           EnterPending(t) \/ EnterQueued(t) \/ Demote(t) \/ Leave(t) \/ Propagate(t)
    BY <1>1 DEF PoolNext
  <2>2. CASE EnterPending(t)
    BY <2>2, PoolStepKeeps DEF EnterPending, SubPools, EventKinds
  <2>3. CASE EnterQueued(t)
    BY <2>3, PoolStepKeeps DEF EnterQueued, SubPools, EventKinds
  <2>4. CASE Demote(t)
    BY <2>4, DemoteKeeps
  <2>5. CASE Leave(t)
    BY <2>5, PoolStepKeeps DEF Leave, SubPools, EventKinds
  <2>6. CASE Propagate(t)
    BY <2>6, PoolStepKeeps DEF Propagate, SubPools, EventKinds
  <2> QED BY <2>1, <2>2, <2>3, <2>4, <2>5, <2>6
<1>2. CASE TakeEvent
  BY <1>2, TakeEventKeeps
<1>3. CASE Close
  <2>1. /\ running' = FALSE /\ events' = <<>>
        /\ UNCHANGED <<pool, untold, pendingTxs>>
    BY <1>3 DEF Close
  <2>2. QueueType'
    BY <2>1 DEF TrackingInv, QueueType
  <2> QED BY <2>1, <2>2 DEF TrackingInv, Agrees
<1>4. CASE \/ \E kind \in {"commit", "reorg"} : Notify(kind)
           \/ TakeNotification
           \/ \E s \in Subscribers : Subscribe(s) \/ SubscriptionStep(s) \/ ClientStep(s)
           \/ UNCHANGED vars
  <2>1. UNCHANGED <<pool, events, untold, pendingTxs, running>>
    BY <1>4
    DEF Notify, TakeNotification, Subscribe, SubscriptionStep, Accept, TakeList,
        SendList, SendFails, EndSubscription, ClientStep, HangUp, UseBuffer, vars
  <2> QED BY <2>1, TrackingKept
<1> QED BY <1>1, <1>2, <1>3, <1>4 DEF Next

(***************************************************************************)
(* Whatever the pool did while events waited, a producer that has taken    *)
(* them all agrees with the pool on every transaction whose last change    *)
(* was announced to it: handle_tx_event never keeps one that left, nor     *)
(* misses one that is back.                                                *)
(***************************************************************************)
THEOREM ProducerTracksPool == Spec => []TracksPool
<1>1. TrackingInv => TracksPool
  <2> SUFFICES ASSUME TrackingInv, running, events = <<>>, NEW t \in Txs \ untold
               PROVE  t \in pendingTxs <=> pool[t] = "pending" /\ t \notin Blobs
    BY DEF TracksPool
  <2>1. Unheard(t)
    BY DEF Unheard
  <2> QED BY <2>1 DEF TrackingInv, Agrees
<1> QED BY <1>1, InitTracking, NextTracking, PTL DEF Spec

-----------------------------------------------------------------------------
(***************************************************************************)
(* The list                                                                *)
(***************************************************************************)
Entry == [score : Scores, tx : Txs]

OfOneScore(entries) == \A e, f \in entries : e.score = f.score => e = f

\* A tracked transaction has an entry, unless another one's kept it out.
HasEntry(t) == \E e \in orderedTxs : e.tx = t

EntriesInv ==
    /\ orderedTxs \in SUBSET Entry
    /\ OfOneScore(orderedTxs)
    /\ \A t \in pendingTxs \ crowded : HasEntry(t)

\* There are at most as many entries as scores.
LEMMA EntriesFinite ==
    ASSUME NEW E \in SUBSET Entry, OfOneScore(E)
    PROVE  IsFiniteSet(E)
<1> DEFINE score == [e \in E |-> e.score]
<1>1. score \in Injection(E, Scores)
  BY DEF Injection, IsInjective, Entry, OfOneScore
<1> HIDE DEF score
<1> QED BY <1>1, ScoresAssumption, FS_Injection

\* ByScore lists the entries.
LEMMA ByScoreLists ==
    ASSUME NEW E \in SUBSET Entry, OfOneScore(E)
    PROVE  /\ Cardinality(E) \in Nat
           /\ ByScore(E) \in [1..Cardinality(E) -> E]
           /\ \A e \in E : \E i \in 1..Cardinality(E) : ByScore(E)[i] = e
<1> DEFINE B == [e \in E |-> {f \in E : f.score > e.score}]
           Place(i) == CHOOSE e \in E : Cardinality({f \in E : f.score > e.score}) = i - 1
<1>1. IsFiniteSet(E)
  BY EntriesFinite
<1>2. \A e \in E : e.score \in Int
  <2>1. \A e \in E : e.score \in Scores
    BY DEF Entry
  <2>2. \A n \in Scores : n \in Int
    BY ScoresAssumption
  <2> QED BY <2>1, <2>2
<1>3. Ordered(E, B)
  <2>1. B \in [E -> SUBSET E]
    OBVIOUS
  <2>2. \A e, f \in E : f \in B[e] <=> f.score > e.score
    OBVIOUS
  <2> HIDE DEF B
  <2>3. \A e, f \in E : e # f => e.score # f.score
    BY DEF OfOneScore
  <2>4. \A e \in E : e \notin B[e]
    BY <1>2, <2>2
  <2>5. \A e, f, g \in E : f \in B[e] /\ g \in B[f] => g \in B[e]
    BY <1>2, <2>2
  <2>6. \A e, f \in E : e # f => f \in B[e] \/ e \in B[f]
    BY <1>2, <2>2, <2>3
  <2> QED BY <2>1, <2>4, <2>5, <2>6 DEF Ordered
<1>4. Cardinality(E) \in Nat /\ \A i \in 1..Cardinality(E) : \E e \in E : Cardinality(B[e]) = i - 1
  <2> HIDE DEF B
  <2> QED BY <1>1, <1>3, Ranks
<1>5. ASSUME NEW i \in 1..Cardinality(E)
      PROVE  Place(i) \in E /\ Cardinality(B[Place(i)]) = i - 1
  <2>1. \E e \in E : Cardinality({f \in E : f.score > e.score}) = i - 1
    BY <1>4
  <2>2. Place(i) \in E /\ Cardinality({f \in E : f.score > Place(i).score}) = i - 1
    BY <2>1, Zenon
  <2> HIDE DEF Place
  <2> QED BY <2>2
<1>6. ByScore(E) = [i \in 1..Cardinality(E) |-> Place(i)]
  BY DEF ByScore
<1>7. Ranked(E, B, ByScore(E))
  <2> HIDE DEF B, Place
  <2> QED BY <1>5, <1>6 DEF Ranked
<1>8. \A e \in E : \E i \in 1..Cardinality(E) : ByScore(E)[i] = e
  <2> HIDE DEF B
  <2> QED BY <1>1, <1>3, <1>7, Ranking
<1>9. ByScore(E) \in [1..Cardinality(E) -> E]
  BY <1>7 DEF Ranked
<1> QED BY <1>4, <1>8, <1>9

-----------------------------------------------------------------------------
\* What build_inclusion_list has after some entries.
Building == [list : Seq(Txs), size : Nat]

\* What it keeps: its size is that of the list and within the limit, the list is of
\* entries it saw, and those it left out do not fit.
Built(acc, saw) ==
    /\ acc \in Building
    /\ acc.size = SeqTotal(EncodedLength, acc.list)
    /\ acc.size <= MaxListBytes
    /\ Range(acc.list) \subseteq {e.tx : e \in saw}
    /\ \A e \in saw : \/ e.tx \in Range(acc.list)
                      \/ acc.size + EncodedLength[e.tx] > MaxListBytes

\* One more entry.
LEMMA AddToListBuilds ==
    ASSUME NEW saw \in SUBSET Entry, NEW e \in Entry, NEW acc, Built(acc, saw)
    PROVE  Built(AddToList(acc, e), saw \cup {e})
<1> DEFINE len == EncodedLength[e.tx]
           list == Append(acc.list, e.tx)
           new == saw \cup {e}
<1>1. /\ e.tx \in Txs /\ len \in Nat /\ MaxListBytes \in Nat
      /\ acc.list \in Seq(Txs) /\ acc.size \in Nat
  BY TxsAssumption, InclusionBoundsAssumption DEF Entry, Built, Building
<1>2. \A f \in saw : EncodedLength[f.tx] \in Nat
  BY TxsAssumption DEF Entry
<1>3. CASE acc.size + len > MaxListBytes
  <2>1. AddToList(acc, e) = acc
    BY <1>3 DEF AddToList
  <2>2. Built(acc, new)
    BY <1>3 DEF Built
  <2> QED BY <2>1, <2>2
<1>4. CASE ~(acc.size + len > MaxListBytes)
  <2>1. AddToList(acc, e) = [list |-> list, size |-> acc.size + len]
    BY <1>4 DEF AddToList
  <2>2. list \in Seq(Txs) /\ acc.size + len \in Nat /\ acc.size + len <= MaxListBytes
    BY <1>1, <1>4
  <2>3. EncodedLength \in [Txs -> Nat]
    BY TxsAssumption
  <2>4. SeqTotal(EncodedLength, list) = acc.size + len
    <3>1. SeqTotal(EncodedLength, list) = SeqTotal(EncodedLength, acc.list) + len
      BY <1>1, <2>3, TotalAppend
    <3> QED BY <3>1 DEF Built
  <2>5. Range(list) = Range(acc.list) \cup {e.tx}
    <3>1. /\ DOMAIN list = 1..(Len(acc.list) + 1) /\ DOMAIN acc.list = 1..Len(acc.list)
          /\ Len(acc.list) \in Nat /\ list[Len(acc.list) + 1] = e.tx
          /\ \A i \in 1..Len(acc.list) : list[i] = acc.list[i]
      BY <1>1
    <3> HIDE DEF list
    <3>2. \A i \in DOMAIN list : i = Len(acc.list) + 1 \/ i \in DOMAIN acc.list
      BY <3>1
    <3>3. Len(acc.list) + 1 \in DOMAIN list /\ DOMAIN acc.list \subseteq DOMAIN list
      BY <3>1
    <3> QED BY <3>1, <3>2, <3>3 DEF Range
  <2>6. \A f \in saw : \/ f.tx \in Range(acc.list)
                       \/ acc.size + EncodedLength[f.tx] > MaxListBytes
    BY DEF Built
  <2>7. Range(acc.list) \subseteq {f.tx : f \in saw}
    BY DEF Built
  <2> HIDE DEF list, len
  <2>8. [list |-> list, size |-> acc.size + len] \in Building
    BY <2>2 DEF Building
  <2>9. ASSUME NEW f \in new
        PROVE  f.tx \in Range(list) \/ acc.size + len + EncodedLength[f.tx] > MaxListBytes
    <3>1. CASE f = e
      BY <2>5, <3>1
    <3>2. CASE f # e
      <4>1. f \in saw /\ EncodedLength[f.tx] \in Nat
        BY <1>2, <2>9, <3>2
      <4>2. CASE f.tx \in Range(acc.list)
        BY <2>5, <4>2
      <4>3. CASE acc.size + EncodedLength[f.tx] > MaxListBytes
        BY <1>1, <4>1, <4>3
      <4> QED BY <2>6, <4>1, <4>2, <4>3
    <3> QED BY <3>1, <3>2
  <2>10. Range(list) \subseteq {f.tx : f \in new}
    BY <2>5, <2>7
  <2> QED BY <2>1, <2>2, <2>4, <2>8, <2>9, <2>10 DEF Built
<1> QED BY <1>3, <1>4

\* All of them: what build_inclusion_list ends with.
LEMMA BuildsList ==
    ASSUME NEW E \in SUBSET Entry, OfOneScore(E)
    PROVE  Built(FoldLeft(LAMBDA acc, e : AddToList(acc, e),
                          [list |-> <<>>, size |-> 0], ByScore(E)), E)
<1> DEFINE L == ByScore(E)
           n == Cardinality(E)
           none == [list |-> <<>>, size |-> 0]
           Eq(f) == f = [s \in SUBSET DOMAIN L |->
                            IF s = {} THEN none ELSE AddToList(f[s \ {Max(s)}], L[Max(s)])]
           f == CHOOSE f : Eq(f)
           step == [i \in 1..n |-> [a \in Building |-> AddToList(a, L[i])]]
<1>1. n \in Nat /\ L \in [1..n -> E] /\ \A e \in E : \E i \in 1..n : L[i] = e
  BY ByScoreLists
<1>2. FoldLeft(LAMBDA acc, e : AddToList(acc, e), none, L) = f[DOMAIN L]
  BY DEF FoldLeft, MapThenFoldSet
<1>3. none \in Building /\ Built(none, {})
  <2>1. EncodedLength \in [Txs -> Nat] /\ MaxListBytes \in Nat
    BY TxsAssumption, InclusionBoundsAssumption
  <2>2. SeqTotal(EncodedLength, <<>>) = 0
    BY <2>1, TotalNone
  <2>3. Range(<<>>) = {}
    BY DEF Range
  <2> QED BY <2>1, <2>2, <2>3 DEF Built, Building
<1> HIDE DEF L, n, none
<1>4. \A i \in 1..n : L[i] \in Entry
  BY <1>1
<1>5. ASSUME NEW a \in Building, NEW e \in Entry PROVE AddToList(a, e) \in Building
  <2>1. e.tx \in Txs /\ EncodedLength[e.tx] \in Nat
    BY TxsAssumption DEF Entry
  <2> QED BY <2>1 DEF AddToList, Building
<1>6. step \in [1..n -> [Building -> Building]]
  BY <1>4, <1>5
<1>7. ASSUME NEW s \in SUBSET (1..n), s # {}, NEW a \in Building
      PROVE  step[Max(s)][a] = AddToList(a, L[Max(s)])
  BY <1>1, <1>7, MaxIn
<1>8. ASSUME NEW i \in 1..n, NEW a \in Building
      PROVE  step[i][a] = AddToList(a, L[i])
  OBVIOUS
<1> HIDE DEF step
<1>9. DOMAIN L = 1..n
  BY <1>1
<1>10. \E g : Eq(g)
  <2>1. PICK g : ListFoldOf(n, Building, none, step, g)
    BY <1>1, <1>3, <1>6, ListFoldExists
  <2>2. ASSUME NEW s \in SUBSET (1..n), s # {}
        PROVE  g[s] = AddToList(g[s \ {Max(s)}], L[Max(s)])
    <3>1. g[s \ {Max(s)}] \in Building /\ g[s] = step[Max(s)][g[s \ {Max(s)}]]
      BY <2>1, <2>2 DEF ListFoldOf
    <3> QED BY <1>7, <2>2, <3>1
  <2>3. g = [s \in SUBSET (1..n) |-> g[s]] /\ g[{}] = none
    BY <2>1 DEF ListFoldOf
  <2>4. Eq(g)
    BY <1>9, <2>2, <2>3
  <2> HIDE DEF Eq
  <2> QED BY <2>4
<1>11. Eq(f)
  <2> HIDE DEF Eq
  <2> QED BY <1>10, Zenon DEF f
<1> HIDE DEF f
<1>12. FoldedBy(n, Building, none, step, f)
  <2>1. f[{}] = none
    BY <1>11
  <2>2. ASSUME NEW s \in SUBSET (1..n), s # {}, f[s \ {Max(s)}] \in Building
        PROVE  f[s] = step[Max(s)][f[s \ {Max(s)}]]
    <3>1. f[s] = AddToList(f[s \ {Max(s)}], L[Max(s)])
      BY <1>9, <1>11, <2>2
    <3> QED BY <1>7, <2>2, <3>1
  <2> QED BY <2>1, <2>2 DEF FoldedBy
<1> HIDE DEF Eq
<1>13. PICK h : FoldsTo(n, Building, none, step, f, h)
  BY <1>1, <1>3, <1>6, <1>12, FoldPrefixes
<1> DEFINE Saw(i) == {L[j] : j \in 1..i}
           S == {i \in Nat : i <= n => Built(h[i], Saw(i))}
<1>14. 0 \in S
  <2>1. h[0] = none /\ Saw(0) = {}
    BY <1>13 DEF FoldsTo
  <2> QED BY <1>3, <2>1
<1>15. ASSUME NEW i \in Nat, i \in S PROVE i + 1 \in S
  <2>1. ASSUME i + 1 <= n PROVE Built(h[i + 1], Saw(i + 1))
    <3>1. i + 1 \in 1..n /\ (i + 1) - 1 = i /\ i <= n /\ i \in 0..n
      BY <1>1, <2>1
    <3>2. h[i] \in Building /\ h[i + 1] = step[i + 1][h[(i + 1) - 1]]
      BY <1>13, <3>1 DEF FoldsTo
    <3>3. h[i + 1] = AddToList(h[i], L[i + 1])
      BY <1>8, <3>1, <3>2
    <3>4. Saw(i + 1) = Saw(i) \cup {L[i + 1]}
      <4>1. 1..(i + 1) = (1..i) \cup {i + 1}
        OBVIOUS
      <4> QED BY <4>1
    <3>5. Built(h[i], Saw(i))
      BY <1>15, <3>1
    <3>6. Saw(i) \in SUBSET Entry /\ L[i + 1] \in Entry
      <4>1. n \in Nat
        BY <1>1
      <4>2. \A j \in 1..i : j \in 1..n
        BY <3>1, <4>1
      <4> QED BY <1>4, <3>1, <4>2
    <3> HIDE DEF Saw
    <3> QED BY <3>3, <3>4, <3>5, <3>6, AddToListBuilds
  <2> HIDE DEF Saw
  <2> QED BY <2>1
<1>16. \A i \in Nat : i \in S
  <2> HIDE DEF S
  <2> QED BY <1>14, <1>15, Induction
<1>17. Built(h[n], Saw(n))
  <2> HIDE DEF Saw
  <2> QED BY <1>1, <1>16
<1>18. Saw(n) = E
  BY <1>1
<1>19. h[n] = f[DOMAIN L]
  BY <1>9, <1>13 DEF FoldsTo
<1> HIDE DEF Saw
<1> QED BY <1>2, <1>17, <1>18, <1>19 DEF L, none

-----------------------------------------------------------------------------
\* An event adds an entry, or leaves another with its score.
LEMMA TakeEventEntries ==
    ASSUME TrackingInv, EntriesInv, TakeEvent
    PROVE  EntriesInv'
<1> DEFINE e == Head(events)
<1>1. PICK score \in Scores : HandleTxEvent(e, score) /\ NoteCrowded(e, score)
  BY DEF TakeEvent
<1>2. e \in Event
  BY DEF TakeEvent, TrackingInv, QueueType
<1>3. e.tx \in Txs
  BY <1>2 DEF Event
<1> HIDE DEF e
<1> DEFINE new == [score |-> score, tx |-> e.tx]
<1>4. new \in Entry /\ new.score = score /\ new.tx = e.tx
  BY <1>3 DEF Entry
<1>5. CASE ~Tracks(e)
  <2>1. UNCHANGED <<orderedTxs, crowded>> /\ pendingTxs' \subseteq pendingTxs
    BY <1>1, <1>5 DEF HandleTxEvent, NoteCrowded
  <2> QED BY <2>1 DEF EntriesInv, HasEntry
<1>6. CASE Tracks(e) /\ HasScore(orderedTxs, score)
  <2>1. /\ UNCHANGED orderedTxs /\ pendingTxs' = pendingTxs \cup {e.tx}
        /\ crowded' = crowded \cup ({e.tx} \ {f.tx : f \in orderedTxs})
    <3>1. crowded' = crowded \cup ({e.tx} \ {f.tx : f \in orderedTxs})
      BY <1>1, <1>6, Zenon DEF NoteCrowded
    <3>2. orderedTxs' = InsertOrdered(orderedTxs, new) /\ pendingTxs' = pendingTxs \cup {e.tx}
      BY <1>1, <1>6 DEF HandleTxEvent, Tracks
    <3>3. InsertOrdered(orderedTxs, new) = orderedTxs
      BY <1>4, <1>6 DEF InsertOrdered
    <3> QED BY <3>1, <3>2, <3>3
  <2>2. ASSUME NEW t \in pendingTxs' \ crowded' PROVE HasEntry(t)
    <3>1. CASE t = e.tx
      <4>1. t \in {f.tx : f \in orderedTxs}
        BY <2>1, <2>2, <3>1
      <4> QED BY <4>1 DEF HasEntry
    <3>2. CASE t # e.tx
      BY <2>1, <2>2, <3>2 DEF EntriesInv
    <3> QED BY <3>1, <3>2
  <2> QED BY <2>1, <2>2 DEF EntriesInv, HasEntry
<1>7. CASE Tracks(e) /\ ~HasScore(orderedTxs, score)
  <2>1. /\ orderedTxs' = orderedTxs \cup {new} /\ pendingTxs' = pendingTxs \cup {e.tx}
        /\ crowded' = crowded \ {e.tx}
    <3>1. crowded' = crowded \ {e.tx}
      BY <1>1, <1>7 DEF NoteCrowded
    <3>2. orderedTxs' = InsertOrdered(orderedTxs, new) /\ pendingTxs' = pendingTxs \cup {e.tx}
      BY <1>1, <1>7 DEF HandleTxEvent, Tracks
    <3>3. InsertOrdered(orderedTxs, new) = orderedTxs \cup {new}
      BY <1>4, <1>7 DEF InsertOrdered
    <3> QED BY <3>1, <3>2, <3>3
  <2>2. orderedTxs' \in SUBSET Entry /\ OfOneScore(orderedTxs)'
    BY <1>4, <1>7, <2>1 DEF EntriesInv, OfOneScore, HasScore
  <2> HIDE DEF new
  <2>3. ASSUME NEW t \in pendingTxs' \ crowded' PROVE HasEntry(t)'
    <3>1. CASE t = e.tx
      BY <1>4, <2>1, <3>1 DEF HasEntry
    <3>2. CASE t # e.tx
      BY <2>1, <2>3, <3>2 DEF EntriesInv, HasEntry
    <3> QED BY <3>1, <3>2
  <2> QED BY <2>2, <2>3 DEF EntriesInv
<1> QED BY <1>5, <1>6, <1>7

\* Every step keeps at most one entry of each score, and those of what is tracked.
LEMMA NextEntries == TrackingInv /\ EntriesInv /\ [Next]_vars => EntriesInv'
<1> SUFFICES ASSUME TrackingInv, EntriesInv, [Next]_vars PROVE EntriesInv'
  OBVIOUS
<1> USE DEF poolVars, chainVars, producerVars, taskVars, clientVars, subscriptionVars
<1>1. CASE TakeEvent
  BY <1>1, TakeEventEntries
<1>2. CASE TakeNotification
  <2>1. /\ orderedTxs' = StillPending(orderedTxs) \/ UNCHANGED orderedTxs
        /\ UNCHANGED <<pendingTxs, crowded>>
    BY <1>2 DEF TakeNotification, BuildInclusionList
  <2>2. orderedTxs' \subseteq orderedTxs /\ \A t \in pendingTxs : HasEntry(t) => HasEntry(t)'
    BY <2>1 DEF StillPending, HasEntry
  <2>3. \A t \in pendingTxs' \ crowded' : HasEntry(t)'
    BY <2>1, <2>2 DEF EntriesInv
  <2> QED BY <2>2, <2>3 DEF EntriesInv, OfOneScore
<1>3. CASE \/ PoolNext \/ Close
           \/ \E kind \in {"commit", "reorg"} : Notify(kind)
           \/ \E s \in Subscribers : Subscribe(s) \/ SubscriptionStep(s) \/ ClientStep(s)
           \/ UNCHANGED vars
  <2>1. UNCHANGED <<orderedTxs, pendingTxs, crowded>>
    BY <1>3
    DEF PoolNext, EnterPending, EnterQueued, Demote, Leave, Propagate, PoolStep, Close,
        Notify, Subscribe, SubscriptionStep, Accept, TakeList, SendList, SendFails,
        EndSubscription, ClientStep, HangUp, UseBuffer, vars
  <2> QED BY <2>1 DEF EntriesInv, HasEntry
<1> QED BY <1>1, <1>2, <1>3 DEF Next

\* What a step publishes.
PublishesMaximal ==
    published' # published =>
        LET total == FoldLeft(LAMBDA sum, t : sum + EncodedLength[t], 0, published'.list)
        IN  /\ total <= MaxListBytes
            /\ Range(published'.list) \subseteq pendingTxs
            /\ \A t \in pendingTxs \ crowded :
                  \/ t \in Range(published'.list)
                  \/ total + EncodedLength[t] > MaxListBytes

\* Only build_inclusion_list publishes.
LEMMA NextPublishes == EntriesInv /\ [Next]_vars => PublishesMaximal
<1> SUFFICES ASSUME EntriesInv, [Next]_vars, published' # published PROVE PublishesMaximal
  BY DEF PublishesMaximal
<1> USE DEF poolVars, chainVars, producerVars, taskVars, clientVars, subscriptionVars
<1>1. BuildInclusionList
  <2>1. TakeNotification
    BY DEF Next, PoolNext, EnterPending, EnterQueued, Demote, Leave, Propagate, PoolStep,
           Close, Notify, TakeEvent, Subscribe, SubscriptionStep, Accept, TakeList,
           SendList, SendFails, EndSubscription, ClientStep, HangUp, UseBuffer, vars
  <2> QED BY <2>1 DEF TakeNotification
<1> DEFINE E == StillPending(orderedTxs)
           built == FoldLeft(LAMBDA acc, e : AddToList(acc, e),
                             [list |-> <<>>, size |-> 0], ByScore(E))
<1>2. E \in SUBSET Entry /\ OfOneScore(E) /\ \A e \in E : e.tx \in pendingTxs
  BY DEF EntriesInv, OfOneScore, StillPending
<1>3. \A t \in pendingTxs \ crowded : \E e \in E : e.tx = t
  BY DEF EntriesInv, HasEntry, StillPending
<1>4. published'.list = built.list
  BY <1>1 DEF BuildInclusionList
<1> HIDE DEF E
<1>5. Built(built, E)
  BY <1>2, BuildsList
<1> HIDE DEF built
<1>6. FoldLeft(LAMBDA sum, t : sum + EncodedLength[t], 0, published'.list) = built.size
  BY <1>4, <1>5 DEF Built, SeqTotal
<1>7. /\ built.size <= MaxListBytes
      /\ Range(published'.list) \subseteq pendingTxs
      /\ \A e \in E : \/ e.tx \in Range(published'.list)
                      \/ built.size + EncodedLength[e.tx] > MaxListBytes
  BY <1>2, <1>4, <1>5 DEF Built
<1>8. \A t \in pendingTxs \ crowded : \/ t \in Range(published'.list)
                                      \/ built.size + EncodedLength[t] > MaxListBytes
  BY <1>3, <1>7
<1> QED BY <1>6, <1>7, <1>8 DEF PublishesMaximal

(***************************************************************************)
(* Whatever the transactions, their lengths and scores, the list that      *)
(* build_inclusion_list publishes keeps within MAX_LIST_BYTES, is of       *)
(* pending transactions, and leaves out no tracked transaction that would  *)
(* still have fit, save those whose entry another one's score kept out.    *)
(***************************************************************************)
THEOREM PublishedListIsMaximal == Spec => ListIsMaximal
<1>1. Init => EntriesInv
  BY DEF Init, EntriesInv, OfOneScore
<1>2. Spec => []EntriesInv
  BY <1>1, InitTracking, NextTracking, NextEntries, PTL DEF Spec
<1>3. Spec => [][PublishesMaximal]_vars
  BY <1>2, NextPublishes, PTL DEF Spec
<1> QED BY <1>3, PTL DEF ListIsMaximal, PublishesMaximal
=============================================================================
