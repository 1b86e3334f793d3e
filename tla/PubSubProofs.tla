---------------------------- MODULE PubSubProofs -----------------------------
(***************************************************************************)
(* Proofs about the slots and the pipes of PubSub, for any number of       *)
(* connections and subscriptions, any caps and any limits.                 *)
(***************************************************************************)
EXTENDS PubSub, FiniteSetTheorems, TLAPS

Labels == {"none", "accept", "next", "room", "count", "send", "full", "measure",
           "compare"}

OfKind(c, k) == {s \in Live(c) : KindOf[s] = k}

SlotType ==
    /\ held \in [Connections -> Entry]
    /\ totals \in Seq(Nat)
    /\ pc \in [Subs -> Labels]
    /\ counter \in [Subs -> Nat]

\* The entry of one connection, against the subscriptions that run on it: it
\* counts them, is there exactly as long as one runs, and its counter, which
\* exists, is theirs.
EntryInv(c) ==
    /\ \A k \in SlotKinds :
          held[c][k] = Cardinality(OfKind(c, k)) /\ held[c][k] <= Cap[k]
    /\ (Live(c) = {}) <=> (held[c] = NoEntry)
    /\ held[c].counter <= Len(totals)
    /\ \A s \in Live(c) : counter[s] = held[c].counter

SlotInv == SlotType /\ \A c \in Connections : EntryInv(c)

-----------------------------------------------------------------------------
\* An entry with one of its counts replaced.
LEMMA EntryUpdate ==
    ASSUME NEW e \in Entry, NEW k \in SlotKinds, NEW n \in Nat
    PROVE  /\ [e EXCEPT ![k] = n] \in Entry
           /\ [e EXCEPT ![k] = n][k] = n
           /\ \A j \in SlotKinds : j # k => [e EXCEPT ![k] = n][j] = e[j]
           /\ [e EXCEPT ![k] = n].counter = e.counter
BY DEF Entry, SlotKinds

\* The fields of an entry are numbers.
LEMMA EntryCounts ==
    ASSUME NEW e \in Entry, NEW k \in SlotKinds
    PROVE  e[k] \in Nat /\ e.counter \in Nat
BY DEF Entry, SlotKinds

\* An absent entry counts nothing.
LEMMA NoEntryCounts ==
    /\ NoEntry \in Entry
    /\ \A k \in SlotKinds : NoEntry[k] = 0
    /\ NoEntry.counter = 0
BY DEF NoEntry, Entry, SlotKinds

\* The subscriptions of a kind are finitely many.
LEMMA OfKindFinite ==
    ASSUME NEW c, NEW k
    PROVE  /\ IsFiniteSet(OfKind(c, k))
           /\ Cardinality(OfKind(c, k)) \in Nat
           /\ Cardinality(OfKind(c, k)) = 0 <=> OfKind(c, k) = {}
<1>1. OfKind(c, k) \subseteq Subs
  BY DEF OfKind, Live
<1>2. IsFiniteSet(OfKind(c, k))
  BY <1>1, SubsAssumption, FS_Subset
<1> QED BY <1>2, FS_CardinalityType, FS_EmptySet

\* A connection on which no kind runs has no subscription.
LEMMA NoneOfAnyKind ==
    ASSUME NEW c, \A k \in SlotKinds : OfKind(c, k) = {}
    PROVE  Live(c) = {}
BY SubsAssumption DEF OfKind, Live

\* A step that starts and ends no subscription.
LEMMA SlotsKept ==
    ASSUME SlotInv, held' = held, counter' = counter,
           totals' \in Seq(Nat), Len(totals') = Len(totals),
           pc' \in [Subs -> Labels],
           \A s \in Subs : (pc'[s] = "none") <=> (pc[s] = "none")
    PROVE  SlotInv'
<1>1. SlotType'
  BY DEF SlotInv, SlotType
<1>2. ASSUME NEW c \in Connections PROVE EntryInv(c)'
  <2>1. Live(c)' = Live(c)
    BY DEF Live
  <2>2. \A k : OfKind(c, k)' = OfKind(c, k)
    BY <2>1 DEF OfKind
  <2> QED BY <2>1, <2>2 DEF SlotInv, EntryInv
<1> QED BY <1>1, <1>2 DEF SlotInv

\* The entries of the other connections.
LEMMA OthersKept ==
    ASSUME SlotInv, NEW s \in Subs, NEW c \in Connections, c # ConnectionOf[s],
           held'[c] = held[c], Len(totals') \in Nat, Len(totals) <= Len(totals'),
           \A t \in Subs : t # s => pc'[t] = pc[t] /\ counter'[t] = counter[t]
    PROVE  EntryInv(c)'
<1>1. Live(c)' = Live(c)
  BY DEF Live
<1>2. \A k : OfKind(c, k)' = OfKind(c, k)
  BY <1>1 DEF OfKind
<1>3. \A t \in Live(c) : counter'[t] = counter[t]
  BY DEF Live
<1>4. held[c].counter <= Len(totals')
  BY EntryCounts DEF SlotInv, SlotType, EntryInv, Entry
<1> QED BY <1>1, <1>2, <1>3, <1>4 DEF SlotInv, EntryInv

-----------------------------------------------------------------------------
\* ConnectionSlot::take.
LEMMA TakeKeeps ==
    ASSUME SlotInv, NEW s \in Subs, Take(s)
    PROVE  SlotInv'
<1> DEFINE c == ConnectionOf[s]
           k == KindOf[s]
           entry == OrDefault(c)
           new == [entry EXCEPT ![k] = entry[k] + 1]
<1>1. c \in Connections /\ k \in SlotKinds
  BY SubsAssumption
<1>2. /\ pc[s] = "none" /\ entry[k] < Cap[k]
      /\ totals' = IF entry.counter > Len(totals) THEN Append(totals, 0) ELSE totals
      /\ held' = [held EXCEPT ![c] = new]
      /\ counter' = [counter EXCEPT ![s] = entry.counter]
      /\ pc' = [pc EXCEPT ![s] = "accept"]
  BY DEF Take
<1>3. EntryInv(c) /\ held[c] \in Entry /\ Len(totals) \in Nat /\ totals \in Seq(Nat)
  BY <1>1 DEF SlotInv, SlotType
<1>4. /\ entry \in Entry
      /\ \A j \in SlotKinds : entry[j] = held[c][j]
      /\ \/ Live(c) = {} /\ entry.counter = Len(totals) + 1
         \/ Live(c) # {} /\ entry = held[c] /\ entry.counter <= Len(totals)
  <2>1. CASE held[c] = NoEntry
    <3>1. entry = [NoEntry EXCEPT !.counter = Len(totals) + 1]
      BY <2>1 DEF OrDefault, NewEntry
    <3> HIDE DEF entry
    <3>2. /\ entry \in Entry /\ entry.counter = Len(totals) + 1
          /\ \A j \in SlotKinds : entry[j] = NoEntry[j]
      BY <1>3, <3>1 DEF NoEntry, Entry, SlotKinds
    <3> QED BY <1>3, <2>1, <3>2 DEF EntryInv
  <2>2. CASE held[c] # NoEntry
    BY <1>3, <2>2 DEF OrDefault, EntryInv
  <2> QED BY <2>1, <2>2
<1> HIDE DEF entry, c, k
<1>5. entry[k] \in Nat /\ entry.counter \in Nat
  BY <1>1, <1>4, EntryCounts
<1>6. /\ new \in Entry /\ new[k] = entry[k] + 1 /\ new.counter = entry.counter
      /\ \A j \in SlotKinds : j # k => new[j] = entry[j]
  BY <1>1, <1>4, <1>5, EntryUpdate
<1> HIDE DEF new
<1>7. /\ totals' \in Seq(Nat) /\ Len(totals') \in Nat /\ Len(totals) <= Len(totals')
      /\ entry.counter <= Len(totals')
  BY <1>2, <1>3, <1>4, <1>5
<1>8. SlotType'
  BY <1>1, <1>2, <1>5, <1>6, <1>7 DEF SlotInv, SlotType, Labels
<1>9. held'[c] = new /\ pc'[s] = "accept" /\ counter'[s] = entry.counter
  BY <1>1, <1>2 DEF SlotInv, SlotType
<1>10. \A t \in Subs : t # s => pc'[t] = pc[t] /\ counter'[t] = counter[t]
  BY <1>2 DEF SlotInv, SlotType
<1>11. Live(c)' = Live(c) \cup {s} /\ s \notin Live(c)
  BY <1>2, <1>9, <1>10 DEF Live, c
<1>12. /\ OfKind(c, k)' = OfKind(c, k) \cup {s} /\ s \notin OfKind(c, k)
       /\ \A j : j # k => OfKind(c, j)' = OfKind(c, j)
  BY <1>11 DEF OfKind, k
<1>13. Cardinality(OfKind(c, k)') = Cardinality(OfKind(c, k)) + 1
  BY <1>12, OfKindFinite, FS_AddElement
<1>14. EntryInv(c)'
  <2>1. ASSUME NEW j \in SlotKinds
        PROVE  held'[c][j] = Cardinality(OfKind(c, j)') /\ held'[c][j] <= Cap[j]
    <3>1. held[c][j] = Cardinality(OfKind(c, j)) /\ held[c][j] <= Cap[j]
      BY <1>3 DEF EntryInv
    <3>2. CASE j = k
      BY <1>2, <1>4, <1>5, <1>6, <1>9, <1>13, <3>1, <3>2, LimitsAssumption
    <3>3. CASE j # k
      BY <1>4, <1>6, <1>9, <1>12, <3>1, <3>3
    <3> QED BY <3>2, <3>3
  <2>2. new # NoEntry
    BY <1>1, <1>5, <1>6, NoEntryCounts
  <2>3. \A t \in Live(c)' : counter'[t] = new.counter
    <3>1. \A t \in Live(c) : counter'[t] = entry.counter
      BY <1>3, <1>4, <1>10, <1>11 DEF EntryInv, Live
    <3> QED BY <1>6, <1>9, <1>11, <3>1
  <2> QED BY <1>6, <1>7, <1>9, <1>11, <2>1, <2>2, <2>3 DEF EntryInv
<1>15. ASSUME NEW d \in Connections, d # c PROVE EntryInv(d)'
  <2>1. held'[d] = held[d]
    BY <1>1, <1>2, <1>15 DEF SlotInv, SlotType
  <2> QED BY <1>7, <1>10, <1>15, <2>1, OthersKept DEF c
<1> QED BY <1>8, <1>14, <1>15 DEF SlotInv

\* A subscription ends, on whichever path, and its slot is dropped.
LEMMA EndKeeps ==
    ASSUME SlotInv, NEW s \in Subs, pc[s] # "none", End(s)
    PROVE  SlotInv'
<1> DEFINE c == ConnectionOf[s]
           k == KindOf[s]
           left == [held[c] EXCEPT ![k] = held[c][k] - 1]
           empty == \A j \in SlotKinds : left[j] = 0
<1>1. c \in Connections /\ k \in SlotKinds
  BY SubsAssumption
<1>2. EntryInv(c) /\ held[c] \in Entry /\ Len(totals) \in Nat
  BY <1>1 DEF SlotInv, SlotType
<1>3. /\ pc' = [pc EXCEPT ![s] = "none"]
      /\ counter' = [counter EXCEPT ![s] = 0]
      /\ totals' = totals
  BY DEF End
<1>4. s \in Live(c) /\ s \in OfKind(c, k)
  BY DEF Live, OfKind
<1>5. held[c][k] \in Nat \ {0} /\ held[c].counter \in Nat
  <2> HIDE DEF c, k
  <2> QED BY <1>1, <1>2, <1>4, OfKindFinite, EntryCounts DEF EntryInv
<1>5a. held[c] # NoEntry
  BY <1>1, <1>5, NoEntryCounts
<1>5b. held' = [held EXCEPT ![c] = IF empty THEN NoEntry ELSE left]
  BY <1>5a DEF End, Released
<1> HIDE DEF c, k
<1>6. /\ left \in Entry /\ left[k] = held[c][k] - 1 /\ left.counter = held[c].counter
      /\ \A j \in SlotKinds : j # k => left[j] = held[c][j]
  <2>1. held[c][k] - 1 \in Nat
    BY <1>5
  <2> QED BY <1>1, <1>2, <2>1, EntryUpdate
<1> HIDE DEF left
<1>7. SlotType'
  BY <1>1, <1>3, <1>5b, <1>6, NoEntryCounts DEF SlotInv, SlotType, Labels
<1>8. pc'[s] = "none" /\ held'[c] = IF empty THEN NoEntry ELSE left
  BY <1>1, <1>3, <1>5b DEF SlotInv, SlotType
<1>9. \A t \in Subs : t # s => pc'[t] = pc[t] /\ counter'[t] = counter[t]
  BY <1>3 DEF SlotInv, SlotType
<1>10. Live(c)' = Live(c) \ {s}
  BY <1>8, <1>9 DEF Live
<1>11. /\ OfKind(c, k)' = OfKind(c, k) \ {s}
       /\ \A j : j # k => OfKind(c, j)' = OfKind(c, j)
  BY <1>10 DEF OfKind, k
<1>12. Cardinality(OfKind(c, k)') = Cardinality(OfKind(c, k)) - 1
  BY <1>4, <1>11, OfKindFinite, FS_RemoveElement
<1>13. ASSUME NEW j \in SlotKinds
       PROVE  left[j] = Cardinality(OfKind(c, j)') /\ left[j] <= Cap[j]
  <2>1. /\ held[c][j] = Cardinality(OfKind(c, j)) /\ held[c][j] <= Cap[j]
        /\ Cap[j] \in Nat
    BY <1>2, LimitsAssumption DEF EntryInv
  <2>2. CASE j = k
    BY <1>5, <1>6, <1>12, <2>1, <2>2
  <2>3. CASE j # k
    BY <1>6, <1>11, <2>1, <2>3
  <2> QED BY <2>2, <2>3
<1>14. empty <=> Live(c)' = {}
  <2>1. ASSUME empty PROVE Live(c)' = {}
    <3>1. \A j \in SlotKinds : Cardinality(OfKind(c, j)') = 0
      BY <1>13, <2>1
    <3>2. ASSUME NEW j \in SlotKinds PROVE OfKind(c, j)' = {}
      <4>1. OfKind(c, j)' \subseteq Subs
        BY DEF OfKind, Live
      <4>2. IsFiniteSet(OfKind(c, j)')
        BY <4>1, SubsAssumption, FS_Subset
      <4> QED BY <3>1, <4>2, FS_EmptySet
    <3> QED BY <3>2, SubsAssumption DEF OfKind, Live
  <2>2. ASSUME Live(c)' = {} PROVE empty
    <3>1. ASSUME NEW j \in SlotKinds PROVE OfKind(c, j)' = {}
      BY <2>2 DEF OfKind
    <3> QED BY <1>13, <3>1, FS_EmptySet
  <2> QED BY <2>1, <2>2
<1>15. EntryInv(c)'
  <2>1. CASE empty
    <3>1. held'[c] = NoEntry /\ Live(c)' = {}
      BY <1>8, <1>14, <2>1
    <3>2. \A j \in SlotKinds :
             held'[c][j] = Cardinality(OfKind(c, j)') /\ held'[c][j] <= Cap[j]
      BY <1>13, <2>1, <3>1, NoEntryCounts
    <3>3. held'[c].counter <= Len(totals')
      BY <1>2, <1>3, <3>1, NoEntryCounts
    <3> QED BY <3>1, <3>2, <3>3 DEF EntryInv
  <2>2. CASE ~empty
    <3>1. held'[c] = left /\ Live(c)' # {}
      BY <1>8, <1>14, <2>2
    <3>2. left # NoEntry
      BY <2>2, NoEntryCounts
    <3>3. \A t \in Live(c)' : counter'[t] = left.counter
      BY <1>2, <1>6, <1>9, <1>10 DEF EntryInv, Live
    <3>4. left.counter <= Len(totals')
      BY <1>2, <1>3, <1>6 DEF EntryInv
    <3> QED BY <1>13, <3>1, <3>2, <3>3, <3>4 DEF EntryInv
  <2> QED BY <2>1, <2>2
<1>16. ASSUME NEW d \in Connections, d # c PROVE EntryInv(d)'
  <2>1. held'[d] = held[d]
    BY <1>1, <1>3, <1>5b, <1>16 DEF SlotInv, SlotType
  <2> QED BY <1>2, <1>3, <1>9, <1>16, <2>1, OthersKept DEF c
<1> QED BY <1>7, <1>15, <1>16 DEF SlotInv

-----------------------------------------------------------------------------
\* At first no connection has an entry.
LEMMA InitSlots == Init => SlotInv
<1> SUFFICES ASSUME Init PROVE SlotInv
  OBVIOUS
<1>1. SlotType
  BY NoEntryCounts DEF Init, SlotType, Labels
<1>2. ASSUME NEW c \in Connections PROVE EntryInv(c)
  <2>1. Live(c) = {} /\ held[c] = NoEntry /\ Len(totals) = 0
    BY DEF Init, Live
  <2>2. \A k : OfKind(c, k) = {}
    BY <2>1 DEF OfKind
  <2>3. \A k \in SlotKinds : Cardinality(OfKind(c, k)) = 0
    BY <2>2, FS_EmptySet
  <2> QED BY <2>1, <2>3, NoEntryCounts, LimitsAssumption DEF EntryInv
<1> QED BY <1>1, <1>2 DEF SlotInv

\* A running task that moves on to another label.
LEMMA MoveKeeps ==
    ASSUME SlotInv, NEW s \in Subs, NEW label \in Labels, label # "none",
           pc[s] # "none", pc' = [pc EXCEPT ![s] = label],
           held' = held, counter' = counter, totals' = totals
    PROVE  SlotInv'
<1>1. /\ pc' \in [Subs -> Labels] /\ totals' \in Seq(Nat)
      /\ \A t \in Subs : (pc'[t] = "none") <=> (pc[t] = "none")
  BY DEF SlotInv, SlotType
<1> QED BY <1>1, SlotsKept

\* A task that only moves on changes no slot.
LEMMA GotoKeeps ==
    ASSUME SlotInv, NEW s \in Subs, NEW label \in Labels, label # "none",
           pc[s] # "none", Goto(s, label), counter' = counter
    PROVE  SlotInv'
BY MoveKeeps DEF Goto, slotVars

\* The steps of a task.
LEMMA SubStepKeeps ==
    ASSUME SlotInv, NEW s \in Subs, NextItem(s) \/ StreamEnds(s) \/ SubStep(s)
    PROVE  SlotInv'
<1> USE DEF slotVars, pipeVars
<1>1. CASE NextItem(s)
  BY <1>1, GotoKeeps DEF NextItem, Labels
<1>2. CASE StreamEnds(s) \/ SeeClosed(s) \/ NoRoom(s) \/ RenderFails(s) \/ SendFails(s)
  BY <1>2, EndKeeps DEF StreamEnds, SeeClosed, NoRoom, RenderFails, SendFails
<1>3. CASE Accept(s)
  BY <1>3, EndKeeps, MoveKeeps DEF Accept, Labels
<1>4. CASE HasRoom(s)
  BY <1>4, GotoKeeps DEF HasRoom, Labels
<1>5. CASE Count(s)
  <2>1. /\ pc[s] = "count" /\ pc' = [pc EXCEPT ![s] = "send"]
        /\ totals' = [totals EXCEPT ![counter[s]] = @ + 1]
        /\ held' = held /\ counter' = counter
    BY <1>5 DEF Count
  <2>2. totals' \in Seq(Nat) /\ Len(totals') = Len(totals)
    <3>1. totals \in Seq(Nat)
      BY DEF SlotInv, SlotType
    <3>2. PICK n \in Nat : totals \in [1..n -> Nat] /\ Len(totals) = n
      BY <3>1
    <3>3. totals' \in [1..n -> Nat]
      <4>1. CASE counter[s] \in 1..n
        <5>1. totals[counter[s]] + 1 \in Nat
          BY <3>2, <4>1
        <5> QED BY <2>1, <3>2, <5>1
      <4>2. CASE counter[s] \notin 1..n
        BY <2>1, <3>2, <4>2
      <4> QED BY <4>1, <4>2
    <3>4. totals' \in Seq(Nat)
      BY <3>3
    <3>5. Len(totals') = n
      BY <3>3, <3>4
    <3> QED BY <3>2, <3>4, <3>5
  <2>3. /\ pc' \in [Subs -> Labels]
        /\ \A t \in Subs : (pc'[t] = "none") <=> (pc[t] = "none")
    BY <2>1 DEF SlotInv, SlotType, Labels
  <2> QED BY <2>1, <2>2, <2>3, SlotsKept
<1>6. CASE Send(s) \/ SendWhenRoom(s)
  <2>1. CASE Queue(s) /\ pc[s] # "none"
    BY <2>1, MoveKeeps DEF Queue, Enqueue, Labels
  <2>2. CASE Goto(s, "full") /\ pc[s] # "none" /\ counter' = counter
    BY <2>2, GotoKeeps DEF Labels
  <2>3. CASE End(s) /\ pc[s] # "none"
    BY <2>3, EndKeeps
  <2> QED BY <1>6, <2>1, <2>2, <2>3 DEF Send, SendWhenRoom
<1>7. CASE Measure(s)
  BY <1>7, GotoKeeps DEF Measure, Labels
<1>8. CASE Compare(s)
  <2>1. CASE End(s) /\ pc[s] # "none"
    BY <2>1, EndKeeps
  <2>2. CASE \E label \in {"count", "next"} :
                Goto(s, label) /\ pc[s] # "none" /\ counter' = counter
    BY <2>2, GotoKeeps DEF Labels
  <2> QED BY <1>8, <2>1, <2>2 DEF Compare
<1> QED
  BY <1>1, <1>2, <1>3, <1>4, <1>5, <1>6, <1>7, <1>8 DEF SubStep

\* Every step keeps the invariant.
LEMMA NextSlots == SlotInv /\ [Next]_vars => SlotInv'
<1> SUFFICES ASSUME SlotInv, [Next]_vars PROVE SlotInv'
  OBVIOUS
<1>1. CASE \E s \in Subs : Take(s)
  BY <1>1, TakeKeeps
<1>2. CASE \E s \in Subs : NextItem(s) \/ StreamEnds(s) \/ SubStep(s)
  BY <1>2, SubStepKeeps
<1>3. CASE \/ \E s \in Subs : Unsubscribe(s)
           \/ \E c \in Connections : WriteNext(c) \/ Disconnect(c) \/ QueueForeign(c)
           \/ UNCHANGED vars
  <2>1. UNCHANGED <<held, totals, counter, pc>>
    BY <1>3
    DEF Unsubscribe, WriteNext, Disconnect, QueueForeign, vars, slotVars, pipeVars
  <2>2. totals \in Seq(Nat) /\ pc \in [Subs -> Labels]
    BY DEF SlotInv, SlotType
  <2> QED BY <2>1, <2>2, SlotsKept
<1> QED BY <1>1, <1>2, <1>3 DEF Next

\* Through every take, end and disconnect the map of slots agrees with the tasks that
\* run: each entry is there as long as a task holds it, counts them, and is theirs.
THEOREM SlotInvariance == Spec => []SlotInv
BY InitSlots, NextSlots, PTL DEF Spec

(***************************************************************************)
(* ConnectionSlot::take and the drop of a slot keep the map exact: for     *)
(* every connection and kind it counts the subscriptions that run, within  *)
(* the cap, and an idle connection leaves no entry behind.                 *)
(***************************************************************************)
THEOREM SlotsAreCounted == Spec => []SlotsCounted
<1>1. SlotInv => SlotsCounted
  BY DEF SlotInv, EntryInv, SlotsCounted, OfKind
<1> QED BY <1>1, SlotInvariance, PTL

(***************************************************************************)
(* All subscriptions of a connection count their messages in the counter   *)
(* of its entry, whatever subscriptions of it start and end in between.    *)
(***************************************************************************)
THEOREM CounterIsShared == Spec => []OneCounterPerConnection
<1>1. SlotInv => OneCounterPerConnection
  BY DEF SlotInv, EntryInv, OneCounterPerConnection
<1> QED BY <1>1, SlotInvariance, PTL

-----------------------------------------------------------------------------
(***************************************************************************)
(* The pipes.  PipeType gives the types; the rest says what the counts of  *)
(* the messages mean: a counted message carries a count its counter has    *)
(* reached, no two messages of a connection carry the same one, and a task *)
(* between counting and queueing owns a count nobody else has.             *)
(***************************************************************************)
AnyMessage == Messages \cup {ForeignMessage}
Sending == {"send", "full"}

PipeType ==
    /\ buffer \in [Connections -> Seq(AnyMessage)]
    /\ gone \subseteq Connections
    /\ mine \in [Subs -> Nat]
    /\ previous \in [Subs -> Nat]
    /\ skipping \in [Subs -> BOOLEAN]
    /\ measured \in [Subs -> Nat]
    /\ before \in [Subs -> SUBSET AnyMessage]
    /\ foreign \in Nat

BufferInv(c) ==
    /\ Len(buffer[c]) <= Capacity
    /\ \A i \in 1..Len(buffer[c]) : buffer[c][i] # ForeignMessage =>
          /\ buffer[c][i].counter \in 1..Len(totals)
          /\ buffer[c][i].count \in 1..totals[buffer[c][i].counter]
    /\ \A i, j \in 1..Len(buffer[c]) :
          /\ i # j
          /\ buffer[c][i] # ForeignMessage
          /\ buffer[c][j] # ForeignMessage
          /\ buffer[c][i].counter = buffer[c][j].counter
          => buffer[c][i].count # buffer[c][j].count

TaskInv(s) ==
    /\ pc[s] = "none" => counter[s] = 0 /\ previous[s] = 0
    /\ pc[s] # "none" => counter[s] \in 1..Len(totals)
    /\ previous[s] # 0 => previous[s] <= totals[counter[s]]
    /\ pc[s] \in {"measure", "compare"} =>
          KindOf[s] = "NewFlashblocks" /\ previous[s] # 0
    /\ s \in closed => pc[s] \notin {"none", "accept"}

\* A count that was taken and not yet queued.
SendingInv(s) ==
    pc[s] \in Sending =>
        /\ mine[s] \in 1..totals[counter[s]]
        /\ \A i \in 1..Len(buffer[ConnectionOf[s]]) :
              buffer[ConnectionOf[s]][i].counter = counter[s] =>
                  buffer[ConnectionOf[s]][i].count # mine[s]

CountsApart ==
    \A s, t \in Subs :
        /\ s # t
        /\ ConnectionOf[s] = ConnectionOf[t]
        /\ pc[s] \in Sending
        /\ pc[t] \in Sending
        => mine[s] # mine[t]

\* Messages of an earlier counter stand before the previous message, while
\* there are any.
PreviousInv(s) ==
    previous[s] # 0 =>
        \A i \in 1..Len(buffer[ConnectionOf[s]]) :
            buffer[ConnectionOf[s]][i] # ForeignMessage
                /\ buffer[ConnectionOf[s]][i].counter # counter[s] =>
            \E j \in 1..Len(buffer[ConnectionOf[s]]) :
                /\ i < j
                /\ buffer[ConnectionOf[s]][j].counter = counter[s]
                /\ buffer[ConnectionOf[s]][j].count = previous[s]

HeldBack(s) ==
    \E m \in before[s] :
        m = ForeignMessage \/ (m.counter = counter[s] /\ m.count <= previous[s])

SkipInv(s) == pc[s] = "compare" /\ ~HasLeft(s) => HeldBack(s)

PipeInv ==
    /\ PipeType
    /\ closed \subseteq Subs
    /\ \A c \in Connections : BufferInv(c)
    /\ \A s \in Subs : TaskInv(s) /\ SendingInv(s) /\ PreviousInv(s) /\ SkipInv(s)
    /\ CountsApart

(***************************************************************************)
(* What per-item subscriptions have queued, with what they will: those     *)
(* that passed wait_for_room queue one message more.                       *)
(***************************************************************************)
PerItemQueued(c) ==
    {i \in 1..Len(buffer[c]) :
        buffer[c][i].sub \in Subs /\ KindOf[buffer[c][i].sub] = "PerItem"}
PastRoom == {"count", "send", "full"}
Passed(c) == {s \in OfKind(c, "PerItem") : pc[s] \in PastRoom}

RoomFor(c) ==
    Cardinality(PerItemQueued(c)) + Cardinality(Passed(c)) <= MaxQueued + Cap["PerItem"]

RoomInv == \A c \in Connections : RoomFor(c)

-----------------------------------------------------------------------------
\* Counters are only added, and only count up.
TotalsGrow ==
    /\ totals' \in Seq(Nat)
    /\ Len(totals) <= Len(totals')
    /\ \A k \in 1..Len(totals) : totals[k] <= totals'[k]

\* What one subscription's task keeps for itself.
SameTask(t) ==
    /\ pc'[t] = pc[t] /\ counter'[t] = counter[t] /\ mine'[t] = mine[t]
    /\ previous'[t] = previous[t] /\ measured'[t] = measured[t] /\ before'[t] = before[t]

\* The total a task counts in is a number.
LEMMA TotalOfTask ==
    ASSUME SlotInv, PipeInv, NEW s \in Subs, pc[s] # "none"
    PROVE  /\ counter[s] \in 1..Len(totals) /\ Len(totals) \in Nat
           /\ totals[counter[s]] \in Nat
           /\ ConnectionOf[s] \in Connections
           /\ counter[s] = held[ConnectionOf[s]].counter
<1>1. counter[s] \in 1..Len(totals)
  BY DEF PipeInv, TaskInv
<1>2. totals \in Seq(Nat)
  BY DEF SlotInv, SlotType
<1>3. ConnectionOf[s] \in Connections
  BY SubsAssumption
<1>4. s \in Live(ConnectionOf[s])
  BY DEF Live
<1> QED BY <1>1, <1>2, <1>3, <1>4 DEF SlotInv, EntryInv

\* The messages of a connection that no step touches.
LEMMA BufferKept ==
    ASSUME SlotInv, PipeInv, TotalsGrow, NEW c \in Connections, buffer'[c] = buffer[c]
    PROVE  BufferInv(c)'
<1>1. BufferInv(c) /\ totals \in Seq(Nat) /\ totals' \in Seq(Nat)
  BY DEF PipeInv, SlotInv, SlotType, TotalsGrow
<1>2. ASSUME NEW i \in 1..Len(buffer[c]), buffer[c][i] # ForeignMessage
      PROVE  /\ buffer[c][i].counter \in 1..Len(totals')
             /\ buffer[c][i].count \in 1..totals'[buffer[c][i].counter]
  <2>1. PICK k \in 1..Len(totals) :
           buffer[c][i].counter = k /\ buffer[c][i].count \in 1..totals[k]
    BY <1>1, <1>2 DEF BufferInv
  <2>2. /\ k \in 1..Len(totals') /\ totals[k] <= totals'[k]
        /\ totals[k] \in Nat /\ totals'[k] \in Nat
    BY <1>1 DEF TotalsGrow
  <2> QED BY <2>1, <2>2
<1> QED BY <1>1, <1>2 DEF BufferInv

\* A task whose own state no step touches: others may count, queue, end and start.
LEMMA TaskAlone ==
    ASSUME SlotInv, PipeInv, TotalsGrow, NEW t \in Subs, SameTask(t),
           t \in closed' => t \in closed \/ pc[t] \notin {"none", "accept"}
    PROVE  /\ TaskInv(t)' /\ SkipInv(t)'
           /\ pc[t] \in Sending => mine[t] \in 1..totals'[counter[t]]
<1> USE DEF SameTask
<1>1. TaskInv(t) /\ SendingInv(t) /\ SkipInv(t)
  BY DEF PipeInv
<1>2. previous[t] \in Nat /\ measured[t] \in Nat /\ mine[t] \in Nat
  BY DEF PipeInv, PipeType
<1>3. CASE pc[t] = "none"
  BY <1>1, <1>3 DEF TaskInv, SkipInv, Sending
<1>4. CASE pc[t] # "none"
  <2>1. counter[t] \in 1..Len(totals) /\ totals[counter[t]] \in Nat
    BY <1>4, TotalOfTask
  <2>2. /\ counter[t] \in 1..Len(totals') /\ totals'[counter[t]] \in Nat
        /\ totals[counter[t]] <= totals'[counter[t]]
    BY <2>1 DEF TotalsGrow, SlotInv, SlotType
  <2>3. TaskInv(t)'
    BY <1>1, <1>2, <1>4, <2>1, <2>2 DEF TaskInv
  <2>4. pc[t] \in Sending => mine[t] \in 1..totals'[counter[t]]
    BY <1>1, <1>2, <2>1, <2>2 DEF SendingInv
  <2>5. HasLeft(t) => HasLeft(t)'
    BY <1>2, <2>1, <2>2 DEF HasLeft, SaturatingSub
  <2>6. SkipInv(t)'
    BY <1>1, <2>5 DEF SkipInv, HeldBack
  <2> QED BY <2>3, <2>4, <2>6
<1> QED BY <1>3, <1>4

\* The same, when its connection's buffer is not touched either.
LEMMA TaskKept ==
    ASSUME SlotInv, PipeInv, TotalsGrow, NEW t \in Subs, SameTask(t),
           t \in closed' => t \in closed \/ pc[t] \notin {"none", "accept"},
           buffer'[ConnectionOf[t]] = buffer[ConnectionOf[t]]
    PROVE  TaskInv(t)' /\ SendingInv(t)' /\ PreviousInv(t)' /\ SkipInv(t)'
<1>1. /\ TaskInv(t)' /\ SkipInv(t)'
      /\ pc[t] \in Sending => mine[t] \in 1..totals'[counter[t]]
  BY TaskAlone
<1>2. SendingInv(t) /\ PreviousInv(t)
  BY DEF PipeInv
<1>3. SendingInv(t)' /\ PreviousInv(t)'
  BY <1>1, <1>2 DEF SendingInv, PreviousInv, SameTask
<1> QED BY <1>1, <1>3

\* A step of one task that leaves the buffers alone.
LEMMA OwnStep ==
    ASSUME SlotInv, PipeInv, PipeType', TotalsGrow, NEW s \in Subs,
           buffer' = buffer, closed' \subseteq Subs,
           \A t \in Subs : t # s => SameTask(t) /\ (t \in closed' => t \in closed),
           TaskInv(s)', SendingInv(s)', PreviousInv(s)', SkipInv(s)',
           pc'[s] \in Sending =>
               \A t \in Subs : t # s /\ ConnectionOf[t] = ConnectionOf[s]
                   /\ pc[t] \in Sending => mine[t] # mine'[s]
    PROVE  PipeInv'
<1>1. \A c \in Connections : BufferInv(c)'
  BY BufferKept
<1>2. \A t \in Subs : TaskInv(t)' /\ SendingInv(t)' /\ PreviousInv(t)' /\ SkipInv(t)'
  <2>1. ASSUME NEW t \in Subs, t # s
        PROVE  TaskInv(t)' /\ SendingInv(t)' /\ PreviousInv(t)' /\ SkipInv(t)'
    BY <2>1, TaskKept
  <2> QED BY <2>1
<1>3. CountsApart'
  <2>1. ASSUME NEW t \in Subs, NEW u \in Subs, t # u,
               ConnectionOf[t] = ConnectionOf[u],
               pc'[t] \in Sending, pc'[u] \in Sending
        PROVE  mine'[t] # mine'[u]
    <3>1. CASE t = s
      BY <2>1, <3>1 DEF SameTask
    <3>2. CASE u = s
      BY <2>1, <3>2 DEF SameTask
    <3>3. CASE t # s /\ u # s
      BY <2>1, <3>3 DEF SameTask, PipeInv, CountsApart
    <3> QED BY <3>1, <3>2, <3>3
  <2> QED BY <2>1 DEF CountsApart
<1> QED BY <1>1, <1>2, <1>3 DEF PipeInv

\* Totals that no step touches.
LEMMA TotalsSame ==
    ASSUME SlotInv, totals' = totals
    PROVE  TotalsGrow
<1>1. totals \in Seq(Nat)
  BY DEF SlotInv, SlotType
<1>2. \A k \in 1..Len(totals) : totals[k] \in Nat
  BY <1>1
<1> QED BY <1>1, <1>2 DEF TotalsGrow

\* A running task that moves on, within what it has counted and queued.
LEMMA OwnMove ==
    ASSUME SlotInv, PipeInv, NEW s \in Subs, pc[s] # "none",
           NEW label \in Labels \ {"none", "accept", "compare"}, Goto(s, label),
           UNCHANGED <<counter, mine, previous>>, PipeType',
           \A t \in Subs : t # s => measured'[t] = measured[t] /\ before'[t] = before[t],
           label \in Sending => pc[s] \in Sending,
           label = "measure" => KindOf[s] = "NewFlashblocks" /\ previous[s] # 0
    PROVE  PipeInv'
<1>1. /\ pc' = [pc EXCEPT ![s] = label] /\ totals' = totals /\ buffer' = buffer
      /\ closed' = closed
  BY DEF Goto, slotVars
<1>2. pc'[s] = label /\ \A t \in Subs : t # s => pc'[t] = pc[t]
  BY <1>1 DEF SlotInv, SlotType
<1>3. TaskInv(s) /\ SendingInv(s) /\ PreviousInv(s)
  BY DEF PipeInv
<1>4. TaskInv(s)'
  BY <1>1, <1>2, <1>3 DEF TaskInv
<1>5. SendingInv(s)' /\ PreviousInv(s)'
  BY <1>1, <1>2, <1>3 DEF SendingInv, PreviousInv
<1>6. SkipInv(s)'
  BY <1>2 DEF SkipInv
<1>7. \A t \in Subs : t # s => SameTask(t) /\ (t \in closed' => t \in closed)
  BY <1>1, <1>2 DEF SameTask
<1>8. pc'[s] \in Sending =>
         \A t \in Subs : t # s /\ ConnectionOf[t] = ConnectionOf[s]
             /\ pc[t] \in Sending => mine[t] # mine'[s]
  BY <1>2 DEF PipeInv, CountsApart
<1>9. closed' \subseteq Subs
  BY <1>1 DEF PipeInv
<1>10. TotalsGrow
  BY <1>1, TotalsSame
<1> QED BY <1>1, <1>4, <1>5, <1>6, <1>7, <1>8, <1>9, <1>10, OwnStep

\* ConnectionSlot::take.
LEMMA TakeKeepsPipes ==
    ASSUME SlotInv, PipeInv, SlotInv', NEW s \in Subs, Take(s)
    PROVE  PipeInv'
<1> DEFINE entry == OrDefault(ConnectionOf[s])
<1>1. /\ pc[s] = "none" /\ pc' = [pc EXCEPT ![s] = "accept"]
      /\ counter' = [counter EXCEPT ![s] = entry.counter]
      /\ totals' = IF entry.counter > Len(totals) THEN Append(totals, 0) ELSE totals
      /\ UNCHANGED <<buffer, gone, closed, mine, previous, skipping, measured, before,
                     foreign>>
  BY DEF Take
<1>2. /\ pc'[s] = "accept" /\ counter'[s] = entry.counter
      /\ \A t \in Subs : t # s => pc'[t] = pc[t] /\ counter'[t] = counter[t]
  BY <1>1 DEF SlotInv, SlotType
<1>3. entry.counter \in Nat
  BY <1>2 DEF SlotInv, SlotType
<1> HIDE DEF entry
<1>4. TotalsGrow
  <2>1. totals \in Seq(Nat)
    BY DEF SlotInv, SlotType
  <2>2. CASE totals' = totals
    BY <2>2, TotalsSame
  <2>3. CASE totals' = Append(totals, 0)
    <3>1. /\ Append(totals, 0) \in Seq(Nat) /\ Len(Append(totals, 0)) = Len(totals) + 1
          /\ Len(totals) \in Nat
          /\ \A k \in 1..Len(totals) : totals[k] \in Nat /\ Append(totals, 0)[k] = totals[k]
      BY <2>1
    <3> QED BY <2>3, <3>1 DEF TotalsGrow
  <2> QED BY <1>1, <2>2, <2>3
<1>5. counter'[s] \in 1..Len(totals')
  <2>1. /\ entry = IF held[ConnectionOf[s]] = NoEntry THEN NewEntry
                   ELSE held[ConnectionOf[s]]
        /\ ConnectionOf[s] \in Connections
    BY SubsAssumption DEF entry, OrDefault
  <2>2. totals \in Seq(Nat) /\ Len(totals) \in Nat
    BY DEF SlotInv, SlotType
  <2>3. CASE held[ConnectionOf[s]] = NoEntry
    <3>1. entry.counter = Len(totals) + 1
      BY <2>1, <2>3 DEF NewEntry, NoEntry
    <3>2. Len(totals') = Len(totals) + 1
      BY <1>1, <2>2, <3>1
    <3> QED BY <1>2, <2>2, <3>1, <3>2
  <2>4. CASE held[ConnectionOf[s]] # NoEntry
    <3>1. PICK t \in Live(ConnectionOf[s]) : counter[t] = entry.counter
      BY <2>1, <2>4 DEF SlotInv, EntryInv
    <3>2. t \in Subs /\ pc[t] # "none"
      BY <3>1 DEF Live
    <3>3. entry.counter \in 1..Len(totals)
      BY <3>1, <3>2, TotalOfTask
    <3> QED BY <1>2, <1>4, <2>2, <3>3 DEF TotalsGrow
  <2> QED BY <2>3, <2>4
<1>6. TaskInv(s) /\ s \in Subs
  BY DEF PipeInv
<1>7. TaskInv(s)' /\ SendingInv(s)' /\ PreviousInv(s)' /\ SkipInv(s)'
  BY <1>1, <1>2, <1>5, <1>6 DEF TaskInv, SendingInv, PreviousInv, SkipInv, Sending
<1>8. \A t \in Subs : t # s => SameTask(t) /\ (t \in closed' => t \in closed)
  BY <1>1, <1>2 DEF SameTask
<1>9. PipeType' /\ closed' \subseteq Subs
  BY <1>1 DEF PipeInv, PipeType
<1>10. pc'[s] \notin Sending
  BY <1>2 DEF Sending
<1> QED BY <1>1, <1>4, <1>7, <1>8, <1>9, <1>10, OwnStep

\* A subscription ends: nothing of its task is left.
LEMMA EndKeepsPipes ==
    ASSUME SlotInv, PipeInv, NEW s \in Subs, End(s)
    PROVE  PipeInv'
<1>1. /\ pc' = [pc EXCEPT ![s] = "none"] /\ counter' = [counter EXCEPT ![s] = 0]
      /\ previous' = [previous EXCEPT ![s] = 0] /\ mine' = [mine EXCEPT ![s] = 0]
      /\ skipping' = [skipping EXCEPT ![s] = FALSE]
      /\ measured' = [measured EXCEPT ![s] = 0] /\ before' = [before EXCEPT ![s] = {}]
      /\ closed' = closed \ {s}
      /\ UNCHANGED <<totals, buffer, gone, foreign>>
  BY DEF End
<1>2. pc'[s] = "none" /\ counter'[s] = 0 /\ previous'[s] = 0 /\ s \notin closed'
  BY <1>1 DEF SlotInv, SlotType, PipeInv, PipeType
<1>3. \A t \in Subs : t # s => SameTask(t) /\ (t \in closed' => t \in closed)
  BY <1>1 DEF SameTask, SlotInv, SlotType, PipeInv, PipeType
<1>4. TaskInv(s)' /\ SendingInv(s)' /\ PreviousInv(s)' /\ SkipInv(s)' /\ pc'[s] \notin Sending
  BY <1>2 DEF TaskInv, SendingInv, PreviousInv, SkipInv, Sending
<1>5. skipping' \in [Subs -> BOOLEAN]
  BY <1>1 DEF PipeInv, PipeType
<1>6. PipeType' /\ closed' \subseteq Subs
  BY <1>1, <1>5 DEF PipeInv, PipeType
<1>7. TotalsGrow
  BY <1>1, TotalsSame
<1> QED BY <1>1, <1>3, <1>4, <1>6, <1>7, OwnStep

\* send counts its message: the new count is ahead of every count queued or owned.
LEMMA CountKeepsPipes ==
    ASSUME SlotInv, PipeInv, NEW s \in Subs, Count(s)
    PROVE  PipeInv'
<1> DEFINE k == counter[s]
           c == ConnectionOf[s]
<1>1. /\ pc[s] = "count" /\ pc' = [pc EXCEPT ![s] = "send"]
      /\ totals' = [totals EXCEPT ![k] = @ + 1]
      /\ mine' = [mine EXCEPT ![s] = totals[k] + 1]
      /\ UNCHANGED <<held, buffer, gone, closed, counter, previous, skipping, measured,
                     before, foreign>>
  BY DEF Count
<1>2. /\ k \in 1..Len(totals) /\ totals[k] \in Nat /\ Len(totals) \in Nat
      /\ totals \in Seq(Nat) /\ c \in Connections /\ k = held[c].counter
  BY <1>1, TotalOfTask DEF SlotInv, SlotType
<1> HIDE DEF k, c
<1>3. /\ totals' \in Seq(Nat) /\ Len(totals') = Len(totals) /\ totals'[k] = totals[k] + 1
      /\ \A j \in 1..Len(totals) : j # k => totals'[j] = totals[j]
  <2>1. totals \in [1..Len(totals) -> Nat] /\ totals[k] + 1 \in Nat
    BY <1>2
  <2>2. totals' \in [1..Len(totals) -> Nat]
    BY <1>1, <2>1
  <2>3. \A n \in Nat : \A f \in [1..n -> Nat] : f \in Seq(Nat) /\ Len(f) = n
    OBVIOUS
  <2>4. totals' \in Seq(Nat) /\ Len(totals') = Len(totals)
    BY <1>2, <2>2, <2>3
  <2> QED BY <1>1, <1>2, <2>1, <2>4
<1>4. TotalsGrow
  <2>1. \A j \in 1..Len(totals) : totals[j] \in Nat
    BY <1>2
  <2>2. ASSUME NEW j \in 1..Len(totals) PROVE totals[j] <= totals'[j]
    <3>1. CASE j = k
      BY <1>2, <1>3, <3>1
    <3>2. CASE j # k
      <4>1. totals'[j] = totals[j]
        BY <1>3, <3>2
      <4> QED BY <2>1, <4>1
    <3> QED BY <3>1, <3>2
  <2> QED BY <1>2, <1>3, <2>2 DEF TotalsGrow
<1>5. pc'[s] = "send" /\ mine'[s] = totals[k] + 1
  BY <1>1 DEF SlotInv, SlotType, PipeInv, PipeType
<1>6. \A t \in Subs : t # s => SameTask(t) /\ (t \in closed' => t \in closed)
  BY <1>1 DEF SameTask, SlotInv, SlotType, PipeInv, PipeType
<1>7. TaskInv(s) /\ PreviousInv(s) /\ BufferInv(c)
  BY <1>2 DEF PipeInv
<1>8. TaskInv(s)'
  BY <1>1, <1>2, <1>3, <1>5, <1>7 DEF TaskInv, k, PipeInv, PipeType
<1>9. SendingInv(s)'
  <2>1. mine'[s] \in 1..totals'[counter'[s]]
    BY <1>1, <1>2, <1>3, <1>5 DEF k
  <2>2. ASSUME NEW i \in 1..Len(buffer[c]), buffer[c][i].counter = k
        PROVE  buffer[c][i].count # mine'[s]
    <3>1. buffer[c][i] # ForeignMessage
      BY <1>2, <2>2 DEF ForeignMessage
    <3>2. buffer[c][i].count \in 1..totals[k]
      BY <1>7, <2>2, <3>1 DEF BufferInv
    <3> QED BY <1>2, <1>5, <3>2
  <2> QED BY <1>1, <2>1, <2>2 DEF SendingInv, c, k
<1>10. PreviousInv(s)' /\ SkipInv(s)'
  BY <1>1, <1>5, <1>7 DEF PreviousInv, SkipInv
<1>11. \A t \in Subs : t # s /\ ConnectionOf[t] = ConnectionOf[s] /\ pc[t] \in Sending =>
          mine[t] # mine'[s]
  <2>1. ASSUME NEW t \in Subs, ConnectionOf[t] = c, pc[t] \in Sending
        PROVE  mine[t] # mine'[s]
    <3>1. counter[t] = k
      BY <1>2, <2>1, TotalOfTask DEF Sending
    <3>2. mine[t] \in 1..totals[k]
      BY <2>1, <3>1 DEF PipeInv, SendingInv
    <3> QED BY <1>2, <1>5, <3>2
  <2> QED BY <2>1 DEF c
<1>12. PipeType' /\ closed' \subseteq Subs
  <2>1. mine \in [Subs -> Nat]
    BY DEF PipeInv, PipeType
  <2>2. totals[k] + 1 \in Nat
    BY <1>2
  <2>3. mine' \in [Subs -> Nat]
    BY <1>1, <2>1, <2>2
  <2> QED BY <1>1, <2>3 DEF PipeInv, PipeType
<1> QED BY <1>1, <1>4, <1>6, <1>8, <1>9, <1>10, <1>11, <1>12, OwnStep

\* A buffer that holds nothing but messages counted after the previous one is no
\* longer than the counter has moved since: no two of them have the same count.
LEMMA NothingOlderQueued ==
    ASSUME SlotInv, PipeInv, NEW s \in Subs, pc[s] = "measure",
           Queued(s) > SaturatingSub(totals[counter[s]], previous[s])
    PROVE  \E i \in 1..Queued(s) :
               \/ buffer[ConnectionOf[s]][i] = ForeignMessage
               \/ /\ buffer[ConnectionOf[s]][i].counter = counter[s]
                  /\ buffer[ConnectionOf[s]][i].count <= previous[s]
<1> DEFINE c == ConnectionOf[s]
           b == buffer[c]
           k == counter[s]
           p == previous[s]
           counts == [i \in 1..Len(b) |-> b[i].count]
<1>1. SUFFICES ASSUME \A i \in 1..Len(b) :
                         /\ b[i] # ForeignMessage
                         /\ b[i].counter = k => ~(b[i].count <= p)
               PROVE  FALSE
  BY DEF Queued
<1>2. /\ c \in Connections /\ k \in 1..Len(totals) /\ totals[k] \in Nat /\ p \in Nat
      /\ p # 0 /\ p <= totals[k]
  BY TotalOfTask DEF PipeInv, PipeType, TaskInv
<1>3. b \in Seq(AnyMessage) /\ Len(b) \in Nat
  BY <1>2 DEF PipeInv, PipeType
<1>4. BufferInv(c) /\ PreviousInv(s)
  BY <1>2 DEF PipeInv
<1>5. ASSUME NEW i \in 1..Len(b)
      PROVE  b[i].counter = k
  <2>1. SUFFICES ASSUME b[i].counter # k
                 PROVE  FALSE
    OBVIOUS
  <2>2. PICK j \in 1..Len(b) : b[j].counter = k /\ b[j].count = p
    BY <1>1, <1>2, <1>4, <2>1 DEF PreviousInv
  <2> QED BY <1>1, <1>2, <2>2
<1>6. ASSUME NEW i \in 1..Len(b)
      PROVE  b[i].count \in (p + 1)..totals[k]
  <2>1. b[i].count \in 1..totals[k]
    BY <1>1, <1>4, <1>5 DEF BufferInv
  <2>2. ~(b[i].count <= p)
    BY <1>1, <1>5
  <2>3. \A n, q \in Nat : \A x \in 1..n : ~(x <= q) => x \in (q + 1)..n
    OBVIOUS
  <2> HIDE DEF b, k, p
  <2> QED BY <1>2, <2>1, <2>2, <2>3
<1>7. Len(b) > totals[k] - p
  BY <1>2, <1>3 DEF Queued, SaturatingSub
<1> HIDE DEF b, k, p, c
<1>8. counts \in [1..Len(b) -> (p + 1)..totals[k]]
  BY <1>6
<1>9. /\ IsFiniteSet(1..Len(b)) /\ Cardinality(1..Len(b)) = Len(b)
      /\ IsFiniteSet((p + 1)..totals[k])
      /\ Cardinality((p + 1)..totals[k]) = totals[k] - p
  <2>1. 1 \in Int /\ Len(b) \in Int /\ p + 1 \in Int /\ totals[k] \in Int
    BY <1>2, <1>3
  <2>2. /\ IsFiniteSet(1..Len(b))
        /\ Cardinality(1..Len(b)) = IF 1 > Len(b) THEN 0 ELSE Len(b) - 1 + 1
    BY <2>1, FS_Interval
  <2>3. /\ IsFiniteSet((p + 1)..totals[k])
        /\ Cardinality((p + 1)..totals[k]) =
              IF p + 1 > totals[k] THEN 0 ELSE totals[k] - (p + 1) + 1
    BY <2>1, FS_Interval
  <2> QED BY <1>2, <1>3, <2>2, <2>3
<1>10. PICK i \in 1..Len(b), j \in 1..Len(b) : i # j /\ counts[i] = counts[j]
  <2>1. Cardinality((p + 1)..totals[k]) < Cardinality(1..Len(b))
    BY <1>2, <1>3, <1>7, <1>9
  <2> HIDE DEF counts
  <2> QED BY <1>8, <1>9, <2>1, FS_PigeonHole
<1>11. b[i].count = b[j].count
  BY <1>10
<1> QED BY <1>1, <1>4, <1>5, <1>10, <1>11 DEF BufferInv, b

\* pipe_latest reads the length of the buffer.
LEMMA MeasureKeepsPipes ==
    ASSUME SlotInv, PipeInv, NEW s \in Subs, Measure(s)
    PROVE  PipeInv'
<1> DEFINE c == ConnectionOf[s]
<1>1. /\ pc[s] = "measure" /\ pc' = [pc EXCEPT ![s] = "compare"]
      /\ measured' = [measured EXCEPT ![s] = Queued(s)]
      /\ before' = [before EXCEPT ![s] = Range(buffer[c])]
      /\ UNCHANGED <<held, totals, buffer, gone, closed, foreign, counter, mine, previous,
                     skipping>>
  BY DEF Measure, Goto, slotVars
<1>2. c \in Connections /\ buffer[c] \in Seq(AnyMessage)
  BY SubsAssumption DEF PipeInv, PipeType
<1>3. /\ DOMAIN buffer[c] = 1..Len(buffer[c]) /\ Len(buffer[c]) \in Nat
      /\ \A i \in 1..Len(buffer[c]) : buffer[c][i] \in AnyMessage
  BY <1>2
<1>4. /\ Range(buffer[c]) \subseteq AnyMessage
      /\ \A i \in 1..Len(buffer[c]) : buffer[c][i] \in Range(buffer[c])
  BY <1>3 DEF Range
<1>5. Queued(s) \in Nat
  BY <1>3 DEF Queued
<1>6. PipeType' /\ closed' \subseteq Subs
  BY <1>1, <1>4, <1>5 DEF PipeInv, PipeType
<1>7. pc'[s] = "compare" /\ measured'[s] = Queued(s) /\ before'[s] = Range(buffer[c])
  BY <1>1 DEF SlotInv, SlotType, PipeInv, PipeType
<1>8. \A t \in Subs : t # s => SameTask(t) /\ (t \in closed' => t \in closed)
  BY <1>1 DEF SameTask, SlotInv, SlotType, PipeInv, PipeType
<1>9. TaskInv(s) /\ PreviousInv(s)
  BY DEF PipeInv
<1>10. TaskInv(s)' /\ SendingInv(s)' /\ PreviousInv(s)' /\ pc'[s] \notin Sending
  BY <1>1, <1>7, <1>9 DEF TaskInv, SendingInv, PreviousInv, Sending
<1>11. SkipInv(s)'
  <2>1. SUFFICES ASSUME ~HasLeft(s)'
                 PROVE  HeldBack(s)'
    BY DEF SkipInv
  <2>2. totals[counter[s]] \in Nat /\ previous[s] \in Nat
    BY <1>1, TotalOfTask DEF PipeInv, PipeType
  <2>3. SaturatingSub(totals[counter[s]], previous[s]) \in Nat
    BY <2>2 DEF SaturatingSub
  <2>4. ~(measured'[s] <= SaturatingSub(totals[counter[s]], previous[s]))
    BY <1>1, <2>1 DEF HasLeft
  <2>5. Queued(s) > SaturatingSub(totals[counter[s]], previous[s])
    BY <1>5, <1>7, <2>3, <2>4
  <2>6. PICK i \in 1..Queued(s) :
           \/ buffer[c][i] = ForeignMessage
           \/ buffer[c][i].counter = counter[s] /\ buffer[c][i].count <= previous[s]
    BY <1>1, <2>5, NothingOlderQueued
  <2>7. buffer[c][i] \in before'[s]
    BY <1>4, <1>7 DEF Queued
  <2> QED BY <1>1, <2>6, <2>7 DEF HeldBack
<1>12. TotalsGrow
  BY <1>1, TotalsSame
<1> QED BY <1>1, <1>6, <1>8, <1>10, <1>11, <1>12, OwnStep

\* The steps of a task that neither count, measure nor queue.
LEMMA MoveKeepsPipes ==
    ASSUME SlotInv, PipeInv, NEW s \in Subs,
           \/ NextItem(s)
           \/ Accept(s)
           \/ HasRoom(s)
           \/ Send(s) /\ Goto(s, "full") /\ UNCHANGED pipeVars
           \/ Compare(s)
           \/ pc[s] # "none" /\ End(s)
    PROVE  PipeInv'
<1> USE DEF slotVars, pipeVars
<1>1. ASSUME NEW label \in {"next", "room", "count", "measure", "full"}, Goto(s, label),
             pc[s] # "none", UNCHANGED pipeVars,
             label = "full" => pc[s] = "send",
             label = "measure" => KindOf[s] = "NewFlashblocks" /\ previous[s] # 0
      PROVE  PipeInv'
  <2>1. PipeType'
    BY <1>1 DEF Goto, PipeInv, PipeType
  <2> QED BY <1>1, <2>1, OwnMove DEF Labels, Sending
<1>2. CASE NextItem(s)
  BY <1>1, <1>2 DEF NextItem
<1>3. CASE Accept(s)
  BY <1>1, <1>3, EndKeepsPipes DEF Accept, Goto
<1>4. CASE HasRoom(s)
  BY <1>1, <1>4 DEF HasRoom
<1>5. CASE Send(s) /\ Goto(s, "full") /\ UNCHANGED pipeVars
  BY <1>1, <1>5 DEF Send
<1>6. CASE Compare(s)
  <2>1. ASSUME NEW label \in {"count", "next"}, NEW skips \in BOOLEAN,
               Goto(s, label), pc[s] = "compare",
               skipping' = [skipping EXCEPT ![s] = skips],
               measured' = [measured EXCEPT ![s] = 0], before' = [before EXCEPT ![s] = {}],
               UNCHANGED <<counter, mine, previous>>
        PROVE  PipeInv'
    <3>1. skipping' \in [Subs -> BOOLEAN]
      BY <2>1 DEF PipeInv, PipeType
    <3>2. PipeType'
      BY <2>1, <3>1 DEF Goto, PipeInv, PipeType
    <3>3. \A t \in Subs : t # s => measured'[t] = measured[t] /\ before'[t] = before[t]
      BY <2>1 DEF PipeInv, PipeType
    <3> QED BY <2>1, <3>2, <3>3, OwnMove DEF Labels, Sending
  <2>2. CASE End(s)
    BY <2>2, EndKeepsPipes
  <2> QED BY <1>6, <2>1, <2>2 DEF Compare
<1>7. CASE pc[s] # "none" /\ End(s)
  BY <1>7, EndKeepsPipes
<1> QED BY <1>2, <1>3, <1>4, <1>5, <1>6, <1>7

-----------------------------------------------------------------------------
\* The entries of a sequence after Append.
LEMMA AppendEntries ==
    ASSUME NEW S, NEW q \in Seq(S), NEW e \in S
    PROVE  /\ Append(q, e) \in Seq(S)
           /\ Len(Append(q, e)) = Len(q) + 1 /\ Len(q) \in Nat
           /\ \A i \in 1..Len(q) : Append(q, e)[i] = q[i] /\ i \in 1..(Len(q) + 1)
           /\ \A i \in 1..(Len(q) + 1) : i \in 1..Len(q) \/ i = Len(q) + 1
           /\ Append(q, e)[Len(q) + 1] = e
OBVIOUS

\* What taking the oldest message leaves.
LEMMA TailEntries ==
    ASSUME NEW S, NEW q \in Seq(S), q # <<>>
    PROVE  /\ Tail(q) \in Seq(S)
           /\ Len(q) \in Nat \ {0}
           /\ Len(Tail(q)) = Len(q) - 1
           /\ \A i \in 1..Len(Tail(q)) : Tail(q)[i] = q[i + 1]
OBVIOUS

\* A counted message is not one of reth's own.
LEMMA CountedIsNotForeign ==
    ASSUME NEW m, m.counter \in Nat \ {0}
    PROVE  m # ForeignMessage
BY DEF ForeignMessage

\* The message joins the buffer.
LEMMA EnqueueKeepsPipes ==
    ASSUME SlotInv, PipeInv, NEW s \in Subs, pc[s] \in Sending, Queue(s)
    PROVE  PipeInv'
<1> DEFINE c == ConnectionOf[s]
           k == counter[s]
           b == buffer[c]
           m == [sub |-> s, counter |-> k, count |-> mine[s]]
           last == IF KindOf[s] = "NewFlashblocks" THEN mine[s] ELSE 0
<1>1. /\ buffer' = [buffer EXCEPT ![c] = Append(b, m)]
      /\ previous' = [previous EXCEPT ![s] = last]
      /\ mine' = [mine EXCEPT ![s] = 0] /\ pc' = [pc EXCEPT ![s] = "next"]
      /\ Len(b) < Capacity
      /\ UNCHANGED <<held, totals, gone, closed, counter, skipping, measured, before,
                     foreign>>
  BY DEF Queue, Enqueue, Message, Queued, slotVars
<1>2. /\ c \in Connections /\ k \in 1..Len(totals) /\ totals[k] \in Nat
      /\ k = held[c].counter /\ Len(totals) \in Nat /\ totals \in Seq(Nat)
  BY TotalOfTask DEF Sending, SlotInv, SlotType
<1>3. SendingInv(s) /\ TaskInv(s) /\ BufferInv(c)
  BY <1>2 DEF PipeInv
<1>4. /\ mine[s] \in 1..totals[k]
      /\ \A i \in 1..Len(b) : b[i].counter = k => b[i].count # mine[s]
  BY <1>3 DEF SendingInv
<1>5. m \in Messages /\ m.counter = k /\ m.count = mine[s] /\ m # ForeignMessage
  BY <1>2, <1>4, CountedIsNotForeign DEF Messages
<1>6. b \in Seq(AnyMessage) /\ m \in AnyMessage
  BY <1>2, <1>5 DEF PipeInv, PipeType, AnyMessage
<1> HIDE DEF m
<1>7. /\ buffer'[c] = Append(b, m)
      /\ \A d \in Connections : d # c => buffer'[d] = buffer[d]
  BY <1>1, <1>2 DEF PipeInv, PipeType
<1>8. /\ buffer'[c] \in Seq(AnyMessage)
      /\ Len(buffer'[c]) = Len(b) + 1 /\ Len(b) \in Nat
      /\ \A i \in 1..Len(b) : buffer'[c][i] = b[i] /\ i \in 1..Len(buffer'[c])
      /\ \A i \in 1..Len(buffer'[c]) : i \in 1..Len(b) \/ i = Len(b) + 1
      /\ buffer'[c][Len(b) + 1] = m /\ Len(b) + 1 \in 1..Len(buffer'[c])
  BY <1>6, <1>7, AppendEntries
<1>9. /\ pc'[s] = "next" /\ previous'[s] = last /\ mine'[s] = 0
      /\ \A t \in Subs : t # s => SameTask(t)
  BY <1>1 DEF SlotInv, SlotType, PipeInv, PipeType, SameTask
<1>10. TotalsGrow
  BY <1>1, TotalsSame
<1> HIDE DEF b, c, k, last
<1>11. PipeType' /\ closed' \subseteq Subs
  <2>1. last \in Nat /\ mine[s] \in Nat
    BY <1>2, <1>4 DEF last
  <2>2. buffer' \in [Connections -> Seq(AnyMessage)]
    BY <1>1, <1>2, <1>7, <1>8 DEF PipeInv, PipeType
  <2> QED BY <1>1, <2>1, <2>2 DEF PipeInv, PipeType
<1>12. BufferInv(c)'
  <2>1. /\ \A i \in 1..Len(b) : b[i] # ForeignMessage =>
              /\ b[i].counter \in 1..Len(totals)
              /\ b[i].count \in 1..totals[b[i].counter]
        /\ \A i, j \in 1..Len(b) :
              i # j /\ b[i] # ForeignMessage /\ b[j] # ForeignMessage
                 /\ b[i].counter = b[j].counter => b[i].count # b[j].count
    BY <1>3 DEF BufferInv, b
  <2>2. Len(buffer'[c]) <= Capacity
    BY <1>1, <1>8, LimitsAssumption
  <2>3. \A i \in 1..Len(buffer'[c]) : buffer'[c][i] # ForeignMessage =>
           /\ buffer'[c][i].counter \in 1..Len(totals)
           /\ buffer'[c][i].count \in 1..totals[buffer'[c][i].counter]
    BY <1>2, <1>4, <1>5, <1>8, <2>1
  <2>4. ASSUME NEW i \in 1..Len(buffer'[c]), NEW j \in 1..Len(buffer'[c]), i # j,
               buffer'[c][i] # ForeignMessage, buffer'[c][j] # ForeignMessage,
               buffer'[c][i].counter = buffer'[c][j].counter
        PROVE  buffer'[c][i].count # buffer'[c][j].count
    <3>1. CASE i \in 1..Len(b) /\ j \in 1..Len(b)
      BY <1>8, <2>1, <2>4, <3>1
    <3>2. CASE i = Len(b) + 1
      BY <1>4, <1>5, <1>8, <2>4, <3>2
    <3>3. CASE j = Len(b) + 1
      BY <1>4, <1>5, <1>8, <2>4, <3>3
    <3> QED BY <1>8, <3>1, <3>2, <3>3
  <2> QED BY <1>1, <2>2, <2>3, <2>4 DEF BufferInv
<1>13. \A d \in Connections : BufferInv(d)'
  BY <1>7, <1>10, <1>12, BufferKept
<1>14. ASSUME NEW t \in Subs, t # s, ConnectionOf[t] = c
       PROVE  TaskInv(t)' /\ SendingInv(t)' /\ PreviousInv(t)' /\ SkipInv(t)'
  <2>1. /\ TaskInv(t)' /\ SkipInv(t)'
        /\ pc[t] \in Sending => mine[t] \in 1..totals'[counter[t]]
    BY <1>1, <1>9, <1>10, <1>14, TaskAlone
  <2>2. SendingInv(t) /\ PreviousInv(t) /\ TaskInv(t)
    BY DEF PipeInv
  <2>3. pc[t] # "none" => counter[t] = k
    BY <1>2, <1>14, TotalOfTask DEF c
  <2>4. SendingInv(t)'
    <3>1. SUFFICES ASSUME pc[t] \in Sending
                   PROVE  \A i \in 1..Len(buffer'[c]) :
                             buffer'[c][i].counter = counter[t] =>
                                 buffer'[c][i].count # mine[t]
      BY <1>9, <1>14, <2>1 DEF SendingInv, SameTask
    <3>2. mine[t] # mine[s]
      BY <1>14, <3>1 DEF PipeInv, CountsApart, c
    <3>3. \A i \in 1..Len(b) : b[i].counter = counter[t] => b[i].count # mine[t]
      BY <1>14, <2>2, <3>1 DEF SendingInv, b
    <3> QED BY <1>5, <1>8, <3>2, <3>3
  <2>5. PreviousInv(t)'
    <3>1. SUFFICES ASSUME previous[t] # 0, NEW i \in 1..Len(buffer'[c]),
                          buffer'[c][i] # ForeignMessage, buffer'[c][i].counter # counter[t]
                   PROVE  \E j \in 1..Len(buffer'[c]) :
                             /\ i < j /\ buffer'[c][j].counter = counter[t]
                             /\ buffer'[c][j].count = previous[t]
      BY <1>9, <1>14 DEF PreviousInv, SameTask
    <3>2. counter[t] = k
      BY <2>2, <2>3, <3>1 DEF TaskInv
    <3>3. i \in 1..Len(b) /\ b[i] # ForeignMessage /\ b[i].counter # counter[t]
      BY <1>5, <1>8, <3>1, <3>2
    <3>4. PICK j \in 1..Len(b) : /\ i < j /\ b[j].counter = counter[t]
                                 /\ b[j].count = previous[t]
      BY <1>14, <2>2, <3>1, <3>3 DEF PreviousInv, b
    <3> QED BY <1>8, <3>4
  <2> QED BY <2>1, <2>4, <2>5
<1>15. ASSUME NEW t \in Subs, t # s, ConnectionOf[t] # c
       PROVE  TaskInv(t)' /\ SendingInv(t)' /\ PreviousInv(t)' /\ SkipInv(t)'
  <2>1. buffer'[ConnectionOf[t]] = buffer[ConnectionOf[t]]
    BY <1>7, <1>15, SubsAssumption
  <2> QED BY <1>1, <1>9, <1>10, <1>15, <2>1, TaskKept
<1>16. TaskInv(s)' /\ SendingInv(s)' /\ SkipInv(s)'
  <2>1. last # 0 => last <= totals[k]
    BY <1>2, <1>4 DEF last
  <2> QED BY <1>1, <1>2, <1>3, <1>9, <2>1
          DEF TaskInv, SendingInv, SkipInv, Sending, k
<1>17. PreviousInv(s)'
  <2>1. last # 0 => last = mine[s]
    BY DEF last
  <2>2. \A i \in 1..Len(b) : i < Len(b) + 1
    BY <1>8
  <2>3. \A i \in 1..Len(buffer'[c]) : buffer'[c][i].counter # k => i < Len(b) + 1
    BY <1>5, <1>8, <2>2
  <2>4. counter'[s] = k
    BY <1>1 DEF k
  <2> QED BY <1>5, <1>8, <1>9, <2>1, <2>3, <2>4 DEF PreviousInv, c
<1>18. CountsApart'
  BY <1>9 DEF PipeInv, CountsApart, SameTask, Sending
<1> QED BY <1>11, <1>13, <1>14, <1>15, <1>16, <1>17, <1>18 DEF PipeInv

\* A step that changes one connection's buffer and no task.
LEMMA BufferStep ==
    ASSUME SlotInv, PipeInv, PipeType', totals' = totals, closed' \subseteq Subs,
           NEW c \in Connections,
           \A d \in Connections : d # c => buffer'[d] = buffer[d],
           \A t \in Subs :
               /\ SameTask(t)
               /\ t \in closed' => t \in closed \/ pc[t] \notin {"none", "accept"},
           BufferInv(c)',
           \A t \in Subs : ConnectionOf[t] = c =>
               /\ PreviousInv(t)'
               /\ pc[t] \in Sending =>
                     \A i \in 1..Len(buffer'[c]) : buffer'[c][i].counter = counter[t] =>
                         buffer'[c][i].count # mine[t]
    PROVE  PipeInv'
<1>1. TotalsGrow
  BY TotalsSame
<1>2. \A d \in Connections : BufferInv(d)'
  BY <1>1, BufferKept
<1>3. ASSUME NEW t \in Subs
      PROVE  TaskInv(t)' /\ SendingInv(t)' /\ PreviousInv(t)' /\ SkipInv(t)'
  <2>1. CASE ConnectionOf[t] = c
    <3>1. /\ TaskInv(t)' /\ SkipInv(t)'
          /\ pc[t] \in Sending => mine[t] \in 1..totals'[counter[t]]
      BY <1>1, TaskAlone
    <3>2. SendingInv(t)'
      BY <2>1, <3>1 DEF SendingInv, SameTask
    <3> QED BY <2>1, <3>1, <3>2
  <2>2. CASE ConnectionOf[t] # c
    <3>1. buffer'[ConnectionOf[t]] = buffer[ConnectionOf[t]]
      BY <2>2, SubsAssumption
    <3> QED BY <1>1, <3>1, TaskKept
  <2> QED BY <2>1, <2>2
<1>4. CountsApart'
  BY DEF PipeInv, CountsApart, SameTask
<1> QED BY <1>2, <1>3, <1>4 DEF PipeInv

\* The server writes the oldest message to the client.
LEMMA WriteKeepsPipes ==
    ASSUME SlotInv, PipeInv, NEW c \in Connections, WriteNext(c)
    PROVE  PipeInv'
<1> DEFINE b == buffer[c]
<1>1. /\ b # <<>> /\ buffer' = [buffer EXCEPT ![c] = Tail(b)]
      /\ UNCHANGED <<held, totals, gone, closed, pc, counter, mine, previous, skipping,
                     measured, before, foreign>>
  BY DEF WriteNext, slotVars, pipeVars
<1>2. b \in Seq(AnyMessage)
  BY DEF PipeInv, PipeType
<1>3. /\ buffer'[c] = Tail(b)
      /\ \A d \in Connections : d # c => buffer'[d] = buffer[d]
  BY <1>1 DEF PipeInv, PipeType
<1> HIDE DEF b
<1>4. /\ buffer'[c] \in Seq(AnyMessage) /\ Len(b) \in Nat
      /\ Len(buffer'[c]) = Len(b) - 1 /\ Len(buffer'[c]) \in Nat
      /\ \A i \in 1..Len(buffer'[c]) : i + 1 \in 1..Len(b) /\ buffer'[c][i] = b[i + 1]
  <2>1. b # <<>>
    BY <1>1
  <2>2. /\ Tail(b) \in Seq(AnyMessage) /\ Len(b) \in Nat \ {0}
        /\ Len(Tail(b)) = Len(b) - 1
        /\ \A i \in 1..Len(Tail(b)) : Tail(b)[i] = b[i + 1]
    BY <1>2, <2>1, TailEntries, Zenon
  <2>3. buffer'[c] = Tail(b)
    BY <1>3
  <2>4. \A n \in Nat \ {0} : n - 1 \in Nat /\ \A i \in 1..(n - 1) : i + 1 \in 1..n
    OBVIOUS
  <2> QED BY <2>2, <2>3, <2>4
<1>5. PipeType' /\ closed' \subseteq Subs
  BY <1>1, <1>3, <1>4 DEF PipeInv, PipeType
<1>6. BufferInv(c) /\ \A t \in Subs : SendingInv(t) /\ PreviousInv(t)
  BY DEF PipeInv
<1>7. BufferInv(c)'
  <2>1. /\ \A i \in 1..Len(b) : b[i] # ForeignMessage =>
              /\ b[i].counter \in 1..Len(totals)
              /\ b[i].count \in 1..totals[b[i].counter]
        /\ \A i, j \in 1..Len(b) :
              i # j /\ b[i] # ForeignMessage /\ b[j] # ForeignMessage
                 /\ b[i].counter = b[j].counter => b[i].count # b[j].count
        /\ Len(b) <= Capacity
    BY <1>6 DEF BufferInv, b
  <2>2. Len(buffer'[c]) <= Capacity
    BY <1>4, <2>1, LimitsAssumption
  <2>3. ASSUME NEW i \in 1..Len(buffer'[c]), buffer'[c][i] # ForeignMessage
        PROVE  /\ buffer'[c][i].counter \in 1..Len(totals)
               /\ buffer'[c][i].count \in 1..totals[buffer'[c][i].counter]
    BY <1>4, <2>1, <2>3
  <2>4. ASSUME NEW i \in 1..Len(buffer'[c]), NEW j \in 1..Len(buffer'[c]), i # j,
               buffer'[c][i] # ForeignMessage, buffer'[c][j] # ForeignMessage,
               buffer'[c][i].counter = buffer'[c][j].counter
        PROVE  buffer'[c][i].count # buffer'[c][j].count
    <3>1. i + 1 # j + 1
      BY <2>4
    <3>2. /\ i + 1 \in 1..Len(b) /\ buffer'[c][i] = b[i + 1]
          /\ j + 1 \in 1..Len(b) /\ buffer'[c][j] = b[j + 1]
      BY <1>4
    <3> QED BY <2>1, <2>4, <3>1, <3>2
  <2> UNCHANGED totals
    BY <1>1
  <2> QED BY <2>2, <2>3, <2>4 DEF BufferInv
<1>8. ASSUME NEW t \in Subs, ConnectionOf[t] = c
      PROVE  /\ PreviousInv(t)'
             /\ pc[t] \in Sending =>
                   \A i \in 1..Len(buffer'[c]) : buffer'[c][i].counter = counter[t] =>
                       buffer'[c][i].count # mine[t]
  <2>1. pc[t] \in Sending =>
           \A i \in 1..Len(buffer'[c]) : buffer'[c][i].counter = counter[t] =>
               buffer'[c][i].count # mine[t]
    BY <1>4, <1>6, <1>8 DEF SendingInv, b
  <2>2. PreviousInv(t)'
    <3> UNCHANGED <<previous, counter>>
      BY <1>1
    <3>1. SUFFICES ASSUME previous[t] # 0, NEW i \in 1..Len(buffer'[c]),
                          buffer'[c][i] # ForeignMessage, buffer'[c][i].counter # counter[t]
                   PROVE  \E j \in 1..Len(buffer'[c]) :
                             /\ i < j /\ buffer'[c][j].counter = counter[t]
                             /\ buffer'[c][j].count = previous[t]
      BY <1>8 DEF PreviousInv
    <3>2. PICK j \in 1..Len(b) : /\ i + 1 < j /\ b[j].counter = counter[t]
                                 /\ b[j].count = previous[t]
      BY <1>4, <1>6, <1>8, <3>1 DEF PreviousInv, b
    <3>3. j - 1 \in 1..Len(buffer'[c]) /\ i < j - 1 /\ buffer'[c][j - 1] = b[j]
      BY <1>4, <3>2
    <3> QED BY <3>2, <3>3
  <2> QED BY <2>1, <2>2
<1> QED BY <1>1, <1>3, <1>5, <1>7, <1>8, BufferStep DEF SameTask

\* The client closes the connection.
LEMMA DisconnectKeepsPipes ==
    ASSUME SlotInv, PipeInv, NEW c \in Connections, Disconnect(c)
    PROVE  PipeInv'
<1>1. /\ buffer' = [buffer EXCEPT ![c] = <<>>] /\ gone' = gone \cup {c}
      /\ closed' = closed \cup {s \in Live(c) : pc[s] # "accept"}
      /\ UNCHANGED <<held, totals, pc, counter, mine, previous, skipping, measured,
                     before, foreign>>
  BY DEF Disconnect, slotVars, pipeVars
<1>2. /\ buffer'[c] = <<>>
      /\ \A d \in Connections : d # c => buffer'[d] = buffer[d]
  BY <1>1 DEF PipeInv, PipeType
<1>3. PipeType' /\ closed' \subseteq Subs
  <2>1. <<>> \in Seq(AnyMessage)
    OBVIOUS
  <2> QED BY <1>1, <2>1 DEF PipeInv, PipeType, Live
<1>4. Len(buffer'[c]) = 0
  BY <1>2
<1>5. BufferInv(c)' /\ \A t \in Subs : ConnectionOf[t] = c => PreviousInv(t)'
  BY <1>4, LimitsAssumption DEF BufferInv, PreviousInv
<1>6. \A t \in Subs : /\ SameTask(t)
                      /\ t \in closed' => t \in closed \/ pc[t] \notin {"none", "accept"}
  BY <1>1 DEF SameTask, Live
<1> QED BY <1>1, <1>2, <1>3, <1>4, <1>5, <1>6, BufferStep

\* A response, or a message of one of reth's own subscriptions.
LEMMA ForeignKeepsPipes ==
    ASSUME SlotInv, PipeInv, NEW c \in Connections, QueueForeign(c)
    PROVE  PipeInv'
<1> DEFINE b == buffer[c]
<1>1. /\ Len(b) < Capacity /\ buffer' = [buffer EXCEPT ![c] = Append(b, ForeignMessage)]
      /\ foreign' = foreign + 1
      /\ UNCHANGED <<held, totals, gone, closed, pc, counter, mine, previous, skipping,
                     measured, before>>
  BY DEF QueueForeign, slotVars, pipeVars
<1>2. b \in Seq(AnyMessage) /\ ForeignMessage \in AnyMessage
  BY DEF PipeInv, PipeType, AnyMessage
<1>3. /\ buffer'[c] = Append(b, ForeignMessage)
      /\ \A d \in Connections : d # c => buffer'[d] = buffer[d]
  BY <1>1 DEF PipeInv, PipeType
<1> HIDE DEF b
<1>4. /\ buffer'[c] \in Seq(AnyMessage)
      /\ Len(buffer'[c]) = Len(b) + 1 /\ Len(b) \in Nat
      /\ \A i \in 1..Len(b) : buffer'[c][i] = b[i] /\ i \in 1..Len(buffer'[c])
      /\ \A i \in 1..Len(buffer'[c]) : i \in 1..Len(b) \/ i = Len(b) + 1
      /\ buffer'[c][Len(b) + 1] = ForeignMessage
  BY <1>2, <1>3, AppendEntries
<1>5. PipeType' /\ closed' \subseteq Subs
  BY <1>1, <1>3, <1>4 DEF PipeInv, PipeType
<1>6. BufferInv(c) /\ \A t \in Subs : SendingInv(t) /\ PreviousInv(t) /\ TaskInv(t)
  BY DEF PipeInv
<1>7. BufferInv(c)'
  <2>1. /\ \A i \in 1..Len(b) : b[i] # ForeignMessage =>
              /\ b[i].counter \in 1..Len(totals)
              /\ b[i].count \in 1..totals[b[i].counter]
        /\ \A i, j \in 1..Len(b) :
              i # j /\ b[i] # ForeignMessage /\ b[j] # ForeignMessage
                 /\ b[i].counter = b[j].counter => b[i].count # b[j].count
    BY <1>6 DEF BufferInv, b
  <2>2. Len(buffer'[c]) <= Capacity
    BY <1>1, <1>4, LimitsAssumption
  <2>3. \A i \in 1..Len(buffer'[c]) : buffer'[c][i] # ForeignMessage =>
           i \in 1..Len(b) /\ buffer'[c][i] = b[i]
    BY <1>4
  <2>4. ASSUME NEW i \in 1..Len(buffer'[c]), buffer'[c][i] # ForeignMessage
        PROVE  /\ buffer'[c][i].counter \in 1..Len(totals)
               /\ buffer'[c][i].count \in 1..totals[buffer'[c][i].counter]
    BY <2>1, <2>3, <2>4
  <2>5. ASSUME NEW i \in 1..Len(buffer'[c]), NEW j \in 1..Len(buffer'[c]), i # j,
               buffer'[c][i] # ForeignMessage, buffer'[c][j] # ForeignMessage,
               buffer'[c][i].counter = buffer'[c][j].counter
        PROVE  buffer'[c][i].count # buffer'[c][j].count
    <3>1. /\ i \in 1..Len(b) /\ buffer'[c][i] = b[i]
          /\ j \in 1..Len(b) /\ buffer'[c][j] = b[j]
      BY <2>3, <2>5
    <3> QED BY <2>1, <2>5, <3>1
  <2> UNCHANGED totals
    BY <1>1
  <2> QED BY <2>2, <2>4, <2>5 DEF BufferInv
<1>8. ASSUME NEW t \in Subs, ConnectionOf[t] = c
      PROVE  /\ PreviousInv(t)'
             /\ pc[t] \in Sending =>
                   \A i \in 1..Len(buffer'[c]) : buffer'[c][i].counter = counter[t] =>
                       buffer'[c][i].count # mine[t]
  <2>1. ASSUME pc[t] \in Sending, NEW i \in 1..Len(buffer'[c]),
               buffer'[c][i].counter = counter[t]
        PROVE  buffer'[c][i].count # mine[t]
    <3>1. counter[t] \in Nat \ {0}
      BY <2>1, TotalOfTask DEF Sending
    <3>2. i \in 1..Len(b) /\ buffer'[c][i] = b[i]
      BY <1>4, <2>1, <3>1, CountedIsNotForeign
    <3> QED BY <1>6, <1>8, <2>1, <3>2 DEF SendingInv, b
  <2>2. PreviousInv(t)'
    <3> UNCHANGED <<previous, counter>>
      BY <1>1
    <3>1. SUFFICES ASSUME previous[t] # 0, NEW i \in 1..Len(buffer'[c]),
                          buffer'[c][i] # ForeignMessage, buffer'[c][i].counter # counter[t]
                   PROVE  \E j \in 1..Len(buffer'[c]) :
                             /\ i < j /\ buffer'[c][j].counter = counter[t]
                             /\ buffer'[c][j].count = previous[t]
      BY <1>8 DEF PreviousInv
    <3>2. i \in 1..Len(b) /\ b[i] # ForeignMessage /\ b[i].counter # counter[t]
      <4>1. i # Len(b) + 1
        BY <1>4, <3>1
      <4> QED BY <1>4, <3>1, <4>1
    <3>3. PICK j \in 1..Len(b) : /\ i < j /\ b[j].counter = counter[t]
                                 /\ b[j].count = previous[t]
      BY <1>6, <1>8, <3>1, <3>2 DEF PreviousInv, b
    <3>4. j \in 1..Len(buffer'[c]) /\ buffer'[c][j] = b[j]
      BY <1>4
    <3> QED BY <3>3, <3>4
  <2> QED BY <2>1, <2>2
<1> QED BY <1>1, <1>3, <1>5, <1>7, <1>8, BufferStep DEF SameTask

\* The client ends one subscription.
LEMMA UnsubscribeKeepsPipes ==
    ASSUME SlotInv, PipeInv,
           UNCHANGED vars \/ \E s \in Subs : Unsubscribe(s)
    PROVE  PipeInv'
<1>1. /\ UNCHANGED <<held, totals, buffer, gone, pc, counter, mine, previous, skipping,
                     measured, before, foreign>>
      /\ \A t \in closed' : t \in Subs /\ (t \in closed \/ pc[t] \notin {"none", "accept"})
  BY DEF Unsubscribe, vars, slotVars, pipeVars, PipeInv
<1>2. TotalsGrow
  BY <1>1, TotalsSame
<1>3. \A c \in Connections : BufferInv(c)'
  BY <1>1, <1>2, BufferKept
<1>4. \A t \in Subs : TaskInv(t)' /\ SendingInv(t)' /\ PreviousInv(t)' /\ SkipInv(t)'
  BY <1>1, <1>2, TaskKept DEF SameTask
<1>5. CountsApart' /\ PipeType' /\ closed' \subseteq Subs
  BY <1>1 DEF PipeInv, CountsApart, PipeType
<1> QED BY <1>3, <1>4, <1>5 DEF PipeInv

\* At first nothing is queued.
LEMMA InitPipes == Init => PipeInv
<1> SUFFICES ASSUME Init
             PROVE  PipeInv
  OBVIOUS
<1>1. skipping \in [Subs -> BOOLEAN]
  BY DEF Init
<1>2. <<>> \in Seq(AnyMessage) /\ {} \in SUBSET AnyMessage /\ 0 \in Nat
  OBVIOUS
<1>3. PipeType /\ closed \subseteq Subs
  BY <1>1, <1>2 DEF Init, PipeType
<1>4. ASSUME NEW c \in Connections
      PROVE  BufferInv(c)
  <2>1. Len(buffer[c]) = 0
    BY DEF Init
  <2> QED BY <2>1, LimitsAssumption DEF BufferInv
<1>5. \A s \in Subs : TaskInv(s) /\ SendingInv(s) /\ PreviousInv(s) /\ SkipInv(s)
  BY DEF Init, TaskInv, SendingInv, PreviousInv, SkipInv, Sending
<1>6. CountsApart
  BY DEF Init, CountsApart, Sending
<1> QED BY <1>3, <1>4, <1>5, <1>6 DEF PipeInv

\* Every step keeps what the counts mean.
LEMMA NextPipes == SlotInv /\ PipeInv /\ [Next]_vars => PipeInv'
<1> SUFFICES ASSUME SlotInv, PipeInv, [Next]_vars
             PROVE  PipeInv'
  OBVIOUS
<1>1. SlotInv'
  BY NextSlots
<1>2. ASSUME NEW s \in Subs, SubStep(s)
      PROVE  PipeInv'
  <2>1. CASE Accept(s) \/ HasRoom(s) \/ Compare(s)
    BY <2>1, MoveKeepsPipes
  <2>2. CASE SeeClosed(s) \/ NoRoom(s) \/ RenderFails(s) \/ SendFails(s)
    BY <2>2, MoveKeepsPipes DEF SeeClosed, NoRoom, RenderFails, SendFails
  <2>3. CASE Count(s)
    BY <2>3, CountKeepsPipes
  <2>4. CASE Send(s)
    BY <2>4, MoveKeepsPipes, EnqueueKeepsPipes DEF Send, Sending
  <2>5. CASE SendWhenRoom(s)
    BY <2>5, MoveKeepsPipes, EnqueueKeepsPipes DEF SendWhenRoom, Sending
  <2>6. CASE Measure(s)
    BY <2>6, MeasureKeepsPipes
  <2> QED BY <1>2, <2>1, <2>2, <2>3, <2>4, <2>5, <2>6 DEF SubStep
<1>3. CASE \E s \in Subs : Take(s)
  BY <1>1, <1>3, TakeKeepsPipes
<1>4. CASE \E s \in Subs : NextItem(s) \/ StreamEnds(s)
  BY <1>4, MoveKeepsPipes DEF StreamEnds
<1>5. CASE UNCHANGED vars \/ \E s \in Subs : Unsubscribe(s)
  BY <1>5, UnsubscribeKeepsPipes
<1>6. CASE \E c \in Connections : WriteNext(c) \/ Disconnect(c) \/ QueueForeign(c)
  BY <1>6, WriteKeepsPipes, DisconnectKeepsPipes, ForeignKeepsPipes
<1> QED BY <1>2, <1>3, <1>4, <1>5, <1>6 DEF Next

\* Through every step the counts mean what pipe_latest takes them to mean: each is
\* reached by its counter and belongs to one message.
THEOREM PipeInvariance == Spec => []PipeInv
BY SlotInvariance, InitSlots, NextSlots, InitPipes, NextPipes, PTL DEF Spec

\* The slots, the buffers, which never exceed their capacity, and the tasks have
\* their types, and only a task that was accepted can find its sink closed.
THEOREM PubSubTypeOK == Spec => []TypeOK
<1>1. SlotInv /\ PipeInv => TypeOK
  <2> SUFFICES ASSUME SlotInv, PipeInv
               PROVE  TypeOK
    OBVIOUS
  <2>1. totals \in Seq(Nat) /\ DOMAIN totals = 1..Len(totals)
    BY DEF SlotInv, SlotType
  <2>2. \A s \in Subs : counter[s] \in IF pc[s] = "none" THEN {0} ELSE DOMAIN totals
    BY <2>1 DEF PipeInv, TaskInv
  <2>3. closed \subseteq {s \in Subs : pc[s] \notin {"none", "accept"}}
    BY DEF PipeInv, TaskInv
  <2>4. \A c \in Connections : Len(buffer[c]) <= Capacity
    BY DEF PipeInv, BufferInv
  <2>5. /\ mine \in [Subs -> Nat] /\ previous \in [Subs -> Nat]
        /\ skipping \in [Subs -> BOOLEAN] /\ measured \in [Subs -> Nat]
        /\ before \in [Subs -> SUBSET (Messages \cup {ForeignMessage})]
        /\ foreign \in Nat /\ gone \subseteq Connections
    BY DEF PipeInv, PipeType, AnyMessage
  <2>6. held \in [Connections -> Entry] /\ pc \in [Subs -> Labels]
    BY DEF SlotInv, SlotType
  <2> QED BY <2>1, <2>2, <2>3, <2>4, <2>5, <2>6 DEF TypeOK, Labels
<1> QED BY <1>1, SlotInvariance, PipeInvariance, PTL

(***************************************************************************)
(* pipe_latest never skips an item for messages counted after its own:     *)
(* whatever is counted, queued and written between the look at the buffer  *)
(* and the look at the counter, a skip has a message behind it that was in *)
(* the buffer, and was counted no later than the previous one or not at    *)
(* all.                                                                    *)
(***************************************************************************)
THEOREM SkipsAreBehindCounted == Spec => []SkipsOnlyBehindCounted
<1>1. PipeInv => SkipsOnlyBehindCounted
  BY DEF PipeInv, SkipInv, HeldBack, SkipsOnlyBehindCounted
<1> QED BY <1>1, PipeInvariance, PTL

-----------------------------------------------------------------------------
\* Both sets are finite, also in the next state.
LEMMA RoomSetsFinite ==
    ASSUME PipeInv, PipeInv', NEW c \in Connections
    PROVE  /\ IsFiniteSet(PerItemQueued(c)) /\ IsFiniteSet(Passed(c))
           /\ Cardinality(PerItemQueued(c)) \in Nat /\ Cardinality(Passed(c)) \in Nat
           /\ IsFiniteSet(PerItemQueued(c)') /\ IsFiniteSet(Passed(c)')
           /\ Cardinality(PerItemQueued(c)') \in Nat /\ Cardinality(Passed(c)') \in Nat
           /\ Cardinality(PerItemQueued(c)) <= Len(buffer[c])
           /\ Len(buffer[c]) \in Nat
<1>1. Len(buffer[c]) \in Nat /\ Len(buffer'[c]) \in Nat
  BY DEF PipeInv, PipeType
<1>2. \A n \in Nat : IsFiniteSet(1..n) /\ Cardinality(1..n) = n
  <2> TAKE n \in Nat
  <2>1. /\ IsFiniteSet(1..n)
        /\ Cardinality(1..n) = IF 1 > n THEN 0 ELSE n - 1 + 1
    BY FS_Interval
  <2> QED BY <2>1
<1>3. PerItemQueued(c) \in SUBSET (1..Len(buffer[c]))
  BY DEF PerItemQueued
<1>4. PerItemQueued(c)' \in SUBSET (1..Len(buffer'[c]))
  BY DEF PerItemQueued
<1>5. Passed(c) \in SUBSET Subs /\ Passed(c)' \in SUBSET Subs
  BY DEF Passed, OfKind, Live
<1>6. IsFiniteSet(PerItemQueued(c)) /\ Cardinality(PerItemQueued(c)) <= Len(buffer[c])
  <2>1. IsFiniteSet(1..Len(buffer[c])) /\ Cardinality(1..Len(buffer[c])) = Len(buffer[c])
    BY <1>1, <1>2
  <2>2. Cardinality(PerItemQueued(c)) <= Cardinality(1..Len(buffer[c]))
    BY <1>3, <2>1, FS_Subset
  <2> QED BY <1>3, <2>1, <2>2, FS_Subset
<1>7. IsFiniteSet(PerItemQueued(c)')
  BY <1>1, <1>2, <1>4, FS_Subset
<1>8. IsFiniteSet(Passed(c)) /\ IsFiniteSet(Passed(c)')
  BY <1>5, SubsAssumption, FS_Subset
<1> QED BY <1>1, <1>6, <1>7, <1>8, FS_CardinalityType

\* Nothing is added to either set.
LEMMA RoomShrinks ==
    ASSUME PipeInv, PipeInv', NEW c \in Connections, RoomFor(c),
           PerItemQueued(c)' \subseteq PerItemQueued(c), Passed(c)' \subseteq Passed(c)
    PROVE  RoomFor(c)'
<1>1. /\ Cardinality(PerItemQueued(c)') <= Cardinality(PerItemQueued(c))
      /\ Cardinality(Passed(c)') <= Cardinality(Passed(c))
  BY RoomSetsFinite, FS_Subset
<1>2. /\ Cardinality(PerItemQueued(c)) \in Nat /\ Cardinality(Passed(c)) \in Nat
      /\ Cardinality(PerItemQueued(c)') \in Nat /\ Cardinality(Passed(c)') \in Nat
  BY RoomSetsFinite
<1>3. Cap["PerItem"] \in Nat /\ MaxQueued \in Nat
  BY LimitsAssumption DEF SlotKinds
<1> QED BY <1>1, <1>2, <1>3 DEF RoomFor

\* A connection whose buffer is not touched, while no per-item task of it passes
\* wait_for_room.
LEMMA RoomKept ==
    ASSUME PipeInv, PipeInv', NEW c \in Connections, RoomFor(c), buffer'[c] = buffer[c],
           \A t \in Subs : ConnectionOf[t] = c /\ KindOf[t] = "PerItem"
               /\ pc'[t] \in PastRoom => pc[t] \in PastRoom
    PROVE  RoomFor(c)'
<1>1. PerItemQueued(c)' \subseteq PerItemQueued(c)
  BY DEF PerItemQueued
<1>2. Passed(c)' \subseteq Passed(c)
  BY DEF Passed, OfKind, Live, PastRoom
<1> QED BY <1>1, <1>2, RoomShrinks

\* A task passes wait_for_room: there is room, or it is one of those the cap allows.
LEMMA HasRoomKeepsRoom ==
    ASSUME SlotInv, SlotInv', PipeInv, PipeInv', RoomInv, NEW s \in Subs, HasRoom(s)
    PROVE  RoomInv'
<1> DEFINE c == ConnectionOf[s]
<1>1. /\ pc' = [pc EXCEPT ![s] = "count"] /\ buffer' = buffer /\ Len(buffer[c]) <= MaxQueued
  BY DEF HasRoom, Goto, Queued
<1>2. \A t \in Subs : t # s => pc'[t] = pc[t]
  BY <1>1 DEF SlotInv, SlotType
<1>3. c \in Connections
  BY SubsAssumption
<1>4. RoomFor(c)'
  <2>1. PerItemQueued(c)' = PerItemQueued(c)
    BY <1>1 DEF PerItemQueued
  <2>2. Passed(c)' \in SUBSET (OfKind(c, "PerItem")')
    BY DEF Passed
  <2>3. OfKind(c, "PerItem")' \subseteq Subs
    BY DEF OfKind, Live
  <2>4. IsFiniteSet(OfKind(c, "PerItem")')
    BY <2>3, SubsAssumption, FS_Subset
  <2>5. Cardinality(Passed(c)') <= Cardinality(OfKind(c, "PerItem")')
    BY <2>2, <2>4, FS_Subset
  <2>6. /\ held'[c]["PerItem"] = Cardinality(OfKind(c, "PerItem")')
        /\ held'[c]["PerItem"] <= Cap["PerItem"]
    BY <1>3 DEF SlotInv, EntryInv, SlotKinds
  <2>7. /\ Cardinality(PerItemQueued(c)) <= Len(buffer[c])
        /\ Len(buffer[c]) \in Nat /\ Cardinality(PerItemQueued(c)) \in Nat
        /\ Cardinality(Passed(c)') \in Nat
    BY <1>3, RoomSetsFinite
  <2>8. Cap["PerItem"] \in Nat /\ MaxQueued \in Nat
    BY LimitsAssumption DEF SlotKinds
  <2>9. Cardinality(OfKind(c, "PerItem")') \in Nat
    BY <2>4, FS_CardinalityType
  <2> QED BY <1>1, <2>1, <2>5, <2>6, <2>7, <2>8, <2>9 DEF RoomFor
<1>5. ASSUME NEW d \in Connections, d # c
      PROVE  RoomFor(d)'
  BY <1>1, <1>2, <1>5, RoomKept DEF RoomInv
<1> QED BY <1>4, <1>5 DEF RoomInv

\* A message is queued by a task that passed before.
LEMMA EnqueueKeepsRoom ==
    ASSUME SlotInv, PipeInv, PipeInv', RoomInv, NEW s \in Subs, pc[s] \in Sending, Queue(s)
    PROVE  RoomInv'
<1> DEFINE c == ConnectionOf[s]
           b == buffer[c]
           m == Message(s, mine[s])
<1>1. /\ buffer' = [buffer EXCEPT ![c] = Append(b, m)] /\ pc' = [pc EXCEPT ![s] = "next"]
  BY DEF Queue, Enqueue
<1>2. c \in Connections
  BY SubsAssumption
<1>3. /\ buffer'[c] = Append(b, m)
      /\ \A d \in Connections : d # c => buffer'[d] = buffer[d]
      /\ pc'[s] = "next" /\ \A t \in Subs : t # s => pc'[t] = pc[t]
  BY <1>1, <1>2 DEF PipeInv, PipeType, SlotInv, SlotType
<1>4. b \in Seq(AnyMessage) /\ m.sub = s /\ m \in AnyMessage
  BY <1>2 DEF PipeInv, PipeType, Message, AnyMessage, Messages, SlotInv, SlotType
<1> HIDE DEF m, b
<1>5. /\ Len(buffer'[c]) = Len(b) + 1 /\ Len(b) \in Nat
      /\ \A i \in 1..Len(b) : buffer'[c][i] = b[i] /\ i \in 1..Len(buffer'[c])
      /\ \A i \in 1..Len(buffer'[c]) : i \in 1..Len(b) \/ i = Len(b) + 1
      /\ buffer'[c][Len(b) + 1] = m
  BY <1>3, <1>4, AppendEntries
<1>6. RoomFor(c)'
  <2>1. CASE KindOf[s] = "PerItem"
    <3>1. PerItemQueued(c)' = PerItemQueued(c) \cup {Len(b) + 1}
      <4>1. s \in Subs /\ KindOf[s] = "PerItem"
        BY <2>1
      <4>2. ASSUME NEW i
            PROVE  i \in PerItemQueued(c)' <=> i \in PerItemQueued(c) \/ i = Len(b) + 1
        <5>1. CASE i \in 1..Len(b)
          <6>1. i # Len(b) + 1 /\ i \in 1..Len(buffer'[c]) /\ buffer'[c][i] = b[i]
            BY <1>5, <5>1
          <6> QED BY <5>1, <6>1 DEF PerItemQueued, b
        <5>2. CASE i = Len(b) + 1
          <6>1. i \in 1..Len(buffer'[c]) /\ buffer'[c][i].sub = s
            BY <1>4, <1>5, <5>2
          <6> QED BY <4>1, <5>2, <6>1 DEF PerItemQueued
        <5>3. CASE i \notin 1..Len(b) /\ i # Len(b) + 1
          <6>1. i \notin 1..Len(buffer'[c])
            BY <1>5, <5>3
          <6> QED BY <5>3, <6>1 DEF PerItemQueued, b
        <5> QED BY <5>1, <5>2, <5>3
      <4> QED BY <4>2
    <3>2. Len(b) + 1 \notin PerItemQueued(c)
      BY <1>5 DEF PerItemQueued, b
    <3>3. Passed(c)' = Passed(c) \ {s} /\ s \in Passed(c)
      BY <1>3, <2>1 DEF Passed, OfKind, Live, PastRoom, Sending
    <3>4. Cardinality(PerItemQueued(c)') = Cardinality(PerItemQueued(c)) + 1
      BY <1>2, <3>1, <3>2, RoomSetsFinite, FS_AddElement
    <3>5. Cardinality(Passed(c)') = Cardinality(Passed(c)) - 1
      BY <1>2, <3>3, RoomSetsFinite, FS_RemoveElement
    <3>6. /\ Cardinality(PerItemQueued(c)) \in Nat /\ Cardinality(Passed(c)) \in Nat
      BY <1>2, RoomSetsFinite
    <3>7. RoomFor(c) /\ Cap["PerItem"] \in Nat /\ MaxQueued \in Nat
      BY <1>2, LimitsAssumption DEF RoomInv, SlotKinds
    <3> QED BY <3>4, <3>5, <3>6, <3>7 DEF RoomFor
  <2>2. CASE KindOf[s] # "PerItem"
    <3>1. PerItemQueued(c)' \subseteq PerItemQueued(c)
      BY <1>4, <1>5, <2>2 DEF PerItemQueued, b
    <3>2. Passed(c)' \subseteq Passed(c)
      BY <1>3 DEF Passed, OfKind, Live, PastRoom
    <3> QED BY <1>2, <3>1, <3>2, RoomShrinks DEF RoomInv
  <2> QED BY <2>1, <2>2
<1>7. ASSUME NEW d \in Connections, d # c
      PROVE  RoomFor(d)'
  BY <1>3, <1>7, RoomKept DEF RoomInv
<1> QED BY <1>6, <1>7 DEF RoomInv

\* What is written leaves the buffer: the places that hold per-item messages move
\* down by one, and none is added.
LEMMA WriteKeepsRoom ==
    ASSUME PipeInv, PipeInv', RoomInv, NEW c \in Connections, WriteNext(c)
    PROVE  RoomInv'
<1> DEFINE b == buffer[c]
           P == PerItemQueued(c)
           Q == PerItemQueued(c)'
           up == [i \in Q |-> i + 1]
<1>1. b # <<>> /\ buffer' = [buffer EXCEPT ![c] = Tail(b)] /\ pc' = pc
  BY DEF WriteNext
<1>2. /\ buffer'[c] = Tail(b) /\ b \in Seq(AnyMessage)
      /\ \A d \in Connections : d # c => buffer'[d] = buffer[d]
  BY <1>1 DEF PipeInv, PipeType
<1> HIDE DEF b
<1>3. \A i \in 1..Len(buffer'[c]) : i + 1 \in 1..Len(b) /\ buffer'[c][i] = b[i + 1]
  BY <1>1, <1>2
<1>4. \A i \in Q : i \in Int /\ i + 1 \in P
  BY <1>3 DEF PerItemQueued, b
<1>5. /\ IsFiniteSet(P) /\ IsFiniteSet(Q)
      /\ Cardinality(P) \in Nat /\ Cardinality(Q) \in Nat /\ Cardinality(Passed(c)) \in Nat
  BY RoomSetsFinite
<1> HIDE DEF P, Q
<1>6. Cardinality(Q) <= Cardinality(P)
  <2>1. SUFFICES ASSUME Cardinality(P) < Cardinality(Q)
                 PROVE  FALSE
    BY <1>5
  <2>2. up \in [Q -> P]
    BY <1>4
  <2>3. PICK i \in Q, j \in Q : i # j /\ up[i] = up[j]
    <3> HIDE DEF up
    <3> QED BY <1>5, <2>1, <2>2, FS_PigeonHole
  <2>4. i + 1 = j + 1
    BY <2>3
  <2> QED BY <1>4, <2>3, <2>4
<1>7. Passed(c)' = Passed(c)
  BY <1>1 DEF Passed, OfKind, Live
<1>8. RoomFor(c)'
  <2>1. RoomFor(c) /\ Cap["PerItem"] \in Nat /\ MaxQueued \in Nat
    BY LimitsAssumption DEF RoomInv, SlotKinds
  <2> QED BY <1>5, <1>6, <1>7, <2>1 DEF RoomFor, P, Q
<1>9. ASSUME NEW d \in Connections, d # c
      PROVE  RoomFor(d)'
  BY <1>1, <1>2, <1>9, RoomKept DEF RoomInv
<1> QED BY <1>8, <1>9 DEF RoomInv

\* At first nothing is queued and nobody passed.
LEMMA InitRoom == Init => RoomInv
<1> SUFFICES ASSUME Init, NEW c \in Connections
             PROVE  RoomFor(c)
  BY DEF RoomInv
<1>1. PerItemQueued(c) = {} /\ Passed(c) = {}
  BY DEF Init, PerItemQueued, Passed, OfKind, Live
<1>2. Cardinality({}) = 0
  BY FS_EmptySet
<1>3. Cap["PerItem"] \in Nat /\ MaxQueued \in Nat
  BY LimitsAssumption DEF SlotKinds
<1> QED BY <1>1, <1>2, <1>3 DEF RoomFor

\* Every step keeps the bound.
LEMMA NextRoom == SlotInv /\ PipeInv /\ RoomInv /\ [Next]_vars => RoomInv'
<1> SUFFICES ASSUME SlotInv, PipeInv, RoomInv, [Next]_vars
             PROVE  RoomInv'
  OBVIOUS
<1>1. SlotInv' /\ PipeInv'
  BY NextSlots, NextPipes
<1>2. ASSUME NEW s \in Subs, NEW label, pc' = [pc EXCEPT ![s] = label],
             label \in PastRoom => pc[s] \in PastRoom \/ KindOf[s] # "PerItem",
             buffer' = buffer
      PROVE  RoomInv'
  <2>1. \A t \in Subs : KindOf[t] = "PerItem" /\ pc'[t] \in PastRoom => pc[t] \in PastRoom
    BY <1>2 DEF SlotInv, SlotType
  <2> QED BY <1>1, <1>2, <2>1, RoomKept DEF RoomInv
<1>3. ASSUME NEW s \in Subs, End(s)
      PROVE  RoomInv'
  BY <1>2, <1>3 DEF End, PastRoom
<1>4. ASSUME NEW s \in Subs, NEW label, Goto(s, label),
             label \in PastRoom => pc[s] \in PastRoom \/ KindOf[s] # "PerItem"
      PROVE  RoomInv'
  BY <1>2, <1>4 DEF Goto
<1>5. ASSUME NEW s \in Subs, SubStep(s)
      PROVE  RoomInv'
  <2>1. CASE Accept(s)
    BY <1>2, <1>3, <2>1 DEF Accept, PastRoom
  <2>2. CASE SeeClosed(s) \/ NoRoom(s) \/ RenderFails(s) \/ SendFails(s)
    BY <1>3, <2>2 DEF SeeClosed, NoRoom, RenderFails, SendFails
  <2>3. CASE HasRoom(s)
    BY <1>1, <2>3, HasRoomKeepsRoom
  <2>4. CASE Count(s)
    BY <1>2, <2>4 DEF Count, PastRoom
  <2>5. CASE Send(s)
    BY <1>1, <1>4, <2>5, EnqueueKeepsRoom DEF Send, Sending, PastRoom
  <2>6. CASE SendWhenRoom(s)
    BY <1>1, <1>3, <2>6, EnqueueKeepsRoom DEF SendWhenRoom, Sending
  <2>7. CASE Measure(s)
    BY <1>4, <2>7 DEF Measure, PastRoom
  <2>8. CASE Compare(s)
    <3>1. KindOf[s] = "NewFlashblocks"
      BY <2>8 DEF Compare, PipeInv, TaskInv
    <3> QED BY <1>3, <1>4, <2>8, <3>1 DEF Compare, PastRoom
  <2> QED BY <1>5, <2>1, <2>2, <2>3, <2>4, <2>5, <2>6, <2>7, <2>8 DEF SubStep
<1>6. CASE \E s \in Subs : Take(s)
  BY <1>2, <1>6 DEF Take, PastRoom
<1>7. CASE \E s \in Subs : NextItem(s)
  BY <1>4, <1>7 DEF NextItem, PastRoom
<1>8. CASE \E s \in Subs : StreamEnds(s)
  BY <1>3, <1>8 DEF StreamEnds
<1>9. CASE UNCHANGED vars \/ \E s \in Subs : Unsubscribe(s)
  <2>1. buffer' = buffer /\ pc' = pc
    BY <1>9 DEF Unsubscribe, vars
  <2> QED BY <1>1, <2>1, RoomKept DEF RoomInv
<1>10. CASE \E c \in Connections : WriteNext(c)
  BY <1>1, <1>10, WriteKeepsRoom
<1>11. CASE \E c \in Connections : Disconnect(c)
  <2>1. PICK c \in Connections : Disconnect(c)
    BY <1>11
  <2>2. /\ pc' = pc /\ buffer'[c] = <<>>
        /\ \A d \in Connections : d # c => buffer'[d] = buffer[d]
    BY <2>1 DEF Disconnect, PipeInv, PipeType
  <2>3. PerItemQueued(c)' \subseteq PerItemQueued(c)
    BY <2>2 DEF PerItemQueued
  <2>4. Passed(c)' \subseteq Passed(c)
    BY <2>2 DEF Passed, OfKind, Live
  <2>5. RoomFor(c)'
    BY <1>1, <2>3, <2>4, RoomShrinks DEF RoomInv
  <2> QED BY <1>1, <2>2, <2>5, RoomKept DEF RoomInv
<1>12. CASE \E c \in Connections : QueueForeign(c)
  <2>1. PICK c \in Connections : QueueForeign(c)
    BY <1>12
  <2>2. /\ pc' = pc /\ buffer'[c] = Append(buffer[c], ForeignMessage)
        /\ \A d \in Connections : d # c => buffer'[d] = buffer[d]
    BY <2>1 DEF QueueForeign, PipeInv, PipeType
  <2>3. buffer[c] \in Seq(AnyMessage) /\ ForeignMessage \in AnyMessage
    BY DEF PipeInv, PipeType, AnyMessage
  <2>4. /\ \A i \in 1..Len(buffer[c]) : buffer'[c][i] = buffer[c][i]
        /\ \A i \in 1..Len(buffer'[c]) : i \in 1..Len(buffer[c]) \/ i = Len(buffer[c]) + 1
        /\ buffer'[c][Len(buffer[c]) + 1] = ForeignMessage
    BY <2>2, <2>3, AppendEntries
  <2>5. PerItemQueued(c)' \subseteq PerItemQueued(c)
    BY <2>4, SubsAssumption DEF PerItemQueued, ForeignMessage
  <2>6. Passed(c)' \subseteq Passed(c)
    BY <2>2 DEF Passed, OfKind, Live
  <2>7. RoomFor(c)'
    BY <1>1, <2>5, <2>6, RoomShrinks DEF RoomInv
  <2> QED BY <1>1, <2>2, <2>7, RoomKept DEF RoomInv
<1> QED BY <1>5, <1>6, <1>7, <1>8, <1>9, <1>10, <1>11, <1>12 DEF Next

(***************************************************************************)
(* However many per-item subscriptions a client opens, and however little  *)
(* it reads, they leave at most MaxQueued messages and one for each that   *)
(* the cap allows in its buffer.                                           *)
(***************************************************************************)
THEOREM PerItemIsBounded == Spec => []PerItemBounded
<1>1. PipeInv /\ PipeInv' /\ RoomInv => PerItemBounded
  <2> SUFFICES ASSUME PipeInv, PipeInv', RoomInv, NEW c \in Connections
               PROVE  Cardinality({i \in DOMAIN buffer[c] : buffer[c][i].sub \in Subs
                          /\ KindOf[buffer[c][i].sub] = "PerItem"})
                        <= MaxQueued + Cap["PerItem"]
    BY DEF PerItemBounded
  <2>1. DOMAIN buffer[c] = 1..Len(buffer[c])
    BY DEF PipeInv, PipeType
  <2>2. Cardinality(PerItemQueued(c)) \in Nat /\ Cardinality(Passed(c)) \in Nat
    BY RoomSetsFinite
  <2>3. RoomFor(c) /\ Cap["PerItem"] \in Nat /\ MaxQueued \in Nat
    BY LimitsAssumption DEF RoomInv, SlotKinds
  <2>4. Cardinality(PerItemQueued(c)) <= MaxQueued + Cap["PerItem"]
    BY <2>2, <2>3 DEF RoomFor
  <2> QED BY <2>1, <2>4 DEF PerItemQueued
<1> QED BY <1>1, InitSlots, NextSlots, InitPipes, NextPipes, InitRoom, NextRoom, PTL DEF Spec
=============================================================================
