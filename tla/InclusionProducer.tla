-------------------------- MODULE InclusionProducer -------------------------
(***************************************************************************)
(* The simulator's inclusion list (simulator/src/inclusion/): a task that  *)
(* follows the events of the transaction pool and publishes a list at each *)
(* canonical commit, and the subscriptions that forward it.                *)
(*                                                                         *)
(* The pool runs ahead of the task: an event waits in a bounded queue, is  *)
(* lost when that is full, and the task asks the pool for the transaction  *)
(* only when it takes the event.                                           *)
(***************************************************************************)
EXTENDS Integers, Sequences, SequencesExt, FiniteSets

CONSTANTS
    Txs,            \* transactions
    Blobs,          \* those that carry blobs
    EncodedLength,  \* the encoded length of each transaction
    MaxListBytes,   \* MAX_LIST_BYTES
    Scores,         \* what score_tx can compute
    Subscribers,
    EventCapacity,  \* events the pool's listener holds before the next one is lost
    NoteCapacity,   \* notifications the stream holds before the oldest one is lost
    MaxPool,        \* bound: changes of the pool
    MaxCommits      \* bound: canonical notifications

ASSUME TxsAssumption ==
    /\ IsFiniteSet(Txs) /\ Blobs \subseteq Txs
    /\ EncodedLength \in [Txs -> Nat \ {0}]
ASSUME ScoresAssumption == IsFiniteSet(Scores) /\ Scores \subseteq Nat
ASSUME InclusionBoundsAssumption ==
    /\ MaxListBytes \in Nat /\ MaxPool \in Nat /\ MaxCommits \in Nat
    /\ EventCapacity \in Nat \ {0} /\ NoteCapacity \in Nat \ {0}

VARIABLES
    pool,       \* the sub-pool each transaction is in
    changes,    \* changes of the pool so far
    events,     \* the pool events the task has not taken
    commits,    \* notifications so far
    notified,   \* the notifications the task has not taken
    orderedTxs, \* ordered_txs: entries, at most one for each score
    pendingTxs, \* pending_txs
    running,    \* the task runs; it owns the sender of the watch channel
    published,  \* the watch channel: its version and its list
    at,         \* each subscription's task: where it stands
    seen,       \* each subscription: the version it has seen
    msg,        \* each subscription: the list its task holds for the client
    heard,      \* each subscription: the last list that was sent to its client
    link,       \* each client: "open", "unsubscribed" or "closed"
    full,       \* each client's connection: its buffer has no room
    untold,     \* history: transactions no event told the task the place of
    crowded     \* history: transactions without an entry as another has their score

poolVars == <<pool, changes, events, untold>>
chainVars == <<commits, notified>>
producerVars == <<orderedTxs, pendingTxs, running, published, crowded>>
taskVars == <<at, seen, msg, heard>>
clientVars == <<link, full>>
subscriptionVars == <<taskVars, clientVars>>
vars == <<poolVars, chainVars, producerVars, subscriptionVars>>

SubPools == {"absent", "pending", "queued"}

\* Mined, Discarded, Invalid and Replaced are handled alike: "left" stands for them.
EventKinds == {"pending", "queued", "left", "propagated"}

\* Transactions can be in the pool before the task listens: no event tells of them.
Init ==
    /\ pool \in [Txs -> {"absent", "pending"}]
    /\ changes = 0
    /\ events = <<>>
    /\ commits = 0
    /\ notified = <<>>
    /\ orderedTxs = {}
    /\ pendingTxs = {}
    /\ running = TRUE
    /\ published = [version |-> 0, list |-> <<>>]
    /\ at = [s \in Subscribers |-> "off"]
    /\ seen = [s \in Subscribers |-> 0]
    /\ msg = [s \in Subscribers |-> <<>>]
    /\ heard = [s \in Subscribers |-> <<>>]
    /\ link = [s \in Subscribers |-> "open"]
    /\ full = [s \in Subscribers |-> FALSE]
    /\ untold = {t \in Txs : pool[t] = "pending"}
    /\ crowded = {}

-----------------------------------------------------------------------------
(***************************************************************************)
(* The pool and the chain                                                  *)
(***************************************************************************)
PoolStep(t, place) ==
    /\ changes < MaxPool
    /\ changes' = changes + 1
    /\ pool' = [pool EXCEPT ![t] = place]
    /\ UNCHANGED <<chainVars, producerVars, subscriptionVars>>

\* The pool sends an event with try_send: without room it is lost.
Tell(t, kind) ==
    IF running /\ Len(events) < EventCapacity
    THEN /\ events' = Append(events, [kind |-> kind, tx |-> t])
         /\ untold' = IF kind = "propagated" THEN untold ELSE untold \ {t}
    ELSE /\ untold' = IF kind = "propagated" THEN untold ELSE untold \cup {t}
         /\ UNCHANGED events

EnterPending(t) == pool[t] # "pending" /\ PoolStep(t, "pending") /\ Tell(t, "pending")

EnterQueued(t) == pool[t] = "absent" /\ PoolStep(t, "queued") /\ Tell(t, "queued")

\* A pending transaction is put back to the queued ones: there is no event for that.
Demote(t) ==
    /\ pool[t] = "pending"
    /\ PoolStep(t, "queued")
    /\ untold' = untold \cup {t}
    /\ UNCHANGED events

Leave(t) == pool[t] # "absent" /\ PoolStep(t, "absent") /\ Tell(t, "left")

Propagate(t) == pool[t] = "pending" /\ PoolStep(t, "pending") /\ Tell(t, "propagated")

Notify(kind) ==
    /\ commits < MaxCommits
    /\ commits' = commits + 1
    /\ notified' = CASE ~running -> notified
                     [] running /\ Len(notified) < NoteCapacity -> Append(notified, kind)
                     [] OTHER -> Append(Tail(notified), kind)
    /\ UNCHANGED <<poolVars, producerVars, subscriptionVars>>

-----------------------------------------------------------------------------
(***************************************************************************)
(* The task: select! takes an event or a notification, whichever is there. *)
(***************************************************************************)

HasScore(entries, score) == \E f \in entries : f.score = score

\* BTreeSet::insert: entries compare by score alone, an equal one stays.
InsertOrdered(entries, e) ==
    IF HasScore(entries, e.score) THEN entries ELSE entries \cup {e}

\* The event is of a transaction the task tracks: the pool still has it, without blobs.
Tracks(event) ==
    event.kind = "pending" /\ pool[event.tx] # "absent" /\ event.tx \notin Blobs

\* Mutant of HandleTxEvent: a transaction that left the pool stays.
HandleTxEventKeepLeft(event, score) ==
    CASE Tracks(event) ->
             /\ orderedTxs' = InsertOrdered(orderedTxs, [score |-> score, tx |-> event.tx])
             /\ pendingTxs' = pendingTxs \cup {event.tx}
      [] event.kind = "queued" ->
             pendingTxs' = pendingTxs \ {event.tx} /\ UNCHANGED orderedTxs
      [] OTHER -> UNCHANGED <<orderedTxs, pendingTxs>>

\* handle_tx_event; the score is computed now, from the transaction's age.
HandleTxEvent(event, score) ==
    CASE Tracks(event) ->
             /\ orderedTxs' = InsertOrdered(orderedTxs, [score |-> score, tx |-> event.tx])
             /\ pendingTxs' = pendingTxs \cup {event.tx}
      [] event.kind \in {"queued", "left"} ->
             pendingTxs' = pendingTxs \ {event.tx} /\ UNCHANGED orderedTxs
      [] OTHER -> UNCHANGED <<orderedTxs, pendingTxs>>

\* History: the entry of the event's transaction is refused, or finds its place.
NoteCrowded(event, score) ==
    crowded' =
        CASE ~Tracks(event) -> crowded
          [] Tracks(event) /\ HasScore(orderedTxs, score) ->
                 crowded \cup ({event.tx} \ {f.tx : f \in orderedTxs})
          [] OTHER -> crowded \ {event.tx}

TakeEvent ==
    /\ running
    /\ events # <<>>
    /\ \E score \in Scores :
          HandleTxEvent(Head(events), score) /\ NoteCrowded(Head(events), score)
    /\ events' = Tail(events)
    /\ UNCHANGED <<pool, changes, untold, chainVars, running, published,
                   subscriptionVars>>

\* Mutant of AddToList: the first transaction that does not fit ends the list.
AddToListUntilFull(acc, e) ==
    IF acc.size + EncodedLength[e.tx] > MaxListBytes
    THEN [acc EXCEPT !.size = MaxListBytes]
    ELSE [list |-> Append(acc.list, e.tx), size |-> acc.size + EncodedLength[e.tx]]

\* The loop of build_inclusion_list on one entry.
AddToList(acc, e) ==
    IF acc.size + EncodedLength[e.tx] > MaxListBytes
    THEN acc
    ELSE [list |-> Append(acc.list, e.tx), size |-> acc.size + EncodedLength[e.tx]]

StillPending(entries) == {e \in entries : e.tx \in pendingTxs}

\* The entries from the highest score down: no two have the same.
ByScore(entries) ==
    [i \in 1..Cardinality(entries) |->
        CHOOSE e \in entries : Cardinality({f \in entries : f.score > e.score}) = i - 1]

\* build_inclusion_list: entries that are no longer pending are not put back.
BuildInclusionList ==
    /\ published' = [version |-> published.version + 1,
                     list |-> FoldLeft(LAMBDA acc, e : AddToList(acc, e),
                                       [list |-> <<>>, size |-> 0],
                                       ByScore(StillPending(orderedTxs))).list]
    /\ orderedTxs' = StillPending(orderedTxs)

TakeNotification ==
    /\ running
    /\ notified # <<>>
    /\ IF Head(notified) = "commit" THEN BuildInclusionList
       ELSE UNCHANGED <<published, orderedTxs>>
    /\ notified' = Tail(notified)
    /\ UNCHANGED <<poolVars, commits, pendingTxs, running, crowded, subscriptionVars>>

\* A stream closes: the task ends, and drops its listeners and the sender.
Close ==
    /\ running
    /\ running' = FALSE
    /\ events' = <<>>
    /\ notified' = <<>>
    /\ UNCHANGED <<pool, changes, untold, commits, orderedTxs, pendingTxs,
                   published, crowded, subscriptionVars>>

-----------------------------------------------------------------------------
(***************************************************************************)
(* relay_inclusionList and relay_subscribeInclusionList                    *)
(***************************************************************************)

\* What inclusion_list answers: the list, or none before the first commit.
InclusionList == IF published.version = 0 THEN <<>> ELSE <<published.list>>

\* The receiver is a clone of one that has seen nothing: `borrow' marks nothing.
Subscribe(s) ==
    /\ at[s] = "off"
    /\ at' = [at EXCEPT ![s] = "accepting"]
    /\ seen' = [seen EXCEPT ![s] = 0]
    /\ UNCHANGED <<poolVars, chainVars, producerVars, msg, heard, clientVars>>

Accept(s) ==
    /\ at[s] = "accepting"
    /\ \E step \in {"waiting", "ended"} : at' = [at EXCEPT ![s] = step]
    /\ UNCHANGED <<poolVars, chainVars, producerVars, seen, msg, heard, clientVars>>

\* changed() answers Ok: the current list is taken, older ones are not. The send
\* begins, and fails at once when the client is not there: the error is ignored.
TakeList(s) ==
    /\ at[s] = "waiting"
    /\ seen[s] # published.version
    /\ seen' = [seen EXCEPT ![s] = published.version]
    /\ IF link[s] = "open"
       THEN /\ at' = [at EXCEPT ![s] = "sending"]
            /\ msg' = [msg EXCEPT ![s] = InclusionList]
       ELSE UNCHANGED <<at, msg>>
    /\ UNCHANGED <<poolVars, chainVars, producerVars, heard, clientVars>>

\* Mutant of SendList: a message that finds no room is given up, as by try_send.
SendListOrDrop(s) ==
    /\ at[s] = "sending"
    /\ link[s] # "closed"
    /\ IF full[s]
       THEN UNCHANGED <<heard, full>>
       ELSE /\ heard' = [heard EXCEPT ![s] = msg[s]]
            /\ \E used \in BOOLEAN : full' = [full EXCEPT ![s] = used]
    /\ at' = [at EXCEPT ![s] = "waiting"]
    /\ msg' = [msg EXCEPT ![s] = <<>>]
    /\ UNCHANGED <<poolVars, chainVars, producerVars, seen, link>>

\* The buffer has room: the message goes, and may be the one that fills it.
SendList(s) ==
    /\ at[s] = "sending"
    /\ link[s] # "closed"
    /\ ~full[s]
    /\ \E used \in BOOLEAN : full' = [full EXCEPT ![s] = used]
    /\ heard' = [heard EXCEPT ![s] = msg[s]]
    /\ at' = [at EXCEPT ![s] = "waiting"]
    /\ msg' = [msg EXCEPT ![s] = <<>>]
    /\ UNCHANGED <<poolVars, chainVars, producerVars, seen, link>>

\* The connection is gone while the message waits: the error is ignored.
SendFails(s) ==
    /\ at[s] = "sending"
    /\ link[s] = "closed"
    /\ at' = [at EXCEPT ![s] = "waiting"]
    /\ msg' = [msg EXCEPT ![s] = <<>>]
    /\ UNCHANGED <<poolVars, chainVars, producerVars, seen, heard, clientVars>>

\* changed() answers an error only when there is nothing left to see.
EndSubscription(s) ==
    /\ at[s] = "waiting"
    /\ seen[s] = published.version
    /\ ~running
    /\ at' = [at EXCEPT ![s] = "ended"]
    /\ UNCHANGED <<poolVars, chainVars, producerVars, seen, msg, heard, clientVars>>

\* The client unsubscribes, or its connection closes.
HangUp(s) ==
    /\ at[s] # "off"
    /\ \E gone \in {"unsubscribed", "closed"} :
          /\ link[s] = "open" \/ (link[s] = "unsubscribed" /\ gone = "closed")
          /\ link' = [link EXCEPT ![s] = gone]
    /\ UNCHANGED <<poolVars, chainVars, producerVars, taskVars, full>>

\* Other messages of the connection fill its buffer; the client reads.
UseBuffer(s) ==
    /\ link[s] # "closed"
    /\ full' = [full EXCEPT ![s] = ~full[s]]
    /\ UNCHANGED <<poolVars, chainVars, producerVars, taskVars, link>>

SubscriptionStep(s) ==
    Accept(s) \/ TakeList(s) \/ SendList(s) \/ SendFails(s) \/ EndSubscription(s)

ClientStep(s) == HangUp(s) \/ UseBuffer(s)

PoolNext ==
    \E t \in Txs :
        EnterPending(t) \/ EnterQueued(t) \/ Demote(t) \/ Leave(t) \/ Propagate(t)

Next ==
    \/ PoolNext
    \/ \E kind \in {"commit", "reorg"} : Notify(kind)
    \/ TakeEvent
    \/ TakeNotification
    \/ Close
    \/ \E s \in Subscribers : Subscribe(s) \/ SubscriptionStep(s) \/ ClientStep(s)

Spec == Init /\ [][Next]_vars

\* Each task runs whenever it can: both arms of select! are polled in random order.
\* A send that waits is not passed over when there is room again and again: the
\* channel hands its room out in the order it was asked for. Nothing is assumed of
\* the client, which may never read.
FairSpec ==
    /\ Spec
    /\ WF_vars(TakeEvent)
    /\ WF_vars(TakeNotification)
    /\ \A s \in Subscribers : WF_vars(SubscriptionStep(s)) /\ SF_vars(SendList(s))
-----------------------------------------------------------------------------
(***************************************************************************)
(* Properties                                                              *)
(***************************************************************************)

\* When the task has taken every event, it holds a transaction for pending exactly if
\* it is pending and blobless, however far the pool had run ahead of the events when
\* the task asked it (handle_tx_event). The exception are the transactions no event
\* told it the place of: pending before it listened, demoted since their last event,
\* or with that event lost for want of room.
TracksPool ==
    running /\ events = <<>> =>
        \A t \in Txs \ untold : t \in pendingTxs <=> pool[t] = "pending" /\ t \notin Blobs

\* A list that build_inclusion_list publishes keeps within the byte limit, holds only
\* transactions that are tracked as pending, and no tracked transaction it leaves out
\* would have fit, save one whose entry was refused as another's has the same score.
ListIsMaximal ==
    [][published' # published =>
          LET total == FoldLeft(LAMBDA sum, t : sum + EncodedLength[t], 0, published'.list)
          IN  /\ total <= MaxListBytes
              /\ Range(published'.list) \subseteq pendingTxs
              /\ \A t \in pendingTxs \ crowded :
                    \/ t \in Range(published'.list)
                    \/ total + EncodedLength[t] > MaxListBytes]_vars

\* A client whose subscription was accepted is sent the newest list in the end, also
\* when that was published before it subscribed, while an older one waited for room,
\* or just before the task ended; provided that its connection has room again and
\* again, and unless it hangs up.
NewestListReachesClient ==
    \A s \in Subscribers :
        []<>(~full[s]) =>
            ((at[s] = "waiting" /\ published.version > 0) ~>
                (heard[s] = InclusionList \/ link[s] # "open"))
=============================================================================
