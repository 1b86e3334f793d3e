------------------------------- MODULE PubSub -------------------------------
(***************************************************************************)
(* The flashblocks subscriptions of flashblocks/src/rpc/pubsub.rs: the     *)
(* slots a connection holds, and the two pipes that queue messages on the  *)
(* connection's buffer.                                                    *)
(*                                                                         *)
(* Every subscription is a task of its own.  Those of one connection share *)
(* its buffer, which the server writes to the client first in, first out,  *)
(* and a counter of the messages they queued (queued_total).  The buffer's *)
(* length and the counter are read apart, and a message is counted before  *)
(* it is queued, so other tasks act in between.                            *)
(*                                                                         *)
(* The stream of items is the environment's: it may yield one at any time  *)
(* until MaxCounted messages have been counted.  Time is not modelled: a   *)
(* limit that can have elapsed may have.                                   *)
(***************************************************************************)
EXTENDS Integers, Sequences, FiniteSets, Functions, Validation

CONSTANTS
    Connections,    \* connections of one transport; an id is never used again
    Subs,           \* eth_subscribe requests, each usable again once it ended
    ConnectionOf,   \* ConnectionOf[s]: the connection of s
    KindOf,         \* KindOf[s]: the cap s counts against
    Cap,            \* Cap[k]: the most subscriptions of kind k per connection
    MaxQueued,      \* limits.max_queued
    Capacity,       \* messages the connection's buffer can hold
    MaxCounted,     \* bound: messages counted by one counter
    MaxCounters,    \* bound: counters created
    MaxForeign      \* bound: messages on the connections that are not counted

SlotKinds == {"NewFlashblocks", "PerItem"}

ASSUME SubsAssumption ==
    /\ IsFiniteSet(Subs)
    /\ ConnectionOf \in [Subs -> Connections]
    /\ KindOf \in [Subs -> SlotKinds]
    /\ "reth" \notin Subs
ASSUME LimitsAssumption ==
    /\ Cap \in [SlotKinds -> Nat \ {0}]
    /\ MaxQueued \in Nat /\ Capacity \in Nat
    /\ MaxCounted \in Nat /\ MaxCounters \in Nat /\ MaxForeign \in Nat

VARIABLES
    held,       \* subscriptions_per_connection
    totals,     \* every queued_total counter created, by identity
    buffer,     \* messages of each connection not yet written
    gone,       \* connections closed by the client
    closed,     \* subscriptions whose sink is closed
    pc,         \* where each subscription's task stands
    counter,    \* the slot's queued_total: an index of totals
    mine,       \* the total with the message being sent counted
    previous,   \* previous_at, 0 if None
    skipping,   \* skipping_since is set
    measured,   \* the buffer length pipe_latest read
    before,     \* history: the buffer it then measured
    foreign     \* number of uncounted messages queued: responses, and what
                \* reth's own subscriptions send

slotVars == <<held, totals>>
pipeVars == <<counter, mine, previous, skipping, measured, before>>
vars == <<slotVars, buffer, gone, closed, pc, pipeVars, foreign>>

-----------------------------------------------------------------------------
\* No entry in the map, and the entry or_default creates.
NoEntry == [NewFlashblocks |-> 0, PerItem |-> 0, counter |-> 0]
Entry == [NewFlashblocks : Nat, PerItem : Nat, counter : Nat]

\* A message: its subscription, and its place among the counted messages.
Message(s, count) == [sub |-> s, counter |-> counter[s], count |-> count]
Messages == [sub : Subs, counter : Nat, count : Nat]
ForeignMessage == [sub |-> "reth", counter |-> 0, count |-> 0]

Queued(s) == Len(buffer[ConnectionOf[s]])
Live(c) == {s \in Subs : ConnectionOf[s] = c /\ pc[s] # "none"}

Init ==
    /\ held = [c \in Connections |-> NoEntry]
    /\ totals = <<>>
    /\ buffer = [c \in Connections |-> <<>>]
    /\ gone = {}
    /\ closed = {}
    /\ pc = [s \in Subs |-> "none"]
    /\ counter = [s \in Subs |-> 0]
    /\ mine = [s \in Subs |-> 0]
    /\ previous = [s \in Subs |-> 0]
    /\ skipping = [s \in Subs |-> FALSE]
    /\ measured = [s \in Subs |-> 0]
    /\ before = [s \in Subs |-> {}]
    /\ foreign = 0

-----------------------------------------------------------------------------
(***************************************************************************)
(* Slots                                                                   *)
(***************************************************************************)

NewEntry == [NoEntry EXCEPT !.counter = Len(totals) + 1]

\* Mutant of OrDefault: every slot brings its own counter.
OrDefaultFresh(c) == [held[c] EXCEPT !.counter = Len(totals) + 1]

\* held.entry(c).or_default(), whose default brings a new counter.
OrDefault(c) == IF held[c] = NoEntry THEN NewEntry ELSE held[c]

\* ConnectionSlot::take.  At the cap the request is rejected and nothing
\* changes.
Take(s) ==
    LET c == ConnectionOf[s]
        entry == OrDefault(c)
        fresh == entry.counter > Len(totals)
    IN  /\ pc[s] = "none"
        /\ c \notin gone
        /\ entry[KindOf[s]] < Cap[KindOf[s]]
        /\ fresh => Len(totals) < MaxCounters
        /\ totals' = IF fresh THEN Append(totals, 0) ELSE totals
        /\ held' = [held EXCEPT ![c] = [entry EXCEPT ![KindOf[s]] = @ + 1]]
        /\ counter' = [counter EXCEPT ![s] = entry.counter]
        /\ pc' = [pc EXCEPT ![s] = "accept"]
        /\ UNCHANGED <<buffer, gone, closed, mine, previous, skipping, measured,
                       before, foreign>>

\* Mutant of Released: the entry goes with the last slot of its kind.
ReleasedWithKind(entry, k) ==
    IF entry = NoEntry \/ entry[k] = 1 THEN NoEntry ELSE [entry EXCEPT ![k] = @ - 1]

\* A slot of kind k given back: the entry goes with the last slot, and where
\* there is none nothing happens.
Released(entry, k) ==
    LET left == [entry EXCEPT ![k] = @ - 1]
    IN  IF entry = NoEntry \/ \A j \in SlotKinds : left[j] = 0 THEN NoEntry ELSE left

\* The task ends: its state goes, and dropping the slot gives it back.
End(s) ==
    /\ held' = [held EXCEPT ![ConnectionOf[s]] = Released(@, KindOf[s])]
    /\ pc' = [pc EXCEPT ![s] = "none"]
    /\ closed' = closed \ {s}
    /\ counter' = [counter EXCEPT ![s] = 0]
    /\ mine' = [mine EXCEPT ![s] = 0]
    /\ previous' = [previous EXCEPT ![s] = 0]
    /\ skipping' = [skipping EXCEPT ![s] = FALSE]
    /\ measured' = [measured EXCEPT ![s] = 0]
    /\ before' = [before EXCEPT ![s] = {}]
    /\ UNCHANGED <<totals, buffer, gone, foreign>>

\* pending.accept, which fails when the connection is gone.
Accept(s) ==
    /\ pc[s] = "accept"
    /\ \/ /\ ConnectionOf[s] \notin gone
          /\ pc' = [pc EXCEPT ![s] = "next"]
          /\ UNCHANGED <<slotVars, buffer, gone, closed, pipeVars, foreign>>
       \/ ConnectionOf[s] \in gone /\ End(s)

-----------------------------------------------------------------------------
(***************************************************************************)
(* The pipes.  Both wait for an item or for the sink to close.             *)
(***************************************************************************)
Goto(s, label) ==
    /\ pc' = [pc EXCEPT ![s] = label]
    /\ UNCHANGED <<slotVars, buffer, gone, closed, foreign>>

\* An item arrives: pipe_from_stream looks for room, pipe_latest for its
\* previous message.
NextItem(s) ==
    /\ pc[s] = "next"
    /\ totals[counter[s]] < MaxCounted
    /\ \/ KindOf[s] = "PerItem" /\ Goto(s, "room")
       \/ KindOf[s] = "NewFlashblocks" /\ previous[s] # 0 /\ Goto(s, "measure")
       \/ KindOf[s] = "NewFlashblocks" /\ previous[s] = 0 /\ Goto(s, "count")
    /\ UNCHANGED pipeVars

\* The stream ends: the state it comes from is dropped.
StreamEnds(s) ==
    /\ pc[s] = "next"
    /\ End(s)

\* Mutant of SeeClosed: the task waits for items only.
SeeClosedNever(s) == FALSE /\ End(s)

\* sink.closed() while waiting for an item.
SeeClosed(s) ==
    /\ pc[s] = "next"
    /\ s \in closed
    /\ End(s)

\* Mutant of HasRoom: off by one.
HasRoomForOneMore(s) ==
    /\ pc[s] = "room"
    /\ Queued(s) <= MaxQueued + 1
    /\ Goto(s, "count")
    /\ UNCHANGED pipeVars

\* wait_for_room returns true.
HasRoom(s) ==
    /\ pc[s] = "room"
    /\ Queued(s) <= MaxQueued
    /\ Goto(s, "count")
    /\ UNCHANGED pipeVars

\* wait_for_room returns false: the sink is closed, or the deadline passed.
NoRoom(s) ==
    /\ pc[s] = "room"
    /\ Queued(s) > MaxQueued
    /\ End(s)

\* send counts the message.
Count(s) ==
    /\ pc[s] = "count"
    /\ totals' = [totals EXCEPT ![counter[s]] = @ + 1]
    /\ mine' = [mine EXCEPT ![s] = totals[counter[s]] + 1]
    /\ pc' = [pc EXCEPT ![s] = "send"]
    /\ UNCHANGED <<held, buffer, gone, closed, counter, previous, skipping, measured,
                   before, foreign>>

\* Serializing fails, before the message is counted.
RenderFails(s) ==
    /\ pc[s] = "count"
    /\ End(s)

\* sink.send looks whether the sink is closed, and fails if it is: the count
\* stays.
SendFails(s) ==
    /\ pc[s] = "send"
    /\ s \in closed
    /\ End(s)

\* The message joins the buffer; only pipe_latest keeps the total.
Enqueue(s) ==
    /\ buffer' = [buffer EXCEPT ![ConnectionOf[s]] = Append(@, Message(s, mine[s]))]
    /\ previous' = [previous EXCEPT ![s] =
                       IF KindOf[s] = "NewFlashblocks" THEN mine[s] ELSE 0]
    /\ mine' = [mine EXCEPT ![s] = 0]
    /\ pc' = [pc EXCEPT ![s] = "next"]
    /\ UNCHANGED <<slotVars, gone, closed, counter, skipping, measured, before,
                   foreign>>

Queue(s) ==
    /\ ConnectionOf[s] \notin gone
    /\ Queued(s) < Capacity
    /\ Enqueue(s)

\* Past that look it waits for the buffer, which only room or the end of the
\* connection finishes.
Send(s) ==
    /\ pc[s] = "send"
    /\ s \notin closed
    /\ \/ Queue(s)
       \/ /\ Queued(s) >= Capacity
          /\ Goto(s, "full")
          /\ UNCHANGED pipeVars

SendWhenRoom(s) ==
    /\ pc[s] = "full"
    /\ \/ Queue(s)
       \/ ConnectionOf[s] \in gone /\ End(s)

\* pipe_latest reads the buffer's length first ...
Measure(s) ==
    /\ pc[s] = "measure"
    /\ measured' = [measured EXCEPT ![s] = Queued(s)]
    /\ before' = [before EXCEPT ![s] = Range(buffer[ConnectionOf[s]])]
    /\ Goto(s, "compare")
    /\ UNCHANGED <<counter, mine, previous, skipping>>

\* Mutant of HasLeft: off by one.
HasLeftStrict(s) == measured[s] < SaturatingSub(totals[counter[s]], previous[s])

\* has_left, with the counter as it is now.
HasLeft(s) == measured[s] <= SaturatingSub(totals[counter[s]], previous[s])

\* ... and the counter second: the item is skipped while the previous message
\* is taken to be queued, and a subscription that has been skipping may end.
Compare(s) ==
    LET Decide(label, skips) ==
            /\ skipping' = [skipping EXCEPT ![s] = skips]
            /\ measured' = [measured EXCEPT ![s] = 0]
            /\ before' = [before EXCEPT ![s] = {}]
            /\ Goto(s, label)
            /\ UNCHANGED <<counter, mine, previous>>
    IN  /\ pc[s] = "compare"
        /\ \/ HasLeft(s) /\ Decide("count", FALSE)
           \/ ~HasLeft(s) /\ Decide("next", TRUE)
           \/ ~HasLeft(s) /\ skipping[s] /\ End(s)

SubStep(s) ==
    \/ Accept(s)
    \/ SeeClosed(s)
    \/ HasRoom(s)
    \/ NoRoom(s)
    \/ Count(s)
    \/ RenderFails(s)
    \/ SendFails(s)
    \/ Send(s)
    \/ SendWhenRoom(s)
    \/ Measure(s)
    \/ Compare(s)

-----------------------------------------------------------------------------
(***************************************************************************)
(* The client, the server and reth's own subscriptions on the connection.  *)
(***************************************************************************)
WriteNext(c) ==
    /\ buffer[c] # <<>>
    /\ buffer' = [buffer EXCEPT ![c] = Tail(@)]
    /\ UNCHANGED <<slotVars, gone, closed, pc, pipeVars, foreign>>

Unsubscribe(s) ==
    /\ pc[s] \notin {"none", "accept"}
    /\ s \notin closed
    /\ closed' = closed \cup {s}
    /\ UNCHANGED <<slotVars, buffer, gone, pc, pipeVars, foreign>>

Disconnect(c) ==
    /\ c \notin gone
    /\ gone' = gone \cup {c}
    /\ closed' = closed \cup {s \in Live(c) : pc[s] # "accept"}
    /\ buffer' = [buffer EXCEPT ![c] = <<>>]
    /\ UNCHANGED <<slotVars, pc, pipeVars, foreign>>

QueueForeign(c) ==
    /\ c \notin gone
    /\ foreign < MaxForeign
    /\ Len(buffer[c]) < Capacity
    /\ buffer' = [buffer EXCEPT ![c] = Append(@, ForeignMessage)]
    /\ foreign' = foreign + 1
    /\ UNCHANGED <<slotVars, gone, closed, pc, pipeVars>>

Next ==
    \/ \E s \in Subs : Take(s) \/ NextItem(s) \/ StreamEnds(s) \/ SubStep(s)
                     \/ Unsubscribe(s)
    \/ \E c \in Connections : WriteNext(c) \/ Disconnect(c) \/ QueueForeign(c)

Spec == Init /\ [][Next]_vars

(***************************************************************************)
(* Each subscription is a tokio task: one that can go on does.  Nothing is *)
(* assumed of the client, which may never read, and of the stream, which   *)
(* may never yield.                                                        *)
(***************************************************************************)
FairSpec == Spec /\ \A s \in Subs : WF_vars(SubStep(s))

-----------------------------------------------------------------------------
(***************************************************************************)
(* Properties                                                              *)
(***************************************************************************)

\* Type correctness of the slots, the buffer and the tasks.  The counts of a
\* connection never fall below zero, which the subtraction of a dropped slot
\* does not look at.
TypeOK ==
    /\ held \in [Connections -> Entry]
    /\ totals \in Seq(Nat)
    /\ \A c \in Connections : Len(buffer[c]) <= Capacity
    /\ gone \subseteq Connections
    /\ closed \subseteq {s \in Subs : pc[s] \notin {"none", "accept"}}
    /\ pc \in [Subs -> {"none", "accept", "next", "room", "count", "send",
                        "full", "measure", "compare"}]
    /\ \A s \in Subs : counter[s] \in IF pc[s] = "none" THEN {0} ELSE DOMAIN totals
    /\ mine \in [Subs -> Nat]
    /\ previous \in [Subs -> Nat]
    /\ skipping \in [Subs -> BOOLEAN]
    /\ measured \in [Subs -> Nat]
    /\ before \in [Subs -> SUBSET (Messages \cup {ForeignMessage})]
    /\ foreign \in Nat

\* The map counts exactly the subscriptions that run, by connection and kind,
\* never more than the cap, and holds no entry for a connection without one:
\* a slot is given back once, on every path a subscription can end on.
SlotsCounted ==
    \A c \in Connections :
        /\ \A k \in SlotKinds :
              /\ held[c][k] = Cardinality({s \in Live(c) : KindOf[s] = k})
              /\ held[c][k] <= Cap[k]
        /\ Live(c) = {} => held[c] = NoEntry

\* The subscriptions of a connection count in one counter, although the entry
\* that holds it comes and goes.
OneCounterPerConnection ==
    \A c \in Connections : \A s \in Live(c) : counter[s] = held[c].counter

\* The messages that per-item subscriptions queue on a client that does not
\* read are bounded: each of them may pass wait_for_room once at the limit.
PerItemBounded ==
    \A c \in Connections :
        Cardinality({i \in DOMAIN buffer[c] : buffer[c][i].sub \in Subs
                        /\ KindOf[buffer[c][i].sub] = "PerItem"})
            <= MaxQueued + Cap["PerItem"]

\* pipe_latest skips an item only if the buffer it measured held a message
\* counted no later than its previous one, or one that is not counted: those
\* counted after it never hold it back, whatever the other subscriptions count
\* and queue before it reads the counter.  A message counted earlier may have
\* been queued later: see HeldBackOnlyByPrevious.
SkipsOnlyBehindCounted ==
    \A s \in Subs : pc[s] = "compare" /\ ~HasLeft(s) =>
        \E m \in before[s] :
            m = ForeignMessage \/ (m.counter = counter[s] /\ m.count <= previous[s])

\* The slots of a connection that is gone are given back, wherever each of its
\* tasks stood and although nothing more comes from the stream.
GoneGivesBack == \A c \in Connections : c \in gone ~> held[c] = NoEntry

-----------------------------------------------------------------------------
(***************************************************************************)
(* What comments say and the code does not do                              *)
(***************************************************************************)

\* The comment of pipe_latest: an item is skipped while the subscription's
\* previous message is still in the buffer, and messages that the connection's
\* other subscriptions queued after it do not hold it back.  The buffer is
\* first in, first out, so one that has lost the previous message holds only
\* messages queued after it; uncounted ones are the comments' own exception.
HeldBackOnlyByPrevious ==
    \A s \in Subs :
        /\ pc[s] = "compare" /\ ~HasLeft(s)
        /\ ForeignMessage \notin before[s]
        => Message(s, previous[s]) \in before[s]
=============================================================================
