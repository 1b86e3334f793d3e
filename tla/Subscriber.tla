----------------------------- MODULE Subscriber -----------------------------
(***************************************************************************)
(* The feed subscriber of flashblocks/src/subscription.rs: one task keeps  *)
(* a WebSocket connection to the builder and puts what it decodes into a   *)
(* bounded mailbox, a second task hands the mailbox to the flashblocks     *)
(* state.                                                                  *)
(*                                                                         *)
(* The first task serves the connection from one select loop: while it     *)
(* waits for room in the mailbox it neither reads nor pings.  The ping     *)
(* interval's ticks that pass meanwhile are delivered at once afterwards   *)
(* (tokio's default, Burst).                                               *)
(*                                                                         *)
(* Time is counted in ping intervals.  A task that can run does so within  *)
(* an interval; only a reader that waits for the mailbox is overtaken.     *)
(***************************************************************************)
EXTENDS Integers, Sequences, FiniteSets, FiniteSetsExt

CONSTANTS
    Capacity,       \* of the mailbox
    MaxBackoff,     \* MAX_BACKOFF, in units of the first backoff
    MaxWarnedKeys,  \* MAX_WARNED_UNKNOWN_KEYS
    Keys,           \* keys of a message that this node does not read
    Shapes,         \* the messages upstream sends: see Message
    MaxSent,        \* bound: flashblocks streamed
    MaxFlight,      \* bound: frames on the wire
    MaxDue          \* bound: ticks that pass while the reader waits

ASSUME LimitsAssumption ==
    /\ Capacity \in Nat \ {0}
    /\ MaxBackoff \in Nat \ {0}
    /\ MaxWarnedKeys \in Nat
    /\ IsFiniteSet(Keys)
ASSUME BoundsAssumption == MaxSent \in Nat /\ MaxFlight \in Nat /\ MaxDue \in Nat \ {0}

(***************************************************************************)
(* A message: how it is encoded, what is wrong with it, and its unknown    *)
(* keys.  Only a compressed message can fail to decompress or decompress   *)
(* to something that is not text.                                          *)
(***************************************************************************)
Message == [encoding : {"text", "json", "brotli"},
            defect   : {"none", "compression", "utf8", "size", "json", "payload",
                        "metadata"},
            unknown  : SUBSET Keys]

ASSUME ShapesAssumption ==
    /\ Shapes \subseteq Message
    /\ \A m \in Shapes : m.defect \in {"compression", "utf8"} => m.encoding = "brotli"

VARIABLES
    conn,       \* the first task: connecting, up, or sleeping before a retry
    peer,       \* the connection's other end: alive, silent or ended
    wire,       \* frames that have not been read
    owed,       \* pings the other end has not answered
    sent,       \* number of flashblocks the builder streamed
    backoff,    \* how long the next sleep takes
    awaiting,   \* awaiting_pong_resp
    due,        \* ticks of the ping interval that are due
    warned,     \* warned_keys
    holding,    \* the flashblock that waits for the mailbox, 0 if none
    mailbox,
    last,       \* history: the flashblock handed over last
    handed,     \* history: how often a flashblock was handed over
    quiet,      \* history: intervals since the other end went away, up to 3
    pingAge,    \* history: 0 before this connection's first ping, 1 in the
                \* interval of its last ping, 2 after it
    stalled     \* history: this connection's reader was overtaken by a tick

upstreamVars == <<peer, wire, owed, sent>>
readerVars == <<conn, backoff, awaiting, due, warned, holding>>
historyVars == <<quiet, pingAge, stalled>>
receiverVars == <<last, handed>>
vars == <<upstreamVars, readerVars, mailbox, receiverVars, historyVars>>

-----------------------------------------------------------------------------
Flashblock(id, m) == [kind |-> "message", id |-> id, message |-> m]
Frame(kind) == [kind |-> kind]
Frames == [kind : {"message"}, id : Nat, message : Shapes]
              \cup [kind : {"pong", "close", "error", "other"}]

FirstBackoff == 1

Init ==
    /\ conn = "connecting"
    /\ peer = "ended"
    /\ wire = <<>>
    /\ owed = 0
    /\ sent = 0
    /\ backoff = FirstBackoff
    /\ awaiting = FALSE
    /\ due = 0
    /\ warned = {}
    /\ holding = 0
    /\ mailbox = <<>>
    /\ last = 0
    /\ handed = 0
    /\ quiet = 0
    /\ pingAge = 0
    /\ stalled = FALSE

-----------------------------------------------------------------------------
(***************************************************************************)
(* Upstream, and the network in between.                                   *)
(***************************************************************************)
InFlight(frame) ==
    /\ conn = "up"
    /\ peer = "alive"
    /\ Len(wire) < MaxFlight
    /\ wire' = Append(wire, frame)

\* The builder streams its next flashblock; without a connection it is missed.
StreamFlashblock(m) ==
    /\ sent < MaxSent
    /\ sent' = sent + 1
    /\ \/ InFlight(Flashblock(sent + 1, m))
       \/ ~(conn = "up" /\ peer = "alive") /\ UNCHANGED wire
    /\ UNCHANGED <<peer, owed, readerVars, mailbox, receiverVars, historyVars>>

AnswerPing ==
    /\ owed > 0
    /\ InFlight(Frame("pong"))
    /\ owed' = owed - 1
    /\ UNCHANGED <<peer, sent, readerVars, mailbox, receiverVars, historyVars>>

\* Upstream pings, closes, or the transport fails; the last two end the stream.
SendControl(kind) ==
    /\ InFlight(Frame(kind))
    /\ peer' = IF kind = "other" THEN peer ELSE "ended"
    /\ UNCHANGED <<owed, sent, readerVars, mailbox, receiverVars, historyVars>>

\* Nothing more arrives: the stream ends, or the connection is half open.
GoAway(how) ==
    /\ conn = "up"
    /\ peer = "alive"
    /\ peer' = how
    /\ UNCHANGED <<wire, owed, sent, readerVars, mailbox, receiverVars, historyVars>>

UpstreamStep ==
    \/ \E m \in Shapes : StreamFlashblock(m)
    \/ AnswerPing
    \/ \E kind \in {"close", "error", "other"} : SendControl(kind)
    \/ \E how \in {"silent", "ended"} : GoAway(how)

-----------------------------------------------------------------------------
(***************************************************************************)
(* Decoding                                                                *)
(***************************************************************************)

\* try_parse_message, with ensure_within_size_limit: text as it is, anything
\* else decompressed.
TryParseMessage(m) ==
    IF m.encoding = "brotli"
    THEN m.defect \notin {"compression", "utf8", "size"}
    ELSE m.defect # "size"

\* parse_flashblock_json: the JSON, the payload and its metadata.
ParseFlashblockJson(m) == m.defect \notin {"json", "payload", "metadata"}

\* try_decode_message and try_decode_plaintext_message.
Decodes(m) == TryParseMessage(m) /\ ParseFlashblockJson(m)

\* record_wire_shape: each unknown key is warned about once, up to the limit.
RecordWireShape(m) ==
    LET wanted == warned \cup m.unknown
    IN  warned' \in {w \in SUBSET wanted :
                        /\ warned \subseteq w
                        /\ Cardinality(w) = Min({MaxWarnedKeys, Cardinality(wanted)})}

-----------------------------------------------------------------------------
(***************************************************************************)
(* The first task                                                          *)
(***************************************************************************)

\* Mutant of NextBackoff: doubled without the cap.
NextBackoffUncapped(b) == b * 2

NextBackoff(b) == Min({b * 2, MaxBackoff})

\* The connection is dropped, with what was on the wire.
DropConnection(next) ==
    /\ conn' = next
    /\ peer' = "ended"
    /\ wire' = <<>>
    /\ owed' = 0
    /\ quiet' = 0
    /\ pingAge' = 0
    /\ stalled' = FALSE
    /\ UNCHANGED <<sent, backoff, awaiting, due, warned, holding, mailbox, receiverVars>>

\* Mutant of Connect: the flag of the connection before is kept.
ConnectStillAwaiting ==
    /\ conn = "connecting"
    /\ conn' = "up"
    /\ peer' = "alive"
    /\ backoff' = FirstBackoff
    /\ due' = 0
    /\ UNCHANGED <<wire, owed, sent, awaiting, warned, holding, mailbox, receiverVars,
                   historyVars>>

\* A connection starts with the first backoff, a new interval and no ping out.
Connect ==
    /\ conn = "connecting"
    /\ conn' = "up"
    /\ peer' = "alive"
    /\ backoff' = FirstBackoff
    /\ awaiting' = FALSE
    /\ due' = 0
    /\ UNCHANGED <<wire, owed, sent, warned, holding, mailbox, receiverVars, historyVars>>

ConnectFails ==
    /\ conn = "connecting"
    /\ conn' = "sleeping"
    /\ UNCHANGED <<upstreamVars, backoff, awaiting, due, warned, holding, mailbox,
                   receiverVars, historyVars>>

\* sleep returns.
Wake ==
    /\ conn = "sleeping"
    /\ conn' = "connecting"
    /\ backoff' = NextBackoff(backoff)
    /\ UNCHANGED <<upstreamVars, awaiting, due, warned, holding, mailbox, receiverVars,
                   historyVars>>

\* The select loop: the next frame, or a tick of the ping interval.
Selecting == conn = "up" /\ holding = 0

ReadFlashblock ==
    /\ Selecting
    /\ wire # <<>>
    /\ Head(wire).kind = "message"
    /\ wire' = Tail(wire)
    /\ IF Decodes(Head(wire).message)
       THEN holding' = Head(wire).id /\ RecordWireShape(Head(wire).message)
       ELSE UNCHANGED <<holding, warned>>
    /\ UNCHANGED <<peer, owed, sent, conn, backoff, awaiting, due, mailbox, receiverVars,
                   historyVars>>

ReadControl ==
    /\ Selecting
    /\ wire # <<>>
    /\ Head(wire).kind \in {"pong", "other"}
    /\ wire' = Tail(wire)
    /\ awaiting' = (awaiting /\ Head(wire).kind # "pong")
    /\ UNCHANGED <<peer, owed, sent, conn, backoff, due, warned, holding, mailbox,
                   receiverVars, historyVars>>

\* A close frame or an error ends the connection; the next one is tried at once.
ReadEnd ==
    /\ Selecting
    /\ wire # <<>>
    /\ Head(wire).kind \in {"close", "error"}
    /\ DropConnection("connecting")

\* Mutant of PutInMailbox: try_send, which drops the flashblock when full.
TryPutInMailbox ==
    /\ holding # 0
    /\ mailbox' = IF Len(mailbox) < Capacity THEN Append(mailbox, holding) ELSE mailbox
    /\ holding' = 0
    /\ UNCHANGED <<upstreamVars, conn, backoff, awaiting, due, warned, receiverVars,
                   historyVars>>

\* sender.send waits for room.
PutInMailbox ==
    /\ holding # 0
    /\ Len(mailbox) < Capacity
    /\ mailbox' = Append(mailbox, holding)
    /\ holding' = 0
    /\ UNCHANGED <<upstreamVars, conn, backoff, awaiting, due, warned, receiverVars,
                   historyVars>>

\* The ping goes out.  A stream that ended may still take it.
SendPing ==
    /\ awaiting' = TRUE
    /\ pingAge' = 1
    /\ due' = due - 1
    /\ owed' = owed + 1
    /\ UNCHANGED <<peer, wire, sent, conn, backoff, warned, holding, mailbox, receiverVars,
                   quiet, stalled>>

\* Mutant of Tick: a pong that is missing at the next tick is waited for.
TickWithoutDeadline ==
    /\ Selecting
    /\ due > 0
    /\ \/ ~awaiting /\ SendPing
       \/ /\ awaiting
          /\ due' = due - 1
          /\ UNCHANGED <<upstreamVars, conn, backoff, awaiting, warned, holding, mailbox,
                         receiverVars, historyVars>>

Tick ==
    /\ Selecting
    /\ due > 0
    /\ \/ awaiting /\ DropConnection("sleeping")
       \/ ~awaiting /\ SendPing
       \/ ~awaiting /\ peer = "ended" /\ DropConnection("sleeping")

ReadStep == ReadFlashblock \/ ReadControl \/ ReadEnd

-----------------------------------------------------------------------------
\* Mutant of Forward: a message is handed over before it is taken out.
ForwardTwice ==
    /\ mailbox # <<>>
    /\ handed <= sent
    /\ last' = Head(mailbox)
    /\ handed' = handed + 1
    /\ mailbox' \in {mailbox, Tail(mailbox)}
    /\ UNCHANGED <<upstreamVars, readerVars, historyVars>>

\* The second task: on_flashblock_received for the next message.
Forward ==
    /\ mailbox # <<>>
    /\ last' = Head(mailbox)
    /\ handed' = handed + 1
    /\ mailbox' = Tail(mailbox)
    /\ UNCHANGED <<upstreamVars, readerVars, historyVars>>

\* The reader waits for the mailbox.
Blocked == holding # 0 /\ Len(mailbox) = Capacity

\* A ping interval passes.
Elapse ==
    /\ conn = "up"
    /\ due = 0 \/ (Blocked /\ due < MaxDue)
    /\ due' = due + 1
    /\ quiet' = IF peer = "alive" \/ Blocked THEN quiet ELSE Min({quiet + 1, 3})
    /\ pingAge' = IF pingAge = 1 THEN 2 ELSE pingAge
    /\ stalled' = (stalled \/ Blocked)
    /\ UNCHANGED <<upstreamVars, conn, backoff, awaiting, warned, holding, mailbox,
                   receiverVars>>

Next ==
    \/ UpstreamStep
    \/ Connect \/ ConnectFails \/ Wake
    \/ ReadStep \/ PutInMailbox \/ Tick
    \/ Forward
    \/ Elapse

Spec == Init /\ [][Next]_vars

(***************************************************************************)
(* Both tasks are scheduled, select serves a branch that stays ready, and  *)
(* time passes.  Nothing is assumed of upstream: it need not accept a      *)
(* connection, answer a ping or send anything.                             *)
(***************************************************************************)
FairSpec ==
    /\ Spec
    /\ WF_vars(Tick)
    /\ WF_vars(ReadStep)
    /\ WF_vars(PutInMailbox)
    /\ WF_vars(Forward)
    /\ WF_vars(Elapse)

-----------------------------------------------------------------------------
(***************************************************************************)
(* Properties                                                              *)
(***************************************************************************)

\* Type correctness, with the limits of the mailbox, of the backoff and of the
\* keys warned about.
TypeOK ==
    /\ conn \in {"connecting", "up", "sleeping"}
    /\ peer \in {"alive", "silent", "ended"}
    /\ wire \in Seq(Frames)
    /\ owed \in Nat
    /\ sent \in Nat
    /\ backoff \in 1..MaxBackoff
    /\ awaiting \in BOOLEAN
    /\ due \in Nat
    /\ warned \in SUBSET Keys /\ Cardinality(warned) <= MaxWarnedKeys
    /\ holding \in 0..sent
    /\ mailbox \in Seq(1..sent) /\ Len(mailbox) <= Capacity
    /\ last \in 0..sent
    /\ handed \in Nat
    /\ quiet \in Nat
    /\ pingAge \in 0..2
    /\ stalled \in BOOLEAN

\* A connection whose other end went away is given up after at most two ping
\* intervals, whatever was on the wire and in the mailbox (the documentation of
\* --flashblocks.ping-interval), not counting those the reader spends waiting
\* for the mailbox.
DeadFeedDetected == quiet <= 2

\* A connection is given up for a missing pong only when the ping has been out
\* for an interval, except after the mailbox held the reader up: the ticks that
\* passed meanwhile then come in one burst.
PatientUnlessStalled ==
    Selecting /\ due > 0 /\ awaiting => pingAge = 2 \/ stalled

\* A connection whose other end went away is given up, also while the mailbox
\* is full: the receiver's progress is enough for the next tick to be seen.
DeadFeedReplaced == (conn = "up" /\ peer # "alive") ~> (conn # "up")

\* A flashblock that was read and decoded reaches the flashblocks state, also
\* when the mailbox was full or the connection is gone by then.
ReadIsDelivered == \A id \in 1..MaxSent : holding = id ~> last >= id

\* Seen from the flashblocks state, the subscriber is a feed in order and
\* without duplicates, across every reconnect.
AbstractFeed == INSTANCE Feed
ImplementsFeed == AbstractFeed!Spec
=============================================================================
