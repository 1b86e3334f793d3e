-------------------------- MODULE SubscriberProofs ---------------------------
(***************************************************************************)
(* Subscriber implements Feed, and the watch it keeps on its connection    *)
(* gives up a dead one in time and a slow one not too early: for any       *)
(* capacity, any messages and any number of connections that come and go.  *)
(***************************************************************************)
EXTENDS Subscriber, FiniteSetTheorems, TLAPS

(***************************************************************************)
(* What is on its way is in the order it was streamed: the flashblocks     *)
(* handed over come before those in the mailbox, these before the one that *)
(* waits for room, and that before those on the wire.                      *)
(***************************************************************************)
PathType ==
    /\ sent \in Nat /\ last \in Nat /\ handed \in Nat /\ holding \in Nat
    /\ mailbox \in Seq(Nat)
    /\ wire \in Seq(Frames)

MailboxInOrder ==
    /\ last <= sent /\ holding <= sent
    /\ \A i \in 1..Len(mailbox) : last < mailbox[i] /\ mailbox[i] <= sent
    /\ \A i, j \in 1..Len(mailbox) : i < j => mailbox[i] < mailbox[j]

HoldingInOrder ==
    holding # 0 =>
        last < holding /\ \A i \in 1..Len(mailbox) : mailbox[i] < holding

WireInOrder ==
    /\ \A i \in 1..Len(wire) : wire[i].kind = "message" =>
          /\ last < wire[i].id /\ holding < wire[i].id /\ wire[i].id <= sent
          /\ \A j \in 1..Len(mailbox) : mailbox[j] < wire[i].id
    /\ \A i, j \in 1..Len(wire) :
          i < j /\ wire[i].kind = "message" /\ wire[j].kind = "message" =>
              wire[i].id < wire[j].id

InOrder == PathType /\ MailboxInOrder /\ HoldingInOrder /\ WireInOrder

-----------------------------------------------------------------------------
\* The entries of a sequence after Append and after Tail.
LEMMA AppendEntries ==
    ASSUME NEW S, NEW s \in Seq(S), NEW e \in S
    PROVE  /\ Append(s, e) \in Seq(S)
           /\ Len(Append(s, e)) = Len(s) + 1
           /\ \A i \in 1..Len(s) : Append(s, e)[i] = s[i]
           /\ Append(s, e)[Len(s) + 1] = e
OBVIOUS

\* What is left when the first entry is taken.
LEMMA TailEntries ==
    ASSUME NEW S, NEW s \in Seq(S), s # <<>>
    PROVE  /\ Tail(s) \in Seq(S)
           /\ Len(Tail(s)) = Len(s) - 1
           /\ Len(s) \in Nat \ {0}
           /\ Head(s) = s[1] /\ s[1] \in S
           /\ \A i \in 1..Len(Tail(s)) : Tail(s)[i] = s[i + 1]
OBVIOUS

\* A frame that joins the wire.
LEMMA WireGrows ==
    ASSUME InOrder, NEW frame \in Frames, wire' = Append(wire, frame),
           UNCHANGED <<last, handed, holding, mailbox>>,
           sent' \in Nat, sent <= sent',
           frame.kind = "message" => frame.id = sent' /\ sent < sent'
    PROVE  InOrder'
<1> USE DEF InOrder
<1>1. PathType'
  BY AppendEntries DEF PathType
<1>2. MailboxInOrder' /\ HoldingInOrder'
  BY DEF PathType, MailboxInOrder, HoldingInOrder
<1>3. /\ Len(wire') = Len(wire) + 1 /\ Len(wire) \in Nat
      /\ \A i \in 1..Len(wire) : wire'[i] = wire[i]
      /\ wire'[Len(wire) + 1] = frame
  BY AppendEntries DEF PathType
<1>4. \A i \in 1..Len(mailbox) : mailbox[i] \in Nat
  BY DEF PathType
<1>5. ASSUME NEW i \in 1..Len(wire'), wire'[i].kind = "message"
      PROVE  /\ last < wire'[i].id /\ holding < wire'[i].id /\ wire'[i].id <= sent'
             /\ \A j \in 1..Len(mailbox) : mailbox[j] < wire'[i].id
  <2>1. CASE i = Len(wire) + 1
    BY <1>3, <1>4, <1>5, <2>1 DEF PathType, MailboxInOrder
  <2>2. CASE i # Len(wire) + 1
    <3>1. i \in 1..Len(wire) /\ wire'[i] = wire[i]
      BY <1>3, <2>2
    <3>2. wire[i] \in Frames
      BY <3>1 DEF PathType
    <3>3. wire[i].id \in Nat
      BY <1>5, <3>1, <3>2 DEF Frames
    <3> QED BY <1>5, <3>1, <3>3 DEF PathType, WireInOrder
  <2> QED BY <2>1, <2>2
<1>6. ASSUME NEW i \in 1..Len(wire'), NEW j \in 1..Len(wire'), i < j,
             wire'[i].kind = "message", wire'[j].kind = "message"
      PROVE  wire'[i].id < wire'[j].id
  <2>1. i \in 1..Len(wire) /\ wire'[i] = wire[i]
    BY <1>3, <1>6
  <2>2. wire[i].id \in Nat /\ wire[i].id <= sent
    BY <1>6, <2>1 DEF PathType, WireInOrder, Frames
  <2>3. CASE j = Len(wire) + 1
    BY <1>3, <1>6, <2>1, <2>2, <2>3 DEF PathType
  <2>4. CASE j # Len(wire) + 1
    <3>1. j \in 1..Len(wire) /\ wire'[j] = wire[j]
      BY <1>3, <2>4
    <3> QED BY <1>6, <2>1, <3>1 DEF WireInOrder
  <2> QED BY <2>3, <2>4
<1>7. WireInOrder'
  BY <1>5, <1>6 DEF WireInOrder
<1> QED BY <1>1, <1>2, <1>7

\* A frame that is read and not kept, or a connection that is dropped with its frames.
LEMMA WireShrinks ==
    ASSUME InOrder, wire' = <<>> \/ (wire # <<>> /\ wire' = Tail(wire)),
           UNCHANGED <<sent, last, handed, holding, mailbox>>
    PROVE  InOrder'
<1> USE DEF InOrder
<1>1. PathType'
  <2>1. wire \in Seq(Frames)
    BY DEF PathType
  <2>2. wire' \in Seq(Frames)
    <3>1. CASE wire' = <<>>
      BY <3>1
    <3>2. CASE wire # <<>> /\ wire' = Tail(wire)
      BY <2>1, <3>2, TailEntries
    <3> QED BY <3>1, <3>2
  <2> QED BY <2>2 DEF PathType
<1>2. MailboxInOrder' /\ HoldingInOrder'
  BY DEF MailboxInOrder, HoldingInOrder
<1>3. WireInOrder'
  <2>1. CASE wire' = <<>>
    BY <2>1 DEF WireInOrder
  <2>2. CASE wire # <<>> /\ wire' = Tail(wire)
    <3>1. /\ \A i \in 1..Len(wire') : i + 1 \in 1..Len(wire) /\ wire'[i] = wire[i + 1]
          /\ Len(wire') \in Nat
      BY <2>2, TailEntries DEF PathType
    <3>2. \A i, j \in 1..Len(wire') : i < j => i + 1 < j + 1
      OBVIOUS
    <3> QED BY <3>1, <3>2 DEF WireInOrder
  <2> QED BY <2>1, <2>2
<1> QED BY <1>1, <1>2, <1>3

\* A flashblock that is read and decoded.
LEMMA WireToHolding ==
    ASSUME InOrder, holding = 0, wire # <<>>, Head(wire).kind = "message",
           wire' = Tail(wire), holding' = Head(wire).id,
           UNCHANGED <<sent, last, handed, mailbox>>
    PROVE  InOrder'
<1> USE DEF InOrder
<1>1. /\ Head(wire) = wire[1] /\ 1 \in 1..Len(wire) /\ wire[1] \in Frames
      /\ \A i \in 1..Len(wire') :
            i + 1 \in 1..Len(wire) /\ 1 < i + 1 /\ wire'[i] = wire[i + 1]
      /\ wire' \in Seq(Frames)
  BY TailEntries DEF PathType
<1>2. holding' \in Nat
  BY <1>1 DEF Frames
<1>3. PathType'
  BY <1>1, <1>2 DEF PathType
<1>4. /\ last < holding' /\ holding' <= sent
      /\ \A j \in 1..Len(mailbox) : mailbox[j] < holding'
  BY <1>1 DEF WireInOrder
<1>5. MailboxInOrder' /\ HoldingInOrder'
  BY <1>4 DEF MailboxInOrder, HoldingInOrder
<1>6. WireInOrder'
  BY <1>1 DEF WireInOrder
<1> QED BY <1>3, <1>5, <1>6

\* sender.send.
LEMMA HoldingToMailbox ==
    ASSUME InOrder, PutInMailbox
    PROVE  InOrder'
<1> USE DEF InOrder
<1>1. /\ holding # 0 /\ mailbox' = Append(mailbox, holding) /\ holding' = 0
      /\ UNCHANGED <<sent, last, handed, wire>>
  BY DEF PutInMailbox, upstreamVars, receiverVars
<1>2. /\ mailbox' \in Seq(Nat)
      /\ Len(mailbox') = Len(mailbox) + 1 /\ Len(mailbox) \in Nat
      /\ \A i \in 1..Len(mailbox) : mailbox'[i] = mailbox[i]
      /\ mailbox'[Len(mailbox) + 1] = holding
  BY <1>1, AppendEntries DEF PathType
<1>3. PathType'
  BY <1>1, <1>2 DEF PathType
<1>4. MailboxInOrder'
  BY <1>1, <1>2 DEF PathType, MailboxInOrder, HoldingInOrder
<1>5. ASSUME NEW i \in 1..Len(wire), wire[i].kind = "message"
      PROVE  0 < wire[i].id /\ \A j \in 1..Len(mailbox') : mailbox'[j] < wire[i].id
  <2>1. wire[i] \in Frames
    BY DEF PathType
  <2>2. wire[i].id \in Nat
    BY <1>5, <2>1 DEF Frames
  <2>3. /\ holding < wire[i].id
        /\ \A j \in 1..Len(mailbox) : mailbox[j] < wire[i].id
    BY <1>5 DEF WireInOrder
  <2> QED BY <1>1, <1>2, <2>2, <2>3 DEF PathType
<1>6. HoldingInOrder' /\ WireInOrder'
  BY <1>1, <1>5 DEF HoldingInOrder, WireInOrder
<1> QED BY <1>3, <1>4, <1>6

\* on_flashblock_received: the flashblock handed over is newer than the last.
LEMMA MailboxToState ==
    ASSUME InOrder, Forward
    PROVE  InOrder' /\ last < last' /\ last' <= sent
<1> USE DEF InOrder
<1>1. /\ mailbox # <<>> /\ last' = Head(mailbox) /\ mailbox' = Tail(mailbox)
      /\ handed' = handed + 1
      /\ UNCHANGED <<sent, wire, holding>>
  BY DEF Forward, upstreamVars, readerVars
<1>2. /\ last' = mailbox[1] /\ 1 \in 1..Len(mailbox) /\ mailbox[1] \in Nat
      /\ mailbox' \in Seq(Nat) /\ Len(mailbox') \in Nat
      /\ \A i \in 1..Len(mailbox') :
            i + 1 \in 1..Len(mailbox) /\ 1 < i + 1 /\ mailbox'[i] = mailbox[i + 1]
  BY <1>1, TailEntries DEF PathType
<1>3. last < last' /\ last' <= sent
  BY <1>2 DEF MailboxInOrder
<1>4. PathType'
  BY <1>1, <1>2 DEF PathType
<1>5. MailboxInOrder'
  BY <1>1, <1>2, <1>3 DEF MailboxInOrder
<1>6. HoldingInOrder' /\ WireInOrder'
  BY <1>1, <1>2 DEF HoldingInOrder, WireInOrder
<1> QED BY <1>3, <1>4, <1>5, <1>6

-----------------------------------------------------------------------------
\* At first nothing was sent.
LEMMA InitInOrder == Init => InOrder
BY DEF Init, InOrder, PathType, MailboxInOrder, HoldingInOrder, WireInOrder

\* Every step keeps the order, and is a step of Feed or none that it sees.
LEMMA StepInOrder ==
    InOrder /\ [Next]_vars => InOrder' /\ [AbstractFeed!Next]_(AbstractFeed!feedVars)
<1> SUFFICES ASSUME InOrder, [Next]_vars
             PROVE  /\ InOrder'
                    /\ AbstractFeed!Next \/ UNCHANGED <<sent, last, handed>>
  BY DEF AbstractFeed!feedVars
<1> USE DEF upstreamVars, readerVars, historyVars, receiverVars
<1>1. CASE \E m \in Shapes : StreamFlashblock(m)
  <2>1. PICK m \in Shapes : StreamFlashblock(m)
    BY <1>1
  <2>2. sent' = sent + 1 /\ UNCHANGED <<last, handed, holding, mailbox>> /\ sent \in Nat
    BY <2>1 DEF StreamFlashblock, InOrder, PathType
  <2>3. AbstractFeed!Next
    BY <2>2 DEF AbstractFeed!Next, AbstractFeed!Stream
  <2>4. CASE wire' = Append(wire, Flashblock(sent + 1, m))
    <3>1. Flashblock(sent + 1, m) \in Frames
      BY <2>2 DEF Flashblock, Frames
    <3>2. Flashblock(sent + 1, m).id = sent'
      BY <2>2 DEF Flashblock
    <3> QED BY <2>2, <2>3, <2>4, <3>1, <3>2, WireGrows
  <2>5. CASE UNCHANGED wire
    <3>1. PathType' /\ MailboxInOrder' /\ HoldingInOrder'
      BY <2>2, <2>5 DEF InOrder, PathType, MailboxInOrder, HoldingInOrder
    <3>2. ASSUME NEW i \in 1..Len(wire), wire[i].kind = "message"
          PROVE  wire[i].id <= sent'
      <4>1. wire[i] \in Frames
        BY DEF InOrder, PathType
      <4>2. wire[i].id \in Nat
        BY <3>2, <4>1 DEF Frames
      <4> QED BY <2>2, <3>2, <4>2 DEF InOrder, WireInOrder
    <3>3. WireInOrder'
      BY <2>2, <2>5, <3>2 DEF InOrder, WireInOrder
    <3> QED BY <2>3, <3>1, <3>3 DEF InOrder
  <2> QED BY <2>1, <2>4, <2>5 DEF StreamFlashblock, InFlight
<1>2. CASE AnswerPing \/ \E kind \in {"close", "error", "other"} : SendControl(kind)
  <2>1. PICK kind \in {"pong", "close", "error", "other"} :
           wire' = Append(wire, Frame(kind))
    BY <1>2 DEF AnswerPing, SendControl, InFlight
  <2>2. UNCHANGED <<sent, last, handed, holding, mailbox>>
    BY <1>2 DEF AnswerPing, SendControl
  <2>3. Frame(kind) \in Frames /\ Frame(kind).kind # "message"
    BY DEF Frame, Frames
  <2> QED BY <2>1, <2>2, <2>3, WireGrows DEF InOrder, PathType
<1>3. CASE \/ \E how \in {"silent", "ended"} : GoAway(how)
           \/ Connect \/ ConnectFails \/ Wake \/ Elapse
           \/ UNCHANGED vars
  <2>1. UNCHANGED <<sent, last, handed, holding, mailbox, wire>>
    BY <1>3 DEF GoAway, Connect, ConnectFails, Wake, Elapse, vars
  <2> QED
    BY <2>1 DEF InOrder, PathType, MailboxInOrder, HoldingInOrder, WireInOrder
<1>4. CASE ReadFlashblock
  <2>1. CASE Decodes(Head(wire).message)
    BY <1>4, <2>1, WireToHolding DEF ReadFlashblock, Selecting
  <2>2. CASE ~Decodes(Head(wire).message)
    BY <1>4, <2>2, WireShrinks DEF ReadFlashblock
  <2> QED BY <2>1, <2>2, <1>4 DEF ReadFlashblock
<1>5. CASE ReadControl
  BY <1>5, WireShrinks DEF ReadControl
<1>6. CASE ReadEnd
  BY <1>6, WireShrinks DEF ReadEnd, DropConnection
<1>7. CASE Tick
  <2>1. CASE DropConnection("sleeping")
    BY <2>1, WireShrinks DEF DropConnection
  <2>2. CASE SendPing
    <3>1. UNCHANGED <<sent, last, handed, holding, mailbox, wire>>
      BY <2>2 DEF SendPing
    <3> QED
      BY <3>1 DEF InOrder, PathType, MailboxInOrder, HoldingInOrder, WireInOrder
  <2> QED BY <1>7, <2>1, <2>2 DEF Tick
<1>8. CASE PutInMailbox
  BY <1>8, HoldingToMailbox DEF PutInMailbox
<1>9. CASE Forward
  <2>1. InOrder' /\ last < last' /\ last' <= sent
    BY <1>9, MailboxToState
  <2>2. last' \in last + 1 .. sent /\ handed' = handed + 1 /\ UNCHANGED sent
    BY <1>9, <2>1 DEF Forward, InOrder, PathType
  <2> QED BY <2>1, <2>2 DEF AbstractFeed!Next, AbstractFeed!HandOver
<1> QED
  BY <1>1, <1>2, <1>3, <1>4, <1>5, <1>6, <1>7, <1>8, <1>9
  DEF Next, UpstreamStep, ReadStep

(***************************************************************************)
(* Across any number of reconnects, with any capacity of the mailbox, the  *)
(* flashblocks state is handed flashblocks in the order they were streamed *)
(* and none of them twice.                                                 *)
(***************************************************************************)
THEOREM SubscriberImplementsFeed == Spec => ImplementsFeed
<1>1. Init => AbstractFeed!Init
  BY DEF Init, AbstractFeed!Init
<1> QED
  BY <1>1, InitInOrder, StepInOrder, PTL DEF Spec, ImplementsFeed, AbstractFeed!Spec
-----------------------------------------------------------------------------
\* The least of two numbers, as the backoff and the keys warned about use it.
LEMMA LeastOfTwo ==
    ASSUME NEW a \in Nat, NEW b \in Nat
    PROVE  /\ Min({a, b}) \in {a, b}
           /\ Min({a, b}) <= a /\ Min({a, b}) <= b
<1>1. \E x \in {a, b} : \A y \in {a, b} : x <= y
  <2>1. CASE a <= b
    BY <2>1
  <2>2. CASE ~(a <= b)
    BY <2>2
  <2> QED BY <2>1, <2>2
<1>2. Min({a, b}) \in {a, b} /\ \A y \in {a, b} : Min({a, b}) <= y
  BY <1>1 DEF Min
<1> QED BY <1>2

\* record_wire_shape stays within the limit of keys it warns about.
LEMMA WarnedWithinLimit ==
    ASSUME NEW m \in Shapes, warned \in SUBSET Keys, RecordWireShape(m)
    PROVE  warned' \in SUBSET Keys /\ Cardinality(warned') <= MaxWarnedKeys
<1> DEFINE wanted == warned \cup m.unknown
<1>1. m \in Message
  BY ShapesAssumption
<1>2. m.unknown \in SUBSET Keys
  BY <1>1 DEF Message
<1>3. wanted \in SUBSET Keys
  BY <1>2
<1>4. Cardinality(wanted) \in Nat
  BY <1>3, LimitsAssumption, FS_Subset, FS_CardinalityType
<1>5. /\ warned' \in SUBSET wanted
      /\ Cardinality(warned') = Min({MaxWarnedKeys, Cardinality(wanted)})
  BY DEF RecordWireShape
<1> HIDE DEF wanted
<1>6. Min({MaxWarnedKeys, Cardinality(wanted)}) <= MaxWarnedKeys
  BY <1>4, LeastOfTwo, LimitsAssumption
<1> QED BY <1>3, <1>5, <1>6

\* The backoff doubles up to its cap.
LEMMA BackoffCapped ==
    ASSUME NEW b \in 1..MaxBackoff
    PROVE  NextBackoff(b) \in 1..MaxBackoff
<1>1. b * 2 \in Nat /\ MaxBackoff \in Nat /\ b * 2 >= 1 /\ MaxBackoff >= 1
  BY LimitsAssumption
<1>2. /\ Min({b * 2, MaxBackoff}) \in {b * 2, MaxBackoff}
      /\ Min({b * 2, MaxBackoff}) <= MaxBackoff
  BY <1>1, LeastOfTwo
<1> QED BY <1>1, <1>2 DEF NextBackoff

(***************************************************************************)
(* The part of TypeOK that the order of the path does not give.            *)
(***************************************************************************)
ControlType ==
    /\ conn \in {"connecting", "up", "sleeping"}
    /\ peer \in {"alive", "silent", "ended"}
    /\ owed \in Nat
    /\ backoff \in 1..MaxBackoff
    /\ awaiting \in BOOLEAN
    /\ due \in Nat
    /\ warned \in SUBSET Keys /\ Cardinality(warned) <= MaxWarnedKeys
    /\ Len(mailbox) <= Capacity
    /\ quiet \in Nat
    /\ pingAge \in 0..2
    /\ stalled \in BOOLEAN

\* The entries of the mailbox are flashblocks that were streamed.
LEMMA PathAndControlType == InOrder /\ ControlType => TypeOK
<1> SUFFICES ASSUME InOrder, ControlType
             PROVE  TypeOK
  OBVIOUS
<1> USE DEF InOrder, PathType, MailboxInOrder
<1>1. mailbox \in [1..Len(mailbox) -> Nat] /\ Len(mailbox) \in Nat
  OBVIOUS
<1>2. \A i \in 1..Len(mailbox) : mailbox[i] \in 1..sent
  BY <1>1
<1>3. mailbox \in [1..Len(mailbox) -> 1..sent]
  BY <1>1, <1>2
<1>4. mailbox \in Seq(1..sent)
  BY <1>1, <1>3
<1>5. holding \in 0..sent /\ last \in 0..sent
  OBVIOUS
<1> QED BY <1>4, <1>5 DEF TypeOK, ControlType

\* At first nothing is connected.
LEMMA InitControlType == Init => ControlType
<1> SUFFICES ASSUME Init
             PROVE  ControlType
  OBVIOUS
<1>1. Cardinality({}) = 0
  BY FS_EmptySet
<1>2. 1 \in 1..MaxBackoff /\ 0 <= MaxWarnedKeys /\ 0 <= Capacity /\ 0 \in 0..2
  BY LimitsAssumption
<1>3. Len(mailbox) = 0
  BY DEF Init
<1>4. awaiting \in BOOLEAN /\ stalled \in BOOLEAN
  BY DEF Init
<1> QED BY <1>1, <1>2, <1>3, <1>4 DEF Init, ControlType, FirstBackoff

\* Every step keeps the types.
LEMMA StepControlType == InOrder /\ ControlType /\ [Next]_vars => ControlType'
<1> SUFFICES ASSUME InOrder, ControlType, [Next]_vars
             PROVE  ControlType'
  OBVIOUS
<1> USE DEF ControlType, upstreamVars, readerVars, historyVars, receiverVars
<1>1. ASSUME NEW next \in {"connecting", "sleeping"}, DropConnection(next)
      PROVE  ControlType'
  <2>1. stalled' \in BOOLEAN /\ awaiting' \in BOOLEAN
    BY <1>1 DEF DropConnection
  <2>2. 0 \in 0..2 /\ 0 \in Nat
    OBVIOUS
  <2> QED BY <1>1, <2>1, <2>2 DEF DropConnection
<1>2. CASE UpstreamStep
  <2>1. UNCHANGED <<conn, backoff, awaiting, due, warned, mailbox, quiet, pingAge, stalled>>
    BY <1>2 DEF UpstreamStep, StreamFlashblock, AnswerPing, SendControl, GoAway
  <2>2. peer' \in {peer, "silent", "ended"}
    BY <1>2 DEF UpstreamStep, StreamFlashblock, AnswerPing, SendControl, GoAway
  <2>3. owed' = owed \/ (owed > 0 /\ owed' = owed - 1)
    BY <1>2 DEF UpstreamStep, StreamFlashblock, AnswerPing, SendControl, GoAway
  <2> QED BY <2>1, <2>2, <2>3
<1>3. CASE Connect \/ ConnectFails
  <2>1. backoff' \in 1..MaxBackoff
    BY <1>3, LimitsAssumption DEF Connect, ConnectFails, FirstBackoff
  <2>2. awaiting' \in BOOLEAN
    BY <1>3 DEF Connect, ConnectFails
  <2> QED BY <1>3, <2>1, <2>2 DEF Connect, ConnectFails
<1>4. CASE Wake
  BY <1>4, BackoffCapped DEF Wake
<1>5. CASE ReadFlashblock
  <2>1. Head(wire) \in Frames /\ Head(wire).kind = "message"
    BY <1>5, TailEntries DEF ReadFlashblock, InOrder, PathType
  <2>2. Head(wire).message \in Shapes
    BY <2>1 DEF Frames
  <2>3. warned' \in SUBSET Keys /\ Cardinality(warned') <= MaxWarnedKeys
    BY <1>5, <2>2, WarnedWithinLimit DEF ReadFlashblock
  <2> QED BY <1>5, <2>3 DEF ReadFlashblock
<1>6. CASE ReadControl
  BY <1>6 DEF ReadControl
<1>7. CASE ReadEnd
  BY <1>1, <1>7 DEF ReadEnd
<1>8. CASE PutInMailbox
  <2>1. mailbox \in Seq(Nat) /\ holding \in Nat
    BY DEF InOrder, PathType
  <2>2. Len(mailbox') = Len(mailbox) + 1 /\ Len(mailbox) \in Nat
    BY <1>8, <2>1, AppendEntries DEF PutInMailbox
  <2> QED BY <1>8, <2>2, LimitsAssumption DEF PutInMailbox
<1>9. CASE Tick
  <2>1. CASE SendPing
    BY <1>9, <2>1 DEF Tick, SendPing
  <2> QED BY <1>1, <1>9, <2>1 DEF Tick
<1>10. CASE Forward
  <2>1. Len(mailbox') = Len(mailbox) - 1 /\ Len(mailbox) \in Nat
    BY <1>10, TailEntries DEF Forward, InOrder, PathType
  <2> QED BY <1>10, <2>1, LimitsAssumption DEF Forward
<1>11. CASE Elapse
  <2>1. quiet' \in Nat
    <3>1. Min({quiet + 1, 3}) \in {quiet + 1, 3}
      BY LeastOfTwo
    <3> QED BY <1>11, <3>1 DEF Elapse
  <2> QED BY <1>11, <2>1 DEF Elapse
<1>12. CASE UNCHANGED vars
  BY <1>12 DEF vars
<1> QED
  BY <1>2, <1>3, <1>4, <1>5, <1>6, <1>7, <1>8, <1>9, <1>10, <1>11, <1>12
  DEF Next, ReadStep

\* The mailbox never holds more than its capacity, the backoff never passes its
\* cap, and no more keys are warned about than the limit allows.
THEOREM SubscriberTypeOK == Spec => []TypeOK
BY InitInOrder, StepInOrder, InitControlType, StepControlType, PathAndControlType, PTL
DEF Spec

-----------------------------------------------------------------------------
(***************************************************************************)
(* The watch on the connection.  At most one ping is out: either the other *)
(* end still owes its pong, or the pong is on the wire, or it was read and *)
(* the flag is down.                                                       *)
(***************************************************************************)
PongOnWire == \E i \in 1..Len(wire) : wire[i].kind = "pong"

NoConnection == conn # "up" =>
    peer = "ended" /\ wire = <<>> /\ owed = 0 /\ quiet = 0 /\ pingAge = 0 /\ ~stalled

OnePingOut == conn = "up" =>
    /\ ~awaiting => owed = 0 /\ ~PongOnWire
    /\ owed > 0 => owed = 1 /\ ~PongOnWire
    /\ \A i, j \in 1..Len(wire) : wire[i].kind = "pong" /\ wire[j].kind = "pong" => i = j

\* No pong will come any more for a ping that is out.
Hopeless == awaiting /\ ~PongOnWire

(***************************************************************************)
(* After one quiet interval a tick is due, or a ping is out that nobody    *)
(* will answer; after two, both: the next thing the reader does with the   *)
(* interval is to give the connection up.                                  *)
(***************************************************************************)
QuietInv ==
    /\ quiet \in 0..2
    /\ quiet > 0 => peer # "alive"
    /\ quiet = 1 => due > 0 \/ Hopeless
    /\ quiet = 2 => due > 0 /\ Hopeless

\* Ticks pile up only behind the mailbox; otherwise a tick that is due comes
\* after the interval of the ping.
PatienceInv ==
    conn = "up" =>
        /\ awaiting => pingAge > 0
        /\ ~stalled => due <= 1
        /\ awaiting /\ due > 0 => pingAge = 2 \/ stalled

WatchInv == NoConnection /\ OnePingOut /\ QuietInv /\ PatienceInv

\* At first nothing is connected.
LEMMA InitWatch == Init => WatchInv
BY DEF Init, WatchInv, NoConnection, OnePingOut, QuietInv, PatienceInv

\* A wire that shrinks holds no pong that it did not hold before.
LEMMA ShrunkWire ==
    ASSUME wire \in Seq(Frames), wire # <<>>, wire' = Tail(wire)
    PROVE  /\ PongOnWire' => PongOnWire
           /\ (\A i, j \in 1..Len(wire) :
                  wire[i].kind = "pong" /\ wire[j].kind = "pong" => i = j) =>
                 /\ \A i, j \in 1..Len(wire') :
                       wire'[i].kind = "pong" /\ wire'[j].kind = "pong" => i = j
                 /\ Head(wire).kind = "pong" => ~PongOnWire'
<1>1. /\ Head(wire) = wire[1] /\ 1 \in 1..Len(wire)
      /\ Len(wire') \in Nat
      /\ \A i \in 1..Len(wire') :
            i + 1 \in 1..Len(wire) /\ 1 # i + 1 /\ wire'[i] = wire[i + 1]
  BY TailEntries
<1>2. PongOnWire' => PongOnWire
  BY <1>1 DEF PongOnWire
<1>3. SUFFICES ASSUME \A i, j \in 1..Len(wire) :
                         wire[i].kind = "pong" /\ wire[j].kind = "pong" => i = j
               PROVE  /\ \A i, j \in 1..Len(wire') :
                            wire'[i].kind = "pong" /\ wire'[j].kind = "pong" => i = j
                      /\ Head(wire).kind = "pong" => ~PongOnWire'
  BY <1>2
<1>4. ASSUME NEW i \in 1..Len(wire'), NEW j \in 1..Len(wire'),
             wire'[i].kind = "pong", wire'[j].kind = "pong"
      PROVE  i = j
  <2>1. i + 1 = j + 1
    BY <1>1, <1>3, <1>4
  <2> QED BY <2>1
<1>5. ASSUME Head(wire).kind = "pong", NEW i \in 1..Len(wire'), wire'[i].kind = "pong"
      PROVE  FALSE
  BY <1>1, <1>3, <1>5
<1> QED BY <1>4, <1>5 DEF PongOnWire

\* A frame that joins the wire is a pong only if a ping was owed one.
LEMMA GrownWire ==
    ASSUME wire \in Seq(Frames), NEW frame \in Frames, wire' = Append(wire, frame)
    PROVE  /\ frame.kind # "pong" =>
                 /\ PongOnWire' <=> PongOnWire
                 /\ (\A i, j \in 1..Len(wire) :
                        wire[i].kind = "pong" /\ wire[j].kind = "pong" => i = j) =>
                    \A i, j \in 1..Len(wire') :
                        wire'[i].kind = "pong" /\ wire'[j].kind = "pong" => i = j
           /\ ~PongOnWire =>
                 \A i, j \in 1..Len(wire') :
                     wire'[i].kind = "pong" /\ wire'[j].kind = "pong" => i = j
<1>1. /\ Len(wire) \in Nat /\ Len(wire') = Len(wire) + 1
      /\ \A i \in 1..Len(wire) : wire'[i] = wire[i]
      /\ wire'[Len(wire) + 1] = frame
  BY AppendEntries
<1>2. \A i \in 1..Len(wire') : i \in 1..Len(wire) \/ i = Len(wire) + 1
  BY <1>1
<1>3. \A i \in 1..Len(wire) : i \in 1..Len(wire')
  BY <1>1
<1> QED BY <1>1, <1>2, <1>3 DEF PongOnWire

\* Every step keeps the watch.
LEMMA StepWatch ==
    InOrder /\ ControlType /\ WatchInv /\ [Next]_vars => WatchInv'
<1> SUFFICES ASSUME InOrder, ControlType, WatchInv, [Next]_vars
             PROVE  WatchInv'
  OBVIOUS
<1> USE DEF WatchInv, upstreamVars, readerVars, historyVars, receiverVars
<1>1. wire \in Seq(Frames)
  BY DEF InOrder, PathType
<1>2. ASSUME NEW next \in {"connecting", "sleeping"}, DropConnection(next)
      PROVE  WatchInv'
  <2>1. NoConnection' /\ OnePingOut'
    BY <1>2 DEF DropConnection, NoConnection, OnePingOut
  <2>2. QuietInv' /\ PatienceInv'
    BY <1>2 DEF DropConnection, QuietInv, PatienceInv
  <2> QED BY <2>1, <2>2
<1>3. ASSUME UNCHANGED <<conn, wire, owed, awaiting, due, quiet, pingAge, stalled>>,
             peer' # "alive" \/ UNCHANGED peer, conn # "up" => UNCHANGED peer
      PROVE  WatchInv'
  <2>1. NoConnection' /\ OnePingOut'
    BY <1>3 DEF NoConnection, OnePingOut, PongOnWire
  <2>2. QuietInv' /\ PatienceInv'
    BY <1>3 DEF QuietInv, PatienceInv, Hopeless, PongOnWire
  <2> QED BY <2>1, <2>2
<1>4. ASSUME NEW frame \in Frames, InFlight(frame), frame.kind # "pong",
             UNCHANGED <<conn, owed, awaiting, due, quiet, pingAge, stalled>>
      PROVE  WatchInv'
  <2>1. NoConnection' /\ OnePingOut'
    BY <1>1, <1>4, GrownWire DEF InFlight, NoConnection, OnePingOut
  <2>2. QuietInv' /\ PatienceInv'
    BY <1>4 DEF InFlight, QuietInv, PatienceInv
  <2> QED BY <2>1, <2>2
<1>5. CASE UpstreamStep
  <2>1. ASSUME NEW m \in Shapes, StreamFlashblock(m)
        PROVE  WatchInv'
    <3>1. CASE InFlight(Flashblock(sent + 1, m))
      <4>1. Flashblock(sent + 1, m) \in Frames /\ Flashblock(sent + 1, m).kind # "pong"
        BY DEF Flashblock, Frames, InOrder, PathType
      <4> QED BY <1>4, <2>1, <3>1, <4>1 DEF StreamFlashblock
    <3> QED BY <1>3, <2>1, <3>1 DEF StreamFlashblock
  <2>2. CASE AnswerPing
    <3>1. Frame("pong") \in Frames
      BY DEF Frame, Frames
    <3>2. NoConnection' /\ OnePingOut'
      BY <1>1, <2>2, <3>1, GrownWire
      DEF AnswerPing, InFlight, NoConnection, OnePingOut, ControlType
    <3>3. QuietInv' /\ PatienceInv'
      BY <2>2 DEF AnswerPing, InFlight, QuietInv, PatienceInv
    <3> QED BY <3>2, <3>3
  <2>3. ASSUME NEW kind \in {"close", "error", "other"}, SendControl(kind)
        PROVE  WatchInv'
    <3>1. Frame(kind) \in Frames /\ Frame(kind).kind # "pong"
      BY DEF Frame, Frames
    <3> QED BY <1>4, <2>3, <3>1 DEF SendControl
  <2>4. ASSUME NEW how \in {"silent", "ended"}, GoAway(how)
        PROVE  WatchInv'
    BY <1>3, <2>4 DEF GoAway
  <2> QED BY <1>5, <2>1, <2>2, <2>3, <2>4 DEF UpstreamStep
<1>6. CASE Connect
  <2>1. ~PongOnWire'
    BY <1>6 DEF Connect, NoConnection, PongOnWire
  <2>2. NoConnection' /\ OnePingOut'
    BY <1>6, <2>1 DEF Connect, NoConnection, OnePingOut, PongOnWire
  <2>3. QuietInv' /\ PatienceInv'
    BY <1>6 DEF Connect, NoConnection, QuietInv, PatienceInv
  <2> QED BY <2>2, <2>3
<1>7. CASE ConnectFails \/ Wake
  <2>1. NoConnection' /\ OnePingOut'
    BY <1>7 DEF ConnectFails, Wake, NoConnection, OnePingOut
  <2>2. QuietInv' /\ PatienceInv'
    BY <1>7 DEF ConnectFails, Wake, NoConnection, QuietInv, PatienceInv
  <2> QED BY <2>1, <2>2
<1>8. CASE ReadFlashblock
  <2>1. NoConnection' /\ OnePingOut'
    BY <1>1, <1>8, ShrunkWire DEF ReadFlashblock, Selecting, NoConnection, OnePingOut
  <2>2. QuietInv' /\ PatienceInv'
    BY <1>1, <1>8, ShrunkWire DEF ReadFlashblock, QuietInv, PatienceInv, Hopeless
  <2> QED BY <2>1, <2>2
<1>9. CASE ReadControl
  <2>1. CASE Head(wire).kind = "pong"
    <3>1. PongOnWire
      BY <1>1, <1>9, <2>1, TailEntries DEF ReadControl, PongOnWire
    <3>2. NoConnection' /\ OnePingOut'
      BY <1>1, <1>9, <2>1, <3>1, ShrunkWire
      DEF ReadControl, Selecting, NoConnection, OnePingOut, ControlType
    <3>3. QuietInv' /\ PatienceInv'
      BY <1>9, <2>1, <3>1 DEF ReadControl, QuietInv, PatienceInv, Hopeless
    <3> QED BY <3>2, <3>3
  <2>2. CASE Head(wire).kind = "other"
    <3>1. awaiting' = awaiting
      BY <1>9, <2>2 DEF ReadControl, ControlType
    <3>2. NoConnection' /\ OnePingOut'
      BY <1>1, <1>9, <3>1, ShrunkWire DEF ReadControl, Selecting, NoConnection, OnePingOut
    <3>3. QuietInv' /\ PatienceInv'
      BY <1>1, <1>9, <3>1, ShrunkWire DEF ReadControl, QuietInv, PatienceInv, Hopeless
    <3> QED BY <3>2, <3>3
  <2> QED BY <1>9, <2>1, <2>2 DEF ReadControl
<1>10. CASE ReadEnd
  BY <1>2, <1>10 DEF ReadEnd
<1>11. CASE PutInMailbox
  BY <1>3, <1>11 DEF PutInMailbox
<1>12. CASE Tick
  <2>1. CASE ~awaiting /\ SendPing
    <3>1. ~PongOnWire' /\ owed = 0
      BY <1>12, <2>1 DEF Tick, Selecting, SendPing, OnePingOut, PongOnWire
    <3>2. NoConnection' /\ OnePingOut'
      BY <1>12, <2>1, <3>1
      DEF Tick, Selecting, SendPing, NoConnection, OnePingOut, PongOnWire
    <3>3. QuietInv'
      BY <2>1, <3>1 DEF SendPing, QuietInv, Hopeless
    <3>4. PatienceInv'
      BY <1>12, <2>1 DEF Tick, Selecting, SendPing, PatienceInv, ControlType
    <3> QED BY <3>2, <3>3, <3>4
  <2> QED BY <1>2, <1>12, <2>1 DEF Tick
<1>13. CASE Forward
  BY <1>3, <1>13 DEF Forward
<1>14. CASE Elapse
  <2>1. NoConnection' /\ OnePingOut'
    BY <1>14 DEF Elapse, NoConnection, OnePingOut, PongOnWire
  <2>2. quiet' = quiet \/ (quiet' = quiet + 1 /\ peer # "alive" /\ ~Blocked /\ due = 0)
    <3>1. quiet <= 2 => Min({quiet + 1, 3}) = quiet + 1
      <4>1. quiet + 1 \in Nat /\ 3 \in Nat
        BY DEF ControlType
      <4>2. quiet <= 2 => quiet + 1 <= 3
        BY DEF ControlType
      <4>3. /\ Min({quiet + 1, 3}) \in {quiet + 1, 3}
            /\ Min({quiet + 1, 3}) <= quiet + 1
        BY <4>1, LeastOfTwo
      <4> QED BY <4>1, <4>2, <4>3
    <3> QED BY <1>14, <3>1 DEF Elapse, QuietInv
  <2>3. due' = due + 1 /\ UNCHANGED <<peer, awaiting, wire>>
    BY <1>14 DEF Elapse
  <2>4. QuietInv'
    BY <2>2, <2>3 DEF QuietInv, Hopeless, PongOnWire, ControlType
  <2>5. PatienceInv'
    <3>1. conn = "up" /\ UNCHANGED <<conn, awaiting>>
      BY <1>14 DEF Elapse
    <3>2. awaiting => pingAge' = 2
      BY <1>14, <3>1 DEF Elapse, PatienceInv, ControlType
    <3>3. ~stalled' => due' <= 1
      <4>1. stalled' <=> (stalled \/ Blocked)
        BY <1>14 DEF Elapse
      <4>2. ~Blocked => due' = 1
        BY <1>14 DEF Elapse
      <4> QED BY <4>1, <4>2
    <3> QED BY <3>1, <3>2, <3>3 DEF PatienceInv
  <2> QED BY <2>1, <2>4, <2>5
<1>15. CASE UNCHANGED vars
  BY <1>3, <1>15 DEF vars
<1> QED
  BY <1>5, <1>6, <1>7, <1>8, <1>9, <1>10, <1>11, <1>12, <1>13, <1>14, <1>15
  DEF Next, ReadStep

(***************************************************************************)
(* Whatever is on the wire and in the mailbox when the other end goes      *)
(* away, the reader gives the connection up after at most two intervals of *)
(* its own.                                                                *)
(***************************************************************************)
THEOREM DeadFeedIsDetected == Spec => []DeadFeedDetected
<1>1. WatchInv => DeadFeedDetected
  BY DEF WatchInv, QuietInv, DeadFeedDetected
<1> QED
  BY <1>1, InitInOrder, StepInOrder, InitControlType, StepControlType, InitWatch, StepWatch,
     PTL DEF Spec

(***************************************************************************)
(* A pong that is late is waited for a whole interval, unless the mailbox  *)
(* held the reader up on this connection.                                  *)
(***************************************************************************)
THEOREM PongIsWaitedFor == Spec => []PatientUnlessStalled
<1>1. WatchInv => PatientUnlessStalled
  BY DEF WatchInv, PatienceInv, PatientUnlessStalled, Selecting
<1> QED
  BY <1>1, InitInOrder, StepInOrder, InitControlType, StepControlType, InitWatch, StepWatch,
     PTL DEF Spec
=============================================================================
