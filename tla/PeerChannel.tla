----------------------------- MODULE PeerChannel -----------------------------
(***************************************************************************)
(* The established-packet exchange of one gameplay link                    *)
(* (server/gameplay/peer/peer_transport.cpp over the packet codec of       *)
(* middleware/gameplay/peer): packet heads, the acknowledgement history,   *)
(* the reliable send queue with its resend, the reliable receive queue     *)
(* with its window, and the gate that holds back application traffic until *)
(* the link is connected.  The model starts where answer_connect leaves a  *)
(* fresh link: the establish is queued on both ends.                       *)
(*                                                                         *)
(* The peer is the game client, which is not part of the repository.  It   *)
(* is modelled by the same grammar and the same queue rules, except that   *)
(* one of its packets may carry up to PeerBurst records and that it sends  *)
(* whenever it likes.  Datagrams are lost, duplicated and, when Reorder    *)
(* holds, overtaken by later ones.                                         *)
(*                                                                         *)
(* Spec is the code over any such network.  InTouchSpec adds the one thing *)
(* the exchange needs of the network and never checks: that an outage ends *)
(* before an end has sent half a ring of packets into it.                  *)
(***************************************************************************)
EXTENDS Naturals, Sequences, SequencesExt, FiniteSetsExt

CONSTANTS
    PacketModulus,    \* kPacketSequenceModulus: heads are published modulo this
    RingSize,         \* kPacketRingSize: the acknowledged base is modulo this
    AckHistory,       \* kAckHistory: statuses kept behind the newest packet
    MessageModulus,   \* kMessageSequenceModulus: record sequences wrap here
    ReliableSlots,    \* kReliableSlots: the receive window in records
    OutboundSlots,    \* kOutboundSlots: fragments a send queue holds
    ReportCapacity,   \* kMessageReportCapacity: messages one packet hands up
    Lengths,          \* bound: the fragment counts of the messages sent
    HostMessages,     \* bound: messages the host sends
    PeerMessages,     \* bound: messages the peer sends
    PeerBurst,        \* assumption: records one packet of the peer carries
    MaxLag,           \* assumption: how far an end runs ahead in InTouchSpec
    WireToHost,       \* bound: datagrams in flight to the host, the peer waits
    WireToPeer,       \* bound: datagrams in flight to the peer, more are lost
    Reorder,          \* whether a datagram may overtake another
    Duplicates        \* the ends at which a datagram may arrive again and again

ASSUME ChannelAssumption ==
    /\ {RingSize, AckHistory, ReliableSlots, OutboundSlots, ReportCapacity,
        PeerBurst, MaxLag, WireToHost, WireToPeer} \subseteq Nat \ {0}
    /\ {PacketModulus, MessageModulus} \subseteq Nat
    /\ {HostMessages, PeerMessages} \subseteq Nat \ {0}
    /\ PacketModulus % RingSize = 0 /\ PacketModulus > RingSize
    /\ MessageModulus % ReliableSlots = 0 /\ MessageModulus > ReliableSlots
    /\ Lengths \subseteq Nat \ {0} /\ Lengths # {}
    /\ Reorder \in BOOLEAN /\ Duplicates \subseteq {"host", "peer"}

(* How many later packets may arrive before one that is still in flight.   *)
Overtaking == IF Reorder THEN MaxLag ELSE 0

(* What the exchange relies on and does not check: the records of one      *)
(* packet fit the receive window beside a message half received, the lag   *)
(* InTouch allows is at most half a ring, and a record that comes late is  *)
(* not a whole circle of sequences behind the window.                      *)
ASSUME PeerAssumption ==
    /\ \A n \in Lengths : PeerBurst + n - 1 <= ReliableSlots
    /\ MaxLag <= RingSize \div 2
    /\ PeerBurst * (Overtaking + 1) + ReliableSlots <= MessageModulus

VARIABLES
    ends,        \* the two ends of the link: the host's PeerLink, and the peer
    wire,        \* wire[e]: the datagrams travelling towards e, oldest first
    stage,       \* the host link's stage: "connecting" or "connected"
    ready,       \* PeerLink::applicationReady
    owed,        \* PeerLink::acknowledgementOwed, for each end
    accepted,    \* history: how many messages each end has queued
    dispatched,  \* history: the messages each end has drained from its window
    reported     \* history: those of the host that its reports had an entry for

vars == <<ends, wire, stage, ready, owed, accepted, dispatched, reported>>

Ends == {"host", "peer"}
Other(e) == IF e = "host" THEN "peer" ELSE "host"

(***************************************************************************)
(* Packet heads and the acknowledgement.                                   *)
(***************************************************************************)

(* How far b is ahead of a on a circle of m numbers. *)
Ahead(a, b, m) == (b + m - a) % m

(* Fault: the first packet does not open the history, so nothing is ever   *)
(* acknowledged.                                                           *)
RecordSequenceUnopened(x, head) ==
    LET advance == Ahead(x.receiveHead, head, PacketModulus)
    IN  IF advance \in 1..(PacketModulus \div 2 - 1)
        THEN [x EXCEPT !.receiveHead = head,
                       !.received = [i \in 1..AckHistory |->
                           i = advance \/ (i > advance /\ @[i - advance])]]
        ELSE x

(* record_sequence: a newer head shifts the history, any other packet      *)
(* leaves it alone.                                                        *)
RecordSequence(x, head) ==
    LET advance == Ahead(x.receiveHead, head, PacketModulus)
    IN  CASE ~x.ring ->
               [x EXCEPT !.ring = TRUE, !.receiveHead = head,
                         !.received = [i \in 1..AckHistory |-> FALSE]]
          [] x.ring /\ (advance = 0 \/ advance >= PacketModulus \div 2) -> x
          [] OTHER ->
               [x EXCEPT !.receiveHead = head,
                         !.received = [i \in 1..AckHistory |->
                             \/ i = advance
                             \/ i > advance /\ @[i - advance]]]

(* A history without holes is published in the compact form, which names   *)
(* no entry.                                                               *)
Contiguous(received) ==
    \A i, j \in 1..AckHistory : i < j /\ received[j] => received[i]

(* The acknowledgement state of x as the other end reads it off the wire.  *)
Published(x) ==
    [ring     |-> x.ring,
     base     |-> x.receiveHead % RingSize,
     received |-> IF Contiguous(x.received) THEN <<>> ELSE x.received]

(* Fault: a base behind the packet counts as well.                         *)
CoversBehind(ack, sent) ==
    LET distance == Ahead(sent % RingSize, ack.base, RingSize)
    IN  ack.ring /\ (distance \in 1..Len(ack.received) => ack.received[distance])

(* acknowledgement_covers: whether an acknowledgement says that packet     *)
(* sent arrived.  What is older than every named entry counts as arrived.  *)
Covers(ack, sent) ==
    LET distance == Ahead(sent % RingSize, ack.base, RingSize)
    IN  /\ ack.ring
        /\ distance < RingSize \div 2
        /\ distance \in 1..Len(ack.received) => ack.received[distance]

(* apply_acknowledgement: retire the prefix the covered packet carried.    *)
ApplyAcknowledgement(x, ack) ==
    IF /\ x.awaiting
       /\ Covers(ack, x.sentInPacket)
       /\ x.sentCount \in 1..Len(x.outbound)
    THEN [x EXCEPT !.outbound = SubSeq(@, x.sentCount + 1, Len(@)),
                   !.sentCount = 0,
                   !.awaiting = FALSE]
    ELSE x

(***************************************************************************)
(* The reliable queues.                                                    *)
(***************************************************************************)

(* enqueue_message: split a message into n fragments, the last one short.  *)
Enqueue(x, message, n) ==
    [x EXCEPT
        !.outbound = @ \o [i \in 1..n |->
            [sequence |-> (x.nextSequence + i - 1) % MessageModulus,
             message  |-> message,
             part     |-> i,
             short    |-> i = n]],
        !.nextSequence = (@ + n) % MessageModulus]

(* Fault: an idle queue begins again with whatever record arrives.         *)
AcceptRecordAfresh(x, record) ==
    LET idle == ~x.started \/ x.held = {}
    IN  [x EXCEPT !.started = TRUE,
                  !.next = IF idle THEN record.sequence ELSE @,
                  !.held = @ \cup {record}]

(* accept_records, for one record: the first one ever seen fixes where the *)
(* drain begins, one outside the window is dropped.                        *)
AcceptRecord(x, record) ==
    LET next == IF x.started THEN x.next ELSE record.sequence
        slot == record.sequence % ReliableSlots
        clash == {f \in x.held : f.sequence % ReliableSlots = slot}
    IN  [x EXCEPT
            !.started = TRUE,
            !.next = next,
            !.held = IF \/ Ahead(next, record.sequence, MessageModulus) >= ReliableSlots
                        \/ \E f \in clash : f.sequence = record.sequence
                     THEN @
                     ELSE (@ \ clash) \cup {record}]

(* The loop of accept_records over the records of a packet. *)
AcceptRecords(x, records) ==
    LET after[i \in 0..Len(records)] ==
            IF i = 0 THEN x ELSE AcceptRecord(after[i - 1], records[i])
    IN  after[Len(records)]

(* The fragments waiting in an unbroken run from the next sequence on.     *)
Waiting(x) ==
    LET At(i) == {f \in x.held : f.sequence = (x.next + i - 1) % MessageModulus}
        unbroken == {n \in 0..ReliableSlots : \A i \in 1..n : At(i) # {}}
    IN  [i \in 1..Max(unbroken) |-> CHOOSE f \in At(i) : TRUE]

(* Fault: a run is taken although its last message is incomplete.          *)
DrainedRun(x) == Len(Waiting(x))

(* The loop over drain_message: every message whose short fragment is in   *)
(* the run, and how many fragments they take.  A message that does not     *)
(* begin with its first fragment reads as nonsense, written 0.             *)
DrainedLength(x) ==
    LET waiting == Waiting(x)
    IN  Max({0} \cup {i \in DOMAIN waiting : waiting[i].short})
Drain(x) ==
    LET taken == SubSeq(Waiting(x), 1, DrainedLength(x))
    IN  [x EXCEPT !.next = (@ + Len(taken)) % MessageModulus,
                  !.held = @ \ {taken[i] : i \in DOMAIN taken}]
Messages(x) ==
    LET waiting == Waiting(x)
        Assembled(i) == IF waiting[i].part <= i THEN waiting[i].message ELSE 0
        upTo[i \in 0..Len(waiting)] ==
            IF i = 0 THEN <<>>
            ELSE IF waiting[i].short THEN Append(upTo[i - 1], Assembled(i)) ELSE upTo[i - 1]
    IN  upTo[Len(waiting)]

(***************************************************************************)
(* Packets.                                                                *)
(***************************************************************************)

(* Fault: the head does not wrap.                                          *)
StampUnwrapped(x, count) ==
    LET fresh == x.outbound # <<>> /\ ~x.awaiting
    IN  [x EXCEPT !.head = @ + 1,
                  !.sentInPacket = IF fresh THEN x.head + 1 ELSE @,
                  !.sentCount = IF fresh THEN count ELSE @,
                  !.awaiting = fresh \/ @]

(* service stamps the packet the current prefix first leaves in; a resend  *)
(* keeps the stamp.  count is how much of the queue a packet takes.        *)
Stamp(x, count) ==
    LET head == (x.head + 1) % PacketModulus
        fresh == x.outbound # <<>> /\ ~x.awaiting
    IN  [x EXCEPT !.head = head,
                  !.sentInPacket = IF fresh THEN head ELSE @,
                  !.sentCount = IF fresh THEN count ELSE @,
                  !.awaiting = fresh \/ @]

(* send_acknowledgement: the packet that x sends once it is stamped.       *)
Packet(x) ==
    [head    |-> x.head,
     ack     |-> Published(x),
     records |-> IF x.awaiting THEN SubSeq(x.outbound, 1, x.sentCount) ELSE <<>>]

(* What both ends do with a received packet, before they drain.            *)
Receive(x, packet) ==
    AcceptRecords(ApplyAcknowledgement(RecordSequence(x, packet.head), packet.ack),
                  packet.records)

(* How far e has run ahead of the oldest thing still in play: the newest   *)
(* packet the other end has, its acknowledgements in flight towards e, and *)
(* the packets of e still in flight.                                       *)
Lag(e) ==
    LET out == wire[Other(e)]
        heads == {ends[Other(e)].receiveHead}
                 \cup {wire[e][i].ack.base : i \in DOMAIN wire[e]}
                 \cup {out[i].head : i \in DOMAIN out}
    IN  Max({Ahead(h % RingSize, ends[e].head % RingSize, RingSize) : h \in heads})

(* The wire after a send towards e, if it holds at most capacity datagrams *)
(* that way: one too many is lost at once.                                 *)
Sent(e, packet, capacity) ==
    [wire EXCEPT ![e] = IF Len(@) < capacity THEN Append(@, packet) ELSE @]

(***************************************************************************)
(* Initial state: answer_connect made the link and queued the establish.   *)
(***************************************************************************)
FreshEnd ==
    [head |-> 0, receiveHead |-> 0, ring |-> FALSE,
     received |-> [i \in 1..AckHistory |-> FALSE],
     outbound |-> <<>>, nextSequence |-> 1,
     sentInPacket |-> 0, sentCount |-> 0, awaiting |-> FALSE,
     started |-> FALSE, next |-> 0, held |-> {}]

Establish == 1    \* the first message of each end is its connect establish

Init ==
    /\ ends = [e \in Ends |-> Enqueue(FreshEnd, Establish, 1)]
    /\ wire = [e \in Ends |-> <<>>]
    /\ stage = "connecting"
    /\ ready = FALSE
    /\ owed = [e \in Ends |-> e = "host"]
    /\ accepted = [e \in Ends |-> 1]
    /\ dispatched = [e \in Ends |-> <<>>]
    /\ reported = <<>>

(***************************************************************************)
(* The host.                                                               *)
(***************************************************************************)

(* enqueue_reliable: a message of n fragments joins the send queue, or     *)
(* none of it does.                                                        *)
HostEnqueue(n) ==
    /\ accepted["host"] < HostMessages
    /\ Len(ends["host"].outbound) + n <= OutboundSlots
    /\ ends' = [ends EXCEPT !["host"] = Enqueue(@, accepted["host"] + 1, n)]
    /\ accepted' = [accepted EXCEPT !["host"] = @ + 1]
    /\ owed' = [owed EXCEPT !["host"] = TRUE]
    /\ UNCHANGED <<wire, stage, ready, dispatched, reported>>

(* answer_connect on a repeated connect request: the link is kept, but     *)
(* answer_establish queues one more establish and forgets the flight.      *)
HostAnswerRepeatedConnect ==
    /\ accepted["host"] < HostMessages
    /\ Len(ends["host"].outbound) < OutboundSlots
    /\ ends' = [ends EXCEPT !["host"] =
           [Enqueue(@, accepted["host"] + 1, 1) EXCEPT !.awaiting = FALSE]]
    /\ accepted' = [accepted EXCEPT !["host"] = @ + 1]
    /\ owed' = [owed EXCEPT !["host"] = TRUE]
    /\ UNCHANGED <<wire, stage, ready, dispatched, reported>>

(* service: the link is due when it owes an acknowledgement, or when its   *)
(* queue is not empty and the resend interval has passed.                  *)
HostDue == owed["host"] \/ ends["host"].outbound # <<>>
HostService ==
    /\ HostDue
    /\ LET x == Stamp(ends["host"], 1)
       IN  /\ ends' = [ends EXCEPT !["host"] = x]
           /\ wire' = Sent("peer", Packet(x), WireToPeer)
    /\ owed' = [owed EXCEPT !["host"] = FALSE]
    /\ UNCHANGED <<stage, ready, accepted, dispatched, reported>>

(* consume_established, with datagrams left in flight being rest: every    *)
(* message drained is applied, and the first ReportCapacity of them are    *)
(* reported to the group layer (the establish, which this layer has taken, *)
(* counts among them).                                                     *)
HostConsume(packet, rest) ==
    LET x == Receive(ends["host"], packet)
        messages == Messages(x)
        bodies == SubSeq(messages, 1, Min({Len(messages), ReportCapacity}))
    IN  /\ ends' = [ends EXCEPT !["host"] = Drain(x)]
        /\ wire' = [wire EXCEPT !["host"] = rest]
        /\ owed' = [owed EXCEPT !["host"] = TRUE]
        /\ stage' = IF Establish \in ToSet(messages) THEN "connected" ELSE stage
        /\ ready' = (ready \/ stage = "connected")
        /\ dispatched' = [dispatched EXCEPT !["host"] = @ \o messages]
        /\ reported' = reported \o bodies
        /\ UNCHANGED accepted

(***************************************************************************)
(* The peer (external).                                                    *)
(***************************************************************************)
PeerEnqueue(n) ==
    /\ accepted["peer"] < PeerMessages
    /\ Len(ends["peer"].outbound) + n <= OutboundSlots
    /\ ends' = [ends EXCEPT !["peer"] = Enqueue(@, accepted["peer"] + 1, n)]
    /\ accepted' = [accepted EXCEPT !["peer"] = @ + 1]
    /\ UNCHANGED <<wire, stage, ready, owed, dispatched, reported>>

(* The peer sends whenever it likes, with a bound on its own datagrams.    *)
PeerMaySend == Len(wire["host"]) < WireToHost
PeerSend ==
    /\ PeerMaySend
    /\ \E count \in 1..PeerBurst :
           /\ count <= Len(ends["peer"].outbound) \/ count = 1
           /\ LET x == Stamp(ends["peer"], count)
              IN  /\ ends' = [ends EXCEPT !["peer"] = x]
                  /\ wire' = Sent("host", Packet(x), WireToHost)
    /\ owed' = [owed EXCEPT !["peer"] = FALSE]
    /\ UNCHANGED <<stage, ready, accepted, dispatched, reported>>

PeerConsume(packet, rest) ==
    LET x == Receive(ends["peer"], packet)
    IN  /\ ends' = [ends EXCEPT !["peer"] = Drain(x)]
        /\ wire' = [wire EXCEPT !["peer"] = rest]
        /\ dispatched' = [dispatched EXCEPT !["peer"] = @ \o Messages(x)]
        /\ owed' = [owed EXCEPT !["peer"] = TRUE]
        /\ UNCHANGED <<stage, ready, accepted, reported>>

(***************************************************************************)
(* The network (external).                                                 *)
(***************************************************************************)
Consume(e, packet, rest) ==
    IF e = "host" THEN HostConsume(packet, rest) ELSE PeerConsume(packet, rest)

(* Which datagrams may arrive next. *)
Arriving(e) == IF Reorder THEN DOMAIN wire[e] ELSE DOMAIN wire[e] \cap {1}

Deliver(e) ==
    \E i \in Arriving(e) :
        Consume(e, wire[e][i], RemoveAt(wire[e], i))

DeliverTwice(e) ==
    /\ e \in Duplicates
    /\ \E i \in Arriving(e) : Consume(e, wire[e][i], wire[e])

Lose(e) ==
    /\ \E i \in DOMAIN wire[e] : wire' = [wire EXCEPT ![e] = RemoveAt(@, i)]
    /\ UNCHANGED <<ends, stage, ready, owed, accepted, dispatched, reported>>

Next ==
    \/ \E n \in Lengths : HostEnqueue(n) \/ PeerEnqueue(n)
    \/ HostAnswerRepeatedConnect
    \/ HostService
    \/ PeerSend
    \/ \E e \in Ends : Deliver(e) \/ DeliverTwice(e) \/ Lose(e)

Spec == Init /\ [][Next]_vars

(* End e sends; a datagram towards e is delivered or lost.                 *)
Sends(e) == ends'[e].head # ends[e].head
Leaves(e) == Len(wire'[e]) < Len(wire[e])

(* The assumption on the network: whenever an end sends, its news of the   *)
(* other is less than MaxLag of its own packets old.  service checks       *)
(* nothing of the kind (HostService has no such guard): an outage in one   *)
(* direction while datagrams arrive from the other breaks it.              *)
InTouch == \A e \in Ends : Sends(e) => Lag(e) < MaxLag
InTouchSpec == Init /\ [][Next /\ InTouch]_vars

(* The service pump calls service for as long as the program runs, and the *)
(* peer is assumed to send again and again.  From some point on the        *)
(* network loses and repeats nothing, keeps the order, and is fast enough  *)
(* that what an end sent has arrived and was answered before it sends      *)
(* again.  Some such assumption is needed: a resend keeps the stamp of the *)
(* first send and half of the ring does not cover a stamp, so a network    *)
(* that always dropped the same half of the acknowledgements would leave a *)
(* message queued for ever.  Fairness is spelled out, because TLC takes    *)
(* these guards far faster than it does ENABLED; a behaviour in which an   *)
(* end keeps sending into an outage is outside it, as it is of InTouch.    *)
Timely ==
    /\ \A e \in Ends : ~Lose(e) /\ ~DeliverTwice(e) /\ (Leaves(e) => wire'[e] = Tail(wire[e]))
    /\ Sends("host") => wire["peer"] = <<>> /\ (owed["host"] \/ ~owed["peer"])
    /\ Sends("peer") => wire["host"] = <<>> /\ (owed["peer"] \/ ~owed["host"])
FairSpec ==
    /\ InTouchSpec
    /\ <>[]HostDue => []<><<Sends("host")>>_vars
    /\ <>[]PeerMaySend => []<><<Sends("peer")>>_vars
    /\ \A e \in Ends : <>[](wire[e] # <<>>) => []<><<Leaves(e)>>_vars
    /\ <>[][Timely]_vars

(***************************************************************************)
(* Properties.                                                             *)
(***************************************************************************)
MaxMessages == Max({HostMessages, PeerMessages})
Fragment == [sequence : 0..MessageModulus - 1, message : 1..MaxMessages,
             part : 1..Max(Lengths), short : BOOLEAN]
Ack == [ring : BOOLEAN, base : 0..RingSize - 1,
        received : {<<>>} \cup [1..AckHistory -> BOOLEAN]]
End == [head : 0..PacketModulus - 1, receiveHead : 0..PacketModulus - 1,
        ring : BOOLEAN, received : [1..AckHistory -> BOOLEAN],
        outbound : Seq(Fragment), nextSequence : 0..MessageModulus - 1,
        sentInPacket : 0..PacketModulus - 1, sentCount : Nat, awaiting : BOOLEAN,
        started : BOOLEAN, next : 0..MessageModulus - 1, held : SUBSET Fragment]

(* Every field keeps its width: heads and sequences stay on their circles  *)
(* and the queues inside their fixed arrays.                               *)
TypeOK ==
    /\ DOMAIN ends = Ends
    /\ \A e \in Ends :
        /\ ends[e] \in End
        /\ Len(ends[e].outbound) <= OutboundSlots
        /\ Cardinality(ends[e].held) <= ReliableSlots
        /\ wire[e] \in Seq([head : 0..PacketModulus - 1, ack : Ack, records : Seq(Fragment)])
        /\ dispatched[e] \in Seq(0..MaxMessages)
    /\ reported \in Seq(0..MaxMessages)
    /\ accepted \in [Ends -> 1..MaxMessages]
    /\ stage \in {"connecting", "connected"}
    /\ ready \in BOOLEAN /\ owed \in [Ends -> BOOLEAN]

(* What acknowledgement_covers says of itself (established_packet.h:103,   *)
(* "@return True when the peer has that packet"), and apply_acknowledgement *)
(* relies on: a sender forgets a message only after the other end has it.  *)
(* The rule that counts a packet older than every named status as arrived  *)
(* is sound in InTouchSpec, because each later packet carried the same     *)
(* records.  In Spec it is not: past half a ring of lost packets a base    *)
(* from before the outage reads as one ahead of a new stamp.               *)
NothingRetiredUnheard ==
    \A e \in Ends : \A m \in 1..accepted[e] :
        \/ \E i \in DOMAIN ends[e].outbound : ends[e].outbound[i].message = m
        \/ m \in ToSet(dispatched[Other(e)])

(* Towards the peer: what the group layer queues is handed up in order,    *)
(* once, however the network loses, repeats and reorders in touch.         *)
HostToPeer == INSTANCE ReliableDelivery
                 WITH accepted <- accepted["host"], dispatched <- dispatched["peer"]
DeliversToPeer == HostToPeer!Spec

(* Towards the host: what the peer sends is reported to the group layer in *)
(* order, once.  This needs ReportHolds as well: consume_established       *)
(* drains every message of a packet and drops those its report has no      *)
(* entry for (peer_transport.cpp:692); read_queue takes kMaximumRecords.   *)
ReportHolds == PeerBurst <= ReportCapacity
PeerToHost == INSTANCE ReliableDelivery
                 WITH accepted <- accepted["peer"], dispatched <- reported
DeliversToHost == PeerToHost!Spec

(* What peer_transport.h:49 says of application_ready: a ready link has    *)
(* completed the establishment exchange, so the peer has handed up the     *)
(* host's establish as well.  A repeat of the packet that established the  *)
(* link opens the gate earlier, which breaks this.                         *)
ReadyAfterExchange == ready => Establish \in ToSet(dispatched["peer"])

(* Again and again the other end has handed up all that an end accepted:   *)
(* no loss, no repeated connect and no wrap of the ring leaves a message   *)
(* in a queue for ever.                                                    *)
EveryMessageArrives ==
    \A e \in Ends : []<>(Len(dispatched[Other(e)]) = accepted[e])
=============================================================================
