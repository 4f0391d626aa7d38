------------------------------ MODULE PeerLinks -------------------------------
(***************************************************************************)
(* The table of peer links (server/gameplay/peer/peer_transport.cpp): how  *)
(* connect requests make and rebuild a link, how group sessions are bound  *)
(* to it and dropped from it, which link a session resolves to, the        *)
(* release gate, and the reliable send queue, whose delivery is the        *)
(* subject of PeerChannel and is here one message at a time, in order.     *)
(*                                                                         *)
(* Everything runs on the gameplay pump thread, so each handler is one     *)
(* step; the operators below are the pieces the handlers are composed of.  *)
(***************************************************************************)
EXTENDS Naturals, Sequences, FiniteSetsExt

CONSTANTS
    Endpoints,      \* peer endpoints
    Sessions,       \* group session ids
    LinkSlots,      \* kAssociationCapacity: links in the table
    SessionSlots,   \* kSessionsPerLink
    QueueSlots,     \* kOutboundSlots, in messages
    MaxChannel,     \* bound: incarnations the peers build
    NoSession,      \* the zero session id
    NoEndpoint

ASSUME LinksAssumption ==
    /\ {LinkSlots, SessionSlots, QueueSlots} \subseteq Nat \ {0}
    /\ MaxChannel \in Nat
    /\ NoSession \notin Sessions /\ NoEndpoint \notin Endpoints

VARIABLES
    links,     \* g_peers
    requests   \* external: the newest channel each endpoint has built

NoLink == [endpoint |-> NoEndpoint, stage |-> "absent", remote |-> 0,
           sessions |-> [i \in 1..SessionSlots |-> NoSession],
           ready |-> FALSE, queue |-> <<>>,
           told |-> FALSE, first |-> "none"]   \* history: a response left, the first message

LinksInit ==
    /\ links = [i \in 1..LinkSlots |-> NoLink]
    /\ requests = [e \in Endpoints |-> 0]

(***************************************************************************)
(* Lookup.                                                                 *)
(***************************************************************************)
Present(ls, i) == ls[i].stage # "absent"
Carried(link) == {link.sessions[k] : k \in 1..SessionSlots} \ {NoSession}

(* find_locked and find_session_locked: the lowest slot that matches, or 0.*)
Lowest(S) == IF S = {} THEN 0 ELSE Min(S)
LinkOf(ls, e) == Lowest({i \in 1..LinkSlots : Present(ls, i) /\ ls[i].endpoint = e})
LinkFor(ls, s) ==
    Lowest({i \in 1..LinkSlots : Present(ls, i) /\ s \in Carried(ls[i])})

(* sole_session_locked: it counts slots, not sessions. *)
SoleSession(link) ==
    LET held == {k \in 1..SessionSlots : link.sessions[k] # NoSession}
    IN  IF Cardinality(held) = 1 THEN link.sessions[Min(held)] ELSE NoSession

(* application_ready. *)
Ready(ls, s) == LinkFor(ls, s) # 0 /\ ls[LinkFor(ls, s)].ready

(***************************************************************************)
(* The send queue.                                                         *)
(***************************************************************************)
Put(link, m) ==
    [link EXCEPT !.queue = Append(@, m),
                 !.first = IF @ = "none" THEN m ELSE @]

(* Fault: the check for room is off by one.                                *)
CanEnqueueOneMore(ls, s) ==
    LinkFor(ls, s) # 0 /\ Len(ls[LinkFor(ls, s)].queue) <= QueueSlots

(* enqueue_reliable: the message joins the queue of the link that carries  *)
(* the session, or is refused.                                             *)
CanEnqueue(ls, s) ==
    LinkFor(ls, s) # 0 /\ Len(ls[LinkFor(ls, s)].queue) < QueueSlots
Enqueue(ls, s, m) ==
    IF CanEnqueue(ls, s) THEN [ls EXCEPT ![LinkFor(ls, s)] = Put(@, m)] ELSE ls

(***************************************************************************)
(* Connect, bind and drop.                                                 *)
(***************************************************************************)

(* Fault: a rebuilt link begins without the sessions of the old channel.   *)
FreshLinkForgetful(old, e, channel) ==
    [NoLink EXCEPT !.endpoint = e, !.stage = "connecting", !.remote = channel]

(* A fresh link for a channel: a rebuild keeps the sessions of the old one.*)
FreshLink(old, e, channel) ==
    [NoLink EXCEPT !.endpoint = e, !.stage = "connecting", !.remote = channel,
                   !.sessions = old.sessions]

(* Fault: the establish is queued for a new link only.                     *)
AnswerConnectQuietly(ls, e, channel, sent) ==
    LET found == LinkOf(ls, e)
        i == IF found # 0 THEN found
             ELSE Lowest({k \in 1..LinkSlots : ~Present(ls, k)})
        rebuilt == FreshLink(ls[i], e, channel)
    IN  IF i = 0 THEN ls
        ELSE IF found = 0 THEN [ls EXCEPT ![i] = Put([rebuilt EXCEPT !.told = TRUE], "establish")]
        ELSE IF ls[i].remote # channel THEN [ls EXCEPT ![i] = [rebuilt EXCEPT !.told = TRUE]]
        ELSE ls

(* Fault: links are told apart by their channel.                           *)
AnswerConnectByChannel(ls, e, channel, sent) ==
    LET same == {k \in 1..LinkSlots :
                    Present(ls, k) /\ ls[k].endpoint = e /\ ls[k].remote = channel}
        i == Lowest({k \in 1..LinkSlots : ~Present(ls, k)})
    IN  IF same # {} \/ i = 0 THEN ls
        ELSE [ls EXCEPT ![i] = Put(FreshLink(@, e, channel), "establish")]

(* answer_connect: a new channel gets a fresh link, a repeat keeps the     *)
(* link, and the establish is queued once the response has left.           *)
AnswerConnect(ls, e, channel, sent) ==
    LET found == LinkOf(ls, e)
        i == IF found # 0 THEN found
             ELSE Lowest({k \in 1..LinkSlots : ~Present(ls, k)})
        link == IF found = 0 \/ ls[i].remote # channel
                THEN FreshLink(ls[i], e, channel) ELSE ls[i]
        answered == IF Len(link.queue) < QueueSlots THEN Put(link, "establish") ELSE link
    IN  IF i = 0 THEN ls
        ELSE [ls EXCEPT ![i] = IF sent THEN [answered EXCEPT !.told = TRUE] ELSE link]

(* bind_session: the first slot that holds the session or is free.         *)
Bind(ls, e, s) ==
    LET i == LinkOf(ls, e)
        k == Lowest({n \in 1..SessionSlots : ls[i].sessions[n] \in {s, NoSession}})
    IN  IF i = 0 \/ k = 0 THEN ls ELSE [ls EXCEPT ![i].sessions[k] = s]
Bound(ls, e, s) == LinkOf(ls, e) # 0 /\ s \in Carried(ls[LinkOf(ls, e)])

(* drop: every slot of the session's link that holds it is freed.          *)
DropSession(ls, s) ==
    IF LinkFor(ls, s) = 0 THEN ls
    ELSE [ls EXCEPT ![LinkFor(ls, s)].sessions =
             [k \in 1..SessionSlots |-> IF @[k] = s THEN NoSession ELSE @[k]]]

(* drop_endpoint. *)
DropEndpoint(ls, e) ==
    [i \in 1..LinkSlots |-> IF Present(ls, i) /\ ls[i].endpoint = e THEN NoLink ELSE ls[i]]

(***************************************************************************)
(* Received packets: consume_established as far as it concerns the gate.   *)
(***************************************************************************)
Connect(link) == [link EXCEPT !.stage = "connected",
                              !.ready = @ \/ link.stage = "connected"]

(* A packet with the peer's establish arrives, the first one or a repeat;  *)
(* the peer has it from the response.                                      *)
EstablishArrives(e) ==
    /\ LinkOf(links, e) # 0 /\ links[LinkOf(links, e)].told
    /\ links' = [links EXCEPT ![LinkOf(links, e)] = Connect(@)]
    /\ UNCHANGED requests

(* A connect request for a channel arrives: the next one the peer builds,  *)
(* or a repeat, late perhaps, of one it has built; sent tells whether the  *)
(* response left.                                                          *)
ConnectRequest(e, channel, sent) ==
    /\ channel <= requests[e] + 1
    /\ requests' = [requests EXCEPT ![e] = Max({@, channel})]
    /\ links' = AnswerConnect(links, e, channel, sent)

(***************************************************************************)
(* Properties.                                                             *)
(***************************************************************************)
Message == {"establish", "group"}   \* the connect establish and what the group layer sends
Queue == {q \in Seq(Message) : Len(q) <= QueueSlots}
Link == [endpoint : Endpoints \cup {NoEndpoint},
         stage : {"absent", "connecting", "connected"}, remote : 0..MaxChannel,
         sessions : [1..SessionSlots -> Sessions \cup {NoSession}], ready : BOOLEAN,
         queue : Queue,
         told : BOOLEAN, first : {"none"} \cup Message]

LinksTypeOK ==
    /\ links \in [1..LinkSlots -> Link]
    /\ requests \in [Endpoints -> 0..MaxChannel]

(* An endpoint has one link at most, however often it reconnects.          *)
OneLinkPerEndpoint ==
    \A i, j \in 1..LinkSlots :
        Present(links, i) /\ Present(links, j) /\ links[i].endpoint = links[j].endpoint => i = j

(* What peer_transport.cpp:370 says: the first reliable record of a link   *)
(* is its connect establish.  A connect response that could not be sent    *)
(* (fault "unsent") breaks this: the rebuilt link has no establish.        *)
EstablishFirst == \A i \in 1..LinkSlots : links[i].first \in {"none", "establish"}

(* What peer_transport.cpp:186 says of sole_session_locked: a link that    *)
(* carries one session resolves to it.                                     *)
SoleSessionResolves ==
    \A i \in 1..LinkSlots : \A s \in Sessions :
        Carried(links[i]) = {s} => SoleSession(links[i]) = s
=============================================================================
