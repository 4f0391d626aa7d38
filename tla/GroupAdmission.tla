--------------------------- MODULE GroupAdmission ----------------------------
(***************************************************************************)
(* Group-session admission (server/gameplay/group/group_host.cpp) over the *)
(* peer links: the table of admitted peers, the messages that drive a join *)
(* to its end, and the service slice that retries what the send queue      *)
(* refused.  The handlers run one after the other on the gameplay pump.    *)
(*                                                                         *)
(* The game client is external: it sends what it likes when it likes,      *)
(* unless Orderly holds.  So is what the host-session table and the        *)
(* activity state hold, which only ever become available here.             *)
(***************************************************************************)
EXTENDS PeerLinks

CONSTANTS
    AdmittedSlots,    \* kAdmittedCapacity
    PublicSessions,   \* kPublicSessionCapacity
    MaxJoin,          \* bound: join attempts per session
    Seeded, Native,   \* players: the seeded platform row, the client's own
    NoPlayer,
    Migrates,         \* whether mission_host_reestablishment_enabled
    Orderly,          \* whether the client keeps the order of a native join
    Sends,            \* bound: which messages of Kinds the client sends
    Faults            \* which of "unsent", "closed", "expired" happen to a link

Kinds == {"leave", "joinComplete", "playerAdd", "playerRemove", "hostReestablish",
          "peerReestablish", "parameters", "view"}

ASSUME AdmissionAssumption ==
    /\ {AdmittedSlots, PublicSessions} \subseteq Nat \ {0}
    /\ MaxJoin \in Nat
    /\ {Migrates, Orderly} \subseteq BOOLEAN
    /\ Sends \subseteq Kinds
    /\ Faults \subseteq {"unsent", "closed", "expired"}
    /\ Cardinality({Seeded, Native, NoPlayer}) = 3

VARIABLES
    admitted,     \* g_admitted
    usedBefore,   \* <<i, j>>: occupied slot i was named before j (lastUse)
    hosted,       \* external: the sessions whose activity host is allocated
    identified,   \* external: whether a joined activity names the client
    quiet         \* external: the client removes and reestablishes no more

vars == <<links, requests, admitted, usedBefore, hosted, identified, quiet>>
world == <<hosted, identified, quiet>>

(* The host-migration ladder, in the order the slice climbs it. *)
Ladder == <<"baseline", "handoffToPeer", "transition", "handoffToHost", "activate">>

NoRecord ==
    [session |-> NoSession, endpoint |-> NoEndpoint, join |-> 0, player |-> NoPlayer,
     initialMembership |-> FALSE, initialParameters |-> FALSE,
     joinComplete |-> FALSE, joinPublished |-> FALSE, playerPublished |-> FALSE,
     replacementPending |-> FALSE, activityHost |-> FALSE,
     ladder |-> 0, due |-> FALSE,
     reestablishOwed |-> FALSE, captured |-> FALSE, migrated |-> "no",
     shown |-> [player |-> NoPlayer, established |-> FALSE]]   \* history: the last snapshot queued

Slots == 1..AdmittedSlots
Occupied == {i \in Slots : admitted[i].session # NoSession}
SlotOf(s) == Lowest({i \in Slots : admitted[i].session = s})

(* claim: the session's record, else a free one, else none. *)
ClaimedSlot(s) == IF SlotOf(s) # 0 THEN SlotOf(s) ELSE Lowest(Slots \ Occupied)
ClaimedRecord(e, s) ==
    IF SlotOf(s) # 0 THEN admitted[SlotOf(s)]
    ELSE [NoRecord EXCEPT !.session = s, !.endpoint = e]

(* lastUse: a slot just named comes after every other occupied one.        *)
Used(i) == {p \in usedBefore : i \notin {p[1], p[2]}} \cup ((Occupied \ {i}) \X {i})
Oldest == CHOOSE i \in Occupied : \A j \in Occupied \ {i} : <<i, j>> \in usedBefore

Freed(S) == {p \in usedBefore : p[1] \notin S /\ p[2] \notin S}

(***************************************************************************)
(* Publishing.  A desk is a link table and a record while one handler      *)
(* works on them; ok tells whether its last publish was queued.            *)
(***************************************************************************)
Desk(ls, rec) == [links |-> ls, rec |-> rec, ok |-> FALSE]

Publish(d) == [d EXCEPT !.links = Enqueue(@, d.rec.session, "group"),
                        !.ok = CanEnqueue(d.links, d.rec.session)]

(* publish_snapshot, which also needs the client's machine identity. *)
PublishSnapshot(d) ==
    LET sent == Publish(d)
    IN  IF identified /\ sent.ok
        THEN [sent EXCEPT !.rec.shown = [player |-> d.rec.player,
                                         established |-> d.rec.joinComplete]]
        ELSE [d EXCEPT !.ok = FALSE]

(* publish_activity_host, which needs the session's activity host. *)
PublishActivityHost(d) ==
    IF d.rec.session \in hosted THEN Publish(d) ELSE [d EXCEPT !.ok = FALSE]

(* publish_peer_reestablish_membership. *)
PublishReestablish(d) ==
    LET sent == PublishSnapshot(d)
    IN  IF ~d.rec.reestablishOwed THEN [d EXCEPT !.ok = TRUE]
        ELSE [sent EXCEPT !.rec.reestablishOwed = ~sent.ok]

(* What a handler leaves behind for session s. *)
Leave(i, d) ==
    /\ links' = d.links
    /\ admitted' = [admitted EXCEPT ![i] = d.rec]
    /\ usedBefore' = Used(i)
    /\ UNCHANGED <<requests, world>>

(* A message that arrives at a host whose table is full changes nothing.   *)
Handle(e, s, Handler(_)) ==
    LET i == ClaimedSlot(s)
    IN  IF i = 0 THEN UNCHANGED vars
        ELSE Leave(i, Handler(Desk(links, ClaimedRecord(e, s))))

(***************************************************************************)
(* Out-of-band: the join request.                                          *)
(***************************************************************************)

(* A new attempt begins with the seeded player and nothing published. *)
Attempt(rec, j) ==
    IF rec.join = j THEN rec
    ELSE [NoRecord EXCEPT !.session = rec.session, !.endpoint = rec.endpoint,
                          !.join = j, !.player = Seeded]

(* publish_membership. *)
InitialMembership(d) ==
    LET sent == PublishSnapshot(d)
    IN  IF d.rec.initialMembership THEN d
        ELSE [sent EXCEPT !.rec.initialMembership = sent.ok,
                          !.rec.playerPublished = sent.ok /\ d.rec.player # NoPlayer]

(* publish_join_parameters. *)
InitialParameters(d) ==
    LET sent == Publish(d)
    IN  IF d.rec.initialParameters THEN d
        ELSE [sent EXCEPT !.rec.initialParameters = sent.ok]

(* answer_join: bind, and behind the release gate the two publications.    *)
JoinRequest(e, s, j) ==
    LET ls == Bind(links, e, s)
        i == ClaimedSlot(s)
        d == Desk(ls, Attempt(ClaimedRecord(e, s), j))
    IN  IF Bound(ls, e, s) /\ Ready(ls, s) /\ i # 0
        THEN Leave(i, InitialParameters(InitialMembership(d)))
        ELSE links' = ls /\ UNCHANGED <<requests, admitted, usedBefore, world>>

(***************************************************************************)
(* Reliable messages of the client: consume.                               *)
(***************************************************************************)

(* leaveSession and joinAbort: release. *)
LeaveSession(s) ==
    /\ links' = DropSession(links, s)
    /\ admitted' = [i \in Slots |-> IF admitted[i].session = s THEN NoRecord ELSE admitted[i]]
    /\ usedBefore' = Freed({i \in Slots : admitted[i].session = s})
    /\ UNCHANGED <<requests, world>>

(* Fault: the promotion does not wait for the replacing player. *)
PromotedEarly(d) ==
    LET complete == [d EXCEPT !.rec.joinComplete = TRUE]
        sent == PublishSnapshot(complete)
    IN  IF ~d.rec.joinPublished THEN [sent EXCEPT !.rec.joinPublished = sent.ok] ELSE complete

(* joinComplete: the promotion, unless the player is being replaced, and   *)
(* behind it the activity host.                                            *)
Promoted(d) ==
    LET owed == ~d.rec.joinPublished /\ ~d.rec.replacementPending
        complete == [d EXCEPT !.rec.joinComplete = TRUE]
        sent == PublishSnapshot(complete)
    IN  IF owed THEN [sent EXCEPT !.rec.joinPublished = sent.ok] ELSE complete

(* Fault: the activity host does not wait for the promotion. *)
HostNamedAtOnce(d) ==
    LET sent == PublishActivityHost(d)
    IN  IF ~d.rec.activityHost THEN [sent EXCEPT !.rec.activityHost = sent.ok] ELSE d

HostNamed(d) ==
    LET sent == PublishActivityHost(d)
    IN  IF d.rec.joinPublished /\ ~d.rec.activityHost
        THEN [sent EXCEPT !.rec.activityHost = sent.ok] ELSE d

(* An orderly client acts on a session once its join has been answered.    *)
Joined(s) == \E i \in Occupied : admitted[i].session = s /\ admitted[i].initialMembership

OnJoinComplete(d) == HostNamed(Promoted(d))
JoinComplete(e, s) == (Orderly => Joined(s)) /\ Handle(e, s, OnJoinComplete)

(* Fault: an add that was refused counts as published. *)
OnPlayerAddUnchecked(d) ==
    IF d.rec.player = Native /\ d.rec.playerPublished THEN d
    ELSE [PublishSnapshot([d EXCEPT !.rec.player = Native, !.rec.replacementPending = FALSE])
             EXCEPT !.rec.playerPublished = TRUE]

(* playerAdd: a repeat of a published add is held. *)
OnPlayerAdd(d) ==
    LET held == d.rec.player = Native /\ d.rec.playerPublished
        named == [d EXCEPT !.rec.player = Native, !.rec.replacementPending = FALSE]
        sent == PublishSnapshot(named)
    IN  IF held THEN d
        ELSE [sent EXCEPT !.rec.playerPublished = sent.ok,
                          !.rec.joinPublished = @ \/ (sent.ok /\ d.rec.joinComplete)]
PlayerAdd(e, s) == (Orderly => Joined(s)) /\ Handle(e, s, OnPlayerAdd)

(* playerRemove: committed only with its snapshot. *)
OnPlayerRemove(d) ==
    LET without == [d EXCEPT !.rec.player = NoPlayer, !.rec.playerPublished = FALSE]
        sent == PublishSnapshot(without)
    IN  IF d.rec.player = NoPlayer \/ ~sent.ok THEN d
        ELSE [sent EXCEPT !.rec.replacementPending = ~d.rec.joinComplete]
PlayerRemove(e, s) == (Orderly => Joined(s)) /\ Handle(e, s, OnPlayerRemove)

(* hostReestablish: the client's migration descriptor is retained unless   *)
(* its identity is empty; the record is claimed either way.                *)
OnHostReestablish(d) == [d EXCEPT !.rec.captured = TRUE]
OnEmptyIdentity(d) == d
HostReestablish(e, s) == Handle(e, s, OnHostReestablish) \/ Handle(e, s, OnEmptyIdentity)

(* peerReestablish: a fresh membership; under the descriptor's own id the  *)
(* activity host is published again.  It claims nothing.                   *)
PeerReestablish(e, s, alias) ==
    LET i == SlotOf(s)
        known == Desk(links, admitted[i])
        owing == [known EXCEPT !.rec.reestablishOwed = TRUE,
                               !.rec.migrated = IF alias THEN "owed" ELSE @]
        d == PublishReestablish(owing)
        sent == PublishActivityHost(d)
        done == IF alias THEN [sent EXCEPT !.rec.migrated = IF sent.ok THEN "published" ELSE "owed"]
                ELSE d
    IN  /\ i # 0 /\ admitted[i].endpoint = e
        /\ alias => admitted[i].captured
        /\ Orderly => admitted[i].joinPublished
        /\ links' = done.links
        /\ admitted' = [admitted EXCEPT ![i] = done.rec]
        /\ UNCHANGED <<requests, usedBefore, world>>

(* A parameter request and a view establishment are answered on the link;  *)
(* a view names no session, the link's only one is meant.                  *)
ParameterRequest(s) ==
    /\ s \in hosted
    /\ links' = Enqueue(links, s, "group")
    /\ UNCHANGED <<requests, admitted, usedBefore, world>>
ViewEstablishment(e) ==
    /\ LinkOf(links, e) # 0
    /\ LET s == SoleSession(links[LinkOf(links, e)])
       IN  links' = Enqueue(links, s, "group")
    /\ UNCHANGED <<requests, admitted, usedBefore, world>>

(***************************************************************************)
(* The service slice.                                                      *)
(***************************************************************************)

(* Whether a record is owed a publish. *)
LadderDue(rec) == Migrates /\ rec.activityHost /\ rec.due /\ rec.ladder < Len(Ladder)

(* Fault: a player whose snapshot was refused is not retried. *)
OwedButPlayer(rec) ==
    \/ rec.joinComplete /\ ~rec.joinPublished /\ ~rec.replacementPending
    \/ rec.joinPublished /\ ~rec.activityHost
    \/ rec.reestablishOwed
    \/ rec.migrated = "owed"
    \/ LadderDue(rec)

(* Fault: the activity host is only published with the promotion. *)
OwedButHost(rec) ==
    \/ rec.joinComplete /\ ~rec.joinPublished /\ ~rec.replacementPending
    \/ rec.joinPublished /\ rec.player # NoPlayer /\ ~rec.playerPublished
    \/ rec.reestablishOwed

Owed(rec) ==
    \/ rec.joinComplete /\ ~rec.joinPublished /\ ~rec.replacementPending
    \/ rec.joinPublished /\ ~rec.activityHost
    \/ rec.joinPublished /\ rec.player # NoPlayer /\ ~rec.playerPublished
    \/ rec.reestablishOwed
    \/ rec.migrated = "owed"
    \/ LadderDue(rec)

(* A ladder step; a handoff to the peer needs the client's identity. *)
Climb(d) ==
    LET sent == Publish(d)
    IN  IF sent.ok /\ (Ladder[d.rec.ladder + 1] = "handoffToPeer" => identified)
        THEN [sent EXCEPT !.rec.ladder = @ + 1, !.rec.due = FALSE]
        ELSE [d EXCEPT !.ok = FALSE]

(* The first thing the record lacks, one per slice. *)
Retry(d) ==
    LET snapshot == PublishSnapshot(d)
        host == PublishActivityHost(d)
    IN  CASE ~Owed(d.rec) -> d
          [] OTHER ->
               IF ~d.rec.joinPublished
               THEN [snapshot EXCEPT !.rec.joinPublished = snapshot.ok]
               ELSE IF ~d.rec.activityHost
               THEN [host EXCEPT !.rec.activityHost = host.ok]
               ELSE IF d.rec.player # NoPlayer /\ ~d.rec.playerPublished
               THEN [snapshot EXCEPT !.rec.playerPublished = snapshot.ok]
               ELSE IF d.rec.reestablishOwed THEN PublishReestablish(d)
               ELSE IF d.rec.migrated = "owed"
               THEN [host EXCEPT !.rec.migrated = IF host.ok THEN "published" ELSE "owed"]
               ELSE Climb(d)

(* service: the least recently named record over the capacity goes, and    *)
(* then a record whose retry interval has passed is retried.  A slice that *)
(* retries several is several steps with nothing between them.             *)
Service(i) ==
    LET full == Cardinality(Occupied) > PublicSessions
        kept == IF full THEN [admitted EXCEPT ![Oldest] = NoRecord] ELSE admitted
        d == Retry(Desk(links, kept[i]))
    IN  /\ kept[i].session # NoSession
        /\ links' = IF full THEN DropSession(d.links, admitted[Oldest].session) ELSE d.links
        /\ admitted' = [kept EXCEPT ![i] = d.rec]
        /\ usedBefore' = IF full THEN Freed({Oldest}) ELSE usedBefore
        /\ UNCHANGED <<requests, world>>

(***************************************************************************)
(* The end of a link.                                                      *)
(***************************************************************************)

(* A connect-closed drops the link and leaves the records. *)
ConnectClosed(e) ==
    /\ "closed" \in Faults
    /\ links' = DropEndpoint(links, e)
    /\ UNCHANGED <<requests, admitted, usedBefore, world>>

(* association::expire drops the link and release_endpoint the records.    *)
AssociationExpires(e) ==
    /\ "expired" \in Faults
    /\ links' = DropEndpoint(links, e)
    /\ admitted' = [i \in Slots |-> IF admitted[i].endpoint = e THEN NoRecord ELSE admitted[i]]
    /\ usedBefore' = Freed({i \in Slots : admitted[i].endpoint = e})
    /\ UNCHANGED <<requests, world>>

(***************************************************************************)
(* The world (external).                                                   *)
(***************************************************************************)

(* The head of a link's queue is delivered and forgotten. *)
Deliver(i) == /\ links[i].queue # <<>>
              /\ links' = [links EXCEPT ![i].queue = Tail(@)]
              /\ UNCHANGED <<requests, admitted, usedBefore, world>>

HostAllocated(s) == /\ s \notin hosted
                    /\ hosted' = hosted \cup {s}
                    /\ UNCHANGED <<links, requests, admitted, usedBefore, identified, quiet>>
ActivityJoined == /\ ~identified
                  /\ identified' = TRUE
                  /\ UNCHANGED <<links, requests, admitted, usedBefore, hosted, quiet>>
Quieten == /\ ~quiet
           /\ quiet' = TRUE
           /\ UNCHANGED <<links, requests, admitted, usedBefore, hosted, identified>>
(* The next delay of the ladder has passed. *)
Tick(i) == /\ admitted[i].activityHost /\ ~admitted[i].due
           /\ admitted' = [admitted EXCEPT ![i].due = TRUE]
           /\ UNCHANGED <<links, requests, usedBefore, world>>

Init ==
    /\ LinksInit
    /\ admitted = [i \in Slots |-> NoRecord]
    /\ usedBefore = {}
    /\ hosted = {}
    /\ identified = FALSE
    /\ quiet = FALSE

(* What the client sends about a session, an orderly one over a link it    *)
(* has established.                                                        *)
Established(e) == LinkOf(links, e) # 0 /\ links[LinkOf(links, e)].stage = "connected"
Reliable(e, s) ==
    /\ Orderly => Established(e)
    /\ \/ "leave" \in Sends /\ LeaveSession(s)
       \/ "joinComplete" \in Sends /\ JoinComplete(e, s)
       \/ "playerAdd" \in Sends /\ PlayerAdd(e, s)
       \/ "playerRemove" \in Sends /\ ~quiet /\ PlayerRemove(e, s)
       \/ "hostReestablish" \in Sends /\ HostReestablish(e, s)
       \/ "peerReestablish" \in Sends /\ ~quiet /\ \E alias \in BOOLEAN : PeerReestablish(e, s, alias)
       \/ "parameters" \in Sends /\ ParameterRequest(s)

Connection(e) ==
    \/ /\ \/ \E channel \in 1..MaxChannel, sent \in {TRUE, "unsent" \notin Faults} :
                 ConnectRequest(e, channel, sent)
          \/ EstablishArrives(e)
       /\ UNCHANGED <<admitted, usedBefore, world>>
    \/ ConnectClosed(e)
    \/ AssociationExpires(e)

Next ==
    \/ \E e \in Endpoints :
        \/ Connection(e)
        \/ "view" \in Sends /\ ViewEstablishment(e)
        \/ \E s \in Sessions : Reliable(e, s) \/ \E j \in 1..MaxJoin : JoinRequest(e, s, j)
    \/ \E s \in Sessions : HostAllocated(s)
    \/ \E i \in 1..LinkSlots : Deliver(i)
    \/ \E i \in Slots : Service(i) \/ Tick(i)
    \/ ActivityJoined \/ Quieten

Spec == Init /\ [][Next]_vars

(* A slice whose publish has a place in the queue. *)
RoomyService(i) == CanEnqueue(links, admitted[i].session) /\ Service(i)

(* The pump serves its slices, the peer establishes its links and takes    *)
(* what is queued; a client that removed its player names another, and     *)
(* comes to be quiet; the rest of the host gets round to the activity.     *)
Replaces(e, s) ==
    /\ Established(e)
    /\ \E i \in Occupied : admitted[i].session = s /\ admitted[i].replacementPending
    /\ PlayerAdd(e, s)

Fairness ==
    /\ \A i \in Slots : SF_vars(RoomyService(i)) /\ WF_vars(Tick(i))
    /\ \A i \in 1..LinkSlots : WF_vars(Deliver(i))
    /\ \A e \in Endpoints :
           /\ WF_vars(EstablishArrives(e) /\ UNCHANGED <<admitted, usedBefore, world>>)
           /\ \A s \in Sessions : SF_vars(Replaces(e, s))
    /\ \A s \in Sessions : WF_vars(HostAllocated(s))
    /\ WF_vars(ActivityJoined) /\ WF_vars(Quieten)

FairSpec == Spec /\ Fairness

(***************************************************************************)
(* Properties.                                                             *)
(***************************************************************************)
Players == {Seeded, Native, NoPlayer}
Record == [session : Sessions \cup {NoSession}, endpoint : Endpoints \cup {NoEndpoint},
           join : 0..MaxJoin, player : Players,
           initialMembership : BOOLEAN, initialParameters : BOOLEAN,
           joinComplete : BOOLEAN, joinPublished : BOOLEAN, playerPublished : BOOLEAN,
           replacementPending : BOOLEAN, activityHost : BOOLEAN,
           ladder : 0..Len(Ladder), due : BOOLEAN,
           reestablishOwed : BOOLEAN, captured : BOOLEAN,
           migrated : {"no", "owed", "published"},
           shown : [player : Players, established : BOOLEAN]]

(* Every record and link keeps its fields, no queue is longer than its     *)
(* array though handlers and slices fill it from flags, no two slots hold  *)
(* one session, and the occupied slots, and no others, stand in one order  *)
(* of use, so an eviction always finds its oldest.                         *)
TypeOK ==
    /\ LinksTypeOK
    /\ admitted \in [Slots -> Record]
    /\ \A i, j \in Occupied : admitted[i].session = admitted[j].session => i = j
    /\ usedBefore \subseteq Occupied \X Occupied
    /\ \A i, j \in Occupied :
           <<i, j>> \in usedBefore <=> i # j /\ <<j, i>> \notin usedBefore
    /\ \A i, j, k \in Occupied :
           <<i, j>> \in usedBefore /\ <<j, k>> \in usedBefore => <<i, k>> \in usedBefore
    /\ hosted \subseteq Sessions /\ {identified, quiet} \subseteq BOOLEAN

(* The last snapshot queued of a record that owes nothing and whose join   *)
(* is published says what the record is: established, with the player it   *)
(* holds, through refusals, removals, replacements and retries.            *)
SettledIsShown ==
    \A i \in Occupied :
        admitted[i].joinPublished /\ ~Owed(admitted[i]) =>
            admitted[i].shown = [player |-> admitted[i].player, established |-> TRUE]

(* A player marked as published is the one the last snapshot queued names. *)
PublishedPlayerIsShown ==
    \A i \in Occupied :
        admitted[i].playerPublished => admitted[i].shown.player = admitted[i].player

(* The activity host, which the client reads only once its join is over,   *)
(* is never named before the promotion.                                    *)
ActivityHostFollowsPromotion ==
    \A i \in Occupied : admitted[i].activityHost => admitted[i].shown.established

(* What peer_transport.cpp:313 says: the sessions outlive the channel, so  *)
(* a session admitted by a join is carried by its peer's link.  A connect  *)
(* closed (fault "closed") breaks this: drop_endpoint forgets the ids.     *)
SessionsOutliveChannel ==
    \A i \in Occupied :
        LET link == LinkOf(links, admitted[i].endpoint)
        IN  admitted[i].join # 0 /\ link # 0 => admitted[i].session \in Carried(links[link])

(* What peer_transport.h:53 says: group-session messages wait for the      *)
(* release gate of their link.  Only answer_join does; the handlers and    *)
(* the slice do not, and break this after a rebuild.                       *)
MessagesWaitForGate ==
    \A i \in 1..LinkSlots :
        ~links[i].ready =>
            \A k \in DOMAIN links[i].queue : links[i].queue[k] = "establish"

(* What group_host.cpp:96 says of joinPublished: a snapshot carrying the   *)
(* promotion is on the channel.  A reestablish that comes before the join  *)
(* is complete breaks this.                                                *)
PromotionPublished ==
    \A i \in Occupied : admitted[i].joinPublished => admitted[i].shown.established

(* What group_host.cpp:124 says: between a removal and the replacing add   *)
(* no promotion goes out.                                                  *)
NoEmptyPromotion ==
    \A i \in Occupied : admitted[i].replacementPending => ~admitted[i].shown.established

(* A finished join is published, its activity host named and its ladder    *)
(* climbed, however often the queue refuses, unless the session goes or    *)
(* joins anew.                                                             *)
Settled(rec) == rec.joinPublished /\ rec.activityHost /\ ~Owed(rec)
                /\ (Migrates => rec.ladder = Len(Ladder))
JoinsSettle ==
    \A i \in Slots :
        admitted[i].joinComplete ~> ~admitted[i].joinComplete \/ Settled(admitted[i])
=============================================================================
