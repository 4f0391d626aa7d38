-------------------------- MODULE DtlsAssociations ---------------------------
(***************************************************************************)
(* The DTLS-like associations of the gameplay endpoint: the handshake, the *)
(* choice of the association a reply goes on, and the migration keys       *)
(* (server/gameplay/dtls/dtls_host.cpp).                                   *)
(*                                                                         *)
(* Init (tag) -> init ack (tag, issued) -> cookie echo -> cookie ack, over *)
(* UDP.  One client endpoint holds an association per security id, and a   *)
(* client that gives an attempt up starts another one with a new tag.  The *)
(* handlers run one after the other on the gameplay pump.                  *)
(*                                                                         *)
(* What is drawn at random is numbered.  The tag of a client is the number *)
(* of its attempt, and stands for the key pair of that attempt as well;    *)
(* the host's tag and cookie go by one number, its key pairs by another,   *)
(* and a draw is assumed to hit nothing still in use.  A key is made of    *)
(* the two key pairs and the secret mixed in: the join key, or the         *)
(* migration key of the id.                                                *)
(***************************************************************************)
EXTENDS Naturals, FiniteSets

CONSTANTS
    Endpoints,        \* client endpoints
    Ids,              \* security ids
    Migrating,        \* the ids the client keys with a migration key
    Peers,            \* the <<endpoint, id>> a client associates on
    Capacity,         \* kAssociationCapacity of g_associations
    PreferenceCapacity, \* kAssociationCapacity of g_preferences
    Timeout,          \* kHandshakeTimeout, in ticks
    MaxDatagrams,     \* bound: datagrams in flight
    MaxAttempts,      \* bound: the attempts of each client, by peer
    Duplicates,       \* whether the network duplicates
    None

ASSUME DtlsAssumption ==
    /\ Peers \subseteq Endpoints \X Ids /\ Migrating \subseteq Ids /\ None \notin Endpoints
    /\ {Capacity, PreferenceCapacity, MaxDatagrams} \subseteq Nat \ {0}
    /\ MaxAttempts \in [Peers -> Nat] /\ Timeout \in Nat /\ Duplicates \in BOOLEAN

VARIABLES
    associations,     \* g_associations
    opened,           \* slots by Association::opened: <<s, u>> if s's is not later
    heard,            \* slots heard since their init, so by Association::heard
    preferences,      \* g_preferences
    clients,          \* external: the client's end of each association
    net               \* external: the datagrams in flight

hostVars == <<associations, opened, heard, preferences>>
vars == <<hostVars, clients, net>>

Secret(id) == IF id \in Migrating THEN id ELSE "join"
Key(tag, drawn, secret) == [client |-> tag, host |-> drawn, secret |-> secret]
NoKey == Key(0, None, None)

Slots == 1..Capacity
Absent == [stage |-> "absent", peer |-> None, tag |-> 0, issued |-> None,
           key |-> NoKey, age |-> 0]
NoPreference == [endpoint |-> None, id |-> None, keyed |-> FALSE, preferred |-> FALSE]
Idle == [stage |-> "idle", tag |-> 0, issued |-> None, key |-> NoKey]

Init ==
    /\ associations = [s \in Slots |-> Absent]
    /\ opened = {} /\ heard = {}
    /\ preferences = [f \in 1..PreferenceCapacity |-> NoPreference]
    /\ clients = [p \in Peers |-> Idle]
    /\ net = {}

(***************************************************************************)
(* Tables.                                                                 *)
(***************************************************************************)
Least(S) == IF S = {} THEN 0 ELSE CHOOSE s \in S : \A u \in S : s <= u

(* Fault: a slot given up keeps its stamps. *)
WithoutNone(order, gone) == order

(* The stamps, as the order they put the slots in that have one. *)
Stamps(order) == {s \in Slots : <<s, s>> \in order}
Without(order, gone) == {pair \in order : pair[1] \notin gone /\ pair[2] \notin gone}
Stamped(order, s) == Without(order, {s}) \cup {<<u, s>> : u \in Stamps(order) \cup {s}}
Latest(order, S) == CHOOSE s \in S : \A u \in S : <<u, s>> \in order

Live == {s \in Slots : associations[s].stage # "absent"}
Established == {s \in Slots : associations[s].stage = "established"}
Of(p) == {s \in Live : associations[s].peer = p}
Vacant ==
    {s \in Slots : \/ associations[s].stage = "absent"
                   \/ associations[s].stage = "cookieWait" /\ associations[s].age > Timeout}
Oldest ==
    {s \in Established : \A u \in Established : associations[u].age <= associations[s].age}

(* Fault: a vacant slot is taken before the peer's own is looked for. *)
AcquiredVacantFirst(p) == IF Vacant # {} THEN {Least(Vacant)} ELSE Of(p) \cup Oldest

(* acquire: the peer's own slot, else a vacant one, else the one of the    *)
(* established associations that was used least recently.                  *)
Acquired(p) ==
    IF Of(p) # {} THEN {Least(Of(p))} ELSE IF Vacant # {} THEN {Least(Vacant)} ELSE Oldest

(* find_preference. *)
PreferenceOf(e) ==
    Least({f \in 1..PreferenceCapacity : preferences[f].endpoint = e})
Prefers(p, field) ==
    /\ PreferenceOf(p[1]) # 0
    /\ preferences[PreferenceOf(p[1])].id = p[2]
    /\ preferences[PreferenceOf(p[1])][field]

(* The row a registration or a preference of endpoint e is written to. *)
PreferenceRow(e) ==
    IF PreferenceOf(e) # 0 THEN PreferenceOf(e)
    ELSE IF PreferenceOf(None) # 0 THEN PreferenceOf(None) ELSE 1

(* Fault: the newest association carries the replies. *)
SendingLatest(e) ==
    LET mine == {s \in Established : associations[s].peer[1] = e}
    IN  IF mine = {} THEN 0 ELSE Latest(opened, mine)

(* find_sending: the preferred association, else the one last heard on,    *)
(* else the one last opened.                                               *)
Sending(e) ==
    LET mine == {s \in Established : associations[s].peer[1] = e}
        preferred == {s \in mine : Prefers(associations[s].peer, "preferred")}
        spoken == mine \cap Stamps(heard)
    IN  IF preferred # {} THEN Least(preferred)
        ELSE IF spoken # {} THEN Latest(heard, spoken)
        ELSE IF mine # {} THEN Latest(opened, mine) ELSE 0

(***************************************************************************)
(* The network (external).  A handler that refuses a datagram does what    *)
(* losing it does.                                                         *)
(***************************************************************************)
Around(p) == {clients[p]} \cup {associations[s] : s \in Of(p)} \cup {d \in net : d.peer = p}

(* The host's tag and cookie of an init ack; its key pair of an agreement. *)
Fresh(d, used) ==
    <<d.peer, d.tag,
      CHOOSE n \in 1..Cardinality(used) + 1 : <<d.peer, d.tag, n>> \notin used>>
FreshCookie(d) == Fresh(d, {x.issued : x \in Around(d.peer)})
FreshPair(d) == Fresh(d, {x.key.host : x \in Around(d.peer)})

(* A cookie ack has the host's public key for a key; only a record and the *)
(* two ends have whole ones.                                               *)
Datagram(kind, p, tag, issued, key) ==
    [kind |-> kind, peer |-> p, tag |-> tag, issued |-> issued, key |-> key]
Remaining(d) ==
    {net \ {d}} \cup {rest \in {net} : Duplicates /\ Cardinality(net) < MaxDatagrams}

Lose(d) == net' = net \ {d} /\ UNCHANGED <<hostVars, clients>>

(***************************************************************************)
(* The host's handlers.                                                    *)
(***************************************************************************)

(* on_init: whatever the slot held is gone before the answer leaves. *)
OnInit(d) ==
    /\ d.kind = "init"
    /\ \E s \in Acquired(d.peer), rest \in Remaining(d) :
           /\ associations' = [associations EXCEPT ![s] =
                  [Absent EXCEPT !.stage = "cookieWait", !.peer = d.peer, !.tag = d.tag,
                                 !.issued = FreshCookie(d)]]
           /\ opened' = Without(opened, {s}) /\ heard' = Without(heard, {s})
           /\ net' = rest \cup {Datagram("initAck", d.peer, d.tag, FreshCookie(d), NoKey)}
    /\ UNCHANGED <<preferences, clients>>

(* Fault: the echoed init ack is not compared with the one issued. *)
EchoesAny(s, d) == TRUE

Echoes(s, d) == d.issued = associations[s].issued

HostSecret(p) == IF Prefers(p, "keyed") THEN Secret(p[2]) ELSE "join"

(* on_cookie_echo: an agreement is derived anew even for a slot that has   *)
(* one; the slot is established if the cookie ack could be sent.  That the *)
(* agreement itself fails is the loss of the echo.                         *)
OnCookieEcho(d) ==
    /\ d.kind = "cookieEcho" /\ Of(d.peer) # {}
    /\ LET s == Least(Of(d.peer))
       IN  /\ Echoes(s, d)
           /\ \E sent \in BOOLEAN, rest \in Remaining(d) :
                  /\ associations' = [associations EXCEPT
                         ![s].stage = IF sent THEN "established" ELSE "cookieWait",
                         ![s].key = Key(d.tag, FreshPair(d), HostSecret(d.peer)), ![s].age = 0]
                  /\ opened' = IF sent THEN Stamped(opened, s) ELSE opened
                  /\ net' = IF sent
                            THEN rest \cup {Datagram("cookieAck", d.peer, associations[s].tag, None,
                                                 Key(0, FreshPair(d), None))}
                            ELSE rest
    /\ UNCHANGED <<heard, preferences, clients>>

(* on_record: the record's tag picks the slot, its key has to open it. *)
OnRecord(d) ==
    /\ d.kind = "record"
    /\ \E s \in Established, rest \in Remaining(d) :
           /\ associations[s].peer[1] = d.peer[1] /\ associations[s].issued = d.issued
           /\ associations[s].key = d.key
           /\ associations' = [associations EXCEPT ![s].age = 0]
           /\ heard' = Stamped(heard, s)
           /\ net' = rest
    /\ UNCHANGED <<opened, preferences, clients>>

(* Fault: the associations made before the key was known are kept. *)
OutdatedNone(p) == {}

Outdated(p) == Of(p)

(* register_security_key, called when the retained descriptor was queued.  *)
Register(e, i) ==
    LET gone == Outdated(<<e, i>>)
    IN  /\ i \in Migrating
        /\ preferences' = [preferences EXCEPT ![PreferenceRow(e)] =
               [endpoint |-> e, id |-> i, keyed |-> TRUE, preferred |-> FALSE]]
        /\ associations' = [s \in Slots |-> IF s \in gone THEN Absent ELSE associations[s]]
        /\ opened' = Without(opened, gone)
        /\ heard' = Without(heard, gone)
        /\ UNCHANGED <<clients, net>>

(* prefer_security_id, called when the client has consumed the descriptor. *)
Prefer(e, i) ==
    /\ i \in Migrating
    /\ LET f == PreferenceRow(e)
           kept == preferences[f].endpoint # None /\ preferences[f].id = i
       IN  preferences' = [preferences EXCEPT ![f] =
               IF kept THEN [@ EXCEPT !.preferred = TRUE]
               ELSE [endpoint |-> e, id |-> i, keyed |-> FALSE, preferred |-> TRUE]]
    /\ UNCHANGED <<associations, opened, heard, clients, net>>

(* The clock, as the ages of the associations; ages beyond the timeout are *)
(* not told apart.                                                         *)
Tick ==
    /\ \E s \in Live : associations[s].age <= Timeout
    /\ associations' = [s \in Slots |->
           IF s \in Live /\ associations[s].age <= Timeout
           THEN [associations[s] EXCEPT !.age = @ + 1] ELSE associations[s]]
    /\ UNCHANGED <<opened, heard, preferences, clients, net>>

(* reset, when the gameplay service stops or starts. *)
Reset ==
    /\ associations' = [s \in Slots |-> Absent]
    /\ opened' = {} /\ heard' = {}
    /\ preferences' = [f \in 1..PreferenceCapacity |-> NoPreference]
    /\ UNCHANGED <<clients, net>>

(***************************************************************************)
(* The client (external).                                                  *)
(***************************************************************************)
Attempt(p) ==
    /\ clients[p].tag < MaxAttempts[p] /\ Cardinality(net) < MaxDatagrams
    /\ clients' = [clients EXCEPT ![p] = [Idle EXCEPT !.stage = "init", !.tag = clients[p].tag + 1]]
    /\ net' = net \cup {Datagram("init", p, clients[p].tag + 1, None, NoKey)}
    /\ UNCHANGED hostVars

OnInitAck(d) ==
    /\ d.kind = "initAck" /\ clients[d.peer].stage = "init" /\ clients[d.peer].tag = d.tag
    /\ clients' = [clients EXCEPT ![d.peer].stage = "echo", ![d.peer].issued = d.issued]
    /\ \E rest \in Remaining(d) :
           net' = rest \cup {Datagram("cookieEcho", d.peer, d.tag, d.issued, NoKey)}
    /\ UNCHANGED hostVars

OnCookieAck(d) ==
    /\ d.kind = "cookieAck" /\ clients[d.peer].stage = "echo" /\ clients[d.peer].tag = d.tag
    /\ clients' = [clients EXCEPT ![d.peer].stage = "up",
                                  ![d.peer].key = Key(d.tag, d.key.host, Secret(d.peer[2]))]
    /\ net' \in Remaining(d)
    /\ UNCHANGED hostVars

SendRecord(p) ==
    /\ clients[p].stage = "up" /\ Cardinality(net) < MaxDatagrams
    /\ \A d \in net : d.kind # "record"
    /\ net' = net \cup {Datagram("record", p, clients[p].tag, clients[p].issued,
                               clients[p].key)}
    /\ UNCHANGED <<hostVars, clients>>

(***************************************************************************)
(* Specification.                                                          *)
(***************************************************************************)
Handled(d) == OnInit(d) \/ OnCookieEcho(d) \/ OnRecord(d) \/ OnInitAck(d) \/ OnCookieAck(d)

Next ==
    \/ \E d \in net : Handled(d) \/ Lose(d)
    \/ \E p \in Peers : Register(p[1], p[2]) \/ Prefer(p[1], p[2]) \/ Attempt(p) \/ SendRecord(p)
    \/ Tick \/ Reset

Spec == Init /\ [][Next]_vars

(***************************************************************************)
(* Properties.                                                             *)
(***************************************************************************)

Numbers == (Peers \X Nat \X Nat) \cup {None}
Keys == [client : Nat, host : Numbers, secret : Ids \cup {"join", None}]

(* Of two stamps one is not the later one. *)
Ordered(order) ==
    /\ order \subseteq Stamps(order) \X Stamps(order)
    /\ \A s, u \in Stamps(order) :
           /\ <<s, u>> \in order \/ <<u, s>> \in order
           /\ <<s, u>> \in order /\ <<u, s>> \in order => s = u
    /\ \A s, u, v \in Stamps(order) :
           <<s, u>> \in order /\ <<u, v>> \in order => <<s, v>> \in order

(* The tables hold what the code puts there; every established association *)
(* has its place in the order by which a reply is routed, and nothing that *)
(* was displaced or dropped keeps one.                                     *)
TypeOK ==
    /\ associations \in [Slots -> [stage : {"absent", "cookieWait", "established"},
                                   peer : Peers \cup {None}, tag : Nat, issued : Numbers,
                                   key : Keys, age : 0..Timeout + 1]]
    /\ Ordered(opened) /\ Established \subseteq Stamps(opened) /\ Stamps(opened) \subseteq Live
    /\ Ordered(heard) /\ Stamps(heard) \subseteq Live
    /\ preferences \in [1..PreferenceCapacity ->
                           [endpoint : Endpoints \cup {None}, id : Ids \cup {None},
                            keyed : BOOLEAN, preferred : BOOLEAN]]
    /\ clients \in [Peers -> [stage : {"idle", "init", "echo", "up"}, tag : Nat,
                              issued : Numbers, key : Keys]]
    /\ net \subseteq [kind : {"init", "initAck", "cookieEcho", "cookieAck", "record"},
                      peer : Peers, tag : Nat, issued : Numbers, key : Keys]

(* However attempts, displacements, registrations and resets interleave,   *)
(* no endpoint has two associations of one security id: the lookups, which *)
(* take the first that fits, would answer a client from either.            *)
OneAssociationPerId ==
    \A s, u \in Live : associations[s].peer = associations[u].peer => s = u

(* Once a migration key is registered, no association of that id works     *)
(* with the join key: not one made before, and not one whose handshake was *)
(* under way.                                                              *)
RegisteredKeyInForce ==
    \A s \in Established :
        Prefers(associations[s].peer, "keyed") =>
            associations[s].key.secret = Secret(associations[s].peer[2])

(* A client and a host that have both finished one attempt agree on its    *)
(* key pairs, whatever of earlier attempts is still in flight; and on the  *)
(* secret, of a migrating id as soon as its key is registered (the row of  *)
(* a key may be overwritten; the associations made with it go on).  A      *)
(* network that duplicates breaks this: see OnCookieEcho.                  *)
KeysAgree ==
    \A s \in Established :
        LET p == associations[s].peer
            k == associations[s].key
            own == clients[p].key
        IN  clients[p].stage = "up" /\ clients[p].tag = associations[s].tag =>
                /\ k.client = own.client /\ k.host = own.host
                /\ p[2] \notin Migrating \/ Prefers(p, "keyed") => k.secret = own.secret

Heard(e) == {s \in Established \cap Stamps(heard) : associations[s].peer[1] = e}

(* Unless the migration prefers it, a reply does not go on an association  *)
(* its client is still opening while there is one the client has spoken    *)
(* on: a retried or additional handshake whose cookie ack is lost does not *)
(* swallow the traffic of the endpoint.                                    *)
RepliesWhereOpened ==
    \A e \in Endpoints : Heard(e) # {} =>
        LET a == associations[Sending(e)]
        IN  \/ Prefers(a.peer, "preferred")
            \/ clients[a.peer].tag = a.tag => clients[a.peer].stage = "up"

=============================================================================
