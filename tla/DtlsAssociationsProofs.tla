----------------------- MODULE DtlsAssociationsProofs ------------------------
(***************************************************************************)
(* Every table size, every set of clients and ids, every network: one      *)
(* association per security id, and a registered key is the key in force;  *)
(* the tables keep their types and orders, a reply goes where its client   *)
(* listens, and, unless the network duplicates, both ends of an attempt    *)
(* that finished have one key.                                             *)
(***************************************************************************)
EXTENDS DtlsAssociations, FiniteSetTheorems, WellFoundedInduction, TLAPS

Rows == 1..PreferenceCapacity

\* What the steps need to know of the tables' shape: the slots hold records,
\* those in use and the datagrams in flight name a peer.
Shape ==
    /\ DOMAIN associations = Slots
    /\ \A s \in Slots : DOMAIN associations[s] = DOMAIN Absent
    /\ \A s \in Live : associations[s].peer \in Peers
    /\ preferences \in [Rows -> [endpoint : Endpoints \cup {None}, id : Ids \cup {None},
                                 keyed : BOOLEAN, preferred : BOOLEAN]]
    /\ \A d \in net : d.peer \in Peers

\* find_preference takes the first row of an endpoint; there is only one.
OnePreference ==
    \A f, g \in Rows :
        preferences[f].endpoint = preferences[g].endpoint /\ preferences[f].endpoint # None
            => f = g

IInv == Shape /\ OnePreference /\ OneAssociationPerId /\ RegisteredKeyInForce

-----------------------------------------------------------------------------

\* The least of a set of one.
LEMMA LeastOfOne == ASSUME NEW s \in Nat PROVE Least({s}) = s
BY SMT DEF Least

\* With one row for an endpoint, find_preference finds exactly that row.
LEMMA PreferenceFound ==
    ASSUME Shape, OnePreference, NEW e \in Endpoints, NEW f \in Rows,
           preferences[f].endpoint = e
    PROVE  PreferenceOf(e) = f /\ f # 0
<1>1. {g \in Rows : preferences[g].endpoint = e} = {f}
  BY DtlsAssumption DEF OnePreference
<1>2. f \in Nat /\ f # 0
  BY DtlsAssumption DEF Rows
<1> QED BY <1>1, <1>2, LeastOfOne DEF PreferenceOf, Rows

\* An endpoint without a row has no preference.
LEMMA PreferenceMissing ==
    ASSUME NEW e, \A f \in Rows : preferences[f].endpoint # e
    PROVE  PreferenceOf(e) = 0
<1>1. {g \in Rows : preferences[g].endpoint = e} = {}
  OBVIOUS
<1> QED BY <1>1 DEF PreferenceOf, Rows, Least

\* What find_preference says of the peers, read off the rows.
KeyedRow(p) ==
    \E f \in Rows : /\ preferences[f].endpoint = p[1]
                    /\ preferences[f].id = p[2] /\ preferences[f].keyed
KeyedRows == \A p \in Peers : Prefers(p, "keyed") <=> KeyedRow(p)

LEMMA PrefersRow == Shape /\ OnePreference => KeyedRows
<1> SUFFICES ASSUME Shape, OnePreference, NEW p \in Peers
             PROVE  Prefers(p, "keyed") <=> KeyedRow(p)
  BY DEF KeyedRows
<1> p[1] \in Endpoints
  BY DtlsAssumption
<1>1. CASE \E f \in Rows : preferences[f].endpoint = p[1]
  <2>1. PICK f \in Rows : preferences[f].endpoint = p[1]
    BY <1>1
  <2>2. PreferenceOf(p[1]) = f /\ f # 0
    BY <2>1, PreferenceFound
  <2>3. \A g \in Rows : preferences[g].endpoint = p[1] => g = f
    BY <2>1, DtlsAssumption DEF OnePreference
  <2> QED BY <2>1, <2>2, <2>3, Zenon DEF Prefers, KeyedRow
<1>2. CASE \A f \in Rows : preferences[f].endpoint # p[1]
  BY <1>2, PreferenceMissing DEF Prefers, KeyedRow
<1> QED BY <1>1, <1>2

\* A peer with an association has a single one, which every lookup finds.
LEMMA OwnSlot ==
    ASSUME Shape, OneAssociationPerId, NEW p, NEW s \in Of(p)
    PROVE  Of(p) = {s} /\ Least(Of(p)) = s /\ s \in Slots
<1>1. Of(p) = {s}
  BY DEF Of, OneAssociationPerId
<1>2. s \in Slots /\ s \in Nat
  BY DtlsAssumption DEF Of, Live, Slots
<1> QED BY <1>1, <1>2, LeastOfOne

\* Only the preferences decide what is preferred.
LEMMA SamePreferences ==
    ASSUME UNCHANGED preferences, NEW p
    PROVE  Prefers(p, "keyed")' <=> Prefers(p, "keyed")
BY DEF Prefers, PreferenceOf, Least

\* A step that gives one slot a peer no other slot has, and establishes it
\* only with the key in force, keeps the invariant.
LEMMA OneSlotChanges ==
    ASSUME IInv, UNCHANGED preferences, NEW s, NEW a,
           DOMAIN associations' = Slots,
           \A u \in Slots : associations'[u] = IF u = s THEN a ELSE associations[u],
           DOMAIN a = DOMAIN Absent, a.peer \in Peers,
           \A u \in Live \ {s} : associations[u].peer # a.peer,
           a.stage = "established" /\ Prefers(a.peer, "keyed") => a.key.secret = Secret(a.peer[2]),
           \A d \in net' : d.peer \in Peers
    PROVE  IInv'
<1>1. Shape'
  BY DEF IInv, Shape, Live, Slots, Rows, Absent
<1>2. OnePreference'
  BY DEF IInv, OnePreference
<1>3. OneAssociationPerId'
  BY DEF IInv, OneAssociationPerId, Live, Slots
<1>4. RegisteredKeyInForce'
  <2> SUFFICES ASSUME NEW u \in Established', NEW p, p = associations'[u].peer,
                      Prefers(p, "keyed")'
               PROVE  associations'[u].key.secret = Secret(p[2])
    BY DEF RegisteredKeyInForce, Secret, Prefers, PreferenceOf, Least
  <2>1. u \in Slots /\ associations'[u].stage = "established"
    BY DEF Established, Slots
  <2>2. Prefers(p, "keyed")
    BY SamePreferences
  <2>3. CASE u = s
    BY <2>1, <2>2, <2>3
  <2>4. CASE u # s
    BY <2>1, <2>2, <2>4 DEF IInv, RegisteredKeyInForce, Established
  <2> QED BY <2>3, <2>4
<1> QED BY <1>1, <1>2, <1>3, <1>4 DEF IInv

\* The datagrams a handler leaves in flight.
LEMMA RemainingPeers ==
    ASSUME Shape, NEW d \in net, NEW rest \in Remaining(d)
    PROVE  \A x \in rest : x.peer \in Peers
BY DEF Shape, Remaining

LEMMA PrefersRowNext == Shape' /\ OnePreference' => KeyedRows'
BY PrefersRow, PTL

-----------------------------------------------------------------------------

LEMMA InitSafe == Init => IInv
<1> SUFFICES ASSUME Init PROVE IInv
  OBVIOUS
<1>1. Live = {} /\ Established = {}
  BY DEF Init, Live, Established, Absent, Slots
<1>2. Shape
  BY <1>1 DEF Init, Shape, Slots, Rows, NoPreference
<1>3. OnePreference
  BY DEF Init, OnePreference, Rows, NoPreference
<1> QED BY <1>1, <1>2, <1>3 DEF IInv, OneAssociationPerId, RegisteredKeyInForce

LEMMA OnInitSafe ==
    ASSUME IInv, NEW d \in net, OnInit(d)
    PROVE  IInv'
<1> d.peer \in Peers
  BY DEF IInv, Shape
<1> DEFINE a == [Absent EXCEPT !.stage = "cookieWait", !.peer = d.peer, !.tag = d.tag,
                               !.issued = FreshCookie(d)]
<1>1. PICK s \in Acquired(d.peer), rest \in Remaining(d) :
          /\ associations' = [associations EXCEPT ![s] = a]
          /\ net' = rest \cup {Datagram("initAck", d.peer, d.tag, FreshCookie(d), NoKey)}
  BY DEF OnInit
<1>2. DOMAIN a = DOMAIN Absent /\ a.peer = d.peer /\ a.stage = "cookieWait"
  BY DEF Absent
<1>3. \A u \in Live \ {s} : associations[u].peer # d.peer
  <2>1. CASE Of(d.peer) = {}
    BY <2>1 DEF Of
  <2>2. CASE Of(d.peer) # {}
    <3>1. PICK u \in Of(d.peer) : TRUE
      BY <2>2
    <3>2. Of(d.peer) = {u} /\ Least(Of(d.peer)) = u
      BY <3>1, OwnSlot DEF IInv
    <3>3. s = u
      BY <1>1, <3>2 DEF Acquired
    <3> QED BY <3>2, <3>3 DEF Of
  <2> QED BY <2>1, <2>2
<1>4. \A x \in net' : x.peer \in Peers
  BY <1>1, RemainingPeers DEF IInv, Datagram
<1>5. UNCHANGED preferences
  BY DEF OnInit
<1>6. /\ DOMAIN associations' = Slots
      /\ \A u \in Slots : associations'[u] = IF u = s THEN a ELSE associations[u]
  BY <1>1 DEF IInv, Shape
<1> HIDE DEF a
<1> QED BY <1>2, <1>3, <1>4, <1>5, <1>6, OneSlotChanges

LEMMA OnCookieEchoSafe ==
    ASSUME IInv, NEW d \in net, OnCookieEcho(d)
    PROVE  IInv'
<1> d.peer \in Peers
  BY DEF IInv, Shape
<1>1. PICK s \in Of(d.peer) : TRUE
  BY DEF OnCookieEcho
<1>2. Of(d.peer) = {s} /\ Least(Of(d.peer)) = s /\ s \in Slots
  BY <1>1, OwnSlot DEF IInv
<1> DEFINE K == Key(d.tag, FreshPair(d), HostSecret(d.peer))
<1>3. PICK sent \in BOOLEAN, rest \in Remaining(d) :
          /\ associations' = [associations EXCEPT
                 ![s].stage = IF sent THEN "established" ELSE "cookieWait",
                 ![s].key = K, ![s].age = 0]
          /\ net' = IF sent
                    THEN rest \cup {Datagram("cookieAck", d.peer, associations[s].tag, None,
                                         Key(0, FreshPair(d), None))}
                    ELSE rest
  BY <1>2 DEF OnCookieEcho
<1>4. K.secret = HostSecret(d.peer)
  BY DEF Key
<1> HIDE DEF K
<1> DEFINE a == [associations[s] EXCEPT !.stage = IF sent THEN "established" ELSE "cookieWait",
                                        !.key = K, !.age = 0]
<1>5. /\ DOMAIN associations' = Slots
      /\ \A u \in Slots : associations'[u] = IF u = s THEN a ELSE associations[u]
  BY <1>2, <1>3 DEF IInv, Shape
<1>6. DOMAIN a = DOMAIN Absent
  BY <1>2 DEF IInv, Shape
<1>7. a.peer = d.peer /\ a.key = K
  BY <1>1, <1>2 DEF IInv, Shape, Absent, Of
<1>8. \A u \in Live \ {s} : associations[u].peer # d.peer
  BY <1>2 DEF Of
<1>9. Prefers(d.peer, "keyed") => K.secret = Secret(d.peer[2])
  BY <1>4 DEF HostSecret
<1>10. \A x \in net' : x.peer \in Peers
  BY <1>3, RemainingPeers DEF IInv, Datagram
<1>11. UNCHANGED preferences
  BY DEF OnCookieEcho
<1> HIDE DEF a
<1> QED BY <1>5, <1>6, <1>7, <1>8, <1>9, <1>10, <1>11, OneSlotChanges

\* A step that only ages or touches the associations keeps the invariant.
LEMMA SameKeys ==
    ASSUME IInv, UNCHANGED preferences, DOMAIN associations' = Slots,
           \A s \in Slots : /\ DOMAIN associations'[s] = DOMAIN Absent
                            /\ associations'[s].stage = associations[s].stage
                            /\ associations'[s].peer = associations[s].peer
                            /\ associations'[s].key = associations[s].key,
           \A d \in net' : d.peer \in Peers
    PROVE  IInv'
<1>1. Live' = Live /\ Established' = Established
  BY DEF Live, Established
<1>2. Shape'
  BY <1>1 DEF IInv, Shape, Live, Slots, Rows, Absent
<1>3. OnePreference'
  BY DEF IInv, OnePreference
<1>4. OneAssociationPerId'
  BY <1>1 DEF IInv, OneAssociationPerId, Live, Slots
<1>5. RegisteredKeyInForce'
  <2> SUFFICES ASSUME NEW s \in Established, NEW p, p = associations[s].peer,
                      Prefers(p, "keyed")'
               PROVE  associations[s].key.secret = Secret(p[2])
    BY <1>1 DEF RegisteredKeyInForce, Secret, Prefers, PreferenceOf, Least, Established
  <2>1. Prefers(p, "keyed")
    BY SamePreferences
  <2> QED BY <2>1 DEF IInv, RegisteredKeyInForce
<1> QED BY <1>2, <1>3, <1>4, <1>5 DEF IInv

LEMMA OnRecordSafe ==
    ASSUME IInv, NEW d \in net, OnRecord(d)
    PROVE  IInv'
<1>1. PICK s \in Established, rest \in Remaining(d) :
          associations' = [associations EXCEPT ![s].age = 0] /\ net' = rest
  BY DEF OnRecord
<1>2. DOMAIN associations' = Slots
  BY <1>1 DEF IInv, Shape
<1>3. \A u \in Slots : /\ DOMAIN associations'[u] = DOMAIN Absent
                       /\ associations'[u].stage = associations[u].stage
                       /\ associations'[u].peer = associations[u].peer
                       /\ associations'[u].key = associations[u].key
  BY <1>1 DEF IInv, Shape, Absent, Established
<1>4. \A x \in net' : x.peer \in Peers
  BY <1>1, RemainingPeers DEF IInv
<1>5. UNCHANGED preferences
  BY DEF OnRecord
<1> QED BY <1>2, <1>3, <1>4, <1>5, SameKeys

LEMMA TickSafe == ASSUME IInv, Tick PROVE IInv'
<1>1. DOMAIN associations' = Slots
  BY DEF Tick
<1>2. \A u \in Slots : /\ DOMAIN associations'[u] = DOMAIN Absent
                       /\ associations'[u].stage = associations[u].stage
                       /\ associations'[u].peer = associations[u].peer
                       /\ associations'[u].key = associations[u].key
  BY DEF Tick, IInv, Shape, Absent
<1>3. (\A x \in net' : x.peer \in Peers) /\ UNCHANGED preferences
  BY DEF Tick, IInv, Shape
<1> QED BY <1>1, <1>2, <1>3, SameKeys

\* The clients and the network leave the host's tables alone.
LEMMA OutsideSafe ==
    ASSUME IInv, UNCHANGED hostVars, \A d \in net' : d.peer \in Peers
    PROVE  IInv'
<1>1. DOMAIN associations' = Slots /\ UNCHANGED preferences
  BY DEF hostVars, IInv, Shape
<1>2. \A u \in Slots : /\ DOMAIN associations'[u] = DOMAIN Absent
                       /\ associations'[u].stage = associations[u].stage
                       /\ associations'[u].peer = associations[u].peer
                       /\ associations'[u].key = associations[u].key
  BY DEF hostVars, IInv, Shape
<1> QED BY <1>1, <1>2, SameKeys

LEMMA ClientsSafe ==
    ASSUME IInv,
           \/ \E d \in net : OnInitAck(d) \/ OnCookieAck(d) \/ Lose(d)
           \/ \E p \in Peers : Attempt(p) \/ SendRecord(p)
    PROVE  IInv'
<1>1. \A d \in net : d.peer \in Peers
  BY DEF IInv, Shape
<1>2. CASE \E d \in net : Lose(d)
  BY <1>1, <1>2, OutsideSafe DEF Lose
<1>3. ASSUME NEW d \in net, OnInitAck(d) PROVE IInv'
  <2>1. PICK rest \in Remaining(d) :
            net' = rest \cup {Datagram("cookieEcho", d.peer, d.tag, d.issued, NoKey)}
    BY <1>3 DEF OnInitAck
  <2>2. \A x \in net' : x.peer \in Peers
    BY <1>1, <2>1, RemainingPeers DEF IInv, Datagram
  <2> QED BY <1>3, <2>2, OutsideSafe DEF OnInitAck
<1>4. ASSUME NEW d \in net, OnCookieAck(d) PROVE IInv'
  <2>1. \A x \in net' : x.peer \in Peers
    BY <1>4, RemainingPeers DEF IInv, OnCookieAck
  <2> QED BY <1>4, <2>1, OutsideSafe DEF OnCookieAck
<1>5. ASSUME NEW p \in Peers, Attempt(p) PROVE IInv'
  <2>1. net' = net \cup {Datagram("init", p, clients[p].tag + 1, None, NoKey)}
    BY <1>5 DEF Attempt
  <2>2. \A x \in net' : x.peer \in Peers
    BY <1>1, <2>1 DEF Datagram
  <2> QED BY <1>5, <2>2, OutsideSafe DEF Attempt
<1>6. CASE \E p \in Peers : SendRecord(p)
  <2>1. \A x \in net' : x.peer \in Peers
    BY <1>1, <1>6 DEF SendRecord, Datagram
  <2> QED BY <1>6, <2>1, OutsideSafe DEF SendRecord
<1> QED BY <1>2, <1>3, <1>4, <1>5, <1>6

-----------------------------------------------------------------------------

\* A row written for an endpoint: it gets the only row of it, and the other
\* endpoints keep theirs or lose it.
LEMMA RowWritten ==
    ASSUME Shape, OnePreference, NEW e \in Endpoints, NEW r,
           r \in [endpoint : {e}, id : Ids, keyed : BOOLEAN, preferred : BOOLEAN],
           preferences' = [preferences EXCEPT ![PreferenceRow(e)] = r]
    PROVE  /\ preferences' \in [Rows -> [endpoint : Endpoints \cup {None}, id : Ids \cup {None},
                                         keyed : BOOLEAN, preferred : BOOLEAN]]
           /\ OnePreference'
           /\ \A f \in Rows : \/ preferences'[f] = preferences[f]
                              \/ f = PreferenceRow(e) /\ preferences'[f] = r
<1>1. \A f \in Rows : preferences'[f] = IF f = PreferenceRow(e) THEN r ELSE preferences[f]
  BY DEF Shape
<1>2. \A f \in Rows : preferences[f].endpoint = e => PreferenceRow(e) = f
  BY PreferenceFound DEF PreferenceRow
<1>3. OnePreference'
  BY <1>1, <1>2 DEF OnePreference
<1>4. preferences' \in [Rows -> [endpoint : Endpoints \cup {None}, id : Ids \cup {None},
                                 keyed : BOOLEAN, preferred : BOOLEAN]]
  BY DEF Shape
<1> QED BY <1>1, <1>3, <1>4

LEMMA RegisterSafe ==
    ASSUME IInv, NEW p \in Peers, Register(p[1], p[2])
    PROVE  IInv'
<1> p[1] \in Endpoints /\ p[2] \in Ids /\ p = <<p[1], p[2]>>
  BY DtlsAssumption
<1> DEFINE r == [endpoint |-> p[1], id |-> p[2], keyed |-> TRUE, preferred |-> FALSE]
<1>1. preferences' = [preferences EXCEPT ![PreferenceRow(p[1])] = r]
  BY DEF Register
<1>2. r \in [endpoint : {p[1]}, id : Ids, keyed : BOOLEAN, preferred : BOOLEAN]
  OBVIOUS
<1>3. /\ preferences' \in [Rows -> [endpoint : Endpoints \cup {None}, id : Ids \cup {None},
                                    keyed : BOOLEAN, preferred : BOOLEAN]]
      /\ OnePreference'
      /\ \A f \in Rows : \/ preferences'[f] = preferences[f]
                         \/ f = PreferenceRow(p[1]) /\ preferences'[f] = r
  BY <1>1, <1>2, RowWritten DEF IInv
<1>4. associations' = [s \in Slots |-> IF s \in Of(p) THEN Absent ELSE associations[s]]
  BY DEF Register, Outdated
<1>5. Live' = Live \ Of(p) /\ Established' = Established \ Of(p)
  BY <1>4 DEF Live, Established, Absent, Slots, Of
<1>6. \A s \in Live' : associations'[s] = associations[s]
  BY <1>4, <1>5 DEF Live
<1>7. Shape'
  <2>1. \A s \in Slots : DOMAIN associations'[s] = DOMAIN Absent
    BY <1>4 DEF IInv, Shape
  <2>2. \A s \in Live' : associations'[s].peer \in Peers
    BY <1>5, <1>6 DEF IInv, Shape
  <2>3. UNCHANGED net
    BY DEF Register
  <2> QED BY <1>3, <1>4, <2>1, <2>2, <2>3 DEF IInv, Shape, Slots, Rows, Absent
<1>8. OneAssociationPerId'
  BY <1>5, <1>6 DEF IInv, OneAssociationPerId
<1>9. RegisteredKeyInForce'
  <2> SUFFICES ASSUME NEW s \in Established', NEW q, q = associations'[s].peer,
                      Prefers(q, "keyed")'
               PROVE  associations'[s].key.secret = Secret(q[2])
    BY DEF RegisteredKeyInForce, Secret, Prefers, PreferenceOf, Least
  <2>1. s \in Established /\ s \in Live' /\ s \notin Of(p) /\ s \in Live
    BY <1>5 DEF Established, Live
  <2>2. associations[s].peer = q /\ q \in Peers /\ q # p
    BY <1>6, <2>1 DEF IInv, Shape, Of
  <2>3. PICK f \in Rows : /\ preferences'[f].endpoint = q[1]
                          /\ preferences'[f].id = q[2] /\ preferences'[f].keyed
    BY <1>3, <1>7, <2>2, PrefersRowNext DEF KeyedRows, KeyedRow
  <2>4. preferences'[f] = preferences[f]
    BY <1>3, <2>2, <2>3, DtlsAssumption
  <2>5. Prefers(q, "keyed")
    BY <2>2, <2>3, <2>4, PrefersRow DEF IInv, KeyedRows, KeyedRow
  <2> QED BY <1>6, <2>1, <2>2, <2>5 DEF IInv, RegisteredKeyInForce
<1> QED BY <1>3, <1>7, <1>8, <1>9 DEF IInv

\* Preferences that lose keys, and gain none, keep the invariant.
LEMMA KeysLost ==
    ASSUME IInv, UNCHANGED <<associations, net>>,
           preferences' \in [Rows -> [endpoint : Endpoints \cup {None}, id : Ids \cup {None},
                                     keyed : BOOLEAN, preferred : BOOLEAN]],
           OnePreference',
           \A f \in Rows : preferences'[f].keyed =>
               /\ preferences[f].keyed
               /\ preferences'[f].endpoint = preferences[f].endpoint
               /\ preferences'[f].id = preferences[f].id
    PROVE  IInv'
<1>1. Live' = Live /\ Established' = Established
  BY DEF Live, Established
<1>2. Shape'
  BY <1>1 DEF IInv, Shape
<1>3. OneAssociationPerId'
  BY <1>1 DEF IInv, OneAssociationPerId
<1>4. RegisteredKeyInForce'
  <2> SUFFICES ASSUME NEW s \in Established, NEW p, p = associations[s].peer,
                      Prefers(p, "keyed")'
               PROVE  associations[s].key.secret = Secret(p[2])
    BY <1>1 DEF RegisteredKeyInForce, Secret, Prefers, PreferenceOf, Least, Established
  <2>1. p \in Peers
    BY DEF IInv, Shape, Established, Live
  <2>2. Prefers(p, "keyed")
    BY <1>2, <2>1, PrefersRow, PrefersRowNext DEF IInv, KeyedRows, KeyedRow
  <2> QED BY <2>2 DEF IInv, RegisteredKeyInForce
<1> QED BY <1>2, <1>3, <1>4 DEF IInv

LEMMA PreferSafe ==
    ASSUME IInv, NEW p \in Peers, Prefer(p[1], p[2])
    PROVE  IInv'
<1> p[1] \in Endpoints /\ p[2] \in Ids
  BY DtlsAssumption
<1> DEFINE f == PreferenceRow(p[1])
           kept == preferences[f].endpoint # None /\ preferences[f].id = p[2]
           r == [endpoint |-> p[1], id |-> p[2], keyed |-> FALSE, preferred |-> TRUE]
<1>1. UNCHANGED <<associations, net>>
  BY DEF Prefer
<1>2. CASE kept
  <2>1. preferences' = [preferences EXCEPT ![f] = [@ EXCEPT !.preferred = TRUE]]
    BY <1>2 DEF Prefer
  <2> HIDE DEF f, kept
  <2>2. /\ preferences' \in [Rows -> [endpoint : Endpoints \cup {None}, id : Ids \cup {None},
                                      keyed : BOOLEAN, preferred : BOOLEAN]]
        /\ \A g \in Rows : /\ preferences'[g].endpoint = preferences[g].endpoint
                           /\ preferences'[g].id = preferences[g].id
                           /\ preferences'[g].keyed = preferences[g].keyed
    BY <2>1 DEF IInv, Shape
  <2>3. OnePreference'
    BY <2>2 DEF IInv, OnePreference
  <2> QED BY <1>1, <2>2, <2>3, KeysLost
<1>3. CASE ~kept
  <2>1. preferences' = [preferences EXCEPT ![PreferenceRow(p[1])] = r]
    BY <1>3 DEF Prefer
  <2>2. r \in [endpoint : {p[1]}, id : Ids, keyed : BOOLEAN, preferred : BOOLEAN] /\ ~r.keyed
    OBVIOUS
  <2> HIDE DEF f, kept, r
  <2> QED BY <1>1, <2>1, <2>2, RowWritten, KeysLost DEF IInv
<1> QED BY <1>2, <1>3

LEMMA ResetSafe == ASSUME IInv, Reset PROVE IInv'
<1>1. Live' = {} /\ Established' = {}
  BY DEF Reset, Live, Established, Absent, Slots
<1>2. Shape'
  BY <1>1 DEF Reset, IInv, Shape, Slots, Rows, NoPreference
<1>3. OnePreference'
  BY DEF Reset, OnePreference, Rows, NoPreference
<1> QED BY <1>1, <1>2, <1>3 DEF IInv, OneAssociationPerId, RegisteredKeyInForce

-----------------------------------------------------------------------------

LEMMA StepSafe == IInv /\ [Next]_vars => IInv'
<1> SUFFICES ASSUME IInv, [Next]_vars PROVE IInv'
  OBVIOUS
<1>1. CASE \E d \in net : OnInit(d) \/ OnCookieEcho(d) \/ OnRecord(d)
  BY <1>1, OnInitSafe, OnCookieEchoSafe, OnRecordSafe
<1>2. CASE \/ \E d \in net : OnInitAck(d) \/ OnCookieAck(d) \/ Lose(d)
           \/ \E p \in Peers : Attempt(p) \/ SendRecord(p)
  BY <1>2, ClientsSafe
<1>3. CASE \E p \in Peers : Register(p[1], p[2]) \/ Prefer(p[1], p[2])
  BY <1>3, RegisterSafe, PreferSafe
<1>4. CASE Tick \/ Reset
  BY <1>4, TickSafe, ResetSafe
<1>5. CASE UNCHANGED vars
  <2>1. UNCHANGED hostVars /\ \A d \in net' : d.peer \in Peers
    BY <1>5 DEF vars, IInv, Shape
  <2> QED BY <2>1, OutsideSafe
<1> QED BY <1>1, <1>2, <1>3, <1>4, <1>5 DEF Next, Handled

\* Attempts, displacements, registrations and resets never leave an endpoint
\* with two associations of one security id (acquire, dtls_host.cpp).
THEOREM AssociationsAreSingle == Spec => []OneAssociationPerId
<1>1. IInv => OneAssociationPerId
  BY DEF IInv
<1> QED BY <1>1, InitSafe, StepSafe, PTL DEF Spec

\* No established association of an id with a registered migration key works
\* with another secret (register_security_key, on_cookie_echo).
THEOREM MigrationKeyIsUsed == Spec => []RegisteredKeyInForce
<1>1. IInv => RegisteredKeyInForce
  BY DEF IInv
<1> QED BY <1>1, InitSafe, StepSafe, PTL DEF Spec

-----------------------------------------------------------------------------
(* The tables' types and orders, where replies go, and what keys agree.    *)

Association == [stage : {"absent", "cookieWait", "established"}, peer : Peers \cup {None},
                tag : Nat, issued : Numbers, key : Keys, age : 0..Timeout + 1]
Client == [stage : {"idle", "init", "echo", "up"}, tag : Nat, issued : Numbers, key : Keys]
Datagrams == [kind : {"init", "initAck", "cookieEcho", "cookieAck", "record"},
              peer : Peers, tag : Nat, issued : Numbers, key : Keys]

-----------------------------------------------------------------------------
(* The orders of the stamps.                                               *)

\* Of the slots of a set that have stamps, one has the latest: of the sets of
\* slots that are not before a given one, one has no other below it.
LEMMA LatestFound ==
    ASSUME NEW order, Ordered(order), NEW S \in SUBSET Stamps(order), S # {}
    PROVE  Latest(order, S) \in S
<1> DEFINE Since(s) == {u \in S : <<s, u>> \in order}
           Sets == {Since(s) : s \in S}
<1>1. IsFiniteSet(Slots)
  BY DtlsAssumption, FS_Interval DEF Slots
<1>2. S \subseteq Slots
  BY DEF Stamps
<1>3. Sets \subseteq FiniteSubsetsOf(Slots) /\ Sets # {}
  <2>1. \A s \in S : Since(s) \in SUBSET Slots
    BY <1>2
  <2>2. \A s \in S : IsFiniteSet(Since(s))
    BY <1>1, <2>1, FS_Subset
  <2> QED BY <2>1, <2>2 DEF FiniteSubsetsOf
<1>4. IsWellFoundedOn(StrictSubsetOrdering(Slots), FiniteSubsetsOf(Slots))
  BY FS_StrictSubsetOrderingWellFounded
<1>5. PICK T \in Sets : \A U \in Sets : <<U, T>> \notin StrictSubsetOrdering(Slots)
  <2> HIDE DEF Sets
  <2> QED BY <1>3, <1>4, WFMin, Zenon
<1>6. PICK s \in S : T = Since(s)
  BY <1>5
<1>7. ASSUME NEW u \in S PROVE <<u, s>> \in order
  <2> SUFFICES ASSUME <<u, s>> \notin order PROVE FALSE
    OBVIOUS
  <2>1. <<s, u>> \in order /\ <<s, s>> \in order
    BY DEF Ordered, Stamps
  <2>2. Since(u) \subseteq Since(s)
    BY <2>1 DEF Ordered
  <2>3. s \in Since(s) /\ s \notin Since(u)
    BY <2>1
  <2>4. <<Since(u), Since(s)>> \in StrictSubsetOrdering(Slots)
    BY <1>2, <2>2, <2>3 DEF StrictSubsetOrdering
  <2> QED BY <1>5, <1>6, <2>4
<1> QED BY <1>7 DEF Latest

\* Taking stamps away, or giving a slot the latest, leaves an order.
LEMMA WithoutStamps ==
    ASSUME NEW order, Ordered(order), NEW gone
    PROVE  /\ Stamps(Without(order, gone)) = Stamps(order) \ gone
           /\ Without(order, gone) \subseteq (Stamps(order) \ gone) \X (Stamps(order) \ gone)
           /\ \A s, u \in Stamps(order) \ gone : <<s, u>> \in Without(order, gone) <=> <<s, u>> \in order
BY DEF Ordered, Stamps, Without

LEMMA StampedStamps ==
    ASSUME NEW order, Ordered(order), NEW s \in Slots
    PROVE  /\ Stamps(Stamped(order, s)) = Stamps(order) \cup {s}
           /\ Stamped(order, s) \subseteq (Stamps(order) \cup {s}) \X (Stamps(order) \cup {s})
           /\ \A u \in Stamps(order) \cup {s} : /\ <<u, s>> \in Stamped(order, s)
                                                /\ <<s, u>> \in Stamped(order, s) => u = s
           /\ \A u, v \in Stamps(order) \ {s} :
                  <<u, v>> \in Stamped(order, s) <=> <<u, v>> \in order
<1> DEFINE rest == Without(order, {s})
           new == {<<u, s>> : u \in Stamps(order) \cup {s}}
<1>1. /\ rest \subseteq (Stamps(order) \ {s}) \X (Stamps(order) \ {s})
      /\ \A u, v \in Stamps(order) \ {s} : <<u, v>> \in rest <=> <<u, v>> \in order
  BY WithoutStamps
<1>2. Stamped(order, s) = rest \cup new
  BY DEF Stamped
<1>3. \A u, v : <<u, v>> \in new <=> v = s /\ u \in Stamps(order) \cup {s}
  OBVIOUS
<1>4. Stamps(order) \subseteq Slots
  BY DEF Stamps
<1>5. \A u \in Stamps(order) : <<u, u>> \in order
  BY DEF Stamps
<1>6. new \subseteq (Stamps(order) \cup {s}) \X (Stamps(order) \cup {s})
  OBVIOUS
<1> HIDE DEF rest, new
<1>7. \A u, v : <<u, v>> \in Stamped(order, s) <=> <<u, v>> \in rest \/ <<u, v>> \in new
  BY <1>2
<1>8. Stamps(Stamped(order, s)) = Stamps(order) \cup {s}
  <2>1. ASSUME NEW u \in Slots PROVE <<u, u>> \in Stamped(order, s) <=> u \in Stamps(order) \cup {s}
    BY <1>1, <1>3, <1>5, <1>7
  <2> QED BY <1>4, <2>1 DEF Stamps
<1>9. Stamped(order, s) \subseteq (Stamps(order) \cup {s}) \X (Stamps(order) \cup {s})
  BY <1>1, <1>2, <1>6
<1> QED BY <1>1, <1>3, <1>7, <1>8, <1>9

\* What an order becomes when slots lose their stamps, and when one gets the
\* latest.
LEMMA WithoutOrdered ==
    ASSUME NEW order, Ordered(order), NEW gone
    PROVE  /\ Ordered(Without(order, gone))
           /\ Stamps(Without(order, gone)) = Stamps(order) \ gone
<1> DEFINE rest == Without(order, gone)
<1>1. /\ Stamps(rest) = Stamps(order) \ gone
      /\ rest \subseteq (Stamps(order) \ gone) \X (Stamps(order) \ gone)
      /\ \A s, u \in Stamps(order) \ gone : <<s, u>> \in rest <=> <<s, u>> \in order
  BY WithoutStamps
<1> HIDE DEF rest
<1>2. Ordered(rest)
  BY <1>1 DEF Ordered
<1> QED BY <1>1, <1>2 DEF rest

LEMMA StampedOrdered ==
    ASSUME NEW order, Ordered(order), NEW s \in Slots
    PROVE  /\ Ordered(Stamped(order, s))
           /\ Stamps(Stamped(order, s)) = Stamps(order) \cup {s}
<1> DEFINE after == Stamped(order, s)
<1>1. /\ Stamps(after) = Stamps(order) \cup {s}
      /\ after \subseteq (Stamps(order) \cup {s}) \X (Stamps(order) \cup {s})
      /\ \A u \in Stamps(order) \cup {s} : <<u, s>> \in after
      /\ \A u \in Stamps(order) \cup {s} : <<s, u>> \in after => u = s
      /\ \A u, v \in Stamps(order) \ {s} : <<u, v>> \in after <=> <<u, v>> \in order
  BY StampedStamps
<1> HIDE DEF after
<1>2. ASSUME NEW u \in Stamps(after), NEW v \in Stamps(after)
      PROVE  /\ <<u, v>> \in after \/ <<v, u>> \in after
             /\ <<u, v>> \in after /\ <<v, u>> \in after => u = v
  <2>1. CASE u = s \/ v = s
    BY <1>1, <2>1
  <2>2. CASE u # s /\ v # s
    BY <1>1, <2>2 DEF Ordered
  <2> QED BY <2>1, <2>2
<1>3. ASSUME NEW u \in Stamps(after), NEW v \in Stamps(after), NEW w \in Stamps(after),
             <<u, v>> \in after, <<v, w>> \in after
      PROVE  <<u, w>> \in after
  <2>1. CASE w = s
    BY <1>1, <2>1
  <2>2. CASE w # s
    <3>1. u # s /\ v # s
      BY <1>1, <1>3, <2>2
    <3> QED BY <1>1, <1>3, <2>2, <3>1 DEF Ordered
  <2> QED BY <2>1, <2>2
<1>4. Ordered(after)
  BY <1>1, <1>2, <1>3 DEF Ordered
<1> QED BY <1>1, <1>4 DEF after

\* The first slot of a set that is not empty is in it.
LEMMA LeastFound ==
    ASSUME NEW S \in SUBSET Nat, S # {}
    PROVE  Least(S) \in S
<1> DEFINE Segments == {0..n : n \in S}
<1>1. Segments \subseteq FiniteSubsetsOf(Nat) /\ Segments # {}
  <2>1. \A n \in S : 0..n \in FiniteSubsetsOf(Nat)
    BY FS_Interval DEF FiniteSubsetsOf
  <2> QED BY <2>1
<1>2. PICK T \in Segments : \A U \in Segments : <<U, T>> \notin StrictSubsetOrdering(Nat)
  <2> HIDE DEF Segments
  <2>1. IsWellFoundedOn(StrictSubsetOrdering(Nat), FiniteSubsetsOf(Nat))
    BY FS_StrictSubsetOrderingWellFounded
  <2> QED BY <1>1, <2>1, WFMin, Zenon
<1>3. PICK x \in S : T = 0..x
  BY <1>2
<1>4. ASSUME NEW y \in S, y < x PROVE FALSE
  <2>1. 0..y \subseteq 0..x /\ 0..y # 0..x /\ 0..y \subseteq Nat /\ 0..x \subseteq Nat
    BY <1>4
  <2> QED BY <1>2, <1>3, <2>1 DEF StrictSubsetOrdering
<1>5. \A y \in S : x <= y
  BY <1>4
<1> QED BY <1>5 DEF Least

-----------------------------------------------------------------------------
(* Types.                                                                  *)

LEMMA PeersOf == ASSUME NEW p \in Peers PROVE p[1] \in Endpoints /\ p[2] \in Ids
BY DtlsAssumption

\* A draw that avoids finitely many numbers is a number.
LEMMA FreshNumber ==
    ASSUME NEW d, d.peer \in Peers, d.tag \in Nat, NEW used, IsFiniteSet(used)
    PROVE  Fresh(d, used) \in Numbers /\ Fresh(d, used)[1] = d.peer /\ Fresh(d, used)[2] = d.tag
<1> DEFINE k == Cardinality(used)
           Free(n) == <<d.peer, d.tag, n>> \notin used
<1>1. k \in Nat
  BY FS_CardinalityType
<1>2. \E n \in 1..k + 1 : Free(n)
  <2> SUFFICES ASSUME \A n \in 1..k + 1 : <<d.peer, d.tag, n>> \in used PROVE FALSE
    OBVIOUS
  <2> DEFINE S == 1..k + 1
             f == [n \in S |-> <<d.peer, d.tag, n>>]
  <2> HIDE DEF k
  <2>1. f \in [S -> used]
    OBVIOUS
  <2>2. IsFiniteSet(S) /\ Cardinality(S) = k + 1
    <3>1. 1 \in Int /\ k + 1 \in Int /\ ~(1 > k + 1) /\ k + 1 - 1 + 1 = k + 1
      BY <1>1
    <3> QED BY <3>1, FS_Interval
  <2>3. Cardinality(used) < Cardinality(S)
    BY <1>1, <2>2 DEF k
  <2>4. \A n, i \in S : f[n] = f[i] => n = i
    OBVIOUS
  <2> HIDE DEF f, S
  <2>5. \E n, i \in S : n # i /\ f[n] = f[i]
    BY <2>1, <2>2, <2>3, FS_PigeonHole
  <2> QED BY <2>4, <2>5
<1> DEFINE m == CHOOSE n \in 1..k + 1 : Free(n)
<1>3. m \in 1..k + 1
  BY <1>2
<1>4. Fresh(d, used) = <<d.peer, d.tag, m>>
  BY DEF Fresh
<1> HIDE DEF m, k
<1> QED BY <1>1, <1>3, <1>4 DEF Numbers

\* What the draws of on_init and on_cookie_echo have to avoid is finite.
LEMMA AroundFinite ==
    ASSUME IsFiniteSet(net), NEW p
    PROVE  IsFiniteSet(Around(p))
<1>1. IsFiniteSet({clients[p]})
  BY FS_Singleton, Zenon
<1>2. IsFiniteSet({d \in net : d.peer = p})
  BY FS_Subset
<1>3. IsFiniteSet({associations[s] : s \in Of(p)})
  <2>1. IsFiniteSet(Slots)
    BY DtlsAssumption, FS_Interval DEF Slots
  <2>2. Of(p) \in SUBSET Slots
    BY DEF Of, Live
  <2>3. IsFiniteSet(Of(p))
    BY <2>1, <2>2, FS_Subset
  <2> DEFINE f == [s \in Of(p) |-> associations[s]]
  <2>4. f \in Surjection(Of(p), {associations[s] : s \in Of(p)})
    BY DEF Surjection
  <2> HIDE DEF f
  <2> QED BY <2>3, <2>4, FS_Surjection, Zenon
<1> QED BY <1>1, <1>2, <1>3, FS_Union DEF Around

LEMMA Draws ==
    ASSUME IsFiniteSet(net), NEW d \in Datagrams
    PROVE  /\ FreshCookie(d) \in Numbers /\ FreshPair(d) \in Numbers
           /\ FreshCookie(d)[1] = d.peer /\ FreshCookie(d)[2] = d.tag
<1>1. IsFiniteSet(Around(d.peer))
  BY AroundFinite
<1> DEFINE f == [x \in Around(d.peer) |-> x.issued]
           g == [x \in Around(d.peer) |-> x.key.host]
<1>2. /\ f \in Surjection(Around(d.peer), {x.issued : x \in Around(d.peer)})
      /\ g \in Surjection(Around(d.peer), {x.key.host : x \in Around(d.peer)})
  BY DEF Surjection
<1> HIDE DEF f, g
<1>3. /\ IsFiniteSet({x.issued : x \in Around(d.peer)})
      /\ IsFiniteSet({x.key.host : x \in Around(d.peer)})
  BY <1>1, <1>2, FS_Surjection, Zenon
<1>4. d.peer \in Peers /\ d.tag \in Nat
  BY DEF Datagrams
<1> QED BY <1>3, <1>4, FreshNumber DEF FreshCookie, FreshPair

HostTypes ==
    /\ associations \in [Slots -> Association]
    /\ Ordered(opened) /\ Established \subseteq Stamps(opened) /\ Stamps(opened) \subseteq Live
    /\ Ordered(heard) /\ Stamps(heard) \subseteq Live
NetTypes == net \subseteq Datagrams /\ IsFiniteSet(net)
ClientTypes == clients \in [Peers -> Client]
Types == HostTypes /\ NetTypes /\ ClientTypes

LEMMA TypeParts == IInv /\ Types => TypeOK
BY DEF IInv, Shape, Rows, Types, HostTypes, NetTypes, ClientTypes, TypeOK, Association, Datagrams, Client

LEMMA RemainingTypes ==
    ASSUME NetTypes, NEW d \in net, NEW rest \in Remaining(d)
    PROVE  rest \subseteq Datagrams /\ IsFiniteSet(rest) /\ rest \subseteq net
<1>1. rest \subseteq net
  BY DEF Remaining
<1> QED BY <1>1, FS_Subset DEF NetTypes

LEMMA SentTypes ==
    ASSUME NEW rest, rest \subseteq Datagrams, IsFiniteSet(rest), NEW x \in Datagrams
    PROVE  rest \cup {x} \subseteq Datagrams /\ IsFiniteSet(rest \cup {x})
BY FS_AddElement

LEMMA KeyTypes ==
    /\ \A tag \in Nat, drawn \in Numbers, secret \in Ids \cup {"join", None} :
           Key(tag, drawn, secret) \in Keys
    /\ NoKey \in Keys /\ None \in Numbers
BY DEF Key, NoKey, Keys, Numbers

LEMMA DatagramTypes ==
    ASSUME NEW kind \in {"init", "initAck", "cookieEcho", "cookieAck", "record"},
           NEW p \in Peers, NEW tag \in Nat, NEW issued \in Numbers, NEW key \in Keys
    PROVE  Datagram(kind, p, tag, issued, key) \in Datagrams
BY DEF Datagram, Datagrams

LEMMA AbsentType == Absent \in Association /\ Absent.stage = "absent" /\ Idle \in Client
<1>1. 0 \in 0..Timeout + 1
  BY DtlsAssumption
<1> QED BY <1>1, KeyTypes DEF Association, Absent, Client, Idle

\* A slot that a new association takes, or an old one gives up.
LEMMA SlotWritten ==
    ASSUME HostTypes, NEW s, NEW a \in Association,
           associations' = [associations EXCEPT ![s] = a],
           opened' \in {opened, Without(opened, {s})} \/ (s \in Slots /\ opened' = Stamped(opened, s)),
           a.stage = "established" => s \in Stamps(opened'),
           heard' \in {heard, Without(heard, {s})} \/ (s \in Slots /\ heard' = Stamped(heard, s)),
           a.stage # "absent"
    PROVE  HostTypes'
<1>1. associations' \in [Slots -> Association]
  BY DEF HostTypes
<1>2. /\ \A u \in Slots : associations'[u] = IF u = s THEN a ELSE associations[u]
      /\ Stamps(opened') \subseteq Slots /\ Stamps(heard') \subseteq Slots
  BY DEF HostTypes, Stamps
<1>3. /\ Ordered(opened') /\ Ordered(heard')
      /\ Stamps(opened') \subseteq Stamps(opened) \cup {s}
      /\ Stamps(opened) \ {s} \subseteq Stamps(opened')
      /\ Stamps(heard') \subseteq Stamps(heard) \cup {s}
  BY WithoutOrdered, StampedOrdered DEF HostTypes
<1>4. Live \subseteq Live' /\ Stamps(opened') \subseteq Live' /\ Stamps(heard') \subseteq Live'
  BY <1>2, <1>3 DEF HostTypes, Live
<1>5. Established' \subseteq Stamps(opened')
  BY <1>2, <1>3 DEF HostTypes, Established
<1> QED BY <1>1, <1>3, <1>4, <1>5 DEF HostTypes

LEMMA OnInitTypes ==
    ASSUME Types, NEW d \in net, OnInit(d)
    PROVE  Types'
<1> d \in Datagrams /\ d.peer \in Peers /\ d.tag \in Nat /\ IsFiniteSet(net)
  BY DEF Types, NetTypes, Datagrams
<1>1. FreshCookie(d) \in Numbers
  BY Draws
<1> DEFINE a == [Absent EXCEPT !.stage = "cookieWait", !.peer = d.peer, !.tag = d.tag,
                               !.issued = FreshCookie(d)]
           x == Datagram("initAck", d.peer, d.tag, FreshCookie(d), NoKey)
<1>2. PICK s \in Acquired(d.peer), rest \in Remaining(d) :
          /\ associations' = [associations EXCEPT ![s] = a]
          /\ opened' = Without(opened, {s}) /\ heard' = Without(heard, {s})
          /\ net' = rest \cup {x}
  BY DEF OnInit
<1>3. a \in Association /\ a.stage = "cookieWait"
  <2>1. Absent \in Association
    BY AbsentType
  <2> QED BY <1>1, <2>1 DEF Association
<1>4. x \in Datagrams
  BY <1>1, KeyTypes, DatagramTypes
<1> HIDE DEF a, x
<1>5. NetTypes'
  BY <1>2, <1>4, RemainingTypes, SentTypes DEF Types, NetTypes
<1>6. HostTypes'
  BY <1>2, <1>3, SlotWritten DEF Types
<1> QED BY <1>5, <1>6 DEF Types, ClientTypes, OnInit

LEMMA OnCookieEchoTypes ==
    ASSUME IInv, Types, NEW d \in net, OnCookieEcho(d)
    PROVE  Types'
<1> d \in Datagrams /\ d.peer \in Peers /\ d.tag \in Nat /\ IsFiniteSet(net)
  BY DEF Types, NetTypes, Datagrams
<1>1. FreshPair(d) \in Numbers /\ HostSecret(d.peer) \in Ids \cup {"join", None}
  BY Draws, DtlsAssumption DEF HostSecret, Secret
<1>2. PICK s \in Of(d.peer) : TRUE
  BY DEF OnCookieEcho
<1>3. Least(Of(d.peer)) = s /\ s \in Slots /\ s \in Live
  BY <1>2, OwnSlot DEF IInv, Of
<1> DEFINE K == Key(d.tag, FreshPair(d), HostSecret(d.peer))
           x == Datagram("cookieAck", d.peer, associations[s].tag, None, Key(0, FreshPair(d), None))
<1>4. PICK sent \in BOOLEAN, rest \in Remaining(d) :
          /\ associations' = [associations EXCEPT
                 ![s].stage = IF sent THEN "established" ELSE "cookieWait",
                 ![s].key = K, ![s].age = 0]
          /\ opened' = IF sent THEN Stamped(opened, s) ELSE opened
          /\ net' = IF sent THEN rest \cup {x} ELSE rest
  BY <1>3 DEF OnCookieEcho
<1> DEFINE a == [associations[s] EXCEPT !.stage = IF sent THEN "established" ELSE "cookieWait",
                                        !.key = K, !.age = 0]
<1>5. associations[s] \in Association /\ associations[s].tag \in Nat
  BY <1>3 DEF Types, HostTypes, Association
<1>6. K \in Keys /\ x \in Datagrams
  BY <1>1, <1>5, KeyTypes, DatagramTypes
<1> HIDE DEF K, x
<1>7. /\ a \in Association /\ a.stage = IF sent THEN "established" ELSE "cookieWait"
      /\ associations' = [associations EXCEPT ![s] = a]
  <2>1. 0 \in 0..Timeout + 1
    BY DtlsAssumption
  <2> QED BY <1>3, <1>4, <1>5, <1>6, <2>1 DEF Association, Types, HostTypes
<1> HIDE DEF a
<1>8. NetTypes'
  BY <1>4, <1>6, RemainingTypes, SentTypes DEF Types, NetTypes
<1>9. a.stage = "established" => s \in Stamps(opened')
  BY <1>3, <1>4, <1>7, StampedOrdered DEF Types, HostTypes
<1>10. HostTypes'
  BY <1>3, <1>4, <1>7, <1>9, SlotWritten DEF Types, OnCookieEcho
<1> QED BY <1>8, <1>10 DEF Types, ClientTypes, OnCookieEcho

LEMMA OnRecordTypes ==
    ASSUME Types, NEW d \in net, OnRecord(d)
    PROVE  Types'
<1>1. PICK s \in Established, rest \in Remaining(d) :
          /\ associations' = [associations EXCEPT ![s].age = 0]
          /\ heard' = Stamped(heard, s) /\ net' = rest
  BY DEF OnRecord
<1> DEFINE a == [associations[s] EXCEPT !.age = 0]
<1>2. s \in Slots /\ associations[s] \in Association /\ associations[s].stage = "established"
  BY DEF Types, HostTypes, Established
<1>3. /\ a \in Association /\ a.stage = "established"
      /\ associations' = [associations EXCEPT ![s] = a]
  <2>1. 0 \in 0..Timeout + 1
    BY DtlsAssumption
  <2> QED BY <1>1, <1>2, <2>1 DEF Association, Types, HostTypes
<1> HIDE DEF a
<1>4. UNCHANGED opened /\ s \in Stamps(opened')
  BY DEF OnRecord, Types, HostTypes
<1>5. HostTypes'
  BY <1>1, <1>2, <1>3, <1>4, SlotWritten DEF Types
<1>6. NetTypes'
  BY <1>1, RemainingTypes DEF Types, NetTypes
<1> QED BY <1>5, <1>6 DEF Types, ClientTypes, OnRecord

LEMMA HostAloneTypes ==
    ASSUME Types, \/ \E p \in Peers : Register(p[1], p[2]) \/ Prefer(p[1], p[2])
                  \/ Tick \/ Reset
    PROVE  Types'
<1>1. UNCHANGED <<net, clients>>
  BY DEF Register, Prefer, Tick, Reset
<1>2. ASSUME NEW p \in Peers, Register(p[1], p[2]) PROVE HostTypes'
  <2> DEFINE gone == Outdated(<<p[1], p[2]>>)
  <2>1. /\ associations' = [s \in Slots |-> IF s \in gone THEN Absent ELSE associations[s]]
        /\ opened' = Without(opened, gone) /\ heard' = Without(heard, gone)
    BY <1>2 DEF Register
  <2> HIDE DEF gone
  <2>2. Absent \in Association /\ Absent.stage = "absent"
    BY AbsentType
  <2>3. /\ Ordered(opened') /\ Stamps(opened') = Stamps(opened) \ gone
        /\ Ordered(heard') /\ Stamps(heard') = Stamps(heard) \ gone
    BY <2>1, WithoutOrdered DEF Types, HostTypes
  <2>4. Live' = Live \ gone /\ Established' = Established \ gone
    BY <2>1, <2>2 DEF Live, Established
  <2> QED BY <2>1, <2>2, <2>3, <2>4 DEF Types, HostTypes
<1>3. ASSUME NEW p \in Peers, Prefer(p[1], p[2]) PROVE HostTypes'
  BY <1>3 DEF Prefer, Types, HostTypes, Live, Established
<1>4. ASSUME Tick PROVE HostTypes'
  <2>1. Live' = Live /\ Established' = Established /\ UNCHANGED <<opened, heard>>
    BY <1>4 DEF Tick, Live, Established
  <2>2. ASSUME NEW s \in Slots PROVE associations'[s] \in Association
    <3>1. associations[s] \in Association
      BY DEF Types, HostTypes
    <3>2. associations[s].age <= Timeout => associations[s].age + 1 \in 0..Timeout + 1
      BY <3>1, DtlsAssumption DEF Association
    <3> QED BY <1>4, <3>1, <3>2 DEF Tick, Association
  <2>3. associations' \in [Slots -> Association]
    BY <1>4, <2>2 DEF Tick
  <2> QED BY <2>1, <2>3 DEF Types, HostTypes
<1>5. ASSUME Reset PROVE HostTypes'
  <2>1. Absent \in Association /\ Absent.stage = "absent"
    BY AbsentType
  <2>2. Live' = {} /\ Established' = {}
    BY <1>5, <2>1 DEF Reset, Live, Established
  <2>3. Ordered({}) /\ Stamps({}) = {}
    BY DEF Ordered, Stamps
  <2>4. associations' \in [Slots -> Association]
    BY <1>5, <2>1 DEF Reset
  <2> QED BY <1>5, <2>2, <2>3, <2>4 DEF Reset, HostTypes
<1> QED BY <1>1, <1>2, <1>3, <1>4, <1>5 DEF Types, NetTypes, ClientTypes

LEMMA OutsideTypes ==
    ASSUME Types, \/ \E d \in net : OnInitAck(d) \/ OnCookieAck(d) \/ Lose(d)
                  \/ \E p \in Peers : Attempt(p) \/ SendRecord(p)
                  \/ UNCHANGED vars
    PROVE  Types'
<1>1. HostTypes'
  <2>1. UNCHANGED hostVars
    BY DEF OnInitAck, OnCookieAck, Lose, Attempt, SendRecord, vars
  <2> QED BY <2>1 DEF Types, HostTypes, hostVars, Live, Established
<1>2. \A p \in Peers : clients[p] \in Client
  BY DEF Types, ClientTypes
<1>3. ASSUME NEW d \in net, OnInitAck(d) PROVE NetTypes' /\ ClientTypes'
  <2>1. d \in Datagrams /\ d.peer \in Peers /\ d.tag \in Nat /\ d.issued \in Numbers
    BY DEF Types, NetTypes, Datagrams
  <2>2. ClientTypes'
    BY <1>2, <1>3, <2>1 DEF OnInitAck, Types, ClientTypes, Client
  <2>3. Datagram("cookieEcho", d.peer, d.tag, d.issued, NoKey) \in Datagrams
    BY <2>1, KeyTypes, DatagramTypes
  <2> QED BY <1>3, <2>2, <2>3, RemainingTypes, SentTypes DEF OnInitAck, Types, NetTypes
<1>4. ASSUME NEW d \in net, OnCookieAck(d) PROVE NetTypes' /\ ClientTypes'
  <2>1. /\ d.peer \in Peers /\ d.tag \in Nat /\ d.key.host \in Numbers
        /\ Secret(d.peer[2]) \in Ids \cup {"join", None}
    BY PeersOf DEF Types, NetTypes, Datagrams, Keys, Secret
  <2> DEFINE K == Key(d.tag, d.key.host, Secret(d.peer[2]))
  <2>2. K \in Keys
    BY <2>1, KeyTypes
  <2>3. clients' = [clients EXCEPT ![d.peer].stage = "up", ![d.peer].key = K]
    BY <1>4 DEF OnCookieAck
  <2> HIDE DEF K
  <2>4. ClientTypes'
    BY <1>2, <2>1, <2>2, <2>3 DEF Types, ClientTypes, Client
  <2> QED BY <1>4, <2>4, RemainingTypes DEF OnCookieAck, Types, NetTypes
<1>5. ASSUME NEW d \in net, Lose(d) PROVE NetTypes' /\ ClientTypes'
  BY <1>5, FS_Subset DEF Lose, Types, NetTypes, ClientTypes
<1>6. ASSUME NEW p \in Peers, Attempt(p) PROVE NetTypes' /\ ClientTypes'
  <2>1. clients[p].tag + 1 \in Nat
    BY <1>2 DEF Client
  <2> DEFINE tag == clients[p].tag + 1
  <2> HIDE DEF tag
  <2>2. [Idle EXCEPT !.stage = "init", !.tag = tag] \in Client
    BY <2>1, KeyTypes DEF Client, Idle, tag
  <2>3. ClientTypes'
    BY <1>6, <2>2 DEF Attempt, Types, ClientTypes, tag
  <2>4. Datagram("init", p, tag, None, NoKey) \in Datagrams
    BY <2>1, KeyTypes, DatagramTypes DEF tag
  <2> QED BY <1>6, <2>3, <2>4, SentTypes DEF Attempt, Types, NetTypes, tag
<1>7. ASSUME NEW p \in Peers, SendRecord(p) PROVE NetTypes' /\ ClientTypes'
  <2>1. clients[p].tag \in Nat /\ clients[p].issued \in Numbers /\ clients[p].key \in Keys
    BY <1>2 DEF Client
  <2>2. Datagram("record", p, clients[p].tag, clients[p].issued, clients[p].key) \in Datagrams
    BY <2>1, DatagramTypes
  <2> QED BY <1>7, <2>2, SentTypes DEF SendRecord, Types, NetTypes, ClientTypes
<1>8. ASSUME UNCHANGED vars PROVE NetTypes' /\ ClientTypes'
  <2>1. net' = net /\ clients' = clients
    BY <1>8 DEF vars
  <2> QED BY <2>1 DEF Types, NetTypes, ClientTypes
<1> QED BY <1>1, <1>3, <1>4, <1>5, <1>6, <1>7, <1>8 DEF Types

LEMMA InitTypes == Init => Types
<1> SUFFICES ASSUME Init PROVE Types
  OBVIOUS
<1>1. Absent \in Association /\ Absent.stage = "absent" /\ Idle \in Client
  BY AbsentType
<1>2. HostTypes
  BY <1>1 DEF Init, HostTypes, Ordered, Stamps, Live, Established
<1> QED BY <1>1, <1>2, FS_EmptySet DEF Init, Types, NetTypes, ClientTypes

LEMMA StepTypes == IInv /\ Types /\ [Next]_vars => Types'
BY OnInitTypes, OnCookieEchoTypes, OnRecordTypes, HostAloneTypes, OutsideTypes DEF Next, Handled

\* The tables hold what the code puts there, every established association has
\* its place in the order by which a reply is routed, and nothing that was
\* displaced or dropped keeps one.
THEOREM AssociationsTyped == Spec => []TypeOK
BY InitSafe, StepSafe, InitTypes, StepTypes, TypeParts, PTL DEF Spec

-----------------------------------------------------------------------------
(* Who an item names: an issued init ack, and so the record that is sent   *)
(* later, names the attempt it answers, and no item an attempt to come.    *)

SlotNamed(a, c) == a.tag <= c.tag /\ a.issued[1] = a.peer /\ a.issued[2] = a.tag
Listening(a, c) == a.tag = c.tag => c.stage = "up"
FlightNamed(d, c) ==
    /\ d.tag <= c.tag
    /\ d.kind \in {"initAck", "cookieEcho", "record"} => d.issued[1] = d.peer /\ d.issued[2] = d.tag
    /\ d.kind = "record" => Listening(d, c)
ClientNamed(p, c) == c.stage \in {"echo", "up"} => c.issued[1] = p /\ c.issued[2] = c.tag

SlotsNamed == \A s \in Live : SlotNamed(associations[s], clients[associations[s].peer])
HeardListen == \A s \in Stamps(heard) : Listening(associations[s], clients[associations[s].peer])
FlightsNamed == \A d \in net : FlightNamed(d, clients[d.peer])
ClientsNamed == \A p \in Peers : ClientNamed(p, clients[p])
NamedInv == SlotsNamed /\ HeardListen /\ FlightsNamed /\ ClientsNamed

\* An item keeps naming its client when the client gets on with an attempt or
\* begins another one.
LEMMA ItemsFollow ==
    ASSUME NEW c, NEW d, c.tag \in Nat, d.tag \in Nat,
           \/ d.tag = c.tag /\ (c.stage = "up" => d.stage = "up")
           \/ d.tag > c.tag
    PROVE  \A x : x.tag \in Nat =>
               /\ SlotNamed(x, c) => SlotNamed(x, d)
               /\ x.tag <= c.tag /\ Listening(x, c) => Listening(x, d)
               /\ FlightNamed(x, c) => FlightNamed(x, d)
BY DEF SlotNamed, Listening, FlightNamed

LEMMA SlotTypes ==
    ASSUME IInv, Types
    PROVE  /\ \A s \in Live : associations[s].peer \in Peers /\ associations[s].tag \in Nat
           /\ Stamps(heard) \subseteq Live /\ Live \subseteq Slots
           /\ \A d \in net : d \in Datagrams /\ d.peer \in Peers /\ d.tag \in Nat
           /\ \A p \in Peers : clients[p].tag \in Nat
BY DEF IInv, Shape, Types, HostTypes, NetTypes, ClientTypes, Association, Datagrams, Client, Live

\* A client moves on and sends one datagram at most.
LEMMA ClientNames ==
    ASSUME IInv, Types, NamedInv, UNCHANGED hostVars, NEW p \in Peers, NEW c, c.tag \in Nat,
           clients' = [clients EXCEPT ![p] = c],
           \/ c.tag = clients[p].tag /\ (clients[p].stage = "up" => c.stage = "up")
           \/ c.tag > clients[p].tag,
           ClientNamed(p, c),
           \A x \in net' : x \in net \/ (x.peer = p /\ FlightNamed(x, c))
    PROVE  NamedInv'
<1>1. \A q \in Peers : clients'[q] = IF q = p THEN c ELSE clients[q]
  BY DEF Types, ClientTypes
<1>2. Live' = Live /\ UNCHANGED <<associations, heard>>
  BY DEF hostVars, Live
<1>3. SlotsNamed' /\ HeardListen'
  <2> SUFFICES ASSUME NEW s \in Live
               PROVE  /\ SlotNamed(associations[s], clients'[associations[s].peer])
                      /\ s \in Stamps(heard) => Listening(associations[s], clients'[associations[s].peer])
    BY <1>2, SlotTypes DEF SlotsNamed, HeardListen
  <2> DEFINE a == associations[s]
  <2>1. /\ a.peer \in Peers /\ a.tag \in Nat /\ clients[a.peer].tag \in Nat
        /\ SlotNamed(a, clients[a.peer])
        /\ s \in Stamps(heard) => Listening(a, clients[a.peer])
    BY SlotTypes DEF NamedInv, SlotsNamed, HeardListen
  <2>2. a.tag <= clients[a.peer].tag
    BY <2>1 DEF SlotNamed
  <2> HIDE DEF a
  <2>3. CASE a.peer # p
    BY <1>1, <2>1, <2>3 DEF a
  <2>4. CASE a.peer = p
    <3>1. /\ SlotNamed(a, clients[p]) => SlotNamed(a, c)
          /\ a.tag <= clients[p].tag /\ Listening(a, clients[p]) => Listening(a, c)
      BY <2>1, <2>4, ItemsFollow
    <3> QED BY <1>1, <2>1, <2>2, <2>4, <3>1 DEF a
  <2> QED BY <2>3, <2>4
<1>4. FlightsNamed'
  <2> SUFFICES ASSUME NEW x \in net' PROVE FlightNamed(x, clients'[x.peer])
    BY DEF FlightsNamed
  <2>1. CASE x \notin net
    BY <1>1, <2>1
  <2>2. CASE x \in net
    <3>1. x.peer \in Peers /\ x.tag \in Nat /\ clients[x.peer].tag \in Nat /\ FlightNamed(x, clients[x.peer])
      BY <2>2, SlotTypes DEF NamedInv, FlightsNamed
    <3> QED BY <1>1, <3>1, ItemsFollow
  <2> QED BY <2>1, <2>2
<1>5. ClientsNamed'
  BY <1>1 DEF NamedInv, ClientsNamed
<1> QED BY <1>3, <1>4, <1>5 DEF NamedInv

\* The host changes one slot, and sends one datagram at most.
LEMMA HostNames ==
    ASSUME IInv, Types, NamedInv, UNCHANGED clients, NEW s,
           \A u \in Live' \ {s} : /\ u \in Live /\ associations'[u].peer = associations[u].peer
                                 /\ associations'[u].tag = associations[u].tag
                                 /\ associations'[u].issued = associations[u].issued,
           s \in Live' => SlotNamed(associations'[s], clients[associations'[s].peer]),
           s \in Stamps(heard') => Listening(associations'[s], clients[associations'[s].peer]),
           Stamps(heard') \subseteq (Stamps(heard) \cup {s}) \cap Live',
           \A x \in net' : x \in net \/ FlightNamed(x, clients[x.peer])
    PROVE  NamedInv'
<1>1. SlotsNamed'
  BY DEF NamedInv, SlotsNamed, SlotNamed
<1>2. HeardListen'
  BY DEF NamedInv, HeardListen, Listening
<1>3. FlightsNamed' /\ ClientsNamed'
  BY DEF NamedInv, FlightsNamed, ClientsNamed
<1> QED BY <1>1, <1>2, <1>3 DEF NamedInv

LEMMA HandlersNamed ==
    ASSUME IInv, Types, Types', NamedInv, NEW d \in net, OnInit(d) \/ OnCookieEcho(d) \/ OnRecord(d)
    PROVE  NamedInv'
<1> DEFINE c == clients[d.peer]
<1>1. /\ d \in Datagrams /\ d.peer \in Peers /\ d.tag \in Nat /\ IsFiniteSet(net)
      /\ FlightNamed(d, c) /\ UNCHANGED clients /\ c.tag \in Nat
  BY SlotTypes DEF Types, NetTypes, NamedInv, FlightsNamed, OnInit, OnCookieEcho, OnRecord
<1>2. associations \in [Slots -> Association] /\ Ordered(heard) /\ Stamps(heard') \subseteq Live'
  BY DEF Types, HostTypes
<1>3. CASE OnInit(d)
  <2> DEFINE a == [Absent EXCEPT !.stage = "cookieWait", !.peer = d.peer, !.tag = d.tag,
                                 !.issued = FreshCookie(d)]
             x == Datagram("initAck", d.peer, d.tag, FreshCookie(d), NoKey)
  <2>1. PICK s \in Acquired(d.peer), rest \in Remaining(d) :
            /\ associations' = [associations EXCEPT ![s] = a]
            /\ heard' = Without(heard, {s}) /\ net' = rest \cup {x}
    BY <1>3 DEF OnInit
  <2>2. a.peer = d.peer /\ a.tag = d.tag /\ a.issued = FreshCookie(d)
    BY DEF Absent
  <2>3. x.kind = "initAck" /\ x.peer = d.peer /\ x.tag = d.tag /\ x.issued = FreshCookie(d)
    BY DEF Datagram
  <2> HIDE DEF a, x
  <2>4. SlotNamed(a, c) /\ FlightNamed(x, c)
    BY <1>1, <2>2, <2>3, Draws DEF SlotNamed, FlightNamed
  <2>5. \A u \in Slots : associations'[u] = IF u = s THEN a ELSE associations[u]
    BY <1>2, <2>1
  <2>6. Stamps(heard') = Stamps(heard) \ {s}
    BY <1>2, <2>1, WithoutOrdered
  <2>7. rest \subseteq net
    BY <2>1 DEF Remaining
  <2>8. \A u \in Live' \ {s} : u \in Live /\ associations'[u] = associations[u]
    BY <2>5 DEF Live
  <2>9. s \in Live' => associations'[s] = a
    BY <2>5 DEF Live
  <2>10. \A y \in net' : y \in net \/ FlightNamed(y, clients[y.peer])
    BY <2>1, <2>3, <2>4, <2>7
  <2>11. /\ s \in Live' => SlotNamed(associations'[s], clients[associations'[s].peer])
         /\ s \notin Stamps(heard') /\ Stamps(heard') \subseteq (Stamps(heard) \cup {s}) \cap Live'
    BY <1>2, <2>2, <2>4, <2>6, <2>9
  <2> HIDE DEF c
  <2> QED BY <1>1, <2>8, <2>10, <2>11, HostNames
<1>4. CASE OnCookieEcho(d)
  <2>1. PICK s \in Of(d.peer) : TRUE
    BY <1>4 DEF OnCookieEcho
  <2>2. Least(Of(d.peer)) = s /\ s \in Live /\ s \in Slots /\ associations[s].peer = d.peer
    BY <2>1, OwnSlot DEF IInv, Of
  <2> DEFINE K == Key(d.tag, FreshPair(d), HostSecret(d.peer))
             x == Datagram("cookieAck", d.peer, associations[s].tag, None, Key(0, FreshPair(d), None))
  <2>3. PICK sent \in BOOLEAN, rest \in Remaining(d) :
            /\ associations' = [associations EXCEPT
                   ![s].stage = IF sent THEN "established" ELSE "cookieWait",
                   ![s].key = K, ![s].age = 0]
            /\ net' = IF sent THEN rest \cup {x} ELSE rest
    BY <1>4, <2>2 DEF OnCookieEcho
  <2>4. x.kind = "cookieAck" /\ x.peer = d.peer /\ x.tag = associations[s].tag
    BY DEF Datagram
  <2> HIDE DEF K, x
  <2>5. /\ \A u \in Slots \ {s} : associations'[u] = associations[u]
        /\ associations'[s].peer = associations[s].peer /\ associations'[s].tag = associations[s].tag
        /\ associations'[s].issued = associations[s].issued
    BY <1>2, <2>2, <2>3 DEF Association
  <2>6. UNCHANGED heard
    BY <1>4 DEF OnCookieEcho
  <2>7. SlotNamed(associations[s], c)
    BY <2>2 DEF NamedInv, SlotsNamed
  <2>8. SlotNamed(associations'[s], c)
    BY <2>5, <2>7 DEF SlotNamed
  <2>9. FlightNamed(x, c)
    BY <2>4, <2>7 DEF SlotNamed, FlightNamed
  <2>10. s \in Stamps(heard) => Listening(associations'[s], c)
    BY <2>2, <2>5 DEF NamedInv, HeardListen, Listening
  <2>11. rest \subseteq net
    BY <2>3 DEF Remaining
  <2>12. \A u \in Live' \ {s} : u \in Live /\ associations'[u] = associations[u]
    BY <2>5 DEF Live
  <2>13. \A y \in net' : y \in net \/ FlightNamed(y, clients[y.peer])
    BY <2>3, <2>4, <2>9, <2>11
  <2>14. /\ SlotNamed(associations'[s], clients[associations'[s].peer])
         /\ s \in Stamps(heard') => Listening(associations'[s], clients[associations'[s].peer])
         /\ Stamps(heard') \subseteq (Stamps(heard) \cup {s}) \cap Live'
    BY <1>2, <2>2, <2>5, <2>6, <2>8, <2>10
  <2> HIDE DEF c
  <2> QED BY <1>1, <2>12, <2>13, <2>14, HostNames
<1>5. CASE OnRecord(d)
  <2>1. PICK s \in Established, rest \in Remaining(d) :
            /\ d.kind = "record" /\ associations[s].issued = d.issued
            /\ associations' = [associations EXCEPT ![s].age = 0]
            /\ heard' = Stamped(heard, s) /\ net' = rest
    BY <1>5 DEF OnRecord
  <2>2. s \in Live /\ s \in Slots
    BY <2>1 DEF Established, Live
  <2>3. /\ \A u \in Slots : /\ associations'[u].peer = associations[u].peer
                            /\ associations'[u].tag = associations[u].tag
                            /\ associations'[u].issued = associations[u].issued
        /\ \A u \in Slots : associations'[u].stage = associations[u].stage
    BY <1>2, <2>1 DEF Association
  <2>4. Live' = Live
    BY <2>3 DEF Live
  <2>5. SlotNamed(associations[s], clients[associations[s].peer])
    BY <2>2 DEF NamedInv, SlotsNamed
  <2>6. associations[s].peer = d.peer /\ associations[s].tag = d.tag
    BY <1>1, <2>1, <2>5 DEF SlotNamed, FlightNamed
  <2>7. SlotNamed(associations'[s], c) /\ Listening(associations'[s], c)
    BY <1>1, <2>1, <2>2, <2>3, <2>5, <2>6 DEF SlotNamed, FlightNamed, Listening
  <2>8. Stamps(heard') = Stamps(heard) \cup {s}
    BY <1>2, <2>1, <2>2, StampedOrdered
  <2>9. rest \subseteq net
    BY <2>1 DEF Remaining
  <2> QED BY <1>1, <1>2, <2>1, <2>2, <2>3, <2>4, <2>6, <2>7, <2>8, <2>9, HostNames DEF Live
<1> QED BY <1>3, <1>4, <1>5

LEMMA OutsideNamed ==
    ASSUME IInv, Types, NamedInv,
           \/ \E d \in net : OnInitAck(d) \/ OnCookieAck(d) \/ Lose(d)
           \/ \E p \in Peers : Attempt(p) \/ SendRecord(p)
    PROVE  NamedInv'
<1> clients \in [Peers -> Client]
  BY DEF Types, ClientTypes
<1>1. ASSUME NEW d \in net, OnInitAck(d) PROVE NamedInv'
  <2> DEFINE c == [clients[d.peer] EXCEPT !.stage = "echo", !.issued = d.issued]
             x == Datagram("cookieEcho", d.peer, d.tag, d.issued, NoKey)
  <2>1. PICK rest \in Remaining(d) : net' = rest \cup {x}
    BY <1>1 DEF OnInitAck
  <2>2. /\ d.peer \in Peers /\ d.kind = "initAck" /\ clients[d.peer] \in Client
        /\ clients[d.peer].stage = "init" /\ clients[d.peer].tag = d.tag /\ d.tag \in Nat
        /\ FlightNamed(d, clients[d.peer])
    BY <1>1, SlotTypes DEF OnInitAck, NamedInv, FlightsNamed
  <2>3. clients' = [clients EXCEPT ![d.peer] = c]
    BY <1>1, <2>2 DEF OnInitAck
  <2>4. c.stage = "echo" /\ c.issued = d.issued /\ c.tag = d.tag
    BY <2>2 DEF Client
  <2>5. x.kind = "cookieEcho" /\ x.peer = d.peer /\ x.tag = d.tag /\ x.issued = d.issued
    BY DEF Datagram
  <2> HIDE DEF c, x
  <2>6. FlightNamed(x, c) /\ ClientNamed(d.peer, c)
    BY <2>2, <2>4, <2>5 DEF FlightNamed, ClientNamed
  <2>7. \A y \in net' : y \in net \/ (y.peer = d.peer /\ FlightNamed(y, c))
    BY <2>1, <2>5, <2>6 DEF Remaining
  <2>8. UNCHANGED hostVars
    BY <1>1 DEF OnInitAck
  <2> QED BY <2>2, <2>3, <2>4, <2>6, <2>7, <2>8, ClientNames
<1>2. ASSUME NEW d \in net, OnCookieAck(d) PROVE NamedInv'
  <2> DEFINE K == Key(d.tag, d.key.host, Secret(d.peer[2]))
             c == [clients[d.peer] EXCEPT !.stage = "up", !.key = K]
  <2>1. /\ d.peer \in Peers /\ clients[d.peer] \in Client
        /\ clients[d.peer].stage = "echo" /\ clients[d.peer].tag = d.tag /\ d.tag \in Nat
        /\ ClientNamed(d.peer, clients[d.peer])
    BY <1>2, SlotTypes DEF OnCookieAck, NamedInv, ClientsNamed
  <2>2. clients' = [clients EXCEPT ![d.peer] = c]
    BY <1>2, <2>1 DEF OnCookieAck
  <2> HIDE DEF K
  <2>3. c.stage = "up" /\ c.issued = clients[d.peer].issued /\ c.tag = d.tag
    BY <2>1 DEF Client
  <2> HIDE DEF c
  <2>4. ClientNamed(d.peer, c)
    BY <2>1, <2>3 DEF ClientNamed
  <2>5. UNCHANGED hostVars /\ \A y \in net' : y \in net
    BY <1>2 DEF OnCookieAck, Remaining
  <2> QED BY <2>1, <2>2, <2>3, <2>4, <2>5, ClientNames
<1>3. ASSUME NEW d \in net, Lose(d) PROVE NamedInv'
  <2>1. /\ UNCHANGED <<clients, associations, heard>> /\ \A y \in net' : y \in net
    BY <1>3 DEF Lose, hostVars
  <2>2. Live' = Live /\ Stamps(heard') \subseteq Live
    BY <2>1, SlotTypes DEF Live
  <2> QED BY <2>1, <2>2 DEF NamedInv, SlotsNamed, HeardListen, FlightsNamed, ClientsNamed
<1>4. ASSUME NEW p \in Peers, Attempt(p) PROVE NamedInv'
  <2> DEFINE tag == clients[p].tag + 1
             c == [Idle EXCEPT !.stage = "init", !.tag = tag]
             x == Datagram("init", p, tag, None, NoKey)
  <2>1. clients[p].tag \in Nat /\ tag \in Nat /\ tag > clients[p].tag
    BY DEF Client
  <2>2. clients' = [clients EXCEPT ![p] = c] /\ net' = net \cup {x} /\ UNCHANGED hostVars
    BY <1>4 DEF Attempt
  <2> HIDE DEF tag
  <2>3. c.stage = "init" /\ c.tag = tag
    BY DEF Idle
  <2>4. x.kind = "init" /\ x.peer = p /\ x.tag = tag
    BY DEF Datagram
  <2> HIDE DEF c, x
  <2>5. FlightNamed(x, c) /\ ClientNamed(p, c)
    BY <2>1, <2>3, <2>4 DEF FlightNamed, ClientNamed
  <2> QED BY <2>1, <2>2, <2>3, <2>4, <2>5, ClientNames
<1>5. ASSUME NEW p \in Peers, SendRecord(p) PROVE NamedInv'
  <2> DEFINE c == clients[p]
             x == Datagram("record", p, clients[p].tag, clients[p].issued, clients[p].key)
  <2>1. /\ net' = net \cup {x} /\ UNCHANGED hostVars /\ UNCHANGED clients
        /\ c.stage = "up" /\ ClientNamed(p, c) /\ c.tag \in Nat
    BY <1>5, SlotTypes DEF SendRecord, hostVars, NamedInv, ClientsNamed
  <2>2. x.kind = "record" /\ x.peer = p /\ x.tag = c.tag /\ x.issued = c.issued
    BY DEF Datagram
  <2>3. clients' = [clients EXCEPT ![p] = c]
    BY <2>1
  <2> HIDE DEF c, x
  <2>4. FlightNamed(x, c)
    BY <2>1, <2>2 DEF FlightNamed, ClientNamed, Listening
  <2>5. c.tag = clients[p].tag /\ c.stage = clients[p].stage
    BY DEF c
  <2>6. \A y \in net' : y \in net \/ (y.peer = p /\ FlightNamed(y, c))
    BY <2>1, <2>2, <2>4
  <2> QED BY <2>1, <2>3, <2>5, <2>6, ClientNames
<1> QED BY <1>1, <1>2, <1>3, <1>4, <1>5

LEMMA HostAloneNamed ==
    ASSUME IInv, Types, Types', NamedInv,
           \/ \E p \in Peers : Register(p[1], p[2]) \/ Prefer(p[1], p[2])
           \/ Tick \/ Reset \/ UNCHANGED vars
    PROVE  NamedInv'
<1>1. UNCHANGED <<net, clients>>
  BY DEF Register, Prefer, Tick, Reset, vars
<1>2. \A s \in Live' : /\ s \in Live /\ associations'[s].peer = associations[s].peer
                      /\ associations'[s].tag = associations[s].tag
                      /\ associations'[s].issued = associations[s].issued
  <2>1. ASSUME NEW p \in Peers, Register(p[1], p[2]), NEW s \in Live'
        PROVE  s \in Live /\ associations'[s] = associations[s]
    <3>1. Absent.stage = "absent"
      BY DEF Absent
    <3> QED BY <2>1, <3>1 DEF Register, Live
  <2>2. CASE Tick
    BY <2>2 DEF Tick, Live, Types, HostTypes, Association
  <2>3. CASE Reset
    <3>1. Absent.stage = "absent"
      BY DEF Absent
    <3> QED BY <2>3, <3>1 DEF Reset, Live
  <2>4. ASSUME UNCHANGED associations, NEW s \in Live'
        PROVE  s \in Live /\ associations'[s] = associations[s]
    BY <2>4 DEF Live
  <2> QED BY <2>1, <2>2, <2>3, <2>4 DEF Prefer, vars, hostVars
<1>3. Stamps(heard') \subseteq Stamps(heard) \cap Live'
  <2>1. ASSUME NEW gone, heard' = Without(heard, gone) PROVE Stamps(heard') \subseteq Stamps(heard)
    BY <2>1, WithoutOrdered DEF Types, HostTypes
  <2>2. CASE heard' = {}
    BY <2>2 DEF Stamps
  <2>3. Stamps(heard') \subseteq Live'
    BY DEF Types, HostTypes
  <2> QED BY <2>1, <2>2, <2>3 DEF Register, Prefer, Tick, Reset, vars, hostVars
<1> QED BY <1>1, <1>2, <1>3
        DEF NamedInv, SlotsNamed, HeardListen, FlightsNamed, ClientsNamed, SlotNamed, Listening

LEMMA InitNamed == Init => NamedInv
<1> SUFFICES ASSUME Init PROVE NamedInv
  OBVIOUS
<1>1. Live = {} /\ Stamps(heard) = {} /\ net = {}
  BY DEF Init, Live, Absent, Stamps
<1>2. \A p \in Peers : clients[p].stage = "idle"
  BY DEF Init, Idle
<1> QED BY <1>1, <1>2 DEF NamedInv, SlotsNamed, HeardListen, FlightsNamed, ClientsNamed, ClientNamed

LEMMA StepNamed == IInv /\ Types /\ NamedInv /\ [Next]_vars => NamedInv'
<1> SUFFICES ASSUME IInv, Types, Types', NamedInv, [Next]_vars PROVE NamedInv'
  BY StepTypes
<1> QED BY HandlersNamed, OutsideNamed, HostAloneNamed DEF Next, Handled

\* Whatever is lost, repeated, retried, displaced, registered or reset: unless
\* the migration prefers it, no reply goes on an association its client is
\* still opening while there is one the client has spoken on (find_sending).
THEOREM RepliesAreHeard == Spec => []RepliesWhereOpened
<1>1. IInv /\ Types /\ NamedInv => RepliesWhereOpened
  <2> SUFFICES ASSUME IInv, Types, NamedInv, NEW e \in Endpoints, Heard(e) # {},
                      NEW a, a = associations[Sending(e)], ~Prefers(a.peer, "preferred"),
                      clients[a.peer].tag = a.tag
               PROVE  clients[a.peer].stage = "up"
    BY DEF RepliesWhereOpened
  <2> DEFINE mine == {s \in Established : associations[s].peer[1] = e}
             preferred == {s \in mine : Prefers(associations[s].peer, "preferred")}
             spoken == mine \cap Stamps(heard)
  <2>1. spoken = Heard(e) /\ spoken \in SUBSET Stamps(heard)
    BY DEF Heard
  <2>2. Latest(heard, spoken) \in spoken
    BY <2>1, LatestFound DEF Types, HostTypes
  <2>3. Sending(e) = IF preferred # {} THEN Least(preferred) ELSE Latest(heard, spoken)
    BY <2>1 DEF Sending
  <2>4. preferred \in SUBSET Nat
    BY DtlsAssumption DEF Established, Slots
  <2> HIDE DEF mine, spoken
  <2>5. preferred = {}
    <3> SUFFICES ASSUME preferred # {} PROVE FALSE
      OBVIOUS
    <3>1. Least(preferred) \in preferred
      BY <2>4, LeastFound
    <3> QED BY <2>3, <3>1
  <2>6. Sending(e) \in Stamps(heard)
    BY <2>1, <2>2, <2>3, <2>5
  <2> QED BY <2>6 DEF NamedInv, HeardListen, Listening
<1> QED BY <1>1, InitSafe, StepSafe, InitTypes, StepTypes, InitNamed, StepNamed, PTL DEF Spec

-----------------------------------------------------------------------------
(* One key: unless the network duplicates, an attempt has one handshake    *)
(* datagram in flight at most, and what it and the client are waiting for  *)
(* says how far the host's association can be.                             *)

Unique == \A d, x \in net :
    d.kind # "record" /\ x.kind # "record" /\ d.peer = x.peer /\ d.tag = x.tag => d = x

Awaited(d, c) ==
    d.tag = c.tag => /\ d.kind \in {"init", "initAck"} => c.stage = "init"
                     /\ d.kind \in {"cookieEcho", "cookieAck"} => c.stage = "echo"
FlightsAwaited == \A d \in net : Awaited(d, clients[d.peer])

Behind(a, d) ==
    a.peer = d.peer /\ a.tag = d.tag =>
        /\ d.kind # "init"
        /\ d.kind \in {"initAck", "cookieEcho"} => a.stage # "established"
        /\ d.kind = "cookieAck" /\ a.stage = "established" =>
               a.key.client = d.tag /\ a.key.host = d.key.host
SlotsBehind == \A s \in Live, d \in net : Behind(associations[s], d)

\* What a client that is up and the association of its attempt hold.
Agrees(a, c) ==
    a.stage = "established" /\ a.tag = c.tag /\ c.stage = "up" =>
        a.key.client = c.key.client /\ a.key.host = c.key.host
SlotsAgree == \A s \in Live : Agrees(associations[s], clients[associations[s].peer])
ClientKeys == \A p \in Peers : clients[p].stage = "up" => clients[p].key.secret = Secret(p[2])
JoinKeys == \A s \in Established :
    associations[s].peer[2] \notin Migrating => associations[s].key.secret = "join"

AgreeInv == Unique /\ FlightsAwaited /\ SlotsBehind /\ SlotsAgree /\ ClientKeys /\ JoinKeys

LEMMA OnceRemaining ==
    ASSUME ~Duplicates, NEW d, NEW rest \in Remaining(d)
    PROVE  rest = net \ {d}
BY DEF Remaining

\* A handshake datagram is answered by another one of its attempt, or not at
\* all.
LEMMA AnswerUnique ==
    ASSUME AgreeInv, NEW d \in net, d.kind # "record", NEW x, x.peer = d.peer, x.tag = d.tag,
           net' = net \ {d} \/ net' = (net \ {d}) \cup {x}
    PROVE  /\ Unique'
           /\ \A y \in net' : y = x \/ (y \in net /\ y # d)
           /\ \A y \in net \ {d} : y.kind # "record" => y.peer # d.peer \/ y.tag # d.tag
BY DEF AgreeInv, Unique

\* The host changes one slot s, in answer to d.
LEMMA HostAgrees ==
    ASSUME IInv, Types, AgreeInv, UNCHANGED clients, NEW s,
           \A u \in Live' \ {s} : u \in Live /\ associations'[u] = associations[u],
           NEW d \in net, d.kind # "record", NEW x, x.peer = d.peer, x.tag = d.tag, x.kind # "record",
           net' = net \ {d} \/ net' = (net \ {d}) \cup {x},
           NEW a, s \in Live' => associations'[s] = a,
           a.peer = d.peer, a.tag = d.tag,
           Behind(a, x), Awaited(x, clients[d.peer]),
           \A u \in Live' \ {s} : Behind(associations[u], x),
           Agrees(a, clients[d.peer]),
           a.stage = "established" /\ a.peer[2] \notin Migrating => a.key.secret = "join"
    PROVE  AgreeInv'
<1>1. /\ Unique'
      /\ \A y \in net' : y = x \/ (y \in net /\ y # d)
      /\ \A y \in net \ {d} : y.kind # "record" => y.peer # d.peer \/ y.tag # d.tag
  BY AnswerUnique
<1>2. FlightsAwaited'
  BY <1>1 DEF AgreeInv, FlightsAwaited
<1>3. SlotsBehind'
  <2> SUFFICES ASSUME NEW u \in Live', NEW y \in net' PROVE Behind(associations'[u], y)
    BY DEF SlotsBehind
  <2>1. CASE u = s /\ y = x
    BY <2>1
  <2>2. CASE u = s /\ y # x
    <3>1. y \in net \ {d}
      BY <1>1, <2>2
    <3> QED BY <1>1, <2>2, <3>1 DEF Behind
  <2>3. CASE u # s
    BY <1>1, <2>3 DEF AgreeInv, SlotsBehind
  <2> QED BY <2>1, <2>2, <2>3
<1>4. SlotsAgree'
  BY DEF AgreeInv, SlotsAgree
<1>5. ClientKeys'
  BY DEF AgreeInv, ClientKeys
<1>6. JoinKeys'
  BY DEF AgreeInv, JoinKeys, Established, Live
<1> QED BY <1>1, <1>2, <1>3, <1>4, <1>5, <1>6 DEF AgreeInv

LEMMA HandshakeAgrees ==
    ASSUME IInv, Types, NamedInv, AgreeInv, ~Duplicates, NEW d \in net, OnInit(d) \/ OnCookieEcho(d)
    PROVE  AgreeInv'
<1> DEFINE c == clients[d.peer]
<1>1. /\ d \in Datagrams /\ d.peer \in Peers /\ d.tag \in Nat /\ FlightNamed(d, c)
      /\ Awaited(d, c) /\ UNCHANGED clients /\ associations \in [Slots -> Association]
  BY SlotTypes DEF Types, HostTypes, NamedInv, FlightsNamed, AgreeInv, FlightsAwaited, OnInit, OnCookieEcho
<1>2. CASE OnInit(d)
  <2> DEFINE a == [Absent EXCEPT !.stage = "cookieWait", !.peer = d.peer, !.tag = d.tag,
                                 !.issued = FreshCookie(d)]
             x == Datagram("initAck", d.peer, d.tag, FreshCookie(d), NoKey)
  <2>1. PICK s \in Acquired(d.peer), rest \in Remaining(d) :
            /\ associations' = [associations EXCEPT ![s] = a] /\ net' = rest \cup {x}
            /\ d.kind = "init"
    BY <1>2 DEF OnInit
  <2>2. a.peer = d.peer /\ a.tag = d.tag /\ a.stage = "cookieWait"
    BY DEF Absent
  <2>3. x.kind = "initAck" /\ x.peer = d.peer /\ x.tag = d.tag
    BY DEF Datagram
  <2> HIDE DEF a, x
  <2>4. \A u \in Slots : associations'[u] = IF u = s THEN a ELSE associations[u]
    BY <1>1, <2>1
  <2>5. \A u \in Live' \ {s} : u \in Live /\ associations'[u] = associations[u]
    BY <2>4 DEF Live
  <2>6. s \in Live' => associations'[s] = a
    BY <2>4 DEF Live
  <2>7. \A u \in Live : Behind(associations[u], x)
    BY <2>1, <2>3 DEF AgreeInv, SlotsBehind, Behind
  <2>8. Behind(a, x) /\ Awaited(x, c) /\ Agrees(a, c) /\ a.stage # "established"
    BY <1>1, <2>1, <2>2, <2>3 DEF Behind, Awaited, Agrees
  <2>9. net' = (net \ {d}) \cup {x}
    BY <2>1, OnceRemaining
  <2> QED BY <1>1, <2>1, <2>2, <2>3, <2>5, <2>6, <2>7, <2>8, <2>9, HostAgrees
<1>3. CASE OnCookieEcho(d)
  <2>1. PICK s \in Of(d.peer) : TRUE
    BY <1>3 DEF OnCookieEcho
  <2>2. /\ Least(Of(d.peer)) = s /\ s \in Live /\ s \in Slots /\ associations[s].peer = d.peer
        /\ \A u \in Live \ {s} : associations[u].peer # d.peer
    <3>1. Of(d.peer) = {s} /\ Least(Of(d.peer)) = s /\ s \in Slots
      BY <2>1, OwnSlot DEF IInv
    <3> QED BY <3>1 DEF Of
  <2> DEFINE K == Key(d.tag, FreshPair(d), HostSecret(d.peer))
             x == Datagram("cookieAck", d.peer, associations[s].tag, None, Key(0, FreshPair(d), None))
  <2>3. PICK sent \in BOOLEAN, rest \in Remaining(d) :
            /\ associations' = [associations EXCEPT
                   ![s].stage = IF sent THEN "established" ELSE "cookieWait",
                   ![s].key = K, ![s].age = 0]
            /\ net' = IF sent THEN rest \cup {x} ELSE rest
            /\ d.kind = "cookieEcho" /\ d.issued = associations[s].issued
    BY <1>3, <2>2 DEF OnCookieEcho, Echoes
  <2>4. SlotNamed(associations[s], c)
    BY <2>2 DEF NamedInv, SlotsNamed
  <2>5. associations[s].tag = d.tag
    BY <1>1, <2>3, <2>4 DEF SlotNamed, FlightNamed
  <2>6. x.kind = "cookieAck" /\ x.peer = d.peer /\ x.tag = d.tag /\ x.key.host = FreshPair(d)
    BY <2>5 DEF Datagram, Key
  <2>7. K.client = d.tag /\ K.host = FreshPair(d) /\ K.secret = HostSecret(d.peer)
    BY DEF Key
  <2> HIDE DEF K, x
  <2> DEFINE a == associations'[s]
  <2>8. /\ \A u \in Slots \ {s} : associations'[u] = associations[u]
        /\ a.peer = d.peer /\ a.tag = d.tag /\ a.key = K
    BY <1>1, <2>2, <2>3, <2>5 DEF Association
  <2>9. \A u \in Live' \ {s} : u \in Live /\ associations'[u] = associations[u]
    BY <2>8 DEF Live
  <2> HIDE DEF a
  <2>10. \A u \in Live' \ {s} : Behind(associations[u], x)
    BY <2>2, <2>6, <2>9 DEF Behind
  <2>11. Behind(a, x) /\ Awaited(x, c) /\ Agrees(a, c)
    BY <1>1, <2>3, <2>6, <2>7, <2>8 DEF Behind, Awaited, Agrees
  <2>12. a.peer[2] \notin Migrating => a.key.secret = "join"
    BY <2>7, <2>8 DEF HostSecret, Secret
  <2>13. net' = net \ {d} \/ net' = (net \ {d}) \cup {x}
    BY <2>3, OnceRemaining
  <2> QED BY <1>1, <2>3, <2>6, <2>8, <2>9, <2>10, <2>11, <2>12, <2>13, HostAgrees DEF a
<1> QED BY <1>2, <1>3

\* A step that leaves every association of an attempt as far as it was, or
\* gives it up.
LEMMA TableAgrees ==
    ASSUME IInv, Types, AgreeInv, UNCHANGED clients, net' \subseteq net,
           \A u \in Live' : /\ u \in Live
                           /\ associations'[u].peer = associations[u].peer
                           /\ associations'[u].tag = associations[u].tag
                           /\ associations'[u].stage = associations[u].stage
                           /\ associations'[u].key = associations[u].key
    PROVE  AgreeInv'
<1>1. Unique' /\ FlightsAwaited' /\ ClientKeys'
  BY DEF AgreeInv, Unique, FlightsAwaited, ClientKeys
<1>2. SlotsBehind'
  BY DEF AgreeInv, SlotsBehind, Behind
<1>3. SlotsAgree'
  BY DEF AgreeInv, SlotsAgree, Agrees
<1>4. JoinKeys'
  BY DEF AgreeInv, JoinKeys, Established, Live
<1> QED BY <1>1, <1>2, <1>3, <1>4 DEF AgreeInv

LEMMA HostAloneAgrees ==
    ASSUME IInv, Types, AgreeInv, ~Duplicates,
           \/ \E d \in net : OnRecord(d) \/ Lose(d)
           \/ \E p \in Peers : Register(p[1], p[2]) \/ Prefer(p[1], p[2])
           \/ Tick \/ Reset \/ UNCHANGED vars
    PROVE  AgreeInv'
<1>1. UNCHANGED clients /\ net' \subseteq net
  BY DEF OnRecord, Remaining, Lose, Register, Prefer, Tick, Reset, vars
<1>2. \A u \in Live' : /\ u \in Live
                      /\ associations'[u].peer = associations[u].peer
                      /\ associations'[u].tag = associations[u].tag
                      /\ associations'[u].stage = associations[u].stage
                      /\ associations'[u].key = associations[u].key
  <2> associations \in [Slots -> Association]
    BY DEF Types, HostTypes
  <2>1. ASSUME NEW p \in Peers, Register(p[1], p[2]), NEW u \in Live'
        PROVE  u \in Live /\ associations'[u] = associations[u]
    <3>1. Absent.stage = "absent"
      BY DEF Absent
    <3> QED BY <2>1, <3>1 DEF Register, Live
  <2>2. CASE Tick
    BY <2>2 DEF Tick, Live, Association
  <2>3. CASE Reset
    <3>1. Absent.stage = "absent"
      BY DEF Absent
    <3> QED BY <2>3, <3>1 DEF Reset, Live
  <2>4. ASSUME UNCHANGED associations, NEW u \in Live'
        PROVE  u \in Live /\ associations'[u] = associations[u]
    BY <2>4 DEF Live
  <2>5. CASE \E d \in net : OnRecord(d)
    <3>1. PICK s \in Established : associations' = [associations EXCEPT ![s].age = 0]
      BY <2>5 DEF OnRecord
    <3> QED BY <3>1 DEF Live, Established, Association
  <2> QED BY <2>1, <2>2, <2>3, <2>4, <2>5 DEF Prefer, Lose, vars, hostVars
<1> QED BY <1>1, <1>2, TableAgrees

\* A client takes d and goes on to c, with x for an answer.
LEMMA ClientAgrees ==
    ASSUME IInv, Types, AgreeInv, UNCHANGED hostVars,
           NEW d \in net, d.kind # "record", d.peer \in Peers, d.tag = clients[d.peer].tag,
           NEW c, clients' = [clients EXCEPT ![d.peer] = c], c.tag = d.tag,
           NEW x, x.peer = d.peer, x.tag = d.tag, x.kind # "record",
           net' = net \ {d} \/ net' = (net \ {d}) \cup {x}, Awaited(x, c),
           \A s \in Live : Behind(associations[s], x),
           \A s \in Live : associations[s].peer = d.peer => Agrees(associations[s], c),
           c.stage = "up" => c.key.secret = Secret(d.peer[2])
    PROVE  AgreeInv'
<1>1. \A q \in Peers : clients'[q] = IF q = d.peer THEN c ELSE clients[q]
  BY DEF Types, ClientTypes
<1>2. /\ Unique'
      /\ \A y \in net' : y = x \/ (y \in net /\ y # d)
      /\ \A y \in net \ {d} : y.kind # "record" => y.peer # d.peer \/ y.tag # d.tag
  BY AnswerUnique
<1>3. FlightsAwaited'
  <2> SUFFICES ASSUME NEW y \in net' PROVE Awaited(y, clients'[y.peer])
    BY DEF FlightsAwaited
  <2>1. CASE y = x
    BY <1>1, <2>1
  <2>2. CASE y # x
    <3>1. y \in net \ {d} /\ y.peer \in Peers /\ Awaited(y, clients[y.peer])
      BY <1>2, <2>2, SlotTypes DEF AgreeInv, FlightsAwaited
    <3> QED BY <1>1, <1>2, <3>1 DEF Awaited
  <2> QED BY <2>1, <2>2
<1>4. associations' = associations /\ Live' = Live /\ Established' = Established
  BY DEF hostVars, Live, Established
<1>5. SlotsBehind'
  BY <1>2, <1>4 DEF AgreeInv, SlotsBehind
<1>6. SlotsAgree'
  BY <1>1, <1>4, SlotTypes DEF AgreeInv, SlotsAgree
<1>7. ClientKeys' /\ JoinKeys'
  BY <1>1, <1>4 DEF AgreeInv, ClientKeys, JoinKeys
<1> QED BY <1>2, <1>3, <1>5, <1>6, <1>7 DEF AgreeInv

LEMMA AnswerAgrees ==
    ASSUME IInv, Types, AgreeInv, ~Duplicates, NEW d \in net, OnInitAck(d) \/ OnCookieAck(d)
    PROVE  AgreeInv'
<1>1. /\ d.peer \in Peers /\ d.tag \in Nat /\ clients[d.peer] \in Client /\ clients \in [Peers -> Client]
      /\ d.tag = clients[d.peer].tag /\ UNCHANGED hostVars
  BY SlotTypes DEF Types, ClientTypes, OnInitAck, OnCookieAck
<1>2. CASE OnInitAck(d)
  <2> DEFINE c == [clients[d.peer] EXCEPT !.stage = "echo", !.issued = d.issued]
             x == Datagram("cookieEcho", d.peer, d.tag, d.issued, NoKey)
  <2>1. PICK rest \in Remaining(d) : net' = rest \cup {x}
    BY <1>2 DEF OnInitAck
  <2>2. clients' = [clients EXCEPT ![d.peer] = c] /\ d.kind = "initAck"
    BY <1>1, <1>2 DEF OnInitAck
  <2>3. c.stage = "echo" /\ c.tag = d.tag
    BY <1>1 DEF Client
  <2>4. x.kind = "cookieEcho" /\ x.peer = d.peer /\ x.tag = d.tag
    BY DEF Datagram
  <2>5. net' = (net \ {d}) \cup {x}
    BY <2>1, OnceRemaining
  <2> HIDE DEF c, x
  <2>6. Awaited(x, c) /\ \A s \in Live : Agrees(associations[s], c)
    BY <2>3, <2>4 DEF Awaited, Agrees
  <2>7. \A s \in Live : Behind(associations[s], x)
    BY <2>2, <2>4 DEF AgreeInv, SlotsBehind, Behind
  <2> QED BY <1>1, <2>2, <2>3, <2>4, <2>5, <2>6, <2>7, ClientAgrees
<1>3. CASE OnCookieAck(d)
  <2> DEFINE K == Key(d.tag, d.key.host, Secret(d.peer[2]))
             c == [clients[d.peer] EXCEPT !.stage = "up", !.key = K]
  <2>1. clients' = [clients EXCEPT ![d.peer] = c] /\ d.kind = "cookieAck"
    BY <1>1, <1>3 DEF OnCookieAck
  <2>2. K.client = d.tag /\ K.host = d.key.host /\ K.secret = Secret(d.peer[2])
    BY DEF Key
  <2> HIDE DEF K
  <2>3. c.stage = "up" /\ c.tag = d.tag /\ c.key = K
    BY <1>1 DEF Client
  <2>4. net' = net \ {d}
    BY <1>3, OnceRemaining DEF OnCookieAck
  <2> HIDE DEF c
  <2> DEFINE x == [kind |-> "none", peer |-> d.peer, tag |-> d.tag]
  <2>5. x.kind = "none" /\ x.peer = d.peer /\ x.tag = d.tag
    OBVIOUS
  <2> HIDE DEF x
  <2>6. Awaited(x, c) /\ \A s \in Live : Behind(associations[s], x)
    BY <2>5 DEF Awaited, Behind
  <2>7. \A s \in Live : associations[s].peer = d.peer => Agrees(associations[s], c)
    BY <2>1, <2>2, <2>3 DEF AgreeInv, SlotsBehind, Behind, Agrees
  <2> QED BY <1>1, <2>1, <2>2, <2>3, <2>4, <2>5, <2>6, <2>7, ClientAgrees
<1> QED BY <1>2, <1>3

LEMMA AttemptAgrees ==
    ASSUME IInv, Types, NamedInv, AgreeInv, NEW p \in Peers, Attempt(p)
    PROVE  AgreeInv'
<1> DEFINE tag == clients[p].tag + 1
           c == [Idle EXCEPT !.stage = "init", !.tag = tag]
           x == Datagram("init", p, tag, None, NoKey)
<1>1. clients[p].tag \in Nat /\ tag \in Nat /\ tag > clients[p].tag
  BY SlotTypes
<1>2. clients' = [clients EXCEPT ![p] = c] /\ net' = net \cup {x} /\ UNCHANGED hostVars
  BY DEF Attempt
<1> HIDE DEF tag
<1>3. c.stage = "init" /\ c.tag = tag
  BY DEF Idle
<1>4. x.kind = "init" /\ x.peer = p /\ x.tag = tag
  BY DEF Datagram
<1> HIDE DEF c, x
<1>5. \A q \in Peers : clients'[q] = IF q = p THEN c ELSE clients[q]
  BY <1>2 DEF Types, ClientTypes
<1>6. \A y \in net : y.peer \in Peers /\ (y.peer = p => y.tag # tag)
  <2> SUFFICES ASSUME NEW y \in net, y.peer = p PROVE y.tag # tag
    BY SlotTypes
  <2> QED BY <1>1, SlotTypes DEF NamedInv, FlightsNamed, FlightNamed
<1>7. \A s \in Live : associations[s].peer \in Peers /\ (associations[s].peer = p => associations[s].tag # tag)
  <2> SUFFICES ASSUME NEW s \in Live, associations[s].peer = p PROVE associations[s].tag # tag
    BY SlotTypes
  <2> QED BY <1>1, SlotTypes DEF NamedInv, SlotsNamed, SlotNamed
<1>8. associations' = associations /\ Live' = Live /\ Established' = Established
  BY <1>2 DEF hostVars, Live, Established
<1>9. Unique'
  BY <1>2, <1>4, <1>6 DEF AgreeInv, Unique
<1>10. FlightsAwaited'
  BY <1>2, <1>3, <1>4, <1>5, <1>6 DEF AgreeInv, FlightsAwaited, Awaited
<1>11. SlotsBehind'
  BY <1>2, <1>4, <1>7, <1>8 DEF AgreeInv, SlotsBehind, Behind
<1>12. SlotsAgree'
  BY <1>3, <1>5, <1>7, <1>8 DEF AgreeInv, SlotsAgree, Agrees
<1>13. ClientKeys' /\ JoinKeys'
  BY <1>3, <1>5, <1>8 DEF AgreeInv, ClientKeys, JoinKeys
<1> QED BY <1>9, <1>10, <1>11, <1>12, <1>13 DEF AgreeInv

LEMMA SendRecordAgrees ==
    ASSUME IInv, Types, AgreeInv, NEW p \in Peers, SendRecord(p)
    PROVE  AgreeInv'
<1> DEFINE x == Datagram("record", p, clients[p].tag, clients[p].issued, clients[p].key)
<1>1. /\ net' = net \cup {x} /\ UNCHANGED clients /\ associations' = associations
      /\ Live' = Live /\ Established' = Established
  BY DEF SendRecord, hostVars, Live, Established
<1>2. x.kind = "record"
  BY DEF Datagram
<1> HIDE DEF x
<1>3. Unique'
  BY <1>1, <1>2 DEF AgreeInv, Unique
<1>4. FlightsAwaited' /\ SlotsBehind'
  BY <1>1, <1>2 DEF AgreeInv, FlightsAwaited, Awaited, SlotsBehind, Behind
<1> QED BY <1>1, <1>3, <1>4 DEF AgreeInv, SlotsAgree, ClientKeys, JoinKeys

LEMMA InitAgrees == Init => AgreeInv
<1> SUFFICES ASSUME Init PROVE AgreeInv
  OBVIOUS
<1>1. Live = {} /\ Established = {} /\ net = {}
  BY DEF Init, Live, Established, Absent
<1>2. \A p \in Peers : clients[p].stage = "idle"
  BY DEF Init, Idle
<1> QED BY <1>1, <1>2
        DEF AgreeInv, Unique, FlightsAwaited, SlotsBehind, SlotsAgree, ClientKeys, JoinKeys

LEMMA StepAgrees ==
    ~Duplicates => (IInv /\ Types /\ NamedInv /\ AgreeInv /\ [Next]_vars => AgreeInv')
BY HandshakeAgrees, HostAloneAgrees, AnswerAgrees, AttemptAgrees, SendRecordAgrees DEF Next, Handled

\* On a network that loses, delays and reorders, but does not duplicate, both
\* ends of an attempt that finished have one key, however many attempts came
\* before it; of a migrating id as soon as its key is registered.
THEOREM BothHaveOneKey == ~Duplicates => (Spec => []KeysAgree)
<1> SUFFICES ASSUME ~Duplicates PROVE Spec => []KeysAgree
  OBVIOUS
<1>1. IInv /\ Types /\ AgreeInv => KeysAgree
  <2> SUFFICES ASSUME IInv, Types, AgreeInv, NEW s \in Established,
                      NEW a, a = associations[s], NEW own, own = clients[a.peer].key,
                      clients[a.peer].stage = "up", clients[a.peer].tag = a.tag
               PROVE  /\ a.key.client = own.client /\ a.key.host = own.host
                      /\ \/ a.peer[2] \in Migrating /\ ~Prefers(a.peer, "keyed")
                         \/ a.key.secret = own.secret
    BY DEF KeysAgree
  <2>1. s \in Live /\ a.stage = "established" /\ a.peer \in Peers
    BY SlotTypes DEF Established, Live
  <2>2. a.key.client = own.client /\ a.key.host = own.host
    BY <2>1 DEF AgreeInv, SlotsAgree, Agrees
  <2>3. own.secret = Secret(a.peer[2])
    BY <2>1 DEF AgreeInv, ClientKeys
  <2>4. CASE Prefers(a.peer, "keyed")
    BY <2>2, <2>3, <2>4 DEF IInv, RegisteredKeyInForce
  <2>5. CASE a.peer[2] \notin Migrating
    BY <2>2, <2>3, <2>5 DEF AgreeInv, JoinKeys, Secret
  <2> QED BY <2>2, <2>4, <2>5
<1>2. IInv /\ Types /\ NamedInv /\ AgreeInv /\ [Next]_vars => AgreeInv'
  BY StepAgrees
<1> QED BY <1>1, <1>2, InitSafe, StepSafe, InitTypes, StepTypes, InitNamed, StepNamed, InitAgrees, PTL
        DEF Spec
=============================================================================
