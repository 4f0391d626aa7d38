------------------------ MODULE GroupAdmissionProofs -------------------------
(***************************************************************************)
(* What the operations on the table of peer links return and preserve, and *)
(* on it what the group-admission properties rest on, for every number of  *)
(* endpoints, sessions, records and links and every size of the queues.    *)
(***************************************************************************)
EXTENDS GroupAdmission, FiniteSetTheorems, WellFoundedInduction, TLAPS

Slot == 1..LinkSlots
Table == [Slot -> Link]

-----------------------------------------------------------------------------
(* Lookup.                                                                 *)

\* A set of numbers has a least one: of the finite segments 0..n with n in
\* the set, one has no other below it.
LEMMA LeastExists ==
    ASSUME NEW S \in SUBSET Nat, S # {}
    PROVE  \E x \in S : \A y \in S : x <= y
<1> DEFINE Segments == {0..n : n \in S}
<1>1. \A n \in S : 0..n \in FiniteSubsetsOf(Nat)
  BY FS_Interval DEF FiniteSubsetsOf
<1>2. PICK T \in Segments : \A U \in Segments : <<U, T>> \notin StrictSubsetOrdering(Nat)
  <2>1. Segments \subseteq FiniteSubsetsOf(Nat) /\ Segments # {}
    BY <1>1
  <2>2. IsWellFoundedOn(StrictSubsetOrdering(Nat), FiniteSubsetsOf(Nat))
    BY FS_StrictSubsetOrderingWellFounded
  <2> QED BY <2>1, <2>2, WFMin, Zenon
<1>3. PICK x \in S : T = 0..x
  BY <1>2
<1>4. ASSUME NEW y \in S, y < x PROVE FALSE
  <2>1. 0..y \subseteq 0..x /\ 0..y # 0..x /\ 0..y \subseteq Nat /\ 0..x \subseteq Nat
    BY <1>4
  <2> QED BY <1>2, <1>3, <2>1 DEF StrictSubsetOrdering
<1> QED BY <1>4

\* A lookup finds the first of the slots that match, and 0 only without one.
LEMMA LowestFound ==
    ASSUME NEW S \in SUBSET Nat, 0 \notin S
    PROVE  /\ Lowest(S) \in Nat
           /\ Lowest(S) = 0 <=> S = {}
           /\ S # {} => Lowest(S) \in S /\ \A x \in S : Lowest(S) <= x
<1>1. CASE S = {}
  BY <1>1 DEF Lowest
<1>2. CASE S # {}
  <2>1. Min(S) \in S /\ \A y \in S : Min(S) <= y
    BY <1>2, LeastExists DEF Min
  <2> QED BY <1>2, <2>1 DEF Lowest
<1> QED BY <1>1, <1>2

LEMMA LinkOfFound ==
    ASSUME NEW ls, NEW e
    PROVE  /\ LinkOf(ls, e) \in Nat
           /\ LinkOf(ls, e) # 0 =>
                 /\ LinkOf(ls, e) \in Slot /\ Present(ls, LinkOf(ls, e))
                 /\ ls[LinkOf(ls, e)].endpoint = e
           /\ LinkOf(ls, e) = 0 =>
                 \A i \in Slot : ~(Present(ls, i) /\ ls[i].endpoint = e)
<1> DEFINE S == {i \in Slot : Present(ls, i) /\ ls[i].endpoint = e}
<1>1. S \subseteq Nat /\ 0 \notin S
  BY LinksAssumption DEF Slot
<1>2. LinkOf(ls, e) = Lowest(S)
  BY DEF LinkOf, Slot
<1> HIDE DEF S
<1>3. /\ Lowest(S) \in Nat /\ (Lowest(S) = 0 <=> S = {})
      /\ S # {} => Lowest(S) \in S
  BY <1>1, LowestFound
<1> QED BY <1>2, <1>3 DEF S

LEMMA LinkForFound ==
    ASSUME NEW ls, NEW s
    PROVE  /\ LinkFor(ls, s) \in Nat
           /\ LinkFor(ls, s) # 0 =>
                 /\ LinkFor(ls, s) \in Slot /\ Present(ls, LinkFor(ls, s))
                 /\ s \in Carried(ls[LinkFor(ls, s)])
           /\ LinkFor(ls, s) = 0 =>
                 \A i \in Slot : ~(Present(ls, i) /\ s \in Carried(ls[i]))
<1> DEFINE S == {i \in Slot : Present(ls, i) /\ s \in Carried(ls[i])}
<1>1. S \subseteq Nat /\ 0 \notin S
  BY LinksAssumption DEF Slot
<1>2. LinkFor(ls, s) = Lowest(S)
  BY DEF LinkFor, Slot
<1> HIDE DEF S
<1>3. /\ Lowest(S) \in Nat /\ (Lowest(S) = 0 <=> S = {})
      /\ S # {} => Lowest(S) \in S
  BY <1>1, LowestFound
<1> QED BY <1>2, <1>3 DEF S

\* The first slot that is free, when one is.
LEMMA VacantFound ==
    ASSUME NEW ls
    PROVE  LET i == Lowest({k \in 1..LinkSlots : ~Present(ls, k)})
           IN  i \in Nat /\ (i # 0 => i \in Slot /\ ~Present(ls, i))
<1> DEFINE S == {k \in 1..LinkSlots : ~Present(ls, k)}
<1>1. S \in SUBSET Nat /\ 0 \notin S
  BY LinksAssumption
<1> HIDE DEF S
<1>2. Lowest(S) \in Nat /\ (Lowest(S) # 0 => Lowest(S) \in S)
  BY <1>1, LowestFound
<1> QED BY <1>2 DEF S, Slot

-----------------------------------------------------------------------------
(* What holds of the table in every state.                                 *)

Single(ls) ==
    \A i, j \in Slot : Present(ls, i) /\ Present(ls, j) /\ ls[i].endpoint = ls[j].endpoint => i = j
AbsentEmpty(ls) == \A i \in Slot : ~Present(ls, i) => ls[i] = NoLink
Introduced(ls) == \A i \in Slot : Present(ls, i) => ls[i].first = "establish"

TableOK(ls) == ls \in Table /\ Single(ls) /\ AbsentEmpty(ls)

\* An operation on the links in place: it makes none and ends none.
InPlace(ls, new) ==
    /\ new \in Table
    /\ \A i \in Slot :
          /\ Present(new, i) <=> Present(ls, i)
          /\ new[i].endpoint = ls[i].endpoint
          /\ ls[i].first = "establish" => new[i].first = "establish"
          /\ ~Present(ls, i) => new[i] = ls[i]

SameSessions(ls, new) == \A i \in Slot : new[i].sessions = ls[i].sessions

LEMMA InPlaceKeeps ==
    ASSUME NEW ls, NEW new, TableOK(ls), InPlace(ls, new)
    PROVE  TableOK(new) /\ (Introduced(ls) => Introduced(new))
BY DEF TableOK, InPlace, Single, AbsentEmpty, Introduced

LEMMA InPlaceTogether ==
    ASSUME NEW ls, NEW mid, NEW new, InPlace(ls, mid), InPlace(mid, new)
    PROVE  InPlace(ls, new)
BY DEF InPlace

LEMMA InPlaceFinds ==
    ASSUME NEW ls, NEW new, InPlace(ls, new), NEW e
    PROVE  LinkOf(new, e) = LinkOf(ls, e)
<1>1. {i \in 1..LinkSlots : Present(new, i) /\ new[i].endpoint = e}
        = {i \in 1..LinkSlots : Present(ls, i) /\ ls[i].endpoint = e}
  BY DEF InPlace, Slot
<1> QED BY <1>1, Zenon DEF LinkOf

-----------------------------------------------------------------------------
(* The operations.                                                         *)

LEMMA PutType ==
    ASSUME NEW link \in Link, NEW m \in Message, Len(link.queue) < QueueSlots
    PROVE  /\ Put(link, m) \in Link
           /\ Put(link, m).endpoint = link.endpoint /\ Put(link, m).stage = link.stage
           /\ Put(link, m).sessions = link.sessions /\ Put(link, m).remote = link.remote
           /\ Put(link, m).first = IF link.first = "none" THEN m ELSE link.first
<1>1. Append(link.queue, m) \in Queue
  BY LinksAssumption DEF Link, Queue
<1> QED BY <1>1 DEF Put, Link

\* A message queued for a session changes the queue of one link.
LEMMA EnqueueInPlace ==
    ASSUME NEW ls \in Table, NEW s, NEW m \in Message
    PROVE  InPlace(ls, Enqueue(ls, s, m)) /\ SameSessions(ls, Enqueue(ls, s, m))
<1>1. CASE ~CanEnqueue(ls, s)
  BY <1>1 DEF Enqueue, InPlace, SameSessions
<1>2. CASE CanEnqueue(ls, s)
  <2>1. LinkFor(ls, s) \in Slot /\ Present(ls, LinkFor(ls, s))
    BY <1>2, LinkForFound DEF CanEnqueue
  <2>2. PICK i \in Slot : i = LinkFor(ls, s)
    BY <2>1
  <2>3. Enqueue(ls, s, m) = [ls EXCEPT ![i] = Put(ls[i], m)]
    BY <1>2, <2>2 DEF Enqueue
  <2>4. ls[i] \in Link /\ Present(ls, i) /\ Len(ls[i].queue) < QueueSlots
    BY <1>2, <2>1, <2>2 DEF Table, CanEnqueue
  <2>5. Put(ls[i], m) \in Link /\ Put(ls[i], m).endpoint = ls[i].endpoint
        /\ Put(ls[i], m).stage = ls[i].stage /\ Put(ls[i], m).sessions = ls[i].sessions
        /\ Put(ls[i], m).first = IF ls[i].first = "none" THEN m ELSE ls[i].first
    BY <2>4, PutType
  <2> QED BY <2>3, <2>4, <2>5 DEF Table, InPlace, SameSessions, Present
<1> QED BY <1>1, <1>2

\* A bind changes one entry of the session list of the endpoint's link.
LEMMA BindInPlace ==
    ASSUME NEW ls \in Table, NEW e, NEW s \in Sessions
    PROVE  InPlace(ls, Bind(ls, e, s))
<1> DEFINE i == LinkOf(ls, e)
           K == {n \in 1..SessionSlots : ls[i].sessions[n] \in {s, NoSession}}
           k == Lowest(K)
<1>1. K \in SUBSET Nat /\ 0 \notin K
  BY LinksAssumption
<1>2. k # 0 => k \in 1..SessionSlots
  <2> HIDE DEF K
  <2>1. k # 0 => k \in K
    BY <1>1, LowestFound
  <2> QED BY <2>1 DEF K
<1>3. CASE i = 0 \/ k = 0
  BY <1>3 DEF Bind, InPlace
<1>4. CASE i # 0 /\ k # 0
  <2> HIDE DEF k
  <2>1. i \in Slot /\ Present(ls, i)
    BY <1>4, LinkOfFound
  <2> HIDE DEF i
  <2> DEFINE held == [ls[i].sessions EXCEPT ![k] = s]
             link == [ls[i] EXCEPT !.sessions = held]
  <2>2. ls[i] \in Link
    BY <2>1 DEF Table
  <2>3. held \in [1..SessionSlots -> Sessions \cup {NoSession}]
    BY <2>2 DEF Link
  <2>4. link \in Link /\ link.endpoint = ls[i].endpoint /\ link.stage = ls[i].stage
        /\ link.first = ls[i].first
    BY <2>2, <2>3 DEF Link
  <2>5. Bind(ls, e, s) = [ls EXCEPT ![i] = link]
    BY <1>4 DEF Bind, i, k
  <2> HIDE DEF link
  <2> QED BY <2>1, <2>4, <2>5 DEF Table, InPlace, Present
<1> QED BY <1>3, <1>4
\* A drop takes the session, and no other, off one link.
LEMMA DropSessionInPlace ==
    ASSUME NEW ls \in Table, NEW s
    PROVE  InPlace(ls, DropSession(ls, s))
<1>1. CASE LinkFor(ls, s) = 0
  BY <1>1 DEF DropSession, InPlace
<1>2. CASE LinkFor(ls, s) # 0
  <2>1. PICK i \in Slot : i = LinkFor(ls, s) /\ Present(ls, i)
    BY <1>2, LinkForFound
  <2> DEFINE held == [k \in 1..SessionSlots |-> IF ls[i].sessions[k] = s THEN NoSession
                                                ELSE ls[i].sessions[k]]
             link == [ls[i] EXCEPT !.sessions = held]
  <2>2. ls[i] \in Link
    BY DEF Table
  <2>3. held \in [1..SessionSlots -> Sessions \cup {NoSession}]
    BY <2>2 DEF Link
  <2>4. link \in Link /\ link.endpoint = ls[i].endpoint /\ link.stage = ls[i].stage
        /\ link.first = ls[i].first
    BY <2>2, <2>3 DEF Link
  <2>5. DropSession(ls, s) = [ls EXCEPT ![i] = link]
    BY <1>2, <2>1 DEF DropSession
  <2> HIDE DEF link
  <2> QED BY <2>1, <2>4, <2>5 DEF Table, InPlace, Present
<1> QED BY <1>1, <1>2

\* A packet with the peer's establish moves a link's stage on.
LEMMA ConnectInPlace ==
    ASSUME NEW ls \in Table, NEW i \in Slot, Present(ls, i)
    PROVE  InPlace(ls, [ls EXCEPT ![i] = Connect(@)])
           /\ SameSessions(ls, [ls EXCEPT ![i] = Connect(@)])
<1> DEFINE link == Connect(ls[i])
<1>1. ls[i] \in Link
  BY DEF Table
<1>2. link \in Link /\ link.endpoint = ls[i].endpoint /\ link.stage = "connected"
      /\ link.first = ls[i].first /\ link.sessions = ls[i].sessions
  BY <1>1 DEF Connect, Link
<1>3. [ls EXCEPT ![i] = Connect(@)] = [ls EXCEPT ![i] = link]
  OBVIOUS
<1> HIDE DEF link
<1> QED BY <1>2, <1>3 DEF Table, InPlace, Present, SameSessions

\* A delivery takes the head off a queue.
LEMMA DeliverInPlace ==
    ASSUME NEW ls \in Table, AbsentEmpty(ls), NEW i \in Slot, ls[i].queue # <<>>
    PROVE  InPlace(ls, [ls EXCEPT ![i].queue = Tail(@)])
           /\ SameSessions(ls, [ls EXCEPT ![i].queue = Tail(@)])
<1> DEFINE link == [ls[i] EXCEPT !.queue = Tail(@)]
<1>1. ls[i] \in Link
  BY DEF Table
<1>2. Tail(ls[i].queue) \in Queue
  BY <1>1, LinksAssumption DEF Link, Queue
<1>3. link \in Link /\ link.endpoint = ls[i].endpoint /\ link.stage = ls[i].stage
      /\ link.first = ls[i].first /\ link.sessions = ls[i].sessions
  BY <1>1, <1>2 DEF Link
<1>4. [ls EXCEPT ![i].queue = Tail(@)] = [ls EXCEPT ![i] = link]
  OBVIOUS
<1>5. Present(ls, i)
  BY DEF AbsentEmpty, NoLink
<1> HIDE DEF link
<1> QED BY <1>3, <1>4, <1>5 DEF Table, InPlace, Present, SameSessions

LEMMA NoLinkType == NoLink \in Link /\ NoLink.stage = "absent" /\ NoLink.first = "none"
<1>1. <<>> \in Queue
  BY LinksAssumption DEF Queue
<1>2. [k \in 1..SessionSlots |-> NoSession] \in [1..SessionSlots -> Sessions \cup {NoSession}]
  OBVIOUS
<1> QED BY <1>1, <1>2, LinksAssumption DEF NoLink, Link

\* The end of an endpoint's links leaves the others as they are.
LEMMA DropEndpointKeeps ==
    ASSUME NEW ls, TableOK(ls), NEW e
    PROVE  /\ TableOK(DropEndpoint(ls, e))
           /\ Introduced(ls) => Introduced(DropEndpoint(ls, e))
<1> DEFINE new == DropEndpoint(ls, e)
<1>1. \A i \in Slot : new[i] = ls[i] \/ new[i] = NoLink
  BY DEF DropEndpoint, Slot
<1>2. new \in Table
  BY <1>1, NoLinkType DEF TableOK, Table, DropEndpoint, Slot
<1> HIDE DEF new
<1>3. Single(new) /\ AbsentEmpty(new) /\ (Introduced(ls) => Introduced(new))
  BY <1>1, NoLinkType DEF TableOK, Single, AbsentEmpty, Present, Introduced
<1> QED BY <1>2, <1>3 DEF TableOK, new

\* A fresh link carries the sessions of the one it replaces and nothing else.
LEMMA FreshLinkType ==
    ASSUME NEW old \in Link, NEW e \in Endpoints, NEW channel \in 0..MaxChannel
    PROVE  LET link == FreshLink(old, e, channel)
           IN  /\ link \in Link
               /\ link.endpoint = e /\ link.stage = "connecting" /\ link.remote = channel
               /\ link.sessions = old.sessions
               /\ link.queue = <<>> /\ link.first = "none"
BY NoLinkType DEF FreshLink, NoLink, Link
\* The link a connect request leaves at the slot it found or took (found # 0
\* or not), which held old.
Answered(old, e, channel, sent, found) ==
    LET link == IF found = 0 \/ old.remote # channel THEN FreshLink(old, e, channel) ELSE old
        answered == IF Len(link.queue) < QueueSlots THEN Put(link, "establish") ELSE link
    IN  IF sent THEN [answered EXCEPT !.told = TRUE] ELSE link

LEMMA AnsweredLink ==
    ASSUME NEW old \in Link, NEW e \in Endpoints, NEW channel \in 0..MaxChannel,
           NEW sent \in BOOLEAN, NEW found,
           found # 0 => old.endpoint = e /\ old.stage # "absent"
    PROVE  LET final == Answered(old, e, channel, sent, found)
           IN  /\ final \in Link /\ final.endpoint = e /\ final.stage # "absent"
               /\ final.sessions = old.sessions
               /\ sent /\ (found # 0 => old.first = "establish") => final.first = "establish"
<1> DEFINE link == IF found = 0 \/ old.remote # channel THEN FreshLink(old, e, channel) ELSE old
           answered == IF Len(link.queue) < QueueSlots THEN Put(link, "establish") ELSE link
           final == IF sent THEN [answered EXCEPT !.told = TRUE] ELSE link
<1>1. /\ link \in Link /\ link.endpoint = e /\ link.stage # "absent"
      /\ link.sessions = old.sessions
      /\ (found # 0 => old.first = "establish") =>
            (link.first = "establish" \/ (link.first = "none" /\ link.queue = <<>>))
  <2>1. CASE found = 0 \/ old.remote # channel
    BY <2>1, FreshLinkType
  <2>2. CASE ~(found = 0 \/ old.remote # channel)
    BY <2>2
  <2> QED BY <2>1, <2>2
<1> HIDE DEF link
<1>2. "establish" \in Message
  BY DEF Message
<1>3. /\ answered \in Link /\ answered.endpoint = e /\ answered.stage # "absent"
      /\ answered.sessions = old.sessions
      /\ (found # 0 => old.first = "establish") => answered.first = "establish"
  <2>1. CASE Len(link.queue) < QueueSlots
    BY <1>1, <1>2, <2>1, PutType
  <2>2. CASE ~(Len(link.queue) < QueueSlots)
    <3>1. link.queue # <<>>
      BY <2>2, LinksAssumption
    <3> QED BY <1>1, <2>2, <3>1
  <2> QED BY <2>1, <2>2
<1> HIDE DEF answered
<1>4. LET told == [answered EXCEPT !.told = TRUE]
      IN  told \in Link /\ told.endpoint = e /\ told.stage = answered.stage
          /\ told.sessions = answered.sessions /\ told.first = answered.first
  BY <1>3 DEF Link
<1>5. /\ final \in Link /\ final.endpoint = e /\ final.stage # "absent"
      /\ final.sessions = old.sessions
      /\ sent /\ (found # 0 => old.first = "establish") => final.first = "establish"
  BY <1>1, <1>3, <1>4
<1> QED BY <1>5 DEF final, answered, link, Answered

\* A connect request keeps one link for its endpoint, introduced when the
\* response left, and a rebuild keeps the sessions.
LEMMA AnswerConnectKeeps ==
    ASSUME NEW ls, TableOK(ls), NEW e \in Endpoints, NEW channel \in 0..MaxChannel,
           NEW sent \in BOOLEAN
    PROVE  LET new == AnswerConnect(ls, e, channel, sent)
           IN  /\ TableOK(new)
               /\ sent /\ Introduced(ls) => Introduced(new)
               /\ SameSessions(ls, new)
               /\ \A i \in Slot : Present(ls, i) =>
                     Present(new, i) /\ new[i].endpoint = ls[i].endpoint
<1> DEFINE new == AnswerConnect(ls, e, channel, sent)
           found == LinkOf(ls, e)
           vacant == Lowest({k \in 1..LinkSlots : ~Present(ls, k)})
           i == IF found # 0 THEN found ELSE vacant
           final == Answered(ls[i], e, channel, sent, found)
<1>1. new = IF i = 0 THEN ls ELSE [ls EXCEPT ![i] = final]
  BY Zenon DEF AnswerConnect, Answered
<1>2. CASE i = 0
  BY <1>1, <1>2 DEF SameSessions
<1>3. CASE i # 0
  <2>1. /\ found \in Nat
        /\ found # 0 => found \in Slot /\ Present(ls, found) /\ ls[found].endpoint = e
        /\ found = 0 => \A j \in Slot : ~(Present(ls, j) /\ ls[j].endpoint = e)
    BY LinkOfFound
  <2>2. vacant # 0 => vacant \in Slot /\ ~Present(ls, vacant)
    BY VacantFound
  <2> HIDE DEF found, vacant
  <2>3. /\ i \in Slot
        /\ IF found = 0 THEN ~Present(ls, i) ELSE Present(ls, i) /\ ls[i].endpoint = e
    BY <1>3, <2>1, <2>2
  <2>4. ls[i] \in Link
    BY <2>3 DEF TableOK, Table
  <2> HIDE DEF i
  <2>5. /\ final \in Link /\ final.endpoint = e /\ final.stage # "absent"
        /\ final.sessions = ls[i].sessions
        /\ sent /\ (found # 0 => ls[i].first = "establish") => final.first = "establish"
    <3>1. found # 0 => ls[i].endpoint = e /\ ls[i].stage # "absent"
      BY <2>3 DEF Present
    <3> QED BY <3>1, <2>4, AnsweredLink
  <2> HIDE DEF final
  <2>6. new = [ls EXCEPT ![i] = final]
    BY <1>1, <1>3
  <2> HIDE DEF new
  <2>7. new \in Table /\ \A j \in Slot : new[j] = IF j = i THEN final ELSE ls[j]
    BY <2>3, <2>5, <2>6 DEF TableOK, Table
  <2>8. Single(new)
    BY <2>1, <2>3, <2>5, <2>7 DEF TableOK, Single, Present
  <2>9. AbsentEmpty(new)
    BY <2>5, <2>7 DEF TableOK, AbsentEmpty, Present
  <2>10. sent /\ Introduced(ls) => Introduced(new)
    BY <2>3, <2>5, <2>7 DEF Introduced, Present
  <2>11. SameSessions(ls, new)
    BY <2>5, <2>7 DEF SameSessions
  <2>12. \A j \in Slot : Present(ls, j) => Present(new, j) /\ new[j].endpoint = ls[j].endpoint
    BY <2>1, <2>3, <2>5, <2>7 DEF Present
  <2> QED BY <2>7, <2>8, <2>9, <2>10, <2>11, <2>12 DEF TableOK, new
<1> QED BY <1>2, <1>3 DEF new
-----------------------------------------------------------------------------
(* Which link carries a session.                                           *)

\* The links in place stay, and carry at least what they did but for T.
Carries(ls, new, T) ==
    \A i \in Slot : Present(ls, i) =>
        /\ Present(new, i) /\ new[i].endpoint = ls[i].endpoint
        /\ Carried(ls[i]) \ T \subseteq Carried(new[i])

LEMMA BoundKept ==
    ASSUME NEW ls, NEW new, Single(new), NEW T, Carries(ls, new, T),
           NEW e, NEW s, Bound(ls, e, s), s \notin T
    PROVE  Bound(new, e, s)
<1>1. PICK i \in Slot : /\ i = LinkOf(ls, e) /\ Present(ls, i) /\ ls[i].endpoint = e
                        /\ s \in Carried(ls[i])
  BY LinkOfFound DEF Bound
<1>2. Present(new, i) /\ new[i].endpoint = e /\ s \in Carried(new[i])
  BY <1>1 DEF Carries
<1>3. LinkOf(new, e) \in Slot /\ Present(new, LinkOf(new, e))
      /\ new[LinkOf(new, e)].endpoint = e
  BY <1>2, LinkOfFound
<1>4. LinkOf(new, e) = i
  BY <1>2, <1>3 DEF Single
<1>5. i # 0
  BY LinksAssumption DEF Slot
<1> QED BY <1>2, <1>4, <1>5 DEF Bound

LEMMA CarriesTogether ==
    ASSUME NEW ls, NEW mid, NEW new, NEW T, Carries(ls, mid, {}), Carries(mid, new, T)
    PROVE  Carries(ls, new, T)
BY DEF Carries

LEMMA SameCarries ==
    ASSUME NEW ls, NEW new, InPlace(ls, new), SameSessions(ls, new)
    PROVE  Carries(ls, new, {})
BY DEF InPlace, SameSessions, Carries, Carried

LEMMA AnswerConnectCarries ==
    ASSUME NEW ls, TableOK(ls), NEW e \in Endpoints, NEW channel \in 0..MaxChannel,
           NEW sent \in BOOLEAN
    PROVE  Carries(ls, AnswerConnect(ls, e, channel, sent), {})
BY AnswerConnectKeeps DEF Carries, SameSessions, Carried

\* A bind writes an entry that is free or holds the session itself.
LEMMA BindCarries ==
    ASSUME NEW ls \in Table, NEW e, NEW s \in Sessions
    PROVE  Carries(ls, Bind(ls, e, s), {})
<1> DEFINE i == LinkOf(ls, e)
           K == {n \in 1..SessionSlots : ls[i].sessions[n] \in {s, NoSession}}
           k == Lowest(K)
<1>1. K \in SUBSET Nat /\ 0 \notin K
  BY LinksAssumption
<1>2. k # 0 => k \in 1..SessionSlots /\ ls[i].sessions[k] \in {s, NoSession}
  <2> HIDE DEF K
  <2>1. k # 0 => k \in K
    BY <1>1, LowestFound
  <2> QED BY <2>1 DEF K
<1>3. InPlace(ls, Bind(ls, e, s))
  BY BindInPlace
<1>4. CASE i = 0 \/ k = 0
  BY <1>4 DEF Bind, Carries
<1>5. CASE i # 0 /\ k # 0
  <2> HIDE DEF k
  <2>1. i \in Slot
    BY <1>5, LinkOfFound
  <2> HIDE DEF i
  <2> DEFINE held == [ls[i].sessions EXCEPT ![k] = s]
             new == Bind(ls, e, s)
  <2>2. new = [ls EXCEPT ![i].sessions[k] = s]
    BY <1>5 DEF Bind, i, k
  <2>3. ls[i] \in Link
    BY <2>1 DEF Table
  <2>4. new[i].sessions = held /\ \A j \in Slot \ {i} : new[j] = ls[j]
    BY <2>1, <2>2, <2>3 DEF Table, Link
  <2> HIDE DEF new
  <2>5. \A n \in 1..SessionSlots : n # k => held[n] = ls[i].sessions[n]
    BY <2>3 DEF Link
  <2>6. held[k] = s
    BY <1>2, <1>5, <2>3 DEF Link
  <2>7. s # NoSession
    BY LinksAssumption
  <2>8. Carried(ls[i]) \subseteq Carried(new[i])
    <3>1. SUFFICES ASSUME NEW t \in Carried(ls[i]) PROVE t \in Carried(new[i])
      OBVIOUS
    <3>2. PICK n \in 1..SessionSlots : ls[i].sessions[n] = t /\ t # NoSession
      BY <3>1 DEF Carried
    <3>3. \E m \in 1..SessionSlots : new[i].sessions[m] = t
      BY <1>2, <1>5, <2>4, <2>5, <2>6, <3>2
    <3> QED BY <3>2, <3>3 DEF Carried
  <2> QED BY <1>3, <2>4, <2>8 DEF Carries, InPlace, new
<1> QED BY <1>4, <1>5

LEMMA DropSessionCarries ==
    ASSUME NEW ls \in Table, NEW s
    PROVE  Carries(ls, DropSession(ls, s), {s})
<1>1. CASE LinkFor(ls, s) = 0
  BY <1>1 DEF DropSession, Carries
<1>2. CASE LinkFor(ls, s) # 0
  <2>1. PICK i \in Slot : i = LinkFor(ls, s)
    BY <1>2, LinkForFound
  <2> DEFINE held == [k \in 1..SessionSlots |-> IF ls[i].sessions[k] = s THEN NoSession
                                                ELSE ls[i].sessions[k]]
             new == DropSession(ls, s)
  <2>2. new = [ls EXCEPT ![i].sessions = held]
    BY <1>2, <2>1 DEF DropSession
  <2>3. new[i].sessions = held /\ \A j \in Slot \ {i} : new[j] = ls[j]
    BY <2>2 DEF Table, Link
  <2>4. Carried(ls[i]) \ {s} \subseteq Carried(new[i])
    BY <2>3 DEF Carried
  <2> QED BY <2>3, <2>4, DropSessionInPlace DEF Carries, InPlace
<1> QED BY <1>1, <1>2

\* The end of one endpoint's link leaves the sessions of the others.
LEMMA DropEndpointBound ==
    ASSUME NEW ls, TableOK(ls), NEW e, NEW other, other # e, NEW s, Bound(ls, other, s)
    PROVE  Bound(DropEndpoint(ls, e), other, s)
<1> DEFINE new == DropEndpoint(ls, e)
<1>1. Single(new)
  BY DropEndpointKeeps DEF TableOK
<1>2. PICK i \in Slot : /\ i = LinkOf(ls, other) /\ Present(ls, i) /\ ls[i].endpoint = other
                        /\ s \in Carried(ls[i])
  BY LinkOfFound DEF Bound
<1>3. new[i] = ls[i]
  BY <1>2 DEF DropEndpoint, Slot
<1> HIDE DEF new
<1>4. LinkOf(new, other) = i
  BY <1>1, <1>2, <1>3, LinkOfFound DEF Single, Present
<1>5. i # 0
  BY LinksAssumption DEF Slot
<1> QED BY <1>2, <1>3, <1>4, <1>5 DEF Bound, new

-----------------------------------------------------------------------------
(* The desk of a handler, and what a record promises.                      *)

Desks == [links : Table, rec : Record, ok : BOOLEAN]

\* What a handler may do to its desk: queue on the links in place, and never
\* touch whose record it is.
Works(d, new) ==
    /\ new \in Desks
    /\ InPlace(d.links, new.links) /\ SameSessions(d.links, new.links)
    /\ new.rec.session = d.rec.session /\ new.rec.endpoint = d.rec.endpoint
    /\ new.rec.join = d.rec.join

\* A player marked as published, and the absence of a player, are what the
\* last snapshot queued says.
PlayerShown(rec) ==
    /\ rec.playerPublished => rec.shown.player = rec.player
    /\ rec.player = NoPlayer => rec.shown.player = NoPlayer

\* The order a native join keeps: a membership, then the promotion, then all
\* that the client only reads once it is promoted; none of it while its player
\* is being replaced.
InOrder(rec) ==
    /\ rec.joinPublished => rec.joinComplete /\ rec.shown.established
    /\ rec.replacementPending => ~rec.shown.established
    /\ rec.activityHost \/ rec.reestablishOwed \/ rec.migrated = "owed" => rec.joinPublished
    /\ ~rec.initialMembership => ~rec.joinComplete /\ ~rec.replacementPending

Sound(rec) == PlayerShown(rec) /\ (Orderly => InOrder(rec))

-----------------------------------------------------------------------------
(* Constants and types.                                                    *)

LEMMA PlayersDiffer == Seeded # NoPlayer /\ Native # NoPlayer
<1>1. ASSUME NEW a, NEW b PROVE IsFiniteSet({a, b}) /\ Cardinality({a, b}) <= 2
  <2>1. IsFiniteSet({a}) /\ Cardinality({a}) = 1
    BY FS_Singleton, Zenon
  <2>2. {a, b} = {a} \cup {b}
    OBVIOUS
  <2> QED BY <2>1, <2>2, FS_AddElement
<1>2. Cardinality({Seeded, Native, NoPlayer}) = 3
  BY AdmissionAssumption
<1>3. CASE Seeded = NoPlayer
  <2>1. Cardinality({Seeded, Native}) = 3
    <3>1. {Seeded, Native, NoPlayer} = {Seeded, Native}
      BY <1>3
    <3> QED BY <1>2, <3>1, Zenon
  <2>2. Cardinality({Seeded, Native}) <= 2
    BY <1>1
  <2> QED BY <2>1, <2>2
<1>4. CASE Native = NoPlayer
  <2>1. Cardinality({Seeded, Native}) = 3
    <3>1. {Seeded, Native, NoPlayer} = {Seeded, Native}
      BY <1>4
    <3> QED BY <1>2, <3>1, Zenon
  <2>2. Cardinality({Seeded, Native}) <= 2
    BY <1>1
  <2> QED BY <2>1, <2>2
<1> QED BY <1>3, <1>4

LEMMA NoRecordType ==
    /\ NoRecord \in Record /\ NoRecord.session = NoSession
    /\ PlayerShown(NoRecord) /\ InOrder(NoRecord)
BY AdmissionAssumption DEF NoRecord, Record, Players, Ladder, PlayerShown, InOrder

-----------------------------------------------------------------------------
(* Publishing.                                                             *)

LEMMA SameLinks == ASSUME NEW ls \in Table PROVE InPlace(ls, ls) /\ SameSessions(ls, ls)
BY DEF InPlace, SameSessions

LEMMA PublishWorks ==
    ASSUME NEW d \in Desks
    PROVE  Works(d, Publish(d)) /\ Publish(d).rec = d.rec
<1>1. d.links \in Table /\ d.rec \in Record /\ "group" \in Message
  BY DEF Desks, Message
<1> DEFINE ls == Enqueue(d.links, d.rec.session, "group")
           ok == CanEnqueue(d.links, d.rec.session)
<1>2. InPlace(d.links, ls) /\ SameSessions(d.links, ls)
  BY <1>1, EnqueueInPlace
<1>3. ls \in Table
  BY <1>2 DEF InPlace
<1>4. ok \in BOOLEAN
  BY DEF CanEnqueue
<1>5. Publish(d) = [d EXCEPT !.links = ls, !.ok = ok]
  BY DEF Publish
<1> HIDE DEF ls, ok
<1>6. /\ Publish(d) \in Desks /\ Publish(d).rec = d.rec /\ Publish(d).links = ls
  BY <1>3, <1>4, <1>5 DEF Desks
<1> QED BY <1>2, <1>6 DEF Works

\* A snapshot that is queued shows the client its player and whether its join
\* is complete; one that is not changes nothing.
LEMMA SnapshotWorks ==
    ASSUME NEW d \in Desks
    PROVE  LET sent == PublishSnapshot(d)
           IN  /\ Works(d, sent)
               /\ ~sent.ok => sent.rec = d.rec
               /\ sent.ok => sent.rec = [d.rec EXCEPT
                      !.shown = [player |-> d.rec.player, established |-> d.rec.joinComplete]]
<1> DEFINE seen == [player |-> d.rec.player, established |-> d.rec.joinComplete]
           sent == Publish(d)
<1>1. sent \in Desks /\ Works(d, sent) /\ sent.rec = d.rec
  BY PublishWorks DEF Works
<1>2. seen \in [player : Players, established : BOOLEAN]
  BY DEF Desks, Record
<1>3. CASE identified /\ sent.ok
  <2>1. PublishSnapshot(d) = [sent EXCEPT !.rec.shown = seen]
    BY <1>3 DEF PublishSnapshot
  <2> DEFINE rec == [d.rec EXCEPT !.shown = seen]
  <2> HIDE DEF sent, seen
  <2>2. /\ rec \in Record /\ rec.session = d.rec.session
        /\ rec.endpoint = d.rec.endpoint /\ rec.join = d.rec.join
    BY <1>2 DEF Desks, Record
  <2>3. PublishSnapshot(d) = [sent EXCEPT !.rec = rec]
    BY <1>1, <2>1
  <2> HIDE DEF rec
  <2>4. /\ PublishSnapshot(d) \in Desks /\ PublishSnapshot(d).rec = rec
        /\ PublishSnapshot(d).links = sent.links /\ PublishSnapshot(d).ok
    BY <1>1, <1>3, <2>2, <2>3 DEF Desks
  <2>5. Works(d, PublishSnapshot(d))
    BY <1>1, <2>2, <2>4 DEF Works
  <2> QED BY <2>4, <2>5 DEF rec, seen
<1>4. CASE ~(identified /\ sent.ok)
  <2>1. PublishSnapshot(d) = [d EXCEPT !.ok = FALSE]
    BY <1>4 DEF PublishSnapshot
  <2> QED BY <2>1, SameLinks DEF Works, Desks
<1> QED BY <1>3, <1>4
LEMMA HostWorks ==
    ASSUME NEW d \in Desks
    PROVE  Works(d, PublishActivityHost(d)) /\ PublishActivityHost(d).rec = d.rec
<1>1. CASE d.rec.session \in hosted
  BY <1>1, PublishWorks DEF PublishActivityHost
<1>2. CASE d.rec.session \notin hosted
  BY <1>2, SameLinks DEF PublishActivityHost, Works, Desks
<1> QED BY <1>1, <1>2

\* The record of a desk may be written, but not renamed.
LEMMA WriteWorks ==
    ASSUME NEW d \in Desks, NEW rec \in Record,
           rec.session = d.rec.session, rec.endpoint = d.rec.endpoint, rec.join = d.rec.join
    PROVE  LET new == [d EXCEPT !.rec = rec]
           IN  Works(d, new) /\ new.rec = rec /\ new.links = d.links /\ new.ok = d.ok
BY SameLinks DEF Works, Desks

LEMMA WorksTogether ==
    ASSUME NEW d, NEW mid, NEW new, Works(d, mid), Works(mid, new)
    PROVE  Works(d, new)
<1>1. InPlace(d.links, new.links)
  BY InPlaceTogether DEF Works
<1> QED BY <1>1 DEF Works, SameSessions

\* A record written with the same names.
SameNames(rec, new) ==
    /\ new \in Record
    /\ new.session = rec.session /\ new.endpoint = rec.endpoint /\ new.join = rec.join

\* A handler that writes the record once its publish was tried.
LEMMA WriteAfter ==
    ASSUME NEW d \in Desks, NEW sent, Works(d, sent), NEW rec, SameNames(sent.rec, rec)
    PROVE  Works(d, [sent EXCEPT !.rec = rec]) /\ [sent EXCEPT !.rec = rec].rec = rec
<1>1. sent \in Desks
  BY DEF Works
<1>2. Works(sent, [sent EXCEPT !.rec = rec]) /\ [sent EXCEPT !.rec = rec].rec = rec
  BY <1>1, WriteWorks DEF SameNames
<1> QED BY <1>2, WorksTogether

\* A handler that writes the record and then shows it to the client.
LEMMA SnapshotOf ==
    ASSUME NEW d \in Desks, NEW rec, SameNames(d.rec, rec)
    PROVE  LET sent == PublishSnapshot([d EXCEPT !.rec = rec])
           IN  /\ Works(d, sent) /\ sent \in Desks /\ sent.ok \in BOOLEAN /\ sent.rec \in Record
               /\ ~sent.ok => sent.rec = rec
               /\ sent.ok => sent.rec = [rec EXCEPT
                      !.shown = [player |-> rec.player, established |-> rec.joinComplete]]
<1> DEFINE mid == [d EXCEPT !.rec = rec]
           sent == PublishSnapshot(mid)
<1>1. Works(d, mid) /\ mid \in Desks /\ mid.rec = rec
  BY WriteWorks DEF Works, SameNames
<1> HIDE DEF mid
<1>2. /\ Works(mid, sent)
      /\ ~sent.ok => sent.rec = rec
      /\ sent.ok => sent.rec = [rec EXCEPT
             !.shown = [player |-> rec.player, established |-> rec.joinComplete]]
  BY <1>1, SnapshotWorks
<1>3. Works(d, sent)
  BY <1>1, <1>2, WorksTogether
<1> HIDE DEF sent
<1>4. sent \in Desks /\ sent.ok \in BOOLEAN /\ sent.rec \in Record
  BY <1>2 DEF Works, Desks
<1> QED BY <1>2, <1>3, <1>4 DEF sent, mid

-----------------------------------------------------------------------------
(* The messages of the client.                                             *)

LEMMA PromotedSound ==
    ASSUME NEW d \in Desks, Sound(d.rec), Orderly => d.rec.initialMembership
    PROVE  Works(d, Promoted(d)) /\ Sound(Promoted(d).rec)
<1> DEFINE rec == [d.rec EXCEPT !.joinComplete = TRUE]
           sent == PublishSnapshot([d EXCEPT !.rec = rec])
           after == [sent.rec EXCEPT !.joinPublished = sent.ok]
<1>1. d.rec \in Record /\ SameNames(d.rec, rec)
  BY DEF Desks, Record, SameNames
<1>2. CASE d.rec.joinPublished \/ d.rec.replacementPending
  <2>1. Promoted(d) = [d EXCEPT !.rec = rec]
    BY <1>2 DEF Promoted
  <2>2. Sound(rec)
    BY <1>1 DEF Sound, PlayerShown, InOrder, Record
  <2> QED BY <1>1, <2>1, <2>2, WriteWorks DEF SameNames
<1>3. CASE ~(d.rec.joinPublished \/ d.rec.replacementPending)
  <2>1. Promoted(d) = [sent EXCEPT !.rec = after]
    BY <1>3 DEF Promoted
  <2>2. /\ Works(d, sent) /\ sent \in Desks /\ sent.ok \in BOOLEAN /\ sent.rec \in Record
        /\ ~sent.ok => sent.rec = rec
        /\ sent.ok => sent.rec = [rec EXCEPT
               !.shown = [player |-> rec.player, established |-> rec.joinComplete]]
    BY <1>1, SnapshotOf
  <2> HIDE DEF sent
  <2>3. SameNames(sent.rec, after)
    BY <2>2 DEF Record, SameNames
  <2>4. Works(d, Promoted(d)) /\ Promoted(d).rec = after
    BY <2>1, <2>2, <2>3, WriteAfter
  <2>5. Sound(after)
    <3>1. CASE sent.ok
      <4>1. after = [d.rec EXCEPT !.joinComplete = TRUE, !.joinPublished = TRUE,
                        !.shown = [player |-> d.rec.player, established |-> TRUE]]
        BY <1>1, <2>2, <3>1 DEF Record
      <4> HIDE DEF after
      <4> QED BY <1>1, <1>3, <4>1 DEF Sound, PlayerShown, InOrder, Record
    <3>2. CASE ~sent.ok
      <4>1. after = [d.rec EXCEPT !.joinComplete = TRUE]
        BY <1>1, <1>3, <2>2, <3>2 DEF Record
      <4> HIDE DEF after
      <4> QED BY <1>1, <1>3, <4>1 DEF Sound, PlayerShown, InOrder, Record
    <3> QED BY <3>1, <3>2
  <2> QED BY <2>4, <2>5
<1> QED BY <1>2, <1>3

LEMMA HostNamedSound ==
    ASSUME NEW d \in Desks, Sound(d.rec)
    PROVE  Works(d, HostNamed(d)) /\ Sound(HostNamed(d).rec)
<1> DEFINE sent == PublishActivityHost(d)
           after == [sent.rec EXCEPT !.activityHost = sent.ok]
<1>1. CASE d.rec.joinPublished /\ ~d.rec.activityHost
  <2>1. HostNamed(d) = [sent EXCEPT !.rec = after]
    BY <1>1 DEF HostNamed
  <2>2. Works(d, sent) /\ sent.rec = d.rec /\ d.rec \in Record /\ sent.ok \in BOOLEAN
    BY HostWorks DEF Works, Desks
  <2> HIDE DEF sent
  <2>3. SameNames(sent.rec, after)
    BY <2>2 DEF Record, SameNames
  <2>4. Sound(after)
    BY <1>1, <2>2 DEF Sound, PlayerShown, InOrder, Record
  <2> QED BY <2>1, <2>2, <2>3, <2>4, WriteAfter
<1>2. CASE ~(d.rec.joinPublished /\ ~d.rec.activityHost)
  BY <1>2, SameLinks DEF HostNamed, Works, Desks
<1> QED BY <1>1, <1>2

LEMMA JoinCompleteSound ==
    ASSUME NEW d \in Desks, Sound(d.rec), Orderly => d.rec.initialMembership
    PROVE  Works(d, OnJoinComplete(d)) /\ Sound(OnJoinComplete(d).rec)
<1>1. Works(d, Promoted(d)) /\ Sound(Promoted(d).rec) /\ Promoted(d) \in Desks
  BY PromotedSound DEF Works
<1> QED BY <1>1, HostNamedSound, WorksTogether DEF OnJoinComplete

LEMMA PlayerAddSound ==
    ASSUME NEW d \in Desks, Sound(d.rec), Orderly => d.rec.initialMembership
    PROVE  Works(d, OnPlayerAdd(d)) /\ Sound(OnPlayerAdd(d).rec)
<1> DEFINE rec == [d.rec EXCEPT !.player = Native, !.replacementPending = FALSE]
           sent == PublishSnapshot([d EXCEPT !.rec = rec])
           joined == sent.rec.joinPublished \/ (sent.ok /\ d.rec.joinComplete)
           after == [sent.rec EXCEPT !.playerPublished = sent.ok, !.joinPublished = joined]
<1>1. d.rec \in Record /\ SameNames(d.rec, rec)
  BY DEF Desks, Record, SameNames, Players
<1>2. CASE d.rec.player = Native /\ d.rec.playerPublished
  BY <1>2, SameLinks DEF OnPlayerAdd, Works, Desks
<1>3. CASE ~(d.rec.player = Native /\ d.rec.playerPublished)
  <2>1. [d EXCEPT !.rec.player = Native, !.rec.replacementPending = FALSE] = [d EXCEPT !.rec = rec]
    BY DEF Desks
  <2>2. OnPlayerAdd(d) = [sent EXCEPT !.rec.playerPublished = sent.ok,
                             !.rec.joinPublished = @ \/ (sent.ok /\ d.rec.joinComplete)]
    BY <1>3, <2>1 DEF OnPlayerAdd
  <2>3. /\ Works(d, sent) /\ sent \in Desks /\ sent.ok \in BOOLEAN /\ sent.rec \in Record
        /\ ~sent.ok => sent.rec = rec
        /\ sent.ok => sent.rec = [rec EXCEPT
               !.shown = [player |-> rec.player, established |-> rec.joinComplete]]
    BY <1>1, SnapshotOf
  <2> HIDE DEF sent
  <2>4. joined \in BOOLEAN
    OBVIOUS
  <2>5. OnPlayerAdd(d) = [sent EXCEPT !.rec = after]
    BY <2>2, <2>3 DEF Desks, Record
  <2>6. SameNames(sent.rec, after)
    <3> HIDE DEF joined
    <3> QED BY <2>3, <2>4 DEF Record, SameNames
  <2>7. Works(d, OnPlayerAdd(d)) /\ OnPlayerAdd(d).rec = after
    BY <2>3, <2>5, <2>6, WriteAfter
  <2>8. Sound(after)
    <3>1. CASE sent.ok
      <4>1. after = [d.rec EXCEPT !.player = Native, !.replacementPending = FALSE,
                        !.playerPublished = TRUE,
                        !.joinPublished = d.rec.joinPublished \/ d.rec.joinComplete,
                        !.shown = [player |-> Native, established |-> d.rec.joinComplete]]
        BY <1>1, <2>3, <3>1 DEF Record
      <4> HIDE DEF after
      <4> QED BY <1>1, <4>1, PlayersDiffer DEF Sound, PlayerShown, InOrder, Record
    <3>2. CASE ~sent.ok
      <4>1. after = [d.rec EXCEPT !.player = Native, !.replacementPending = FALSE,
                        !.playerPublished = FALSE]
        BY <1>1, <2>3, <3>2 DEF Record
      <4> HIDE DEF after
      <4> QED BY <1>1, <4>1, PlayersDiffer DEF Sound, PlayerShown, InOrder, Record
    <3> QED BY <3>1, <3>2
  <2> QED BY <2>7, <2>8
<1> QED BY <1>2, <1>3
LEMMA PlayerRemoveSound ==
    ASSUME NEW d \in Desks, Sound(d.rec), Orderly => d.rec.initialMembership
    PROVE  Works(d, OnPlayerRemove(d)) /\ Sound(OnPlayerRemove(d).rec)
<1> DEFINE rec == [d.rec EXCEPT !.player = NoPlayer, !.playerPublished = FALSE]
           sent == PublishSnapshot([d EXCEPT !.rec = rec])
           pending == ~d.rec.joinComplete
           after == [sent.rec EXCEPT !.replacementPending = pending]
<1>1. d.rec \in Record /\ SameNames(d.rec, rec)
  BY DEF Desks, Record, SameNames, Players
<1>2. [d EXCEPT !.rec.player = NoPlayer, !.rec.playerPublished = FALSE] = [d EXCEPT !.rec = rec]
  BY DEF Desks
<1>3. OnPlayerRemove(d) = IF d.rec.player = NoPlayer \/ ~sent.ok THEN d
                          ELSE [sent EXCEPT !.rec = after]
  BY <1>2 DEF OnPlayerRemove
<1>4. CASE d.rec.player = NoPlayer \/ ~sent.ok
  BY <1>3, <1>4, SameLinks DEF Works, Desks
<1>5. CASE ~(d.rec.player = NoPlayer \/ ~sent.ok)
  <2>1. /\ Works(d, sent) /\ sent \in Desks /\ sent.ok \in BOOLEAN /\ sent.rec \in Record
        /\ sent.ok => sent.rec = [rec EXCEPT
               !.shown = [player |-> rec.player, established |-> rec.joinComplete]]
    BY <1>1, SnapshotOf
  <2> HIDE DEF sent
  <2>2. SameNames(sent.rec, after)
    <3>1. pending \in BOOLEAN
      OBVIOUS
    <3> HIDE DEF pending
    <3> QED BY <2>1, <3>1 DEF Record, SameNames
  <2>3. Works(d, OnPlayerRemove(d)) /\ OnPlayerRemove(d).rec = after
    BY <1>3, <1>5, <2>1, <2>2, WriteAfter
  <2>4. after = [d.rec EXCEPT !.player = NoPlayer, !.playerPublished = FALSE,
                    !.replacementPending = ~d.rec.joinComplete,
                    !.shown = [player |-> NoPlayer, established |-> d.rec.joinComplete]]
    BY <1>1, <1>5, <2>1 DEF Record
  <2> HIDE DEF after
  <2>5. Sound(after)
    BY <1>1, <2>4 DEF Sound, PlayerShown, InOrder, Record
  <2> QED BY <2>3, <2>5
<1> QED BY <1>4, <1>5

LEMMA HostReestablishSound ==
    ASSUME NEW d \in Desks, Sound(d.rec)
    PROVE  Works(d, OnHostReestablish(d)) /\ Sound(OnHostReestablish(d).rec)
<1> DEFINE rec == [d.rec EXCEPT !.captured = TRUE]
<1>1. d.rec \in Record /\ SameNames(d.rec, rec)
  BY DEF Desks, Record, SameNames
<1>2. OnHostReestablish(d) = [d EXCEPT !.rec = rec]
  BY DEF OnHostReestablish
<1>3. Sound(rec)
  BY <1>1 DEF Sound, PlayerShown, InOrder, Record
<1> QED BY <1>1, <1>2, <1>3, WriteWorks DEF SameNames

LEMMA EmptyIdentitySound ==
    ASSUME NEW d \in Desks, Sound(d.rec)
    PROVE  Works(d, OnEmptyIdentity(d)) /\ Sound(OnEmptyIdentity(d).rec)
<1>1. d.rec \in Record /\ SameNames(d.rec, d.rec) /\ d = [d EXCEPT !.rec = d.rec]
  BY DEF Desks, SameNames
<1>2. Works(d, d)
  BY <1>1, WriteWorks
<1> QED BY <1>2 DEF OnEmptyIdentity

\* A membership that is owed to a promoted client.
LEMMA PublishReestablishSound ==
    ASSUME NEW d \in Desks, Sound(d.rec), Orderly => d.rec.joinPublished
    PROVE  /\ Works(d, PublishReestablish(d)) /\ Sound(PublishReestablish(d).rec)
           /\ PublishReestablish(d).rec.joinPublished = d.rec.joinPublished
<1> DEFINE sent == PublishSnapshot(d)
           after == [sent.rec EXCEPT !.reestablishOwed = ~sent.ok]
<1>1. d.rec \in Record
  BY DEF Desks
<1>2. CASE ~d.rec.reestablishOwed
  <2>1. PublishReestablish(d) = [d EXCEPT !.ok = TRUE]
    BY <1>2 DEF PublishReestablish
  <2> QED BY <2>1, SameLinks DEF Works, Desks
<1>3. CASE d.rec.reestablishOwed
  <2>1. PublishReestablish(d) = [sent EXCEPT !.rec = after]
    BY <1>3 DEF PublishReestablish
  <2>2. /\ Works(d, sent) /\ sent \in Desks /\ sent.ok \in BOOLEAN /\ sent.rec \in Record
        /\ ~sent.ok => sent.rec = d.rec
        /\ sent.ok => sent.rec = [d.rec EXCEPT
               !.shown = [player |-> d.rec.player, established |-> d.rec.joinComplete]]
    BY SnapshotWorks DEF Works, Desks
  <2> HIDE DEF sent
  <2>3. SameNames(sent.rec, after)
    BY <2>2 DEF Record, SameNames
  <2>4. Works(d, PublishReestablish(d)) /\ PublishReestablish(d).rec = after
    BY <2>1, <2>2, <2>3, WriteAfter
  <2>5. Sound(after) /\ after.joinPublished = d.rec.joinPublished
    <3>1. CASE sent.ok
      <4>1. after = [d.rec EXCEPT !.reestablishOwed = FALSE,
                        !.shown = [player |-> d.rec.player, established |-> d.rec.joinComplete]]
        BY <1>1, <2>2, <3>1 DEF Record
      <4> HIDE DEF after
      <4> QED BY <1>1, <4>1 DEF Sound, PlayerShown, InOrder, Record
    <3>2. CASE ~sent.ok
      <4>1. after = [d.rec EXCEPT !.reestablishOwed = TRUE]
        BY <1>1, <2>2, <3>2 DEF Record
      <4> HIDE DEF after
      <4> QED BY <1>1, <4>1 DEF Sound, PlayerShown, InOrder, Record
    <3> QED BY <3>1, <3>2
  <2> QED BY <2>4, <2>5
<1> QED BY <1>2, <1>3

LEMMA AttemptSound ==
    ASSUME NEW rec \in Record, Sound(rec), NEW j \in 1..MaxJoin
    PROVE  /\ Attempt(rec, j) \in Record /\ Sound(Attempt(rec, j))
           /\ Attempt(rec, j).session = rec.session /\ Attempt(rec, j).endpoint = rec.endpoint
<1>1. CASE rec.join = j
  BY <1>1 DEF Attempt
<1>2. CASE rec.join # j
  <2>1. Attempt(rec, j) = [NoRecord EXCEPT !.session = rec.session, !.endpoint = rec.endpoint,
                                           !.join = j, !.player = Seeded]
    BY <1>2 DEF Attempt
  <2>2. NoRecord \in Record /\ j \in 0..MaxJoin /\ Seeded \in Players
    BY NoRecordType, AdmissionAssumption DEF Players
  <2>3. Attempt(rec, j) \in Record
    BY <2>1, <2>2 DEF Record
  <2>4. Sound(Attempt(rec, j))
    BY <2>1, <2>2, PlayersDiffer DEF Sound, PlayerShown, InOrder, NoRecord
  <2> QED BY <2>1, <2>2, <2>3, <2>4 DEF Record
<1> QED BY <1>1, <1>2

LEMMA InitialMembershipSound ==
    ASSUME NEW d \in Desks, Sound(d.rec)
    PROVE  Works(d, InitialMembership(d)) /\ Sound(InitialMembership(d).rec)
<1> DEFINE sent == PublishSnapshot(d)
           named == sent.ok /\ d.rec.player # NoPlayer
           after == [sent.rec EXCEPT !.initialMembership = sent.ok, !.playerPublished = named]
<1>1. d.rec \in Record
  BY DEF Desks
<1>2. CASE d.rec.initialMembership
  BY <1>2, SameLinks DEF InitialMembership, Works, Desks
<1>3. CASE ~d.rec.initialMembership
  <2>1. /\ Works(d, sent) /\ sent \in Desks /\ sent.ok \in BOOLEAN /\ sent.rec \in Record
        /\ ~sent.ok => sent.rec = d.rec
        /\ sent.ok => sent.rec = [d.rec EXCEPT
               !.shown = [player |-> d.rec.player, established |-> d.rec.joinComplete]]
    BY SnapshotWorks DEF Works, Desks
  <2>2. InitialMembership(d) = [sent EXCEPT !.rec.initialMembership = sent.ok,
                                   !.rec.playerPublished = sent.ok /\ d.rec.player # NoPlayer]
    BY <1>3 DEF InitialMembership
  <2> HIDE DEF sent
  <2>3. InitialMembership(d) = [sent EXCEPT !.rec = after]
    BY <2>1, <2>2 DEF Desks, Record
  <2>4. named \in BOOLEAN
    OBVIOUS
  <2>5. SameNames(sent.rec, after)
    <3> HIDE DEF named
    <3> QED BY <2>1, <2>4 DEF Record, SameNames
  <2>6. Works(d, InitialMembership(d)) /\ InitialMembership(d).rec = after
    BY <2>1, <2>3, <2>5, WriteAfter
  <2>7. Sound(after)
    <3>1. CASE sent.ok
      <4>1. after = [d.rec EXCEPT !.initialMembership = TRUE,
                        !.playerPublished = (d.rec.player # NoPlayer),
                        !.shown = [player |-> d.rec.player, established |-> d.rec.joinComplete]]
        BY <1>1, <2>1, <3>1 DEF Record
      <4> HIDE DEF after
      <4> QED BY <1>1, <1>3, <4>1 DEF Sound, PlayerShown, InOrder, Record
    <3>2. CASE ~sent.ok
      <4>1. after = [d.rec EXCEPT !.initialMembership = FALSE, !.playerPublished = FALSE]
        BY <1>1, <2>1, <3>2 DEF Record
      <4> HIDE DEF after
      <4> QED BY <1>1, <1>3, <4>1 DEF Sound, PlayerShown, InOrder, Record
    <3> QED BY <3>1, <3>2
  <2> QED BY <2>6, <2>7
<1> QED BY <1>2, <1>3

LEMMA InitialParametersSound ==
    ASSUME NEW d \in Desks, Sound(d.rec)
    PROVE  Works(d, InitialParameters(d)) /\ Sound(InitialParameters(d).rec)
<1> DEFINE sent == Publish(d)
           after == [sent.rec EXCEPT !.initialParameters = sent.ok]
<1>1. CASE d.rec.initialParameters
  BY <1>1, SameLinks DEF InitialParameters, Works, Desks
<1>2. CASE ~d.rec.initialParameters
  <2>1. InitialParameters(d) = [sent EXCEPT !.rec = after]
    BY <1>2 DEF InitialParameters
  <2>2. Works(d, sent) /\ sent.rec = d.rec /\ d.rec \in Record /\ sent.ok \in BOOLEAN
    BY PublishWorks DEF Works, Desks
  <2> HIDE DEF sent
  <2>3. SameNames(sent.rec, after)
    BY <2>2 DEF Record, SameNames
  <2>4. Sound(after)
    BY <2>2 DEF Sound, PlayerShown, InOrder, Record
  <2> QED BY <2>1, <2>2, <2>3, <2>4, WriteAfter
<1> QED BY <1>1, <1>2

LEMMA AnswerSound ==
    ASSUME NEW d \in Desks, Sound(d.rec)
    PROVE  LET new == InitialParameters(InitialMembership(d))
           IN  Works(d, new) /\ Sound(new.rec)
<1>1. /\ Works(d, InitialMembership(d)) /\ Sound(InitialMembership(d).rec)
      /\ InitialMembership(d) \in Desks
  BY InitialMembershipSound DEF Works
<1> QED BY <1>1, InitialParametersSound, WorksTogether
LEMMA ClimbSound ==
    ASSUME NEW d \in Desks, Sound(d.rec), d.rec.ladder < Len(Ladder)
    PROVE  Works(d, Climb(d)) /\ Sound(Climb(d).rec)
<1> DEFINE sent == Publish(d)
           after == [sent.rec EXCEPT !.ladder = @ + 1, !.due = FALSE]
           climbs == sent.ok /\ (Ladder[d.rec.ladder + 1] = "handoffToPeer" => identified)
<1>1. Climb(d) = IF climbs THEN [sent EXCEPT !.rec.ladder = @ + 1, !.rec.due = FALSE]
                 ELSE [d EXCEPT !.ok = FALSE]
  BY DEF Climb
<1>2. Works(d, sent) /\ sent \in Desks /\ sent.rec = d.rec /\ d.rec \in Record
  BY PublishWorks DEF Works, Desks
<1> HIDE DEF sent, climbs
<1>3. CASE climbs
  <2>1. Climb(d) = [sent EXCEPT !.rec = after]
    BY <1>1, <1>2, <1>3 DEF Desks, Record
  <2>2. SameNames(sent.rec, after)
    <3>1. Len(Ladder) = 5
      BY DEF Ladder
    <3>2. d.rec.ladder + 1 \in 0..Len(Ladder)
      BY <1>2, <3>1 DEF Record
    <3> QED BY <1>2, <3>2 DEF Record, SameNames
  <2>3. Sound(after)
    BY <1>2 DEF Sound, PlayerShown, InOrder, Record
  <2> QED BY <1>2, <2>1, <2>2, <2>3, WriteAfter
<1>4. CASE ~climbs
  BY <1>1, <1>4, SameLinks DEF Works, Desks
<1> QED BY <1>3, <1>4

LEMMA RetrySound ==
    ASSUME NEW d \in Desks, Sound(d.rec)
    PROVE  Works(d, Retry(d)) /\ Sound(Retry(d).rec)
<1> DEFINE snapshot == PublishSnapshot(d)
           host == PublishActivityHost(d)
           promoted == [snapshot.rec EXCEPT !.joinPublished = snapshot.ok]
           named == [host.rec EXCEPT !.activityHost = host.ok]
           added == [snapshot.rec EXCEPT !.playerPublished = snapshot.ok]
           moved == [host.rec EXCEPT !.migrated = IF host.ok THEN "published" ELSE "owed"]
<1>1. d.rec \in Record
  BY DEF Desks
<1>2. /\ Works(d, snapshot) /\ snapshot \in Desks /\ snapshot.ok \in BOOLEAN
      /\ snapshot.rec \in Record
      /\ ~snapshot.ok => snapshot.rec = d.rec
      /\ snapshot.ok => snapshot.rec = [d.rec EXCEPT
             !.shown = [player |-> d.rec.player, established |-> d.rec.joinComplete]]
  BY SnapshotWorks DEF Works, Desks
<1>3. Works(d, host) /\ host.rec = d.rec /\ host.ok \in BOOLEAN
  BY HostWorks DEF Works, Desks
<1>4. CASE ~Owed(d.rec)
  BY <1>4, SameLinks DEF Retry, Works, Desks
<1>5. CASE Owed(d.rec) /\ ~d.rec.joinPublished
  <2>1. Retry(d) = [snapshot EXCEPT !.rec = promoted]
    BY <1>5 DEF Retry
  <2> HIDE DEF snapshot
  <2>2. SameNames(snapshot.rec, promoted)
    BY <1>2 DEF Record, SameNames
  <2>3. Orderly => d.rec.joinComplete /\ ~d.rec.replacementPending
    BY <1>5 DEF Owed, LadderDue, Sound, InOrder
  <2>4. Sound(promoted)
    <3>1. CASE snapshot.ok
      <4>1. promoted = [d.rec EXCEPT !.joinPublished = TRUE,
                !.shown = [player |-> d.rec.player, established |-> d.rec.joinComplete]]
        BY <1>1, <1>2, <3>1 DEF Record
      <4> HIDE DEF promoted
      <4> QED BY <1>1, <2>3, <4>1 DEF Sound, PlayerShown, InOrder, Record
    <3>2. CASE ~snapshot.ok
      <4>1. promoted = [d.rec EXCEPT !.joinPublished = FALSE]
        BY <1>1, <1>2, <3>2 DEF Record
      <4> HIDE DEF promoted
      <4> QED BY <1>1, <1>5, <4>1 DEF Sound, PlayerShown, InOrder, Record
    <3> QED BY <3>1, <3>2
  <2> QED BY <1>2, <2>1, <2>2, <2>4, WriteAfter
<1>6. CASE Owed(d.rec) /\ d.rec.joinPublished /\ ~d.rec.activityHost
  <2>1. Retry(d) = [host EXCEPT !.rec = named]
    BY <1>6 DEF Retry
  <2> HIDE DEF host
  <2>2. SameNames(host.rec, named)
    BY <1>1, <1>3 DEF Record, SameNames
  <2>3. Sound(named)
    BY <1>1, <1>3, <1>6 DEF Sound, PlayerShown, InOrder, Record
  <2> QED BY <1>3, <2>1, <2>2, <2>3, WriteAfter
<1>7. CASE /\ Owed(d.rec) /\ d.rec.joinPublished /\ d.rec.activityHost
           /\ d.rec.player # NoPlayer /\ ~d.rec.playerPublished
  <2>1. Retry(d) = [snapshot EXCEPT !.rec = added]
    BY <1>7 DEF Retry
  <2> HIDE DEF snapshot
  <2>2. SameNames(snapshot.rec, added)
    BY <1>2 DEF Record, SameNames
  <2>3. Sound(added)
    <3>1. CASE snapshot.ok
      <4>1. added = [d.rec EXCEPT !.playerPublished = TRUE,
                !.shown = [player |-> d.rec.player, established |-> d.rec.joinComplete]]
        BY <1>1, <1>2, <3>1 DEF Record
      <4> HIDE DEF added
      <4> QED BY <1>1, <1>7, <4>1 DEF Sound, PlayerShown, InOrder, Record
    <3>2. CASE ~snapshot.ok
      <4>1. added = d.rec
        BY <1>1, <1>2, <1>7, <3>2 DEF Record
      <4> QED BY <4>1
    <3> QED BY <3>1, <3>2
  <2> QED BY <1>2, <2>1, <2>2, <2>3, WriteAfter
<1>8. CASE /\ Owed(d.rec) /\ d.rec.joinPublished /\ d.rec.activityHost
           /\ ~(d.rec.player # NoPlayer /\ ~d.rec.playerPublished) /\ d.rec.reestablishOwed
  <2>1. Retry(d) = PublishReestablish(d)
    BY <1>8 DEF Retry
  <2> QED BY <1>8, <2>1, PublishReestablishSound
<1>9. CASE /\ Owed(d.rec) /\ d.rec.joinPublished /\ d.rec.activityHost
           /\ ~(d.rec.player # NoPlayer /\ ~d.rec.playerPublished) /\ ~d.rec.reestablishOwed
           /\ d.rec.migrated = "owed"
  <2>1. Retry(d) = [host EXCEPT !.rec = moved]
    BY <1>9 DEF Retry
  <2> HIDE DEF host
  <2>2. SameNames(host.rec, moved)
    BY <1>1, <1>3 DEF Record, SameNames
  <2>3. Sound(moved)
    BY <1>1, <1>3, <1>9 DEF Sound, PlayerShown, InOrder, Record
  <2> QED BY <1>3, <2>1, <2>2, <2>3, WriteAfter
<1>10. CASE /\ Owed(d.rec) /\ d.rec.joinPublished /\ d.rec.activityHost
            /\ ~(d.rec.player # NoPlayer /\ ~d.rec.playerPublished) /\ ~d.rec.reestablishOwed
            /\ d.rec.migrated # "owed"
  <2>1. Retry(d) = Climb(d)
    BY <1>10 DEF Retry
  <2>2. d.rec.ladder < Len(Ladder)
    BY <1>10 DEF Owed, LadderDue
  <2> QED BY <2>1, <2>2, ClimbSound
<1> QED BY <1>4, <1>5, <1>6, <1>7, <1>8, <1>9, <1>10
-----------------------------------------------------------------------------
(* The inductive invariant.                                                *)

\* A strict total order.
Ordered(O, before) ==
    /\ before \subseteq O \X O
    /\ \A i, j \in O : <<i, j>> \in before <=> i # j /\ <<j, i>> \notin before
    /\ \A i, j, k \in O : <<i, j>> \in before /\ <<j, k>> \in before => <<i, k>> \in before

LinksInv ==
    /\ TableOK(links) /\ requests \in [Endpoints -> 0..MaxChannel]
    /\ "unsent" \notin Faults => Introduced(links)

RecordsInv ==
    /\ admitted \in [Slots -> Record]
    /\ \A i, j \in Occupied : admitted[i].session = admitted[j].session => i = j
    /\ Ordered(Occupied, usedBefore)
    /\ \A i \in Slots : Sound(admitted[i])

WorldInv == hosted \subseteq Sessions /\ {identified, quiet} \subseteq BOOLEAN

IInv == LinksInv /\ RecordsInv /\ WorldInv

LEMMA InitInv == ASSUME Init PROVE IInv
<1>1. LinksInv
  BY NoLinkType, LinksAssumption
  DEF Init, LinksInit, LinksInv, TableOK, Table, Slot, Single, AbsentEmpty, Introduced, Present
<1>2. RecordsInv
  <2>1. \A i \in Slots : admitted[i] = NoRecord
    BY DEF Init
  <2>2. Occupied = {}
    BY <2>1, NoRecordType DEF Occupied
  <2>3. admitted \in [Slots -> Record]
    BY NoRecordType DEF Init
  <2>4. Ordered(Occupied, usedBefore)
    BY <2>2 DEF Init, Ordered
  <2> QED BY <2>1, <2>2, <2>3, <2>4, NoRecordType DEF RecordsInv, Sound
<1>3. WorldInv
  BY DEF Init, WorldInv
<1> QED BY <1>1, <1>2, <1>3 DEF IInv

LEMMA InvGivesType == ASSUME IInv PROVE TypeOK
BY DEF IInv, LinksInv, TableOK, Table, Slot, RecordsInv, Ordered, WorldInv, TypeOK, LinksTypeOK

-----------------------------------------------------------------------------
(* The order of use.                                                       *)

LEMMA UsedOrder ==
    ASSUME Ordered(Occupied, usedBefore), NEW i
    PROVE  Ordered(Occupied \cup {i}, Used(i))
BY DEF Ordered, Used

LEMMA FreedOrder ==
    ASSUME Ordered(Occupied, usedBefore), NEW S
    PROVE  Ordered(Occupied \ S, Freed(S))
BY DEF Ordered, Freed

\* An order over finitely many records has a first, which is the oldest: of the
\* sets of records before each, one has no other below it.
LEMMA OldestFound ==
    ASSUME Ordered(Occupied, usedBefore), Occupied # {}
    PROVE  Oldest \in Occupied /\ \A j \in Occupied \ {Oldest} : <<Oldest, j>> \in usedBefore
<1> DEFINE Before(i) == {j \in Occupied : <<j, i>> \in usedBefore}
           Sets == {Before(i) : i \in Occupied}
<1>1. IsFiniteSet(Slots)
  BY FS_Interval, AdmissionAssumption DEF Slots
<1>2. Occupied \subseteq Slots
  BY DEF Occupied
<1>3. FiniteSubsetsOf(Slots) = SUBSET Slots
  BY <1>1, FS_FiniteSubsetsOfFinite
<1>4. PICK T \in Sets : \A U \in Sets : <<U, T>> \notin StrictSubsetOrdering(Slots)
  <2>1. Sets \subseteq FiniteSubsetsOf(Slots) /\ Sets # {}
    <3>1. \A i \in Occupied : Before(i) \in SUBSET Slots
      BY <1>2
    <3> HIDE DEF Before
    <3> QED BY <1>3, <3>1
  <2>2. IsWellFoundedOn(StrictSubsetOrdering(Slots), FiniteSubsetsOf(Slots))
    BY FS_StrictSubsetOrderingWellFounded
  <2> QED BY <2>1, <2>2, WFMin, Zenon
<1>5. PICK i \in Occupied : T = Before(i)
  BY <1>4
<1>6. \A j \in Occupied \ {i} : <<i, j>> \in usedBefore
  <2>1. SUFFICES ASSUME NEW j \in Occupied, j # i, <<i, j>> \notin usedBefore PROVE FALSE
    OBVIOUS
  <2>2. <<j, i>> \in usedBefore
    BY <2>1 DEF Ordered
  <2>3. Before(j) \subseteq Before(i)
    BY <2>2 DEF Ordered
  <2>4. j \in Before(i) /\ j \notin Before(j)
    BY <2>2 DEF Ordered
  <2>5. Before(i) \subseteq Slots /\ Before(j) \subseteq Slots
    BY <1>2
  <2>6. Before(j) \in Sets
    OBVIOUS
  <2> HIDE DEF Before, Sets
  <2>7. Before(j) # Before(i)
    BY <2>4, Zenon
  <2>8. <<Before(j), Before(i)>> \in StrictSubsetOrdering(Slots)
    BY <2>3, <2>5, <2>7 DEF StrictSubsetOrdering
  <2> QED BY <1>4, <1>5, <2>6, <2>8
<1> HIDE DEF Before
<1> QED BY <1>6 DEF Oldest
-----------------------------------------------------------------------------
(* The table of records.                                                   *)

SlotFound(s) == {i \in Slots : admitted[i].session = s}

LEMMA SlotOfFound ==
    ASSUME NEW s
    PROVE  /\ SlotOf(s) \in Nat
           /\ SlotOf(s) # 0 => SlotOf(s) \in Slots /\ admitted[SlotOf(s)].session = s
           /\ SlotOf(s) = 0 => \A i \in Slots : admitted[i].session # s
<1>1. SlotFound(s) \in SUBSET Nat /\ 0 \notin SlotFound(s)
  BY AdmissionAssumption DEF Slots, SlotFound
<1>2. /\ Lowest(SlotFound(s)) \in Nat
      /\ Lowest(SlotFound(s)) = 0 <=> SlotFound(s) = {}
      /\ SlotFound(s) # {} => Lowest(SlotFound(s)) \in SlotFound(s)
  BY <1>1, LowestFound
<1>3. SlotOf(s) = Lowest(SlotFound(s))
  BY DEF SlotOf, SlotFound
<1> QED BY <1>2, <1>3 DEF SlotFound

\* A claim names the session's record or a free one, which no other slot holds.
LEMMA ClaimFound ==
    ASSUME RecordsInv, NEW e \in Endpoints, NEW s \in Sessions
    PROVE  /\ ClaimedSlot(s) \in Nat
           /\ ClaimedRecord(e, s) \in Record /\ Sound(ClaimedRecord(e, s))
           /\ ClaimedRecord(e, s).session = s
           /\ Joined(s) => ClaimedRecord(e, s).initialMembership
           /\ ClaimedSlot(s) # 0 =>
                 /\ ClaimedSlot(s) \in Slots
                 /\ \A j \in Slots \ {ClaimedSlot(s)} : admitted[j].session # s
<1>1. s # NoSession
  BY LinksAssumption
<1>2. CASE SlotOf(s) # 0
  <2>1. SlotOf(s) \in Slots /\ admitted[SlotOf(s)].session = s
    BY <1>2, SlotOfFound
  <2>2. PICK i \in Slots : i = SlotOf(s)
    BY <2>1
  <2>3. ClaimedSlot(s) = i /\ ClaimedRecord(e, s) = admitted[i]
    BY <1>2, <2>2 DEF ClaimedSlot, ClaimedRecord
  <2>4. i \in Occupied /\ \A j \in Slots : admitted[j].session = s => j = i
    BY <1>1, <2>1, <2>2 DEF RecordsInv, Occupied
  <2>5. i \in Nat
    BY DEF Slots
  <2> QED BY <2>1, <2>2, <2>3, <2>4, <2>5 DEF RecordsInv, Joined, Occupied
<1>3. CASE SlotOf(s) = 0
  <2>1. \A i \in Slots : admitted[i].session # s
    BY <1>3, SlotOfFound
  <2>2. ~Joined(s)
    BY <2>1 DEF Joined, Occupied
  <2> DEFINE rec == [NoRecord EXCEPT !.session = s, !.endpoint = e]
             free == Slots \ Occupied
  <2>3. ClaimedSlot(s) = Lowest(free) /\ ClaimedRecord(e, s) = rec
    BY <1>3 DEF ClaimedSlot, ClaimedRecord
  <2>4. rec \in Record /\ rec.session = s /\ Sound(rec)
    BY NoRecordType DEF Record, Sound, PlayerShown, InOrder
  <2>5. free \in SUBSET Nat /\ 0 \notin free
    BY AdmissionAssumption DEF Slots
  <2> HIDE DEF free, rec
  <2>6. Lowest(free) \in Nat /\ (Lowest(free) # 0 => Lowest(free) \in free)
    BY <2>5, LowestFound
  <2> QED BY <2>1, <2>2, <2>3, <2>4, <2>6 DEF free
<1> QED BY <1>2, <1>3

\* A record written at the claimed slot, which is now the last used.
LEMMA LeaveRecords ==
    ASSUME RecordsInv, NEW i \in Slots, NEW d \in Desks, Leave(i, d), Sound(d.rec),
           d.rec.session \in Sessions,
           \A j \in Slots \ {i} : admitted[j].session # d.rec.session
    PROVE  RecordsInv'
<1>1. d.rec \in Record
  BY DEF Desks
<1>2. admitted' = [admitted EXCEPT ![i] = d.rec] /\ usedBefore' = Used(i)
  BY DEF Leave
<1>3. Occupied' = Occupied \cup {i}
  BY <1>2, LinksAssumption DEF RecordsInv, Occupied
<1>4. Ordered(Occupied', usedBefore')
  BY <1>2, <1>3, UsedOrder DEF RecordsInv
<1>5. \A j, k \in Occupied' : admitted'[j].session = admitted'[k].session => j = k
  BY <1>2, <1>3 DEF RecordsInv, Occupied
<1>6. admitted' \in [Slots -> Record] /\ \A j \in Slots : Sound(admitted'[j])
  BY <1>1, <1>2 DEF RecordsInv
<1> QED BY <1>4, <1>5, <1>6 DEF RecordsInv

\* Records that are freed leave the others in their order.
LEMMA FreedRecords ==
    ASSUME RecordsInv, NEW S,
           admitted' = [i \in Slots |-> IF i \in S THEN NoRecord ELSE admitted[i]],
           usedBefore' = Freed(S)
    PROVE  RecordsInv'
<1>1. Occupied' = Occupied \ S
  BY NoRecordType DEF Occupied
<1>2. Ordered(Occupied', usedBefore')
  BY <1>1, FreedOrder DEF RecordsInv
<1>3. \A j, k \in Occupied' : admitted'[j].session = admitted'[k].session => j = k
  BY <1>1 DEF RecordsInv, Occupied
<1>4. admitted' \in [Slots -> Record] /\ \A j \in Slots : Sound(admitted'[j])
  BY NoRecordType DEF RecordsInv, Sound
<1> QED BY <1>2, <1>3, <1>4 DEF RecordsInv

\* A record that is written under its own name keeps its place.
LEMMA WrittenRecords ==
    ASSUME RecordsInv, NEW i \in Slots, NEW rec \in Record, Sound(rec),
           rec.session = admitted[i].session,
           admitted' = [admitted EXCEPT ![i] = rec], usedBefore' = usedBefore
    PROVE  RecordsInv'
<1>1. Occupied' = Occupied
  BY DEF RecordsInv, Occupied
<1>2. \A j, k \in Occupied' : admitted'[j].session = admitted'[k].session => j = k
  BY <1>1 DEF RecordsInv, Occupied
<1> QED BY <1>1, <1>2 DEF RecordsInv

LEMMA SameRecords ==
    ASSUME RecordsInv, UNCHANGED <<admitted, usedBefore>>
    PROVE  RecordsInv'
BY DEF RecordsInv, Occupied

\* Links that handlers worked on in place.
LEMMA InPlaceLinks ==
    ASSUME LinksInv, InPlace(links, links'), requests' = requests
    PROVE  LinksInv'
BY InPlaceKeeps DEF LinksInv
-----------------------------------------------------------------------------
(* The steps.                                                              *)

\* A step that ends no link, takes only the sessions of freed records off one,
\* and names no record anew.
Steady ==
    \E T : /\ Carries(links, links', T)
           /\ \A k \in Occupied' : /\ k \in Occupied /\ admitted[k].session \notin T
                                   /\ SameNames(admitted[k], admitted'[k])

LEMMA SteadyRecords ==
    ASSUME IInv, UNCHANGED admitted, Carries(links, links', {})
    PROVE  Steady
BY DEF IInv, RecordsInv, Occupied, SameNames, Steady

LEMMA DeskOf ==
    ASSUME NEW ls \in Table, NEW rec \in Record
    PROVE  Desk(ls, rec) \in Desks /\ Desk(ls, rec).rec = rec /\ Desk(ls, rec).links = ls
BY DEF Desk, Desks

\* A handler that worked on the claimed record leaves the invariant in place.
LEMMA HandledSafe ==
    ASSUME IInv, NEW e \in Endpoints, NEW s \in Sessions, ClaimedSlot(s) # 0,
           NEW d \in Desks, InPlace(links, d.links), d.rec.session = s,
           NEW new, Works(d, new), Sound(new.rec), Leave(ClaimedSlot(s), new)
    PROVE  IInv'
<1>1. links' = new.links /\ requests' = requests /\ UNCHANGED world
  BY DEF Leave
<1>2. InPlace(links, links')
  BY <1>1, InPlaceTogether DEF Works
<1>3. LinksInv'
  BY <1>1, <1>2, InPlaceLinks DEF IInv
<1>4. RecordsInv'
  <2>1. new \in Desks /\ new.rec.session = s
    BY DEF Works
  <2>2. /\ ClaimedSlot(s) \in Slots
        /\ \A j \in Slots \ {ClaimedSlot(s)} : admitted[j].session # s
    BY ClaimFound DEF IInv
  <2> QED BY <2>1, <2>2, LeaveRecords DEF IInv
<1>5. WorldInv'
  BY <1>1 DEF IInv, WorldInv, world
<1> QED BY <1>3, <1>4, <1>5 DEF IInv

\* The desk a handler starts with.
LEMMA ClaimedDesk ==
    ASSUME IInv, NEW e \in Endpoints, NEW s \in Sessions
    PROVE  LET d == Desk(links, ClaimedRecord(e, s))
           IN  /\ d \in Desks /\ InPlace(links, d.links) /\ Sound(d.rec) /\ d.rec.session = s
               /\ Joined(s) => d.rec.initialMembership
BY DeskOf, ClaimFound, SameLinks DEF IInv, LinksInv, TableOK

LEMMA Unchanged == ASSUME IInv, UNCHANGED vars PROVE IInv'
BY SameRecords DEF IInv, LinksInv, WorldInv, vars, TableOK, Single, AbsentEmpty, Present, Introduced

LEMMA HandlersSafe ==
    ASSUME IInv, NEW e \in Endpoints, NEW s \in Sessions,
           \/ JoinComplete(e, s) \/ PlayerAdd(e, s) \/ PlayerRemove(e, s) \/ HostReestablish(e, s)
    PROVE  IInv'
<1> DEFINE d == Desk(links, ClaimedRecord(e, s))
           i == ClaimedSlot(s)
<1>1. /\ d \in Desks /\ InPlace(links, d.links) /\ Sound(d.rec) /\ d.rec.session = s
      /\ Joined(s) => d.rec.initialMembership
  BY ClaimedDesk
<1>2. CASE JoinComplete(e, s)
  <2>1. (Orderly => Joined(s)) /\ IF i = 0 THEN UNCHANGED vars ELSE Leave(i, OnJoinComplete(d))
    BY <1>2 DEF JoinComplete, Handle
  <2> HIDE DEF d
  <2>2. Works(d, OnJoinComplete(d)) /\ Sound(OnJoinComplete(d).rec)
    BY <1>1, <2>1, JoinCompleteSound
  <2> QED BY <1>1, <2>1, <2>2, HandledSafe, Unchanged
<1>3. CASE PlayerAdd(e, s)
  <2>1. (Orderly => Joined(s)) /\ IF i = 0 THEN UNCHANGED vars ELSE Leave(i, OnPlayerAdd(d))
    BY <1>3 DEF PlayerAdd, Handle
  <2> HIDE DEF d
  <2>2. Works(d, OnPlayerAdd(d)) /\ Sound(OnPlayerAdd(d).rec)
    BY <1>1, <2>1, PlayerAddSound
  <2> QED BY <1>1, <2>1, <2>2, HandledSafe, Unchanged
<1>4. CASE PlayerRemove(e, s)
  <2>1. (Orderly => Joined(s)) /\ IF i = 0 THEN UNCHANGED vars ELSE Leave(i, OnPlayerRemove(d))
    BY <1>4 DEF PlayerRemove, Handle
  <2> HIDE DEF d
  <2>2. Works(d, OnPlayerRemove(d)) /\ Sound(OnPlayerRemove(d).rec)
    BY <1>1, <2>1, PlayerRemoveSound
  <2> QED BY <1>1, <2>1, <2>2, HandledSafe, Unchanged
<1>5. CASE HostReestablish(e, s)
  <2>1. \/ IF i = 0 THEN UNCHANGED vars ELSE Leave(i, OnHostReestablish(d))
        \/ IF i = 0 THEN UNCHANGED vars ELSE Leave(i, OnEmptyIdentity(d))
    BY <1>5 DEF HostReestablish, Handle
  <2> HIDE DEF d
  <2>2. Works(d, OnHostReestablish(d)) /\ Sound(OnHostReestablish(d).rec)
    BY <1>1, HostReestablishSound
  <2>3. Works(d, OnEmptyIdentity(d)) /\ Sound(OnEmptyIdentity(d).rec)
    BY <1>1, EmptyIdentitySound
  <2>4. CASE IF i = 0 THEN UNCHANGED vars ELSE Leave(i, OnHostReestablish(d))
    BY <1>1, <2>2, <2>4, HandledSafe, Unchanged
  <2>5. CASE IF i = 0 THEN UNCHANGED vars ELSE Leave(i, OnEmptyIdentity(d))
    BY <1>1, <2>3, <2>5, HandledSafe, Unchanged
  <2> QED BY <2>1, <2>4, <2>5
<1> QED BY <1>2, <1>3, <1>4, <1>5

LEMMA JoinRequestSafe ==
    ASSUME IInv, NEW e \in Endpoints, NEW s \in Sessions, NEW j \in 1..MaxJoin,
           JoinRequest(e, s, j)
    PROVE  IInv'
<1> DEFINE ls == Bind(links, e, s)
           i == ClaimedSlot(s)
           rec == Attempt(ClaimedRecord(e, s), j)
           d == Desk(ls, rec)
<1>1. InPlace(links, ls) /\ ls \in Table
  BY BindInPlace DEF IInv, LinksInv, TableOK, InPlace
<1>2. CASE Bound(ls, e, s) /\ Ready(ls, s) /\ i # 0
  <2>1. Leave(i, InitialParameters(InitialMembership(d)))
    BY <1>2 DEF JoinRequest
  <2>2. rec \in Record /\ Sound(rec) /\ rec.session = s
    BY ClaimFound, AttemptSound DEF IInv
  <2>3. d \in Desks /\ Sound(d.rec) /\ d.rec.session = s /\ InPlace(links, d.links)
    BY <1>1, <2>2, DeskOf
  <2> HIDE DEF d
  <2>4. LET new == InitialParameters(InitialMembership(d))
        IN  Works(d, new) /\ Sound(new.rec)
    BY <2>3, AnswerSound
  <2> QED BY <1>2, <2>1, <2>3, <2>4, HandledSafe
<1>3. CASE ~(Bound(ls, e, s) /\ Ready(ls, s) /\ i # 0)
  <2>1. links' = ls /\ UNCHANGED <<requests, admitted, usedBefore, world>>
    BY <1>3 DEF JoinRequest
  <2>2. LinksInv'
    BY <1>1, <2>1, InPlaceLinks DEF IInv
  <2> QED BY <2>1, <2>2, SameRecords DEF IInv, WorldInv, world
<1> QED BY <1>2, <1>3
LEMMA LeaveSessionSafe ==
    ASSUME IInv, NEW s \in Sessions, LeaveSession(s)
    PROVE  IInv'
<1> DEFINE S == {i \in Slots : admitted[i].session = s}
<1>1. /\ links' = DropSession(links, s) /\ requests' = requests /\ UNCHANGED world
      /\ admitted' = [i \in Slots |-> IF i \in S THEN NoRecord ELSE admitted[i]]
      /\ usedBefore' = Freed(S)
  BY DEF LeaveSession
<1>2. InPlace(links, links')
  BY <1>1, DropSessionInPlace DEF IInv, LinksInv, TableOK
<1>3. LinksInv'
  BY <1>1, <1>2, InPlaceLinks DEF IInv
<1>4. RecordsInv'
  BY <1>1, FreedRecords DEF IInv
<1> QED BY <1>1, <1>3, <1>4 DEF IInv, WorldInv, world

LEMMA PeerReestablishSafe ==
    ASSUME IInv, NEW e \in Endpoints, NEW s \in Sessions, NEW alias \in BOOLEAN,
           PeerReestablish(e, s, alias)
    PROVE  IInv' /\ Steady
<1> DEFINE i == SlotOf(s)
           owed == [admitted[i] EXCEPT !.reestablishOwed = TRUE,
                                       !.migrated = IF alias THEN "owed" ELSE @]
           known == Desk(links, admitted[i])
           owing == [known EXCEPT !.rec.reestablishOwed = TRUE,
                                  !.rec.migrated = IF alias THEN "owed" ELSE @]
           d == PublishReestablish(owing)
           sent == PublishActivityHost(d)
           after == [sent.rec EXCEPT !.migrated = IF sent.ok THEN "published" ELSE "owed"]
           done == IF alias
                   THEN [sent EXCEPT !.rec.migrated = IF sent.ok THEN "published" ELSE "owed"]
                   ELSE d
<1>1. i \in Slots /\ admitted[i].session = s
  BY SlotOfFound DEF PeerReestablish
<1>2. Orderly => admitted[i].joinPublished
  BY DEF PeerReestablish
<1>3. admitted[i] \in Record /\ Sound(admitted[i])
  BY <1>1 DEF IInv, RecordsInv
<1>4. links \in Table
  BY DEF IInv, LinksInv, TableOK
<1>5. known \in Desks /\ known.rec = admitted[i] /\ known.links = links
  BY <1>3, <1>4, DeskOf
<1>6. /\ links' = done.links /\ admitted' = [admitted EXCEPT ![i] = done.rec]
      /\ UNCHANGED <<requests, usedBefore, world>>
  BY Zenon DEF PeerReestablish
<1> HIDE DEF known, i
<1>7. SameNames(known.rec, owed) /\ Sound(owed) /\ owed.joinPublished = admitted[i].joinPublished
  BY <1>2, <1>3, <1>5 DEF SameNames, Record, Sound, PlayerShown, InOrder
<1> DEFINE start == [known EXCEPT !.rec = owed]
<1>8. Works(known, start) /\ start.rec = owed /\ start \in Desks
  BY <1>5, <1>7, WriteWorks DEF SameNames, Works
<1>9. owing = start
  BY <1>5 DEF Desks, Record
<1> HIDE DEF owed, owing, start
<1>10. /\ Works(known, d) /\ Sound(d.rec) /\ d \in Desks
      /\ d.rec.joinPublished = admitted[i].joinPublished
  <2>1. Works(start, PublishReestablish(start)) /\ Sound(PublishReestablish(start).rec)
        /\ PublishReestablish(start).rec.joinPublished = admitted[i].joinPublished
    BY <1>2, <1>7, <1>8, PublishReestablishSound
  <2>2. Works(known, PublishReestablish(start))
    BY <1>8, <2>1, WorksTogether
  <2> QED BY <1>9, <2>1, <2>2 DEF Works
<1> HIDE DEF d
<1>11. Works(known, sent) /\ sent.rec = d.rec /\ sent \in Desks
  BY <1>10, HostWorks, WorksTogether DEF Works
<1> HIDE DEF sent
<1>12. Works(known, done) /\ Sound(done.rec)
  <2>1. CASE ~alias
    BY <1>10, <2>1
  <2>2. CASE alias
    <3>1. sent.rec \in Record
      BY <1>11 DEF Desks
    <3>2. SameNames(sent.rec, after)
      BY <3>1 DEF Record, SameNames
    <3>3. Sound(after)
      BY <1>2, <1>10, <1>11, <3>1 DEF Record, Sound, PlayerShown, InOrder
    <3>4. done = [sent EXCEPT !.rec = after]
      BY <2>2
    <3> HIDE DEF done
    <3> QED BY <1>5, <1>11, <3>2, <3>3, <3>4, WriteAfter
  <2> QED BY <2>1, <2>2
<1> HIDE DEF done
<1>13. LinksInv'
  BY <1>5, <1>6, <1>12, InPlaceLinks DEF IInv, Works
<1>14. done.rec \in Record /\ SameNames(admitted[i], done.rec)
  BY <1>5, <1>12 DEF Works, Desks, SameNames
<1>15. RecordsInv'
  BY <1>1, <1>6, <1>12, <1>14, WrittenRecords DEF IInv, SameNames
<1>16. Carries(links, links', {})
  BY <1>5, <1>6, <1>12, SameCarries DEF Works
<1>17. \A k \in Occupied' : k \in Occupied /\ SameNames(admitted[k], admitted'[k])
  BY <1>1, <1>6, <1>14 DEF IInv, RecordsInv, Occupied, SameNames
<1> QED BY <1>6, <1>13, <1>15, <1>16, <1>17 DEF IInv, WorldInv, world, Steady

LEMMA RequestsSafe ==
    ASSUME IInv, (\E s : ParameterRequest(s)) \/ (\E e : ViewEstablishment(e))
    PROVE  IInv'
<1>1. /\ \E t : links' = Enqueue(links, t, "group")
      /\ UNCHANGED <<requests, admitted, usedBefore, world>>
  BY DEF ParameterRequest, ViewEstablishment
<1>2. InPlace(links, links')
  BY <1>1, EnqueueInPlace DEF IInv, LinksInv, TableOK, Message
<1>3. LinksInv'
  BY <1>1, <1>2, InPlaceLinks DEF IInv
<1> QED BY <1>1, <1>3, SameRecords DEF IInv, WorldInv, world

\* A slice evicts first, and so never retries the record it evicts.
LEMMA ServiceSafe ==
    ASSUME IInv, NEW i \in Slots, Service(i)
    PROVE  IInv' /\ Steady
<1> DEFINE full == Cardinality(Occupied) > PublicSessions
           kept == IF full THEN [admitted EXCEPT ![Oldest] = NoRecord] ELSE admitted
           d == Desk(links, kept[i])
           new == Retry(d)
<1>1. /\ kept[i].session # NoSession
      /\ links' = IF full THEN DropSession(new.links, admitted[Oldest].session) ELSE new.links
      /\ admitted' = [kept EXCEPT ![i] = new.rec]
      /\ usedBefore' = IF full THEN Freed({Oldest}) ELSE usedBefore
      /\ UNCHANGED <<requests, world>>
  BY Zenon DEF Service
<1>2. full => i # Oldest
  <2>1. SUFFICES ASSUME full, i = Oldest PROVE FALSE
    OBVIOUS
  <2>2. kept[i] = NoRecord
    BY <2>1 DEF IInv, RecordsInv
  <2> QED BY <1>1, <2>2, NoRecordType
<1>3. kept[i] = admitted[i]
  BY <1>2 DEF IInv, RecordsInv
<1>4. admitted[i] \in Record /\ Sound(admitted[i]) /\ links \in Table
  BY DEF IInv, RecordsInv, LinksInv, TableOK
<1> HIDE DEF full
<1>5. d \in Desks /\ d.rec = admitted[i] /\ d.links = links
  BY <1>3, <1>4, DeskOf
<1> HIDE DEF d
<1>6. Works(d, new) /\ Sound(new.rec)
  BY <1>4, <1>5, RetrySound
<1> HIDE DEF new
<1>7. /\ InPlace(links, new.links) /\ new.links \in Table
      /\ new.rec \in Record /\ new.rec.session = admitted[i].session
  BY <1>5, <1>6 DEF Works, Desks
<1>8. InPlace(links, links')
  BY <1>1, <1>7, DropSessionInPlace, InPlaceTogether
<1>9. LinksInv'
  BY <1>1, <1>8, InPlaceLinks DEF IInv
<1>10. RecordsInv'
  <2>1. CASE ~full
    BY <1>1, <1>6, <1>7, <2>1, WrittenRecords DEF IInv
  <2>2. CASE full
    <3>1. i \in Occupied
      BY <1>1, <1>3 DEF Occupied
    <3>2. admitted' = [j \in Slots |-> IF j = i THEN new.rec
                                       ELSE IF j = Oldest THEN NoRecord ELSE admitted[j]]
      BY <1>1, <2>2 DEF IInv, RecordsInv
    <3>3. Occupied' = Occupied \ {Oldest}
      BY <1>2, <1>7, <2>2, <3>1, <3>2, NoRecordType DEF Occupied
    <3>4. Ordered(Occupied', usedBefore')
      BY <1>1, <2>2, <3>3, FreedOrder DEF IInv, RecordsInv
    <3>5. admitted' \in [Slots -> Record] /\ \A j \in Slots : Sound(admitted'[j])
      BY <1>6, <1>7, <3>2, NoRecordType DEF IInv, RecordsInv, Sound
    <3>6. \A j \in Occupied' : j \in Occupied /\ admitted'[j].session = admitted[j].session
      BY <1>7, <3>2, <3>3 DEF Occupied
    <3> QED BY <3>4, <3>5, <3>6 DEF IInv, RecordsInv
  <2> QED BY <2>1, <2>2
<1>11. Carries(links, new.links, {}) /\ SameNames(admitted[i], new.rec)
  BY <1>5, <1>6, <1>7, SameCarries DEF Works, SameNames
<1>12. Steady
  <2>1. CASE ~full
    <3>1. \A k \in Occupied' : k \in Occupied /\ SameNames(admitted[k], admitted'[k])
      BY <1>1, <1>11, <2>1 DEF IInv, RecordsInv, Occupied, SameNames
    <3> QED BY <1>1, <1>11, <2>1, <3>1 DEF Steady
  <2>2. CASE full
    <3> DEFINE T == {admitted[Oldest].session}
    <3>1. Carries(links, links', T)
      BY <1>1, <1>7, <1>11, <2>2, DropSessionCarries, CarriesTogether
    <3>2. admitted' = [j \in Slots |-> IF j = i THEN new.rec
                                       ELSE IF j = Oldest THEN NoRecord ELSE admitted[j]]
      BY <1>1, <2>2 DEF IInv, RecordsInv
    <3>3. Oldest \in Occupied
      <4>1. Occupied # {}
        BY <1>1, <1>3 DEF Occupied
      <4> QED BY <4>1, OldestFound DEF IInv, RecordsInv
    <3>4. ASSUME NEW k \in Occupied'
          PROVE  /\ k \in Occupied /\ admitted[k].session \notin T
                 /\ SameNames(admitted[k], admitted'[k])
      <4>1. k \in Occupied /\ k # Oldest
        BY <1>1, <1>2, <1>3, <2>2, <3>2, <3>4, NoRecordType DEF Occupied
      <4>2. admitted[k].session # admitted[Oldest].session
        BY <3>3, <4>1 DEF IInv, RecordsInv
      <4>3. SameNames(admitted[k], admitted'[k])
        BY <1>11, <3>2, <4>1 DEF IInv, RecordsInv, Occupied, SameNames
      <4> QED BY <4>1, <4>2, <4>3
    <3> QED BY <3>1, <3>4 DEF Steady
  <2> QED BY <2>1, <2>2
<1> QED BY <1>1, <1>9, <1>10, <1>12 DEF IInv, WorldInv, world
LEMMA ConnectionSafe ==
    ASSUME IInv, NEW e \in Endpoints, Connection(e)
    PROVE  IInv'
<1>1. ASSUME NEW channel \in 1..MaxChannel, NEW sent \in {TRUE, "unsent" \notin Faults},
             ConnectRequest(e, channel, sent), UNCHANGED <<admitted, usedBefore, world>>
      PROVE  IInv'
  <2>1. links' = AnswerConnect(links, e, channel, sent)
    BY <1>1 DEF ConnectRequest
  <2>2. channel \in 0..MaxChannel /\ sent \in BOOLEAN /\ ("unsent" \notin Faults => sent)
    <3>1. channel \in 0..MaxChannel
      BY LinksAssumption
    <3>2. CASE sent = TRUE
      BY <3>1, <3>2, Zenon
    <3>3. CASE sent = ("unsent" \notin Faults)
      BY <3>1, <3>3, Zenon
    <3> QED BY <3>2, <3>3, Zenon
  <2>3. TableOK(links') /\ (sent /\ Introduced(links) => Introduced(links'))
    BY <2>1, <2>2, AnswerConnectKeeps DEF IInv, LinksInv
  <2>4. requests' \in [Endpoints -> 0..MaxChannel]
    <3> DEFINE built == {requests[e], channel}
    <3>1. requests[e] \in 0..MaxChannel /\ requests' = [requests EXCEPT ![e] = Max(built)]
      BY <1>1 DEF ConnectRequest, IInv, LinksInv
    <3>2. \E x \in built : \A y \in built : x >= y
      BY <2>2, <3>1
    <3>3. Max(built) \in built
      BY <3>2 DEF Max
    <3> QED BY <2>2, <3>1, <3>3 DEF IInv, LinksInv
  <2>5. LinksInv'
    BY <2>2, <2>3, <2>4 DEF IInv, LinksInv
  <2> QED BY <1>1, <2>5, SameRecords DEF IInv, WorldInv, world
<1>2. ASSUME EstablishArrives(e), UNCHANGED <<admitted, usedBefore, world>>
      PROVE  IInv'
  <2>1. LinkOf(links, e) \in Slot /\ Present(links, LinkOf(links, e))
    BY <1>2, LinkOfFound DEF EstablishArrives
  <2>2. InPlace(links, links') /\ requests' = requests
    BY <1>2, <2>1, ConnectInPlace DEF EstablishArrives, IInv, LinksInv, TableOK
  <2>3. LinksInv'
    BY <2>2, InPlaceLinks DEF IInv
  <2> QED BY <1>2, <2>3, SameRecords DEF IInv, WorldInv, world
<1>3. ASSUME links' = DropEndpoint(links, e), requests' = requests
      PROVE  LinksInv'
  BY <1>3, DropEndpointKeeps DEF IInv, LinksInv
<1>4. CASE ConnectClosed(e)
  BY <1>3, <1>4, SameRecords DEF ConnectClosed, IInv, WorldInv, world
<1>5. CASE AssociationExpires(e)
  <2> DEFINE S == {i \in Slots : admitted[i].endpoint = e}
  <2>1. /\ admitted' = [i \in Slots |-> IF i \in S THEN NoRecord ELSE admitted[i]]
        /\ usedBefore' = Freed(S)
    BY <1>5 DEF AssociationExpires
  <2>2. RecordsInv'
    BY <2>1, FreedRecords DEF IInv
  <2> QED BY <1>3, <1>5, <2>2 DEF AssociationExpires, IInv, WorldInv, world
<1> QED BY <1>1, <1>2, <1>4, <1>5 DEF Connection

\* Deliveries, the passing of time, and what becomes available.
LEMMA WorldSafe ==
    ASSUME IInv,
           \/ \E i \in 1..LinkSlots : Deliver(i)
           \/ \E i \in Slots : Tick(i)
           \/ \E s \in Sessions : HostAllocated(s)
           \/ ActivityJoined \/ Quieten
    PROVE  IInv'
<1>1. ASSUME NEW i \in 1..LinkSlots, Deliver(i) PROVE IInv'
  <2>1. InPlace(links, links') /\ requests' = requests
    BY <1>1, DeliverInPlace DEF Deliver, IInv, LinksInv, TableOK, Slot
  <2>2. LinksInv'
    BY <2>1, InPlaceLinks DEF IInv
  <2> QED BY <1>1, <2>2, SameRecords DEF Deliver, IInv, WorldInv, world
<1>2. ASSUME NEW i \in Slots, Tick(i) PROVE IInv'
  <2> DEFINE rec == [admitted[i] EXCEPT !.due = TRUE]
  <2>1. admitted' = [admitted EXCEPT ![i] = rec] /\ UNCHANGED <<links, requests, usedBefore, world>>
    BY <1>2 DEF Tick
  <2>2. admitted[i] \in Record /\ Sound(admitted[i])
    BY DEF IInv, RecordsInv
  <2>3. rec \in Record /\ rec.session = admitted[i].session /\ Sound(rec)
    BY <2>2 DEF Record, Sound, PlayerShown, InOrder
  <2>4. RecordsInv'
    BY <2>1, <2>3, WrittenRecords DEF IInv
  <2>5. LinksInv'
    BY <2>1, SameLinks, InPlaceLinks DEF IInv, LinksInv, TableOK
  <2> QED BY <2>1, <2>4, <2>5 DEF IInv, WorldInv, world
<1>3. ASSUME UNCHANGED <<links, requests, admitted, usedBefore>> PROVE LinksInv' /\ RecordsInv'
  BY <1>3, SameLinks, InPlaceLinks, SameRecords DEF IInv, LinksInv, TableOK
<1>4. ASSUME NEW s \in Sessions, HostAllocated(s) PROVE IInv'
  BY <1>3, <1>4 DEF HostAllocated, IInv, WorldInv
<1>5. CASE ActivityJoined
  BY <1>3, <1>5 DEF ActivityJoined, IInv, WorldInv
<1>6. CASE Quieten
  BY <1>3, <1>6 DEF Quieten, IInv, WorldInv
<1> QED BY <1>1, <1>2, <1>4, <1>5, <1>6

LEMMA NextInv == IInv /\ [Next]_vars => IInv'
<1> SUFFICES ASSUME IInv, [Next]_vars PROVE IInv'
  OBVIOUS
<1>1. ASSUME NEW e \in Endpoints, Connection(e) PROVE IInv'
  BY <1>1, ConnectionSafe
<1>2. ASSUME NEW e \in Endpoints, NEW s \in Sessions, Reliable(e, s) PROVE IInv'
  BY <1>2, LeaveSessionSafe, HandlersSafe, PeerReestablishSafe, RequestsSafe DEF Reliable
<1>3. ASSUME NEW e \in Endpoints, ViewEstablishment(e) PROVE IInv'
  BY <1>3, RequestsSafe
<1>4. ASSUME NEW e \in Endpoints, NEW s \in Sessions, NEW j \in 1..MaxJoin, JoinRequest(e, s, j)
      PROVE  IInv'
  BY <1>4, JoinRequestSafe
<1>5. ASSUME NEW i \in Slots, Service(i) PROVE IInv'
  BY <1>5, ServiceSafe
<1>6. CASE UNCHANGED vars
  BY <1>6, Unchanged
<1> QED BY <1>1, <1>2, <1>3, <1>4, <1>5, <1>6, WorldSafe DEF Next

LEMMA SpecInv == Spec => []IInv
<1>1. Init => IInv
  BY InitInv
<1> QED BY <1>1, NextInv, PTL DEF Spec
-----------------------------------------------------------------------------
(* Which link carries an admitted session.                                 *)

\* A record begins with a join.
JoinsFirst == Orderly /\ "hostReestablish" \notin Sends

CarriedRecord(ls, rec) ==
    /\ rec.endpoint \in Endpoints
    /\ rec.join # 0 => Bound(ls, rec.endpoint, rec.session)
    /\ JoinsFirst => rec.join # 0

CarriageInv == \A i \in Occupied : CarriedRecord(links, admitted[i])

LEMMA CarriageKept ==
    ASSUME CarriageInv, Single(links'), NEW T, Carries(links, links', T),
           NEW i \in Occupied, admitted[i].session \notin T,
           NEW rec, SameNames(admitted[i], rec)
    PROVE  CarriedRecord(links', rec)
<1>1. CarriedRecord(links, admitted[i])
  BY DEF CarriageInv
<1>2. rec.join # 0 => Bound(links, rec.endpoint, rec.session)
  BY <1>1 DEF CarriedRecord, SameNames
<1>3. rec.join # 0 => Bound(links', rec.endpoint, rec.session)
  BY <1>2, BoundKept DEF SameNames
<1> QED BY <1>1, <1>3 DEF CarriedRecord, SameNames

LEMMA CarriageStep == ASSUME IInv', CarriageInv, Steady PROVE CarriageInv'
<1>1. PICK T : /\ Carries(links, links', T)
               /\ \A k \in Occupied' : /\ k \in Occupied /\ admitted[k].session \notin T
                                       /\ SameNames(admitted[k], admitted'[k])
  BY DEF Steady
<1>2. Single(links')
  BY DEF IInv, LinksInv, TableOK
<1>3. ASSUME NEW k \in Occupied' PROVE CarriedRecord(links', admitted'[k])
  BY <1>1, <1>2, <1>3, CarriageKept
<1> QED BY <1>3 DEF CarriageInv, CarriedRecord

\* A record written at the claimed slot, carried itself.
LEMMA CarriageWritten ==
    ASSUME IInv, IInv', CarriageInv, NEW e \in Endpoints, NEW s \in Sessions,
           ClaimedSlot(s) # 0, NEW d \in Desks,
           Leave(ClaimedSlot(s), d), d.rec.session = s, Carries(links, d.links, {}),
           CarriedRecord(d.links, d.rec)
    PROVE  CarriageInv'
<1>1. links' = d.links /\ admitted' = [admitted EXCEPT ![ClaimedSlot(s)] = d.rec]
  BY DEF Leave
<1>2. PICK i \in Slots : i = ClaimedSlot(s)
  BY ClaimFound DEF IInv
<1>3. Single(links')
  BY DEF IInv, LinksInv, TableOK
<1>4. admitted \in [Slots -> Record]
  BY DEF IInv, RecordsInv
<1>5. ASSUME NEW j \in Occupied' PROVE CarriedRecord(links', admitted'[j])
  <2>1. CASE j = i
    BY <1>1, <1>2, <1>4, <2>1
  <2>2. CASE j # i
    <3>1. j \in Slots /\ admitted'[j] = admitted[j] /\ j \in Occupied
      BY <1>1, <1>2, <1>4, <2>2 DEF Occupied
    <3>2. SameNames(admitted[j], admitted'[j])
      BY <1>4, <3>1 DEF SameNames
    <3> QED BY <1>1, <1>3, <3>1, <3>2, CarriageKept
  <2> QED BY <2>1, <2>2
<1> QED BY <1>5 DEF CarriageInv, CarriedRecord

\* A handler on the claimed record, which a join began or which waits for one.
LEMMA HandledCarriage ==
    ASSUME IInv, IInv', CarriageInv, NEW e \in Endpoints, NEW s \in Sessions,
           ClaimedSlot(s) # 0, JoinsFirst => SlotOf(s) # 0,
           NEW new, Works(Desk(links, ClaimedRecord(e, s)), new), Leave(ClaimedSlot(s), new)
    PROVE  CarriageInv'
<1> DEFINE rec == ClaimedRecord(e, s)
<1>1. rec.session = s /\ rec \in Record
  BY ClaimFound DEF IInv
<1>2. Desk(links, rec).rec = rec /\ Desk(links, rec).links = links
  BY <1>1, DeskOf DEF IInv, LinksInv, TableOK
<1>3. CarriedRecord(links, rec)
  <2>1. CASE SlotOf(s) # 0
    <3>1. SlotOf(s) \in Slots /\ admitted[SlotOf(s)].session = s /\ rec = admitted[SlotOf(s)]
      BY <2>1, SlotOfFound DEF ClaimedRecord
    <3>2. SlotOf(s) \in Occupied
      BY <3>1, LinksAssumption DEF Occupied
    <3> QED BY <3>1, <3>2 DEF CarriageInv
  <2>2. CASE SlotOf(s) = 0
    <3>1. rec = [NoRecord EXCEPT !.session = s, !.endpoint = e]
      BY <2>2 DEF ClaimedRecord
    <3>2. rec.join = 0 /\ rec.endpoint = e
      BY <3>1 DEF NoRecord
    <3> QED BY <2>2, <3>2 DEF CarriedRecord
  <2> QED BY <2>1, <2>2
<1> HIDE DEF rec
<1>4. /\ new \in Desks /\ SameNames(rec, new.rec)
      /\ InPlace(links, new.links) /\ SameSessions(links, new.links)
  BY <1>1, <1>2 DEF Works, SameNames, Desks, rec
<1>5. Carries(links, new.links, {}) /\ Single(new.links)
  <2>1. links' = new.links
    BY DEF Leave
  <2> QED BY <1>4, <2>1, SameCarries DEF IInv, LinksInv, TableOK
<1>6. new.rec.join # 0 => Bound(new.links, new.rec.endpoint, new.rec.session)
  BY <1>3, <1>4, <1>5, BoundKept DEF CarriedRecord, SameNames
<1>7. CarriedRecord(new.links, new.rec)
  BY <1>3, <1>4, <1>6 DEF CarriedRecord, SameNames
<1> QED BY <1>1, <1>4, <1>5, <1>7, CarriageWritten DEF SameNames

LEMMA HandlersCarriage ==
    ASSUME IInv, IInv', CarriageInv, NEW e \in Endpoints, NEW s \in Sessions,
           \/ JoinComplete(e, s) \/ PlayerAdd(e, s) \/ PlayerRemove(e, s)
           \/ HostReestablish(e, s) /\ "hostReestablish" \in Sends
    PROVE  CarriageInv'
<1> DEFINE d == Desk(links, ClaimedRecord(e, s))
           i == ClaimedSlot(s)
<1>1. d \in Desks /\ Sound(d.rec) /\ (Joined(s) => d.rec.initialMembership)
  BY ClaimedDesk
<1>2. Joined(s) => SlotOf(s) # 0
  BY SlotOfFound DEF Joined, Occupied
<1>3. CASE i = 0
  <2>1. UNCHANGED vars
    BY <1>3 DEF JoinComplete, PlayerAdd, PlayerRemove, HostReestablish, Handle
  <2>2. Carries(links, links', {})
    BY <2>1 DEF vars, Carries
  <2> QED BY <2>1, <2>2, SteadyRecords, CarriageStep DEF vars
<1>4. CASE i # 0
  <2>1. CASE JoinComplete(e, s)
    <3>1. (Orderly => Joined(s)) /\ Leave(i, OnJoinComplete(d))
      BY <1>4, <2>1 DEF JoinComplete, Handle
    <3> QED BY <1>1, <1>2, <1>4, <3>1, JoinCompleteSound, HandledCarriage DEF JoinsFirst
  <2>2. CASE PlayerAdd(e, s)
    <3>1. (Orderly => Joined(s)) /\ Leave(i, OnPlayerAdd(d))
      BY <1>4, <2>2 DEF PlayerAdd, Handle
    <3> QED BY <1>1, <1>2, <1>4, <3>1, PlayerAddSound, HandledCarriage DEF JoinsFirst
  <2>3. CASE PlayerRemove(e, s)
    <3>1. (Orderly => Joined(s)) /\ Leave(i, OnPlayerRemove(d))
      BY <1>4, <2>3 DEF PlayerRemove, Handle
    <3> QED BY <1>1, <1>2, <1>4, <3>1, PlayerRemoveSound, HandledCarriage DEF JoinsFirst
  <2>4. CASE HostReestablish(e, s) /\ "hostReestablish" \in Sends
    <3>1. Leave(i, OnHostReestablish(d)) \/ Leave(i, OnEmptyIdentity(d))
      BY <1>4, <2>4 DEF HostReestablish, Handle
    <3>2. CASE Leave(i, OnHostReestablish(d))
      BY <1>1, <1>4, <2>4, <3>2, HostReestablishSound, HandledCarriage DEF JoinsFirst
    <3>3. CASE Leave(i, OnEmptyIdentity(d))
      BY <1>1, <1>4, <2>4, <3>3, EmptyIdentitySound, HandledCarriage DEF JoinsFirst
    <3> QED BY <3>1, <3>2, <3>3
  <2> QED BY <2>1, <2>2, <2>3, <2>4
<1> QED BY <1>3, <1>4
LEMMA JoinRequestCarriage ==
    ASSUME IInv, IInv', CarriageInv, JoinsFirst \/ \E x : Endpoints = {x},
           NEW e \in Endpoints, NEW s \in Sessions, NEW j \in 1..MaxJoin, JoinRequest(e, s, j)
    PROVE  CarriageInv'
<1> DEFINE ls == Bind(links, e, s)
           i == ClaimedSlot(s)
           old == ClaimedRecord(e, s)
           rec == Attempt(old, j)
           new == InitialParameters(InitialMembership(Desk(ls, rec)))
<1>1. InPlace(links, ls) /\ ls \in Table /\ Carries(links, ls, {}) /\ Single(ls)
  BY BindInPlace, BindCarries, InPlaceKeeps DEF IInv, LinksInv, TableOK, InPlace
<1>2. CASE Bound(ls, e, s) /\ Ready(ls, s) /\ i # 0
  <2>1. Leave(i, new)
    BY <1>2 DEF JoinRequest
  <2>2. old \in Record /\ Sound(old) /\ old.session = s
    BY ClaimFound DEF IInv
  <2>3. rec \in Record /\ Sound(rec) /\ rec.session = s /\ rec.endpoint = old.endpoint
    BY <2>2, AttemptSound
  <2>4. rec.join = j
    BY <2>2 DEF Attempt, NoRecord
  <2>5. old.endpoint \in Endpoints /\ Bound(ls, old.endpoint, s)
    <3>1. CASE SlotOf(s) # 0
      <4>1. SlotOf(s) \in Slots /\ admitted[SlotOf(s)].session = s /\ old = admitted[SlotOf(s)]
        BY <3>1, SlotOfFound DEF ClaimedRecord
      <4>2. SlotOf(s) \in Occupied
        BY <4>1, LinksAssumption DEF Occupied
      <4>3. CarriedRecord(links, old)
        BY <4>1, <4>2 DEF CarriageInv
      <4>4. CASE JoinsFirst
        BY <1>1, <2>2, <4>3, <4>4, BoundKept DEF CarriedRecord
      <4>5. CASE \E x : Endpoints = {x}
        BY <1>2, <4>3, <4>5 DEF CarriedRecord
      <4> QED BY <4>4, <4>5
    <3>2. CASE SlotOf(s) = 0
      BY <1>2, <3>2 DEF ClaimedRecord, NoRecord
    <3> QED BY <3>1, <3>2
  <2>6. Works(Desk(ls, rec), new) /\ Desk(ls, rec).links = ls /\ Desk(ls, rec).rec = rec
    <3>1. Desk(ls, rec) \in Desks /\ Desk(ls, rec).links = ls /\ Desk(ls, rec).rec = rec
      BY <1>1, <2>3, DeskOf
    <3> QED BY <2>3, <3>1, AnswerSound
  <2> HIDE DEF ls, old, rec, new
  <2>7. /\ new \in Desks /\ InPlace(ls, new.links) /\ SameSessions(ls, new.links)
        /\ new.rec.session = s /\ new.rec.endpoint = old.endpoint /\ new.rec.join = j
    BY <2>3, <2>4, <2>6 DEF Works
  <2>8. Carries(ls, new.links, {})
    BY <2>7, SameCarries
  <2>9. links' = new.links
    BY <2>1 DEF Leave
  <2>10. Bound(new.links, old.endpoint, s)
    BY <2>5, <2>8, <2>9, BoundKept DEF IInv, LinksInv, TableOK
  <2>11. CarriedRecord(new.links, new.rec)
    <3>1. j # 0
      OBVIOUS
    <3> QED BY <2>5, <2>7, <2>10, <3>1 DEF CarriedRecord
  <2>12. Carries(links, new.links, {})
    BY <1>1, <2>8, CarriesTogether
  <2> QED BY <1>2, <2>1, <2>7, <2>11, <2>12, CarriageWritten
<1>3. CASE ~(Bound(ls, e, s) /\ Ready(ls, s) /\ i # 0)
  <2>1. links' = ls /\ UNCHANGED admitted
    BY <1>3 DEF JoinRequest
  <2> QED BY <1>1, <2>1, SteadyRecords, CarriageStep
<1> QED BY <1>2, <1>3
LEMMA LeaveSessionSteady ==
    ASSUME IInv, NEW s \in Sessions, LeaveSession(s)
    PROVE  Steady
<1>1. /\ links' = DropSession(links, s)
      /\ admitted' = [i \in Slots |-> IF admitted[i].session = s THEN NoRecord ELSE admitted[i]]
  BY DEF LeaveSession
<1>2. Carries(links, links', {s})
  BY <1>1, DropSessionCarries DEF IInv, LinksInv, TableOK
<1>3. \A k \in Occupied' : /\ k \in Occupied /\ admitted[k].session \notin {s}
                           /\ SameNames(admitted[k], admitted'[k])
  BY <1>1, NoRecordType DEF IInv, RecordsInv, Occupied, SameNames
<1> QED BY <1>2, <1>3 DEF Steady

\* A link that ends with its association takes the records of its endpoint.
LEMMA ExpiryCarriage ==
    ASSUME IInv, CarriageInv, NEW e \in Endpoints, AssociationExpires(e)
    PROVE  CarriageInv'
<1>1. /\ links' = DropEndpoint(links, e)
      /\ admitted' = [i \in Slots |-> IF admitted[i].endpoint = e THEN NoRecord ELSE admitted[i]]
  BY DEF AssociationExpires
<1>2. ASSUME NEW k \in Occupied' PROVE CarriedRecord(links', admitted'[k])
  <2>1. k \in Occupied /\ admitted[k].endpoint # e /\ admitted'[k] = admitted[k]
    BY <1>1, <1>2, NoRecordType DEF Occupied
  <2>2. CarriedRecord(links, admitted[k])
    BY <2>1 DEF CarriageInv
  <2>3. admitted[k].join # 0 => Bound(links', admitted[k].endpoint, admitted[k].session)
    BY <1>1, <2>1, <2>2, DropEndpointBound DEF CarriedRecord, IInv, LinksInv
  <2> QED BY <2>1, <2>2, <2>3 DEF CarriedRecord
<1> QED BY <1>2 DEF CarriageInv, CarriedRecord

LEMMA ConnectionCarriage ==
    ASSUME IInv, IInv', CarriageInv, "closed" \notin Faults, NEW e \in Endpoints, Connection(e)
    PROVE  CarriageInv'
<1>1. ASSUME NEW channel \in 1..MaxChannel, NEW sent \in {TRUE, "unsent" \notin Faults},
             ConnectRequest(e, channel, sent), UNCHANGED <<admitted, usedBefore, world>>
      PROVE  Steady
  <2>1. channel \in 0..MaxChannel /\ sent \in BOOLEAN
    <3>1. channel \in 0..MaxChannel
      BY LinksAssumption
    <3>2. CASE sent = TRUE
      BY <3>1, <3>2, Zenon
    <3>3. CASE sent = ("unsent" \notin Faults)
      BY <3>1, <3>3, Zenon
    <3> QED BY <3>2, <3>3, Zenon
  <2>2. Carries(links, links', {})
    BY <1>1, <2>1, AnswerConnectCarries DEF ConnectRequest, IInv, LinksInv
  <2> QED BY <1>1, <2>2, SteadyRecords
<1>2. ASSUME EstablishArrives(e), UNCHANGED <<admitted, usedBefore, world>>
      PROVE  Steady
  <2>1. LinkOf(links, e) \in Slot /\ Present(links, LinkOf(links, e))
    BY <1>2, LinkOfFound DEF EstablishArrives
  <2>2. Carries(links, links', {})
    BY <1>2, <2>1, ConnectInPlace, SameCarries DEF EstablishArrives, IInv, LinksInv, TableOK
  <2> QED BY <1>2, <2>2, SteadyRecords
<1> QED BY <1>1, <1>2, ExpiryCarriage, CarriageStep DEF Connection, ConnectClosed

LEMMA QueueSteady ==
    ASSUME IInv, UNCHANGED admitted, \E t : links' = Enqueue(links, t, "group")
    PROVE  Steady
<1>1. Carries(links, links', {})
  BY EnqueueInPlace, SameCarries DEF IInv, LinksInv, TableOK, Message
<1> QED BY <1>1, SteadyRecords

LEMMA DueSameNames ==
    ASSUME NEW r \in Record
    PROVE  SameNames(r, [r EXCEPT !.due = TRUE])
BY DEF SameNames, Record

LEMMA WorldSteady ==
    ASSUME IInv,
           \/ \E i \in 1..LinkSlots : Deliver(i)
           \/ \E i \in Slots : Tick(i)
           \/ \E s \in Sessions : HostAllocated(s)
           \/ ActivityJoined \/ Quieten \/ UNCHANGED vars
    PROVE  Steady
<1>1. ASSUME NEW i \in 1..LinkSlots, Deliver(i) PROVE Steady
  <2>1. Carries(links, links', {})
    BY <1>1, DeliverInPlace, SameCarries DEF Deliver, IInv, LinksInv, TableOK, Slot
  <2> QED BY <1>1, <2>1, SteadyRecords DEF Deliver
<1>2. Carries(links, links, {})
  BY DEF Carries
<1>3. ASSUME NEW i \in Slots, Tick(i) PROVE Steady
  <2> DEFINE rec == [admitted[i] EXCEPT !.due = TRUE]
  <2>1. links' = links /\ admitted' = [admitted EXCEPT ![i] = rec]
    BY <1>3 DEF Tick
  <2>2. admitted \in [Slots -> Record]
    BY DEF IInv, RecordsInv
  <2>3. SameNames(admitted[i], rec) /\ rec.session = admitted[i].session
    BY <1>3, <2>2, DueSameNames DEF SameNames
  <2> HIDE DEF rec
  <2>4. \A k \in Occupied' : k \in Occupied /\ SameNames(admitted[k], admitted'[k])
    BY <2>1, <2>2, <2>3 DEF Occupied, SameNames
  <2>5. Carries(links, links', {})
    BY <1>2, <2>1
  <2> QED BY <2>4, <2>5 DEF Steady
<1>4. ASSUME UNCHANGED <<links, admitted>> PROVE Steady
  BY <1>2, <1>4, SteadyRecords
<1> QED BY <1>1, <1>3, <1>4 DEF HostAllocated, ActivityJoined, Quieten, vars

LEMMA NextCarriage ==
    ASSUME IInv, IInv', CarriageInv, [Next]_vars, "closed" \notin Faults,
           JoinsFirst \/ \E x : Endpoints = {x}
    PROVE  CarriageInv'
<1>1. ASSUME NEW e \in Endpoints, NEW s \in Sessions, Reliable(e, s) PROVE CarriageInv'
  <2>1. CASE LeaveSession(s)
    BY <2>1, LeaveSessionSteady, CarriageStep
  <2>2. CASE ParameterRequest(s)
    BY <2>2, QueueSteady, CarriageStep DEF ParameterRequest
  <2>3. ASSUME NEW alias \in BOOLEAN, PeerReestablish(e, s, alias) PROVE CarriageInv'
    BY <2>3, PeerReestablishSafe, CarriageStep
  <2> QED BY <1>1, <2>1, <2>2, <2>3, HandlersCarriage DEF Reliable
<1>2. ASSUME NEW e \in Endpoints, ViewEstablishment(e) PROVE CarriageInv'
  BY <1>2, QueueSteady, CarriageStep DEF ViewEstablishment
<1>3. ASSUME NEW i \in Slots, Service(i) PROVE CarriageInv'
  BY <1>3, ServiceSafe, CarriageStep
<1>4. ASSUME NEW e \in Endpoints, NEW s \in Sessions, NEW j \in 1..MaxJoin, JoinRequest(e, s, j)
      PROVE  CarriageInv'
  BY <1>4, JoinRequestCarriage
<1> QED BY <1>1, <1>2, <1>3, <1>4, ConnectionCarriage, WorldSteady, CarriageStep DEF Next
-----------------------------------------------------------------------------
(* The theorems.                                                           *)

\* Every link and record keeps its fields, no two records hold one session, and
\* the records in use, and no others, stand in one order of use.
THEOREM TypeCorrect == Spec => []TypeOK
BY SpecInv, InvGivesType, PTL

\* However the table fills, empties and is named, the eviction of
\* group_host.cpp's service finds a record in use that was named before every
\* other one.
THEOREM EvictsTheOldest ==
    Spec => [](Occupied # {} => /\ Oldest \in Occupied
                                /\ \A j \in Occupied \ {Oldest} : <<Oldest, j>> \in usedBefore)
<1>1. IInv => (Occupied # {} => /\ Oldest \in Occupied
                 /\ \A j \in Occupied \ {Oldest} : <<Oldest, j>> \in usedBefore)
  BY OldestFound DEF IInv, RecordsInv
<1> QED BY <1>1, SpecInv, PTL

\* However an endpoint connects, repeats, rebuilds, closes and expires, it has
\* one link at most.
THEOREM LinksAreSingle == Spec => []OneLinkPerEndpoint
<1>1. IInv => OneLinkPerEndpoint
  BY DEF IInv, LinksInv, TableOK, Single, Slot, OneLinkPerEndpoint
<1> QED BY <1>1, SpecInv, PTL

\* While every connect response leaves, the first reliable message of a link is
\* its connect establish, on a rebuilt link as on a new one.
THEOREM EstablishComesFirst == "unsent" \notin Faults => (Spec => []EstablishFirst)
<1> SUFFICES ASSUME "unsent" \notin Faults PROVE Spec => []EstablishFirst
  OBVIOUS
<1>1. IInv => EstablishFirst
  BY NoLinkType DEF IInv, LinksInv, TableOK, AbsentEmpty, Introduced, EstablishFirst, Slot
<1> QED BY <1>1, SpecInv, PTL

\* Whatever the client sends, in whatever order, a player marked as published is
\* the one the last snapshot queued names.
THEOREM PublishedIsShown == Spec => []PublishedPlayerIsShown
<1>1. IInv => PublishedPlayerIsShown
  BY DEF IInv, RecordsInv, Sound, PlayerShown, PublishedPlayerIsShown, Occupied
<1> QED BY <1>1, SpecInv, PTL

\* A client that keeps the order of a native join is never named its activity
\* host before its promotion.
THEOREM HostFollowsPromotion == Orderly => (Spec => []ActivityHostFollowsPromotion)
<1> SUFFICES ASSUME Orderly PROVE Spec => []ActivityHostFollowsPromotion
  OBVIOUS
<1>1. IInv => ActivityHostFollowsPromotion
  BY DEF IInv, RecordsInv, Sound, InOrder, ActivityHostFollowsPromotion, Occupied
<1> QED BY <1>1, SpecInv, PTL

\* Between the removal of its player and the replacing add no promotion reaches
\* an orderly client.
THEOREM PromotionWaits == Orderly => (Spec => []NoEmptyPromotion)
<1> SUFFICES ASSUME Orderly PROVE Spec => []NoEmptyPromotion
  OBVIOUS
<1>1. IInv => NoEmptyPromotion
  BY DEF IInv, RecordsInv, Sound, InOrder, NoEmptyPromotion, Occupied
<1> QED BY <1>1, SpecInv, PTL

\* The last snapshot queued of an orderly client's record that owes nothing more
\* shows it as it is: promoted, with the player it holds.
THEOREM SettledRecordsAreShown == Orderly => (Spec => []SettledIsShown)
<1> SUFFICES ASSUME Orderly PROVE Spec => []SettledIsShown
  OBVIOUS
<1>1. IInv => SettledIsShown
  <2> SUFFICES ASSUME IInv, NEW i \in Occupied,
                      admitted[i].joinPublished, ~Owed(admitted[i])
               PROVE  admitted[i].shown = [player |-> admitted[i].player, established |-> TRUE]
    BY DEF SettledIsShown
  <2>1. admitted[i] \in Record /\ PlayerShown(admitted[i]) /\ InOrder(admitted[i])
    BY DEF IInv, RecordsInv, Sound, Occupied
  <2>2. admitted[i].shown.player = admitted[i].player
    BY <2>1 DEF PlayerShown, Owed
  <2>3. admitted[i].shown.established = TRUE
    BY <2>1 DEF InOrder, Record
  <2>4. admitted[i].shown \in [player : Players, established : BOOLEAN]
    BY <2>1 DEF Record
  <2> QED BY <2>2, <2>3, <2>4
<1> QED BY <1>1, SpecInv, PTL
\* A session admitted by a join is carried by the link of the endpoint that its
\* record names, through rebuilds, repeats, leaves, evictions and expiry: with
\* one endpoint, or with any number that begin each session with a join and
\* leave the migration descriptor out, as long as no connect is closed.
THEOREM SessionsAreCarried ==
    "closed" \notin Faults /\ (JoinsFirst \/ \E e : Endpoints = {e})
        => (Spec => []SessionsOutliveChannel)
<1> SUFFICES ASSUME "closed" \notin Faults, JoinsFirst \/ \E e : Endpoints = {e}
             PROVE  Spec => []SessionsOutliveChannel
  OBVIOUS
<1>1. Init => IInv /\ CarriageInv
  <2>1. Init => Occupied = {}
    BY NoRecordType DEF Init, Occupied
  <2> QED BY <2>1, InitInv DEF CarriageInv
<1>2. IInv /\ CarriageInv /\ [Next]_vars => IInv' /\ CarriageInv'
  BY NextInv, NextCarriage
<1>3. IInv /\ CarriageInv => SessionsOutliveChannel
  BY DEF CarriageInv, CarriedRecord, Bound, SessionsOutliveChannel
<1> QED BY <1>1, <1>2, <1>3, PTL DEF Spec
=============================================================================
