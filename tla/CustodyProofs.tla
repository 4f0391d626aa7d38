---------------------------- MODULE CustodyProofs ----------------------------
(***************************************************************************)
(* In whose hands a record is, for every number of connections, callers,   *)
(* rows, groups, leases and record ids and every capacity: a record has    *)
(* one place in the host-session table or none, and a pinned row keeps     *)
(* what its leases copied until they are given back.                       *)
(***************************************************************************)
EXTENDS RetirementOrderProofs, FiniteSetTheorems

USE DEF KeyOrNone, NoKey

(***************************************************************************)
(* One place per record                                                    *)
(***************************************************************************)
(* A host is mirrored by one row, or waits once to be freed.                *)
HostsOnce ==
    /\ \A s, t \in Slots : Filled(s) /\ rows[t].host = rows[s].host => s = t
    /\ \A s \in Slots, e \in evicted : rows[s].host # e.host
    /\ \A e, f \in evicted : e.host = f.host => e = f
    /\ \A e \in evicted : e.host \in Keys

(* What the service thread has in hand is its own.                          *)
ServiceApart == \A k \in Keys : Serviced(k) => ~Hosted(k) /\ ~Doomed(k)

(* A root that is retired, or waits to be, is no host of the table: the     *)
(* table gives its hosts up before their retirement starts.                 *)
Root(k) == k \in pending \cup draining \/ (k = cascade.root /\ k \in cascade.visited)
RootsUnhosted == \A k \in Keys : Root(k) => ~Hosted(k)

(* A derived record is in the table under the source whose frame found it,  *)
(* and behind that source's fence.                                          *)
Under(k, j) ==
    /\ \A s \in Slots : rows[s].host = k => rows[s].source = j
    /\ \A e \in evicted : e.host = k => e.source = j
    /\ Hosted(k) => Fenced(j)
FoundBy(k, j) ==
    \/ j \in Keys /\ k \in cascade.todo[j]
    \/ k \in cascade.visited \ {cascade.root} /\ cascade.parent[k] = j
FramesUnder == \A k \in Keys, j \in KeyOrNone : FoundBy(k, j) => Under(k, j)

(* A source that is finished has no host left to be fenced for.             *)
SourceGone == cascade.step = "finish" => Emptied(cascade.at)

PlacesOnce == HostsOnce /\ ServiceApart /\ RootsUnhosted /\ FramesUnder /\ SourceGone
PlaceInv == OrderInv /\ RowsNamedApart /\ PlacesOnce

LEMMA KeptPlaces ==
  ASSUME Kept, HostTypeOK, HostTypeOK', HostsOnce
  PROVE  /\ HostsOnce'
         /\ \A k \in Keys, j \in KeyOrNone : Under(k, j) => Under(k, j)'
<1> USE DEF Kept, RowKept, Filled
<1>1. \A e \in evicted' \ evicted :
         \E s \in Slots : /\ Filled(s) /\ rows[s].host = e.host /\ rows[s].source = e.source
                          /\ rows'[s].host = NoKey /\ ~Fenced(rows[s].source)
  BY DEF EvictedFromRows
<1>2. \A e \in evicted' : e.host \in Keys
  BY <1>1 DEF HostsOnce, HostTypeOK, Row
<1>3. \A s, t \in Slots : Filled(s)' /\ rows'[t].host = rows'[s].host => s = t
  BY DEF HostsOnce
<1>4. \A s \in Slots, e \in evicted' : rows'[s].host # e.host
  BY <1>1, <1>2 DEF HostsOnce, Keys
<1>5. ASSUME NEW e \in evicted', NEW f \in evicted', e.host = f.host PROVE e = f
  <2>1. e \in EvictedHost /\ f \in EvictedHost
    BY DEF HostTypeOK
  <2> QED BY <1>1, <1>5, <2>1 DEF HostsOnce, EvictedHost
<1>6. HostsOnce'
  BY <1>2, <1>3, <1>4, <1>5 DEF HostsOnce
<1>7. ASSUME NEW k \in Keys, NEW j \in KeyOrNone, Under(k, j) PROVE Under(k, j)'
  <2>1. Hosted(k)' => Hosted(k)
    BY KeptPromises
  <2> QED BY <1>1, <1>7, <2>1 DEF Under, Hosted, Fenced, Keys
<1> QED BY <1>6, <1>7

LEMMA StorePlaces ==
  ASSUME HostTypeOK, RowsNamedApart, HostsOnce, NEW g \in Groups, NEW src \in KeyOrNone,
         NEW h \in Keys, StoreHost(g, src, h), ~Hosted(h)
  PROVE  /\ HostsOnce'
         /\ \A k \in Keys \ {h}, j \in KeyOrNone : Under(k, j) => Under(k, j)'
<1>1. /\ fences' = fences /\ evicted' = evicted
      /\ \A s \in Slots :
            /\ rows'[s].host = IF s \in Storable(g, src) THEN h ELSE rows[s].host
            /\ rows'[s].source = rows[s].source
  BY DEF StoreHost, HostTypeOK, Row
<1>2. \A s, t \in Storable(g, src) : s = t
  BY HostAssumption DEF Storable, RowsNamedApart, Names, Occupied
<1>3. \A s \in Slots : rows[s].host # h
  BY DEF Hosted
<1>4. \A e \in evicted : e.host # h
  BY DEF Hosted
<1>5. HostsOnce'
  BY <1>1, <1>2, <1>3, <1>4 DEF HostsOnce, Filled, Keys
<1>6. \A k \in Keys \ {h}, j \in KeyOrNone : Under(k, j) => Under(k, j)'
  BY <1>1 DEF Under, Hosted, Fenced
<1> QED BY <1>5, <1>6

(* The table's part: hosts stay in one place, and under their source as     *)
(* long as its fence stands and they are not the one being stored.          *)
LEMMA TablePlaces ==
  ASSUME PlaceInv, Next
  PROVE  /\ HostsOnce'
         /\ \A k \in Keys, j \in KeyOrNone :
               Under(k, j) /\ (CascadeFinish => j # cascade.at)
                           /\ (ServiceStore => k # sv.key)
                  => Under(k, j)'
<1>1. Inv /\ Custodians /\ HostTypeOK /\ HostTypeOK' /\ HostsOnce
  BY NextOrder DEF PlaceInv, PlacesOnce, OrderInv, Inv, TypeOK
<1>2. CASE HostMoves \/ UNCHANGED hostVars
  <2>1. Kept
    BY <1>1, <1>2, MovesKeep
  <2> QED BY <1>1, <2>1, KeptPlaces
<1>3. CASE CascadeBegin \/ CascadeFinish
  <2>1. /\ rows' = rows /\ evicted' = evicted
        /\ fences \subseteq fences' \cup IF CascadeFinish THEN {cascade.at} ELSE {}
    BY <1>3 DEF CascadeBegin, CascadeFinish, FenceSource, FinishSource
  <2> QED BY <1>1, <2>1 DEF HostsOnce, Filled, Under, Hosted, Fenced
<1>4. CASE ServiceStore
  <2>1. /\ sv.group \in Groups /\ sv.source \in KeyOrNone /\ sv.key \in Keys
        /\ StoreHost(sv.group, sv.source, sv.key)
        /\ Serviced(sv.key)
    BY <1>1, <1>4 DEF ServiceStore, Custodians, ServiceNames, Inv, TypeOK, ServiceCall, ServiceOK,
                      Serviced
  <2>2. ~Hosted(sv.key) /\ RowsNamedApart
    BY <2>1 DEF PlaceInv, PlacesOnce, ServiceApart
  <2> QED BY <1>1, <1>4, <2>1, <2>2, StorePlaces
<1> QED BY <1>1, <1>2, <1>3, <1>4, TableMoves

(* A record of the table behind no fence is nobody else's. *)
LEMMA UnfencedUndoomed ==
  ASSUME PlaceInv, NEW k \in Keys, Doomed(k)
  PROVE  /\ \A s \in Slots : rows[s].host = k => Fenced(rows[s].source)
         /\ \A e \in evicted : e.host = k => Fenced(e.source)
<1>1. CASE Root(k)
  BY <1>1 DEF PlaceInv, PlacesOnce, RootsUnhosted, Hosted
<1>2. CASE ~Root(k)
  <2>1. PICK j \in KeyOrNone : FoundBy(k, j)
    BY <1>2 DEF Doomed, Root, FoundBy, PlaceInv, OrderInv, Inv, TypeOK, Cascade
  <2>2. Under(k, j)
    BY <2>1 DEF PlaceInv, PlacesOnce, FramesUnder
  <2> QED BY <2>2 DEF Under, Hosted
<1> QED BY <1>1, <1>2

(* What the service thread takes from the table leaves the table, and is    *)
(* not up for retirement.                                                   *)
LEMMA TakenApart ==
  ASSUME PlaceInv, NEW k \in Keys, Taken(k)
  PROVE  ~Hosted(k)' /\ ~Doomed(k) /\ Hosted(k) /\ sv' # sv
<1>1. HostsOnce /\ HostTypeOK
  BY DEF PlaceInv, PlacesOnce, OrderInv, Inv, TypeOK
<1>2. CASE ServiceTake
  <2>1. PICK e \in Freeable : e.host = k
    BY <1>2 DEF Taken, ServiceTake, Reset, Serves
  <2>2. rows' = rows /\ evicted' = evicted \ Freeable
    BY <1>2 DEF ServiceTake, TakeFreeable
  <2>3. e \in evicted /\ ~Fenced(e.source) /\ Hosted(k)
    BY <2>1 DEF Freeable, Hosted
  <2>4. ~Hosted(k)'
    BY <1>1, <2>1, <2>2, <2>3 DEF Hosted, HostsOnce
  <2>5. sv' # sv
    BY <1>2 DEF ServiceTake, PlaceInv, OrderInv, Inv, TypeOK, ServiceCall
  <2> QED BY <2>1, <2>3, <2>4, <2>5, UnfencedUndoomed
<1>3. CASE ~ServiceTake
  <2>1. PICK s \in Resettable : rows[s].host = k
    BY <1>3 DEF Taken
  <2>2. /\ evicted' = evicted
        /\ \A r \in Slots : rows'[r] = IF r \in Resettable THEN FreeRow ELSE rows[r]
    BY <1>3 DEF Taken, Reset, ResetRows, ClearRows
  <2>3. s \in Slots /\ ~Fenced(rows[s].source) /\ Hosted(k) /\ k # NoKey
    BY <2>1 DEF Resettable, Hosted, Keys
  <2>4. ~Hosted(k)'
    BY <1>1, <2>1, <2>2, <2>3 DEF Hosted, HostsOnce, Filled, FreeRow
  <2>5. sv' # sv
    BY <1>3 DEF Taken, Reset, Serves, NoCall
  <2> QED BY <2>1, <2>3, <2>4, <2>5, UnfencedUndoomed
<1> QED BY <1>2, <1>3

LEMMA ServiceStaysApart ==
  ASSUME PlaceInv, Next
  PROVE  ServiceApart'
<1>1. Inv /\ Custodians /\ ServiceApart /\ OwnersApart /\ IssuedInOrder
  BY DEF PlaceInv, PlacesOnce, OrderInv, Custodians
<1> SUFFICES ASSUME NEW k \in Keys, Serviced(k)' PROVE ~Hosted(k)' /\ ~Doomed(k)'
  BY DEF ServiceApart
<1>2. /\ Hosted(k)' => Hosted(k) \/ (ServiceStore /\ Serviced(k) /\ ~Serviced(k)')
      /\ Doomed(k)' => Doomed(k) \/ (CascadeBegin /\ Hosted(k)) \/ GivesUp(k)
  BY <1>1, TablePromises, DoomedSteps
<1>3. GivesUp(k) => Doomed(k) \/ \E c \in Sessions : Owner(c, k)
  BY DEF GivesUp, Doomed
<1>4. CASE Serviced(k)
  <2>1. ~Hosted(k) /\ ~Doomed(k) /\ \A c \in Sessions : ~Owner(c, k)
    BY <1>1, <1>4 DEF ServiceApart, OwnersApart, Held
  <2> QED BY <1>2, <1>3, <2>1
<1>5. CASE Taken(k)
  <2>1. ~Hosted(k)' /\ ~Doomed(k) /\ Hosted(k) /\ sv' # sv
    BY <1>5, TakenApart
  <2>2. ~CascadeBegin
    BY <2>1 DEF CascadeBegin, actorVars
  <2>3. \A c \in Sessions : ~Owner(c, k)
    BY <1>1, <2>1 DEF OwnersApart, Held
  <2> QED BY <1>2, <1>3, <2>1, <2>2, <2>3
<1>6. CASE ServiceCommit /\ k = plan[Service].key
  <2>1. k = nextKey /\ nextKey \in Nat
    BY <1>1, <1>6, RecordsOrder DEF ServiceCommit, Planners, Inv, TypeOK, RecordsTypeOK
  <2>2. ~Issued(k)
    BY <1>1, <2>1 DEF IssuedInOrder
  <2> QED BY <1>2, <1>3, <2>2 DEF Issued, Held
<1> QED BY <1>1, <1>4, <1>5, <1>6, ServiceTakes

(* A root is up for retirement from when its custodian gives it up. *)
LEMMA RootsStart ==
  ASSUME Inv, Next, Custodians, NEW k \in Keys, Root(k)'
  PROVE  Root(k) \/ GivesUp(k)
<1>1. CASE CascadeNext
  <2>1. Retiring /\ draining' = draining /\ cascade \in Cascade /\ cascade.root \in cascade.visited
    BY <1>1 DEF CascadeNext, CascadeBegin, CascadeChild, CascadeDerived, CascadeSource,
                CascadeRetire, CascadeFinish, Retiring, Inv, TypeOK, FramesOK
  <2>2. \/ Blocked
        \/ pending' = pending /\ cascade'.root = cascade.root
        \/ pending' = pending /\ cascade' = NoCascade
    BY <1>1, <2>1
       DEF CascadeNext, CascadeBegin, CascadeChild, CascadeDerived, CascadeSource,
           CascadeRetire, CascadeFinish, Cascade
  <2>3. ASSUME Blocked PROVE pending' \subseteq pending \cup {cascade.root} /\ cascade' = NoCascade
    BY <2>3 DEF Blocked, Queued
  <2> QED BY <2>1, <2>2, <2>3 DEF Root, NoCascade, Keys
<1>2. CASE ~CascadeNext
  <2>1. /\ pending' \cup draining' \subseteq pending \cup draining
        /\ \/ cascade' = cascade
           \/ \E r \in KeyOrNone : cascade' = Start(r) /\ (r # NoKey => GivesUp(r))
    BY <1>2, RetirementsStart
  <2>2. CASE cascade' = cascade
    BY <2>1, <2>2 DEF Root
  <2>3. ASSUME NEW r \in KeyOrNone, cascade' = Start(r), r # NoKey => GivesUp(r)
        PROVE  Root(k) \/ GivesUp(k)
    BY <2>1, <2>3 DEF Root, Start, NoCascade, Keys
  <2> QED BY <2>1, <2>2, <2>3
<1> QED BY <1>1, <1>2

LEMMA RootsStayUnhosted ==
  ASSUME PlaceInv, Next
  PROVE  RootsUnhosted'
<1>1. Inv /\ Custodians /\ ServiceApart /\ OwnersApart /\ RootsUnhosted
  BY DEF PlaceInv, PlacesOnce, OrderInv, Custodians
<1> SUFFICES ASSUME NEW k \in Keys, Root(k)' PROVE ~Hosted(k)'
  BY DEF RootsUnhosted
<1>2. Hosted(k)' => Hosted(k) \/ (ServiceStore /\ Serviced(k))
  BY <1>1, TablePromises
<1>3. Root(k) => Doomed(k) /\ ~Hosted(k)
  BY <1>1 DEF Root, Doomed, RootsUnhosted
<1>4. CASE Root(k)
  BY <1>1, <1>2, <1>3, <1>4 DEF ServiceApart
<1>5. CASE \E c \in Sessions : Owner(c, k)
  BY <1>1, <1>2, <1>5 DEF OwnersApart, Held
<1>6. CASE ServiceRetire /\ Serviced(k)
  BY <1>1, <1>2, <1>6 DEF ServiceApart, ServiceRetire, ServiceStore
<1> QED BY <1>1, <1>4, <1>5, <1>6, RootsStart DEF GivesUp, Root

(* Under the frames of a cascade: by its own steps, then by anybody else's. *)
LEMMA CascadeUnder ==
  ASSUME PlaceInv, Next, CascadeNext
  PROVE  FramesUnder'
<1>1. /\ cascade \in Cascade /\ HostTypeOK /\ FramesUnder /\ HostsOnce /\ cascade.at \in Keys
  BY FrameIsRecord
     DEF PlaceInv, PlacesOnce, OrderInv, Inv, TypeOK, Retiring, CascadeNext, CascadeBegin,
         CascadeChild, CascadeDerived, CascadeSource, CascadeRetire, CascadeFinish
<1> SUFFICES ASSUME NEW k \in Keys, NEW j \in KeyOrNone, FoundBy(k, j)' PROVE Under(k, j)'
  BY DEF FramesUnder
<1>2. ASSUME FoundBy(k, j), CascadeFinish => j # cascade.at PROVE Under(k, j)'
  <2>1. sv' = sv
    BY DEF CascadeNext, CascadeBegin, CascadeChild, CascadeDerived, CascadeSource, CascadeRetire,
           CascadeFinish, actorVars
  <2>2. ~ServiceStore
    BY <2>1 DEF ServiceStore, NoCall
  <2> QED BY <1>1, <1>2, <2>2, TablePlaces DEF FramesUnder
<1>3. cascade' # NoCascade
  BY DEF NoCascade, FoundBy
<1>4. CASE CascadeBegin
  <2>1. /\ CanFence(cascade.at) /\ FenceSource(cascade.at)
        /\ cascade' = [cascade EXCEPT !.step = "children",
                                      !.todo[cascade.at] = DerivedHosts(cascade.at)]
    BY <1>3, <1>4 DEF CascadeBegin, Blocked
  <2>2. /\ cascade'.root = cascade.root /\ cascade'.visited = cascade.visited
        /\ cascade'.parent = cascade.parent
        /\ \A i \in Keys : cascade'.todo[i] = IF i = cascade.at THEN DerivedHosts(cascade.at)
                                              ELSE cascade.todo[i]
    BY <1>1, <2>1 DEF Cascade
  <2>3. CASE FoundBy(k, j)
    BY <1>2, <1>4, <2>3 DEF CascadeBegin, CascadeFinish
  <2>4. CASE ~FoundBy(k, j)
    <3>1. j = cascade.at /\ k \in DerivedHosts(j)
      BY <2>2, <2>4 DEF FoundBy
    <3>2. \/ \E s \in Slots : rows[s].source = j /\ rows[s].host = k
          \/ \E e \in evicted : e.source = j /\ e.host = k
      BY <3>1 DEF DerivedHosts
    <3>3. j \in fences' /\ rows' = rows /\ evicted' = evicted
      BY <2>1, <3>1 DEF FenceSource
    <3> QED BY <1>1, <3>2, <3>3 DEF HostsOnce, Filled, Under, Fenced, Keys
  <2> QED BY <2>3, <2>4
<1>5. CASE CascadeChild
  <2>1. PICK i \in cascade.todo[cascade.at] :
          IF i \in cascade.visited
          THEN /\ cascade' = [cascade EXCEPT !.step = "derived", !.child = i]
               /\ UNCHANGED pending
          ELSE IF Cardinality(cascade.visited) >= CascadeCapacity
          THEN Blocked
          ELSE /\ cascade' = [cascade EXCEPT !.step = "begin", !.at = i,
                                             !.visited = @ \cup {i},
                                             !.parent[i] = cascade.at]
               /\ UNCHANGED pending
    BY <1>5 DEF CascadeChild
  <2>2. i \in Keys /\ cascade.parent \in [Keys -> KeyOrNone]
    BY <1>1 DEF Cascade
  <2>3. /\ cascade'.root = cascade.root /\ cascade'.todo = cascade.todo
        /\ \/ cascade'.visited = cascade.visited /\ cascade'.parent = cascade.parent
           \/ /\ cascade'.visited = cascade.visited \cup {i}
              /\ cascade'.parent = [cascade.parent EXCEPT ![i] = cascade.at]
    BY <1>1, <1>3, <2>1 DEF Blocked, Cascade
  <2>4. FoundBy(k, j)
    BY <1>1, <2>2, <2>3 DEF FoundBy
  <2> QED BY <1>2, <1>5, <2>4 DEF CascadeChild, CascadeFinish
<1>6. CASE CascadeDerived \/ CascadeSource \/ CascadeRetire
  <2>1. /\ cascade'.visited = cascade.visited /\ cascade'.root = cascade.root
        /\ cascade'.parent = cascade.parent
        /\ \A i \in Keys : cascade'.todo[i] \subseteq cascade.todo[i]
    <3>1. CASE CascadeDerived
      BY <1>1, <3>1 DEF CascadeDerived, Cascade
    <3> QED BY <1>1, <1>6, <3>1 DEF CascadeSource, CascadeRetire, Cascade
  <2>2. FoundBy(k, j)
    BY <2>1 DEF FoundBy
  <2> QED BY <1>2, <1>6, <2>2 DEF CascadeDerived, CascadeSource, CascadeRetire, CascadeFinish
<1>7. CASE CascadeFinish
  <2>1. /\ cascade'.root = cascade.root /\ cascade'.visited = cascade.visited
        /\ cascade'.parent = cascade.parent /\ cascade'.todo = cascade.todo
    BY <1>1, <1>3, <1>7 DEF CascadeFinish, Cascade
  <2>2. FoundBy(k, j)
    BY <2>1 DEF FoundBy
  <2>3. CASE j = cascade.at
    <3>1. Emptied(j) /\ rows' = rows /\ evicted' = evicted
      BY <1>7, <2>3 DEF CascadeFinish, FinishSource, PlaceInv, PlacesOnce, SourceGone
    <3>2. Under(k, j)
      BY <1>1, <2>2 DEF FramesUnder
    <3> QED BY <3>1, <3>2 DEF Under, Hosted, Emptied, Filled, Keys
  <2> QED BY <1>2, <2>2, <2>3
<1> QED BY <1>4, <1>5, <1>6, <1>7 DEF CascadeNext

LEMMA FramesStayUnder ==
  ASSUME PlaceInv, Next
  PROVE  FramesUnder'
<1>1. Inv /\ Custodians /\ FramesUnder /\ ServiceApart
  BY DEF PlaceInv, PlacesOnce, OrderInv
<1>2. CASE ~CascadeNext
  <2>1. ASSUME NEW r \in KeyOrNone, cascade' = Start(r) PROVE FramesUnder'
    BY <2>1 DEF Start, NoCascade, FramesUnder, FoundBy
  <2>2. CASE cascade' = cascade
    <3>1. ASSUME NEW k \in Keys, NEW j \in KeyOrNone, FoundBy(k, j) PROVE Under(k, j)'
      <4>1. Under(k, j) /\ Doomed(k)
        BY <1>1, <3>1 DEF FramesUnder, FoundBy, Doomed
      <4>2. ServiceStore => k # sv.key
        BY <1>1, <4>1 DEF ServiceStore, ServiceApart, Serviced
      <4> QED BY <1>2, <4>1, <4>2, TablePlaces DEF CascadeNext
    <3> QED BY <2>2, <3>1 DEF FramesUnder, FoundBy
  <2> QED BY <1>1, <1>2, <2>1, <2>2, RetirementsStart
<1> QED BY <1>2, CascadeUnder

LEMMA SourceStaysGone ==
  ASSUME PlaceInv, Next
  PROVE  SourceGone'
<1>1. Inv /\ Custodians /\ FencesHold /\ SourceGone /\ cascade \in Cascade
  BY DEF PlaceInv, PlacesOnce, OrderInv, Inv, TypeOK
<1>2. CASE CascadeNext
  <2>1. CASE CascadeRetire
    <3>1. Emptied(cascade.at) /\ cascade'.at = cascade.at /\ UNCHANGED hostVars
      BY <1>1, <2>1 DEF CascadeRetire, FencesHold, Retiring, Cascade
    <3> QED BY <3>1 DEF hostVars, SourceGone, Emptied, Filled
  <2>2. CASE ~CascadeRetire
    <3> SUFFICES cascade'.step # "finish"
      BY DEF SourceGone
    <3>1. NoCascade.step # "finish"
      BY DEF NoCascade
    <3>2. CASE CascadeBegin
      <4>1. \/ cascade' = NoCascade
            \/ cascade' = [cascade EXCEPT !.step = "children",
                                          !.todo[cascade.at] = DerivedHosts(cascade.at)]
        BY <3>2 DEF CascadeBegin, Blocked
      <4> QED BY <1>1, <3>1, <4>1 DEF Cascade
    <3>3. CASE CascadeChild
      <4>1. PICK k : \/ cascade' = NoCascade
                     \/ cascade' = [cascade EXCEPT !.step = "derived", !.child = k]
                     \/ cascade' = [cascade EXCEPT !.step = "begin", !.at = k,
                                                   !.visited = @ \cup {k},
                                                   !.parent[k] = cascade.at]
        BY <3>3 DEF CascadeChild, Blocked
      <4> QED BY <1>1, <3>1, <4>1 DEF Cascade
    <3>4. CASE CascadeDerived
      BY <1>1, <3>1, <3>4 DEF CascadeDerived, Cascade
    <3>5. CASE CascadeSource
      BY <1>1, <3>1, <3>5 DEF CascadeSource, Cascade
    <3>6. CASE CascadeFinish
      <4>1. \/ cascade' = NoCascade
            \/ cascade' = [cascade EXCEPT !.step = "derived", !.child = cascade.at,
                                          !.at = cascade.parent[cascade.at]]
        BY <3>6 DEF CascadeFinish
      <4> QED BY <1>1, <3>1, <4>1 DEF Cascade
    <3> QED BY <1>2, <2>2, <3>2, <3>3, <3>4, <3>5, <3>6 DEF CascadeNext
  <2> QED BY <2>1, <2>2
<1>3. CASE ~CascadeNext
  <2>1. ASSUME NEW r \in KeyOrNone, cascade' = Start(r) PROVE SourceGone'
    BY <2>1 DEF Start, NoCascade, SourceGone
  <2>2. CASE cascade' = cascade /\ cascade.step = "finish"
    <3>1. cascade.at \in Keys /\ Fenced(cascade.at) /\ Emptied(cascade.at)
      BY <1>1, <2>2, FrameIsRecord DEF Retiring, FencesHold, SourceGone
    <3>2. Emptied(cascade.at)'
      <4>1. PICK k \in Keys : k = cascade.at
        BY <3>1
      <4>2. Emptied(k)'
        BY <1>1, <3>1, <4>1, TablePromises
      <4> QED BY <2>2, <4>1, <4>2
    <3> QED BY <2>2, <3>2 DEF SourceGone
  <2> QED BY <1>1, <1>3, <2>1, <2>2, RetirementsStart DEF SourceGone
<1> QED BY <1>2, <1>3

LEMMA NextPlaces == PlaceInv /\ [Next]_vars => PlaceInv'
<1>1. ASSUME PlaceInv, Next PROVE PlaceInv'
  <2>1. OrderInv'
    BY <1>1, NextOrder DEF PlaceInv
  <2>2. RowsNamedApart'
    BY <1>1, InvParts, TableSteps, HostStepNamed DEF PlaceInv, OrderInv
  <2> QED
    BY <1>1, <2>1, <2>2, TablePlaces, ServiceStaysApart, RootsStayUnhosted, FramesStayUnder,
       SourceStaysGone
       DEF PlaceInv, PlacesOnce
<1>2. ASSUME PlaceInv, UNCHANGED vars PROVE PlaceInv'
  <2>1. OrderInv'
    BY <1>2, NextOrder DEF PlaceInv
  <2> QED
    BY <1>2, <2>1
       DEF PlaceInv, PlacesOnce, vars, recordVars, hostVars, bapVars, actorVars, RowsNamedApart,
           Names, Occupied, HostsOnce, Filled, ServiceApart, Serviced, Hosted, Doomed,
           RootsUnhosted, Root, FramesUnder, FoundBy, Under, Fenced, SourceGone, Emptied
<1> QED BY <1>1, <1>2

LEMMA InitPlaces == Init => PlaceInv
<1> SUFFICES ASSUME Init PROVE PlaceInv
  OBVIOUS
<1>1. \A k \in Keys : ~Hosted(k) /\ ~Serviced(k)
  BY DEF Init, HostInit, FreeRow, NoCall, Hosted, Serviced, Keys
<1>2. HostsOnce
  BY DEF Init, HostInit, FreeRow, HostsOnce, Filled
<1>3. RowsNamedApart
  BY DEF Init, HostInit, RowsNamedApart, Names, Occupied, FreeRow
<1>4. FramesUnder /\ SourceGone
  BY DEF Init, NoCascade, FramesUnder, FoundBy, SourceGone
<1> QED BY <1>1, <1>2, <1>3, <1>4, InitOrder DEF PlaceInv, PlacesOnce, ServiceApart, RootsUnhosted

(***************************************************************************)
(* What is live                                                            *)
(***************************************************************************)
(* A host outlives its fence: one that is gone is behind the fence of the   *)
(* retirement that took it.                                                 *)
HostsLive == \A s \in Slots : Filled(s) => Contains(rows[s].host) \/ Fenced(rows[s].source)
StoreLive == sv.pc = "store" => Contains(sv.key)

(* A plan overwrites what the connection it is for owns, and nothing else. *)
PlanFor(own) == plan[BapEvent].replaces = IF plan[BapEvent].key = NoKey THEN NoKey ELSE own
PlanOwned ==
    /\ ev.pc = "allocate" => PlanFor(Owned(ev.session))
    /\ plan[Service].replaces = NoKey

(* A host somebody saw gone stays gone: its id is spent. *)
SeenIsGone ==
    /\ \A a \in Claimants : claim[a].held < nextKey
    /\ sv.pc \in {"held", "clear"} => sv.key \in Keys /\ sv.key < nextKey
    /\ \A k \in KeyOrNone : SeenGone(k) => k \in Keys \ live

LiveInv == PlaceInv /\ HostsLive /\ StoreLive /\ PlanOwned /\ SeenIsGone

(* What a step does to the record a plan overwrites. *)
LEMMA OutdatedKeeps ==
  ASSUME NEW f \in [Planners -> Plan], NEW p \in Planners
  PROVE  Outdated(f)[p].replaces = f[p].replaces /\ Outdated(f)[p].key = f[p].key
BY DEF Outdated, Plan

SamePlan(p) == \/ plan'[p].replaces = plan[p].replaces /\ plan'[p].key = plan[p].key
               \/ plan'[p].replaces = NoKey /\ plan'[p].key = NoKey

LEMMA PlanMoves ==
  ASSUME Inv, Next, NEW p \in Planners
  PROVE  \/ SamePlan(p)
         \/ p = BapEvent /\ \E c \in Sessions : Allocate(c) /\ plan'[p].replaces = Owned(c)
         \/ p = Service /\ plan'[p].replaces = NoKey
<1> USE DEF recordVars, SamePlan
<1>1. plan \in [Planners -> Plan] /\ NoPlan.replaces = NoKey /\ NoPlan.key = NoKey /\ NoPlan \in Plan
  BY DEF Inv, TypeOK, RecordsTypeOK, NoPlan, Plan
<1>2. Planners = {BapEvent, Service} /\ BapEvent # Service
  BY DEF Planners, BapEvent, Service
<1>3. ASSUME plan' = plan PROVE SamePlan(p)
  BY <1>3
<1>4. ASSUME MutateRecord PROVE SamePlan(p)
  BY <1>1, <1>4, OutdatedKeeps DEF MutateRecord
<1>5. ASSUME NEW q \in Planners, RejectSession(q) PROVE SamePlan(p)
  BY <1>1, <1>5 DEF RejectSession
<1>6. ASSUME NEW q \in Planners, CommitSession(q) PROVE SamePlan(p)
  <2>1. [plan EXCEPT ![q] = NoPlan] \in [Planners -> Plan]
    BY <1>1
  <2> QED BY <1>1, <1>6, <2>1, OutdatedKeeps DEF CommitSession
<1>7. ASSUME NEW k \in Keys, RetireExact(k) PROVE SamePlan(p)
  BY <1>1, <1>7, OutdatedKeeps DEF RetireExact
<1>8. ASSUME NEW q \in Planners, NEW k, PrepareSession(q, k)
      PROVE  SamePlan(p) \/ (p = q /\ plan'[p].replaces = k)
  BY <1>1, <1>8 DEF PrepareSession
<1>9. CASE EventBegins
  <2>1. ASSUME NEW c \in Sessions, Allocate(c)
        PROVE  SamePlan(p) \/ (p = BapEvent /\ plan'[p].replaces = Owned(c))
    BY <1>2, <1>8, <2>1 DEF Allocate
  <2> QED
    BY <1>3, <1>9, <2>1
       DEF EventBegins, Open, Close, Hello, Join, Poll, Report, Identify, Shutdown
<1>10. ASSUME EventSteps PROVE SamePlan(p)
  BY <1>2, <1>3, <1>4, <1>5, <1>6, <1>10
     DEF EventSteps, ShutdownSession, ShutdownDone, Retired, AllocateCommit, AllocateReject,
         JoinDirect, JoinLease, JoinRefused, JoinPublish, JoinDiscard, Deferred, IdentityClaim,
         ReportOwned, ReportBorrowed, ReportStale, ReportHeld, ReportAcquire, ReportLost,
         ReportCommit, ReportDiscard, EventRelease, EventReleased, Tail, EventDrained
<1>11. ASSUME ServiceBegins \/ ServiceSteps
       PROVE  SamePlan(p) \/ (p = Service /\ plan'[p].replaces = NoKey)
  <2>1. ASSUME ServicePrepare PROVE SamePlan(p) \/ (p = Service /\ plan'[p].replaces = NoKey)
    BY <1>2, <1>8, <2>1 DEF ServicePrepare
  <2> QED
    BY <1>2, <1>3, <1>5, <1>6, <1>11, <2>1
       DEF ServiceBegins, ServiceSteps, Slice, Reset, Lookup, Alias, ServiceTake, ServiceRetire,
           ServiceUnlock, ServiceFreed, ServicePick, ServiceInherit, ServiceDrop, ServiceCommit,
           ServiceReject, ServiceStore, LookupCheck, LookupClear
<1>12. ASSUME NEW a \in Claimants, ClaimSteps(a) PROVE SamePlan(p)
  BY <1>3, <1>12 DEF ClaimSteps, ClaimTake, ClaimRecheck, ClaimDrop, ClaimPublish, ClaimClear
<1>13. ASSUME NEW a \in Callers, CallerClaim(a) \/ CallerLease(a) \/ CallerSteps(a) PROVE SamePlan(p)
  BY <1>3, <1>13 DEF CallerClaim, CallerLease, CallerSteps, CallerRelease, CallerRetry, CallerDrained
<1>14. ASSUME CascadeNext PROVE SamePlan(p)
  <2>1. ASSUME CascadeRetire PROVE SamePlan(p)
    BY <1>7, <2>1, FrameIsRecord DEF CascadeRetire, Retiring
  <2> QED BY <1>3, <1>14, <2>1 DEF CascadeNext, CascadeBegin, CascadeChild, CascadeDerived,
                                   CascadeSource, CascadeFinish
<1>15. ASSUME DrainRoot \/ Revise PROVE SamePlan(p)
  BY <1>3, <1>4, <1>15 DEF DrainRoot, Revise, AdvanceRevision, MutateRecord
<1> QED BY <1>9, <1>10, <1>11, <1>12, <1>13, <1>14, <1>15 DEF Next

(* An allocation is only ever at its commit because it was there, or began. *)
LEMMA AllocatingSteps ==
  ASSUME Inv, Next, ev'.pc = "allocate"
  PROVE  \/ /\ ev' = ev
            /\ \A c \in Sessions : Owned(c)' = Owned(c)
         \/ \E c \in Sessions : Allocate(c) /\ ev'.session = c /\ Owned(c)' = Owned(c)
<1> DEFINE Goal == \/ /\ ev' = ev
                      /\ \A c \in Sessions : Owned(c)' = Owned(c)
                   \/ \E c \in Sessions :
                         Allocate(c) /\ ev'.session = c /\ Owned(c)' = Owned(c)
<1>1. sess \in [Sessions -> Session] /\ ev \in Event /\ EventOK
  BY DEF Inv, TypeOK
<1>2. ASSUME ev' = ev, sess' = sess PROVE Goal
  BY <1>2 DEF Owned
<1>3. ASSUME EventBegins PROVE Goal
  <2>1. ASSUME NEW c \in Sessions, Allocate(c) PROVE Goal
    <3>1. sess' = [sess EXCEPT ![c] = Refreshed(c)] /\ ev'.session = c
      BY <2>1 DEF Allocate, Frame, NoEvent
    <3>2. Owned(c)' = Owned(c)
      BY <1>1, <3>1 DEF Owned, Refreshed, Unbound, Session
    <3> QED BY <2>1, <3>1, <3>2
  <2>2. ASSUME NEW c \in Sessions, NEW g \in Groups,
               Open(c) \/ Close(c) \/ Hello(c) \/ Join(c) \/ Poll(c) \/ Report(c, g) \/ Identify(c, g)
        PROVE  FALSE
    BY <2>2 DEF Open, Close, Hello, Join, Poll, Report, Identify, Detach, Frame, NoEvent
  <2>3. ASSUME NEW c \in Sessions, Open(c) \/ Close(c) \/ Hello(c) \/ Join(c) \/ Poll(c)
        PROVE  FALSE
    BY <2>3 DEF Open, Close, Hello, Join, Poll, Detach, Frame, NoEvent
  <2>4. CASE Shutdown
    BY <2>4 DEF Shutdown, NoEvent
  <2> QED BY <1>3, <2>1, <2>2, <2>3, <2>4 DEF EventBegins
<1>4. ASSUME EventSteps PROVE FALSE
  <2>1. ASSUME ShutdownSession \/ ShutdownDone PROVE FALSE
    BY <1>1, <2>1 DEF ShutdownSession, ShutdownDone, InEvent, Event
  <2>2. ASSUME Retired \/ EventDrained PROVE FALSE
    <3>1. CASE Retired
      BY <1>1, <2>2, <3>1 DEF Retired, InEvent, Event, EventOK
    <3>2. CASE EventDrained
      <4>1. \/ ev' = NoEvent
            \/ ev' = [ev EXCEPT !.pc = ev.next, !.next = "none"] /\ ev.next = "sessions"
        BY <1>1, <3>2 DEF EventDrained, InEvent, EventOK
      <4>2. NoEvent.pc # "allocate"
        BY DEF NoEvent
      <4>3. [ev EXCEPT !.pc = ev.next, !.next = "none"].pc = ev.next
        BY <1>1 DEF Event
      <4> QED BY <4>1, <4>2, <4>3
    <3> QED BY <2>2, <3>1, <3>2
  <2>3. ASSUME AllocateCommit \/ AllocateReject \/ JoinDirect \/ JoinLease \/ JoinRefused
        PROVE  FALSE
    BY <1>1, <2>3 DEF AllocateCommit, AllocateReject, JoinDirect, JoinLease, JoinRefused, Event
  <2>4. ASSUME JoinPublish \/ JoinDiscard \/ (\E g \in Groups : Deferred(g)) \/ IdentityClaim
        PROVE  FALSE
    BY <1>1, <2>4 DEF JoinPublish, JoinDiscard, Deferred, IdentityClaim, Event
  <2>5. ASSUME ReportOwned \/ ReportBorrowed \/ ReportStale \/ ReportHeld PROVE FALSE
    BY <1>1, <2>5 DEF ReportOwned, ReportBorrowed, ReportStale, ReportHeld, Event
  <2>6. ASSUME ReportAcquire \/ ReportLost \/ ReportCommit \/ ReportDiscard PROVE FALSE
    BY <1>1, <2>6 DEF ReportAcquire, ReportLost, ReportCommit, ReportDiscard, Event
  <2>7. ASSUME EventRelease PROVE FALSE
    BY <2>7 DEF EventRelease, InEvent
  <2>8. ASSUME EventReleased \/ Tail PROVE FALSE
    BY <1>1, <2>8 DEF EventReleased, Tail, NoEvent, Event
  <2> QED BY <1>4, <2>1, <2>2, <2>3, <2>4, <2>5, <2>6, <2>7, <2>8 DEF EventSteps
<1>5. ASSUME NEW a \in Claimants, ClaimSteps(a) PROVE Goal
  <2>1. sess' = sess /\ (ev' = ev \/ \E b \in BOOLEAN : Answer(a, b))
    BY <1>5 DEF ClaimSteps, ClaimTake, ClaimRecheck, ClaimDrop, ClaimPublish, ClaimClear, ClaimGoes,
                bapVars
  <2>2. ASSUME NEW b \in BOOLEAN, Answer(a, b) PROVE ev' = ev
    BY <1>1, <2>2 DEF Answer, Event
  <2> QED BY <1>2, <2>1, <2>2
<1>6. ASSUME ServiceBegins \/ ServiceSteps PROVE Goal
  BY <1>2, <1>6
     DEF ServiceBegins, ServiceSteps, Slice, Reset, Lookup, Alias, ServiceTake, ServiceRetire,
         ServiceUnlock, ServiceFreed, ServicePick, ServiceInherit, ServiceDrop, ServicePrepare,
         ServiceCommit, ServiceReject, ServiceStore, LookupCheck, LookupClear, bapVars, actorVars
<1>7. ASSUME NEW a \in Callers, CallerClaim(a) \/ CallerLease(a) \/ CallerSteps(a) PROVE Goal
  BY <1>2, <1>7
     DEF CallerClaim, CallerLease, CallerSteps, CallerRelease, CallerRetry, CallerDrained, bapVars
<1>8. ASSUME CascadeNext PROVE Goal
  <2>1. ASSUME CascadeRetire PROVE Goal
    <3>1. sess' = Invalidated(cascade.at) /\ ev' = ev
      BY <2>1 DEF CascadeRetire, actorVars
    <3>2. \A c \in Sessions : Owned(c)' = Owned(c)
      BY <1>1, <3>1 DEF Owned, Invalidated, Unbound, Session
    <3> QED BY <3>1, <3>2
  <2> QED BY <1>2, <1>8, <2>1 DEF CascadeNext, CascadeBegin, CascadeChild, CascadeDerived,
                                   CascadeSource, CascadeFinish, actorVars
<1>9. ASSUME DrainRoot \/ Revise PROVE Goal
  BY <1>2, <1>9 DEF DrainRoot, Revise, bapVars, actorVars
<1> QED BY <1>3, <1>4, <1>5, <1>6, <1>7, <1>8, <1>9 DEF Next

LEMMA PlanStaysOwned ==
  ASSUME Inv, Next, PlanOwned
  PROVE  PlanOwned'
<1>1. plan'[Service].replaces = NoKey
  BY PlanMoves DEF PlanOwned, Planners, BapEvent, Service, SamePlan
<1>2. BapEvent \in Planners /\ BapEvent # Service
  BY DEF Planners, BapEvent, Service
<1>3. ASSUME ev'.pc = "allocate"
      PROVE  \E c \in Sessions :
                /\ c = ev'.session
                /\ plan'[BapEvent].replaces =
                      IF plan'[BapEvent].key = NoKey THEN NoKey ELSE Owned(c)'
  <2>1. CASE ev' = ev /\ \A c \in Sessions : Owned(c)' = Owned(c)
    <3>1. \A c \in Sessions : ~Allocate(c)
      BY <1>3, <2>1 DEF Allocate, Begins
    <3>2. PICK c \in Sessions : c = ev.session
      BY <1>3, <2>1, EventSession DEF InSession
    <3>3. SamePlan(BapEvent)
      BY <1>2, <3>1, PlanMoves
    <3>4. plan[BapEvent].replaces = IF plan[BapEvent].key = NoKey THEN NoKey ELSE Owned(c)
      BY <1>3, <2>1, <3>2 DEF PlanOwned, PlanFor
    <3> QED BY <2>1, <3>2, <3>3, <3>4 DEF SamePlan
  <2>2. ASSUME NEW c \in Sessions, Allocate(c), ev'.session = c, Owned(c)' = Owned(c)
        PROVE  plan'[BapEvent].replaces =
                  IF plan'[BapEvent].key = NoKey THEN NoKey ELSE Owned(c)'
    <3>1. plan \in [Planners -> Plan] /\ nextKey # NoKey
      BY DEF Inv, TypeOK, RecordsTypeOK
    <3> QED BY <1>2, <2>2, <3>1 DEF Allocate, PrepareSession, NoPlan
  <2> QED BY <1>3, <2>1, <2>2, AllocatingSteps
<1>4. ev'.pc = "allocate" => PlanFor(Owned(ev.session))'
  BY <1>3 DEF Owned, PlanFor
<1> QED BY <1>1, <1>4 DEF PlanOwned

LEMMA PickGoes ==
  ASSUME ServicePick
  PROVE  sv'.pc \in {"idle", "inherit"}
<1>1. CASE sv' = NoCall
  BY <1>1 DEF NoCall
<1>2. ASSUME NEW g, NEW k, sv' = [NoCall EXCEPT !.pc = "inherit", !.group = g, !.source = k]
      PROVE  sv'.pc = "inherit"
  BY <1>2 DEF NoCall
<1> QED BY <1>1, <1>2 DEF ServicePick

(* The record about to be stored is the one the service thread created. *)
LEMMA StoreFrom ==
  ASSUME Inv, Next, sv'.pc = "store"
  PROVE  sv' = sv \/ (ServiceCommit /\ sv'.key = plan[Service].key)
<1>1. sv \in ServiceCall /\ ServiceOK
  BY DEF Inv, TypeOK
<1>2. CASE ServiceBegins
  BY <1>1, <1>2 DEF ServiceBegins, Slice, Reset, Lookup, Alias, NoCall, actorVars
<1>3. CASE ServiceSteps
  <2>1. CASE ServiceTake \/ ServiceRetire \/ ServiceUnlock
    BY <1>1, <2>1 DEF ServiceTake, ServiceRetire, ServiceUnlock, ServiceCall
  <2>2. CASE ServiceFreed
    <3>1. sv.next \in {"take", "pick", "idle"}
      BY <1>1, <2>2 DEF ServiceFreed, ServiceOK
    <3>2. sv' = NoCall \/ sv'.pc = sv.next
      BY <1>1, <2>2 DEF ServiceFreed, ServiceCall
    <3> QED BY <3>1, <3>2 DEF NoCall
  <2>3. CASE ServiceDrop \/ ServiceReject \/ LookupClear
    BY <2>3 DEF ServiceDrop, ServiceReject, LookupClear, NoCall
  <2>7. CASE ServicePick
    BY <2>7, PickGoes
  <2>4. CASE ServiceInherit \/ ServicePrepare \/ LookupCheck
    BY <1>1, <2>4 DEF ServiceInherit, ServicePrepare, LookupCheck, NoCall, ServiceCall
  <2>5. CASE ServiceCommit
    BY <1>1, <2>5 DEF ServiceCommit, ServiceCall
  <2>6. CASE ServiceStore
    BY <2>6 DEF ServiceStore, NoCall
  <2> QED BY <1>3, <2>1, <2>2, <2>3, <2>4, <2>5, <2>6, <2>7 DEF ServiceSteps
<1> QED BY <1>2, <1>3, ServiceAlone

(* A record goes only by its retirement, or when the connection that owns   *)
(* it overwrites it.                                                        *)
LEMMA LiveLeaves ==
  ASSUME Inv, PlanOwned, Next, NEW k \in live, k \notin live'
  PROVE  (CascadeRetire /\ k = cascade.at) \/ \E c \in Sessions : Owner(c, k)
<1>1. k \in Keys
  BY DEF Inv, TypeOK, RecordsTypeOK
<1>2. CASE CascadeRetire
  BY <1>2 DEF CascadeRetire, RetireExact
<1>3. CASE AllocateCommit
  <2>1. k = plan[BapEvent].replaces /\ ev.pc = "allocate"
    BY <1>3 DEF AllocateCommit, CommitSession, InEvent
  <2>2. PICK c \in Sessions : c = ev.session
    BY <2>1, EventSession DEF InSession
  <2>3. Owned(c) = k
    BY <1>1, <2>1, <2>2 DEF PlanOwned, PlanFor, Keys
  <2> QED BY <1>1, <2>3, OwnedOwner
<1>4. CASE ServiceCommit
  BY <1>1, <1>4 DEF ServiceCommit, CommitSession, PlanOwned, Keys
<1> QED BY <1>2, <1>3, <1>4, LiveSteps

(* A host of the table goes only behind its source's fence. *)
LEMMA HostLeaves ==
  ASSUME PlaceInv, PlanOwned, Next, NEW s \in Slots, rows[s].host \in live, rows[s].host \notin live'
  PROVE  /\ CascadeRetire
         /\ rows[s].source \in cascade.visited /\ Fenced(rows[s].source) /\ Quiet(rows[s].source)
<1>1. Inv /\ OwnersApart /\ RootsUnhosted /\ FramesUnder /\ FencesHold
  BY DEF PlaceInv, PlacesOnce, OrderInv, Custodians
<1>2. PICK k \in Keys : k = rows[s].host
  BY <1>1 DEF Inv, TypeOK, RecordsTypeOK
<1>3. Hosted(k)
  BY <1>2 DEF Hosted
<1>4. CascadeRetire /\ k = cascade.at
  BY <1>1, <1>2, <1>3, LiveLeaves DEF OwnersApart, Held
<1>5. /\ Retiring /\ cascade \in Cascade /\ cascade.step = "retire"
      /\ {cascade.root, cascade.at} \subseteq cascade.visited
      /\ \A j \in cascade.visited \ {cascade.root} : cascade.parent[j] \in cascade.visited
  BY <1>1, <1>4 DEF CascadeRetire, Retiring, Inv, FramesOK, TypeOK
<1>6. k # cascade.root
  BY <1>1, <1>3, <1>4, <1>5 DEF RootsUnhosted, Root
<1>7. PICK j \in KeyOrNone : j = cascade.parent[k] /\ j \in cascade.visited
  BY <1>4, <1>5, <1>6 DEF Cascade
<1>8. FoundBy(k, j)
  BY <1>4, <1>5, <1>6, <1>7 DEF FoundBy
<1>9. Under(k, j)
  BY <1>1, <1>8 DEF FramesUnder
<1>10. rows[s].source = j /\ Fenced(j)
  BY <1>2, <1>3, <1>9 DEF Under
<1>11. Quiet(j)
  BY <1>1, <1>5, <1>7, <1>10 DEF FencesHold
<1> QED BY <1>4, <1>7, <1>10, <1>11

LEMMA StoreStaysLive ==
  ASSUME PlaceInv, PlanOwned, StoreLive, Next
  PROVE  StoreLive'
<1>1. Inv /\ OwnersApart /\ ServiceApart
  BY DEF PlaceInv, PlacesOnce, OrderInv, Custodians
<1> SUFFICES ASSUME sv'.pc = "store" PROVE sv'.key \in live'
  BY DEF StoreLive, Contains
<1>2. CASE ServiceCommit /\ sv'.key = plan[Service].key
  BY <1>2 DEF ServiceCommit, CommitSession
<1>3. CASE sv' = sv
  <2>1. PICK k \in Keys : k = sv.key
    BY <1>1, <1>3 DEF Inv, ServiceOK
  <2>2. k \in live /\ Serviced(k)
    BY <1>3, <2>1 DEF StoreLive, Contains, Serviced
  <2>3. ~Doomed(k) /\ \A c \in Sessions : ~Owner(c, k)
    BY <1>1, <2>2 DEF ServiceApart, OwnersApart, Held
  <2>4. ~(CascadeRetire /\ k = cascade.at)
    BY <1>1, <2>3 DEF CascadeRetire, Retiring, Inv, FramesOK, Doomed
  <2> QED BY <1>1, <1>3, <2>1, <2>2, <2>3, <2>4, LiveLeaves
<1> QED BY <1>1, <1>2, <1>3, StoreFrom

LEMMA HostsStayLive ==
  ASSUME PlaceInv, HostsLive, StoreLive, PlanOwned, Next
  PROVE  HostsLive'
<1>1. Inv /\ HostTypeOK /\ SourceGone
  BY DEF PlaceInv, PlacesOnce, OrderInv, Inv, TypeOK
<1> SUFFICES ASSUME NEW s \in Slots, rows'[s].host # NoKey
             PROVE  rows'[s].host \in live' \/ rows'[s].source \in fences'
  BY DEF HostsLive, Filled, Contains, Fenced
<1>2. ASSUME rows'[s].host = rows[s].host, rows'[s].source = rows[s].source,
             Fenced(rows[s].source) => rows[s].source \in fences'
      PROVE  rows'[s].host \in live' \/ rows'[s].source \in fences'
  BY <1>2, HostLeaves DEF HostsLive, Filled, Contains
<1>3. CASE HostMoves \/ UNCHANGED hostVars
  <2>1. Kept
    BY <1>1, <1>3, MovesKeep
  <2> QED BY <1>2, <2>1 DEF Kept, RowKept, Fenced
<1>4. CASE CascadeBegin
  BY <1>2, <1>4 DEF CascadeBegin, FenceSource, Fenced
<1>5. CASE CascadeFinish
  <2>1. cascade.step = "finish" /\ rows' = rows /\ fences' = fences \ {cascade.at}
    BY <1>5 DEF CascadeFinish, FinishSource
  <2>2. rows[s].source # cascade.at
    BY <1>1, <2>1 DEF SourceGone, Emptied, Filled
  <2> QED BY <1>2, <2>1, <2>2 DEF Fenced
<1>6. CASE ServiceStore
  <2>1. /\ sv.key \in live /\ live' = live /\ fences' = fences
        /\ rows'[s].host = IF s \in Storable(sv.group, sv.source) THEN sv.key ELSE rows[s].host
        /\ rows'[s].source = rows[s].source
    BY <1>1, <1>6 DEF ServiceStore, StoreHost, StoreLive, Contains, HostTypeOK, Row, recordVars
  <2> QED BY <1>2, <2>1 DEF Fenced
<1> QED BY <1>1, <1>3, <1>4, <1>5, <1>6, TableMoves

(* A host that is read from the table is the table's. *)
LEMMA HeldHosted ==
  ASSUME Inv, NEW g
  PROVE  HeldHost(g) = NoKey \/ (HeldHost(g) \in Keys /\ Hosted(HeldHost(g)))
<1>1. CASE FirstOf(Named(g)) = {}
  BY <1>1 DEF HeldHost
<1>2. CASE FirstOf(Named(g)) # {}
  <2>1. PICK s \in Slots : HeldHost(g) = rows[s].host
    BY <1>2 DEF HeldHost, FirstOf, Named
  <2> QED BY <2>1 DEF Hosted, Inv, TypeOK, HostTypeOK, Row
<1> QED BY <1>1, <1>2

(* How a thread comes to clear a host it saw gone. *)
LEMMA ClaimHolds ==
  ASSUME Inv, Next, NEW a \in Claimants
  PROVE  \/ claim'[a].held = claim[a].held /\ claim'[a].pc = claim[a].pc
         \/ claim'[a].held \in {NoKey, claim[a].held} /\ claim'[a].pc # "clear"
         \/ claim'[a].held = claim[a].held /\ claim[a].held \in Keys \ live
         \/ claim'[a].pc # "clear" /\ \E g : claim'[a].held = HeldHost(g)
<1> DEFINE Goal ==
       \/ claim'[a].held = claim[a].held /\ claim'[a].pc = claim[a].pc
       \/ claim'[a].held \in {NoKey, claim[a].held} /\ claim'[a].pc # "clear"
       \/ claim'[a].held = claim[a].held /\ claim[a].held \in Keys \ live
       \/ claim'[a].pc # "clear" /\ \E g : claim'[a].held = HeldHost(g)
<1>1. claim \in [Claimants -> Claim] /\ BapEvent \in Claimants /\ Callers \subseteq Claimants
  BY DEF Inv, TypeOK, Claimants
<1>2. ASSUME claim'[a] = claim[a] PROVE Goal
  BY <1>2
<1>3. ASSUME claim'[a] = NoClaim PROVE Goal
  BY <1>3 DEF NoClaim
<1>4. ASSUME NEW b \in Claimants, NEW g, NEW k, StartClaim(b, g, k) PROVE Goal
  <2>1. CASE a = b
    BY <1>1, <1>4, <2>1 DEF StartClaim, NoClaim
  <2> QED BY <1>1, <1>2, <1>4, <2>1 DEF StartClaim
<1>5. ASSUME NEW b \in Claimants, ClaimSteps(b) PROVE Goal
  <2>1. CASE a # b
    BY <1>1, <1>2, <1>5, <2>1
       DEF ClaimSteps, ClaimTake, ClaimRecheck, ClaimDrop, ClaimPublish, ClaimClear, ClaimGoes, Answer
  <2>2. CASE a = b
    <3>1. ASSUME NEW r, Answer(a, r) PROVE Goal
      BY <1>1, <1>3, <3>1 DEF Answer
    <3>2. CASE ClaimTake(a)
      <4>1. CASE ClaimRefused(claim[a].group, claim[a].source)
        BY <3>1, <3>2, <4>1 DEF ClaimTake
      <4>2. CASE ~ClaimRefused(claim[a].group, claim[a].source)
        <5>1. claim' = [claim EXCEPT ![a].held = HeldHost(claim[a].group),
                                     ![a].pc = IF claim[a].source = NoKey THEN "publish"
                                                                          ELSE "recheck"]
          BY <3>2, <4>2 DEF ClaimTake
        <5>2. claim'[a].held = HeldHost(claim[a].group) /\ claim'[a].pc # "clear"
          BY <1>1, <5>1 DEF Claim
        <5> QED BY <5>2
      <4> QED BY <4>1, <4>2
    <3>3. CASE ClaimRecheck(a)
      BY <1>1, <3>3 DEF ClaimRecheck, ClaimGoes, Claim
    <3>4. CASE ClaimDrop(a) \/ ClaimClear(a)
      BY <3>1, <3>4 DEF ClaimDrop, ClaimClear
    <3>5. CASE ClaimPublish(a)
      <4>1. CASE claim[a].held # NoKey /\ ~Contains(claim[a].held)
        BY <1>1, <3>5, <4>1 DEF ClaimPublish, ClaimGoes, Claim, Contains
      <4> QED BY <3>1, <3>5, <4>1 DEF ClaimPublish
    <3> QED BY <1>5, <2>2, <3>2, <3>3, <3>4, <3>5 DEF ClaimSteps
  <2> QED BY <2>1, <2>2
<1>6. ASSUME EventBegins \/ EventSteps PROVE Goal
  BY <1>1, <1>2, <1>4, <1>6
     DEF EventBegins, Open, Close, Hello, Allocate, Join, Poll, Report, Identify, Shutdown, Frame,
         EventSteps, ShutdownSession, ShutdownDone, Retired, AllocateCommit, AllocateReject,
         JoinDirect, JoinLease, JoinRefused, JoinPublish, JoinDiscard, Deferred, IdentityClaim,
         ReportOwned, ReportBorrowed, ReportStale, ReportHeld, ReportAcquire, ReportLost,
         ReportCommit, ReportDiscard, EventRelease, EventReleased, Tail, EventDrained
<1>7. ASSUME ServiceBegins \/ ServiceSteps PROVE Goal
  BY <1>2, <1>7
     DEF ServiceBegins, ServiceSteps, Slice, Reset, Lookup, Alias, ServiceTake, ServiceRetire,
         ServiceUnlock, ServiceFreed, ServicePick, ServiceInherit, ServiceDrop, ServicePrepare,
         ServiceCommit, ServiceReject, ServiceStore, LookupCheck, LookupClear, actorVars
<1>8. ASSUME NEW b \in Callers, CallerClaim(b) \/ CallerLease(b) \/ CallerSteps(b) PROVE Goal
  BY <1>1, <1>2, <1>4, <1>8
     DEF CallerClaim, CallerLease, CallerSteps, CallerRelease, CallerRetry, CallerDrained
<1>9. ASSUME CascadeNext \/ DrainRoot \/ Revise PROVE Goal
  BY <1>2, <1>9
     DEF CascadeNext, CascadeBegin, CascadeChild, CascadeDerived, CascadeSource, CascadeRetire,
         CascadeFinish, DrainRoot, Revise, actorVars
<1> QED BY <1>5, <1>6, <1>7, <1>8, <1>9 DEF Next

LEMMA LookupHolds ==
  ASSUME Inv, Next, sv'.pc \in {"held", "clear"}
  PROVE  \/ sv' = sv
         \/ sv'.pc = "held" /\ sv'.key # NoKey /\ \E g : sv'.key = HeldHost(g)
         \/ sv.pc = "held" /\ sv'.key = sv.key /\ sv.key \notin live
<1>1. sv \in ServiceCall /\ ServiceOK
  BY DEF Inv, TypeOK
<1>2. CASE ServiceBegins
  <2>1. ASSUME NEW g, Lookup(g)
        PROVE  sv'.pc = "held" /\ sv'.key # NoKey /\ sv'.key = HeldHost(g)
    BY <2>1 DEF Lookup, NoCall
  <2> QED BY <1>2, <2>1 DEF ServiceBegins, Slice, Reset, Alias, NoCall, actorVars
<1>3. CASE ServiceSteps
  <2>1. CASE ServiceTake \/ ServiceRetire \/ ServiceUnlock
    BY <1>1, <2>1 DEF ServiceTake, ServiceRetire, ServiceUnlock, ServiceCall
  <2>2. CASE ServiceFreed
    <3>1. sv.next \in {"take", "pick", "idle"}
      BY <1>1, <2>2 DEF ServiceFreed, ServiceOK
    <3>2. sv' = NoCall \/ sv'.pc = sv.next
      BY <1>1, <2>2 DEF ServiceFreed, ServiceCall
    <3> QED BY <3>1, <3>2 DEF NoCall
  <2>3. CASE ServiceDrop \/ ServiceReject \/ LookupClear
    BY <2>3 DEF ServiceDrop, ServiceReject, LookupClear, NoCall
  <2>4. CASE ServicePick
    BY <2>4, PickGoes
  <2>5. CASE ServiceInherit \/ ServicePrepare
    <3>1. sv'.pc \in {"prepare", "drop", "idle", "commit"}
      BY <1>1, <2>5 DEF ServiceInherit, ServicePrepare, NoCall, ServiceCall
    <3> QED BY <3>1
  <2>8. CASE ServiceCommit
    BY <1>1, <2>8 DEF ServiceCommit, ServiceCall
  <2>6. CASE ServiceStore
    BY <2>6 DEF ServiceStore, NoCall
  <2>7. CASE LookupCheck
    BY <1>1, <2>7 DEF LookupCheck, NoCall, ServiceCall, Contains
  <2> QED BY <1>3, <2>1, <2>2, <2>3, <2>4, <2>5, <2>6, <2>7, <2>8 DEF ServiceSteps
<1> QED BY <1>2, <1>3, ServiceAlone

LEMMA SeenStaysGone ==
  ASSUME PlaceInv, SeenIsGone, Next
  PROVE  SeenIsGone'
<1>1. Inv /\ IssuedInOrder /\ Inv'
  BY NextPlaces DEF PlaceInv, OrderInv, Custodians
<1>2. /\ nextKey \in Nat \ {0} /\ nextKey' \in Nat /\ nextKey' >= nextKey
      /\ \A k \in live' : k \in live \/ k = nextKey
  BY <1>1, RecordsOrder DEF Inv, TypeOK, RecordsTypeOK
<1>3. \A g : HeldHost(g) < nextKey
  BY <1>1, <1>2, HeldHosted DEF IssuedInOrder, Issued, Held, Keys
<1>4. ASSUME NEW a \in Claimants PROVE claim'[a].held < nextKey'
  <2>1. claim[a].held \in KeyOrNone /\ claim'[a].held \in KeyOrNone /\ claim[a].held < nextKey
    BY <1>1 DEF Inv, TypeOK, Claim, SeenIsGone
  <2>2. claim'[a].held < nextKey
    BY <1>1, <1>2, <1>3, <2>1, ClaimHolds
  <2> QED BY <1>2, <2>1, <2>2 DEF Keys
<1>5. ASSUME sv'.pc \in {"held", "clear"} PROVE sv'.key \in Keys /\ sv'.key < nextKey'
  <2>1. sv'.key \in Keys /\ sv'.key < nextKey
    BY <1>1, <1>3, <1>5, LookupHolds, HeldHosted DEF SeenIsGone
  <2> QED BY <1>2, <2>1 DEF Keys
<1>6. ASSUME NEW k \in KeyOrNone, SeenGone(k)' PROVE k \in Keys \ live'
  <2>1. k < nextKey
    <3>1. ASSUME NEW a \in Claimants, claim'[a].pc = "clear", claim'[a].held = k PROVE k < nextKey
      BY <1>1, <1>2, <1>3, <3>1, ClaimHolds DEF SeenIsGone
    <3>2. ASSUME sv'.pc = "clear", sv'.key = k PROVE k < nextKey
      BY <1>1, <1>3, <3>2, LookupHolds DEF SeenIsGone
    <3> QED BY <1>6, <3>1, <3>2 DEF SeenGone
  <2>2. k \in Keys \ live
    <3>1. ASSUME NEW a \in Claimants, claim'[a].pc = "clear", claim'[a].held = k
          PROVE  SeenGone(k) \/ k \in Keys \ live
      BY <1>1, <3>1, ClaimHolds DEF SeenGone
    <3>2. ASSUME sv'.pc = "clear", sv'.key = k PROVE SeenGone(k) \/ k \in Keys \ live
      BY <1>1, <3>2, LookupHolds DEF SeenGone, SeenIsGone
    <3> QED BY <1>6, <3>1, <3>2 DEF SeenGone, SeenIsGone
  <2> QED BY <1>2, <2>1, <2>2 DEF Keys
<1> QED BY <1>4, <1>5, <1>6 DEF SeenIsGone

LEMMA InitLive == Init => LiveInv
<1> SUFFICES ASSUME Init PROVE LiveInv
  OBVIOUS
<1>1. HostsLive /\ StoreLive
  BY DEF Init, HostInit, FreeRow, NoCall, HostsLive, Filled, StoreLive
<1>2. PlanOwned
  BY DEF Init, RecordsInit, NoPlan, NoEvent, PlanOwned, PlanFor, Planners
<1>3. SeenIsGone
  BY DEF Init, RecordsInit, NoClaim, NoCall, SeenIsGone, SeenGone
<1> QED BY <1>1, <1>2, <1>3, InitPlaces DEF LiveInv

LEMMA NextLive == LiveInv /\ [Next]_vars => LiveInv'
<1>1. ASSUME LiveInv, Next PROVE LiveInv'
  BY <1>1, NextPlaces, HostsStayLive, StoreStaysLive, PlanStaysOwned, SeenStaysGone
     DEF LiveInv, PlaceInv, OrderInv
<1>2. ASSUME LiveInv, UNCHANGED vars PROVE LiveInv'
  BY <1>2, NextPlaces
     DEF LiveInv, vars, recordVars, hostVars, bapVars, actorVars, HostsLive, Filled, Contains, Fenced,
         StoreLive, PlanOwned, PlanFor, Owned, SeenIsGone, SeenGone
<1> QED BY <1>1, <1>2

(***************************************************************************)
(* Leases                                                                  *)
(***************************************************************************)
(* A lease that is out pins the row it copied, as it was, and every pin of  *)
(* a row is a lease.                                                        *)
On(s) == {h \in LeaseHolders : lease[h].slot = s}
LeasesHold ==
    /\ \A h \in LeaseHolders :
          Pinned(lease[h]) => LeaseValid(h) /\ Filled(lease[h].slot) /\ Contains(lease[h].host)
    /\ \A s \in Slots : rows[s].pins = Cardinality(On(s))

LeaseInv == LiveInv /\ LeasesHold

(* What everybody but its leaseholders leaves of a pinned row. *)
RowSteady(s) ==
    /\ rows[s].pins # 0 =>
          /\ rows'[s].group = rows[s].group
          /\ rows'[s].host = rows[s].host
          /\ rows'[s].source = rows[s].source
          /\ rows'[s].generation = rows[s].generation
          /\ rows'[s].pins = rows[s].pins
    /\ rows[s].pins = 0 => rows'[s].pins = 0
Steady == lease' = lease /\ \A s \in Slots : RowSteady(s)

LEMMA OnFinite ==
  ASSUME NEW s
  PROVE  IsFiniteSet(On(s)) /\ (Cardinality(On(s)) = 0 <=> On(s) = {})
<1>1. IsFiniteSet(On(s))
  BY HostAssumption, FS_Subset DEF On
<1> QED BY <1>1, FS_EmptySet

LEMMA PinnedHeld ==
  ASSUME LeasesHold, NEW s \in Slots, rows[s].pins # 0
  PROVE  Occupied(s) /\ Filled(s) /\ rows[s].host \in live
<1>1. PICK h \in LeaseHolders : lease[h].slot = s
  BY OnFinite DEF LeasesHold, On
<1> QED BY <1>1 DEF LeasesHold, LeaseValid, SameRow, Pinned, Contains, Slots, NoSlot

(* The host of a pinned row, or of one behind no fence, is not retired. *)
LEMMA PinnedStaysLive ==
  ASSUME LiveInv, Next, NEW s \in Slots, rows[s].host \in live,
         rows[s].pins # 0 \/ ~Fenced(rows[s].source)
  PROVE  rows[s].host \in live'
<1>1. rows[s].host # NoKey
  BY DEF LiveInv, PlaceInv, OrderInv, Inv, TypeOK, RecordsTypeOK, Keys
<1> QED BY <1>1, HostLeaves DEF LiveInv, Quiet, Filled

LEMMA SteadyHolds ==
  ASSUME LeaseInv, Next, Steady
  PROVE  LeasesHold'
<1>1. LiveInv /\ LeasesHold /\ lease \in [LeaseHolders -> Lease]
  BY DEF LeaseInv, LiveInv, PlaceInv, OrderInv, Inv, TypeOK, HostTypeOK
<1>2. \A s : On(s)' = On(s)
  BY DEF Steady, On
<1>3. \A s \in Slots : rows'[s].pins = rows[s].pins
  BY DEF Steady, RowSteady
<1>4. ASSUME NEW h \in LeaseHolders, Pinned(lease[h])
      PROVE  LeaseValid(h)' /\ Filled(lease[h].slot)' /\ Contains(lease[h].host)'
  <2>1. PICK s \in Slots : s = lease[h].slot
    BY <1>1, <1>4 DEF Pinned, Lease
  <2>2. /\ rows[s].pins # 0 /\ LeaseValid(h) /\ Filled(s)
        /\ lease[h].host = rows[s].host /\ rows[s].host \in live
    BY <1>1, <1>4, <2>1 DEF LeasesHold, LeaseValid, SameRow, Contains
  <2>3. rows[s].host \in live'
    BY <1>1, <2>2, PinnedStaysLive
  <2>4. RowSteady(s) /\ lease' = lease
    BY DEF Steady
  <2> QED BY <2>1, <2>2, <2>3, <2>4
          DEF RowSteady, LeaseValid, SameRow, Pinned, Occupied, Filled, Contains
<1> QED BY <1>1, <1>2, <1>3, <1>4 DEF LeasesHold, Steady, Pinned

(* No claim, cleanup, migration, reset or retirement touches a pinned row. *)
LEMMA KeepsSteady ==
  ASSUME LeaseInv, HostKeeps \/ UNCHANGED hostVars
  PROVE  \/ Steady
         \/ \E h \in LeaseHolders : ReleaseLease(h) \/ \E k \in KeyOrNone : AcquireLease(h, k)
<1>1. HostTypeOK /\ \A s \in Slots : rows[s].pins # 0 => Occupied(s) /\ Filled(s)
  BY PinnedHeld DEF LeaseInv, LiveInv, PlaceInv, OrderInv, Inv, TypeOK
<1>2. ASSUME NEW S, ClearRows(S), \A s \in S \cap Slots : rows[s].pins = 0, lease' = lease PROVE Steady
  BY <1>2 DEF ClearRows, FreeRow, Steady, RowSteady
<1>3. ASSUME rows' = rows, lease' = lease PROVE Steady
  BY <1>3 DEF Steady, RowSteady
<1>4. ASSUME NEW g, NEW k, ClaimRow(g, k) PROVE Steady
  <2>1. CASE ClaimRefuse(g, k)
    BY <1>3, <2>1 DEF ClaimRefuse, hostVars
  <2>2. CASE ClaimExisting(g, k)
    <3>1. PICK s \in Slots : rows' = [rows EXCEPT ![s].source =
                                         IF ~Filled(s) /\ k # NoKey THEN k ELSE @]
      BY <2>2 DEF ClaimExisting, FirstOf, Named
    <3> QED BY <1>1, <2>2, <3>1 DEF ClaimExisting, Steady, RowSteady, HostTypeOK, Row
  <2>3. ASSUME NEW s \in Slots, NewRow(s, g, k), rows[s].pins = 0, lease' = lease PROVE Steady
    <3>1. PICK n : rows' = [rows EXCEPT ![s] = [FreeRow EXCEPT !.group = g, !.source = k,
                                                             !.generation = n]]
      BY <2>3 DEF NewRow
    <3> QED BY <1>1, <2>3, <3>1 DEF FreeRow, Steady, RowSteady, HostTypeOK
  <2>4. CASE ClaimFree(g, k)
    BY <1>1, <2>3, <2>4 DEF ClaimFree, FirstOf, FreeSlots
  <2>5. CASE ClaimEvicting(g, k)
    BY <2>3, <2>5 DEF ClaimEvicting, Victims
  <2> QED BY <1>4, <2>1, <2>2, <2>4, <2>5 DEF ClaimRow
<1>5. ASSUME NEW g, NEW m, AliasRow(g, m) PROVE Steady
  <2>1. PICK s \in Slots : rows' = [rows EXCEPT ![s].alias = m]
    BY <1>5 DEF AliasRow, LastOf, Named
  <2> QED BY <1>1, <1>5, <2>1 DEF AliasRow, Steady, RowSteady, HostTypeOK, Row
<1>6. ASSUME NEW g, NEW k, DropUnfilledClaim(g, k) \/ DropStaleClaim(g, k) PROVE Steady
  BY <1>1, <1>2, <1>6 DEF DropUnfilledClaim, DropStaleClaim
<1>7. ASSUME NEW k, CommitSource(k) \/ \E d : CommitDerived(k, d) PROVE Steady
  BY <1>2, <1>7 DEF CommitSource, CommitDerived
<1>8. CASE TakeFreeable \/ UNCHANGED hostVars
  BY <1>3, <1>8 DEF TakeFreeable, hostVars
<1>9. CASE ResetRows
  BY <1>2, <1>9 DEF ResetRows, Resettable
<1> QED BY <1>4, <1>5, <1>6, <1>7, <1>8, <1>9 DEF HostKeeps, HostCalls

LEMMA TableSteady ==
  ASSUME LeaseInv, Next
  PROVE  \/ Steady
         \/ \E h \in LeaseHolders : ReleaseLease(h) \/ \E k \in KeyOrNone : AcquireLease(h, k)
<1>1. /\ Inv /\ HostTypeOK /\ SeenIsGone
      /\ \A s \in Slots : rows[s].pins # 0 => Filled(s) /\ rows[s].host \in live
  BY PinnedHeld DEF LeaseInv, LiveInv, PlaceInv, OrderInv, Inv, TypeOK
<1>2. ASSUME NEW g, NEW h \in KeyOrNone, NEW k, ClearStaleHost(g, h, k), SeenGone(h) PROVE Steady
  <2>1. h \notin live
    BY <1>1, <1>2 DEF SeenIsGone
  <2>2. /\ lease' = lease
        /\ \A s \in Slots : /\ rows[s].host # h => rows'[s] = rows[s]
                           /\ rows'[s].pins = rows[s].pins
    BY <1>1, <1>2 DEF ClearStaleHost, HostTypeOK, Row
  <2> QED BY <1>1, <2>1, <2>2 DEF Steady, RowSteady
<1>3. CASE CascadeBegin \/ CascadeFinish
  BY <1>3 DEF CascadeBegin, CascadeFinish, FenceSource, FinishSource, Steady, RowSteady
<1>4. CASE ServiceStore
  <2>1. /\ lease' = lease
        /\ \A s \in Slots : /\ Filled(s) => rows'[s] = rows[s]
                           /\ rows'[s].pins = rows[s].pins
    BY <1>1, <1>4 DEF ServiceStore, StoreHost, Storable, HostTypeOK, Row
  <2> QED BY <1>1, <2>1 DEF Steady, RowSteady
<1> QED BY <1>1, <1>2, <1>3, <1>4, TableSections, KeepsSteady

(* A lease is taken on a row behind no fence, so its host is live. *)
LEMMA AcquireHolds ==
  ASSUME LeaseInv, Next, NEW h \in LeaseHolders, NEW k \in KeyOrNone, AcquireLease(h, k)
  PROVE  LeasesHold'
<1>1. /\ LiveInv /\ LeasesHold /\ HostTypeOK /\ HostsLive /\ FreeRowsEmpty
      /\ lease[h] = NoLease /\ fences' = fences
  BY DEF LeaseInv, LiveInv, PlaceInv, OrderInv, Inv, TypeOK, Custodians, AcquireLease
<1>2. PICK s \in Slots :
         /\ Filled(s) /\ ~Fenced(rows[s].source)
         /\ rows' = [rows EXCEPT ![s].pins = @ + 1]
         /\ lease' = [lease EXCEPT ![h] = LeaseOn(s)]
  BY DEF AcquireLease, Leasable, FirstOf
<1>3. \A t \in Slots : /\ rows'[t].group = rows[t].group /\ rows'[t].host = rows[t].host
                       /\ rows'[t].source = rows[t].source
                       /\ rows'[t].generation = rows[t].generation
                       /\ rows'[t].pins = IF t = s THEN rows[t].pins + 1 ELSE rows[t].pins
                       /\ rows[t].pins \in Nat
  BY <1>1, <1>2 DEF HostTypeOK, Row
<1>4. \A i \in LeaseHolders : lease'[i] = IF i = h THEN LeaseOn(s) ELSE lease[i]
  BY <1>1, <1>2 DEF HostTypeOK
<1>5. h \notin On(s) /\ \A t \in Slots : On(t)' = IF t = s THEN On(s) \cup {h} ELSE On(t)
  BY <1>1, <1>4 DEF On, NoLease, LeaseOn, NoSlot, Slots
<1>6. ASSUME NEW t \in Slots PROVE rows'[t].pins = Cardinality(On(t)')
  BY <1>1, <1>3, <1>5, OnFinite, FS_AddElement DEF LeasesHold
<1>7. Occupied(s) /\ rows[s].host \in live'
  BY <1>1, <1>2, PinnedStaysLive DEF HostsLive, FreeRowsEmpty, Contains
<1>8. ASSUME NEW i \in LeaseHolders, lease'[i].slot # NoSlot
      PROVE  LeaseValid(i)' /\ Filled(lease[i].slot)' /\ Contains(lease[i].host)'
  <2>1. CASE i = h
    <3>1. lease'[i] = LeaseOn(s)
      BY <1>4, <2>1
    <3>2. /\ lease'[i].slot = s /\ lease'[i].group = rows[s].group /\ lease'[i].host = rows[s].host
          /\ lease'[i].source = rows[s].source /\ lease'[i].generation = rows[s].generation
      BY <3>1 DEF LeaseOn
    <3>3. rows'[s].pins # 0
      BY <1>3
    <3> QED
      BY <1>2, <1>3, <1>7, <1>8, <3>2, <3>3
         DEF LeaseValid, SameRow, Pinned, Occupied, Filled, Contains
  <2>2. CASE i # h
    <3>1. lease'[i] = lease[i] /\ Pinned(lease[i])
      BY <1>4, <1>8, <2>2 DEF Pinned
    <3>2. PICK t \in Slots : t = lease[i].slot
      BY <1>1, <3>1 DEF HostTypeOK, Pinned, Lease
    <3>3. /\ LeaseValid(i) /\ Filled(t) /\ rows[t].pins # 0
          /\ lease[i].host = rows[t].host /\ rows[t].host \in live
      BY <1>1, <3>1, <3>2 DEF LeasesHold, LeaseValid, SameRow, Contains
    <3>4. rows[t].host \in live' /\ rows'[t].pins # 0
      BY <1>1, <1>3, <3>3, PinnedStaysLive
    <3> QED
      BY <1>3, <3>1, <3>2, <3>3, <3>4
         DEF LeaseValid, SameRow, Pinned, Occupied, Filled, Contains
  <2> QED BY <2>1, <2>2
<1> QED BY <1>6, <1>8 DEF LeasesHold, Pinned

(* A release takes the row's last pin only if no other lease is on it. *)
LEMMA ReleaseHolds ==
  ASSUME LeaseInv, Next, NEW h \in LeaseHolders, ReleaseLease(h)
  PROVE  LeasesHold'
<1>1. LiveInv /\ LeasesHold /\ HostTypeOK
  BY DEF LeaseInv, LiveInv, PlaceInv, OrderInv, Inv, TypeOK
<1>2. Pinned(lease[h]) => SameRow(lease[h]) /\ lease[h].slot \in Slots
  BY <1>1 DEF LeasesHold, LeaseValid, HostTypeOK, Pinned, Lease
<1>3. ASSUME NEW t \in Slots
      PROVE  /\ rows'[t].group = rows[t].group /\ rows'[t].host = rows[t].host
             /\ rows'[t].source = rows[t].source /\ rows'[t].generation = rows[t].generation
             /\ rows'[t].pins = IF t = lease[h].slot THEN rows[t].pins - 1 ELSE rows[t].pins
             /\ rows[t].pins \in Nat
  BY <1>1, <1>2 DEF ReleaseLease, SameRow, HostTypeOK, Row, Pinned, NoSlot, Slots
<1>4. \A i \in LeaseHolders : lease'[i] = IF i = h THEN NoLease ELSE lease[i]
  BY <1>1 DEF ReleaseLease, HostTypeOK
<1>5. \A t \in Slots : On(t)' = On(t) \ {h} /\ (h \in On(t) <=> t = lease[h].slot)
  BY <1>4 DEF On, NoLease, NoSlot, Slots
<1>6. ASSUME NEW t \in Slots PROVE rows'[t].pins = Cardinality(On(t)')
  BY <1>1, <1>3, <1>5, OnFinite, FS_RemoveElement DEF LeasesHold
<1>7. ASSUME NEW i \in LeaseHolders, lease'[i].slot # NoSlot
      PROVE  LeaseValid(i)' /\ Filled(lease[i].slot)' /\ Contains(lease[i].host)'
  <2>1. i # h /\ lease'[i] = lease[i] /\ Pinned(lease[i])
    BY <1>4, <1>7 DEF Pinned, NoLease
  <2>2. PICK t \in Slots : t = lease[i].slot
    BY <1>1, <2>1 DEF HostTypeOK, Pinned, Lease
  <2>3. /\ LeaseValid(i) /\ Filled(t) /\ rows[t].pins # 0
        /\ lease[i].host = rows[t].host /\ rows[t].host \in live
    BY <1>1, <2>1, <2>2 DEF LeasesHold, LeaseValid, SameRow, Contains
  <2>4. rows[t].host \in live'
    BY <1>1, <2>3, PinnedStaysLive
  <2>5. rows'[t].pins # 0
    <3>1. i \in On(t) \ {h}
      BY <2>1, <2>2 DEF On
    <3>2. IsFiniteSet(On(t) \ {h})
      BY OnFinite, FS_RemoveElement
    <3> QED BY <1>5, <1>6, <3>1, <3>2, FS_EmptySet
  <2> QED
    BY <1>3, <2>1, <2>2, <2>3, <2>4, <2>5
       DEF LeaseValid, SameRow, Pinned, Occupied, Filled, Contains
<1> QED BY <1>6, <1>7 DEF LeasesHold, Pinned

LEMMA InitLeases == Init => LeaseInv
<1> SUFFICES ASSUME Init PROVE LeaseInv
  OBVIOUS
<1>1. \A s \in Slots : On(s) = {}
  BY DEF Init, HostInit, On, NoLease, NoSlot, Slots
<1>2. LeasesHold
  BY <1>1, FS_EmptySet DEF Init, HostInit, NoLease, FreeRow, LeasesHold, Pinned
<1> QED BY <1>2, InitLive DEF LeaseInv

LEMMA NextLeases == LeaseInv /\ [Next]_vars => LeaseInv'
<1>1. ASSUME LeaseInv, Next PROVE LeaseInv'
  BY <1>1, NextLive, TableSteady, SteadyHolds, AcquireHolds, ReleaseHolds DEF LeaseInv
<1>2. ASSUME LeaseInv, UNCHANGED vars PROVE LeaseInv'
  BY <1>2, NextLive
     DEF LeaseInv, vars, recordVars, hostVars, LeasesHold, LeaseValid, SameRow, Pinned, Occupied,
         Filled, Contains, On
<1> QED BY <1>1, <1>2

(* While a lease is out its row keeps the identity, host and source it      *)
(* copied and the host stays committed, whatever evictions, claims,         *)
(* migrations, cleanups and retirements run beside it; and the pin count is *)
(* the number of leases, so the last release unpins the row                 *)
(* (acquire_, validate_ and release_host_activity_lineage of                *)
(* group_host_sessions.cpp, held over build, commit and copy of a snapshot).*)
THEOREM PinsProtect == Spec => []PinsProtectRows
<1>1. LeaseInv => PinsProtectRows
  BY DEF LeaseInv, LeasesHold, LeaseValid, On, PinsProtectRows
<1> QED BY <1>1, InitLeases, NextLeases, PTL DEF Spec
=============================================================================
