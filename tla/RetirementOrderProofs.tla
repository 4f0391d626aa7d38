----------------------- MODULE RetirementOrderProofs ------------------------
(***************************************************************************)
(* The order of retirements: a record leaves State only after every record *)
(* derived from it, for every number of connections, callers, rows, groups *)
(* and record ids and every capacity.                                      *)
(***************************************************************************)
EXTENDS ActivityRetirementProofs

USE DEF KeyOrNone, NoKey

(***************************************************************************)
(* The host-session table                                                  *)
(***************************************************************************)
(* What a fence promises of its source: no row is pinned on a host derived *)
(* from it, and, once the table committed the source, no host is left.     *)
Quiet(k) == \A s \in Slots : rows[s].source = k /\ Filled(s) => rows[s].pins = 0
Emptied(k) == /\ \A s \in Slots : rows[s].source = k => ~Filled(s)
              /\ \A e \in evicted : e.source # k

(* A record the table answers for. *)
Hosted(k) == \/ \E s \in Slots : rows[s].host = k
             \/ \E e \in evicted : e.host = k

FreeRowsEmpty == \A s \in Slots : ~Occupied(s) => ~Filled(s)

(* What a critical section leaves of a row, if it leaves it a host: all but *)
(* its pins, and those too if the source of the row is fenced.              *)
RowKept(s) ==
    rows'[s].host # NoKey =>
        /\ rows'[s].host = rows[s].host
        /\ rows'[s].group = rows[s].group
        /\ rows'[s].source = rows[s].source
        /\ Fenced(rows[s].source) /\ rows[s].pins = 0 => rows'[s].pins = 0

(* A host only reaches the evicted list from a row that mirrored it, behind *)
(* no fence, and that lets it go.                                           *)
EvictedFromRows ==
    \A e \in evicted' \ evicted :
        /\ ~Fenced(e.source)
        /\ \E s \in Slots : /\ Filled(s) /\ rows[s].host = e.host /\ rows[s].source = e.source
                            /\ rows'[s].host = NoKey

Kept == fences' = fences /\ EvictedFromRows /\ \A s \in Slots : RowKept(s)

LEMMA ClearKeeps ==
  ASSUME NEW S, ClearRows(S)
  PROVE  \A s \in Slots : RowKept(s)
BY DEF ClearRows, RowKept, FreeRow

LEMMA ClaimKeeps ==
  ASSUME HostTypeOK, NEW g \in GroupOrNone, NEW k \in KeyOrNone, ClaimRow(g, k)
  PROVE  Kept
<1> USE DEF HostTypeOK
<1>1. CASE ClaimRefuse(g, k)
  BY <1>1 DEF ClaimRefuse, hostVars, Kept, RowKept, EvictedFromRows
<1>2. CASE ClaimExisting(g, k)
  <2>1. PICK s \in Slots : rows' = [rows EXCEPT ![s].source =
                                       IF ~Filled(s) /\ k # NoKey THEN k ELSE @]
    BY <1>2 DEF ClaimExisting, FirstOf, Named
  <2>2. \A t \in Slots : RowKept(t)
    BY <2>1 DEF RowKept, Filled, Row
  <2> QED BY <1>2, <2>2 DEF ClaimExisting, Kept, EvictedFromRows
<1>3. ASSUME NEW s \in Slots, NewRow(s, g, k)
      PROVE  \A t \in Slots : RowKept(t)
  BY <1>3 DEF NewRow, RowKept, FreeRow
<1>4. CASE ClaimFree(g, k)
  BY <1>3, <1>4 DEF ClaimFree, FirstOf, FreeSlots, Kept, EvictedFromRows
<1>5. CASE ClaimEvicting(g, k)
  <2>1. PICK s \in Slots :
           /\ NewRow(s, g, k) /\ ~Fenced(rows[s].source)
           /\ evicted' = evicted \cup
                IF Filled(s) THEN {[host |-> rows[s].host, source |-> rows[s].source]} ELSE {}
    BY <1>5 DEF ClaimEvicting, Victims
  <2>2. rows'[s].host = NoKey
    BY <2>1 DEF NewRow, FreeRow
  <2>3. EvictedFromRows
    BY <2>1, <2>2 DEF EvictedFromRows
  <2> QED BY <1>3, <1>5, <2>1, <2>3 DEF ClaimEvicting, Kept
<1> QED BY <1>1, <1>2, <1>4, <1>5 DEF ClaimRow

LEMMA LeaseKeeps ==
  ASSUME HostTypeOK, NEW h \in LeaseHolders
  PROVE  /\ \A k \in KeyOrNone : AcquireLease(h, k) => Kept
         /\ ReleaseLease(h) => Kept
<1> USE DEF HostTypeOK, Kept, EvictedFromRows
<1>1. ASSUME NEW k \in KeyOrNone, AcquireLease(h, k) PROVE Kept
  <2>1. PICK s \in Slots : /\ ~Fenced(rows[s].source)
                           /\ rows' = [rows EXCEPT ![s].pins = @ + 1]
    BY <1>1 DEF AcquireLease, Leasable, FirstOf
  <2>2. \A t \in Slots : RowKept(t)
    BY <2>1 DEF RowKept, Row
  <2> QED BY <1>1, <2>2 DEF AcquireLease
<1>2. ASSUME ReleaseLease(h) PROVE Kept
  <2>1. CASE SameRow(lease[h])
    <3>1. /\ lease[h].slot \in Slots
          /\ rows[lease[h].slot].pins # 0
          /\ rows' = [rows EXCEPT ![lease[h].slot].pins = @ - 1]
      BY <1>2, <2>1 DEF ReleaseLease, SameRow, Pinned, Lease
    <3>2. \A t \in Slots : RowKept(t)
      BY <3>1 DEF RowKept, Row
    <3> QED BY <1>2, <3>2 DEF ReleaseLease
  <2>2. CASE ~SameRow(lease[h])
    BY <1>2, <2>2 DEF ReleaseLease, RowKept
  <2> QED BY <2>1, <2>2
<1> QED BY <1>1, <1>2

LEMMA MovesKeep ==
  ASSUME HostTypeOK, HostMoves \/ UNCHANGED hostVars
  PROVE  Kept
<1> USE DEF HostTypeOK
<1>1. ASSUME NEW S, ClearRows(S), fences' = fences, evicted' \subseteq evicted PROVE Kept
  BY <1>1, ClearKeeps DEF Kept, EvictedFromRows
<1>2. ASSUME NEW g \in GroupOrNone, NEW k \in KeyOrNone,
             \/ ClaimRow(g, k) \/ DropUnfilledClaim(g, k) \/ DropStaleClaim(g, k)
             \/ \E h \in KeyOrNone : ClearStaleHost(g, h, k)
      PROVE  Kept
  <2>1. CASE DropUnfilledClaim(g, k) \/ DropStaleClaim(g, k)
    BY <1>1, <2>1 DEF DropUnfilledClaim, DropStaleClaim
  <2>2. ASSUME NEW h \in KeyOrNone, ClearStaleHost(g, h, k) PROVE Kept
    BY <2>2 DEF ClearStaleHost, Kept, RowKept, EvictedFromRows, Row
  <2> QED BY <1>2, <2>1, <2>2, ClaimKeeps
<1>3. ASSUME NEW g \in Groups, NEW m \in Groups, AliasRow(g, m) PROVE Kept
  <2>1. PICK s \in Slots : rows' = [rows EXCEPT ![s].alias = m]
    BY <1>3 DEF AliasRow, LastOf, Named
  <2>2. \A t \in Slots : RowKept(t)
    BY <2>1 DEF RowKept, Row
  <2> QED BY <1>3, <2>2 DEF AliasRow, Kept, EvictedFromRows
<1>4. CASE TakeFreeable
  BY <1>4 DEF TakeFreeable, Kept, RowKept, EvictedFromRows
<1>5. CASE ResetRows
  BY <1>1, <1>5 DEF ResetRows
<1>6. ASSUME NEW k \in Keys, CommitSource(k) \/ \E d : CommitDerived(k, d) PROVE Kept
  BY <1>1, <1>6 DEF CommitSource, CommitDerived
<1>7. CASE UNCHANGED hostVars
  BY <1>7 DEF hostVars, Kept, RowKept, EvictedFromRows
<1> QED BY <1>2, <1>3, <1>4, <1>5, <1>6, <1>7, LeaseKeeps DEF HostMoves, HostKeeps, HostCalls

(* A fence keeps its promise, and no record becomes the table's, as long as *)
(* the table's critical sections leave hosts alone.                         *)
LEMMA KeptPromises ==
  ASSUME Kept, HostTypeOK, NEW k \in Keys
  PROVE  /\ Fenced(k) /\ Quiet(k) => Quiet(k)'
         /\ Fenced(k) /\ Emptied(k) => Emptied(k)'
         /\ Hosted(k)' => Hosted(k)
         /\ FreeRowsEmpty => FreeRowsEmpty'
<1> USE DEF Kept, RowKept, EvictedFromRows, Filled, Occupied, Fenced
<1>1. Fenced(k) /\ Quiet(k) => Quiet(k)'
  BY DEF Quiet
<1>2. Fenced(k) /\ Emptied(k) => Emptied(k)'
  BY DEF Emptied
<1>3. Hosted(k)' => Hosted(k)
  <2>1. k # NoKey
    BY DEF Keys
  <2>2. ASSUME NEW s \in Slots, rows'[s].host = k PROVE Hosted(k)
    BY <2>1, <2>2 DEF Hosted
  <2>3. ASSUME NEW e \in evicted', e.host = k PROVE Hosted(k)
    BY <2>3 DEF Hosted
  <2> QED BY <2>2, <2>3 DEF Hosted
<1>4. FreeRowsEmpty => FreeRowsEmpty'
  BY DEF FreeRowsEmpty
<1> QED BY <1>1, <1>2, <1>3, <1>4

(* The service thread stores a host behind no fence, in a row that is there. *)
LEMMA StorePromises ==
  ASSUME HostTypeOK, NEW g \in Groups, NEW src \in KeyOrNone, NEW h \in Keys,
         StoreHost(g, src, h), NEW k \in Keys
  PROVE  /\ fences' = fences
         /\ Fenced(k) /\ Quiet(k) => Quiet(k)'
         /\ Fenced(k) /\ Emptied(k) => Emptied(k)'
         /\ Hosted(k)' => Hosted(k) \/ k = h
         /\ FreeRowsEmpty => FreeRowsEmpty'
<1>1. /\ fences' = fences /\ evicted' = evicted
      /\ \A s \in Slots :
            rows'[s] = IF s \in Storable(g, src) THEN [rows[s] EXCEPT !.host = h] ELSE rows[s]
  BY DEF StoreHost
<1>2. \A s \in Slots :
         /\ rows'[s].host = IF s \in Storable(g, src) THEN h ELSE rows[s].host
         /\ rows'[s].source = rows[s].source
         /\ rows'[s].group = rows[s].group
         /\ rows'[s].pins = rows[s].pins
  BY <1>1 DEF HostTypeOK, Row
<1>3. \A s \in Storable(g, src) : rows[s].group = g /\ ~Fenced(rows[s].source)
  BY DEF Storable
<1> USE DEF Filled, Occupied, Fenced
<1>4. Fenced(k) /\ Quiet(k) => Quiet(k)'
  BY <1>1, <1>2, <1>3 DEF Quiet
<1>5. Fenced(k) /\ Emptied(k) => Emptied(k)'
  BY <1>1, <1>2, <1>3 DEF Emptied
<1>6. Hosted(k)' => Hosted(k) \/ k = h
  BY <1>1, <1>2 DEF Hosted
<1>7. FreeRowsEmpty => FreeRowsEmpty'
  BY <1>2, <1>3, HostAssumption DEF FreeRowsEmpty
<1> QED BY <1>1, <1>4, <1>5, <1>6, <1>7
(***************************************************************************)
(* Whose records: what a connection owns is in nobody else's hands.        *)
(***************************************************************************)
Owner(c, k) == sess[c].owns /\ sess[c].instance = k

(* The service thread has the record in hand, or the record is to retire.   *)
Serviced(k) == k \in sv.freed \/ (sv.pc = "store" /\ sv.key = k)
Doomed(k) == \/ k \in pending \cup draining \cup cascade.visited
             \/ \E j \in Keys : k \in cascade.todo[j]
Held(k) == Hosted(k) \/ Serviced(k) \/ Doomed(k)

OwnersApart ==
    /\ \A c \in Sessions : sess[c].owns => sess[c].instance \in Keys
    /\ \A c \in Sessions, k \in Keys : Owner(c, k) => ~Held(k)
    /\ \A c, d \in Sessions, k \in Keys : Owner(c, k) /\ Owner(d, k) => c = d

(* Ids are handed out once, in order. *)
Issued(k) == k \in live \/ Held(k) \/ \E c \in Sessions : Owner(c, k)
IssuedInOrder ==
    /\ \A k \in Keys : Issued(k) => k < nextKey
    /\ \A p \in Planners : plan[p].current => plan[p].key = nextKey

(* A claimed row is filled under the name it was picked by. *)
ServiceNames ==
    sv.pc \in {"inherit", "drop", "prepare", "commit", "store"} => sv.group \in Groups

Custodians == OwnersApart /\ IssuedInOrder /\ ServiceNames /\ FreeRowsEmpty

(* A connection becomes an owner only of a record just created for it. *)
LEMMA OwnersFresh ==
  ASSUME Inv, Next, NEW c \in Sessions, sess'[c].owns
  PROVE  \/ sess[c].owns /\ sess'[c].instance = sess[c].instance
         \/ AllocateCommit /\ sess'[c].instance = plan[BapEvent].key
<1>1. sess \in [Sessions -> Session]
  BY DEF Inv, TypeOK
<1>2. CASE sess' = sess
  BY <1>2
<1>3. ASSUME NEW d \in Sessions, NEW phase,
             sess' = [sess EXCEPT ![d] = [ClosedSession EXCEPT !.phase = phase]]
      PROVE  sess[c].owns /\ sess'[c].instance = sess[c].instance
  BY <1>1, <1>3 DEF ClosedSession
<1>4. ASSUME NEW d \in Sessions, sess' = [sess EXCEPT ![d] = Refreshed(d)]
      PROVE  sess[c].owns /\ sess'[c].instance = sess[c].instance
  BY <1>1, <1>4 DEF Refreshed, Unbound, Session
<1>5. CASE EventBegins
  <2>1. ASSUME NEW d \in Sessions, NEW phase, Detach(d, phase, "tail")
        PROVE  sess[c].owns /\ sess'[c].instance = sess[c].instance
    BY <1>3, <2>1 DEF Detach
  <2>2. ASSUME NEW d \in Sessions, NEW pc, NEW k, NEW g, NEW defers, Frame(d, pc, k, g, defers)
        PROVE  sess[c].owns /\ sess'[c].instance = sess[c].instance
    BY <1>4, <2>2 DEF Frame
  <2> QED
    BY <1>2, <1>4, <1>5, <2>1, <2>2
       DEF EventBegins, Open, Close, Hello, Allocate, Join, Poll, Report, Identify, Shutdown
<1>6. CASE EventSteps
  <2>1. CASE ShutdownSession
    BY <1>1, <2>1 DEF ShutdownSession, ClosedSession, Inv, TypeOK, Event
  <2>2. CASE AllocateCommit
    BY <1>1, <2>2 DEF AllocateCommit
  <2>3. CASE JoinPublish
    BY <1>1, <2>3 DEF JoinPublish, Session
  <2> QED
    BY <1>2, <1>6, <2>1, <2>2, <2>3
       DEF EventSteps, ShutdownDone, Retired, AllocateReject, JoinDirect, JoinLease, JoinRefused,
           JoinDiscard, Deferred, IdentityClaim, ReportOwned, ReportBorrowed, ReportStale,
           ReportHeld, ReportAcquire, ReportLost, ReportCommit, ReportDiscard, EventRelease,
           EventReleased, Tail, EventDrained, bapVars
<1>7. CASE CascadeNext
  <2>1. CASE CascadeRetire
    BY <1>1, <2>1 DEF CascadeRetire, Invalidated, Unbound, Session
  <2> QED
    BY <1>2, <1>7, <2>1 DEF CascadeNext, CascadeBegin, CascadeChild, CascadeDerived, CascadeSource,
                            CascadeFinish
<1>8. ASSUME NEW a \in Claimants, ClaimSteps(a) PROVE sess' = sess
  BY <1>8 DEF ClaimSteps, ClaimTake, ClaimRecheck, ClaimDrop, ClaimPublish, ClaimClear, bapVars
<1>9. ASSUME ServiceBegins \/ ServiceSteps PROVE sess' = sess
  BY <1>9
     DEF ServiceBegins, ServiceSteps, Slice, Reset, Lookup, Alias, ServiceTake, ServiceRetire,
         ServiceUnlock, ServiceFreed, ServicePick, ServiceInherit, ServiceDrop, ServicePrepare,
         ServiceCommit, ServiceReject, ServiceStore, LookupCheck, LookupClear, bapVars
<1>10. ASSUME NEW a \in Callers, CallerClaim(a) \/ CallerLease(a) \/ CallerSteps(a)
       PROVE  sess' = sess
  BY <1>10 DEF CallerClaim, CallerLease, CallerSteps, CallerRelease, CallerRetry, CallerDrained, bapVars
<1>11. ASSUME DrainRoot \/ Revise PROVE sess' = sess
  BY <1>11 DEF DrainRoot, Revise, bapVars
<1> QED BY <1>2, <1>5, <1>6, <1>7, <1>8, <1>9, <1>10, <1>11 DEF Next

(* A retirement that starts puts nothing but its root on the list. *)
LEMMA StartDooms ==
  ASSUME NEW r, cascade' = Start(r), pending' \cup draining' \subseteq pending \cup draining,
         NEW k \in Keys, Doomed(k)'
  PROVE  Doomed(k) \/ k = r
BY DEF Doomed, Start, NoCascade

LEMMA OwnedOwner ==
  ASSUME NEW c \in Sessions, NEW k \in Keys, Owned(c) = k
  PROVE  Owner(c, k)
BY DEF Owned, Owner, Keys

(* What a cascade walks are the hosts of the table. *)
LEMMA DerivedHosted ==
  ASSUME NEW j, NEW k \in DerivedHosts(j)
  PROVE  Hosted(k)
BY DEF DerivedHosts, Hosted

LEMMA CascadeDooms ==
  ASSUME Inv, CascadeNext, NEW k \in Keys, Doomed(k)'
  PROVE  Doomed(k) \/ (CascadeBegin /\ Hosted(k))
<1> DEFINE Goal == Doomed(k) \/ (CascadeBegin /\ Hosted(k))
<1>1. /\ cascade \in Cascade /\ cascade.at \in Keys /\ cascade.root \in cascade.visited
      /\ draining' = draining
  BY FrameIsRecord
     DEF Inv, TypeOK, FramesOK, Retiring, CascadeNext, CascadeBegin, CascadeChild, CascadeDerived,
         CascadeSource, CascadeRetire, CascadeFinish
<1>2. ASSUME Blocked PROVE Goal
  BY <1>1, <1>2 DEF Blocked, Queued, Doomed, NoCascade
<1>3. CASE CascadeBegin
  <2>1. ASSUME pending' = pending,
               cascade' = [cascade EXCEPT !.step = "children",
                                          !.todo[cascade.at] = DerivedHosts(cascade.at)]
        PROVE  Goal
    <3>1. /\ cascade'.visited = cascade.visited
          /\ \A j \in Keys : cascade'.todo[j] = IF j = cascade.at THEN DerivedHosts(cascade.at)
                                                 ELSE cascade.todo[j]
      BY <1>1, <2>1 DEF Cascade
    <3> QED BY <1>1, <1>3, <2>1, <3>1, DerivedHosted DEF Doomed
  <2> QED BY <1>2, <1>3, <2>1 DEF CascadeBegin
<1>4. CASE CascadeChild
  <2>1. PICK j \in cascade.todo[cascade.at] :
          IF j \in cascade.visited
          THEN /\ cascade' = [cascade EXCEPT !.step = "derived", !.child = j]
               /\ UNCHANGED pending
          ELSE IF Cardinality(cascade.visited) >= CascadeCapacity
          THEN Blocked
          ELSE /\ cascade' = [cascade EXCEPT !.step = "begin", !.at = j,
                                             !.visited = @ \cup {j},
                                             !.parent[j] = cascade.at]
               /\ UNCHANGED pending
    BY <1>4 DEF CascadeChild
  <2>2. CASE Blocked
    BY <1>2, <2>2
  <2>3. CASE ~Blocked
    <3>1. /\ pending' = pending
          /\ cascade'.visited \subseteq cascade.visited \cup {j}
          /\ cascade'.todo = cascade.todo
      BY <1>1, <2>1, <2>3 DEF Cascade
    <3> QED BY <1>1, <2>1, <3>1 DEF Doomed
  <2> QED BY <2>2, <2>3
<1>5. CASE CascadeDerived
  <2>1. /\ pending' = pending /\ cascade'.visited = cascade.visited
        /\ \A j \in Keys : cascade'.todo[j] \subseteq cascade.todo[j]
    BY <1>1, <1>5 DEF CascadeDerived, Cascade
  <2> QED BY <1>1, <2>1 DEF Doomed
<1>6. CASE CascadeSource \/ CascadeRetire
  BY <1>1, <1>6 DEF CascadeSource, CascadeRetire, Doomed, Cascade
<1>7. CASE CascadeFinish
  BY <1>1, <1>7 DEF CascadeFinish, Doomed, NoCascade, Cascade
<1> QED BY <1>3, <1>4, <1>5, <1>6, <1>7 DEF CascadeNext

(* Who gives up a record for retirement holds it no longer.                 *)
GivesUp(k) == \/ k \in draining
              \/ \E c \in Sessions : Owner(c, k) /\ ~Owner(c, k)'
              \/ ServiceRetire /\ Serviced(k) /\ ~Serviced(k)'

(* Outside a cascade's own steps nothing comes up for retirement but the    *)
(* root of one that starts, out of its custodian's hands.                   *)
LEMMA RetirementsStart ==
  ASSUME Inv, Next, Custodians, ~CascadeNext
  PROVE  /\ pending' \cup draining' \subseteq pending \cup draining
         /\ \/ cascade' = cascade
            \/ \E r \in KeyOrNone : cascade' = Start(r) /\ (r # NoKey => GivesUp(r))
<1> DEFINE Goal == /\ pending' \cup draining' \subseteq pending \cup draining
                   /\ \/ cascade' = cascade
                      \/ \E r \in KeyOrNone : cascade' = Start(r) /\ (r # NoKey => GivesUp(r))
<1>1. sess \in [Sessions -> Session]
  BY DEF Inv, TypeOK
<1>2. ASSUME UNCHANGED <<pending, draining, cascade>> PROVE Goal
  BY <1>2
<1>3. ASSUME draining' = pending, pending' = {}, cascade' = cascade PROVE Goal
  BY <1>3
<1>4. ASSUME cascade' = Start(NoKey), UNCHANGED <<pending, draining>> PROVE Goal
  BY <1>4
<1>5. ASSUME NEW c \in Sessions, cascade' = Start(Owned(c)), UNCHANGED <<pending, draining>>,
             \A k \in Keys : Owner(c, k) => ~Owner(c, k)'
      PROVE  Goal
  <2>1. PICK r \in KeyOrNone : r = Owned(c)
    BY <1>1 DEF Owned, Session
  <2>2. r # NoKey => GivesUp(r)
    BY <1>5, <2>1, OwnedOwner DEF GivesUp
  <2> QED BY <1>5, <2>1, <2>2
<1>6. CASE EventBegins
  <2>1. ASSUME NEW c \in Sessions, Open(c) \/ Close(c) \/ Hello(c) PROVE Goal
    <3>1. PICK phase : Detach(c, phase, "tail")
      BY <2>1 DEF Open, Close, Hello
    <3>2. UNCHANGED <<pending, draining>>
      BY <2>1 DEF Open, Close, Hello
    <3> QED BY <1>1, <1>5, <3>1, <3>2 DEF Detach, ClosedSession, Owner
  <2> QED
    BY <1>2, <1>3, <1>6, <2>1
       DEF EventBegins, Allocate, Join, Poll, Report, Identify, Shutdown, Frame
<1>7. CASE EventSteps
  <2>1. CASE ShutdownSession
    <3>1. PICK c \in ev.todo : /\ sess' = [sess EXCEPT ![c] = ClosedSession]
                               /\ cascade' = Start(Owned(c))
      BY <2>1 DEF ShutdownSession
    <3>2. c \in Sessions
      BY DEF Inv, TypeOK, Event
    <3> QED BY <1>1, <1>5, <2>1, <3>1, <3>2 DEF ShutdownSession, ClosedSession, Owner
  <2>2. CASE AllocateCommit
    <3>1. PICK c \in Sessions : c = ev.session
      BY <2>2, EventSession DEF AllocateCommit, InEvent, InSession
    <3>2. plan[BapEvent].key = nextKey
      BY <2>2 DEF AllocateCommit, CommitSession, CanCommit, Custodians, IssuedInOrder, Planners
    <3>3. \A k \in Keys : Owner(c, k) => k < nextKey
      BY <3>1 DEF Custodians, IssuedInOrder, Issued
    <3>4. nextKey \in Nat
      BY DEF Inv, TypeOK, RecordsTypeOK
    <3>5. \A k \in Keys : Owner(c, k) => ~Owner(c, k)'
      BY <1>1, <2>2, <3>1, <3>2, <3>3, <3>4 DEF AllocateCommit, Owner, Keys
    <3>6. cascade' = Start(Owned(c)) \/ cascade' = Start(NoKey)
      BY <2>2, <3>1 DEF AllocateCommit, LeaseToRetire
    <3>7. UNCHANGED <<pending, draining>>
      BY <2>2 DEF AllocateCommit
    <3> QED BY <1>4, <1>5, <3>1, <3>5, <3>6, <3>7
  <2>3. CASE JoinPublish
    <3>1. PICK c \in Sessions : c = ev.session
      BY <2>3, EventSession DEF JoinPublish, InEvent, InSession
    <3>2. CASE sess[c].instance = ev.key
      BY <1>4, <2>3, <3>1, <3>2 DEF JoinPublish, LeaseToRetire
    <3>3. CASE sess[c].instance # ev.key
      <4>1. \A k \in Keys : Owner(c, k) => ~Owner(c, k)'
        BY <1>1, <2>3, <3>1, <3>3 DEF JoinPublish, Owner
      <4>2. cascade' = Start(Owned(c))
        BY <2>3, <3>1, <3>3 DEF JoinPublish, LeaseToRetire
      <4> QED BY <1>5, <2>3, <3>1, <4>1, <4>2 DEF JoinPublish
    <3> QED BY <3>2, <3>3
  <2> QED
    BY <1>2, <1>3, <1>7, <2>1, <2>2, <2>3
       DEF EventSteps, ShutdownDone, Retired, AllocateReject, JoinDirect, JoinLease, JoinRefused,
           JoinDiscard, Deferred, IdentityClaim, ReportOwned, ReportBorrowed, ReportStale,
           ReportHeld, ReportAcquire, ReportLost, ReportCommit, ReportDiscard, EventRelease,
           EventReleased, Tail, EventDrained, bapVars
<1>8. ASSUME NEW a \in Claimants, ClaimSteps(a) PROVE Goal
  BY <1>2, <1>8 DEF ClaimSteps, ClaimTake, ClaimRecheck, ClaimDrop, ClaimPublish, ClaimClear, bapVars
<1>9. ASSUME ServiceBegins \/ ServiceSteps PROVE Goal
  <2>1. CASE ServiceRetire
    <3>1. PICK k \in sv.freed : /\ cascade' = Start(k)
                                /\ sv' = [sv EXCEPT !.pc = "freeing", !.freed = @ \ {k}]
      BY <2>1 DEF ServiceRetire
    <3>2. k \in Keys /\ sv'.pc = "freeing" /\ sv'.freed = sv.freed \ {k}
      BY <3>1 DEF Inv, TypeOK, ServiceCall
    <3>3. GivesUp(k)
      BY <2>1, <3>1, <3>2 DEF GivesUp, Serviced
    <3> QED BY <2>1, <3>1, <3>2, <3>3 DEF ServiceRetire
  <2> QED
    BY <1>2, <1>9, <2>1
       DEF ServiceBegins, ServiceSteps, Slice, Reset, Lookup, Alias, ServiceTake,
           ServiceUnlock, ServiceFreed, ServicePick, ServiceInherit, ServiceDrop, ServicePrepare,
           ServiceCommit, ServiceReject, ServiceStore, LookupCheck, LookupClear, bapVars
<1>10. ASSUME NEW a \in Callers, CallerClaim(a) \/ CallerLease(a) \/ CallerSteps(a) PROVE Goal
  BY <1>2, <1>3, <1>10
     DEF CallerClaim, CallerLease, CallerSteps, CallerRelease, CallerRetry, CallerDrained, bapVars
<1>11. CASE DrainRoot
  <2>1. PICK k \in draining : cascade' = Start(k) /\ draining' = draining \ {k}
    BY <1>11 DEF DrainRoot
  <2>2. k \in Keys /\ GivesUp(k)
    BY DEF Inv, TypeOK, GivesUp
  <2> QED BY <1>11, <2>1, <2>2 DEF DrainRoot
<1>12. CASE Revise
  BY <1>2, <1>12 DEF Revise, bapVars
<1> QED BY <1>6, <1>7, <1>8, <1>9, <1>10, <1>11, <1>12 DEF Next

(* A record comes up for retirement out of the table, or by being given up. *)
LEMMA DoomedSteps ==
  ASSUME Inv, Next, Custodians, NEW k \in Keys, Doomed(k)'
  PROVE  Doomed(k) \/ (CascadeBegin /\ Hosted(k)) \/ GivesUp(k)
<1>1. CASE CascadeNext
  BY <1>1, CascadeDooms
<1>2. CASE ~CascadeNext
  <2>1. /\ pending' \cup draining' \subseteq pending \cup draining
        /\ \/ cascade' = cascade
           \/ \E r \in KeyOrNone : cascade' = Start(r) /\ (r # NoKey => GivesUp(r))
    BY <1>2, RetirementsStart
  <2>2. CASE cascade' = cascade
    BY <2>1, <2>2 DEF Doomed
  <2>3. ASSUME NEW r \in KeyOrNone, cascade' = Start(r), r # NoKey => GivesUp(r)
        PROVE  Doomed(k) \/ GivesUp(k)
    BY <2>1, <2>3, StartDooms DEF Keys
  <2> QED BY <2>1, <2>2, <2>3
<1> QED BY <1>1, <1>2

(* Nobody but the service thread moves it. *)
LEMMA ServiceAlone ==
  ASSUME Next, ~ServiceBegins, ~ServiceSteps
  PROVE  sv' = sv
<1>1. ASSUME EventBegins \/ EventSteps PROVE sv' = sv
  BY <1>1
     DEF EventBegins, Open, Close, Hello, Allocate, Join, Poll, Report, Identify, Shutdown, Frame,
         EventSteps, ShutdownSession, ShutdownDone, Retired, AllocateCommit, AllocateReject,
         JoinDirect, JoinLease, JoinRefused, JoinPublish, JoinDiscard, Deferred, IdentityClaim,
         ReportOwned, ReportBorrowed, ReportStale, ReportHeld, ReportAcquire, ReportLost,
         ReportCommit, ReportDiscard, EventRelease, EventReleased, Tail, EventDrained
<1>2. ASSUME CascadeNext \/ DrainRoot \/ Revise PROVE sv' = sv
  BY <1>2
     DEF CascadeNext, CascadeBegin, CascadeChild, CascadeDerived, CascadeSource, CascadeRetire,
         CascadeFinish, DrainRoot, Revise, actorVars
<1>3. ASSUME NEW a \in Claimants, ClaimSteps(a) PROVE sv' = sv
  BY <1>3 DEF ClaimSteps, ClaimTake, ClaimRecheck, ClaimDrop, ClaimPublish, ClaimClear
<1>4. ASSUME NEW a \in Callers, CallerClaim(a) \/ CallerLease(a) \/ CallerSteps(a)
      PROVE  sv' = sv
  BY <1>4 DEF CallerClaim, CallerLease, CallerSteps, CallerRelease, CallerRetry, CallerDrained
<1> QED BY <1>1, <1>2, <1>3, <1>4 DEF Next

LEMMA IdleCall ==
  ASSUME sv' = NoCall
  PROVE  ServiceNames' /\ \A k : ~Serviced(k)'
BY DEF NoCall, ServiceNames, Serviced

LEMMA PickedCall ==
  ASSUME Inv, ServicePick
  PROVE  ServiceNames' /\ \A k : ~Serviced(k)'
<1>1. CASE sv' = NoCall
  BY <1>1, IdleCall
<1>2. CASE sv' # NoCall
  <2>1. PICK s \in Slots :
          /\ Occupied(s)
          /\ sv' = [NoCall EXCEPT !.pc = "inherit", !.group = rows[s].group,
                                  !.source = rows[s].source]
    BY <1>2 DEF ServicePick, Claimed, FirstOf
  <2>2. rows[s].group \in Groups
    BY <2>1 DEF Occupied, Inv, TypeOK, HostTypeOK, Row
  <2>3. sv'.pc = "inherit" /\ sv'.freed = {} /\ sv'.group = rows[s].group
    BY <2>1 DEF NoCall
  <2> QED BY <2>2, <2>3 DEF ServiceNames, Serviced
<1> QED BY <1>1, <1>2

(* The service thread takes records from the table, or creates them.        *)
Taken(k) == \/ ServiceTake /\ \E e \in Freeable : e.host = k
            \/ Reset /\ \E s \in Resettable : rows[s].host = k

LEMMA ServiceTakes ==
  ASSUME Inv, Next, NEW k \in Keys, Serviced(k)'
  PROVE  Serviced(k) \/ Taken(k) \/ (ServiceCommit /\ k = plan[Service].key)
<1> DEFINE Goal == Serviced(k) \/ Taken(k) \/ (ServiceCommit /\ k = plan[Service].key)
<1>1. sv \in ServiceCall /\ ServiceOK
  BY DEF Inv, TypeOK
<1>2. ASSUME sv' = sv PROVE Goal
  BY <1>2 DEF Held, Serviced
<1>3. ASSUME ServiceBegins PROVE Goal
  <2>1. CASE Reset
    BY <2>1 DEF Reset, NoCall, Serviced, Taken
  <2> QED
    BY <1>2, <1>3, <2>1
       DEF ServiceBegins, Slice, Lookup, Alias, NoCall, Serviced, actorVars
<1>4. ASSUME ServiceSteps PROVE Goal
  <2>1. CASE ServiceTake
    BY <1>1, <2>1 DEF ServiceTake, ServiceCall, Serviced, Taken
  <2>2. CASE ServiceRetire
    BY <1>1, <2>2 DEF ServiceRetire, ServiceCall, Serviced
  <2>3. CASE ServiceFreed
    BY <1>1, <2>3 DEF ServiceFreed, NoCall, ServiceCall, ServiceOK, Serviced
  <2>4. CASE ServiceCommit
    BY <1>1, <2>4 DEF ServiceCommit, ServiceCall, Serviced
  <2>5. CASE ServiceStore
    BY <1>1, <2>5 DEF ServiceStore, NoCall, Serviced
  <2>6. CASE ServiceUnlock \/ ServiceInherit \/ LookupCheck
    BY <1>1, <2>6 DEF ServiceUnlock, ServiceInherit, LookupCheck, NoCall, ServiceCall, Serviced
  <2>7. CASE ServicePrepare
    BY <1>1, <2>7, IdleCall DEF ServicePrepare, ServiceCall, Serviced
  <2>8. CASE ServiceDrop
    BY <2>8 DEF ServiceDrop, NoCall, Serviced
  <2>9. CASE ServiceReject \/ LookupClear
    BY <2>9, IdleCall DEF ServiceReject, LookupClear
  <2> QED
    BY <1>4, <2>1, <2>2, <2>3, <2>4, <2>5, <2>6, <2>7, <2>8, <2>9, PickedCall DEF ServiceSteps
<1> QED BY <1>2, <1>3, <1>4, ServiceAlone

(* The table's part of a step: fences keep what they promise, and the table *)
(* answers for no record but the one the service thread stores.             *)
LEMMA TablePromises ==
  ASSUME Inv, Next, Custodians, NEW k \in Keys
  PROVE  /\ fences' = fences \/ CascadeBegin \/ CascadeFinish
         /\ Fenced(k) /\ Quiet(k) => Quiet(k)'
         /\ Fenced(k) /\ Emptied(k) => Emptied(k)'
         /\ Hosted(k)' => Hosted(k) \/ (ServiceStore /\ Serviced(k) /\ ~Serviced(k)')
         /\ FreeRowsEmpty'
<1>1. HostTypeOK /\ FreeRowsEmpty
  BY DEF Inv, TypeOK, Custodians
<1>2. CASE HostMoves \/ UNCHANGED hostVars
  <2>1. Kept
    BY <1>1, <1>2, MovesKeep
  <2> QED BY <1>1, <2>1, KeptPromises DEF Kept
<1>3. CASE CascadeBegin \/ CascadeFinish
  <2>1. rows' = rows /\ evicted' = evicted
    BY <1>3 DEF CascadeBegin, CascadeFinish, FenceSource, FinishSource
  <2> QED
    BY <1>1, <1>3, <2>1 DEF Quiet, Emptied, Hosted, FreeRowsEmpty, Filled, Occupied
<1>4. CASE ServiceStore
  <2>1. /\ sv.group \in Groups /\ sv.source \in KeyOrNone /\ sv.key \in Keys
        /\ StoreHost(sv.group, sv.source, sv.key)
        /\ Serviced(sv.key)
    BY <1>4 DEF ServiceStore, Custodians, ServiceNames, Inv, TypeOK, ServiceCall, ServiceOK, Serviced
  <2>2. CASE Storable(sv.group, sv.source) = {}
    <3>1. rows' = rows /\ evicted' = evicted
      BY <1>1, <2>1, <2>2 DEF StoreHost, HostTypeOK
    <3> QED BY <1>1, <2>1, <3>1, StorePromises DEF Hosted
  <2>3. CASE Storable(sv.group, sv.source) # {}
    <3>1. ~Serviced(k)'
      BY <1>4, <2>3 DEF ServiceStore, NoCall, Serviced
    <3> QED BY <1>1, <1>4, <2>1, <3>1, StorePromises
  <2> QED BY <2>2, <2>3
<1> QED BY <1>2, <1>3, <1>4, TableMoves

(* Custody as a whole: somebody who comes to hold a record took it over, or *)
(* just created it.                                                         *)
LEMMA HeldSteps ==
  ASSUME Inv, Next, Custodians, NEW k \in Keys, Held(k)'
  PROVE  \/ Held(k)
         \/ \E c \in Sessions : Owner(c, k) /\ ~Owner(c, k)'
         \/ ServiceCommit /\ k = plan[Service].key
BY DoomedSteps, ServiceTakes, TablePromises
   DEF Held, GivesUp, Doomed, Taken, Freeable, Resettable, Hosted

LEMMA RecordsOrder ==
  ASSUME Inv, Next, IssuedInOrder
  PROVE  /\ nextKey' \in Nat /\ nextKey' >= nextKey
         /\ \A k \in live' : k \in live \/ (k = nextKey /\ k < nextKey')
         /\ \A p \in Planners : plan'[p].current => plan'[p].key = nextKey'
         /\ \A p \in Planners : CommitSession(p) => plan[p].key = nextKey /\ nextKey' = nextKey + 1
<1>1. RecordsTypeOK /\ nextKey \in Nat
  BY DEF Inv, TypeOK, RecordsTypeOK
<1> USE <1>1 DEF RecordsTypeOK, IssuedInOrder
<1>2. ASSUME NEW f \in [Planners -> Plan], NEW p \in Planners PROVE ~Outdated(f)[p].current
  BY <1>2 DEF Outdated, Plan
<1>3. NoPlan \in Plan /\ ~NoPlan.current
  BY DEF NoPlan, Plan
<1>4. ASSUME NEW p \in Planners, CommitSession(p)
      PROVE  /\ plan[p].key = nextKey /\ nextKey' = nextKey + 1
             /\ live' = (live \ {plan[p].replaces}) \cup {nextKey}
             /\ \A q \in Planners : ~plan'[q].current
  <2>1. [plan EXCEPT ![p] = NoPlan] \in [Planners -> Plan]
    BY <1>3
  <2> QED BY <1>2, <1>4, <2>1 DEF CommitSession, CanCommit
<1>5. CASE \E p \in Planners : CommitSession(p)
  BY <1>4, <1>5
<1>6. CASE ~\E p \in Planners : CommitSession(p)
  <2>1. RecordsNext \/ UNCHANGED recordVars
    BY RecordSteps
  <2>2. nextKey' = nextKey /\ live' \subseteq live
    BY <1>6, <2>1 DEF RecordsNext, PrepareSession, RejectSession, RetireExact, MutateRecord, recordVars
  <2>3. ASSUME NEW p \in Planners, plan'[p].current PROVE plan'[p].key = nextKey
    <3>1. ASSUME NEW q \in Planners, NEW k \in KeyOrNone, PrepareSession(q, k)
          PROVE  plan'[p].key = nextKey
      BY <1>3, <2>3, <3>1 DEF PrepareSession
    <3>2. ASSUME NEW q \in Planners, RejectSession(q)
          PROVE  plan'[p].key = nextKey
      BY <1>3, <2>3, <3>2 DEF RejectSession
    <3>3. CASE plan' \in {plan, Outdated(plan)}
      BY <1>2, <2>3, <3>3
    <3> QED
      BY <1>6, <2>1, <3>1, <3>2, <3>3 DEF RecordsNext, RetireExact, MutateRecord, recordVars
  <2> QED BY <1>6, <2>2, <2>3
<1> QED BY <1>5, <1>6

(* The group of a row the service thread works on is the one it was picked by. *)
LEMMA NamesStay ==
  ASSUME Inv, Next, ServiceNames
  PROVE  ServiceNames'
<1>1. sv \in ServiceCall /\ ServiceOK /\ HostTypeOK
  BY DEF Inv, TypeOK
<1>2. CASE sv' = sv
  BY <1>2 DEF ServiceNames
<1>3. CASE ServiceBegins
  BY <1>2, <1>3 DEF ServiceBegins, Slice, Reset, Lookup, Alias, NoCall, ServiceNames, actorVars
<1>4. CASE ServiceSteps
  <2>1. CASE ServiceFreed
    BY <1>1, <2>1 DEF ServiceFreed, NoCall, ServiceCall, ServiceOK, ServiceNames
  <2>2. CASE ServiceTake \/ ServiceRetire \/ ServiceUnlock
    BY <1>1, <2>2 DEF ServiceTake, ServiceRetire, ServiceUnlock, ServiceCall, ServiceNames
  <2>3. CASE ServiceInherit \/ ServiceCommit
    BY <1>1, <2>3 DEF ServiceInherit, ServiceCommit, ServiceCall, ServiceNames
  <2>4. CASE ServicePrepare
    BY <1>1, <2>4, IdleCall DEF ServicePrepare, ServiceCall, ServiceNames
  <2>5. CASE ServiceDrop \/ ServiceStore
    BY <2>5, IdleCall DEF ServiceDrop, ServiceStore, NoCall, ServiceNames
  <2>6. CASE LookupCheck
    BY <1>1, <2>6, IdleCall DEF LookupCheck, ServiceCall, ServiceNames
  <2>7. CASE ServiceReject \/ LookupClear
    BY <2>7, IdleCall DEF ServiceReject, LookupClear
  <2> QED
    BY <1>4, <2>1, <2>2, <2>3, <2>4, <2>5, <2>6, <2>7, PickedCall DEF ServiceSteps
<1> QED BY <1>2, <1>3, <1>4, ServiceAlone

LEMMA CustodiansStay ==
  ASSUME Inv, Next, Custodians
  PROVE  Custodians'
<1> USE DEF Custodians
<1>1. nextKey \in Nat /\ nextKey' \in Nat /\ nextKey' >= nextKey
  BY RecordsOrder DEF Inv, TypeOK, RecordsTypeOK
<1>2. AllocateCommit \/ ServiceCommit => nextKey' = nextKey + 1
  BY RecordsOrder DEF AllocateCommit, ServiceCommit, Planners
<1>3. /\ AllocateCommit => plan[BapEvent].key = nextKey
      /\ ServiceCommit => plan[Service].key = nextKey
  BY RecordsOrder DEF AllocateCommit, ServiceCommit, Planners
<1>4. \A k \in Keys : ~(ServiceCommit /\ k = plan[Service].key /\ \E c \in Sessions : Owner(c, k)')
  <2>1. ASSUME ServiceCommit PROVE UNCHANGED sess /\ ~Issued(nextKey)
    BY <1>1, <2>1, <1>3 DEF ServiceCommit, bapVars, IssuedInOrder, Inv, TypeOK, RecordsTypeOK, Planners,
                       CommitSession, CanCommit, Plan
  <2> QED BY <1>3, <2>1 DEF Issued, Owner
<1>5. ASSUME NEW c \in Sessions, NEW k \in Keys, Owner(c, k)'
      PROVE  Owner(c, k) \/ (AllocateCommit /\ k = nextKey)
  BY <1>3, <1>5, OwnersFresh DEF Owner
<1>6. ASSUME NEW c \in Sessions, NEW k \in Keys, Owner(c, k)'
      PROVE  ~Held(k)'
  <2>1. CASE Owner(c, k)
    BY <1>4, <1>6, <2>1, HeldSteps DEF OwnersApart
  <2>2. CASE ~Owner(c, k)
    <3>1. k = nextKey
      BY <1>5, <1>6, <2>2
    <3>2. ~Issued(k)
      BY <1>1, <3>1 DEF IssuedInOrder
    <3> QED BY <1>4, <1>6, <3>2, HeldSteps DEF Issued
  <2> QED BY <2>1, <2>2
<1>7. \A c \in Sessions : sess'[c].owns => sess'[c].instance \in Keys
  <2>1. AllocateCommit => plan[BapEvent].key \in Keys
    BY DEF AllocateCommit, CommitSession, CanCommit, Inv, TypeOK, RecordsTypeOK, Planners, Plan
  <2> QED BY <2>1, OwnersFresh DEF OwnersApart
<1>8. ASSUME NEW c \in Sessions, NEW d \in Sessions, NEW k \in Keys, Owner(c, k)', Owner(d, k)'
      PROVE  c = d
  <2>1. CASE Owner(c, k) \/ Owner(d, k)
    <3>1. k < nextKey
      BY <2>1 DEF IssuedInOrder, Issued
    <3> QED BY <1>1, <1>5, <1>8, <3>1 DEF OwnersApart
  <2>2. CASE ~Owner(c, k) /\ ~Owner(d, k)
    <3>1. AllocateCommit /\ k = nextKey
      BY <1>5, <1>8, <2>2
    <3>2. ~\E e \in Sessions : Owner(e, k)
      BY <1>1, <3>1 DEF IssuedInOrder, Issued
    <3>3. \A e \in Sessions : Owner(e, k)' => e = ev.session
      BY <3>1, <3>2 DEF AllocateCommit, Owner, Inv, TypeOK
    <3> QED BY <1>8, <3>3
  <2> QED BY <2>1, <2>2
<1>9. OwnersApart'
  BY <1>6, <1>7, <1>8 DEF OwnersApart
<1>10. ASSUME NEW k \in Keys, Issued(k)' PROVE k < nextKey'
  <2>1. CASE k \in live'
    <3>1. k \in live \/ (k = nextKey /\ k < nextKey')
      BY <2>1, RecordsOrder
    <3> QED BY <1>1, <3>1 DEF IssuedInOrder, Issued, Keys
  <2>2. CASE \E c \in Sessions : Owner(c, k)'
    <3>1. Issued(k) \/ (AllocateCommit /\ k = nextKey)
      BY <1>5, <2>2 DEF Issued
    <3> QED BY <1>1, <1>2, <3>1 DEF IssuedInOrder, Keys
  <2>3. CASE Held(k)'
    <3>1. Issued(k) \/ (ServiceCommit /\ k = nextKey)
      BY <1>3, <2>3, HeldSteps DEF Issued
    <3> QED BY <1>1, <1>2, <3>1 DEF IssuedInOrder, Keys
  <2> QED BY <1>10, <2>1, <2>2, <2>3 DEF Issued
<1>11. IssuedInOrder'
  BY <1>10, RecordsOrder DEF IssuedInOrder
<1>12. FreeRowsEmpty'
  <2>1. Keys # {}
    BY RecordsAssumption DEF Keys
  <2> QED BY <2>1, TablePromises
<1> QED BY <1>9, <1>11, <1>12, NamesStay

(***************************************************************************)
(* The frames of a cascade                                                 *)
(***************************************************************************)
(* A frame is unfinished from when the cascade enters its record until it   *)
(* finishes the source.  These frames are one path: no two return to the    *)
(* same frame and none to the innermost one, so finishing a source never    *)
(* lifts the fence of a frame that is still to be returned to.              *)
Unfinished(k) == k \in cascade.visited /\ (Fenced(k) \/ k = cascade.at)
Inner(k) == Unfinished(k) /\ k # cascade.root

FencesHold ==
    Retiring =>
        /\ cascade.step # "begin" => Fenced(cascade.at)
        /\ cascade.step = "retire" => Emptied(cascade.at)
        /\ \A k \in cascade.visited :
              Fenced(k) => Quiet(k) \/ (cascade.step = "begin" /\ k = cascade.at)
        /\ \A k \in Keys : Inner(k) => /\ Fenced(cascade.parent[k])
                                       /\ cascade.parent[k] # cascade.at
        /\ \A j, k \in Keys :
              Inner(j) /\ Inner(k) /\ cascade.parent[j] = cascade.parent[k] => j = k

(* Outside its own steps a cascade only ever starts. *)
LEMMA CascadeMoves ==
  ASSUME Next, ~CascadeNext
  PROVE  cascade' = cascade \/ \E r : cascade' = Start(r)
<1>1. CASE EventBegins \/ EventSteps
  BY <1>1
     DEF EventBegins, Open, Close, Hello, Allocate, Join, Poll, Report, Identify, Shutdown, Frame,
         Detach, EventSteps, ShutdownSession, ShutdownDone, Retired, AllocateCommit, AllocateReject,
         JoinDirect, JoinLease, JoinRefused, JoinPublish, JoinDiscard, Deferred, IdentityClaim,
         ReportOwned, ReportBorrowed, ReportStale, ReportHeld, ReportAcquire, ReportLost,
         ReportCommit, ReportDiscard, EventRelease, EventReleased, Tail, EventDrained, bapVars
<1>2. CASE ServiceBegins \/ ServiceSteps
  BY <1>2
     DEF ServiceBegins, ServiceSteps, Slice, Reset, Lookup, Alias, ServiceTake, ServiceRetire,
         ServiceUnlock, ServiceFreed, ServicePick, ServiceInherit, ServiceDrop, ServicePrepare,
         ServiceCommit, ServiceReject, ServiceStore, LookupCheck, LookupClear, bapVars
<1>3. ASSUME NEW a \in Claimants, ClaimSteps(a) PROVE cascade' = cascade
  BY <1>3 DEF ClaimSteps, ClaimTake, ClaimRecheck, ClaimDrop, ClaimPublish, ClaimClear, bapVars
<1>4. ASSUME NEW a \in Callers, CallerClaim(a) \/ CallerLease(a) \/ CallerSteps(a)
      PROVE  cascade' = cascade
  BY <1>4 DEF CallerClaim, CallerLease, CallerSteps, CallerRelease, CallerRetry, CallerDrained, bapVars
<1>5. CASE DrainRoot \/ Revise
  BY <1>5 DEF DrainRoot, Revise, bapVars
<1> QED BY <1>1, <1>2, <1>3, <1>4, <1>5 DEF Next

(* A step that moves neither the frames nor the fences. *)
LEMMA SameFences ==
  ASSUME Inv, Next, Custodians, FencesHold, cascade' = cascade, fences' = fences
  PROVE  FencesHold'
<1>1. cascade.visited \subseteq Keys /\ (Retiring => cascade.at \in Keys)
  BY FrameIsRecord DEF Inv, TypeOK, Cascade
<1>2. SUFFICES ASSUME Retiring PROVE FencesHold'
  BY DEF FencesHold, Retiring
<1>3. cascade.step = "retire" => Emptied(cascade.at)'
  BY <1>1, <1>2, TablePromises DEF FencesHold
<1>4. \A k \in cascade.visited :
         Fenced(k)' => Quiet(k)' \/ (cascade.step = "begin" /\ k = cascade.at)
  BY <1>1, <1>2, TablePromises DEF FencesHold, Fenced
<1> QED BY <1>2, <1>3, <1>4 DEF FencesHold, Retiring, Inner, Unfinished, Fenced

LEMMA CascadeFences ==
  ASSUME Inv, Next, Custodians, FencesHold, CascadeNext
  PROVE  FencesHold'
<1>1. /\ cascade \in Cascade /\ Retiring /\ HostTypeOK
      /\ cascade.at \in Keys /\ cascade.at \in cascade.visited
      /\ cascade.visited \subseteq Keys
  BY FrameIsRecord
     DEF Inv, TypeOK, FramesOK, Cascade, Retiring, CascadeNext, CascadeBegin, CascadeChild,
         CascadeDerived, CascadeSource, CascadeRetire, CascadeFinish
<1>2. ASSUME cascade' = NoCascade PROVE FencesHold'
  BY <1>2 DEF FencesHold, Retiring, NoCascade
<1>3. \A k \in Keys : Fenced(k) /\ Quiet(k) => Quiet(k)'
  BY TablePromises
<1>4. CASE CascadeBegin
  <2>1. CASE Blocked
    BY <1>2, <2>1 DEF Blocked
  <2>2. CASE ~Blocked
    <3>1. /\ CanFence(cascade.at) /\ ~HasPinnedRow(cascade.at) /\ FenceSource(cascade.at)
          /\ cascade' = [cascade EXCEPT !.step = "children",
                                        !.todo[cascade.at] = DerivedHosts(cascade.at)]
      BY <1>4, <2>2 DEF CascadeBegin
    <3>2. /\ cascade'.step = "children" /\ cascade'.at = cascade.at
          /\ cascade'.root = cascade.root /\ cascade'.visited = cascade.visited
          /\ cascade'.parent = cascade.parent
      BY <1>1, <3>1 DEF Cascade
    <3>3. fences' = fences \cup {cascade.at} /\ rows' = rows
      BY <3>1 DEF FenceSource
    <3>4. Quiet(cascade.at)
      BY <3>1 DEF HasPinnedRow, Quiet, Custodians, FreeRowsEmpty
    <3>5. \A k : Inner(k)' => Inner(k)
      BY <3>2, <3>3 DEF Inner, Unfinished, Fenced
    <3>6. \A k \in cascade.visited : Fenced(k)' => Quiet(k)'
      BY <1>1, <3>3, <3>4 DEF FencesHold, Fenced, Quiet, Filled
    <3> QED BY <1>1, <3>2, <3>3, <3>5, <3>6 DEF FencesHold, Fenced
  <2> QED BY <2>1, <2>2
<1>5. CASE CascadeChild
  <2>1. PICK k \in cascade.todo[cascade.at] :
          IF k \in cascade.visited
          THEN /\ cascade' = [cascade EXCEPT !.step = "derived", !.child = k]
               /\ UNCHANGED pending
          ELSE IF Cardinality(cascade.visited) >= CascadeCapacity
          THEN Blocked
          ELSE /\ cascade' = [cascade EXCEPT !.step = "begin", !.at = k,
                                             !.visited = @ \cup {k},
                                             !.parent[k] = cascade.at]
               /\ UNCHANGED pending
    BY <1>5 DEF CascadeChild
  <2>2. /\ k \in Keys /\ cascade.step = "children"
        /\ fences' = fences /\ rows' = rows /\ evicted' = evicted
    BY <1>1, <1>5 DEF CascadeChild, Cascade, hostVars
  <2>3. CASE Blocked
    BY <1>2, <2>3 DEF Blocked
  <2>4. CASE k \in cascade.visited
    <3>1. /\ cascade'.step = "derived" /\ cascade'.at = cascade.at
          /\ cascade'.root = cascade.root /\ cascade'.visited = cascade.visited
          /\ cascade'.parent = cascade.parent
      BY <1>1, <2>1, <2>4 DEF Cascade
    <3> QED BY <1>1, <2>2, <3>1 DEF FencesHold, Fenced, Inner, Unfinished, Quiet, Filled
  <2>5. CASE k \notin cascade.visited /\ ~Blocked
    <3>1. /\ cascade'.step = "begin" /\ cascade'.at = k
          /\ cascade'.root = cascade.root /\ cascade'.visited = cascade.visited \cup {k}
          /\ \A j \in Keys : cascade'.parent[j] = IF j = k THEN cascade.at ELSE cascade.parent[j]
      <4>1. cascade' = [cascade EXCEPT !.step = "begin", !.at = k,
                                       !.visited = @ \cup {k},
                                       !.parent[k] = cascade.at]
        BY <2>1, <2>5
      <4>2. cascade'.parent = [cascade.parent EXCEPT ![k] = cascade.at]
        BY <1>1, <4>1 DEF Cascade
      <4>3. cascade.parent \in [Keys -> KeyOrNone]
        BY <1>1 DEF Cascade
      <4> QED BY <1>1, <4>1, <4>2, <4>3 DEF Cascade
    <3>2. Fenced(cascade.at) /\ k # cascade.at
      BY <1>1, <2>2, <2>5 DEF FencesHold
    <3>3. \A j \in Keys \ {k} : Inner(j)' <=> Inner(j)
      BY <1>1, <2>2, <3>1, <3>2 DEF Inner, Unfinished, Fenced
    <3>4. \A j \in Keys : Inner(j) => cascade.parent[j] \in cascade.visited
      BY <1>1 DEF Inner, Unfinished, Inv, FramesOK
    <3>5. \A j \in Keys : Inner(j)' => cascade'.parent[j] \in fences' /\ cascade'.parent[j] # k
      BY <1>1, <2>2, <2>5, <3>1, <3>2, <3>3, <3>4 DEF FencesHold, Fenced
    <3>6. \A i, j \in Keys :
             Inner(i)' /\ Inner(j)' /\ cascade'.parent[i] = cascade'.parent[j] => i = j
      BY <1>1, <2>2, <3>1, <3>3 DEF FencesHold
    <3>7. \A j \in cascade.visited : Fenced(j) => Quiet(j)
      BY <1>1, <2>2 DEF FencesHold
    <3>8. \A j \in cascade'.visited : Fenced(j)' => Quiet(j)' \/ j = k
      BY <2>2, <3>1, <3>7 DEF Fenced, Quiet, Filled
    <3> QED BY <3>1, <3>5, <3>6, <3>8 DEF FencesHold, Fenced
  <2> QED BY <2>3, <2>4, <2>5
<1>6. CASE CascadeDerived
  <2>1. /\ cascade.step = "derived" /\ cascade'.step = "children"
        /\ cascade'.at = cascade.at /\ cascade'.root = cascade.root
        /\ cascade'.visited = cascade.visited /\ cascade'.parent = cascade.parent
        /\ fences' = fences
    BY <1>1, <1>6 DEF CascadeDerived, CommitDerived, Cascade
  <2> QED BY <1>1, <1>3, <2>1 DEF FencesHold, Fenced, Inner, Unfinished
<1>7. CASE CascadeSource
  <2>1. /\ cascade.step = "children" /\ cascade'.step = "retire"
        /\ cascade'.at = cascade.at /\ cascade'.root = cascade.root
        /\ cascade'.visited = cascade.visited /\ cascade'.parent = cascade.parent
        /\ fences' = fences /\ CommitSource(cascade.at)
    BY <1>1, <1>7 DEF CascadeSource, CommitSource, Cascade
  <2>2. Quiet(cascade.at)
    BY <1>1, <2>1 DEF FencesHold
  <2>3. Emptied(cascade.at)'
    BY <1>1, <2>1, <2>2
       DEF CommitSource, ClearRows, Quiet, Emptied, Filled, FreeRow, Custodians, FreeRowsEmpty
  <2> QED BY <1>1, <1>3, <2>1, <2>3 DEF FencesHold, Fenced, Inner, Unfinished
<1>8. CASE CascadeRetire
  <2>1. /\ cascade.step = "retire" /\ cascade'.step = "finish"
        /\ cascade'.at = cascade.at /\ cascade'.root = cascade.root
        /\ cascade'.visited = cascade.visited /\ cascade'.parent = cascade.parent
        /\ fences' = fences
    BY <1>1, <1>8 DEF CascadeRetire, hostVars, Cascade
  <2> QED BY <1>1, <1>3, <2>1 DEF FencesHold, Fenced, Inner, Unfinished
<1>9. CASE CascadeFinish
  <2>1. CASE cascade.at = cascade.root
    BY <1>2, <1>9, <2>1 DEF CascadeFinish
  <2>2. CASE cascade.at # cascade.root
    <3> DEFINE p == cascade.parent[cascade.at]
    <3>1. /\ cascade'.step = "derived" /\ cascade'.at = p
          /\ cascade'.root = cascade.root /\ cascade'.visited = cascade.visited
          /\ cascade'.parent = cascade.parent
      BY <1>1, <1>9, <2>2 DEF CascadeFinish, Cascade
    <3>2. cascade.step = "finish" /\ fences' = fences \ {cascade.at} /\ rows' = rows
      BY <1>9 DEF CascadeFinish, FinishSource
    <3>3. Inner(cascade.at)
      BY <1>1, <2>2 DEF Inner, Unfinished
    <3>4. Fenced(p) /\ p # cascade.at
      BY <1>1, <3>3 DEF FencesHold
    <3>5. \A k \in Keys : Inner(k)' => Inner(k) /\ k # cascade.at
      BY <3>1, <3>2, <3>4 DEF Inner, Unfinished, Fenced
    <3>6. \A k \in Keys : Inner(k)' => cascade.parent[k] \in fences' /\ cascade.parent[k] # p
      BY <1>1, <3>2, <3>3, <3>5 DEF FencesHold, Fenced
    <3>7. \A k \in cascade.visited : Fenced(k)' => Quiet(k)'
      BY <1>1, <3>2 DEF FencesHold, Fenced, Quiet, Filled
    <3> HIDE DEF p
    <3>8. \A j, k \in Keys :
             Inner(j)' /\ Inner(k)' /\ cascade.parent[j] = cascade.parent[k] => j = k
      BY <1>1, <3>5 DEF FencesHold
    <3> QED BY <3>1, <3>2, <3>4, <3>6, <3>7, <3>8 DEF FencesHold, Fenced
  <2> QED BY <2>1, <2>2
<1> QED BY <1>4, <1>5, <1>6, <1>7, <1>8, <1>9 DEF CascadeNext

LEMMA FencesStay ==
  ASSUME Inv, Next, Custodians, FencesHold
  PROVE  FencesHold'
<1>1. CASE ~CascadeNext
  <2>1. ASSUME NEW r, cascade' = Start(r) PROVE FencesHold'
    BY <2>1 DEF Start, NoCascade, FencesHold, Retiring, Inner, Unfinished
  <2>2. Keys # {}
    BY RecordsAssumption DEF Keys
  <2>3. fences' = fences
    BY <1>1, <2>2, TablePromises DEF CascadeNext
  <2> QED BY <1>1, <2>1, <2>3, CascadeMoves, SameFences
<1> QED BY <1>1, CascadeFences

(* Only a cascade retires a record, and only a commit replaces one.         *)
LEMMA LiveSteps ==
  ASSUME Next, ~CascadeRetire, ~AllocateCommit, ~ServiceCommit
  PROVE  live' = live
<1> USE DEF Planners, recordVars
<1>1. CASE EventBegins \/ EventSteps
  BY <1>1
     DEF EventBegins, Open, Close, Hello, Allocate, Join, Poll, Report, Identify, Shutdown,
         EventSteps, ShutdownSession, ShutdownDone, Retired, AllocateReject,
         JoinDirect, JoinLease, JoinRefused, JoinPublish, JoinDiscard, Deferred, IdentityClaim,
         ReportOwned, ReportBorrowed, ReportStale, ReportHeld, ReportAcquire, ReportLost,
         ReportCommit, ReportDiscard, EventRelease, EventReleased, Tail, EventDrained,
         PrepareSession, RejectSession, MutateRecord
<1>2. CASE ServiceBegins \/ ServiceSteps
  BY <1>2
     DEF ServiceBegins, ServiceSteps, Slice, Reset, Lookup, Alias, ServiceTake, ServiceRetire,
         ServiceUnlock, ServiceFreed, ServicePick, ServiceInherit, ServiceDrop, ServicePrepare,
         ServiceReject, ServiceStore, LookupCheck, LookupClear,
         PrepareSession, RejectSession
<1>3. ASSUME NEW a \in Claimants, ClaimSteps(a) PROVE live' = live
  BY <1>3 DEF ClaimSteps, ClaimTake, ClaimRecheck, ClaimDrop, ClaimPublish, ClaimClear
<1>4. ASSUME NEW a \in Callers, CallerClaim(a) \/ CallerLease(a) \/ CallerSteps(a)
      PROVE  live' = live
  BY <1>4 DEF CallerClaim, CallerLease, CallerSteps, CallerRelease, CallerRetry, CallerDrained
<1>5. CASE CascadeNext \/ DrainRoot \/ Revise
  BY <1>5 DEF CascadeNext, CascadeBegin, CascadeChild, CascadeDerived, CascadeSource, CascadeFinish,
              DrainRoot, Revise, AdvanceRevision
<1> QED BY <1>1, <1>2, <1>3, <1>4, <1>5 DEF Next

(***************************************************************************)
(* The order of retirements                                                *)
(***************************************************************************)
OrderInv == Inv /\ Custodians /\ FencesHold

LEMMA InitOrder == Init => OrderInv
<1> SUFFICES ASSUME Init PROVE OrderInv
  OBVIOUS
<1>1. \A k \in Keys : ~Hosted(k) /\ ~Serviced(k) /\ ~Doomed(k)
  BY DEF Init, HostInit, FreeRow, NoCall, NoCascade, Hosted, Serviced, Doomed, Keys
<1>2. \A c \in Sessions : ~sess[c].owns
  BY DEF Init, ClosedSession
<1>3. OwnersApart
  BY <1>2 DEF OwnersApart, Owner
<1>4. IssuedInOrder
  BY <1>1, <1>2 DEF Init, RecordsInit, NoPlan, IssuedInOrder, Issued, Held, Owner
<1>5. ServiceNames /\ FreeRowsEmpty /\ FencesHold
  BY DEF Init, HostInit, FreeRow, NoCall, NoCascade, ServiceNames, FreeRowsEmpty, Filled, FencesHold,
         Retiring
<1> QED BY <1>3, <1>4, <1>5, InitInv DEF OrderInv, Custodians

LEMMA NextOrder == OrderInv /\ [Next]_vars => OrderInv'
<1>1. ASSUME OrderInv, Next PROVE OrderInv'
  BY <1>1, NextInv, CustodiansStay, FencesStay DEF OrderInv
<1>2. ASSUME OrderInv, UNCHANGED vars PROVE OrderInv'
  <2>1. Inv'
    BY <1>2, NextInv DEF OrderInv
  <2>2. Custodians'
    BY <1>2 DEF OrderInv, vars, recordVars, hostVars, bapVars, actorVars, Custodians, OwnersApart,
                IssuedInOrder, Issued, Owner, Held, Hosted, Serviced, Doomed, ServiceNames,
                FreeRowsEmpty, Filled, Occupied
  <2>3. FencesHold'
    BY <1>2 DEF OrderInv, vars, hostVars, bapVars, FencesHold, Retiring, Inner, Unfinished, Fenced,
                Quiet, Emptied, Filled
  <2> QED BY <2>1, <2>2, <2>3 DEF OrderInv
<1> QED BY <1>1, <1>2

(* Whenever a record leaves State, no row mirrors it with a live host, no   *)
(* evicted host derived from it is live, and no connection stays bound to   *)
(* it: whatever leases, claims, evictions and other retirements ran beside  *)
(* its cascade (retire_activity_tree_locked, bap_route.cpp, with the fences *)
(* and pins of group_host_sessions.cpp).                                    *)
THEOREM RetiresInOrder == Spec => DerivedRetireFirst
<1> DEFINE Step == live' \subseteq live => \A k \in live \ live' : RetireSource(k)
<1>1. OrderInv /\ [Next]_vars => [Step]_vars
  <2>1. SUFFICES ASSUME OrderInv, Next, live' \subseteq live, NEW k \in live \ live'
                 PROVE  RetireSource(k)
    OBVIOUS
  <2>2. RecordsTypeOK /\ IssuedInOrder /\ OwnersApart /\ sess \in [Sessions -> Session]
    BY <2>1 DEF OrderInv, Custodians, Inv, TypeOK
  <2>3. \A p \in Planners : ~CommitSession(p)
    BY <2>1, <2>2, RecordsOrder DEF OrderInv, IssuedInOrder, Issued, CommitSession, CanCommit,
                                  RecordsTypeOK, Plan
  <2>4. CascadeRetire
    BY <2>1, <2>3, LiveSteps DEF AllocateCommit, ServiceCommit, Planners
  <2>5. k = cascade.at
    BY <2>4 DEF CascadeRetire, RetireExact
  <2>6. Emptied(k) /\ Doomed(k)
    BY <2>1, <2>4, <2>5 DEF CascadeRetire, OrderInv, FencesHold, Retiring, Doomed, Inv, FramesOK
  <2>7. \A c \in Sessions : ~Owner(c, k)
    BY <2>2, <2>6 DEF OwnersApart, Held, RecordsTypeOK
  <2>8. \A c \in Sessions : sess'[c].instance # k
    <3>1. k \in Keys /\ k # NoKey
      BY <2>2 DEF RecordsTypeOK, Keys
    <3>2. sess' = Invalidated(k)
      BY <2>4, <2>5 DEF CascadeRetire
    <3>3. ASSUME NEW c \in Sessions PROVE sess'[c].instance # k
      <4>1. sess[c] \in Session /\ Unbound(sess[c]).instance = NoKey
        BY <2>2 DEF Unbound, Session
      <4> QED BY <2>7, <3>1, <3>2, <4>1 DEF Invalidated, Owner
    <3> QED BY <3>3
  <2> QED BY <2>2, <2>6, <2>8 DEF RetireSource, Emptied, Filled, Contains, RecordsTypeOK, Keys
<1> QED BY InitOrder, NextOrder, <1>1, PTL DEF Spec, DerivedRetireFirst
=============================================================================
