---------------------- MODULE ActivityRetirementProofs ----------------------
(***************************************************************************)
(* Theorems about ActivityRetirement, for every number of connections,     *)
(* callers, rows, groups and record ids and every capacity.                *)
(***************************************************************************)
EXTENDS ActivityRetirement, TLAPS

USE DEF KeyOrNone, NoKey

(***************************************************************************)
(* The host-session table: what each of its critical sections preserves    *)
(***************************************************************************)
GroupOrNone == Groups \cup {NoGroup}

(* The critical sections of the table, for every argument a caller can have: *)
(* the calls that leave every host in the table, those that also take hosts   *)
(* out of it, those that give no row a host and move no fence, and all.       *)
HostCalls ==
    \/ \E g \in GroupOrNone, k \in KeyOrNone :
          ClaimRow(g, k) \/ DropUnfilledClaim(g, k) \/ DropStaleClaim(g, k)
    \/ \E g, m \in Groups : AliasRow(g, m)
    \/ \E h \in LeaseHolders : ReleaseLease(h) \/ \E k \in KeyOrNone : AcquireLease(h, k)

HostKeeps ==
    \/ HostCalls
    \/ TakeFreeable \/ ResetRows
    \/ \E k \in Keys : CommitSource(k) \/ \E d : CommitDerived(k, d)

HostMoves ==
    HostKeeps \/ \E g \in GroupOrNone, h, k \in KeyOrNone : ClearStaleHost(g, h, k)

HostNext ==
    \/ HostMoves
    \/ \E g \in GroupOrNone, k, h \in KeyOrNone : StoreHost(g, k, h)
    \/ \E k \in Keys : FenceSource(k) \/ FinishSource(k)

(* A free row and an empty lease are well typed. *)
LEMMA FreeTypes == FreeRow \in Row /\ NoLease \in Lease
BY DEF FreeRow, Row, NoLease, Lease, NoGeneration, NoSlot

(* Clearing rows keeps the table and the use order well typed. *)
LEMMA ClearType ==
  ASSUME HostTypeOK, NEW S, ClearRows(S)
  PROVE  rows' \in [Slots -> Row] /\ usedBefore' \subseteq Slots \X Slots
BY FreeTypes DEF HostTypeOK, ClearRows

(* Every outcome of a claim keeps the table well typed. *)
LEMMA ClaimType ==
  ASSUME HostTypeOK, NEW g \in GroupOrNone, NEW k \in KeyOrNone, ClaimRow(g, k)
  PROVE  HostTypeOK'
<1> USE DEF HostTypeOK
<1>1. CASE ClaimRefuse(g, k)
  BY <1>1 DEF ClaimRefuse, hostVars
<1>2. CASE ClaimExisting(g, k)
  <2>1. PICK s \in Slots : /\ rows' = [rows EXCEPT ![s].source =
                                          IF ~Filled(s) /\ k # NoKey THEN k ELSE @]
                           /\ Touch(s)
    BY <1>2 DEF ClaimExisting, FirstOf, Named
  <2>2. rows' \in [Slots -> Row]
    BY <2>1 DEF Row
  <2>3. usedBefore' \subseteq Slots \X Slots
    BY <2>1 DEF Touch
  <2> QED BY <1>2, <2>2, <2>3 DEF ClaimExisting
<1>3. ASSUME NEW s \in Slots, NewRow(s, g, k), Touch(s)
      PROVE  rows' \in [Slots -> Row] /\ usedBefore' \subseteq Slots \X Slots
  <2>1. PICK n \in Generations :
           rows' = [rows EXCEPT ![s] = [FreeRow EXCEPT !.group = g, !.source = k,
                                                       !.generation = n]]
    BY <1>3 DEF NewRow, FirstOf, UnusedGenerations
  <2>2. [FreeRow EXCEPT !.group = g, !.source = k, !.generation = n] \in Row
    BY FreeTypes DEF Row, FreeRow, GroupOrNone
  <2> QED BY <2>1, <2>2, <1>3 DEF Touch
<1>4. CASE ClaimFree(g, k)
  BY <1>3, <1>4 DEF ClaimFree, FirstOf, FreeSlots
<1>5. CASE ClaimEvicting(g, k)
  <2>1. PICK s \in Slots :
           /\ NewRow(s, g, k) /\ Touch(s)
           /\ evicted' = evicted \cup
                IF Filled(s) THEN {[host |-> rows[s].host, source |-> rows[s].source]} ELSE {}
    BY <1>5 DEF ClaimEvicting, Victims
  <2>2. [host |-> rows[s].host, source |-> rows[s].source] \in EvictedHost
    BY DEF EvictedHost, Row
  <2> QED BY <1>3, <1>5, <2>1, <2>2 DEF ClaimEvicting
<1> QED BY <1>1, <1>2, <1>4, <1>5 DEF ClaimRow

(* The cleanups, migrations and stores keep the table well typed. *)
LEMMA TableType ==
  ASSUME HostTypeOK
  PROVE  /\ \A g \in GroupOrNone, k \in KeyOrNone : DropUnfilledClaim(g, k) => HostTypeOK'
         /\ \A g \in GroupOrNone, h, k \in KeyOrNone : ClearStaleHost(g, h, k) => HostTypeOK'
         /\ \A g \in Groups, m \in Groups : AliasRow(g, m) => HostTypeOK'
         /\ \A g \in GroupOrNone, k \in KeyOrNone : DropStaleClaim(g, k) => HostTypeOK'
         /\ \A g, k : \A h \in KeyOrNone : StoreHost(g, k, h) => HostTypeOK'
         /\ TakeFreeable => HostTypeOK'
         /\ ResetRows => HostTypeOK'
<1> USE DEF HostTypeOK
<1>1. ASSUME NEW g \in GroupOrNone, NEW k \in KeyOrNone, DropUnfilledClaim(g, k)
      PROVE  HostTypeOK'
  BY <1>1, ClearType DEF DropUnfilledClaim
<1>2. ASSUME NEW g \in GroupOrNone, NEW h \in KeyOrNone, NEW k \in KeyOrNone, ClearStaleHost(g, h, k)
      PROVE  HostTypeOK'
  <2>1. rows' \in [Slots -> Row]
    BY <1>2 DEF ClearStaleHost, Row
  <2> QED BY <1>2, <2>1 DEF ClearStaleHost
<1>3. ASSUME NEW g \in Groups, NEW m \in Groups, AliasRow(g, m)
      PROVE  HostTypeOK'
  <2>1. PICK s \in Slots : rows' = [rows EXCEPT ![s].alias = m] /\ Touch(s)
    BY <1>3 DEF AliasRow, LastOf, Named
  <2>2. rows' \in [Slots -> Row]
    BY <2>1 DEF Row
  <2>3. usedBefore' \subseteq Slots \X Slots
    BY <2>1 DEF Touch
  <2> QED BY <1>3, <2>2, <2>3 DEF AliasRow
<1>4. ASSUME NEW g \in GroupOrNone, NEW k \in KeyOrNone, DropStaleClaim(g, k)
      PROVE  HostTypeOK'
  BY <1>4, ClearType DEF DropStaleClaim
<1>5. ASSUME NEW g, NEW k, NEW h \in KeyOrNone, StoreHost(g, k, h)
      PROVE  HostTypeOK'
  <2>1. rows' \in [Slots -> Row]
    BY <1>5 DEF StoreHost, Row
  <2> QED BY <1>5, <2>1 DEF StoreHost
<1>6. ASSUME TakeFreeable PROVE HostTypeOK'
  BY <1>6 DEF TakeFreeable
<1>7. ASSUME ResetRows PROVE HostTypeOK'
  BY <1>7, ClearType DEF ResetRows
<1> QED BY <1>1, <1>2, <1>3, <1>4, <1>5, <1>6, <1>7

(* Taking a lease and giving it back keep the table well typed. *)
LEMMA LeaseType ==
  ASSUME HostTypeOK, NEW h \in LeaseHolders
  PROVE  /\ \A k \in KeyOrNone : AcquireLease(h, k) => HostTypeOK'
         /\ ReleaseLease(h) => HostTypeOK'
<1> USE DEF HostTypeOK
<1>1. ASSUME NEW k \in KeyOrNone, AcquireLease(h, k)
      PROVE  HostTypeOK'
  <2>1. PICK s \in Slots : /\ rows' = [rows EXCEPT ![s].pins = @ + 1]
                           /\ lease' = [lease EXCEPT ![h] = LeaseOn(s)]
    BY <1>1 DEF AcquireLease, Leasable, FirstOf
  <2>2. rows' \in [Slots -> Row]
    BY <2>1 DEF Row
  <2>3. LeaseOn(s) \in Lease
    BY DEF LeaseOn, Lease, Row
  <2> QED BY <1>1, <2>1, <2>2, <2>3 DEF AcquireLease
<1>2. ASSUME ReleaseLease(h)
      PROVE  HostTypeOK'
  <2>1. CASE SameRow(lease[h])
    <3>1. lease[h].slot \in Slots /\ rows[lease[h].slot].pins \in Nat \ {0}
      BY <2>1 DEF SameRow, Pinned, Lease, Row
    <3>2. rows' = [rows EXCEPT ![lease[h].slot].pins = @ - 1]
      BY <1>2, <2>1 DEF ReleaseLease
    <3>3. rows' \in [Slots -> Row]
      BY <3>1, <3>2 DEF Row
    <3> QED BY <1>2, <3>3, FreeTypes DEF ReleaseLease
  <2>2. CASE ~SameRow(lease[h])
    BY <1>2, <2>2, FreeTypes DEF ReleaseLease
  <2> QED BY <2>1, <2>2
<1> QED BY <1>1, <1>2

(* The steps of a retirement keep the table well typed. *)
LEMMA RetireType ==
  ASSUME HostTypeOK, NEW k \in Keys
  PROVE  /\ FenceSource(k) => HostTypeOK'
         /\ \A d : CommitDerived(k, d) => HostTypeOK'
         /\ CommitSource(k) => HostTypeOK'
         /\ FinishSource(k) => HostTypeOK'
         /\ DerivedHosts(k) \subseteq Keys
<1> USE DEF HostTypeOK
<1>1. ASSUME FenceSource(k) PROVE HostTypeOK'
  BY <1>1 DEF FenceSource
<1>2. ASSUME NEW d, CommitDerived(k, d) PROVE HostTypeOK'
  BY <1>2, ClearType DEF CommitDerived
<1>3. ASSUME CommitSource(k) PROVE HostTypeOK'
  BY <1>3, ClearType DEF CommitSource
<1>4. ASSUME FinishSource(k) PROVE HostTypeOK'
  BY <1>4 DEF FinishSource
<1>5. DerivedHosts(k) \subseteq Keys
  BY DEF DerivedHosts, Row, EvictedHost
<1> QED BY <1>1, <1>2, <1>3, <1>4, <1>5

(* No critical section ever breaks the types of the table. *)
LEMMA HostStepType ==
  ASSUME HostTypeOK, HostNext \/ UNCHANGED hostVars
  PROVE  HostTypeOK'
<1>1. CASE UNCHANGED hostVars
  BY <1>1 DEF hostVars, HostTypeOK
<1>2. CASE HostNext
  <2>1. ASSUME NEW g \in GroupOrNone, NEW k \in KeyOrNone,
               \/ ClaimRow(g, k) \/ DropUnfilledClaim(g, k) \/ DropStaleClaim(g, k)
               \/ \E h \in KeyOrNone : ClearStaleHost(g, h, k) \/ StoreHost(g, k, h)
        PROVE  HostTypeOK'
    BY <2>1, ClaimType, TableType
  <2>2. ASSUME NEW h \in LeaseHolders,
               ReleaseLease(h) \/ \E k \in KeyOrNone : AcquireLease(h, k)
        PROVE  HostTypeOK'
    BY <2>2, LeaseType
  <2>3. ASSUME NEW k \in Keys,
               \/ FenceSource(k) \/ CommitSource(k) \/ FinishSource(k)
               \/ \E d : CommitDerived(k, d)
        PROVE  HostTypeOK'
    BY <2>3, RetireType
  <2> QED BY <1>2, <2>1, <2>2, <2>3, TableType DEF HostNext, HostMoves, HostKeeps, HostCalls
<1> QED BY <1>1, <1>2

(* A step that names no row anew keeps the names apart. *)
LEMMA NamesShrink ==
  ASSUME RowsNamedApart,
         \A s \in Slots, g \in Groups : Names(s, g)' => Names(s, g)
  PROVE  RowsNamedApart'
BY DEF RowsNamedApart

(* A claim names a row anew only when no row had the name. *)
LEMMA ClaimNamed ==
  ASSUME HostTypeOK, RowsNamedApart, NEW g \in GroupOrNone, NEW k \in KeyOrNone,
         ClaimRow(g, k)
  PROVE  RowsNamedApart'
<1>1. CASE ClaimRefuse(g, k)
  BY <1>1 DEF ClaimRefuse, hostVars, RowsNamedApart, Names, Occupied
<1>2. CASE ClaimExisting(g, k)
  BY <1>2, NamesShrink DEF ClaimExisting, Names, Occupied, HostTypeOK, Row
<1>3. ASSUME NEW s \in Slots, NewRow(s, g, k), Named(g) = {}
      PROVE  RowsNamedApart'
  <2>1. \A m \in Groups : Names(s, m)' => m = g
    BY <1>3, HostAssumption DEF NewRow, Names, Occupied, FreeRow, HostTypeOK
  <2>2. \A t \in Slots \ {s}, m \in Groups : Names(t, m)' <=> Names(t, m)
    BY <1>3 DEF NewRow, Names, Occupied, HostTypeOK
  <2>3. \A t \in Slots : ~Names(t, g)
    BY <1>3 DEF Named
  <2> QED BY <2>1, <2>2, <2>3 DEF RowsNamedApart
<1> QED
  BY <1>1, <1>2, <1>3 DEF ClaimRow, ClaimFree, ClaimEvicting, FirstOf, FreeSlots,
                          Victims

(* A migration names a row anew only when no other row has the name. *)
LEMMA AliasNamed ==
  ASSUME HostTypeOK, RowsNamedApart, NEW g \in Groups, NEW m \in Groups, AliasRow(g, m)
  PROVE  RowsNamedApart'
<1>1. PICK s \in Slots : /\ Named(m) = {} \/ s \in LastOf(Named(m))
                         /\ rows' = [rows EXCEPT ![s].alias = m]
  BY DEF AliasRow, LastOf, Named
<1>2. \A t \in Slots : Names(t, m) => t = s
  BY <1>1 DEF Named, LastOf, RowsNamedApart
<1>3. \A t \in Slots, n \in Groups : Names(t, n)' => Names(t, n) \/ (t = s /\ n = m)
  BY <1>1 DEF Names, Occupied, HostTypeOK, Row
<1> QED BY <1>2, <1>3 DEF RowsNamedApart

(* No critical section ever gives a group id to a second row. *)
LEMMA HostStepNamed ==
  ASSUME HostTypeOK, RowsNamedApart, HostNext \/ UNCHANGED hostVars
  PROVE  RowsNamedApart'
<1> USE DEF Names, Occupied, HostTypeOK, Row
<1>1. ASSUME rows' = rows PROVE RowsNamedApart'
  BY <1>1 DEF RowsNamedApart
<1>2. ASSUME NEW S, ClearRows(S) PROVE RowsNamedApart'
  BY <1>2, NamesShrink DEF ClearRows, FreeRow
<1>3. ASSUME NEW g, NEW h, NEW k, ClearStaleHost(g, h, k) \/ StoreHost(g, k, h)
      PROVE  RowsNamedApart'
  BY <1>3, NamesShrink DEF ClearStaleHost, StoreHost
<1>4. ASSUME NEW h \in LeaseHolders,
             ReleaseLease(h) \/ \E k \in KeyOrNone : AcquireLease(h, k)
      PROVE  RowsNamedApart'
  BY <1>4, NamesShrink DEF ReleaseLease, AcquireLease
<1>5. CASE HostNext
  BY <1>1, <1>2, <1>3, <1>4, <1>5, ClaimNamed, AliasNamed
     DEF HostNext, HostMoves, HostKeeps, HostCalls, DropUnfilledClaim, DropStaleClaim, TakeFreeable, ResetRows,
         FenceSource, CommitSource, FinishSource, CommitDerived
<1> QED BY <1>1, <1>5 DEF hostVars

(***************************************************************************)
(* The record table                                                        *)
(***************************************************************************)
RecordsNext ==
    \/ \E p \in Planners :
          \/ \E k \in KeyOrNone : PrepareSession(p, k)
          \/ CommitSession(p) \/ RejectSession(p)
    \/ \E k \in Keys : RetireExact(k)
    \/ MutateRecord

(* A plan survives the loss of its revision as a plan. *)
LEMMA OutdatedType ==
  ASSUME NEW f \in [Planners -> Plan]
  PROVE  Outdated(f) \in [Planners -> Plan]
BY DEF Outdated, Plan

LEMMA RecordsStepType ==
  ASSUME RecordsTypeOK, RecordsNext \/ UNCHANGED recordVars
  PROVE  RecordsTypeOK'
<1> USE RecordsAssumption DEF RecordsTypeOK
<1>1. ASSUME NEW p \in Planners, NEW k \in KeyOrNone, PrepareSession(p, k)
      PROVE  RecordsTypeOK'
  <2>1. /\ NoPlan \in Plan
        /\ AllocationAvailable => [key |-> nextKey, replaces |-> k, current |-> TRUE] \in Plan
    BY DEF NoPlan, Plan, AllocationAvailable, Keys
  <2> QED BY <1>1, <2>1 DEF PrepareSession
<1>2. ASSUME NEW p \in Planners, CommitSession(p)
      PROVE  RecordsTypeOK'
  <2>1. plan[p].key \in Keys
    BY <1>2 DEF CommitSession, CanCommit, Plan
  <2>2. [plan EXCEPT ![p] = NoPlan] \in [Planners -> Plan]
    BY DEF NoPlan, Plan
  <2>3. plan' \in [Planners -> Plan]
    BY <1>2, <2>2, OutdatedType DEF CommitSession
  <2>4. nextKey' \in 1 .. MaxSessionId + 1
    BY <1>2 DEF CommitSession, CanCommit, AllocationAvailable
  <2> QED BY <1>2, <2>1, <2>3, <2>4 DEF CommitSession
<1>3. ASSUME NEW p \in Planners, RejectSession(p)
      PROVE  RecordsTypeOK'
  BY <1>3 DEF RejectSession, NoPlan, Plan
<1>4. ASSUME NEW k \in Keys, RetireExact(k)
      PROVE  RecordsTypeOK'
  BY <1>4, OutdatedType DEF RetireExact
<1>5. CASE MutateRecord
  BY <1>5, OutdatedType DEF MutateRecord
<1>6. CASE UNCHANGED recordVars
  BY <1>6 DEF recordVars
<1> QED BY <1>1, <1>2, <1>3, <1>4, <1>5, <1>6 DEF RecordsNext

(***************************************************************************)
(* Where the threads are.  Types alone are not inductive: a cascade that   *)
(* returns to a parent frame needs to know that the frame exists, and an   *)
(* event or a service call that goes on needs to know with what.           *)
(***************************************************************************)
FramesOK ==
    Retiring => /\ {cascade.root, cascade.at} \subseteq cascade.visited
                /\ \A k \in cascade.visited \ {cascade.root} :
                      cascade.parent[k] \in cascade.visited

InSession == {"allocate", "lineage", "publish", "bound", "identity", "claiming", "held",
              "acquire", "commit"}
EventOK ==
    /\ ev.defers \/ ev.pc \in InSession => ev.session \in Sessions
    /\ ev.pc = "retiring" => ev.next \in {"release", "tail"}
    /\ ev.pc = "drain" => ev.next \in {"sessions", "unlock"}

ServiceOK ==
    /\ sv.pc \in {"take", "free", "freeing"} => sv.next \in {"take", "pick", "idle"}
    /\ sv.pc = "store" => sv.key \in Keys

ClaimOK == claim[BapEvent].pc # "idle" => ev.pc = "claiming"

Inv == TypeOK /\ FramesOK /\ EventOK /\ ServiceOK /\ ClaimOK

(* The lock holder's frame is always a record, and so is a connection's     *)
(* binding while an event works on it.                                      *)
LEMMA FrameIsRecord ==
  ASSUME Inv, Retiring
  PROVE  cascade.at \in Keys /\ cascade.root \in Keys
BY DEF Inv, FramesOK, TypeOK, Cascade

LEMMA EventSession ==
  ASSUME Inv, ev.pc \in InSession
  PROVE  ev.session \in Sessions /\ sess[ev.session] \in Session
BY DEF Inv, EventOK, TypeOK

(***************************************************************************)
(* Every step is a critical section of the two shared tables, or leaves    *)
(* them alone.                                                             *)
(***************************************************************************)
(* A record that the call about to clear it from the table saw retired. *)
SeenGone(k) == \/ \E a \in Claimants : claim[a].pc = "clear" /\ claim[a].held = k
               \/ sv.pc = "clear" /\ sv.key = k

LEMMA TableCalls ==
  ASSUME Inv, Next
  PROVE  \/ HostCalls \/ UNCHANGED hostVars
         \/ \E g \in GroupOrNone, h, k \in KeyOrNone : ClearStaleHost(g, h, k) /\ SeenGone(h)
         \/ ServiceTake \/ Reset \/ ServiceStore
         \/ CascadeBegin \/ CascadeDerived \/ CascadeSource \/ CascadeFinish
<1> DEFINE Goal == \/ HostCalls \/ UNCHANGED hostVars
                   \/ \E g \in GroupOrNone, h, k \in KeyOrNone :
                         ClearStaleHost(g, h, k) /\ SeenGone(h)
                   \/ ServiceTake \/ Reset \/ ServiceStore
                   \/ CascadeBegin \/ CascadeDerived \/ CascadeSource \/ CascadeFinish
<1>1. ASSUME CascadeNext PROVE Goal
  BY <1>1 DEF CascadeNext, CascadeChild, CascadeRetire
<1>2. ASSUME NEW h \in EventLeases, NEW k \in KeyOrNone, AcquireLease(h, k)
      PROVE  Goal
  BY <1>2, RetirementAssumption DEF HostCalls
<1>3. ASSUME EventSteps PROVE Goal
  <2> USE <1>2 DEF EventLeases
  <2>1. CASE JoinLease
    BY <2>1 DEF JoinLease, Inv, TypeOK, Event
  <2>2. CASE ReportBorrowed
    BY <2>2, EventSession DEF ReportBorrowed, InEvent, InSession, Session
  <2>3. CASE ReportAcquire
    BY <2>3 DEF ReportAcquire, Inv, TypeOK, Event
  <2>4. CASE EventRelease
    BY <2>4, RetirementAssumption DEF EventRelease, HostCalls
  <2> QED
    BY <1>3, <2>1, <2>2, <2>3, <2>4
       DEF EventSteps, ShutdownSession, ShutdownDone, Retired, AllocateCommit,
           AllocateReject, JoinDirect, JoinRefused, JoinPublish, JoinDiscard, Deferred,
           ReportOwned, IdentityClaim, ReportStale, ReportHeld, ReportLost, ReportCommit, ReportDiscard,
           EventReleased, Tail, EventDrained
<1>4. ASSUME NEW a \in Claimants, ClaimSteps(a) PROVE Goal
  <2>1. claim[a].group \in GroupOrNone /\ {claim[a].source, claim[a].held} \subseteq KeyOrNone
    BY DEF Inv, TypeOK, Claim, GroupOrNone
  <2>2. CASE ClaimClear(a)
    BY <2>1, <2>2 DEF ClaimClear, ClaimStep, SeenGone
  <2> QED
    BY <1>4, <2>1, <2>2 DEF ClaimSteps, ClaimTake, ClaimRecheck, ClaimDrop, ClaimPublish, HostCalls
<1>5. ASSUME ServiceBegins \/ ServiceSteps PROVE Goal
  <2>1. sv.group \in GroupOrNone /\ {sv.key, sv.source} \subseteq KeyOrNone
    BY DEF Inv, TypeOK, ServiceCall, GroupOrNone
  <2>2. CASE \E g \in Groups : \E m \in Groups : Alias(g, m)
    BY <2>2 DEF Alias, HostCalls
  <2>3. CASE LookupClear
    BY <2>1, <2>3, RecordsAssumption DEF LookupClear, SeenGone
  <2>4. CASE ServiceDrop
    BY <2>1, <2>4 DEF ServiceDrop, HostCalls
  <2> QED
    BY <1>5, <2>2, <2>3, <2>4
       DEF ServiceBegins, ServiceSteps, Slice, Lookup, ServiceRetire,
           ServiceUnlock, ServiceFreed, ServicePick, ServiceInherit, ServicePrepare,
           ServiceCommit, ServiceReject, LookupCheck, HostCalls
<1>6. ASSUME NEW a \in Callers,
             CallerClaim(a) \/ CallerLease(a) \/ CallerSteps(a)
      PROVE  Goal
  BY <1>6, RetirementAssumption
     DEF CallerClaim, CallerLease, CallerSteps, CallerRelease, CallerRetry, CallerDrained,
         HostCalls
<1>7. ASSUME EventBegins \/ DrainRoot \/ Revise PROVE Goal
  BY <1>7 DEF EventBegins, Open, Close, Hello, Allocate, Join, Poll, Report, Identify, Shutdown, Frame,
              DrainRoot, Revise
<1> QED BY <1>1, <1>3, <1>4, <1>5, <1>6, <1>7 DEF Next

LEMMA TableSections ==
  ASSUME Inv, Next
  PROVE  \/ HostKeeps \/ UNCHANGED hostVars
         \/ \E g \in GroupOrNone, h, k \in KeyOrNone : ClearStaleHost(g, h, k) /\ SeenGone(h)
         \/ CascadeBegin \/ CascadeFinish \/ ServiceStore
<1>1. CASE ServiceTake \/ Reset
  BY <1>1 DEF ServiceTake, Reset, HostKeeps
<1>2. CASE CascadeDerived \/ CascadeSource
  BY <1>2, FrameIsRecord DEF CascadeDerived, CascadeSource, Retiring, HostKeeps
<1> QED BY <1>1, <1>2, TableCalls DEF HostKeeps

LEMMA TableMoves ==
  ASSUME Inv, Next
  PROVE  \/ HostMoves \/ UNCHANGED hostVars
         \/ CascadeBegin \/ CascadeFinish \/ ServiceStore
BY TableSections DEF HostMoves

LEMMA TableSteps ==
  ASSUME Inv, Next
  PROVE  HostNext \/ UNCHANGED hostVars
<1>1. CASE CascadeBegin \/ CascadeFinish
  BY <1>1, FrameIsRecord DEF CascadeBegin, CascadeFinish, Retiring, HostNext
<1>2. CASE ServiceStore
  <2>1. sv.group \in GroupOrNone /\ {sv.key, sv.source} \subseteq KeyOrNone
    BY DEF Inv, TypeOK, ServiceCall, GroupOrNone
  <2> QED BY <1>2, <2>1 DEF ServiceStore, HostNext
<1> QED BY <1>1, <1>2, TableMoves DEF HostNext

LEMMA RecordSteps ==
  ASSUME Inv, Next
  PROVE  RecordsNext \/ UNCHANGED recordVars
<1> DEFINE Goal == RecordsNext \/ UNCHANGED recordVars
<1> USE DEF Planners, recordVars
<1>1. ASSUME CascadeNext PROVE Goal
  <2>1. CASE CascadeRetire
    BY <2>1, FrameIsRecord DEF CascadeRetire, Retiring, RecordsNext
  <2> QED
    BY <1>1, <2>1 DEF CascadeNext, CascadeBegin, CascadeChild, CascadeDerived, CascadeSource,
                      CascadeFinish
<1>2. ASSUME EventBegins PROVE Goal
  <2>1. ASSUME NEW c \in Sessions, Allocate(c) PROVE Goal
    <3>1. Owned(c) \in KeyOrNone
      BY DEF Owned, Inv, TypeOK, Session
    <3> QED BY <2>1, <3>1 DEF Allocate, RecordsNext
  <2> QED
    BY <1>2, <2>1 DEF EventBegins, Open, Close, Hello, Join, Poll, Report, Identify, Shutdown
<1>3. ASSUME EventSteps PROVE Goal
  BY <1>3
     DEF RecordsNext, EventSteps, ShutdownSession, ShutdownDone, Retired, AllocateCommit,
         AllocateReject, JoinDirect, JoinLease, JoinRefused, JoinPublish, JoinDiscard,
         Deferred, IdentityClaim, ReportOwned, ReportBorrowed, ReportStale, ReportHeld, ReportAcquire,
         ReportLost, ReportCommit, ReportDiscard, EventRelease, EventReleased, Tail,
         EventDrained
<1>4. ASSUME NEW a \in Claimants, ClaimSteps(a) PROVE Goal
  BY <1>4 DEF ClaimSteps, ClaimTake, ClaimRecheck, ClaimDrop, ClaimPublish, ClaimClear
<1>5. ASSUME ServiceBegins \/ ServiceSteps PROVE Goal
  BY <1>5
     DEF RecordsNext, ServiceBegins, ServiceSteps, Slice, Reset, Lookup, Alias, ServiceTake,
         ServiceRetire, ServiceUnlock, ServiceFreed, ServicePick, ServiceInherit,
         ServiceDrop, ServicePrepare, ServiceCommit, ServiceReject, ServiceStore,
         LookupCheck, LookupClear
<1>6. ASSUME NEW a \in Callers,
             CallerClaim(a) \/ CallerLease(a) \/ CallerSteps(a)
      PROVE  Goal
  BY <1>6 DEF CallerClaim, CallerLease, CallerSteps, CallerRelease, CallerRetry, CallerDrained
<1>7. ASSUME DrainRoot \/ Revise PROVE Goal
  BY <1>7 DEF DrainRoot, Revise, AdvanceRevision, MutateRecord, RecordsNext
<1> QED BY <1>1, <1>2, <1>3, <1>4, <1>5, <1>6, <1>7 DEF Next

(***************************************************************************)
(* The threads' own state                                                  *)
(***************************************************************************)
ThreadsOK ==
    /\ sess \in [Sessions -> Session]
    /\ pending \subseteq Keys
    /\ draining \subseteq Keys
    /\ lock \in {Nobody, BapEvent, Service} \cup Callers
    /\ cascade \in Cascade
    /\ ev \in Event
    /\ sv \in ServiceCall
    /\ claim \in [Claimants -> Claim]
    /\ caller \in [Callers -> CallerStep]

ControlOK == ThreadsOK /\ FramesOK /\ EventOK /\ ServiceOK

LEMMA InvParts == Inv <=> RecordsTypeOK /\ HostTypeOK /\ ControlOK /\ ClaimOK
BY DEF Inv, TypeOK, ControlOK, ThreadsOK

LEMMA IdleTypes ==
  /\ NoCascade \in Cascade /\ NoCascade.step = "idle"
  /\ NoClaim \in Claim /\ NoEvent \in Event /\ NoCall \in ServiceCall
  /\ ClosedSession \in Session
BY DEF NoCascade, Cascade, NoClaim, Claim, NoEvent, Event, NoCall, ServiceCall, ClosedSession,
       Session, Phase

(* A retirement starts with a frame for its root. *)
LEMMA StartType ==
  ASSUME NEW k \in KeyOrNone
  PROVE  /\ Start(k) \in Cascade
         /\ Start(k).step # "idle" => Start(k).visited = {Start(k).root}
                                     /\ Start(k).at = Start(k).root
BY IdleTypes DEF Start, Cascade, NoCascade

(* Queueing a root, whether or not it fits, leaves a set of records. *)
LEMMA QueuedType ==
  ASSUME NEW k \in Keys, pending \subseteq Keys
  PROVE  Queued(pending, k) \subseteq Keys
BY DEF Queued

(* The cascade keeps a path of frames from its root to where it is. *)
LEMMA CascadeControl ==
  ASSUME Inv, CascadeNext
  PROVE  ControlOK'
<1> USE DEF ControlOK
<1>1. Retiring /\ cascade.at \in Keys /\ cascade.root \in Keys
  BY FrameIsRecord DEF CascadeNext, CascadeBegin, CascadeChild, CascadeDerived, CascadeSource,
                       CascadeRetire, CascadeFinish, Retiring
<1>2. ControlOK
  BY InvParts
<1>3. UNCHANGED <<draining, lock, ev, sv, claim, caller>>
  BY DEF CascadeNext, CascadeBegin, CascadeChild, CascadeDerived, CascadeSource,
         CascadeRetire, CascadeFinish, actorVars
<1>4. EventOK' /\ ServiceOK'
  BY <1>2, <1>3 DEF EventOK, ServiceOK
<1>5. SUFFICES /\ sess' \in [Sessions -> Session]
               /\ pending' \subseteq Keys
               /\ cascade' \in Cascade
               /\ FramesOK'
  BY <1>2, <1>3, <1>4 DEF ThreadsOK
<1>6. ASSUME Blocked
      PROVE  pending' \subseteq Keys /\ cascade' \in Cascade /\ FramesOK'
  BY <1>1, <1>2, <1>6, QueuedType, IdleTypes DEF Blocked, ThreadsOK, FramesOK, Retiring
<1>7. CASE CascadeBegin
  <2>1. DerivedHosts(cascade.at) \subseteq Keys
    BY <1>1, InvParts, RetireType
  <2>2. ASSUME cascade' = [cascade EXCEPT !.step = "children",
                                          !.todo[cascade.at] = DerivedHosts(cascade.at)]
        PROVE  cascade' \in Cascade /\ FramesOK'
    BY <1>1, <1>2, <2>1, <2>2 DEF ThreadsOK, FramesOK, Retiring, Cascade
  <2> QED BY <1>2, <1>6, <1>7, <2>2 DEF CascadeBegin, ThreadsOK
<1>8. CASE CascadeChild
  <2>1. PICK k \in cascade.todo[cascade.at] :
          IF k \in cascade.visited
          THEN /\ cascade' = [cascade EXCEPT !.step = "derived", !.child = k]
               /\ UNCHANGED pending
          ELSE IF Cardinality(cascade.visited) >= CascadeCapacity
          THEN Blocked
          ELSE /\ cascade' = [cascade EXCEPT !.step = "begin", !.at = k,
                                             !.visited = @ \cup {k},
                                             !.parent[k] = cascade.at]
               /\ UNCHANGED pending
    BY <1>8 DEF CascadeChild
  <2>2. k \in Keys
    BY <1>1, <1>2 DEF ThreadsOK, Cascade
  <2>3. ASSUME cascade' = [cascade EXCEPT !.step = "derived", !.child = k]
        PROVE  cascade' \in Cascade /\ FramesOK'
    BY <1>1, <1>2, <2>2, <2>3 DEF ThreadsOK, FramesOK, Retiring, Cascade
  <2>4. ASSUME k \notin cascade.visited,
               cascade' = [cascade EXCEPT !.step = "begin", !.at = k,
                                          !.visited = @ \cup {k},
                                          !.parent[k] = cascade.at]
        PROVE  cascade' \in Cascade /\ FramesOK'
    <3>1. cascade' \in Cascade
      BY <1>1, <1>2, <2>2, <2>4 DEF ThreadsOK, Cascade
    <3>2. /\ cascade'.root = cascade.root /\ cascade'.at = k
          /\ cascade'.visited = cascade.visited \cup {k}
          /\ cascade'.parent = [cascade.parent EXCEPT ![k] = cascade.at]
      BY <1>2, <2>4 DEF ThreadsOK, Cascade
    <3>3. cascade.parent \in [Keys -> KeyOrNone] /\ cascade.visited \subseteq Keys
      BY <1>2 DEF ThreadsOK, Cascade
    <3> QED BY <1>1, <1>2, <2>2, <2>4, <3>1, <3>2, <3>3 DEF FramesOK
  <2> QED BY <1>2, <1>6, <1>8, <2>1, <2>3, <2>4 DEF CascadeChild, ThreadsOK
<1>9. CASE CascadeDerived
  BY <1>1, <1>2, <1>9 DEF CascadeDerived, ThreadsOK, FramesOK, Retiring, Cascade
<1>10. CASE CascadeSource
  BY <1>1, <1>2, <1>10 DEF CascadeSource, ThreadsOK, FramesOK, Retiring, Cascade
<1>11. CASE CascadeRetire
  <2>1. sess' \in [Sessions -> Session]
    BY <1>2, <1>11 DEF CascadeRetire, Invalidated, Unbound, ThreadsOK, Session
  <2> QED BY <1>1, <1>2, <1>11, <2>1 DEF CascadeRetire, ThreadsOK, FramesOK, Retiring, Cascade
<1>12. CASE CascadeFinish
  <2>1. CASE cascade.at = cascade.root
    BY <1>2, <1>12, <2>1, IdleTypes DEF CascadeFinish, ThreadsOK, FramesOK, Retiring
  <2>2. CASE cascade.at # cascade.root
    <3>1. cascade.parent[cascade.at] \in cascade.visited
      BY <1>1, <1>2, <2>2 DEF FramesOK
    <3> QED BY <1>1, <1>2, <1>12, <2>2, <3>1
            DEF CascadeFinish, ThreadsOK, FramesOK, Retiring, Cascade
  <2> QED BY <2>1, <2>2
<1> QED BY <1>7, <1>8, <1>9, <1>10, <1>11, <1>12 DEF CascadeNext

(* A retirement that starts has a frame for its root, and an event that     *)
(* starts one waits for it before it goes on.                               *)
LEMMA StartFrames ==
  ASSUME NEW k \in KeyOrNone, cascade' = Start(k)
  PROVE  cascade' \in Cascade /\ FramesOK'
BY StartType DEF FramesOK, Retiring, Start, NoCascade

LEMMA SameFrames ==
  ASSUME FramesOK, cascade' = cascade
  PROVE  FramesOK'
BY DEF FramesOK, Retiring

LEMMA OwnedType ==
  ASSUME NEW c \in Sessions, ThreadsOK
  PROVE  Owned(c) \in KeyOrNone /\ Refreshed(c) \in Session
BY DEF Owned, Refreshed, Unbound, ThreadsOK, Session

(* Beginning an event takes the lock and works on one connection. *)
LEMMA BeginControl ==
  ASSUME Inv, EventBegins
  PROVE  ControlOK'
<1> USE DEF ControlOK
<1>1. ControlOK
  BY InvParts
<1>2. ASSUME NEW c \in Sessions, NEW phase \in Phase, Detach(c, phase, "tail"),
             lock' = BapEvent, UNCHANGED <<pending, draining, sv, claim, caller>>
      PROVE  ControlOK'
  <2>1. sess' \in [Sessions -> Session]
    BY <1>1, <1>2 DEF Detach, ThreadsOK, Session, ClosedSession
  <2>2. cascade' \in Cascade /\ FramesOK'
    BY <1>1, <1>2, OwnedType, StartFrames DEF Detach
  <2>3. ev' \in Event /\ EventOK'
    BY <1>2 DEF Detach, NoEvent, Event, EventOK, InSession
  <2> QED BY <1>1, <1>2, <2>1, <2>2, <2>3 DEF ThreadsOK, ServiceOK
<1>3. ASSUME NEW c \in Sessions, Open(c) \/ Close(c) \/ Hello(c)
      PROVE  ControlOK'
  BY <1>2, <1>3 DEF Open, Close, Hello, Begins, Phase
<1>4. ASSUME NEW c \in Sessions, NEW pc \in {"allocate", "lineage", "bound", "identity"},
             NEW k \in KeyOrNone, NEW g \in GroupOrNone, NEW defers \in BOOLEAN,
             Frame(c, pc, k, g, defers), lock' = BapEvent
      PROVE  ControlOK'
  <2>1. sess' \in [Sessions -> Session]
    BY <1>1, <1>4, OwnedType DEF Frame, ThreadsOK
  <2>2. ev' \in Event /\ EventOK'
    BY <1>4 DEF Frame, NoEvent, Event, EventOK, InSession, GroupOrNone
  <2> QED BY <1>1, <1>4, <2>1, <2>2, SameFrames DEF Frame, ThreadsOK, ServiceOK
<1>5. ASSUME NEW c \in Sessions, Allocate(c)
      PROVE  ControlOK'
  BY <1>4, <1>5 DEF Allocate, Begins, GroupOrNone
<1>6. ASSUME NEW c \in Sessions, Join(c)
      PROVE  ControlOK'
  BY <1>4, <1>6 DEF Join, Begins, GroupOrNone, Inv, TypeOK, RecordsTypeOK
<1>7. ASSUME NEW c \in Sessions, NEW g \in Groups, Report(c, g)
      PROVE  ControlOK'
  BY <1>4, <1>7 DEF Report, Begins, GroupOrNone
<1>10. ASSUME NEW c \in Sessions, NEW g \in Groups, Identify(c, g)
       PROVE  ControlOK'
  <2>1. sess[c].instance \in KeyOrNone
    BY <1>1 DEF ThreadsOK, Session
  <2> QED BY <1>4, <1>10, <2>1 DEF Identify, Begins, GroupOrNone
<1>8. ASSUME NEW c \in Sessions, Poll(c)
      PROVE  ControlOK'
  <2>1. sess' \in [Sessions -> Session]
    BY <1>1, <1>8, OwnedType DEF Poll, ThreadsOK
  <2>2. ev' \in Event /\ EventOK'
    BY <1>8 DEF Poll, NoEvent, Event, EventOK, InSession
  <2> QED BY <1>1, <1>8, <2>1, <2>2, SameFrames DEF Poll, Begins, ThreadsOK, ServiceOK
<1>9. CASE Shutdown
  <2>1. ev' \in Event /\ EventOK'
    BY <1>9 DEF Shutdown, NoEvent, Event, EventOK, InSession
  <2> QED BY <1>1, <1>9, <2>1, SameFrames DEF Shutdown, Begins, ThreadsOK, ServiceOK
<1> QED BY <1>3, <1>5, <1>6, <1>7, <1>8, <1>9, <1>10 DEF EventBegins

(* The steps of an event that only move its program counter. *)
LEMMA EventMove ==
  ASSUME ControlOK, ev' \in Event, EventOK', UNCHANGED <<bapVars, sv, claim, caller>>
  PROVE  ControlOK'
BY SameFrames DEF ControlOK, ThreadsOK, ServiceOK, bapVars

(* A claim starts with the region and the source it is for. *)
LEMMA StartClaimType ==
  ASSUME claim \in [Claimants -> Claim], NEW a, NEW g \in Groups \cup {NoGroup},
         NEW k \in KeyOrNone, StartClaim(a, g, k)
  PROVE  claim' \in [Claimants -> Claim]
<1>1. [NoClaim EXCEPT !.pc = "row", !.group = g, !.source = k] \in Claim
  BY DEF NoClaim, Claim
<1> QED BY <1>1 DEF StartClaim

(* Every other step of an event. *)
LEMMA EventControl ==
  ASSUME Inv, EventSteps
  PROVE  ControlOK'
<1> USE DEF ControlOK
<1>1. ControlOK
  BY InvParts
<1>2. ev \in Event /\ EventOK
  BY <1>1 DEF ThreadsOK
<1>4. CASE ShutdownSession
  <2>1. PICK c \in ev.todo : /\ sess' = [sess EXCEPT ![c] = ClosedSession]
                             /\ cascade' = Start(Owned(c))
                             /\ ev' = [ev EXCEPT !.todo = @ \ {c}]
    BY <1>4 DEF ShutdownSession
  <2>2. c \in Sessions
    BY <1>2 DEF Event
  <2>3. ev' \in Event /\ EventOK'
    BY <1>2, <1>4, <2>1 DEF ShutdownSession, InEvent, Event, EventOK, InSession
  <2>4. cascade' \in Cascade /\ FramesOK'
    BY <1>1, <2>1, <2>2, OwnedType, StartFrames
  <2> QED BY <1>1, <1>4, <2>1, <2>3, <2>4, IdleTypes DEF ShutdownSession, ThreadsOK, ServiceOK
<1>5. CASE ShutdownDone
  BY <1>1, <1>2, <1>5, EventMove DEF ShutdownDone, InEvent, Event, EventOK, InSession
<1>6. CASE Retired
  BY <1>1, <1>2, <1>6, EventMove DEF Retired, InEvent, Event, EventOK, InSession
<1>7. CASE AllocateCommit
  <2>1. ev.session \in Sessions /\ ev.pc \in InSession
    BY <1>7, EventSession DEF AllocateCommit, InEvent, InSession
  <2>2. plan[BapEvent].key \in KeyOrNone
    BY DEF Inv, TypeOK, RecordsTypeOK, Planners, Plan
  <2>3. sess' \in [Sessions -> Session]
    BY <1>1, <1>7, <2>2 DEF AllocateCommit, ThreadsOK, Session, Phase
  <2>4. cascade' \in Cascade /\ FramesOK'
    <3>1. PICK k, r : cascade' = Start(LeaseToRetire(ev.session, k, FALSE, r))
      BY <1>7 DEF AllocateCommit
    <3>2. LeaseToRetire(ev.session, k, FALSE, r) \in KeyOrNone
      BY <1>1, <2>1, OwnedType DEF LeaseToRetire
    <3> QED BY <3>1, <3>2, StartFrames
  <2>5. ev' \in Event /\ EventOK'
    BY <1>2, <1>7, <2>1 DEF AllocateCommit, Event, EventOK, InSession
  <2> QED BY <1>1, <1>7, <2>3, <2>4, <2>5 DEF AllocateCommit, ThreadsOK, ServiceOK
<1>8. CASE JoinPublish
  <2>1. ev.session \in Sessions /\ sess[ev.session] \in Session
    BY <1>8, EventSession DEF JoinPublish, InEvent, InSession
  <2>2. ev.key \in KeyOrNone /\ lease[Binding].source \in KeyOrNone
    BY <1>2, RetirementAssumption
       DEF Event, Inv, TypeOK, HostTypeOK, Lease, EventLeases
  <2>3. sess' \in [Sessions -> Session]
    BY <1>1, <1>8, <2>1, <2>2 DEF JoinPublish, ThreadsOK, Session
  <2>4. cascade' \in Cascade /\ FramesOK'
    <3>1. LeaseToRetire(ev.session, ev.key, TRUE, NoKey) \in KeyOrNone
      BY <1>1, <2>1, OwnedType DEF LeaseToRetire
    <3> QED BY <1>8, <3>1, StartFrames DEF JoinPublish
  <2>5. ev' \in Event /\ EventOK'
    BY <1>2, <1>8, <2>1 DEF JoinPublish, Event, EventOK, InSession
  <2> QED BY <1>1, <1>8, <2>3, <2>4, <2>5 DEF JoinPublish, ThreadsOK, ServiceOK
<1>9. CASE AllocateReject \/ JoinDirect \/ JoinLease \/ JoinRefused \/ JoinDiscard
  BY <1>1, <1>2, <1>9, EventMove
     DEF AllocateReject, JoinDirect, JoinLease, JoinRefused, JoinDiscard, InEvent, Event,
         EventOK, InSession
<1>10. CASE ReportStale \/ ReportHeld \/ ReportAcquire \/ ReportLost
  <2>1. HeldHost(ev.group) \in KeyOrNone
    BY DEF HeldHost, FirstOf, Named, Inv, TypeOK, HostTypeOK, Row
  <2>2. CASE ReportHeld
    <3>1. ev' \in Event /\ EventOK'
      BY <1>2, <2>1, <2>2 DEF ReportHeld, InEvent, Event, EventOK, InSession
    <3> QED BY <1>1, <2>2, <3>1, EventMove DEF ReportHeld
  <2>3. CASE ReportAcquire
    <3>1. ev' \in Event /\ EventOK'
      BY <1>2, <2>3 DEF ReportAcquire, InEvent, Event, EventOK, InSession
    <3> QED BY <1>1, <2>3, <3>1, EventMove DEF ReportAcquire
  <2> QED
    BY <1>1, <1>2, <1>10, <2>2, <2>3, EventMove
       DEF ReportStale, ReportLost, InEvent, Event, EventOK, InSession
<1>11. CASE ReportCommit \/ ReportDiscard \/ EventRelease \/ EventReleased
            \/ \E g \in Groups : Deferred(g)
  BY <1>1, <1>2, <1>11, EventMove
     DEF ReportCommit, ReportDiscard, EventRelease, EventReleased, Deferred, InEvent, Event,
         EventOK, InSession
<1>12. CASE IdentityClaim \/ ReportOwned \/ ReportBorrowed
  <2>1. /\ ev.session \in Sessions /\ sess[ev.session] \in Session
        /\ ev.pc \in {"bound", "identity"}
    BY <1>12, EventSession DEF IdentityClaim, ReportOwned, ReportBorrowed, InEvent, InSession
  <2>2. ev' \in Event /\ EventOK'
    BY <1>2, <1>12, <2>1
       DEF IdentityClaim, ReportOwned, ReportBorrowed, Event, EventOK, InSession
  <2>3. claim' \in [Claimants -> Claim]
    <3>1. \/ StartClaim(BapEvent, ev.group, sess[ev.session].source)
          \/ StartClaim(BapEvent, ev.group, ev.key)
          \/ UNCHANGED claim
      BY <1>12 DEF IdentityClaim, ReportOwned, ReportBorrowed
    <3>2. ev.group \in Groups \cup {NoGroup} /\ {sess[ev.session].source, ev.key} \subseteq KeyOrNone
      BY <1>2, <2>1 DEF Event, Session
    <3> QED BY <1>1, <3>1, <3>2, StartClaimType DEF ThreadsOK
  <2> QED
    BY <1>1, <1>12, <2>2, <2>3, SameFrames
       DEF IdentityClaim, ReportOwned, ReportBorrowed, ThreadsOK, ServiceOK, bapVars
<1>13. CASE Tail
  <2>1. ev' \in Event /\ EventOK'
    BY <1>13 DEF Tail, NoEvent, Event, EventOK, InSession
  <2> QED BY <1>1, <1>13, <2>1, SameFrames DEF Tail, ThreadsOK, ServiceOK
<1>14. CASE EventDrained
  <2>1. ev' \in Event /\ EventOK'
    BY <1>2, <1>14, IdleTypes DEF EventDrained, InEvent, NoEvent, Event, EventOK, InSession
  <2> QED BY <1>1, <1>14, <2>1, SameFrames DEF EventDrained, ThreadsOK, ServiceOK
<1> QED
  BY <1>4, <1>5, <1>6, <1>7, <1>8, <1>9, <1>10, <1>11, <1>12, <1>13, <1>14 DEF EventSteps

(* The steps of activity_host_session. *)
LEMMA ClaimControl ==
  ASSUME Inv, NEW a \in Claimants, ClaimSteps(a)
  PROVE  ControlOK'
<1> USE DEF ControlOK
<1>1. ControlOK
  BY InvParts
<1>2. claim[a] \in Claim /\ ev \in Event /\ EventOK /\ NoClaim \in Claim
  BY <1>1, IdleTypes DEF ThreadsOK
<1>3. UNCHANGED <<bapVars, sv, caller>>
  BY DEF ClaimSteps, ClaimTake, ClaimRecheck, ClaimDrop, ClaimPublish, ClaimClear
<1>4. SUFFICES claim' \in [Claimants -> Claim] /\ ev' \in Event /\ EventOK'
  BY <1>1, <1>3, SameFrames DEF ThreadsOK, ServiceOK, bapVars
<1>5. ASSUME NEW ready, Answer(a, ready), claim[a].pc # "idle"
      PROVE  claim' \in [Claimants -> Claim] /\ ev' \in Event /\ EventOK'
  <2>1. a = BapEvent => ev.pc = "claiming"
    BY <1>5 DEF Inv, ClaimOK
  <2>2. ev' \in Event /\ EventOK'
    BY <1>2, <1>5, <2>1 DEF Answer, Event, EventOK, InSession
  <2> QED BY <1>1, <1>2, <1>5, <2>2 DEF Answer, ThreadsOK
<1>6. ASSUME NEW pc \in {"row", "recheck", "drop", "publish", "clear"}, ClaimGoes(a, pc)
      PROVE  claim' \in [Claimants -> Claim] /\ ev' \in Event /\ EventOK'
  <2>1. [claim[a] EXCEPT !.pc = pc] \in Claim
    BY <1>2, <1>6 DEF Claim
  <2> QED BY <1>1, <1>2, <1>6, <2>1 DEF ClaimGoes, ThreadsOK, EventOK
<1>7. CASE ClaimTake(a)
  <2>1. CASE ClaimRefused(claim[a].group, claim[a].source)
    BY <1>5, <1>7, <2>1 DEF ClaimTake, ClaimStep
  <2>2. CASE ~ClaimRefused(claim[a].group, claim[a].source)
    <3>1. HeldHost(claim[a].group) \in KeyOrNone
      BY DEF HeldHost, FirstOf, Named, Inv, TypeOK, HostTypeOK, Row
    <3>2. PICK pc \in {"publish", "recheck"} :
            claim' = [claim EXCEPT ![a].held = HeldHost(claim[a].group), ![a].pc = pc]
      BY <1>7, <2>2 DEF ClaimTake
    <3>3. [claim[a] EXCEPT !.held = HeldHost(claim[a].group), !.pc = pc] \in Claim
      BY <1>2, <3>1 DEF Claim
    <3>4. claim' = [claim EXCEPT ![a] = [claim[a] EXCEPT !.held = HeldHost(claim[a].group),
                                                         !.pc = pc]]
      BY <1>1, <3>2 DEF ThreadsOK
    <3>5. UNCHANGED ev
      BY <1>7, <2>2 DEF ClaimTake
    <3> QED BY <1>1, <1>2, <3>3, <3>4, <3>5 DEF ThreadsOK, EventOK
  <2> QED BY <2>1, <2>2
<1>8. CASE ClaimRecheck(a)
  BY <1>6, <1>8 DEF ClaimRecheck
<1>9. CASE ClaimDrop(a)
  BY <1>5, <1>9 DEF ClaimDrop, ClaimStep
<1>10. CASE ClaimPublish(a)
  BY <1>5, <1>6, <1>10 DEF ClaimPublish, ClaimStep
<1>11. CASE ClaimClear(a)
  BY <1>5, <1>11 DEF ClaimClear, ClaimStep
<1> QED BY <1>7, <1>8, <1>9, <1>10, <1>11 DEF ClaimSteps

(* The steps of the service thread. *)
LEMMA ServiceControl ==
  ASSUME Inv, ServiceBegins \/ ServiceSteps
  PROVE  ControlOK'
<1> USE DEF ControlOK
<1>1. ControlOK
  BY InvParts
<1>2. sv \in ServiceCall /\ ServiceOK /\ NoCall \in ServiceCall
  BY <1>1, IdleTypes DEF ThreadsOK
<1>3. ASSUME sv' \in ServiceCall, ServiceOK', UNCHANGED <<bapVars, ev, claim, caller>>
      PROVE  ControlOK'
  BY <1>1, <1>3, SameFrames DEF ThreadsOK, EventOK, bapVars
<1>4. CASE Slice
  <2>1. sv' \in ServiceCall /\ ServiceOK'
    BY <1>2, <1>4 DEF Slice, NoCall, ServiceCall, ServiceOK
  <2> QED BY <1>3, <1>4, <2>1 DEF Slice
<1>5. CASE Reset
  <2>1. {rows[s].host : s \in Resettable} \ {NoKey} \subseteq Keys
    BY DEF Resettable, Inv, TypeOK, HostTypeOK, Row
  <2>2. sv' \in ServiceCall /\ ServiceOK'
    BY <1>2, <1>5, <2>1 DEF Reset, NoCall, ServiceCall, ServiceOK
  <2> QED BY <1>3, <1>5, <2>2 DEF Reset
<1>6. ASSUME NEW g \in Groups, Lookup(g)
      PROVE  ControlOK'
  <2>1. HeldHost(g) \in KeyOrNone
    BY DEF HeldHost, FirstOf, Named, Inv, TypeOK, HostTypeOK, Row
  <2>2. sv' \in ServiceCall /\ ServiceOK'
    BY <1>2, <1>6, <2>1 DEF Lookup, NoCall, ServiceCall, ServiceOK
  <2> QED BY <1>3, <1>6, <2>2 DEF Lookup
<1>7. ASSUME NEW g \in Groups, NEW m \in Groups, Alias(g, m)
      PROVE  ControlOK'
  BY <1>1, <1>2, <1>3, <1>7 DEF Alias, ServiceOK, actorVars
<1>8. CASE ServiceTake
  <2>1. {e.host : e \in Freeable} \ {NoKey} \subseteq Keys
    BY DEF Freeable, Inv, TypeOK, HostTypeOK, EvictedHost
  <2>2. sv' \in ServiceCall /\ ServiceOK'
    BY <1>2, <1>8, <2>1 DEF ServiceTake, ServiceCall, ServiceOK
  <2> QED BY <1>3, <1>8, <2>2 DEF ServiceTake
<1>9. CASE ServiceRetire
  <2>1. PICK k \in sv.freed : /\ cascade' = Start(k)
                              /\ sv' = [sv EXCEPT !.pc = "freeing", !.freed = @ \ {k}]
    BY <1>9 DEF ServiceRetire
  <2>2. k \in KeyOrNone
    BY <1>2 DEF ServiceCall
  <2>3. sv' \in ServiceCall /\ ServiceOK'
    BY <1>2, <1>9, <2>1 DEF ServiceRetire, ServiceCall, ServiceOK
  <2>4. cascade' \in Cascade /\ FramesOK'
    BY <2>1, <2>2, StartFrames
  <2> QED BY <1>1, <1>9, <2>3, <2>4 DEF ServiceRetire, ThreadsOK, EventOK
<1>10. CASE ServiceUnlock
  <2>1. sv' \in ServiceCall /\ ServiceOK'
    BY <1>2, <1>10 DEF ServiceUnlock, ServiceCall, ServiceOK
  <2> QED BY <1>1, <1>10, <2>1, SameFrames DEF ServiceUnlock, ThreadsOK, EventOK
<1>11. CASE ServiceFreed
  <2>1. sv' \in ServiceCall /\ ServiceOK'
    BY <1>2, <1>11 DEF ServiceFreed, NoCall, ServiceCall, ServiceOK
  <2> QED BY <1>3, <1>11, <2>1 DEF ServiceFreed
<1>12. CASE ServicePick
  <2>1. sv' \in ServiceCall /\ ServiceOK'
    BY <1>2, <1>12
       DEF ServicePick, Claimed, FirstOf, NoCall, ServiceCall, ServiceOK, Inv, TypeOK, HostTypeOK,
           Row
  <2> QED BY <1>3, <1>12, <2>1 DEF ServicePick
<1>13. CASE ServiceInherit \/ ServiceDrop
  <2>1. sv' \in ServiceCall /\ ServiceOK'
    BY <1>2, <1>13 DEF ServiceInherit, ServiceDrop, NoCall, ServiceCall, ServiceOK
  <2> QED BY <1>3, <1>13, <2>1 DEF ServiceInherit, ServiceDrop
<1>14. CASE ServicePrepare \/ ServiceReject
  <2>1. sv' \in ServiceCall /\ ServiceOK'
    BY <1>2, <1>14 DEF ServicePrepare, ServiceReject, NoCall, ServiceCall, ServiceOK
  <2> QED BY <1>3, <1>14, <2>1 DEF ServicePrepare, ServiceReject
<1>15. CASE ServiceCommit
  <2>1. plan[Service].key \in Keys
    BY <1>15 DEF ServiceCommit, CommitSession, CanCommit, Inv, TypeOK, RecordsTypeOK, Planners,
                Plan
  <2>2. sv' \in ServiceCall /\ ServiceOK'
    BY <1>2, <1>15, <2>1 DEF ServiceCommit, ServiceCall, ServiceOK
  <2> QED BY <1>3, <1>15, <2>2 DEF ServiceCommit
<1>16. CASE ServiceStore
  <2>1. sv.key \in Keys
    BY <1>2, <1>16 DEF ServiceStore, ServiceOK
  <2>2. sv' \in ServiceCall /\ ServiceOK'
    BY <1>2, <1>16, <2>1 DEF ServiceStore, NoCall, ServiceCall, ServiceOK
  <2> QED BY <1>3, <1>16, <2>2 DEF ServiceStore
<1>17. CASE LookupCheck \/ LookupClear
  <2>1. sv' \in ServiceCall /\ ServiceOK'
    BY <1>2, <1>17 DEF LookupCheck, LookupClear, NoCall, ServiceCall, ServiceOK
  <2> QED BY <1>3, <1>17, <2>1 DEF LookupCheck, LookupClear
<1> QED
  BY <1>4, <1>5, <1>6, <1>7, <1>8, <1>9, <1>10, <1>11, <1>12, <1>13, <1>14, <1>15, <1>16, <1>17
     DEF ServiceBegins, ServiceSteps

(* The steps of the threads outside the BAP lock, and of whoever drains. *)
LEMMA CallerControl ==
  ASSUME Inv, NEW a \in Callers, CallerClaim(a) \/ CallerLease(a) \/ CallerSteps(a)
  PROVE  ControlOK'
<1> USE DEF ControlOK
<1>1. ControlOK
  BY InvParts
<1>2. ASSUME NEW step \in CallerStep, CallerGoes(a, step)
      PROVE  caller' \in [Callers -> CallerStep]
  BY <1>1, <1>2 DEF CallerGoes, ThreadsOK
<1>3. CASE CallerClaim(a)
  <2>1. PICK g \in Groups, k \in live \cup {NoKey} : StartClaim(a, g, k)
    BY <1>3 DEF CallerClaim
  <2>2. k \in KeyOrNone
    BY DEF Inv, TypeOK, RecordsTypeOK
  <2>3. claim' \in [Claimants -> Claim]
    BY <1>1, <2>1, <2>2, StartClaimType DEF ThreadsOK
  <2> QED BY <1>1, <1>3, <2>3, SameFrames DEF CallerClaim, bapVars, ThreadsOK, EventOK, ServiceOK
<1>4. CASE CallerLease(a) \/ CallerRelease(a)
  BY <1>1, <1>2, <1>4, SameFrames
     DEF CallerLease, CallerRelease, CallerStep, bapVars, ThreadsOK, EventOK, ServiceOK
<1>5. CASE CallerRetry(a) \/ CallerDrained(a)
  BY <1>1, <1>2, <1>5, SameFrames
     DEF CallerRetry, CallerDrained, CallerStep, ThreadsOK, EventOK, ServiceOK
<1> QED BY <1>3, <1>4, <1>5 DEF CallerSteps

LEMMA OtherControl ==
  ASSUME Inv, DrainRoot \/ Revise
  PROVE  ControlOK'
<1> USE DEF ControlOK
<1>1. ControlOK
  BY InvParts
<1>2. CASE DrainRoot
  <2>1. PICK k \in draining : cascade' = Start(k) /\ draining' = draining \ {k}
    BY <1>2 DEF DrainRoot
  <2>2. cascade' \in Cascade /\ FramesOK'
    BY <1>1, <2>1, StartFrames DEF ThreadsOK
  <2> QED BY <1>1, <1>2, <2>1, <2>2 DEF DrainRoot, actorVars, ThreadsOK, EventOK, ServiceOK
<1>3. CASE Revise
  BY <1>1, <1>3, SameFrames DEF Revise, bapVars, actorVars, ThreadsOK, EventOK, ServiceOK
<1> QED BY <1>2, <1>3

(* The event that called activity_host_session waits for its answer. *)
LEMMA ClaimFollows ==
  ASSUME Inv, Next
  PROVE  ClaimOK'
<1>1. ClaimOK /\ claim \in [Claimants -> Claim] /\ BapEvent \in Claimants
  BY DEF Inv, TypeOK, Claimants
<1>2. CASE UNCHANGED <<ev, claim>>
  BY <1>1, <1>2 DEF ClaimOK
<1>3. CASE EventBegins \/ EventSteps
  <2>1. \/ ev.pc # "claiming" /\ UNCHANGED claim
        \/ IdentityClaim \/ ReportOwned \/ ReportBorrowed
    BY <1>3
       DEF EventBegins, Open, Close, Hello, Allocate, Join, Poll, Report, Identify, Shutdown, Begins, Frame,
           EventSteps, ShutdownSession, ShutdownDone, Retired, AllocateCommit,
           AllocateReject, JoinDirect, JoinLease, JoinRefused, JoinPublish, JoinDiscard,
           Deferred, ReportStale, ReportHeld, ReportAcquire, ReportLost, ReportCommit,
           ReportDiscard, EventRelease, EventReleased, Tail, EventDrained, InEvent
  <2>2. CASE IdentityClaim \/ ReportOwned \/ ReportBorrowed
    BY <1>1, <2>2 DEF IdentityClaim, ReportOwned, ReportBorrowed, InEvent, ClaimOK, Inv, TypeOK, Event
  <2> QED BY <1>1, <2>1, <2>2 DEF ClaimOK
<1>4. ASSUME NEW a \in Claimants, ClaimSteps(a) PROVE ClaimOK'
  <2>1. claim[a].pc # "idle"
    BY <1>4 DEF ClaimSteps, ClaimTake, ClaimRecheck, ClaimDrop, ClaimPublish, ClaimClear,
                ClaimStep
  <2>2. \/ UNCHANGED ev /\ \A b \in Claimants \ {a} : claim'[b] = claim[b]
        \/ claim'[a] = NoClaim /\ a = BapEvent
    BY <1>1, <1>4 DEF ClaimSteps, ClaimTake, ClaimRecheck, ClaimDrop, ClaimPublish, ClaimClear,
                      ClaimGoes, Answer
  <2> QED BY <1>1, <2>1, <2>2 DEF ClaimOK, NoClaim
<1>5. ASSUME NEW a \in Callers, CallerClaim(a) PROVE ClaimOK'
  BY <1>1, <1>5, RetirementAssumption DEF CallerClaim, StartClaim, ClaimOK
<1>6. CASE CascadeNext
  BY <1>2, <1>6 DEF CascadeNext, CascadeBegin, CascadeChild, CascadeDerived, CascadeSource,
                    CascadeRetire, CascadeFinish, actorVars
<1>7. CASE ServiceBegins \/ ServiceSteps
  BY <1>2, <1>7
     DEF ServiceBegins, ServiceSteps, Slice, Reset, Lookup, Alias, ServiceTake, ServiceRetire,
         ServiceUnlock, ServiceFreed, ServicePick, ServiceInherit, ServiceDrop, ServicePrepare,
         ServiceCommit, ServiceReject, ServiceStore, LookupCheck, LookupClear, actorVars
<1>8. ASSUME NEW a \in Callers, CallerLease(a) \/ CallerSteps(a) PROVE ClaimOK'
  BY <1>2, <1>8 DEF CallerLease, CallerSteps, CallerRelease, CallerRetry, CallerDrained
<1>9. CASE DrainRoot \/ Revise
  BY <1>2, <1>9 DEF DrainRoot, Revise, actorVars
<1> QED BY <1>3, <1>4, <1>5, <1>6, <1>7, <1>8, <1>9 DEF Next

(***************************************************************************)
(* The invariant                                                           *)
(***************************************************************************)
LEMMA InitInv == Init => Inv
<1> SUFFICES ASSUME Init PROVE Inv
  OBVIOUS
<1>1. RecordsTypeOK
  BY RecordsAssumption DEF Init, RecordsInit, RecordsTypeOK, NoPlan, Plan
<1>2. HostTypeOK
  BY FreeTypes DEF Init, HostInit, HostTypeOK
<1>3. ControlOK
  BY IdleTypes DEF Init, ControlOK, ThreadsOK, FramesOK, Retiring, EventOK, ServiceOK, NoEvent,
                   NoCall, InSession, CallerStep
<1>4. ClaimOK
  BY DEF Init, ClaimOK, Claimants, NoClaim
<1> QED BY <1>1, <1>2, <1>3, <1>4, InvParts

LEMMA NextInv == Inv /\ [Next]_vars => Inv'
<1>1. ASSUME Inv, Next PROVE Inv'
  <2>1. RecordsTypeOK'
    BY <1>1, InvParts, RecordSteps, RecordsStepType
  <2>2. HostTypeOK'
    BY <1>1, InvParts, TableSteps, HostStepType
  <2>3. ControlOK'
    BY <1>1, BeginControl, EventControl, ServiceControl, CascadeControl, ClaimControl,
       CallerControl, OtherControl DEF Next
  <2>4. ClaimOK'
    BY <1>1, ClaimFollows
  <2> QED BY <2>1, <2>2, <2>3, <2>4 DEF Inv, TypeOK, ControlOK, ThreadsOK
<1>2. ASSUME Inv, UNCHANGED vars PROVE Inv'
  <2>1. UNCHANGED recordVars /\ UNCHANGED hostVars
    BY <1>2 DEF vars
  <2>2. RecordsTypeOK' /\ HostTypeOK'
    BY <1>2, <2>1, InvParts, RecordsStepType, HostStepType
  <2>3. ControlOK' /\ ClaimOK'
    BY <1>2, InvParts, SameFrames
       DEF vars, bapVars, actorVars, ControlOK, ThreadsOK, EventOK, ServiceOK, ClaimOK
  <2> QED BY <2>2, <2>3 DEF Inv, TypeOK, ControlOK, ThreadsOK
<1> QED BY <1>1, <1>2

(* Every variable keeps its type, on every interleaving of connections,     *)
(* service slices and callers: in particular a retirement only ever walks   *)
(* records the allocator issued, and always returns to a frame it came from *)
(* (retire_activity_tree_locked, bap_route.cpp).                            *)
THEOREM TypeCorrect == Spec => []TypeOK
<1>1. Inv => TypeOK
  BY DEF Inv
<1> QED BY InitInv, NextInv, <1>1, PTL DEF Spec

(* A group id is answered by at most one row of the host-session table,     *)
(* however claims, evictions, migrations and retirements interleave         *)
(* (claim_locked and alias_host_session, group_host_sessions.cpp).          *)
THEOREM NamesStayApart == Spec => []RowsNamedApart
<1>1. Init => RowsNamedApart
  BY DEF Init, HostInit, RowsNamedApart, Names, Occupied, FreeRow
<1>2. Inv /\ RowsNamedApart /\ [Next]_vars => RowsNamedApart'
  <2>1. ASSUME Inv, RowsNamedApart, Next PROVE RowsNamedApart'
    BY <2>1, InvParts, TableSteps, HostStepNamed
  <2>2. ASSUME Inv, RowsNamedApart, UNCHANGED vars PROVE RowsNamedApart'
    <3>1. UNCHANGED hostVars
      BY <2>2 DEF vars
    <3> QED BY <2>2, <3>1, InvParts, HostStepNamed
  <2> QED BY <2>1, <2>2
<1> QED BY InitInv, NextInv, <1>1, <1>2, PTL DEF Spec
=============================================================================
