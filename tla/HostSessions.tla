---------------------------- MODULE HostSessions ----------------------------
(***************************************************************************)
(* The activity host-session table of server/gameplay/group: the rows this *)
(* host advertises, one per region, the sessions an eviction took a row    *)
(* from, the fences of the sources being retired, and the leases that pin  *)
(* a row while a BAP snapshot is built, committed and copied.              *)
(*                                                                         *)
(* Every action below is one critical section of g_hostSessionLock.  The   *)
(* lock is never held across a State call, so what a caller read from      *)
(* State before or after it is an argument here.                           *)
(*                                                                         *)
(* A region is represented by the group id it is advertised under.  The    *)
(* use stamp is kept as the order it induces on the rows, and a row's      *)
(* generation as an identity no other row and no lease still carries: the  *)
(* code only compares stamps, and only tests generations for equality.     *)
(***************************************************************************)
EXTENDS ActivityRecords

CONSTANTS
    Groups,            \* group session ids
    NoGroup,           \* the zero group session id
    RowCapacity,       \* kHostSessionCapacity, of the rows and of g_evicted
    FenceCapacity,     \* kSourceRetirementFenceCapacity
    LeaseHolders       \* the HostActivityLineageLease objects that can exist

ASSUME HostAssumption ==
    /\ NoGroup \notin Groups
    /\ RowCapacity \in Nat \ {0}
    /\ FenceCapacity \in Nat \ {0}
    /\ IsFiniteSet(LeaseHolders)

VARIABLES
    rows,        \* g_hostSessions
    usedBefore,  \* <<s, t>> when row s carries an older use stamp than row t
    evicted,     \* g_evicted: detached hosts the service slice must free
    fences,      \* g_retiringSources
    lease        \* lease[h]: what lease object h pins

hostVars == <<rows, usedBefore, evicted, fences, lease>>

Slots == 1 .. RowCapacity
NoSlot == 0
NoGeneration == 0
Generations == 1 .. RowCapacity + Cardinality(LeaseHolders) + 1

(* A row is free when it names no group. *)
Row == [group : Groups \cup {NoGroup}, alias : Groups \cup {NoGroup},
        host : KeyOrNone, source : KeyOrNone,
        generation : Generations \cup {NoGeneration}, pins : Nat]
FreeRow == [group |-> NoGroup, alias |-> NoGroup, host |-> NoKey, source |-> NoKey,
            generation |-> NoGeneration, pins |-> 0]

Lease == [slot : Slots \cup {NoSlot}, group : Groups \cup {NoGroup}, host : KeyOrNone,
          source : KeyOrNone, generation : Generations \cup {NoGeneration}]
NoLease == [slot |-> NoSlot, group |-> NoGroup, host |-> NoKey, source |-> NoKey,
            generation |-> NoGeneration]
Pinned(l) == l.slot # NoSlot

EvictedHost == [host : KeyOrNone, source : KeyOrNone]

HostInit ==
    /\ rows = [s \in Slots |-> FreeRow]
    /\ usedBefore = {}
    /\ evicted = {}
    /\ fences = {}
    /\ lease = [h \in LeaseHolders |-> NoLease]

Occupied(s) == rows[s].group # NoGroup
Names(s, g) == Occupied(s) /\ (rows[s].group = g \/ rows[s].alias = g)
Filled(s) == rows[s].host # NoKey

(* source_retirement_fenced: an absent source is never fenced. *)
Fenced(k) == k \in fences

(* A loop over the table takes the first row it looks for, or the last. *)
FirstOf(S) == {s \in S : \A t \in S : s <= t}
LastOf(S) == {s \in S : \A t \in S : t <= s}

(* ++g_useStamp makes s the most recently used row; a cleared row's stamp is *)
(* zero and is not compared until the row is claimed again.                  *)
Touch(s) == usedBefore' = {p \in usedBefore : s \notin {p[1], p[2]}}
                              \cup {<<t, s>> : t \in {u \in Slots \ {s} : Occupied(u)}}

UnusedGenerations ==
    Generations \ ({rows[s].generation : s \in Slots}
                     \cup {lease[h].generation : h \in LeaseHolders})

(***************************************************************************)
(* claim_locked, as the outcome it has for group g and source k.           *)
(***************************************************************************)
Named(g) == {s \in Slots : Names(s, g)}
FreeSlots == {s \in Slots : ~Occupied(s)}
Victims ==
    LET candidates == {s \in Slots : rows[s].pins = 0 /\ ~Fenced(rows[s].source)}
    IN  {s \in candidates : \A t \in candidates \ {s} : <<s, t>> \in usedBefore}

(* Fault: g_evicted takes one host more than it has entries. *)
ClaimRefusedLate(g, k) ==
    \/ Fenced(k)
    \/ \E s \in FirstOf(Named(g)) : Fenced(rows[s].source)
    \/ /\ Named(g) = {} /\ FreeSlots = {}
       /\ Cardinality(evicted) > RowCapacity \/ Victims = {}

ClaimRefused(g, k) ==
    \/ Fenced(k)
    \/ \E s \in FirstOf(Named(g)) : Fenced(rows[s].source)
    \/ /\ Named(g) = {} /\ FreeSlots = {}
       /\ Cardinality(evicted) >= RowCapacity \/ Victims = {}

ClaimRefuse(g, k) == ClaimRefused(g, k) /\ UNCHANGED hostVars

(* The row is already there: it keeps its source once it has a host. *)
ClaimExisting(g, k) ==
    /\ ~ClaimRefused(g, k)
    /\ \E s \in FirstOf(Named(g)) :
          /\ rows' = [rows EXCEPT ![s].source =
                         IF ~Filled(s) /\ k # NoKey THEN k ELSE @]
          /\ Touch(s)
    /\ UNCHANGED <<evicted, fences, lease>>

NewRow(s, g, k) ==
    \E n \in FirstOf(UnusedGenerations) :
        rows' = [rows EXCEPT ![s] = [FreeRow EXCEPT !.group = g, !.source = k,
                                                    !.generation = n]]

ClaimFree(g, k) ==
    /\ ~ClaimRefused(g, k)
    /\ Named(g) = {}
    /\ \E s \in FirstOf(FreeSlots) : NewRow(s, g, k) /\ Touch(s)
    /\ UNCHANGED <<evicted, fences, lease>>

(* The least recently used unpinned and unfenced row gives way. *)
ClaimEvicting(g, k) ==
    /\ ~ClaimRefused(g, k)
    /\ Named(g) = {} /\ FreeSlots = {}
    /\ \E s \in Victims :
          /\ NewRow(s, g, k)
          /\ Touch(s)
          /\ evicted' = evicted \cup
                IF Filled(s) THEN {[host |-> rows[s].host, source |-> rows[s].source]}
                             ELSE {}
    /\ UNCHANGED <<fences, lease>>

ClaimRow(g, k) ==
    \/ ClaimRefuse(g, k)
    \/ ClaimExisting(g, k)
    \/ ClaimFree(g, k)
    \/ ClaimEvicting(g, k)

(* Clearing rows leaves their stamps out of every later comparison. *)
ClearRows(S) ==
    /\ rows' = [s \in Slots |-> IF s \in S THEN FreeRow ELSE rows[s]]
    /\ usedBefore' = {p \in usedBefore : p[1] \notin S /\ p[2] \notin S}

(* activity_host_session, source gone after the claim. *)
DropUnfilledClaim(g, k) ==
    /\ ClearRows({s \in Named(g) : rows[s].pins = 0 /\ ~Filled(s) /\ rows[s].source = k})
    /\ UNCHANGED <<evicted, fences, lease>>

(* activity_host_session and held_host_activity, host gone from State: only *)
(* the observed lifetime is cleared.  k is the caller's source, or NoKey.   *)
ClearStaleHost(g, held, k) ==
    /\ rows' = [s \in Slots |->
                  IF Names(s, g) /\ rows[s].host = held
                  THEN [rows[s] EXCEPT !.host = NoKey,
                                       !.source = IF k # NoKey THEN k ELSE @]
                  ELSE rows[s]]
    /\ UNCHANGED <<usedBefore, evicted, fences, lease>>

(* The host the region's row holds now, or NoKey. *)
HeldHost(g) ==
    IF FirstOf(Named(g)) = {} THEN NoKey ELSE rows[CHOOSE s \in FirstOf(Named(g)) : TRUE].host

(* Fault: the migrated id is not looked up first. *)
AliasRowUnchecked(g, m) ==
    /\ \E s \in LastOf(Named(g)) : rows' = [rows EXCEPT ![s].alias = m] /\ Touch(s)
    /\ UNCHANGED <<evicted, fences, lease>>

(* alias_host_session: a migrated group id joins its source group's row     *)
(* unless another row already answers to it.                                *)
AliasRow(g, m) ==
    /\ \E s \in LastOf(Named(g)) :
          /\ Named(m) = {} \/ s \in LastOf(Named(m))
          /\ rows' = [rows EXCEPT ![s].alias = m]
          /\ Touch(s)
    /\ UNCHANGED <<evicted, fences, lease>>

(***************************************************************************)
(* allocate_claimed_host_sessions                                          *)
(***************************************************************************)
(* Fault: a row claimed without a source is passed over. *)
ClaimedForSource == FirstOf({s \in Slots : /\ Occupied(s) /\ ~Filled(s)
                                          /\ rows[s].source \notin fences \cup {NoKey}})

Claimed == FirstOf({s \in Slots : Occupied(s) /\ ~Filled(s) /\ ~Fenced(rows[s].source)})

(* The source retired after it was claimed: the still unfilled row goes. *)
DropStaleClaim(g, k) ==
    /\ ClearRows({s \in Slots : rows[s].group = g /\ ~Filled(s) /\ rows[s].source = k})
    /\ UNCHANGED <<evicted, fences, lease>>

(* Fault: the host is stored without looking at the fence again. *)
StorableFenced(g, k) ==
    {s \in Slots : rows[s].group = g /\ ~Filled(s) /\ rows[s].source = k}

Storable(g, k) ==
    {s \in Slots : rows[s].group = g /\ ~Filled(s) /\ rows[s].source = k /\ ~Fenced(k)}

StoreHost(g, k, host) ==
    /\ rows' = [s \in Slots |-> IF s \in Storable(g, k)
                               THEN [rows[s] EXCEPT !.host = host] ELSE rows[s]]
    /\ UNCHANGED <<usedBefore, evicted, fences, lease>>

(* Fault: evicted hosts are freed under a source that is being retired. *)
FreeableFenced == evicted

(* free_evicted_host_sessions: what a fenced source still needs stays. *)
Freeable == {e \in evicted : ~Fenced(e.source)}

TakeFreeable ==
    /\ evicted' = evicted \ Freeable
    /\ UNCHANGED <<rows, usedBefore, fences, lease>>

(* reset_host_sessions: the rows it may clear, pinned and fenced ones stay. *)
Resettable == {s \in Slots : Occupied(s) /\ rows[s].pins = 0 /\ ~Fenced(rows[s].source)}

ResetRows ==
    /\ ClearRows(Resettable)
    /\ UNCHANGED <<evicted, fences, lease>>

(***************************************************************************)
(* Leases                                                                  *)
(***************************************************************************)
(* Fault: a lease does not look at the fence. *)
LeasableFenced(host) ==
    FirstOf({s \in Slots : Filled(s) /\ rows[s].host = host /\ rows[s].source # NoKey})

(* acquire_host_activity_lineage takes the first row of the host that has a *)
(* source not being retired; the pin count never wraps in a bounded model.  *)
Leasable(host) ==
    FirstOf({s \in Slots : /\ Filled(s) /\ rows[s].host = host
                           /\ rows[s].source # NoKey /\ ~Fenced(rows[s].source)})

LeaseOn(s) == [slot |-> s, group |-> rows[s].group, host |-> rows[s].host,
               source |-> rows[s].source, generation |-> rows[s].generation]

AcquireLease(h, host) ==
    /\ lease[h] = NoLease
    /\ \E s \in Leasable(host) :
          /\ rows' = [rows EXCEPT ![s].pins = @ + 1]
          /\ lease' = [lease EXCEPT ![h] = LeaseOn(s)]
    /\ UNCHANGED <<usedBefore, evicted, fences>>

SameRow(l) ==
    /\ Pinned(l)
    /\ Occupied(l.slot)
    /\ rows[l.slot].generation = l.generation
    /\ rows[l.slot].host = l.host
    /\ rows[l.slot].source = l.source
    /\ rows[l.slot].pins # 0

(* validate_host_activity_lineage *)
LeaseValid(h) == SameRow(lease[h]) /\ rows[lease[h].slot].group = lease[h].group

(* release_host_activity_lineage: a row that is no longer the leased one    *)
(* keeps its count.                                                         *)
ReleaseLease(h) ==
    /\ rows' = IF SameRow(lease[h])
               THEN [rows EXCEPT ![lease[h].slot].pins = @ - 1] ELSE rows
    /\ lease' = [lease EXCEPT ![h] = NoLease]
    /\ UNCHANGED <<usedBefore, evicted, fences>>

(***************************************************************************)
(* Retirement of one exact source k.                                       *)
(***************************************************************************)
HasPinnedRow(k) == \E s \in Slots : Occupied(s) /\ rows[s].source = k /\ rows[s].pins # 0
CanFence(k) == Fenced(k) \/ Cardinality(fences) < FenceCapacity

(* begin_host_session_source_retirement: the fence stays even when a pinned *)
(* row refuses the retirement.                                              *)
FenceSource(k) ==
    /\ fences' = IF CanFence(k) THEN fences \cup {k} ELSE fences
    /\ UNCHANGED <<rows, usedBefore, evicted, lease>>

(* Fault: unfilled rows count as derived hosts. *)
DerivedHostsUnfilled(k) ==
    {rows[s].host : s \in {t \in Slots : Occupied(t) /\ rows[t].source = k}}
       \cup {e.host : e \in {f \in evicted : f.source = k}}

DerivedHosts(k) ==
    ({rows[s].host : s \in {t \in Slots : Occupied(t) /\ rows[t].source = k}}
       \cup {e.host : e \in {f \in evicted : f.source = k}}) \ {NoKey, k}

CommitDerived(k, derived) ==
    /\ ClearRows({s \in Slots : /\ Occupied(s) /\ rows[s].pins = 0
                                /\ rows[s].source = k /\ rows[s].host = derived})
    /\ evicted' = evicted \ {[host |-> derived, source |-> k]}
    /\ UNCHANGED <<fences, lease>>

CommitSource(k) ==
    /\ ClearRows({s \in Slots : Occupied(s) /\ rows[s].source = k /\ rows[s].pins = 0})
    /\ evicted' = {e \in evicted : e.source # k}
    /\ UNCHANGED <<fences, lease>>

(* Fault: a retired source keeps its fence entry. *)
FinishSourceFenced(k) == UNCHANGED hostVars

FinishSource(k) ==
    /\ fences' = fences \ {k}
    /\ UNCHANGED <<rows, usedBefore, evicted, lease>>

HostTypeOK ==
    /\ rows \in [Slots -> Row]
    /\ usedBefore \subseteq Slots \X Slots
    /\ evicted \subseteq EvictedHost
    /\ fences \subseteq Keys
    /\ lease \in [LeaseHolders -> Lease]

(* No group id is answered by two rows, whatever order claims, migrations   *)
(* and evictions come in.                                                   *)
RowsNamedApart ==
    \A g \in Groups : \A s, t \in Slots : Names(s, g) /\ Names(t, g) => s = t
=============================================================================
