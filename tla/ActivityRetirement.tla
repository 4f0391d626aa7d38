-------------------------- MODULE ActivityRetirement -------------------------
(***************************************************************************)
(* How one activity record lives and dies across the threads that share it.*)
(*                                                                         *)
(*   bap event   the client's BAP event (server/bap): it holds the BAP     *)
(*               lock g_lock from its first step to its last, and ends by  *)
(*               draining the roots whose retirement was blocked.          *)
(*   service     the gameplay service slice (server/gameplay/group): it    *)
(*               fills claimed rows, frees evicted hosts, serves migration *)
(*               aliases, lookups and resets.  It takes g_lock only to     *)
(*               retire a record it owns.                                  *)
(*   callers     threads that claim a row or lease one without g_lock, as  *)
(*               the interface of group_host_sessions.h allows and the     *)
(*               retirement integration tests do.  The production DLL has  *)
(*               none: instances with Callers = {} are the product.        *)
(*                                                                         *)
(* A step is one critical section of g_hostSessionLock or g_stateLock; the *)
(* work a holder of g_lock does between two of them belongs to the step    *)
(* before, since nobody else can see it.                                   *)
(***************************************************************************)
EXTENDS HostSessions

CONSTANTS
    Sessions,          \* BAP connection slots
    Callers,           \* threads outside the BAP lock
    PendingCapacity,   \* size of g_pendingActivityRetirements
    CascadeCapacity,   \* kActivityRetirementCascadeCapacity
    Workload           \* the events, service calls and callers' calls explored

Binding == "binding lease"
Bound == "bound lease"
Advertised == "advertisement lease"
EventLeases == {Binding, Bound, Advertised}
Nobody == "nobody"

ASSUME RetirementAssumption ==
    /\ LeaseHolders = EventLeases \cup Callers
    /\ {BapEvent, Service, Nobody} \cap Callers = {}
    /\ EventLeases \cap Callers = {}
    /\ PendingCapacity \in Nat \ {0}
    /\ CascadeCapacity \in Nat \ {0}

(* g_pendingActivityRetirements has kSessionCapacity entries, and the fence *)
(* table is as long: every record of State can wait for its retirement and  *)
(* be fenced at the same time.                                              *)
ASSUME CapacityAssumption ==
    /\ SessionCapacity <= PendingCapacity
    /\ SessionCapacity <= FenceCapacity

VARIABLES
    sess,       \* sess[c]: connection slot c (bap/internal.h Session)
    pending,    \* g_pendingActivityRetirements
    draining,   \* the copy drain_pending_activity_retirements_locked walks
    lock,       \* who holds g_lock, or Nobody
    cascade,    \* the frames of retire_activity_tree_locked
    ev,         \* the BAP event being consumed
    sv,         \* the service thread
    claim,      \* claim[a]: the activity_host_session call of thread a
    caller      \* caller[a]: what caller a is doing

bapVars == <<sess, pending, draining, lock, cascade>>
actorVars == <<ev, sv, claim, caller>>
vars == <<recordVars, hostVars, bapVars, actorVars>>

Claimants == {BapEvent} \cup Callers

(* The lineage kind of a binding is implied: groupDerivedBorrow exactly when *)
(* its source is not the bound record itself.                                *)
Phase == {"closed", "open", "authenticated", "quarantined"}
Session == [phase : Phase, instance : KeyOrNone, owns : BOOLEAN, source : KeyOrNone]
Unbound(s) == [s EXCEPT !.instance = NoKey, !.owns = FALSE, !.source = NoKey]
ClosedSession == [phase |-> "closed", instance |-> NoKey, owns |-> FALSE, source |-> NoKey]

Owned(c) == IF sess[c].owns THEN sess[c].instance ELSE NoKey

Cascade == [step : {"idle", "begin", "children", "derived", "retire", "finish"},
            root : KeyOrNone, at : KeyOrNone, child : KeyOrNone,
            visited : SUBSET Keys, parent : [Keys -> KeyOrNone], todo : [Keys -> SUBSET Keys]]
NoCascade == [step |-> "idle", root |-> NoKey, at |-> NoKey, child |-> NoKey, visited |-> {},
              parent |-> [k \in Keys |-> NoKey], todo |-> [k \in Keys |-> {}]]

Claim == [pc : {"idle", "row", "recheck", "drop", "publish", "clear"}, group : Groups \cup {NoGroup},
          source : KeyOrNone, held : KeyOrNone]
NoClaim == [pc |-> "idle", group |-> NoGroup, source |-> NoKey, held |-> NoKey]

Event == [pc : {"idle", "retiring", "sessions", "allocate", "lineage", "publish", "bound",
                "identity", "claiming", "held", "acquire", "commit", "release", "tail", "drain"},
          next : {"none", "sessions", "release", "tail", "unlock"}, todo : SUBSET Sessions,
          session : Sessions \cup {"none"}, key : KeyOrNone,
          group : Groups \cup {NoGroup}, defers : BOOLEAN]
NoEvent == [pc |-> "idle", next |-> "none", todo |-> {}, session |-> "none", key |-> NoKey,
            group |-> NoGroup, defers |-> FALSE]

ServiceCall == [pc : {"idle", "take", "free", "freeing", "pick", "inherit", "drop", "prepare",
                      "commit", "store", "held", "clear"},
                next : {"none", "take", "pick", "idle"}, freed : SUBSET Keys,
                key : KeyOrNone, source : KeyOrNone, group : Groups \cup {NoGroup}]
NoCall == [pc |-> "idle", next |-> "none", freed |-> {}, key |-> NoKey, source |-> NoKey,
           group |-> NoGroup]

CallerStep == {"idle", "holding", "retry", "drain"}

Init ==
    /\ RecordsInit
    /\ HostInit
    /\ sess = [c \in Sessions |-> ClosedSession]
    /\ pending = {}
    /\ draining = {}
    /\ lock = Nobody
    /\ cascade = NoCascade
    /\ ev = NoEvent
    /\ sv = NoCall
    /\ claim = [a \in Claimants |-> NoClaim]
    /\ caller = [a \in Callers |-> "idle"]

(***************************************************************************)
(* retire_activity_tree_locked, run by whoever holds g_lock.               *)
(***************************************************************************)
Retiring == cascade.step # "idle"

Start(k) == IF k = NoKey THEN NoCascade
            ELSE [NoCascade EXCEPT !.step = "begin", !.root = k, !.at = k, !.visited = {k}]

(* queue_pending_activity_retirement_locked: a root that no longer fits is  *)
(* dropped without a trace.                                                 *)
Queued(roots, k) == IF Cardinality(roots) < PendingCapacity THEN roots \cup {k} ELSE roots

(* Fault: the blocked root is not queued. *)
BlockedForgotten == cascade' = NoCascade /\ UNCHANGED pending

Blocked == /\ cascade' = NoCascade
           /\ pending' = Queued(pending, cascade.root)

CascadeBegin ==
    /\ cascade.step = "begin"
    /\ FenceSource(cascade.at)
    /\ IF ~CanFence(cascade.at) \/ HasPinnedRow(cascade.at)
       THEN Blocked
       ELSE /\ cascade' = [cascade EXCEPT !.step = "children",
                                          !.todo[cascade.at] = DerivedHosts(cascade.at)]
            /\ UNCHANGED pending
    /\ UNCHANGED <<recordVars, sess, draining, lock, actorVars>>

(* Descend into a derived record, unless this cascade was already there. *)
CascadeChild ==
    /\ cascade.step = "children"
    /\ \E k \in cascade.todo[cascade.at] :
          IF k \in cascade.visited
          THEN /\ cascade' = [cascade EXCEPT !.step = "derived", !.child = k]
               /\ UNCHANGED pending
          ELSE IF Cardinality(cascade.visited) >= CascadeCapacity
          THEN Blocked
          ELSE /\ cascade' = [cascade EXCEPT !.step = "begin", !.at = k,
                                             !.visited = @ \cup {k},
                                             !.parent[k] = cascade.at]
               /\ UNCHANGED pending
    /\ UNCHANGED <<recordVars, hostVars, sess, draining, lock, actorVars>>

CascadeDerived ==
    /\ cascade.step = "derived"
    /\ CommitDerived(cascade.at, cascade.child)
    /\ cascade' = [cascade EXCEPT !.step = "children", !.child = NoKey,
                                  !.todo[cascade.at] = @ \ {cascade.child}]
    /\ UNCHANGED <<recordVars, sess, pending, draining, lock, actorVars>>

CascadeSource ==
    /\ cascade.step = "children"
    /\ cascade.todo[cascade.at] = {}
    /\ CommitSource(cascade.at)
    /\ cascade' = [cascade EXCEPT !.step = "retire"]
    /\ UNCHANGED <<recordVars, sess, pending, draining, lock, actorVars>>

(* Fault: bindings that borrow the retired record keep it. *)
InvalidatedNobody(k) == sess

(* invalidate_borrowed_activity_locked, then the State retirement. *)
Invalidated(k) == [c \in Sessions |-> IF sess[c].instance = k /\ ~sess[c].owns
                                      THEN Unbound(sess[c]) ELSE sess[c]]

CascadeRetire ==
    /\ cascade.step = "retire"
    /\ sess' = Invalidated(cascade.at)
    /\ RetireExact(cascade.at)
    /\ cascade' = [cascade EXCEPT !.step = "finish"]
    /\ UNCHANGED <<hostVars, pending, draining, lock, actorVars>>

CascadeFinish ==
    /\ cascade.step = "finish"
    /\ FinishSource(cascade.at)
    /\ cascade' = IF cascade.at = cascade.root THEN NoCascade
                  ELSE [cascade EXCEPT !.step = "derived", !.child = cascade.at,
                                       !.at = cascade.parent[cascade.at]]
    /\ UNCHANGED <<recordVars, sess, pending, draining, lock, actorVars>>

CascadeNext == \/ CascadeBegin \/ CascadeChild \/ CascadeDerived
               \/ CascadeSource \/ CascadeRetire \/ CascadeFinish

(***************************************************************************)
(* BAP events.  Each takes g_lock, works on one connection, and reaches    *)
(* "tail", where the blocked roots are retried before the lock goes.       *)
(***************************************************************************)
Begins(kind) == /\ kind \in Workload
                /\ lock = Nobody
                /\ ev.pc = "idle"
                /\ lock' = BapEvent

InEvent(pc) == lock = BapEvent /\ ev.pc = pc /\ ~Retiring

(* retire_session_activity_locked: the binding goes, then its lease's tree. *)
Detach(c, phase, next) ==
    /\ sess' = [sess EXCEPT ![c] = [ClosedSession EXCEPT !.phase = phase]]
    /\ cascade' = Start(Owned(c))
    /\ ev' = [NoEvent EXCEPT !.pc = "retiring", !.next = next]

(* release_matchmaking_context can fail only where a context can be held. *)
HoldsContext(c) == sess[c].phase \in {"authenticated", "quarantined"}

Open(c) ==
    /\ Begins("open")
    /\ \E phase \in {"open"} \cup IF HoldsContext(c) THEN {"quarantined"} ELSE {} :
          Detach(c, phase, "tail")
    /\ UNCHANGED <<recordVars, hostVars, pending, draining, sv, claim, caller>>

Close(c) ==
    /\ Begins("close")
    /\ \E phase \in {"closed"} \cup IF HoldsContext(c) THEN {"quarantined"} ELSE {} :
          Detach(c, phase, "tail")
    /\ UNCHANGED <<recordVars, hostVars, pending, draining, sv, claim, caller>>

(* A hello drops what the old authentication owned before the new one is    *)
(* encoded; an encode failure leaves the connection unauthenticated.        *)
Hello(c) ==
    /\ Begins("hello")
    /\ sess[c].phase \in {"open", "authenticated"}
    /\ \E phase \in {"open", "authenticated"} : Detach(c, phase, "tail")
    /\ UNCHANGED <<recordVars, hostVars, pending, draining, sv, claim, caller>>

(* shutdown: drain, retire every connection, drain again. *)
Shutdown ==
    /\ Begins("shutdown")
    /\ draining' = pending
    /\ pending' = {}
    /\ ev' = [NoEvent EXCEPT !.pc = "drain", !.next = "sessions", !.todo = Sessions]
    /\ UNCHANGED <<recordVars, hostVars, sess, cascade, sv, claim, caller>>

ShutdownSession ==
    /\ InEvent("sessions")
    /\ \E c \in ev.todo :
          /\ sess' = [sess EXCEPT ![c] = ClosedSession]
          /\ cascade' = Start(Owned(c))
          /\ ev' = [ev EXCEPT !.todo = @ \ {c}]
    /\ UNCHANGED <<recordVars, hostVars, pending, draining, lock, sv, claim, caller>>

ShutdownDone ==
    /\ InEvent("sessions")
    /\ ev.todo = {}
    /\ ev' = [ev EXCEPT !.pc = "tail"]
    /\ UNCHANGED <<recordVars, hostVars, bapVars, sv, claim, caller>>

Retired ==
    /\ InEvent("retiring")
    /\ ev' = [ev EXCEPT !.pc = ev.next, !.next = "none"]
    /\ UNCHANGED <<recordVars, hostVars, bapVars, sv, claim, caller>>

(* detach_stale_borrowed_activity, first thing in every frame and poll. *)
Refreshed(c) == IF ~sess[c].owns /\ sess[c].instance # NoKey /\ ~Contains(sess[c].instance)
                THEN Unbound(sess[c]) ELSE sess[c]

Frame(c, pc, key, group, defers) ==
    /\ sess[c].phase = "authenticated"
    /\ sess' = [sess EXCEPT ![c] = Refreshed(c)]
    /\ ev' = [NoEvent EXCEPT !.pc = pc, !.session = c, !.key = key, !.group = group,
                             !.defers = defers]
    /\ UNCHANGED <<hostVars, pending, draining, cascade, sv, claim, caller>>

(* A poll, or a frame that is refused, publishes nothing and still drains,  *)
(* even on a connection that is closed or quarantined.                      *)
Poll(c) ==
    /\ Begins("poll")
    /\ sess' = [sess EXCEPT ![c] = Refreshed(c)]
    /\ ev' = [NoEvent EXCEPT !.pc = "tail"]
    /\ UNCHANGED <<recordVars, hostVars, pending, draining, cascade, sv, claim, caller>>

(* Service 6: the new activity is planned to overwrite the one this         *)
(* connection owns, so State holds both ids only one after the other.       *)
Allocate(c) ==
    /\ Begins("allocate")
    /\ PrepareSession(BapEvent, Owned(c))
    /\ Frame(c, "allocate", NoKey, NoGroup, TRUE)

(* Fault: a join leaves the lease it replaces alone. *)
LeaseToRetireUnlessJoined(c, next, joins, replaced) ==
    IF joins \/ replaced = sess[c].instance THEN NoKey ELSE Owned(c)

(* lease_to_retire_after_replacement *)
LeaseToRetire(c, next, joins, replaced) ==
    IF \/ joins /\ sess[c].instance = next
       \/ ~joins /\ replaced = sess[c].instance
    THEN NoKey ELSE Owned(c)

AllocateCommit ==
    /\ InEvent("allocate")
    /\ CommitSession(BapEvent)
    /\ LET c == ev.session
           k == plan[BapEvent].key
       IN  /\ sess' = [sess EXCEPT ![c] = [phase |-> "authenticated", instance |-> k,
                                           owns |-> TRUE, source |-> k]]
           /\ cascade' = Start(LeaseToRetire(c, k, FALSE, plan[BapEvent].replaces))
    /\ ev' = [ev EXCEPT !.pc = "retiring", !.next = "tail"]
    /\ UNCHANGED <<hostVars, pending, draining, lock, sv, claim, caller>>

AllocateReject ==
    /\ InEvent("allocate")
    /\ RejectSession(BapEvent)
    /\ ev' = [ev EXCEPT !.pc = "tail", !.defers = FALSE]
    /\ UNCHANGED <<hostVars, bapVars, sv, claim, caller>>

(* has_current_bap_creator_locked *)
HasCreator(k) == Contains(k) /\ \E c \in Sessions : sess[c].owns /\ sess[c].instance = k

(* A join names any record State still holds. *)
Join(c) ==
    /\ Begins("join")
    /\ \E k \in live : Frame(c, "lineage", k, NoGroup, TRUE)
    /\ UNCHANGED recordVars

(* prepare_region_lineage_locked: what lets c join k, with or without a     *)
(* lease on the row that derives k.                                         *)
JoinsDirectly(c, k) ==
    IF sess[c].instance = k THEN sess[c].owns ELSE HasCreator(k)
NeedsRow(c, k) ==
    IF sess[c].instance = k THEN ~sess[c].owns /\ sess[c].source # k ELSE ~HasCreator(k)
DerivedFrom(c, k, source) ==
    /\ HasCreator(source)
    /\ source # k
    /\ IF sess[c].instance = k THEN source = sess[c].source ELSE Owned(c) # source

JoinDirect ==
    /\ InEvent("lineage")
    /\ JoinsDirectly(ev.session, ev.key)
    /\ ev' = [ev EXCEPT !.pc = "publish"]
    /\ UNCHANGED <<recordVars, hostVars, bapVars, sv, claim, caller>>

JoinLease ==
    /\ InEvent("lineage")
    /\ NeedsRow(ev.session, ev.key)
    /\ AcquireLease(Binding, ev.key)
    /\ ev' = [ev EXCEPT !.pc = IF DerivedFrom(ev.session, ev.key, lease'[Binding].source)
                               THEN "publish" ELSE "release",
                        !.defers = @ /\ DerivedFrom(ev.session, ev.key, lease'[Binding].source)]
    /\ UNCHANGED <<recordVars, bapVars, sv, claim, caller>>

JoinRefused ==
    /\ InEvent("lineage")
    /\ ~JoinsDirectly(ev.session, ev.key)
    /\ NeedsRow(ev.session, ev.key) => Leasable(ev.key) = {}
    /\ ev' = [ev EXCEPT !.pc = "tail", !.defers = FALSE]
    /\ UNCHANGED <<recordVars, hostVars, bapVars, sv, claim, caller>>

(* The rechecks just before commit, the entity-slot commit on the exact     *)
(* record, and publish_connection_fields with its retirement.               *)
JoinPublish ==
    /\ InEvent("publish")
    /\ Pinned(lease[Binding]) => LeaseValid(Binding)
    /\ Contains(ev.key)
    /\ LET c == ev.session
           k == ev.key
       IN  /\ sess' = [sess EXCEPT ![c].instance = k,
                                   ![c].owns = @ /\ sess[c].instance = k,
                                   ![c].source = IF Pinned(lease[Binding])
                                                 THEN lease[Binding].source ELSE k]
           /\ cascade' = Start(LeaseToRetire(c, k, TRUE, NoKey))
    /\ MutateRecord
    /\ ev' = [ev EXCEPT !.pc = "retiring", !.next = "release"]
    /\ UNCHANGED <<hostVars, pending, draining, lock, sv, claim, caller>>

(* The State revision moved, or a recheck failed. *)
JoinDiscard ==
    /\ InEvent("publish")
    /\ ev' = [ev EXCEPT !.pc = "release", !.defers = FALSE]
    /\ UNCHANGED <<recordVars, hostVars, bapVars, sv, claim, caller>>

(***************************************************************************)
(* A region report: a client frame or a deferred push that advertises the  *)
(* host of group g to a connection (build_region_transition_snapshot and   *)
(* the commit in encrypted_runtime).                                       *)
(***************************************************************************)
Report(c, g) ==
    /\ Begins("report")
    /\ \E defers \in BOOLEAN : Frame(c, "bound", NoKey, g, defers)
    /\ UNCHANGED recordVars

(* One due push may ride behind a handled frame, under the same lock. *)
Deferred(g) ==
    /\ InEvent("tail")
    /\ ev.defers /\ "report" \in Workload
    /\ ev' = [ev EXCEPT !.pc = "bound", !.key = NoKey, !.group = g, !.defers = FALSE]
    /\ UNCHANGED <<recordVars, hostVars, bapVars, sv, claim, caller>>

(* A client identity advertises a host under the very record the connection *)
(* is bound to, whoever created it, and pins no row for it.                 *)
Identify(c, g) ==
    /\ Begins("identify")
    /\ Contains(sess[c].instance)
    /\ Frame(c, "identity", sess[c].instance, g, TRUE)
    /\ UNCHANGED recordVars

OwnsLineage(c) == sess[c].owns /\ Contains(sess[c].source)
BorrowsLineage(c) == /\ sess[c].instance # NoKey
                     /\ sess[c].source # sess[c].instance
                     /\ HasCreator(sess[c].source)

StartClaim(a, g, k) ==
    claim' = [claim EXCEPT ![a] = [NoClaim EXCEPT !.pc = "row", !.group = g, !.source = k]]

IdentityClaim ==
    /\ InEvent("identity")
    /\ StartClaim(BapEvent, ev.group, ev.key)
    /\ ev' = [ev EXCEPT !.pc = "claiming"]
    /\ UNCHANGED <<recordVars, hostVars, bapVars, sv, caller>>

(* request_advertisement_host reads the source from State here; it cannot   *)
(* retire before the claim, because retirement needs the lock this holds.   *)
ReportOwned ==
    /\ InEvent("bound")
    /\ OwnsLineage(ev.session)
    /\ StartClaim(BapEvent, ev.group, sess[ev.session].source)
    /\ ev' = [ev EXCEPT !.pc = "claiming"]
    /\ UNCHANGED <<recordVars, hostVars, bapVars, sv, caller>>

ReportBorrowed ==
    /\ InEvent("bound")
    /\ BorrowsLineage(ev.session)
    /\ AcquireLease(Bound, sess[ev.session].instance)
    /\ IF lease'[Bound].source = sess[ev.session].source
       THEN /\ StartClaim(BapEvent, ev.group, sess[ev.session].source)
            /\ ev' = [ev EXCEPT !.pc = "claiming"]
       ELSE /\ ev' = [ev EXCEPT !.pc = "release", !.defers = FALSE]
            /\ UNCHANGED claim
    /\ UNCHANGED <<recordVars, bapVars, sv, caller>>

ReportStale ==
    /\ InEvent("bound")
    /\ ~OwnsLineage(ev.session)
    /\ BorrowsLineage(ev.session) => Leasable(sess[ev.session].instance) = {}
    /\ ev' = [ev EXCEPT !.pc = "tail", !.defers = FALSE]
    /\ UNCHANGED <<recordVars, hostVars, bapVars, sv, claim, caller>>

(* How activity_host_session answered goes back to whoever called it.       *)
(* Pending leaves a debt for a later poll and absent publishes without a    *)
(* host: neither touches the state kept here, so both go on to the commit,  *)
(* as an identity does with the host it was given.                          *)
Answer(a, ready) ==
    /\ claim' = [claim EXCEPT ![a] = NoClaim]
    /\ ev' = IF a # BapEvent THEN ev
             ELSE [ev EXCEPT !.pc = IF ready /\ ev.key = NoKey THEN "held" ELSE "commit"]

(* held_host_activity: the host was read by the claim a moment ago, but the *)
(* service thread may have changed the row since.                           *)
ReportHeld ==
    /\ InEvent("held")
    /\ LET host == HeldHost(ev.group)
       IN  ev' = [ev EXCEPT !.key = host, !.pc = IF host = NoKey THEN "release" ELSE "acquire",
                            !.defers = @ /\ host # NoKey]
    /\ UNCHANGED <<recordVars, hostVars, bapVars, sv, claim, caller>>

ReportAcquire ==
    /\ InEvent("acquire")
    /\ AcquireLease(Advertised, ev.key)
    /\ LET exact == /\ lease'[Advertised].group = ev.group
                    /\ lease'[Advertised].source = sess[ev.session].source
                    /\ Contains(ev.key)
       IN  ev' = [ev EXCEPT !.pc = IF exact THEN "commit" ELSE "release", !.defers = @ /\ exact]
    /\ UNCHANGED <<recordVars, bapVars, sv, claim, caller>>

ReportLost ==
    /\ InEvent("acquire")
    /\ Leasable(ev.key) = {}
    /\ ev' = [ev EXCEPT !.pc = "release", !.defers = FALSE]
    /\ UNCHANGED <<recordVars, hostVars, bapVars, sv, claim, caller>>

(* The pinned rows are validated again before the membership commits. *)
ReportCommit ==
    /\ InEvent("commit")
    /\ \A h \in {Advertised, Bound} : Pinned(lease[h]) => LeaseValid(h)
    /\ MutateRecord
    /\ ev' = [ev EXCEPT !.pc = "release"]
    /\ UNCHANGED <<hostVars, bapVars, sv, claim, caller>>

ReportDiscard ==
    /\ InEvent("commit")
    /\ ev' = [ev EXCEPT !.pc = "release", !.defers = FALSE]
    /\ UNCHANGED <<recordVars, hostVars, bapVars, sv, claim, caller>>

(* Every event gives its leases back last.  The retry a release attempts    *)
(* finds g_lock held, by the event itself, and gives up.                    *)
EventRelease ==
    /\ InEvent("release")
    /\ \E h \in EventLeases : Pinned(lease[h]) /\ ReleaseLease(h)
    /\ UNCHANGED <<recordVars, bapVars, ev, sv, claim, caller>>

EventReleased ==
    /\ InEvent("release")
    /\ \A h \in EventLeases : ~Pinned(lease[h])
    /\ ev' = [ev EXCEPT !.pc = "tail"]
    /\ UNCHANGED <<recordVars, hostVars, bapVars, sv, claim, caller>>

(***************************************************************************)
(* drain_pending_activity_retirements_locked                               *)
(***************************************************************************)
(* Fault: the tail of an event lets the lock go without a retry. *)
TailWithoutRetry ==
    /\ InEvent("tail")
    /\ ev' = [NoEvent EXCEPT !.pc = "drain", !.next = "unlock"]
    /\ UNCHANGED <<recordVars, hostVars, bapVars, sv, claim, caller>>

Tail ==
    /\ InEvent("tail")
    /\ draining' = pending
    /\ pending' = {}
    /\ ev' = [NoEvent EXCEPT !.pc = "drain", !.next = "unlock"]
    /\ UNCHANGED <<recordVars, hostVars, sess, lock, cascade, sv, claim, caller>>

DrainRoot ==
    /\ lock # Nobody /\ ~Retiring
    /\ \E k \in draining :
          /\ cascade' = Start(k)
          /\ draining' = draining \ {k}
    /\ UNCHANGED <<recordVars, hostVars, sess, pending, lock, actorVars>>

EventDrained ==
    /\ InEvent("drain")
    /\ draining = {}
    /\ IF ev.next = "unlock"
       THEN ev' = NoEvent /\ lock' = Nobody
       ELSE ev' = [ev EXCEPT !.pc = ev.next, !.next = "none"] /\ UNCHANGED lock
    /\ UNCHANGED <<recordVars, hostVars, sess, pending, draining, cascade, sv, claim, caller>>

(***************************************************************************)
(* activity_host_session, run by thread a: inside an event or outside.     *)
(***************************************************************************)
ClaimStep(a, pc) == claim[a].pc = pc
ClaimGoes(a, pc) == claim' = [claim EXCEPT ![a].pc = pc] /\ UNCHANGED ev

ClaimTake(a) ==
    /\ ClaimStep(a, "row")
    /\ LET g == claim[a].group
           k == claim[a].source
       IN  /\ ClaimRow(g, k)
           /\ IF ClaimRefused(g, k)
              THEN Answer(a, FALSE)
              ELSE /\ claim' = [claim EXCEPT ![a].held = HeldHost(g),
                                             ![a].pc = IF k = NoKey THEN "publish"
                                                                    ELSE "recheck"]
                   /\ UNCHANGED ev
    /\ UNCHANGED <<recordVars, bapVars, sv, caller>>

(* The source may have retired while the claim waited behind its fence. *)
ClaimRecheck(a) ==
    /\ ClaimStep(a, "recheck")
    /\ ClaimGoes(a, IF Contains(claim[a].source) THEN "publish" ELSE "drop")
    /\ UNCHANGED <<recordVars, hostVars, bapVars, sv, caller>>

ClaimDrop(a) ==
    /\ ClaimStep(a, "drop")
    /\ DropUnfilledClaim(claim[a].group, claim[a].source)
    /\ Answer(a, FALSE)
    /\ UNCHANGED <<recordVars, bapVars, sv, caller>>

(* public_session_id of the held host. *)
ClaimPublish(a) ==
    /\ ClaimStep(a, "publish")
    /\ LET held == claim[a].held
       IN  IF held # NoKey /\ ~Contains(held)
           THEN ClaimGoes(a, "clear")
           ELSE Answer(a, held # NoKey)
    /\ UNCHANGED <<recordVars, hostVars, bapVars, sv, caller>>

ClaimClear(a) ==
    /\ ClaimStep(a, "clear")
    /\ ClearStaleHost(claim[a].group, claim[a].held, claim[a].source)
    /\ Answer(a, FALSE)
    /\ UNCHANGED <<recordVars, bapVars, sv, caller>>

(***************************************************************************)
(* The gameplay service thread.                                            *)
(***************************************************************************)
Serves(kind) == kind \in Workload /\ sv.pc = "idle"

(* allocate_claimed_host_sessions, up to the pass that fills the rows. *)
Slice ==
    /\ Serves("slice")
    /\ sv' = [NoCall EXCEPT !.pc = "take", !.next = "pick"]
    /\ UNCHANGED <<recordVars, hostVars, bapVars, ev, claim, caller>>

ServiceTake ==
    /\ sv.pc = "take"
    /\ TakeFreeable
    /\ sv' = [sv EXCEPT !.pc = "free", !.freed = {e.host : e \in Freeable} \ {NoKey}]
    /\ UNCHANGED <<recordVars, bapVars, ev, claim, caller>>

(* retire_group_owned_activity for each host in hand. *)
ServiceRetire ==
    /\ sv.pc = "free"
    /\ lock = Nobody
    /\ \E k \in sv.freed :
          /\ cascade' = Start(k)
          /\ sv' = [sv EXCEPT !.pc = "freeing", !.freed = @ \ {k}]
    /\ lock' = Service
    /\ UNCHANGED <<recordVars, hostVars, sess, pending, draining, ev, claim, caller>>

ServiceUnlock ==
    /\ sv.pc = "freeing"
    /\ ~Retiring
    /\ lock' = Nobody
    /\ sv' = [sv EXCEPT !.pc = "free"]
    /\ UNCHANGED <<recordVars, hostVars, sess, pending, draining, cascade, ev, claim, caller>>

ServiceFreed ==
    /\ sv.pc = "free"
    /\ sv.freed = {}
    /\ sv' = IF sv.next = "idle" THEN NoCall
             ELSE [sv EXCEPT !.pc = sv.next, !.next = IF sv.next = "take" THEN "idle" ELSE "none"]
    /\ UNCHANGED <<recordVars, hostVars, bapVars, ev, claim, caller>>

ServicePick ==
    /\ sv.pc = "pick"
    /\ \/ /\ Claimed = {}
          /\ sv' = NoCall
       \/ \E s \in Claimed :
             sv' = [NoCall EXCEPT !.pc = "inherit", !.group = rows[s].group,
                                  !.source = rows[s].source]
    /\ UNCHANGED <<recordVars, hostVars, bapVars, ev, claim, caller>>

(* The destination is inherited from the exact source, if there is one. *)
ServiceInherit ==
    /\ sv.pc = "inherit"
    /\ sv' = [sv EXCEPT !.pc = IF sv.source = NoKey \/ Contains(sv.source)
                               THEN "prepare" ELSE "drop"]
    /\ UNCHANGED <<recordVars, hostVars, bapVars, ev, claim, caller>>

ServiceDrop ==
    /\ sv.pc = "drop"
    /\ DropStaleClaim(sv.group, sv.source)
    /\ sv' = [NoCall EXCEPT !.pc = "pick"]
    /\ UNCHANGED <<recordVars, bapVars, ev, claim, caller>>

ServicePrepare ==
    /\ sv.pc = "prepare"
    /\ PrepareSession(Service, NoKey)
    /\ sv' = IF plan'[Service] = NoPlan THEN NoCall ELSE [sv EXCEPT !.pc = "commit"]
    /\ UNCHANGED <<hostVars, bapVars, ev, claim, caller>>

ServiceCommit ==
    /\ sv.pc = "commit"
    /\ CommitSession(Service)
    /\ sv' = [sv EXCEPT !.pc = "store", !.key = plan[Service].key]
    /\ UNCHANGED <<hostVars, bapVars, ev, claim, caller>>

(* The next slice tries again. *)
ServiceReject ==
    /\ sv.pc = "commit"
    /\ RejectSession(Service)
    /\ sv' = NoCall
    /\ UNCHANGED <<hostVars, bapVars, ev, claim, caller>>

(* The row may have been evicted, fenced or re-sourced since it was picked: *)
(* then the record just created is retired again.                           *)
ServiceStore ==
    /\ sv.pc = "store"
    /\ StoreHost(sv.group, sv.source, sv.key)
    /\ sv' = IF Storable(sv.group, sv.source) # {}
             THEN [NoCall EXCEPT !.pc = "pick"]
             ELSE [NoCall EXCEPT !.pc = "free", !.next = "idle", !.freed = {sv.key}]
    /\ UNCHANGED <<recordVars, bapVars, ev, claim, caller>>

Alias(g, m) ==
    /\ Serves("alias")
    /\ AliasRow(g, m)
    /\ UNCHANGED <<recordVars, bapVars, actorVars>>

Lookup(g) ==
    /\ Serves("held")
    /\ HeldHost(g) # NoKey
    /\ sv' = [NoCall EXCEPT !.pc = "held", !.group = g, !.key = HeldHost(g)]
    /\ UNCHANGED <<recordVars, hostVars, bapVars, ev, claim, caller>>

LookupCheck ==
    /\ sv.pc = "held"
    /\ sv' = IF Contains(sv.key) THEN NoCall ELSE [sv EXCEPT !.pc = "clear"]
    /\ UNCHANGED <<recordVars, hostVars, bapVars, ev, claim, caller>>

LookupClear ==
    /\ sv.pc = "clear"
    /\ ClearStaleHost(sv.group, sv.key, NoKey)
    /\ sv' = NoCall
    /\ UNCHANGED <<recordVars, bapVars, ev, claim, caller>>

Reset ==
    /\ Serves("reset")
    /\ ResetRows
    /\ sv' = [NoCall EXCEPT !.pc = "free", !.next = "take",
                            !.freed = {rows[s].host : s \in Resettable} \ {NoKey}]
    /\ UNCHANGED <<recordVars, bapVars, ev, claim, caller>>

(***************************************************************************)
(* Threads outside the BAP lock.                                           *)
(***************************************************************************)
CallerFree(a) == caller[a] = "idle" /\ claim[a].pc = "idle"
CallerGoes(a, step) == caller' = [caller EXCEPT ![a] = step]

(* The source was live when the call began, or the call asked for none; a   *)
(* stale one is turned away before it reaches the table.                    *)
CallerClaim(a) ==
    /\ CallerFree(a) /\ "claim" \in Workload
    /\ \E g \in Groups, k \in live \cup {NoKey} : StartClaim(a, g, k)
    /\ UNCHANGED <<recordVars, hostVars, bapVars, ev, sv, caller>>

CallerLease(a) ==
    /\ CallerFree(a) /\ "lease" \in Workload
    /\ \E k \in Keys : AcquireLease(a, k)
    /\ CallerGoes(a, "holding")
    /\ UNCHANGED <<recordVars, bapVars, ev, sv, claim>>

CallerRelease(a) ==
    /\ caller[a] = "holding"
    /\ ReleaseLease(a)
    /\ CallerGoes(a, "retry")
    /\ UNCHANGED <<recordVars, bapVars, ev, sv, claim>>

(* retry_pending_activity_retirements only tries the lock: if anybody holds *)
(* it, the retry is theirs, or lost until the next event.                   *)
CallerRetry(a) ==
    /\ caller[a] = "retry"
    /\ IF lock = Nobody
       THEN /\ lock' = a
            /\ draining' = pending
            /\ pending' = {}
            /\ CallerGoes(a, "drain")
       ELSE /\ CallerGoes(a, "idle")
            /\ UNCHANGED <<lock, draining, pending>>
    /\ UNCHANGED <<recordVars, hostVars, sess, cascade, ev, sv, claim>>

CallerDrained(a) ==
    /\ caller[a] = "drain"
    /\ ~Retiring /\ draining = {}
    /\ lock' = Nobody
    /\ CallerGoes(a, "idle")
    /\ UNCHANGED <<recordVars, hostVars, sess, pending, draining, cascade, ev, sv, claim>>

(* Another State transaction moves the revision between prepare and commit. *)
Revise ==
    /\ AdvanceRevision
    /\ UNCHANGED <<hostVars, bapVars, actorVars>>

EventBegins ==
    \/ \E c \in Sessions : Open(c) \/ Close(c) \/ Hello(c) \/ Allocate(c) \/ Join(c) \/ Poll(c)
    \/ \E c \in Sessions, g \in Groups : Report(c, g) \/ Identify(c, g)
    \/ Shutdown

EventSteps ==
    \/ ShutdownSession \/ ShutdownDone \/ Retired
    \/ AllocateCommit \/ AllocateReject
    \/ JoinDirect \/ JoinLease \/ JoinRefused \/ JoinPublish \/ JoinDiscard
    \/ \E g \in Groups : Deferred(g)
    \/ IdentityClaim
    \/ ReportOwned \/ ReportBorrowed \/ ReportStale \/ ReportHeld
    \/ ReportAcquire \/ ReportLost \/ ReportCommit \/ ReportDiscard
    \/ EventRelease \/ EventReleased \/ Tail \/ EventDrained

ClaimSteps(a) ==
    ClaimTake(a) \/ ClaimRecheck(a) \/ ClaimDrop(a) \/ ClaimPublish(a) \/ ClaimClear(a)

ServiceBegins ==
    \/ Slice \/ Reset
    \/ \E g \in Groups : Lookup(g) \/ \E m \in Groups : Alias(g, m)

ServiceSteps ==
    \/ ServiceTake \/ ServiceRetire \/ ServiceUnlock \/ ServiceFreed
    \/ ServicePick \/ ServiceInherit \/ ServiceDrop \/ ServicePrepare
    \/ ServiceCommit \/ ServiceReject \/ ServiceStore
    \/ LookupCheck \/ LookupClear

CallerSteps(a) == CallerRelease(a) \/ CallerRetry(a) \/ CallerDrained(a)

Next ==
    \/ EventBegins \/ EventSteps
    \/ ServiceBegins \/ ServiceSteps
    \/ CascadeNext \/ DrainRoot
    \/ \E a \in Claimants : ClaimSteps(a)
    \/ \E a \in Callers : CallerClaim(a) \/ CallerLease(a) \/ CallerSteps(a)
    \/ Revise

Spec == Init /\ [][Next]_vars

(***************************************************************************)
(* Invariants                                                              *)
(***************************************************************************)
TypeOK ==
    /\ RecordsTypeOK
    /\ HostTypeOK
    /\ sess \in [Sessions -> Session]
    /\ pending \subseteq Keys
    /\ draining \subseteq Keys
    /\ lock \in {Nobody, BapEvent, Service} \cup Callers
    /\ cascade \in Cascade
    /\ ev \in Event
    /\ sv \in ServiceCall
    /\ claim \in [Claimants -> Claim]
    /\ caller \in [Callers -> CallerStep]

(* Who answers for a record: the connection that allocated it, the group    *)
(* table that advertises or evicted it, the service thread that is moving   *)
(* it, or the retirement that is running or blocked.                        *)
SessionKeys == {sess[c].instance : c \in {d \in Sessions : sess[d].owns}}
GroupKeys == {rows[s].host : s \in Slots} \cup {e.host : e \in evicted}
ServiceKeys == sv.freed \cup IF sv.pc = "store" THEN {sv.key} ELSE {}
RetiringKeys == pending \cup draining \cup {cascade.root}

(* Every live record has exactly one custodian and every custodian but the  *)
(* group table holds only live records: nothing leaks out of the fixed      *)
(* State table and nothing is retired behind its owner's back               *)
(* (check_conservation in activity_retirement_integration_tests.cpp).       *)
OneCustodian ==
    /\ \A k \in live :
          Cardinality({i \in 1 .. 4 : k \in <<SessionKeys, GroupKeys, ServiceKeys,
                                              RetiringKeys>>[i]}) = 1
    /\ SessionKeys \cup ServiceKeys \cup pending \cup draining \subseteq live
    /\ \A c, d \in Sessions :
          sess[c].owns /\ sess[d].owns /\ sess[c].instance = sess[d].instance => c = d

(* While a lease is out its row keeps the identity, host and source the     *)
(* lease copied, the host stays committed, and the pin count is exactly the *)
(* number of leases: a pinned snapshot can be committed, and its release    *)
(* can never leave the row pinned for good.                                 *)
PinsProtectRows ==
    /\ \A h \in LeaseHolders : Pinned(lease[h]) => SameRow(lease[h]) /\ Contains(lease[h].host)
    /\ \A s \in Slots : rows[s].pins = Cardinality({h \in LeaseHolders : lease[h].slot = s})

(* A fence never outlives the retirement it protects: once nothing is being *)
(* retired and nothing waits to be, no source is fenced.                    *)
NoStrandedFence ==
    /\ ~Retiring /\ pending \cup draining = {} => fences = {}
    /\ fences \subseteq live \cup IF cascade.step = "finish" THEN {cascade.at} ELSE {}

(* The two tables a retirement fills are big enough: a fence is there when  *)
(* a source needs one, and a pending entry when the root is blocked.  They  *)
(* are sized by the argument of group_host_retirement_fence.h, that at most *)
(* every bounded State record can be a source awaiting retirement.          *)
CapacitiesSuffice ==
    /\ cascade.step = "begin" => CanFence(cascade.at)
    /\ Retiring => Cardinality(pending \cup draining \cup {cascade.root}) <= PendingCapacity

(* In the product a cascade never gives up for lack of a frame: a record it *)
(* is to descend into finds one free.  kActivityRetirementCascadeCapacity   *)
(* is eight rows, eight evicted hosts and the source (bap/internal.h),      *)
(* though the frames also hold records that left the table since.           *)
FramesSuffice ==
    cascade.step = "children"
        => \A k \in cascade.todo[cascade.at] \ cascade.visited :
               Cardinality(cascade.visited) < CascadeCapacity

(* A host's row mirrors a source that is still committed, or one whose      *)
(* retirement holds the row behind its fence.                               *)
RowsMirrorLiveSources ==
    \A s \in Slots : Filled(s) /\ rows[s].source # NoKey
                        => Contains(rows[s].source) \/ Fenced(rows[s].source)

(***************************************************************************)
(* Action properties                                                       *)
(***************************************************************************)
(* A record is retired only after every record derived from it, and leaves  *)
(* no connection bound to it and no row or evicted host behind.             *)
RetireSource(k) ==
    /\ \A s \in Slots : rows[s].source = k => ~Contains(rows[s].host)
    /\ \A e \in evicted : e.source = k => ~Contains(e.host)
    /\ \A c \in Sessions : sess'[c].instance # k
DerivedRetireFirst ==
    [][live' \subseteq live => \A k \in live \ live' : RetireSource(k)]_vars

(***************************************************************************)
(* The abstract specification: the custody of every record.                *)
(***************************************************************************)
CustodyOf(k) ==
    CASE k >= nextKey                          -> "unissued"
      [] k < nextKey /\ ~Contains(k)           -> "retired"
      [] Contains(k) /\ k \in RetiringKeys     -> "retiring"
      [] Contains(k) /\ k \in SessionKeys      -> "session"
      [] Contains(k) /\ k \in ServiceKeys      -> "service"
      [] Contains(k) /\ k \in GroupKeys        -> "group"
      [] OTHER                                 -> "lost"

Custody == INSTANCE RecordCustody WITH custodian <- [k \in Keys |-> CustodyOf(k)]

(* Custody of a record only ever passes along the arrows of RecordCustody:  *)
(* no step of any thread loses a record, retires one it does not hold, or   *)
(* brings one back.                                                         *)
ImplementsCustody == Custody!Spec

(***************************************************************************)
(* Liveness.  The client keeps sending BAP events, at least the timed poll; *)
(* a thread that is in the middle of a call finishes it; and the gameplay   *)
(* thread keeps running slices.  The commit of a host allocation loses to   *)
(* another State mutation only finitely often: the window between its two   *)
(* State calls is a few instructions long.  A thread waiting for g_lock     *)
(* gets it, although SRW locks promise no order: events are short and       *)
(* driven by a network client, so the lock is free almost all the time.     *)
(***************************************************************************)
Fairness ==
    /\ WF_vars(EventBegins) /\ WF_vars(EventSteps)
    /\ WF_vars(CascadeNext) /\ WF_vars(DrainRoot)
    /\ WF_vars(Slice) /\ WF_vars(ServiceSteps)
    /\ SF_vars(ServiceCommit) /\ SF_vars(ServiceRetire)
    /\ \A a \in Claimants : WF_vars(ClaimSteps(a))
    /\ \A a \in Callers : WF_vars(CallerSteps(a))

FairSpec == Spec /\ Fairness

(* A root whose retirement was blocked by a pinned row is retired in the    *)
(* end, even if new leases and claims keep coming and the retry a release   *)
(* attempts is lost: the fence turns new leases away and a later event      *)
(* drains the root.                                                         *)
BlockedRootsRetire == \A k \in Keys : k \in RetiringKeys /\ Contains(k) ~> ~Contains(k)

(* A claimed row does not stay unfilled: the slice gives it a host, or it   *)
(* goes away with its source, unless State has no room for a host.          *)
ClaimedRowsSettle ==
    \A s \in Slots :
        Occupied(s) /\ ~Filled(s)
            ~> Filled(s) \/ ~Occupied(s) \/ ~AllocationAvailable \/ ~HasTarget(NoKey)
=============================================================================
