-------------------------- MODULE ConservationProofs -------------------------
(***************************************************************************)
(* No record is lost and none is retired behind its custodian's back, for  *)
(* every number of connections, callers, rows, groups, leases and record   *)
(* ids: every live record has exactly one custodian, the tables of a       *)
(* retirement are big enough for it, no fence is left behind, a cascade of *)
(* the product finds a frame for every record it descends into, and the    *)
(* threads implement RecordCustody.                                        *)
(***************************************************************************)
EXTENDS CustodyProofs, WellFoundedInduction

USE DEF KeyOrNone, NoKey

(***************************************************************************)
(* The BAP lock                                                            *)
(***************************************************************************)
(* g_lock is held by whoever retires a record or drains the blocked roots,  *)
(* so their state is nobody else's.                                         *)
LockOwned ==
    /\ ev.pc # "idle" => lock = BapEvent
    /\ sv.pc = "freeing" => lock = Service
    /\ \A a \in Callers : caller[a] = "drain" => lock = a
    /\ Retiring => lock # Nobody
    /\ ~Retiring => cascade = NoCascade
    /\ draining # {} => ev.pc = "drain" \/ \E a \in Callers : caller[a] = "drain"

(* Who finds the lock free finds nothing in progress, and an event that is  *)
(* not at its drain has no roots to walk.                                   *)
LEMMA LockFree ==
  ASSUME LockOwned, lock = Nobody
  PROVE  /\ ev.pc = "idle" /\ sv.pc # "freeing" /\ cascade = NoCascade /\ draining = {}
         /\ \A a \in Callers : caller[a] # "drain"
BY RetirementAssumption DEF LockOwned, Nobody, BapEvent, Service

LEMMA LockInEvent ==
  ASSUME LockOwned, lock = BapEvent
  PROVE  /\ sv.pc # "freeing" /\ (ev.pc # "drain" => draining = {})
         /\ \A a \in Callers : caller[a] # "drain"
BY RetirementAssumption DEF LockOwned, BapEvent, Service

LEMMA StartIdle ==
  ASSUME NEW k
  PROVE  /\ Start(k).step # "idle" \/ Start(k) = NoCascade
         /\ NoCascade.step = "idle"
BY DEF Start, NoCascade

LEMMA BeginLocks ==
  ASSUME Inv, LockOwned, EventBegins
  PROVE  LockOwned'
<1>1. /\ lock = Nobody /\ lock' = BapEvent
      /\ sv' = sv /\ caller' = caller
      /\ draining' = draining \/ ev'.pc = "drain"
      /\ cascade' = cascade \/ \E r : cascade' = Start(r)
  BY DEF EventBegins, Open, Close, Hello, Allocate, Join, Poll, Report, Identify, Shutdown, Begins,
         Frame, Detach, NoEvent
<1> QED BY <1>1, LockFree, StartIdle DEF LockOwned, Retiring, BapEvent, Nobody

LEMMA EventLocks ==
  ASSUME Inv, LockOwned, EventSteps
  PROVE  LockOwned'
<1>1. /\ lock = BapEvent /\ ~Retiring /\ ev.pc # "idle"
      /\ sv' = sv /\ caller' = caller
      /\ cascade' = cascade \/ \E r : cascade' = Start(r)
  BY DEF EventSteps, ShutdownSession, ShutdownDone, Retired, AllocateCommit, AllocateReject,
         JoinDirect, JoinLease, JoinRefused, JoinPublish, JoinDiscard, Deferred, IdentityClaim,
         ReportOwned, ReportBorrowed, ReportStale, ReportHeld, ReportAcquire, ReportLost,
         ReportCommit, ReportDiscard, EventRelease, EventReleased, Tail, EventDrained, bapVars,
         InEvent
<1>2. \/ draining' = {} /\ (lock' = BapEvent \/ (lock' = Nobody /\ ev'.pc = "idle" /\ cascade' = cascade))
      \/ lock' = BapEvent /\ ev'.pc = "drain"
  <2>1. CASE Tail
    BY <1>1, <2>1 DEF Tail, NoEvent
  <2>2. CASE EventDrained
    BY <1>1, <2>2 DEF EventDrained, NoEvent
  <2>3. CASE ~Tail /\ ~EventDrained
    <3>1. draining' = draining /\ lock' = lock /\ ev.pc # "drain"
      BY <2>3
         DEF EventSteps, ShutdownSession, ShutdownDone, Retired, AllocateCommit, AllocateReject,
             JoinDirect, JoinLease, JoinRefused, JoinPublish, JoinDiscard, Deferred, IdentityClaim,
             ReportOwned, ReportBorrowed, ReportStale, ReportHeld, ReportAcquire, ReportLost,
             ReportCommit, ReportDiscard, EventRelease, EventReleased, bapVars, InEvent
    <3> QED BY <1>1, <3>1, LockInEvent
  <2> QED BY <2>1, <2>2, <2>3
<1> QED BY <1>1, <1>2, LockInEvent, StartIdle DEF LockOwned, Retiring, BapEvent, Nobody

LEMMA ServiceLocks ==
  ASSUME Inv, LockOwned, ServiceBegins \/ ServiceSteps
  PROVE  LockOwned'
<1>1. sv \in ServiceCall /\ ServiceOK
  BY DEF Inv, TypeOK
<1>2. CASE ServiceRetire
  <2>1. /\ lock = Nobody /\ lock' = Service /\ ev' = ev /\ caller' = caller /\ draining' = draining
        /\ \E r : cascade' = Start(r)
    BY <1>2 DEF ServiceRetire
  <2> QED BY <2>1, LockFree, StartIdle DEF LockOwned, Retiring, Service, Nobody
<1>3. CASE ServiceUnlock
  <2>1. /\ lock = Service /\ lock' = Nobody /\ ~Retiring /\ sv'.pc = "free"
        /\ ev' = ev /\ caller' = caller /\ draining' = draining /\ cascade' = cascade
    BY <1>1, <1>3 DEF ServiceUnlock, LockOwned, ServiceCall
  <2> QED BY <2>1, RetirementAssumption DEF LockOwned, Retiring, Service, Nobody, BapEvent
<1>4. CASE ~ServiceRetire /\ ~ServiceUnlock
  <2>1. ev' = ev /\ caller' = caller /\ UNCHANGED <<lock, cascade, draining>>
    BY <1>4
       DEF ServiceBegins, ServiceSteps, Slice, Reset, Lookup, Alias, ServiceTake, ServiceFreed,
           ServicePick, ServiceInherit, ServiceDrop, ServicePrepare, ServiceCommit, ServiceReject,
           ServiceStore, LookupCheck, LookupClear, bapVars, actorVars, Answer
  <2>2. sv'.pc = "freeing" => sv' = sv
    <3>1. CASE ServiceBegins
      BY <1>1, <3>1 DEF ServiceBegins, Slice, Reset, Lookup, Alias, NoCall, actorVars
    <3>2. CASE ServiceTake \/ ServiceStore
      BY <1>1, <3>2 DEF ServiceTake, ServiceStore, NoCall, ServiceCall
    <3>3. CASE ServiceFreed
      <4>1. sv' = NoCall \/ sv'.pc = sv.next
        BY <1>1, <3>3 DEF ServiceFreed, ServiceCall
      <4> QED BY <1>1, <3>3, <4>1 DEF ServiceFreed, ServiceOK, NoCall
    <3>4. CASE ServicePick
      BY <3>4, PickGoes
    <3>5. CASE ServiceInherit \/ ServiceDrop \/ ServicePrepare \/ LookupCheck
      BY <1>1, <3>5 DEF ServiceInherit, ServiceDrop, ServicePrepare, LookupCheck, NoCall, ServiceCall
    <3>6. CASE ServiceCommit
      BY <1>1, <3>6 DEF ServiceCommit, ServiceCall
    <3>7. CASE ServiceReject \/ LookupClear
      BY <3>7 DEF ServiceReject, LookupClear, NoCall
    <3> QED BY <1>4, <3>1, <3>2, <3>3, <3>4, <3>5, <3>6, <3>7 DEF ServiceBegins, ServiceSteps
  <2> QED BY <2>1, <2>2 DEF LockOwned, Retiring
<1> QED BY <1>2, <1>3, <1>4

LEMMA OtherLocks ==
  ASSUME Inv, LockOwned,
         \/ CascadeNext \/ DrainRoot \/ Revise
         \/ \E a \in Claimants : ClaimSteps(a)
         \/ \E a \in Callers : CallerClaim(a) \/ CallerLease(a) \/ CallerSteps(a)
  PROVE  LockOwned'
<1>1. CASE CascadeNext
  <2>1. Retiring /\ UNCHANGED <<lock, draining, ev, sv, caller>>
    BY <1>1 DEF CascadeNext, CascadeBegin, CascadeChild, CascadeDerived, CascadeSource, CascadeRetire,
                CascadeFinish, Retiring, actorVars
  <2>2. cascade' = NoCascade \/ cascade'.step # "idle"
    <3>1. cascade \in Cascade
      BY DEF Inv, TypeOK
    <3>2. CASE CascadeBegin \/ CascadeChild
      BY <3>1, <3>2 DEF CascadeBegin, CascadeChild, Blocked, Cascade
    <3>3. CASE CascadeDerived \/ CascadeSource \/ CascadeRetire \/ CascadeFinish
      BY <3>1, <3>3 DEF CascadeDerived, CascadeSource, CascadeRetire, CascadeFinish, Cascade
    <3> QED BY <1>1, <3>2, <3>3 DEF CascadeNext
  <2> QED BY <2>1, <2>2, StartIdle DEF LockOwned, Retiring
<1>2. CASE DrainRoot
  <2>1. /\ lock # Nobody /\ lock' = lock /\ UNCHANGED <<ev, sv, caller>>
        /\ draining' \subseteq draining /\ \E r : cascade' = Start(r)
    BY <1>2 DEF DrainRoot, actorVars
  <2> QED BY <2>1, StartIdle DEF LockOwned, Retiring
<1>3. CASE Revise
  BY <1>3 DEF Revise, bapVars, actorVars, LockOwned, Retiring
<1>4. ASSUME NEW a \in Claimants, ClaimSteps(a) PROVE LockOwned'
  <2>1. /\ UNCHANGED <<lock, draining, cascade, sv, caller>>
        /\ ev' = ev \/ \E b \in BOOLEAN : Answer(a, b)
    BY <1>4 DEF ClaimSteps, ClaimTake, ClaimRecheck, ClaimDrop, ClaimPublish, ClaimClear, ClaimGoes,
                bapVars
  <2>2. claim[a].pc # "idle"
    BY <1>4 DEF ClaimSteps, ClaimTake, ClaimRecheck, ClaimDrop, ClaimPublish, ClaimClear, ClaimStep
  <2>3. ASSUME NEW b \in BOOLEAN, Answer(a, b)
        PROVE  ev' = ev \/ (ev.pc = "claiming" /\ ev'.pc # "idle")
    <3>1. CASE a = BapEvent
      BY <2>2, <2>3, <3>1 DEF Answer, Inv, TypeOK, ClaimOK, Event
    <3> QED BY <2>3, <3>1 DEF Answer
  <2> QED BY <2>1, <2>3 DEF LockOwned, Retiring
<1>5. ASSUME NEW a \in Callers, CallerClaim(a) \/ CallerLease(a) \/ CallerSteps(a) PROVE LockOwned'
  <2>1. caller \in [Callers -> CallerStep] /\ a # BapEvent /\ a # Service /\ a # Nobody
    BY RetirementAssumption DEF Inv, TypeOK
  <2>2. ev' = ev /\ sv' = sv /\ cascade' = cascade
    BY <1>5 DEF CallerClaim, CallerLease, CallerSteps, CallerRelease, CallerRetry, CallerDrained,
                bapVars
  <2>3. CASE CallerClaim(a) \/ CallerLease(a) \/ CallerRelease(a)
    <3>1. /\ UNCHANGED <<lock, draining>>
          /\ caller' = caller \/ caller' = [caller EXCEPT ![a] = "holding"]
                              \/ (caller[a] = "holding" /\ caller' = [caller EXCEPT ![a] = "retry"])
          /\ caller[a] # "drain"
      BY <2>3 DEF CallerClaim, CallerLease, CallerRelease, CallerGoes, CallerFree, bapVars
    <3> QED BY <2>1, <2>2, <3>1 DEF LockOwned, Retiring
  <2>4. CASE CallerRetry(a)
    <3>1. caller[a] = "retry"
      BY <2>4 DEF CallerRetry
    <3>2. CASE lock = Nobody
      <4>1. lock' = a /\ caller' = [caller EXCEPT ![a] = "drain"]
        BY <2>4, <3>2 DEF CallerRetry, CallerGoes
      <4> QED BY <2>1, <2>2, <3>2, <4>1, LockFree DEF LockOwned, Retiring
    <3>3. CASE lock # Nobody
      <4>1. UNCHANGED <<lock, draining>> /\ caller' = [caller EXCEPT ![a] = "idle"]
        BY <2>4, <3>3 DEF CallerRetry, CallerGoes
      <4> QED BY <2>1, <2>2, <3>1, <4>1 DEF LockOwned, Retiring
    <3> QED BY <3>2, <3>3
  <2>5. CASE CallerDrained(a)
    <3>1. /\ lock = a /\ lock' = Nobody /\ draining' = {} /\ ~Retiring
          /\ caller' = [caller EXCEPT ![a] = "idle"]
      BY <2>5 DEF CallerDrained, CallerGoes, LockOwned
    <3> QED BY <2>1, <2>2, <3>1 DEF LockOwned, Retiring
  <2> QED BY <1>5, <2>3, <2>4, <2>5 DEF CallerSteps
<1> QED BY <1>1, <1>2, <1>3, <1>4, <1>5

LEMMA LocksStay ==
  ASSUME Inv, Next, LockOwned
  PROVE  LockOwned'
BY BeginLocks, EventLocks, ServiceLocks, OtherLocks DEF Next

(* The service thread forgets no host it still has to retire. *)
FreedInHand == sv.freed # {} => sv.pc \in {"free", "freeing"}

LEMMA FreedStays ==
  ASSUME Inv, Next, FreedInHand
  PROVE  FreedInHand'
<1>1. sv \in ServiceCall /\ ServiceOK
  BY DEF Inv, TypeOK
<1>2. CASE ServiceBegins
  BY <1>1, <1>2 DEF ServiceBegins, Slice, Reset, Lookup, Alias, NoCall, actorVars, FreedInHand
<1>3. CASE ServiceSteps
  <2>1. CASE ServiceTake \/ ServiceRetire \/ ServiceUnlock
    BY <1>1, <2>1 DEF ServiceTake, ServiceRetire, ServiceUnlock, ServiceCall, FreedInHand
  <2>2. CASE ServiceFreed
    BY <1>1, <2>2 DEF ServiceFreed, NoCall, ServiceCall, FreedInHand
  <2>3. CASE ServicePick
    <3>1. sv' = NoCall \/ sv'.freed = {}
      BY <2>3 DEF ServicePick, NoCall
    <3> QED BY <3>1 DEF NoCall, FreedInHand
  <2>4. CASE ServiceInherit \/ ServiceDrop \/ ServicePrepare
    BY <1>1, <2>4 DEF ServiceInherit, ServiceDrop, ServicePrepare, NoCall, ServiceCall, FreedInHand
  <2>5. CASE ServiceCommit
    BY <1>1, <2>5 DEF ServiceCommit, ServiceCall, FreedInHand
  <2>6. CASE ServiceReject \/ LookupClear
    BY <2>6 DEF ServiceReject, LookupClear, NoCall, FreedInHand
  <2>7. CASE ServiceStore
    BY <1>1, <2>7 DEF ServiceStore, NoCall, FreedInHand
  <2>8. CASE LookupCheck
    BY <1>1, <2>8 DEF LookupCheck, NoCall, ServiceCall, FreedInHand
  <2> QED BY <1>3, <2>1, <2>2, <2>3, <2>4, <2>5, <2>6, <2>7, <2>8 DEF ServiceSteps
<1>4. CASE sv' = sv
  BY <1>4 DEF FreedInHand
<1> QED BY <1>2, <1>3, <1>4, ServiceAlone

(* Outside a cascade's steps the roots that wait stay where they are, move  *)
(* to the walk of a drain, or a new cascade takes one up: and a cascade     *)
(* starts only where none runs and no other root is being walked.           *)
Waiting == UNCHANGED <<pending, draining>>
Walked == draining = {} /\ draining' = pending /\ pending' = {}

LEMMA RootsMove ==
  ASSUME Inv, LockOwned, Next, ~CascadeNext
  PROVE  \/ cascade' = cascade /\ (Waiting \/ (Walked /\ cascade = NoCascade))
         \/ DrainRoot /\ cascade = NoCascade
         \/ Waiting /\ draining = {} /\ cascade = NoCascade
<1> USE DEF Waiting, Walked
<1>1. CASE EventBegins
  <2>1. lock = Nobody
    BY <1>1 DEF EventBegins, Open, Close, Hello, Allocate, Join, Poll, Report, Identify, Shutdown,
                Begins
  <2>2. \/ UNCHANGED <<pending, draining>>
        \/ draining' = pending /\ pending' = {} /\ cascade' = cascade
    BY <1>1 DEF EventBegins, Open, Close, Hello, Allocate, Join, Poll, Report, Identify, Shutdown,
                Frame
  <2> QED BY <2>1, <2>2, LockFree
<1>2. CASE EventSteps
  <2>1. lock = BapEvent /\ cascade = NoCascade
    BY <1>2
       DEF EventSteps, ShutdownSession, ShutdownDone, Retired, AllocateCommit, AllocateReject,
           JoinDirect, JoinLease, JoinRefused, JoinPublish, JoinDiscard, Deferred, IdentityClaim,
           ReportOwned, ReportBorrowed, ReportStale, ReportHeld, ReportAcquire, ReportLost,
           ReportCommit, ReportDiscard, EventRelease, EventReleased, Tail, EventDrained, InEvent,
           LockOwned
  <2>2. CASE ShutdownSession \/ AllocateCommit \/ JoinPublish
    <3>1. Waiting /\ ev.pc # "drain"
      BY <2>2 DEF ShutdownSession, AllocateCommit, JoinPublish, InEvent
    <3> QED BY <2>1, <3>1, LockInEvent
  <2>3. CASE Tail
    <3>1. cascade' = cascade /\ draining' = pending /\ pending' = {} /\ ev.pc # "drain"
      BY <2>3 DEF Tail, InEvent
    <3> QED BY <2>1, <3>1, LockInEvent
  <2> QED
    BY <1>2, <2>2, <2>3
       DEF EventSteps, ShutdownDone, Retired, AllocateReject,
           JoinDirect, JoinLease, JoinRefused, JoinDiscard, Deferred, IdentityClaim,
           ReportOwned, ReportBorrowed, ReportStale, ReportHeld, ReportAcquire, ReportLost,
           ReportCommit, ReportDiscard, EventRelease, EventReleased, EventDrained, bapVars
<1>3. CASE ServiceBegins \/ ServiceSteps
  <2>1. CASE ServiceRetire
    BY <2>1, LockFree DEF ServiceRetire
  <2> QED
    BY <1>3, <2>1
       DEF ServiceBegins, ServiceSteps, Slice, Reset, Lookup, Alias, ServiceTake, ServiceUnlock,
           ServiceFreed, ServicePick, ServiceInherit, ServiceDrop, ServicePrepare, ServiceCommit,
           ServiceReject, ServiceStore, LookupCheck, LookupClear, bapVars
<1>4. ASSUME NEW a \in Claimants, ClaimSteps(a) PROVE cascade' = cascade /\ Waiting
  BY <1>4 DEF ClaimSteps, ClaimTake, ClaimRecheck, ClaimDrop, ClaimPublish, ClaimClear, bapVars
<1>5. ASSUME NEW a \in Callers, CallerClaim(a) \/ CallerLease(a) \/ CallerSteps(a)
      PROVE  cascade' = cascade /\ (Waiting \/ (Walked /\ cascade = NoCascade))
  BY <1>5, LockFree
     DEF CallerClaim, CallerLease, CallerSteps, CallerRelease, CallerRetry, CallerDrained, bapVars
<1>6. CASE DrainRoot \/ Revise
  BY <1>6 DEF DrainRoot, Revise, LockOwned, bapVars
<1> QED BY <1>1, <1>2, <1>3, <1>4, <1>5, <1>6 DEF Next

(* A connection that stops owning a record puts it up for retirement, or    *)
(* the commit of its successor has already taken it from State.             *)
LEMMA OwnersLeave ==
  ASSUME Inv, PlanOwned, Custodians, Next, NEW c \in Sessions, NEW k \in Keys, Owner(c, k), ~Owner(c, k)'
  PROVE  \/ cascade' = Start(k) /\ (k \in live => k \in live')
         \/ k \notin live' /\ cascade' = NoCascade /\ UNCHANGED <<pending, draining>>
<1> DEFINE Goal == \/ cascade' = Start(k) /\ (k \in live => k \in live')
                   \/ k \notin live' /\ cascade' = NoCascade /\ UNCHANGED <<pending, draining>>
<1>1. sess \in [Sessions -> Session] /\ Owned(c) = k /\ sess[c].owns /\ sess[c].instance = k
  BY DEF Inv, TypeOK, Owner, Owned
<1>2. sess'[c].owns # sess[c].owns \/ sess'[c].instance # sess[c].instance
  BY DEF Owner
<1>3. ASSUME NEW d \in Sessions, sess' = [sess EXCEPT ![d] = Refreshed(d)] PROVE FALSE
  BY <1>1, <1>2, <1>3 DEF Refreshed
<1>4. ASSUME NEW d \in Sessions, NEW s, sess' = [sess EXCEPT ![d] = s], cascade' = Start(Owned(d)),
             live' = live
      PROVE  Goal
  BY <1>1, <1>2, <1>4
<1>5. CASE EventBegins
  <2>1. ASSUME NEW d \in Sessions, Open(d) \/ Close(d) \/ Hello(d) PROVE Goal
    <3>1. PICK phase : Detach(d, phase, "tail")
      BY <2>1 DEF Open, Close, Hello
    <3>2. live' = live
      BY <2>1 DEF Open, Close, Hello, recordVars
    <3> QED BY <1>4, <3>1, <3>2 DEF Detach
  <2>2. ASSUME NEW d \in Sessions, NEW g \in Groups,
               Allocate(d) \/ Join(d) \/ Poll(d) \/ Report(d, g) \/ Identify(d, g)
        PROVE  FALSE
    BY <1>3, <2>2 DEF Allocate, Join, Poll, Report, Identify, Frame
  <2>3. ASSUME NEW d \in Sessions, Allocate(d) \/ Join(d) \/ Poll(d) PROVE FALSE
    BY <1>3, <2>3 DEF Allocate, Join, Poll, Frame
  <2> QED BY <1>2, <1>5, <2>1, <2>2, <2>3 DEF EventBegins, Shutdown
<1>6. CASE EventSteps
  <2>1. CASE ShutdownSession
    <3>1. PICK d \in ev.todo : sess' = [sess EXCEPT ![d] = ClosedSession] /\ cascade' = Start(Owned(d))
      BY <2>1 DEF ShutdownSession
    <3>2. d \in Sessions
      BY DEF Inv, TypeOK, Event
    <3> QED BY <1>4, <2>1, <3>1, <3>2 DEF ShutdownSession, recordVars
  <2>2. CASE AllocateCommit
    <3>1. PICK d \in Sessions : d = ev.session
      BY <2>2, EventSession DEF AllocateCommit, InEvent, InSession
    <3>2. d = c
      BY <1>1, <1>2, <2>2, <3>1 DEF AllocateCommit
    <3>3. plan[BapEvent].replaces \in {NoKey, k}
      BY <1>1, <2>2, <3>1, <3>2 DEF AllocateCommit, InEvent, PlanOwned, PlanFor
    <3>4. /\ live' = (live \ {plan[BapEvent].replaces}) \cup {plan[BapEvent].key}
          /\ cascade' = IF plan[BapEvent].replaces = k THEN Start(NoKey) ELSE Start(k)
          /\ UNCHANGED <<pending, draining>>
      BY <1>1, <2>2, <3>1, <3>2 DEF AllocateCommit, CommitSession, LeaseToRetire
    <3>5. k # plan[BapEvent].key
      BY <1>1, <1>2, <2>2, <3>1, <3>2 DEF AllocateCommit
    <3> QED BY <3>3, <3>4, <3>5 DEF Start, Keys
  <2>3. CASE JoinPublish
    <3>1. PICK d \in Sessions : d = ev.session
      BY <2>3, EventSession DEF JoinPublish, InEvent, InSession
    <3>2. d = c
      BY <1>1, <1>2, <2>3, <3>1 DEF JoinPublish
    <3>3. sess[c].instance # ev.key
      BY <1>1, <1>2, <2>3, <3>1, <3>2 DEF JoinPublish, Session
    <3> QED BY <1>1, <2>3, <3>1, <3>2, <3>3 DEF JoinPublish, LeaseToRetire, MutateRecord
  <2> QED
    BY <1>2, <1>6, <2>1, <2>2, <2>3
       DEF EventSteps, ShutdownDone, Retired, AllocateReject, JoinDirect, JoinLease, JoinRefused,
           JoinDiscard, Deferred, IdentityClaim, ReportOwned, ReportBorrowed, ReportStale,
           ReportHeld, ReportAcquire, ReportLost, ReportCommit, ReportDiscard, EventRelease,
           EventReleased, Tail, EventDrained, bapVars
<1>7. CASE CascadeNext
  <2>1. CASE CascadeRetire
    BY <1>1, <1>2, <2>1 DEF CascadeRetire, Invalidated
  <2> QED
    BY <1>2, <1>7, <2>1 DEF CascadeNext, CascadeBegin, CascadeChild, CascadeDerived, CascadeSource,
                            CascadeFinish
<1>8. ASSUME NEW a \in Claimants, ClaimSteps(a) PROVE FALSE
  BY <1>2, <1>8 DEF ClaimSteps, ClaimTake, ClaimRecheck, ClaimDrop, ClaimPublish, ClaimClear, bapVars
<1>9. ASSUME ServiceBegins \/ ServiceSteps PROVE FALSE
  BY <1>2, <1>9
     DEF ServiceBegins, ServiceSteps, Slice, Reset, Lookup, Alias, ServiceTake, ServiceRetire,
         ServiceUnlock, ServiceFreed, ServicePick, ServiceInherit, ServiceDrop, ServicePrepare,
         ServiceCommit, ServiceReject, ServiceStore, LookupCheck, LookupClear, bapVars
<1>10. ASSUME NEW a \in Callers, CallerClaim(a) \/ CallerLease(a) \/ CallerSteps(a) PROVE FALSE
  BY <1>2, <1>10 DEF CallerClaim, CallerLease, CallerSteps, CallerRelease, CallerRetry, CallerDrained,
                     bapVars
<1>11. ASSUME DrainRoot \/ Revise PROVE FALSE
  BY <1>2, <1>11 DEF DrainRoot, Revise, bapVars
<1> QED BY <1>5, <1>6, <1>7, <1>8, <1>9, <1>10, <1>11 DEF Next

(* What the service thread lets go is retired or is a host of the table.    *)
LEMMA ServedGoes ==
  ASSUME Inv, LockOwned, FreedInHand, ServiceNames, Next, NEW k \in Keys, Serviced(k), ~Serviced(k)'
  PROVE  \/ cascade' = Start(k) /\ ServiceRetire
         \/ Hosted(k)'
<1>1. sv \in ServiceCall /\ ServiceOK /\ HostTypeOK
  BY DEF Inv, TypeOK
<1>2. \/ sv.pc \in {"free", "freeing"} /\ k \in sv.freed
      \/ sv.pc = "store" /\ sv.key = k
  <2>1. CASE k \in sv.freed
    <3>1. sv.freed # {}
      BY <2>1
    <3> QED BY <2>1, <3>1 DEF FreedInHand
  <2> QED BY <2>1 DEF Serviced
<1>3. sv' # sv
  BY DEF Serviced
<1>4. CASE ServiceBegins
  BY <1>2, <1>3, <1>4 DEF ServiceBegins, Slice, Reset, Lookup, Alias, Serves, actorVars
<1>5. CASE ServiceSteps
  <2>1. CASE ServiceRetire
    <3>1. PICK i \in sv.freed : /\ cascade' = Start(i)
                                /\ sv' = [sv EXCEPT !.pc = "freeing", !.freed = @ \ {i}]
      BY <2>1 DEF ServiceRetire
    <3>2. k \in sv.freed /\ sv'.freed = sv.freed \ {i}
      BY <1>1, <1>2, <2>1, <3>1 DEF ServiceRetire, ServiceCall
    <3> QED BY <2>1, <3>1, <3>2 DEF Serviced
  <2>2. CASE ServiceUnlock
    BY <1>1, <1>2, <2>2 DEF ServiceUnlock, ServiceCall, Serviced
  <2>3. CASE ServiceStore
    <3>1. sv.pc = "store" /\ sv.key = k /\ sv.group \in Groups
      BY <1>2, <2>3 DEF ServiceStore, ServiceNames
    <3>2. CASE Storable(sv.group, sv.source) # {}
      <4>1. PICK s \in Slots : s \in Storable(sv.group, sv.source)
        BY <3>2 DEF Storable
      <4>2. rows'[s].host = k
        BY <1>1, <2>3, <3>1, <4>1 DEF ServiceStore, StoreHost, HostTypeOK, Row
      <4> QED BY <4>2 DEF Hosted
    <3>3. CASE Storable(sv.group, sv.source) = {}
      BY <2>3, <3>1, <3>3 DEF ServiceStore, NoCall, Serviced
    <3> QED BY <3>2, <3>3
  <2>4. CASE ServiceFreed
    BY <1>2, <2>4 DEF ServiceFreed
  <2> QED
    BY <1>2, <1>5, <2>1, <2>2, <2>3, <2>4
       DEF ServiceSteps, ServiceTake, ServicePick, ServiceInherit, ServiceDrop, ServicePrepare,
           ServiceCommit, ServiceReject, LookupCheck, LookupClear
<1> QED BY <1>3, <1>4, <1>5, ServiceAlone

(***************************************************************************)
(* Hosts and their sources                                                 *)
(***************************************************************************)
HostedUnder(k, j) == \/ \E s \in Slots : rows[s].host = k /\ rows[s].source = j
                     \/ \E e \in evicted : e.host = k /\ e.source = j

LEMMA HostedSomewhere ==
  ASSUME HostTypeOK, NEW k \in Keys
  PROVE  /\ Hosted(k) => \E j \in KeyOrNone : HostedUnder(k, j)
         /\ \A j : HostedUnder(k, j) => Hosted(k) /\ j \in KeyOrNone
BY DEF Hosted, HostedUnder, HostTypeOK, Row, EvictedHost

(* The calls that claim, drop, rename and lease rows keep every host. *)
LEMMA CallsKeepHosts ==
  ASSUME HostTypeOK, FreeRowsEmpty, HostCalls, NEW k \in Keys, NEW j \in KeyOrNone, HostedUnder(k, j)
  PROVE  HostedUnder(k, j)'
<1> USE DEF HostTypeOK, HostedUnder
<1>1. ASSUME evicted' = evicted,
             \A s \in Slots : Filled(s) => /\ rows'[s].host = rows[s].host
                                           /\ rows'[s].source = rows[s].source
      PROVE  HostedUnder(k, j)'
  BY <1>1 DEF Filled, Keys
<1>2. ASSUME NEW S, ClearRows(S), \A s \in S \cap Slots : ~Filled(s), evicted' = evicted
      PROVE  HostedUnder(k, j)'
  BY <1>1, <1>2 DEF ClearRows
<1>3. ASSUME NEW g \in GroupOrNone, NEW i \in KeyOrNone, ClaimRow(g, i) PROVE HostedUnder(k, j)'
  <2>1. CASE ClaimRefuse(g, i)
    BY <1>1, <2>1 DEF ClaimRefuse, hostVars
  <2>2. CASE ClaimExisting(g, i)
    <3>1. PICK s \in Slots : rows' = [rows EXCEPT ![s].source =
                                         IF ~Filled(s) /\ i # NoKey THEN i ELSE @]
      BY <2>2 DEF ClaimExisting, FirstOf, Named
    <3>2. \A t \in Slots : Filled(t) => /\ rows'[t].host = rows[t].host
                                        /\ rows'[t].source = rows[t].source
      BY <3>1 DEF Row
    <3> QED BY <1>1, <2>2, <3>2 DEF ClaimExisting
  <2>3. ASSUME NEW s \in Slots, NewRow(s, g, i) PROVE \A t \in Slots \ {s} : rows'[t] = rows[t]
    BY <2>3 DEF NewRow
  <2>4. CASE ClaimFree(g, i)
    <3>1. PICK s \in Slots : ~Filled(s) /\ NewRow(s, g, i)
      BY <2>4 DEF ClaimFree, FirstOf, FreeSlots, FreeRowsEmpty
    <3> QED BY <1>1, <2>3, <2>4, <3>1 DEF ClaimFree
  <2>5. CASE ClaimEvicting(g, i)
    <3>1. PICK s \in Slots :
             /\ NewRow(s, g, i)
             /\ evicted' = evicted \cup
                   IF Filled(s) THEN {[host |-> rows[s].host, source |-> rows[s].source]} ELSE {}
      BY <2>5 DEF ClaimEvicting, Victims
    <3>2. CASE \E e \in evicted : e.host = k /\ e.source = j
      BY <3>1, <3>2
    <3>3. ASSUME NEW t \in Slots, rows[t].host = k, rows[t].source = j PROVE HostedUnder(k, j)'
      <4>1. CASE t = s
        <5>1. [host |-> k, source |-> j] \in evicted'
          BY <3>1, <3>3, <4>1 DEF Filled, Keys
        <5> QED BY <5>1
      <4>2. CASE t # s
        BY <2>3, <3>1, <3>3, <4>2
      <4> QED BY <4>1, <4>2
    <3> QED BY <3>2, <3>3
  <2> QED BY <1>3, <2>1, <2>2, <2>4, <2>5 DEF ClaimRow
<1>4. ASSUME NEW g, NEW i, DropUnfilledClaim(g, i) \/ DropStaleClaim(g, i) PROVE HostedUnder(k, j)'
  <2>1. CASE DropUnfilledClaim(g, i)
    BY <1>2, <2>1 DEF DropUnfilledClaim
  <2>2. CASE DropStaleClaim(g, i)
    BY <1>2, <2>2 DEF DropStaleClaim
  <2> QED BY <1>4, <2>1, <2>2
<1>5. ASSUME NEW g \in Groups, NEW m \in Groups, AliasRow(g, m) PROVE HostedUnder(k, j)'
  <2>1. PICK s \in Slots : rows' = [rows EXCEPT ![s].alias = m]
    BY <1>5 DEF AliasRow, LastOf, Named
  <2>2. \A t \in Slots : rows'[t].host = rows[t].host /\ rows'[t].source = rows[t].source
    BY <2>1 DEF Row
  <2> QED BY <1>1, <1>5, <2>2 DEF AliasRow
<1>6. ASSUME NEW h \in LeaseHolders, ReleaseLease(h) \/ \E i \in KeyOrNone : AcquireLease(h, i)
      PROVE  HostedUnder(k, j)'
  <2>1. ASSUME NEW i \in KeyOrNone, AcquireLease(h, i) PROVE HostedUnder(k, j)'
    <3>1. PICK s \in Slots : rows' = [rows EXCEPT ![s].pins = @ + 1]
      BY <2>1 DEF AcquireLease, Leasable, FirstOf
    <3>2. \A t \in Slots : rows'[t].host = rows[t].host /\ rows'[t].source = rows[t].source
      BY <3>1 DEF Row
    <3> QED BY <1>1, <2>1, <3>2 DEF AcquireLease
  <2>2. CASE ReleaseLease(h)
    <3>1. \A t \in Slots : rows'[t].host = rows[t].host /\ rows'[t].source = rows[t].source
      BY <2>2 DEF ReleaseLease, Row
    <3> QED BY <1>1, <2>2, <3>1 DEF ReleaseLease
  <2> QED BY <1>6, <2>1, <2>2
<1> QED BY <1>3, <1>4, <1>5, <1>6 DEF HostCalls

(* The rows and evicted hosts behind a fence are those that were there. *)
LEMMA NoneMoreUnder ==
  ASSUME Inv, Next, NEW k \in Keys, NEW j \in Keys, Fenced(j), HostedUnder(k, j)'
  PROVE  HostedUnder(k, j)
<1>1. HostTypeOK /\ sv.group \in GroupOrNone
  BY DEF Inv, TypeOK, ServiceCall, GroupOrNone
<1>2. CASE HostMoves \/ UNCHANGED hostVars
  <2>1. Kept
    BY <1>1, <1>2, MovesKeep
  <2> QED BY <2>1 DEF Kept, RowKept, EvictedFromRows, HostedUnder, Keys
<1>3. CASE CascadeBegin \/ CascadeFinish
  BY <1>3 DEF CascadeBegin, CascadeFinish, FenceSource, FinishSource, HostedUnder
<1>4. CASE ServiceStore
  <2>1. /\ evicted' = evicted
        /\ \A s \in Slots : /\ rows'[s].source = rows[s].source
                            /\ Fenced(rows[s].source) => rows'[s].host = rows[s].host
    BY <1>1, <1>4 DEF ServiceStore, StoreHost, Storable, HostTypeOK, Row
  <2>2. CASE \E e \in evicted' : e.host = k /\ e.source = j
    BY <2>1, <2>2 DEF HostedUnder
  <2>3. ASSUME NEW s \in Slots, rows'[s].host = k, rows'[s].source = j PROVE HostedUnder(k, j)
    <3>1. rows[s].source = j
      BY <2>1, <2>3
    <3>2. rows[s].host = k
      BY <2>1, <2>3, <3>1 DEF Fenced
    <3> QED BY <3>1, <3>2 DEF HostedUnder
  <2> QED BY <2>2, <2>3 DEF HostedUnder
<1> QED BY <1>2, <1>3, <1>4, TableMoves

(***************************************************************************)
(* The steps of a cascade, frame by frame                                  *)
(***************************************************************************)
SameWalk == /\ cascade'.root = cascade.root /\ cascade'.visited = cascade.visited
            /\ cascade'.parent = cascade.parent

LEMMA FrameShape ==
  ASSUME Inv, CascadeNext
  PROVE  /\ cascade \in Cascade /\ Retiring /\ cascade.visited \subseteq Keys
         /\ cascade.at \in Keys /\ cascade.root \in Keys
         /\ {cascade.at, cascade.root} \subseteq cascade.visited
         /\ draining' = draining /\ sv' = sv /\ ev' = ev /\ (~CascadeRetire => sess' = sess /\ live' = live)
         /\ ~ServiceStore /\ ~ServiceTake /\ ~Reset
<1>1. /\ cascade \in Cascade /\ Retiring /\ sv' = sv /\ ev' = ev /\ draining' = draining
      /\ (~CascadeRetire => sess' = sess /\ live' = live)
  BY DEF CascadeNext, CascadeBegin, CascadeChild, CascadeDerived, CascadeSource, CascadeRetire,
         CascadeFinish, Inv, TypeOK, Retiring, actorVars, recordVars
<1>2. ~ServiceStore /\ ~ServiceTake /\ ~Reset
  BY <1>1 DEF ServiceStore, ServiceTake, Reset, Serves, NoCall, Inv, TypeOK, ServiceCall
<1> QED BY <1>1, <1>2, FrameIsRecord DEF Inv, FramesOK, Cascade

LEMMA BeginShape ==
  ASSUME Inv, CascadeBegin
  PROVE  /\ cascade.step = "begin" /\ rows' = rows /\ evicted' = evicted
         /\ fences \subseteq fences' /\ fences' \subseteq fences \cup {cascade.at}
         /\ \/ Blocked
            \/ /\ SameWalk /\ cascade'.step = "children" /\ cascade'.at = cascade.at
               /\ pending' = pending /\ cascade.at \in fences'
               /\ \A i \in Keys : cascade'.todo[i] = IF i = cascade.at THEN DerivedHosts(cascade.at)
                                                     ELSE cascade.todo[i]
<1>1. /\ cascade.step = "begin" /\ rows' = rows /\ evicted' = evicted
      /\ fences' = IF CanFence(cascade.at) THEN fences \cup {cascade.at} ELSE fences
  BY DEF CascadeBegin, FenceSource
<1>2. CASE ~CanFence(cascade.at) \/ HasPinnedRow(cascade.at)
  BY <1>1, <1>2 DEF CascadeBegin
<1>3. CASE ~(~CanFence(cascade.at) \/ HasPinnedRow(cascade.at))
  <2>1. /\ pending' = pending
        /\ cascade' = [cascade EXCEPT !.step = "children",
                                      !.todo[cascade.at] = DerivedHosts(cascade.at)]
    BY <1>3 DEF CascadeBegin
  <2>2. cascade \in Cascade
    BY DEF Inv, TypeOK
  <2>3. \A i \in Keys : cascade'.todo[i] = IF i = cascade.at THEN DerivedHosts(cascade.at)
                                           ELSE cascade.todo[i]
    BY <2>1, <2>2 DEF Cascade
  <2>4. SameWalk /\ cascade'.step = "children" /\ cascade'.at = cascade.at
    BY <2>1, <2>2 DEF Cascade, SameWalk
  <2> QED BY <1>1, <1>3, <2>1, <2>3, <2>4
<1> QED BY <1>2, <1>3

LEMMA ChildShape ==
  ASSUME Inv, CascadeChild
  PROVE  /\ cascade.step = "children" /\ UNCHANGED hostVars
         /\ \E i \in cascade.todo[cascade.at] :
               \/ Blocked /\ i \notin cascade.visited
               \/ /\ i \in cascade.visited /\ SameWalk /\ cascade'.step = "derived"
                  /\ cascade'.child = i /\ cascade'.at = cascade.at /\ cascade'.todo = cascade.todo
                  /\ pending' = pending
               \/ /\ i \notin cascade.visited /\ Cardinality(cascade.visited) < CascadeCapacity
                  /\ cascade'.step = "begin" /\ cascade'.root = cascade.root
                  /\ cascade'.at = i /\ cascade'.visited = cascade.visited \cup {i}
                  /\ cascade'.parent = [cascade.parent EXCEPT ![i] = cascade.at]
                  /\ cascade'.todo = cascade.todo /\ pending' = pending
<1>1. cascade \in Cascade
  BY DEF Inv, TypeOK
<1>2. PICK i \in cascade.todo[cascade.at] :
          IF i \in cascade.visited
          THEN /\ cascade' = [cascade EXCEPT !.step = "derived", !.child = i]
               /\ UNCHANGED pending
          ELSE IF Cardinality(cascade.visited) >= CascadeCapacity
          THEN Blocked
          ELSE /\ cascade' = [cascade EXCEPT !.step = "begin", !.at = i,
                                             !.visited = @ \cup {i},
                                             !.parent[i] = cascade.at]
               /\ UNCHANGED pending
  BY DEF CascadeChild
<1>3. CASE i \in cascade.visited
  <2>1. SameWalk /\ cascade'.step = "derived" /\ cascade'.child = i /\ cascade'.at = cascade.at
        /\ cascade'.todo = cascade.todo
    BY <1>1, <1>2, <1>3 DEF Cascade, SameWalk
  <2> QED BY <1>2, <1>3, <2>1 DEF CascadeChild
<1>4. CASE i \notin cascade.visited /\ Cardinality(cascade.visited) >= CascadeCapacity
  BY <1>2, <1>4 DEF CascadeChild
<1>5. CASE i \notin cascade.visited /\ ~(Cardinality(cascade.visited) >= CascadeCapacity)
  <2>1. /\ pending' = pending
        /\ cascade' = [cascade EXCEPT !.step = "begin", !.at = i, !.visited = @ \cup {i},
                                      !.parent[i] = cascade.at]
    BY <1>2, <1>5
  <2>2. /\ cascade'.step = "begin" /\ cascade'.root = cascade.root
        /\ cascade'.at = i /\ cascade'.visited = cascade.visited \cup {i}
        /\ cascade'.parent = [cascade.parent EXCEPT ![i] = cascade.at]
        /\ cascade'.todo = cascade.todo
    BY <1>1, <2>1 DEF Cascade
  <2>3. Cardinality(cascade.visited) \in Nat /\ CascadeCapacity \in Nat
    <3>1. IsFiniteSet(cascade.visited)
      BY <1>1, RecordsAssumption, FS_Interval, FS_Subset DEF Cascade, Keys
    <3> QED BY <3>1, FS_CardinalityType, RetirementAssumption
  <2> QED BY <1>5, <2>1, <2>2, <2>3 DEF CascadeChild
<1> QED BY <1>3, <1>4, <1>5

LEMMA LaterShape ==
  ASSUME Inv
  PROVE  /\ CascadeDerived =>
              /\ cascade.step = "derived" /\ cascade'.step = "children" /\ SameWalk
              /\ cascade'.at = cascade.at /\ pending' = pending /\ fences' = fences
              /\ \A i \in Keys : cascade'.todo[i] = IF i = cascade.at
                                                    THEN cascade.todo[i] \ {cascade.child}
                                                    ELSE cascade.todo[i]
         /\ CascadeSource =>
              /\ cascade.step = "children" /\ cascade'.step = "retire" /\ SameWalk
              /\ cascade.todo[cascade.at] = {}
              /\ cascade'.at = cascade.at /\ pending' = pending /\ fences' = fences
              /\ cascade'.todo = cascade.todo
         /\ CascadeRetire =>
              /\ cascade.step = "retire" /\ cascade'.step = "finish" /\ SameWalk
              /\ cascade'.at = cascade.at /\ pending' = pending /\ UNCHANGED hostVars
              /\ cascade'.todo = cascade.todo /\ live' = live \ {cascade.at}
         /\ CascadeFinish =>
              /\ cascade.step = "finish" /\ pending' = pending
              /\ rows' = rows /\ evicted' = evicted /\ fences' = fences \ {cascade.at}
              /\ \/ cascade.at = cascade.root /\ cascade' = NoCascade
                 \/ /\ cascade.at # cascade.root /\ SameWalk /\ cascade'.step = "derived"
                    /\ cascade'.child = cascade.at /\ cascade'.at = cascade.parent[cascade.at]
                    /\ cascade'.todo = cascade.todo
<1>1. cascade \in Cascade
  BY DEF Inv, TypeOK
<1>2. ASSUME CascadeDerived
      PROVE  /\ cascade.step = "derived" /\ cascade'.step = "children" /\ SameWalk
             /\ cascade'.at = cascade.at /\ pending' = pending /\ fences' = fences
             /\ \A i \in Keys : cascade'.todo[i] = IF i = cascade.at
                                                   THEN cascade.todo[i] \ {cascade.child}
                                                   ELSE cascade.todo[i]
  BY <1>1, <1>2 DEF CascadeDerived, CommitDerived, Cascade, SameWalk
<1>3. ASSUME CascadeSource \/ CascadeRetire
      PROVE  /\ SameWalk /\ cascade'.at = cascade.at /\ cascade'.todo = cascade.todo
             /\ pending' = pending /\ fences' = fences
             /\ CascadeSource => cascade'.step = "retire"
             /\ CascadeRetire => cascade'.step = "finish"
  BY <1>1, <1>3 DEF CascadeSource, CascadeRetire, CommitSource, hostVars, Cascade, SameWalk
<1>4. ASSUME CascadeFinish, cascade.at # cascade.root
      PROVE  /\ SameWalk /\ cascade'.step = "derived"
             /\ cascade'.child = cascade.at /\ cascade'.at = cascade.parent[cascade.at]
             /\ cascade'.todo = cascade.todo
  BY <1>1, <1>4 DEF CascadeFinish, Cascade, SameWalk
<1> QED BY <1>2, <1>3, <1>4 DEF CascadeSource, CascadeRetire, CascadeFinish, FinishSource, RetireExact

(* A blocked root is put back, and an idle cascade has no frames. *)
LEMMA BlockedShape ==
  ASSUME Inv, Blocked
  PROVE  /\ cascade' = NoCascade
         /\ pending \subseteq pending' /\ pending' \subseteq pending \cup {cascade.root}
         /\ Cardinality(pending) < PendingCapacity => cascade.root \in pending'
BY DEF Blocked, Queued

LEMMA IdleShape ==
  /\ NoCascade.step = "idle" /\ NoCascade.root = NoKey /\ NoCascade.visited = {}
  /\ \A i \in Keys : NoCascade.todo[i] = {}
  /\ \A r \in Keys : /\ Start(r).step = "begin" /\ Start(r).root = r /\ Start(r).at = r
                     /\ Start(r).visited = {r}
                     /\ \A i \in Keys : Start(r).todo[i] = {}
  /\ Start(NoKey) = NoCascade
BY DEF NoCascade, Start, Keys

(***************************************************************************)
(* Conservation                                                            *)
(***************************************************************************)
(* Roots and derived records are different records: what waits to be       *)
(* retired is not on the way already, and nothing waits twice.              *)
FoundApart == \A k \in Keys, j \in KeyOrNone : FoundBy(k, j) => ~Root(k)
RootsApart == pending \cap draining = {} /\ cascade.root \notin pending \cup draining
DerivedFrame == cascade.step = "derived" => cascade.child \in Keys /\ FoundBy(cascade.child, cascade.at)
FramesApart == FoundApart /\ RootsApart /\ DerivedFrame

(* The record a cascade has taken from State, until the table forgets it:   *)
(* its source is finished first, and then its host cleared.                 *)
Leaving(k) == \/ cascade.step = "finish" /\ k = cascade.at
              \/ cascade.step = "derived" /\ k = cascade.child

(* Whatever somebody holds is live, but for the record that is leaving.     *)
HostedLive == \A k \in Keys : Hosted(k) => k \in live \/ Leaving(k)
HandsLive == \A k \in Keys : Serviced(k) \/ (\E c \in Sessions : Owner(c, k)) => k \in live
RootsLive == \A k \in Keys : Root(k) => k \in live \/ (cascade.step = "finish" /\ k = cascade.at)
FencesLive == \A k \in Keys : Fenced(k) => k \in live \/ (cascade.step = "finish" /\ k = cascade.at)
GoneDead == \A k \in Keys : Leaving(k) => k \notin live

(* A record a cascade is to descend into is live, and one it came back from *)
(* is not.                                                                  *)
BeginLive == cascade.step = "begin" => cascade.at \in live
TodoLive == \A k, j \in Keys : k \in cascade.todo[j] => k \in live \cup cascade.visited
VisitedDone == \A k \in cascade.visited : Fenced(k) \/ k = cascade.at \/ k \notin live

RecordsLive == /\ HostedLive /\ HandsLive /\ RootsLive /\ FencesLive /\ GoneDead
               /\ BeginLive /\ TodoLive /\ VisitedDone

(* Behind its fence a source gets no new host, so the list its frame took   *)
(* at the beginning is complete for as long as the frame lasts.             *)
TodoComplete ==
    \A j \in cascade.visited :
        Fenced(j) /\ ~(cascade.step = "begin" /\ j = cascade.at)
            => \A k \in live : HostedUnder(k, j) => k \in cascade.todo[j] \/ k = j

(* Every live record has a custodian.                                       *)
Covered == \A k \in live : \/ \E c \in Sessions : Owner(c, k)
                           \/ Hosted(k) \/ Serviced(k) \/ Root(k)

(* A fence is a root's, or hangs from the fence its source is derived under.*)
FenceAnchored ==
    \A k \in fences : \/ Root(k) \/ (cascade.step = "finish" /\ k = cascade.at)
                      \/ \E j \in fences : HostedUnder(k, j)

Bounded == Cardinality(live) <= SessionCapacity

ConserveInv == /\ LiveInv /\ LockOwned /\ FreedInHand /\ FramesApart /\ RecordsLive
               /\ TodoComplete /\ Covered /\ FenceAnchored /\ Bounded

LEMMA Parts ==
  ASSUME ConserveInv
  PROVE  /\ LiveInv /\ PlaceInv /\ OrderInv /\ Inv /\ Custodians /\ FencesHold
         /\ HostsOnce /\ ServiceApart /\ RootsUnhosted /\ FramesUnder /\ SourceGone
         /\ OwnersApart /\ IssuedInOrder /\ ServiceNames /\ FreeRowsEmpty
         /\ HostsLive /\ StoreLive /\ PlanOwned /\ SeenIsGone
         /\ LockOwned /\ FreedInHand /\ FoundApart /\ RootsApart /\ DerivedFrame
         /\ HostedLive /\ HandsLive /\ RootsLive /\ FencesLive /\ GoneDead
         /\ BeginLive /\ TodoLive /\ VisitedDone
         /\ TodoComplete /\ Covered /\ FenceAnchored /\ Bounded
         /\ HostTypeOK /\ cascade \in Cascade /\ live \subseteq Keys /\ fences \subseteq Keys
         /\ pending \subseteq Keys /\ draining \subseteq Keys
BY DEF ConserveInv, LiveInv, PlaceInv, PlacesOnce, OrderInv, Custodians, FramesApart, RecordsLive,
       Inv, TypeOK, RecordsTypeOK, HostTypeOK

(* Outside a cascade's own steps the fences and the frames stay, or a new   *)
(* cascade starts, when no other one runs.                                  *)
LEMMA StepsOutside ==
  ASSUME ConserveInv, Next, ~CascadeNext
  PROVE  /\ fences' = fences
         /\ \/ cascade' = cascade /\ (Waiting \/ (Walked /\ cascade = NoCascade))
            \/ /\ cascade = NoCascade
               /\ \E r \in Keys :
                     /\ cascade' = Start(r) /\ GivesUp(r)
                     /\ \/ Waiting /\ draining = {}
                        \/ r \in draining /\ draining' = draining \ {r} /\ pending' = pending
<1>1. fences' = fences
  <2>1. Keys # {}
    BY RecordsAssumption DEF Keys
  <2> QED BY <2>1, Parts, TablePromises DEF CascadeNext
<1>2. CASE DrainRoot
  <2>1. PICK k \in draining : cascade' = Start(k) /\ draining' = draining \ {k}
    BY <1>2 DEF DrainRoot
  <2>2. k \in Keys /\ GivesUp(k) /\ cascade = NoCascade /\ pending' = pending
    BY <1>2, Parts DEF GivesUp, DrainRoot, LockOwned
  <2> QED BY <1>1, <2>1, <2>2
<1>3. CASE Waiting /\ draining = {} /\ cascade = NoCascade
  <2>1. CASE cascade' = cascade
    BY <1>1, <1>3, <2>1
  <2>2. ASSUME NEW r \in KeyOrNone, cascade' = Start(r), r # NoKey => GivesUp(r)
        PROVE  cascade' = cascade \/ (r \in Keys /\ cascade' = Start(r) /\ GivesUp(r))
    BY <1>3, <2>2, IdleShape
  <2> QED BY <1>1, <1>3, <2>1, <2>2, Parts, RetirementsStart
<1> QED BY <1>1, <1>2, <1>3, Parts, RootsMove

(* No id is used again: a record somebody held or holds is not born now, and *)
(* only a cascade takes a held record from State.                            *)
LEMMA IssuedNotBorn ==
  ASSUME ConserveInv, Next, NEW k \in Keys, Issued(k), k \in live'
  PROVE  k \in live
<1>1. Inv /\ IssuedInOrder /\ nextKey \in Nat
  BY Parts DEF Inv, TypeOK, RecordsTypeOK
<1> QED BY <1>1, RecordsOrder DEF IssuedInOrder, Keys

LEMMA HeldLeaves ==
  ASSUME ConserveInv, Next, NEW k \in Keys, Held(k), k \in live, k \notin live'
  PROVE  CascadeRetire /\ k = cascade.at /\ Doomed(k)
<1>1. CascadeRetire /\ k = cascade.at
  BY Parts, LiveLeaves DEF OwnersApart
<1> QED BY <1>1, Parts, FrameShape DEF CascadeNext, Doomed

LEMMA FoundDoomed ==
  ASSUME NEW k \in Keys, NEW j \in KeyOrNone
  PROVE  /\ FoundBy(k, j) => Doomed(k)
         /\ Root(k) => Doomed(k)
         /\ Hosted(k) \/ Serviced(k) \/ Doomed(k) => Held(k) /\ Issued(k)
         /\ k \in live \/ (\E c \in Sessions : Owner(c, k)) => Issued(k)
BY DEF FoundBy, Root, Doomed, Held, Issued

(* The record that is leaving is a frame's. *)
LEMMA LeavingDoomed ==
  ASSUME ConserveInv, NEW k \in Keys, Leaving(k)
  PROVE  /\ Doomed(k)
         /\ Retiring
         /\ Root(k) \/ \E j \in KeyOrNone : FoundBy(k, j)
         /\ cascade.step = "finish" /\ k # cascade.root => ~Root(k)
<1>1. Inv /\ cascade \in Cascade /\ FoundApart /\ DerivedFrame
  BY Parts
<1>2. Retiring
  BY DEF Leaving, Retiring
<1>3. /\ {cascade.root, cascade.at} \subseteq cascade.visited
      /\ cascade.at \in Keys /\ cascade.root \in Keys
  BY <1>1, <1>2, FrameIsRecord DEF Inv, FramesOK
<1>4. CASE cascade.step = "finish" /\ k = cascade.at /\ k = cascade.root
  BY <1>2, <1>3, <1>4 DEF Root, Doomed
<1>5. CASE cascade.step = "finish" /\ k = cascade.at /\ k # cascade.root
  <2>1. cascade.parent[k] \in KeyOrNone /\ FoundBy(k, cascade.parent[k])
    BY <1>1, <1>3, <1>5 DEF Cascade, FoundBy
  <2>2. ~Root(k)
    BY <1>1, <2>1 DEF FoundApart
  <2> QED BY <1>2, <2>1, <2>2, FoundDoomed
<1>6. CASE cascade.step = "derived" /\ k = cascade.child
  <2>1. cascade.at \in KeyOrNone /\ FoundBy(k, cascade.at)
    BY <1>1, <1>3, <1>6 DEF DerivedFrame
  <2> QED BY <1>2, <1>6, <2>1, FoundDoomed
<1> QED BY <1>4, <1>5, <1>6 DEF Leaving

(* Who finds a record: a frame that takes its list, and what found it then. *)
LEMMA FoundSteps ==
  ASSUME Inv, CascadeNext, NEW k \in Keys, NEW j \in KeyOrNone, FoundBy(k, j)'
  PROVE  (\E i \in KeyOrNone : FoundBy(k, i)) \/ (CascadeBegin /\ Hosted(k))
<1>1. /\ cascade \in Cascade /\ cascade.at \in Keys
      /\ \A i \in cascade.visited : cascade.parent[i] \in KeyOrNone
  BY FrameShape DEF Cascade
<1>2. cascade' # NoCascade
  BY IdleShape DEF FoundBy
<1>3. CASE CascadeBegin
  BY <1>1, <1>2, <1>3, BeginShape, BlockedShape, DerivedHosted DEF FoundBy, SameWalk
<1>4. CASE CascadeChild
  <2>1. PICK i \in cascade.todo[cascade.at] :
           \/ SameWalk /\ cascade'.todo = cascade.todo
           \/ /\ cascade'.root = cascade.root /\ cascade'.visited = cascade.visited \cup {i}
              /\ cascade'.parent = [cascade.parent EXCEPT ![i] = cascade.at]
              /\ cascade'.todo = cascade.todo
    BY <1>2, <1>4, ChildShape, BlockedShape
  <2>2. cascade.parent \in [Keys -> KeyOrNone]
    BY <1>1 DEF Cascade
  <2> QED BY <1>1, <2>1, <2>2 DEF FoundBy, SameWalk
<1>5. CASE CascadeDerived \/ CascadeSource \/ CascadeRetire
  BY <1>5, LaterShape DEF FoundBy, SameWalk
<1>6. CASE CascadeFinish
  BY <1>2, <1>6, LaterShape DEF FoundBy, SameWalk
<1> QED BY <1>3, <1>4, <1>5, <1>6 DEF CascadeNext

LEMMA FoundStaysApart ==
  ASSUME ConserveInv, Next
  PROVE  FoundApart'
<1> SUFFICES ASSUME NEW k \in Keys, NEW j \in KeyOrNone, FoundBy(k, j)', Root(k)' PROVE FALSE
  BY DEF FoundApart
<1>1. Inv /\ Custodians /\ OwnersApart /\ ServiceApart /\ RootsUnhosted /\ FoundApart
  BY Parts
<1>2. Root(k) \/ GivesUp(k)
  BY <1>1, RootsStart
<1>3. (\E i \in KeyOrNone : FoundBy(k, i)) \/ (CascadeBegin /\ Hosted(k))
  <2>1. CASE CascadeNext
    BY <1>1, <2>1, FoundSteps
  <2>2. CASE ~CascadeNext
    <3>1. ASSUME NEW r \in Keys, cascade' = Start(r) PROVE FALSE
      BY <3>1, IdleShape DEF FoundBy
    <3>2. cascade' = cascade
      BY <2>2, <3>1, StepsOutside
    <3> QED BY <3>2 DEF FoundBy
  <2> QED BY <2>1, <2>2
<1>4. Held(k) /\ (Serviced(k) => FALSE) /\ ~Root(k)
  BY <1>1, <1>3, FoundDoomed DEF FoundApart, ServiceApart, RootsUnhosted
<1>5. k \notin draining /\ \A c \in Sessions : ~Owner(c, k)
  BY <1>1, <1>4 DEF Root, OwnersApart
<1> QED BY <1>2, <1>4, <1>5 DEF GivesUp

LEMMA RootsStayApart ==
  ASSUME ConserveInv, Next
  PROVE  RootsApart'
<1>1. /\ Inv /\ Custodians /\ OwnersApart /\ ServiceApart /\ RootsApart
      /\ pending \subseteq Keys /\ draining \subseteq Keys /\ NoKey \notin Keys
  BY Parts DEF Keys
<1>2. CASE CascadeNext
  <2>1. /\ draining' = draining
        /\ \/ cascade' = NoCascade /\ pending' \subseteq pending \cup {cascade.root}
           \/ cascade'.root = cascade.root /\ pending' = pending
    BY <1>1, <1>2, FrameShape, BeginShape, ChildShape, LaterShape, BlockedShape
       DEF CascadeNext, SameWalk
  <2>2. cascade.root \in Keys
    BY <1>1, <1>2, FrameShape
  <2> QED BY <1>1, <2>1, <2>2, IdleShape DEF RootsApart
<1>3. CASE ~CascadeNext
  <2>1. CASE cascade' = cascade /\ (Waiting \/ (Walked /\ cascade = NoCascade))
    BY <1>1, <2>1, IdleShape DEF RootsApart, Waiting, Walked
  <2>2. ASSUME NEW r \in Keys, cascade' = Start(r), GivesUp(r),
               \/ Waiting /\ draining = {}
               \/ r \in draining /\ draining' = draining \ {r} /\ pending' = pending
        PROVE  RootsApart'
    <3>1. cascade'.root = r
      BY <2>2, IdleShape
    <3>2. CASE Waiting /\ draining = {}
      <4>1. ~Doomed(r)
        BY <1>1, <2>2, <3>2 DEF GivesUp, OwnersApart, Held, ServiceApart
      <4> QED BY <3>1, <3>2, <4>1 DEF Waiting, Doomed, RootsApart
    <3>3. CASE r \in draining /\ draining' = draining \ {r} /\ pending' = pending
      BY <1>1, <3>1, <3>3 DEF RootsApart
    <3> QED BY <2>2, <3>2, <3>3
  <2> QED BY <1>3, <2>1, <2>2, StepsOutside
<1> QED BY <1>2, <1>3

LEMMA DerivedStays ==
  ASSUME ConserveInv, Next
  PROVE  DerivedFrame'
<1>1. Inv /\ DerivedFrame /\ cascade \in Cascade
  BY Parts
<1> SUFFICES ASSUME cascade'.step = "derived"
             PROVE  cascade'.child \in Keys /\ FoundBy(cascade.child, cascade.at)'
  BY DEF DerivedFrame
<1>2. CASE CascadeNext
  <2>1. CASE CascadeChild
    <3>1. PICK i \in cascade.todo[cascade.at] :
             /\ SameWalk /\ cascade'.child = i /\ cascade'.at = cascade.at
             /\ cascade'.todo = cascade.todo
      BY <1>1, <2>1, ChildShape, BlockedShape, IdleShape
    <3> QED BY <1>1, <1>2, <3>1, FrameShape DEF FoundBy, Cascade
  <2>2. CASE CascadeFinish
    <3>1. /\ cascade.at # cascade.root /\ SameWalk
          /\ cascade'.child = cascade.at /\ cascade'.at = cascade.parent[cascade.at]
      BY <1>1, <2>2, LaterShape, IdleShape
    <3>2. cascade.at \in Keys /\ cascade.at \in cascade.visited
      BY <1>1, <1>2, FrameShape
    <3> QED BY <3>1, <3>2 DEF FoundBy, SameWalk
  <2> QED BY <1>1, <1>2, <2>1, <2>2, BeginShape, BlockedShape, LaterShape, IdleShape DEF CascadeNext
<1>3. CASE ~CascadeNext
  <2>1. cascade' = cascade
    BY <1>3, StepsOutside, IdleShape
  <2> QED BY <1>1, <2>1 DEF DerivedFrame, FoundBy
<1> QED BY <1>2, <1>3

(***************************************************************************)
(* What is held is live                                                    *)
(***************************************************************************)
(* The connection whose record is overwritten owns the new one.             *)
LEMMA OwnerLeavesToo ==
  ASSUME ConserveInv, Next, NEW c \in Sessions, NEW k \in Keys, Owner(c, k), k \in live, k \notin live'
  PROVE  ~Owner(c, k)'
<1>1. /\ Inv /\ OwnersApart /\ PlanOwned /\ sess \in [Sessions -> Session] /\ k # NoKey
  BY Parts DEF Inv, TypeOK, Keys
<1>2. CASE CascadeRetire
  <2>1. k = cascade.at
    BY <1>2 DEF CascadeRetire, RetireExact
  <2>2. Doomed(k)
    BY <1>1, <1>2, <2>1, FrameShape DEF CascadeNext, Doomed
  <2> QED BY <1>1, <2>2, FoundDoomed DEF OwnersApart, Held
<1>3. CASE AllocateCommit
  <2>1. k = plan[BapEvent].replaces /\ ev.pc = "allocate" /\ k # plan[BapEvent].key
    BY <1>3 DEF AllocateCommit, CommitSession, InEvent
  <2>2. PICK d \in Sessions : d = ev.session
    BY <1>1, <2>1, EventSession DEF InSession
  <2>3. Owner(d, k)
    BY <1>1, <2>1, <2>2, OwnedOwner DEF PlanOwned, PlanFor
  <2>4. d = c
    BY <1>1, <2>3 DEF OwnersApart
  <2>5. sess'[c].instance = plan[BapEvent].key
    BY <1>1, <1>3, <2>2, <2>4 DEF AllocateCommit
  <2> QED BY <2>1, <2>5 DEF Owner
<1>4. CASE ServiceCommit
  BY <1>1, <1>4 DEF ServiceCommit, CommitSession, PlanOwned
<1> QED BY <1>2, <1>3, <1>4, LiveSteps

LEMMA HandsStayLive ==
  ASSUME ConserveInv, Next
  PROVE  HandsLive'
<1>1. /\ Inv /\ Custodians /\ PlaceInv /\ OwnersApart /\ ServiceApart /\ HandsLive /\ HostedLive
  BY Parts
<1>2. ASSUME NEW k \in Keys, Serviced(k)' PROVE k \in live'
  <2>1. CASE Serviced(k)
    BY <1>1, <2>1, HeldLeaves, FoundDoomed DEF HandsLive, ServiceApart
  <2>2. CASE Taken(k)
    <3>1. Hosted(k) /\ ~Doomed(k)
      BY <1>1, <2>2, TakenApart
    <3>2. k \in live
      BY <1>1, <3>1, LeavingDoomed DEF HostedLive
    <3> QED BY <3>1, <3>2, HeldLeaves, FoundDoomed
  <2>3. CASE ServiceCommit /\ k = plan[Service].key
    BY <2>3 DEF ServiceCommit, CommitSession
  <2> QED BY <1>1, <1>2, <2>1, <2>2, <2>3, ServiceTakes
<1>3. ASSUME NEW k \in Keys, NEW c \in Sessions, Owner(c, k)' PROVE k \in live'
  <2>1. CASE Owner(c, k)
    BY <1>1, <1>3, <2>1, OwnerLeavesToo DEF HandsLive
  <2>2. CASE AllocateCommit /\ sess'[c].instance = plan[BapEvent].key
    BY <1>3, <2>2 DEF AllocateCommit, CommitSession, Owner
  <2> QED BY <1>1, <1>3, <2>1, <2>2, OwnersFresh DEF Owner
<1> QED BY <1>2, <1>3 DEF HandsLive

LEMMA HostedStaysLive ==
  ASSUME ConserveInv, Next
  PROVE  HostedLive'
<1>1. /\ Inv /\ Custodians /\ HandsLive /\ HostedLive /\ cascade \in Cascade
      /\ RootsUnhosted /\ FramesUnder /\ FencesHold /\ DerivedFrame /\ FreeRowsEmpty /\ HostTypeOK
  BY Parts
<1> SUFFICES ASSUME NEW k \in Keys, Hosted(k)' PROVE k \in live' \/ Leaving(k)'
  BY DEF HostedLive
<1>2. CASE ~Hosted(k)
  <2>1. ServiceStore /\ Serviced(k)
    BY <1>1, <1>2, TablePromises
  <2> QED BY <1>1, <2>1 DEF ServiceStore, recordVars, HandsLive
<1>3. CASE Hosted(k) /\ k \in live
  <2>1. CASE CascadeRetire /\ k = cascade.at
    BY <1>1, <2>1, LaterShape DEF Leaving
  <2> QED BY <1>3, <2>1, HeldLeaves, FoundDoomed
<1>4. CASE Hosted(k) /\ Leaving(k)
  <2>1. CASE ~CascadeNext
    <3>1. cascade' = cascade
      BY <1>4, <2>1, StepsOutside, LeavingDoomed, IdleShape DEF Retiring
    <3> QED BY <1>4, <3>1 DEF Leaving
  <2>2. CASE CascadeFinish
    <3>1. k = cascade.at
      BY <1>1, <1>4, <2>2, LaterShape DEF Leaving
    <3>2. k # cascade.root
      BY <1>1, <1>4, <2>2, FrameShape DEF CascadeNext, RootsUnhosted, Root
    <3> QED BY <1>1, <2>2, <3>1, <3>2, LaterShape DEF Leaving
  <2>3. CASE CascadeDerived
    <3>1. cascade.step = "derived" /\ k = cascade.child
      BY <1>1, <1>4, <2>3, LaterShape DEF Leaving
    <3>2. PICK j \in Keys : j = cascade.at /\ j \in cascade.visited
      BY <1>1, <2>3, FrameShape DEF CascadeNext
    <3>3. FoundBy(k, j)
      BY <1>1, <3>1, <3>2 DEF DerivedFrame
    <3>4. Under(k, j) /\ Fenced(j)
      BY <1>1, <1>4, <3>3 DEF FramesUnder, Under
    <3>5. Quiet(j)
      BY <1>1, <3>1, <3>2, <3>4 DEF FencesHold, Retiring
    <3>6. CommitDerived(j, k)
      BY <2>3, <3>1, <3>2 DEF CascadeDerived
    <3>7. ASSUME NEW s \in Slots PROVE rows'[s].host # k
      BY <1>1, <3>4, <3>5, <3>6
         DEF CommitDerived, ClearRows, Under, Quiet, FreeRowsEmpty, Filled, FreeRow, Keys
    <3>8. ASSUME NEW e \in evicted' PROVE e.host # k
      <4>1. e \in evicted /\ e # [host |-> k, source |-> j] /\ e \in EvictedHost
        BY <1>1, <3>6 DEF CommitDerived, HostTypeOK
      <4> QED BY <3>4, <4>1 DEF Under, EvictedHost
    <3> QED BY <3>7, <3>8 DEF Hosted
  <2> QED
    BY <1>1, <1>4, <2>1, <2>2, <2>3, BeginShape, ChildShape, LaterShape DEF CascadeNext, Leaving
<1> QED BY <1>1, <1>2, <1>3, <1>4 DEF HostedLive

LEMMA RootsStayLive ==
  ASSUME ConserveInv, Next
  PROVE  RootsLive'
<1>1. /\ Inv /\ Custodians /\ PlanOwned /\ OwnersApart /\ RootsApart /\ RootsLive /\ HandsLive
      /\ ServiceApart
  BY Parts
<1> SUFFICES ASSUME NEW k \in Keys, Root(k)'
             PROVE  k \in live' \/ (cascade'.step = "finish" /\ k = cascade'.at)
  BY DEF RootsLive
<1>2. Root(k) \/ GivesUp(k)
  BY <1>1, RootsStart
<1>3. CASE k \in live
  <2>1. CASE CascadeRetire /\ k = cascade.at
    BY <1>1, <2>1, LaterShape
  <2>2. CASE Held(k)
    BY <1>3, <2>1, <2>2, HeldLeaves
  <2>3. ASSUME NEW c \in Sessions, Owner(c, k), ~Owner(c, k)', k \notin live' PROVE FALSE
    <3>1. cascade' = NoCascade /\ UNCHANGED <<pending, draining>>
      BY <1>1, <1>3, <2>3, OwnersLeave
    <3>2. k \in pending \cup draining
      BY <3>1, IdleShape DEF Root
    <3> QED BY <1>1, <2>3, <3>2 DEF OwnersApart, Held, Doomed
  <2> QED BY <1>2, <2>2, <2>3, FoundDoomed DEF GivesUp, Root
<1>4. CASE k \notin live
  <2>1. Root(k) /\ cascade.step = "finish" /\ k = cascade.at
    <3>1. Root(k)
      BY <1>1, <1>2, <1>4 DEF GivesUp, HandsLive, Root
    <3> QED BY <1>1, <1>4, <3>1 DEF RootsLive
  <2>2. k = cascade.root /\ Retiring
    BY <2>1, LeavingDoomed DEF Leaving
  <2>3. CASE CascadeFinish
    <3>1. cascade' = NoCascade /\ pending' = pending /\ draining' = draining
      BY <1>1, <2>1, <2>2, <2>3, LaterShape, FrameShape DEF CascadeNext
    <3> QED BY <1>1, <2>2, <3>1, IdleShape DEF Root, RootsApart
  <2>4. CASE ~CascadeNext
    BY <2>1, <2>2, <2>4, StepsOutside, IdleShape DEF Retiring
  <2> QED BY <1>1, <2>1, <2>3, <2>4, BeginShape, ChildShape, LaterShape DEF CascadeNext
<1> QED BY <1>3, <1>4

LEMMA GoneStaysDead ==
  ASSUME ConserveInv, Next
  PROVE  GoneDead'
<1>1. /\ Inv /\ Custodians /\ OwnersApart /\ ServiceApart /\ FoundApart /\ FramesUnder /\ FencesHold
      /\ GoneDead /\ VisitedDone /\ Covered /\ cascade \in Cascade
  BY Parts
<1> SUFFICES ASSUME NEW k \in Keys, Leaving(k)', k \in live' PROVE FALSE
  BY DEF GoneDead
<1>2. ASSUME Leaving(k) PROVE FALSE
  BY <1>1, <1>2, LeavingDoomed, FoundDoomed, IssuedNotBorn DEF GoneDead
<1>3. CASE ~CascadeNext
  <2>1. cascade' = cascade
    BY <1>3, StepsOutside, IdleShape DEF Leaving
  <2> QED BY <1>2, <2>1 DEF Leaving
<1>4. CASE CascadeRetire
  BY <1>1, <1>4, LaterShape DEF Leaving
<1>5. CASE CascadeFinish
  BY <1>1, <1>2, <1>5, LaterShape, IdleShape DEF Leaving
<1>6. CASE CascadeChild
  <2>0. live' = live /\ cascade.at \in Keys
    BY <1>1, <1>6, FrameShape DEF CascadeNext, CascadeChild, recordVars
  <2>1. k \in cascade.todo[cascade.at] /\ k \in cascade.visited /\ live' = live /\ cascade.at \in Keys
    <3>1. PICK i \in cascade.todo[cascade.at] :
             \/ Blocked
             \/ i \in cascade.visited /\ cascade'.step = "derived" /\ cascade'.child = i
             \/ cascade'.step = "begin"
      BY <1>1, <1>6, ChildShape
    <3>2. ~Blocked
      BY <1>1, BlockedShape, IdleShape DEF Leaving
    <3>3. cascade'.step # "begin" /\ (cascade'.step = "derived" => k = cascade'.child)
      BY DEF Leaving
    <3> QED BY <2>0, <3>1, <3>2, <3>3
  <2>2. PICK j \in Keys : j = cascade.at /\ FoundBy(k, j)
    BY <2>1 DEF FoundBy
  <2>3. ~Root(k) /\ k # cascade.root
    BY <1>1, <2>1, <2>2 DEF FoundApart, Root
  <2>4. /\ cascade.parent[k] \in KeyOrNone
        /\ FoundBy(k, cascade.parent[k])
    BY <1>1, <2>1, <2>3 DEF FoundBy, Cascade
  <2>5. PICK i \in KeyOrNone : i = cascade.parent[k] /\ FoundBy(k, i)
    BY <2>4
  <2>6. Inner(k) /\ Retiring
    BY <1>1, <1>6, <2>1, <2>3, ChildShape DEF VisitedDone, Inner, Unfinished, Retiring
  <2>7. i # j
    BY <1>1, <2>2, <2>5, <2>6 DEF FencesHold
  <2>8. ~Hosted(k)
    BY <1>1, <2>2, <2>5, <2>7 DEF FramesUnder, Under, Hosted
  <2> QED BY <1>1, <2>1, <2>2, <2>3, <2>8, FoundDoomed DEF Covered, OwnersApart, ServiceApart, Held
<1> QED
  BY <1>1, <1>3, <1>4, <1>5, <1>6, BeginShape, BlockedShape, LaterShape, IdleShape
     DEF CascadeNext, Leaving

(* A fence hangs from a retirement, so no connection's successor takes the  *)
(* record behind it.                                                        *)
LEMMA FencesStayLive ==
  ASSUME ConserveInv, Next
  PROVE  FencesLive'
<1>1. /\ Inv /\ OwnersApart /\ PlanOwned /\ FencesLive /\ FenceAnchored /\ BeginLive /\ HostTypeOK
      /\ fences \subseteq Keys
  BY Parts
<1> SUFFICES ASSUME NEW k \in Keys, Fenced(k)'
             PROVE  k \in live' \/ (cascade'.step = "finish" /\ k = cascade'.at)
  BY DEF FencesLive
<1>2. CASE CascadeNext
  <2>1. ~CascadeRetire => live' = live
    BY <1>1, <1>2, FrameShape
  <2>2. CASE CascadeBegin
    <3>1. cascade.step = "begin" /\ (Fenced(k) \/ k = cascade.at)
      BY <1>1, <2>2, BeginShape DEF Fenced
    <3>2. live' = live
      BY <2>2 DEF CascadeBegin, recordVars
    <3> QED BY <1>1, <3>1, <3>2 DEF FencesLive, BeginLive
  <2>3. CASE CascadeRetire
    BY <1>1, <2>3, LaterShape DEF FencesLive, Fenced, hostVars
  <2>4. CASE CascadeFinish
    <3>1. Fenced(k) /\ k # cascade.at
      BY <1>1, <2>4, LaterShape DEF Fenced
    <3>2. live' = live
      BY <2>4 DEF CascadeFinish, recordVars
    <3> QED BY <1>1, <3>1, <3>2 DEF FencesLive
  <2>5. CASE CascadeChild \/ CascadeDerived \/ CascadeSource
    <3>1. live' = live /\ Fenced(k) /\ cascade.step # "finish"
      BY <1>1, <2>5, ChildShape, LaterShape
         DEF Fenced, hostVars, CascadeChild, CascadeDerived, CascadeSource, recordVars
    <3> QED BY <1>1, <3>1 DEF FencesLive
  <2> QED BY <1>2, <2>2, <2>3, <2>4, <2>5 DEF CascadeNext
<1>3. CASE ~CascadeNext
  <2>1. Fenced(k)
    BY <1>3, StepsOutside DEF Fenced
  <2>2. CASE k \in live
    <3>1. ASSUME k \notin live' PROVE Held(k)
      <4>1. CASE cascade.step = "finish" /\ k = cascade.at
        BY <4>1, LeavingDoomed DEF Leaving, Held
      <4>2. ASSUME NEW j \in fences, HostedUnder(k, j) PROVE Hosted(k)
        BY <1>1, <4>2, HostedSomewhere
      <4> QED BY <1>1, <2>1, <4>1, <4>2 DEF FenceAnchored, Held, Fenced, Root, Doomed
    <3> QED BY <1>3, <2>2, <3>1, HeldLeaves DEF CascadeNext
  <2>3. CASE k \notin live
    <3>1. cascade.step = "finish" /\ k = cascade.at
      BY <1>1, <2>1, <2>3 DEF FencesLive
    <3>2. cascade' = cascade
      BY <1>3, <3>1, StepsOutside, IdleShape
    <3> QED BY <3>1, <3>2
  <2> QED BY <2>2, <2>3
<1> QED BY <1>2, <1>3

LEMMA BeginStaysLive ==
  ASSUME ConserveInv, Next
  PROVE  BeginLive'
<1>1. /\ Inv /\ BeginLive /\ TodoLive /\ cascade \in Cascade
  BY Parts
<1> SUFFICES ASSUME cascade'.step = "begin" PROVE cascade'.at \in live'
  BY DEF BeginLive
<1>2. CASE ~CascadeNext
  <2>1. CASE cascade' = cascade
    <3>1. cascade.at \in live /\ cascade.at \in Keys /\ cascade.at \in cascade.visited
      BY <1>1, <2>1, FrameIsRecord DEF BeginLive, Retiring, Inv, FramesOK
    <3>2. PICK k \in Keys : k = cascade.at
      BY <3>1
    <3>3. k \in live'
      BY <1>2, <3>1, <3>2, HeldLeaves DEF Held, Doomed, CascadeNext
    <3> QED BY <2>1, <3>2, <3>3
  <2>2. ASSUME NEW r \in Keys, cascade' = Start(r) PROVE cascade'.at \in live'
    <3>1. Root(r)' /\ cascade'.at = r
      BY <2>2, IdleShape DEF Root
    <3> QED BY <3>1, RootsStayLive DEF RootsLive
  <2> QED BY <1>2, <2>1, <2>2, StepsOutside
<1>3. CASE CascadeChild
  <2>1. PICK i \in cascade.todo[cascade.at] : i \notin cascade.visited /\ cascade'.at = i
    BY <1>1, <1>3, ChildShape, BlockedShape, IdleShape
  <2>2. cascade.at \in Keys /\ i \in Keys /\ live' = live
    BY <1>1, <1>3, <2>1, FrameShape DEF CascadeNext, CascadeChild, recordVars, Cascade
  <2> QED BY <1>1, <2>1, <2>2 DEF TodoLive
<1>4. CASE CascadeBegin
  BY <1>1, <1>4, BeginShape, BlockedShape, IdleShape
<1> QED BY <1>1, <1>2, <1>3, <1>4, LaterShape, IdleShape DEF CascadeNext

LEMMA TodoStaysLive ==
  ASSUME ConserveInv, Next
  PROVE  TodoLive'
<1>1. /\ Inv /\ TodoLive /\ HostedLive /\ cascade \in Cascade
  BY Parts
<1> SUFFICES ASSUME NEW k \in Keys, NEW j \in Keys, k \in cascade'.todo[j]
             PROVE  k \in live' \cup cascade'.visited
  BY DEF TodoLive
<1>2. CASE ~CascadeNext
  <2>1. cascade' = cascade
    BY <1>2, StepsOutside, IdleShape
  <2>2. Held(k) /\ k \in live \cup cascade.visited
    BY <1>1, <2>1 DEF Held, Doomed, TodoLive
  <2> QED BY <1>2, <2>1, <2>2, HeldLeaves DEF CascadeNext
<1>3. ASSUME k \in cascade.todo[j], cascade.visited \subseteq cascade'.visited, CascadeNext
      PROVE  k \in live' \cup cascade'.visited
  <2>1. k \in live \cup cascade.visited /\ cascade.at \in cascade.visited
    BY <1>1, <1>3, FrameShape DEF TodoLive
  <2>2. CASE CascadeRetire
    BY <1>1, <1>3, <2>1, <2>2, LaterShape
  <2> QED BY <1>1, <1>3, <2>1, <2>2, FrameShape
<1>4. CASE CascadeBegin
  <2>1. SameWalk /\ (k \in cascade.todo[j] \/ k \in DerivedHosts(cascade.at)) /\ live' = live
    BY <1>1, <1>4, BeginShape, BlockedShape, IdleShape DEF CascadeBegin, recordVars
  <2>2. ASSUME k \in DerivedHosts(cascade.at) PROVE k \in live
    <3>1. Hosted(k) /\ cascade.step = "begin"
      BY <1>4, <2>2, DerivedHosted DEF CascadeBegin
    <3> QED BY <1>1, <3>1 DEF HostedLive, Leaving
  <2> QED BY <1>3, <1>4, <2>1, <2>2 DEF SameWalk, CascadeNext
<1>5. CASE CascadeChild
  <2>1. k \in cascade.todo[j] /\ cascade.visited \subseteq cascade'.visited
    BY <1>1, <1>5, ChildShape, BlockedShape, IdleShape DEF SameWalk
  <2> QED BY <1>3, <1>5, <2>1 DEF CascadeNext
<1>6. CASE CascadeDerived \/ CascadeSource \/ CascadeRetire \/ CascadeFinish
  <2>1. k \in cascade.todo[j] /\ cascade.visited \subseteq cascade'.visited
    BY <1>1, <1>6, LaterShape, IdleShape DEF SameWalk
  <2> QED BY <1>3, <1>6, <2>1 DEF CascadeNext
<1> QED BY <1>2, <1>4, <1>5, <1>6 DEF CascadeNext

LEMMA VisitedStaysDone ==
  ASSUME ConserveInv, Next
  PROVE  VisitedDone'
<1>1. /\ Inv /\ VisitedDone /\ GoneDead /\ FencesHold /\ cascade \in Cascade
  BY Parts
<1> SUFFICES ASSUME NEW k \in cascade'.visited PROVE Fenced(k)' \/ k = cascade'.at \/ k \notin live'
  BY DEF VisitedDone
<1>2. CASE ~CascadeNext
  <2>1. CASE cascade' = cascade
    <3>1. k \in Keys /\ Doomed(k) /\ (Fenced(k) \/ k = cascade.at \/ k \notin live)
      BY <1>1, <2>1 DEF VisitedDone, Doomed, Cascade
    <3>2. k \notin live => k \notin live'
      BY <3>1, FoundDoomed, IssuedNotBorn
    <3> QED BY <1>2, <2>1, <3>1, <3>2, StepsOutside DEF Fenced
  <2>2. ASSUME NEW r \in Keys, cascade' = Start(r) PROVE k = cascade'.at
    BY <2>2, IdleShape
  <2> QED BY <1>2, <2>1, <2>2, StepsOutside
<1>3. CASE CascadeBegin
  <2>1. SameWalk /\ cascade'.at = cascade.at /\ fences \subseteq fences' /\ live' = live
    BY <1>1, <1>3, BeginShape, BlockedShape, IdleShape DEF CascadeBegin, recordVars
  <2> QED BY <1>1, <2>1 DEF VisitedDone, SameWalk, Fenced
<1>4. CASE CascadeChild
  <2>1. /\ live' = live /\ fences' = fences /\ Fenced(cascade.at)
    BY <1>1, <1>4, ChildShape DEF CascadeChild, recordVars, hostVars, FencesHold, Retiring
  <2>2. (k \in cascade.visited) \/ k = cascade'.at
    BY <1>1, <1>4, ChildShape, BlockedShape, IdleShape DEF SameWalk
  <2> QED BY <1>1, <2>1, <2>2 DEF VisitedDone, Fenced
<1>5. CASE CascadeDerived \/ CascadeSource
  <2>1. SameWalk /\ cascade'.at = cascade.at /\ fences' = fences /\ live' = live
    BY <1>1, <1>5, LaterShape DEF CascadeDerived, CascadeSource, recordVars
  <2> QED BY <1>1, <2>1 DEF VisitedDone, SameWalk, Fenced
<1>6. CASE CascadeRetire
  <2>1. SameWalk /\ cascade'.at = cascade.at /\ fences' = fences /\ live' \subseteq live
    BY <1>1, <1>6, LaterShape DEF hostVars
  <2> QED BY <1>1, <2>1 DEF VisitedDone, SameWalk, Fenced
<1>7. CASE CascadeFinish
  <2>1. SameWalk /\ fences' = fences \ {cascade.at} /\ live' = live /\ cascade.step = "finish"
    BY <1>1, <1>7, LaterShape, IdleShape DEF CascadeFinish, recordVars
  <2>2. cascade.at \notin live
    BY <1>1, <1>7, <2>1, FrameShape DEF CascadeNext, GoneDead, Leaving
  <2> QED BY <1>1, <2>1, <2>2 DEF VisitedDone, SameWalk, Fenced
<1> QED BY <1>2, <1>3, <1>4, <1>5, <1>6, <1>7 DEF CascadeNext

LEMMA TodoStaysComplete ==
  ASSUME ConserveInv, Next
  PROVE  TodoComplete'
<1>1. /\ Inv /\ TodoComplete /\ GoneDead /\ FreeRowsEmpty /\ cascade \in Cascade /\ HostTypeOK
      /\ live \subseteq Keys /\ Inv' /\ live' \subseteq Keys /\ cascade'.visited \subseteq Keys
  <2>1. Inv'
    BY Parts, NextInv
  <2> QED BY <2>1, Parts DEF Inv, TypeOK, RecordsTypeOK, Cascade
<1> SUFFICES ASSUME NEW j \in cascade'.visited, Fenced(j)',
                    ~(cascade'.step = "begin" /\ j = cascade'.at),
                    NEW k \in live', HostedUnder(k, j)'
             PROVE  k \in cascade'.todo[j] \/ k = j
  BY DEF TodoComplete
<1>2. k \in Keys /\ j \in Keys
  BY <1>1
<1>3. ASSUME Fenced(j)
      PROVE  HostedUnder(k, j) /\ k \in live
  <2>1. HostedUnder(k, j)
    BY <1>1, <1>2, <1>3, NoneMoreUnder
  <2> QED BY <1>1, <1>2, <2>1, HostedSomewhere, FoundDoomed, IssuedNotBorn
<1>4. ASSUME Fenced(j), j \in cascade.visited, ~(cascade.step = "begin" /\ j = cascade.at),
             k \in cascade.todo[j] => k \in cascade'.todo[j]
      PROVE  k \in cascade'.todo[j] \/ k = j
  BY <1>1, <1>3, <1>4 DEF TodoComplete
<1>5. CASE ~CascadeNext
  <2>1. cascade' = cascade /\ Fenced(j)
    BY <1>5, StepsOutside, IdleShape DEF Fenced
  <2> QED BY <1>4, <2>1
<1>6. CASE CascadeBegin
  <2>1. /\ SameWalk /\ rows' = rows /\ evicted' = evicted
        /\ fences' \subseteq fences \cup {cascade.at}
        /\ \A i \in Keys : cascade'.todo[i] = IF i = cascade.at THEN DerivedHosts(cascade.at)
                                              ELSE cascade.todo[i]
    BY <1>1, <1>6, BeginShape, BlockedShape, IdleShape
  <2>2. CASE j = cascade.at
    <3>1. HostedUnder(k, j)
      BY <2>1 DEF HostedUnder
    <3>2. k \in DerivedHosts(j) \/ k = j
      BY <1>1, <1>2, <3>1 DEF HostedUnder, DerivedHosts, FreeRowsEmpty, Filled, Keys
    <3> QED BY <1>2, <2>1, <2>2, <3>2
  <2>3. CASE j # cascade.at
    BY <1>2, <1>4, <2>1, <2>3 DEF Fenced, SameWalk
  <2> QED BY <2>2, <2>3
<1>7. CASE CascadeChild
  <2>1. /\ cascade.step = "children" /\ fences' = fences
        /\ cascade'.todo = cascade.todo /\ j \in cascade.visited
    BY <1>1, <1>7, ChildShape, BlockedShape, IdleShape DEF SameWalk, hostVars
  <2> QED BY <1>4, <2>1 DEF Fenced
<1>8. CASE CascadeDerived
  <2>1. /\ cascade.step = "derived" /\ SameWalk /\ fences' = fences
        /\ cascade'.todo[j] = IF j = cascade.at THEN cascade.todo[j] \ {cascade.child}
                              ELSE cascade.todo[j]
    BY <1>1, <1>2, <1>8, LaterShape
  <2>2. Fenced(j) /\ k \in live
    BY <1>3, <2>1 DEF Fenced
  <2>3. k # cascade.child
    BY <1>1, <1>2, <2>1, <2>2 DEF GoneDead, Leaving
  <2> QED BY <1>4, <2>1, <2>2, <2>3 DEF SameWalk
<1>9. CASE CascadeSource \/ CascadeRetire \/ CascadeFinish
  <2>1. /\ cascade.step # "begin" /\ SameWalk /\ fences' \subseteq fences
        /\ cascade'.todo = cascade.todo
    BY <1>1, <1>9, LaterShape, IdleShape DEF hostVars
  <2> QED BY <1>4, <2>1 DEF SameWalk, Fenced
<1> QED BY <1>5, <1>6, <1>7, <1>8, <1>9 DEF CascadeNext

(***************************************************************************)
(* Somebody has every live record                                          *)
(***************************************************************************)
(* The table lets a host go only to the service thread, and only from       *)
(* behind no fence: whatever else leaves a row is not live any more.        *)
LEMMA HostsKept ==
  ASSUME ConserveInv, Next, NEW k \in Keys, NEW j \in KeyOrNone, k \in live', HostedUnder(k, j)
  PROVE  HostedUnder(k, j)' \/ (Taken(k) /\ ~Fenced(j))
<1>1. /\ Inv /\ HostTypeOK /\ FreeRowsEmpty /\ SeenIsGone /\ GoneDead /\ TodoComplete /\ FencesHold
      /\ RootsUnhosted /\ FramesUnder /\ cascade \in Cascade
  BY Parts
<1>2. Hosted(k) /\ k \in live
  BY <1>1, HostedSomewhere, FoundDoomed, IssuedNotBorn
<1>3. CASE HostCalls
  BY <1>1, <1>3, CallsKeepHosts
<1>4. CASE UNCHANGED <<rows, evicted>>
  BY <1>4 DEF HostedUnder
<1>5. ASSUME NEW g \in GroupOrNone, NEW h \in KeyOrNone, NEW i \in KeyOrNone,
             ClearStaleHost(g, h, i), SeenGone(h)
      PROVE  HostedUnder(k, j)'
  <2>1. k # h
    BY <1>1, <1>2, <1>5 DEF SeenIsGone
  <2>2. evicted' = evicted /\ \A s \in Slots : rows[s].host = k => rows'[s] = rows[s]
    BY <1>5, <2>1 DEF ClearStaleHost
  <2> QED BY <2>2 DEF HostedUnder
<1>6. CASE ServiceTake
  <2>1. rows' = rows /\ evicted' = evicted \ Freeable
    BY <1>6 DEF ServiceTake, TakeFreeable
  <2> QED BY <1>6, <2>1 DEF HostedUnder, Freeable, Taken
<1>7. CASE Reset
  <2>1. /\ evicted' = evicted
        /\ \A s \in Slots : s \notin Resettable => rows'[s] = rows[s]
    BY <1>7 DEF Reset, ResetRows, ClearRows
  <2> QED BY <1>7, <2>1 DEF HostedUnder, Resettable, Taken
<1>8. CASE ServiceStore
  <2>1. evicted' = evicted /\ \A s \in Slots : rows[s].host = k => rows'[s] = rows[s]
    BY <1>8 DEF ServiceStore, StoreHost, Storable, Filled, Keys
  <2> QED BY <2>1 DEF HostedUnder
<1>9. CASE CascadeDerived
  <2>1. k # cascade.child
    BY <1>1, <1>2, <1>9 DEF CascadeDerived, GoneDead, Leaving
  <2>2. /\ \A s \in Slots : rows[s].host = k => rows'[s] = rows[s]
        /\ \A e \in evicted : e.host = k => e \in evicted'
    BY <1>9, <2>1 DEF CascadeDerived, CommitDerived, ClearRows
  <2> QED BY <2>2 DEF HostedUnder
<1>10. CASE CascadeSource
  <2>1. PICK i \in Keys : i = cascade.at /\ i \in cascade.visited
    BY <1>1, <1>10, FrameShape DEF CascadeNext
  <2>2. cascade.step = "children" /\ cascade.todo[i] = {} /\ Fenced(i) /\ CommitSource(i) /\ Retiring
    BY <1>1, <1>10, <2>1 DEF CascadeSource, FencesHold, Retiring
  <2>3. ASSUME j = i PROVE FALSE
    <3>1. k = i
      BY <1>1, <1>2, <2>1, <2>2, <2>3 DEF TodoComplete
    <3>2. k # cascade.root
      BY <1>1, <1>2, <2>1, <3>1 DEF RootsUnhosted, Root
    <3>3. Inner(k) /\ FoundBy(k, cascade.parent[k]) /\ cascade.parent[k] \in KeyOrNone
      BY <1>1, <2>1, <2>2, <3>1, <3>2 DEF Inner, Unfinished, FoundBy, Cascade
    <3>4. cascade.parent[k] # k
      BY <1>1, <2>1, <2>2, <3>1, <3>3 DEF FencesHold
    <3>5. Under(k, cascade.parent[k])
      BY <1>1, <3>3 DEF FramesUnder
    <3> QED BY <2>3, <3>1, <3>4, <3>5 DEF Under, HostedUnder
  <2>4. /\ \A s \in Slots : rows[s].source = j => rows'[s] = rows[s]
        /\ \A e \in evicted : e.source = j => e \in evicted'
    BY <2>2, <2>3 DEF CommitSource, ClearRows
  <2> QED BY <2>4 DEF HostedUnder
<1>11. CASE CascadeBegin \/ CascadeFinish
  BY <1>4, <1>11 DEF CascadeBegin, CascadeFinish, FenceSource, FinishSource
<1> QED
  BY <1>1, <1>3, <1>4, <1>5, <1>6, <1>7, <1>8, <1>9, <1>10, <1>11, TableCalls DEF hostVars

LEMMA TakenServiced ==
  ASSUME Inv, NEW k \in Keys, Taken(k)
  PROVE  Serviced(k)'
<1>1. sv \in ServiceCall
  BY DEF Inv, TypeOK
<1>2. CASE ServiceTake
  <2>1. (\E e \in Freeable : e.host = k) /\ sv'.freed = {e.host : e \in Freeable} \ {NoKey}
    BY <1>1, <1>2 DEF Taken, ServiceTake, Reset, Serves, ServiceCall
  <2> QED BY <2>1 DEF Serviced, Keys
<1>3. CASE ~ServiceTake
  <2>1. /\ \E s \in Resettable : rows[s].host = k
        /\ sv'.freed = {rows[s].host : s \in Resettable} \ {NoKey}
    BY <1>3 DEF Taken, Reset, NoCall
  <2> QED BY <2>1 DEF Serviced, Keys
<1> QED BY <1>2, <1>3

LEMMA LiveFinite ==
  ASSUME Inv
  PROVE  /\ IsFiniteSet(live) /\ Cardinality(live) \in Nat
         /\ \A S : S \subseteq live => /\ IsFiniteSet(S) /\ Cardinality(S) \in Nat
                                       /\ Cardinality(S) <= Cardinality(live)
<1>1. IsFiniteSet(live)
  <2>1. IsFiniteSet(Keys)
    BY RecordsAssumption, FS_Interval DEF Keys
  <2> QED BY <2>1, FS_Subset DEF Inv, TypeOK, RecordsTypeOK
<1> QED BY <1>1, FS_Subset, FS_CardinalityType

(* A blocked root is put back, for the queue has room for every record.     *)
LEMMA RootsGo ==
  ASSUME ConserveInv, Next, NEW k \in Keys, Root(k), k \in live'
  PROVE  Root(k)'
<1>1. /\ Inv /\ RootsLive /\ RootsApart /\ Bounded /\ GoneDead /\ pending \subseteq Keys
      /\ cascade \in Cascade
  BY Parts
<1>2. CASE ~CascadeNext
  <2>1. CASE cascade' = cascade /\ (Waiting \/ (Walked /\ cascade = NoCascade))
    BY <2>1, IdleShape DEF Root, Waiting, Walked
  <2>2. ASSUME cascade = NoCascade, NEW r \in Keys, cascade' = Start(r),
               \/ Waiting /\ draining = {}
               \/ r \in draining /\ draining' = draining \ {r} /\ pending' = pending
        PROVE  Root(k)'
    BY <2>2, IdleShape DEF Root, Waiting
  <2> QED BY <1>2, <2>1, <2>2, StepsOutside
<1>3. ASSUME CascadeBegin \/ CascadeChild, Blocked PROVE Root(k)'
  <2>1. cascade.step # "finish" /\ cascade.root \in Keys /\ Root(cascade.root) /\ draining' = draining
    BY <1>1, <1>3, FrameShape DEF CascadeNext, CascadeBegin, CascadeChild, Root
  <2>2. pending \cup {cascade.root} \subseteq live /\ cascade.root \notin pending
    BY <1>1, <2>1 DEF RootsLive, RootsApart, Root
  <2>3. Cardinality(pending \cup {cascade.root}) = Cardinality(pending) + 1
    BY <1>1, <2>2, LiveFinite, FS_AddElement
  <2>4. Cardinality(pending) < PendingCapacity
    BY <1>1, <2>2, <2>3, LiveFinite, CapacityAssumption, RecordsAssumption, RetirementAssumption
       DEF Bounded
  <2>5. cascade.root \in pending' /\ pending \subseteq pending'
    BY <1>1, <1>3, <2>4, BlockedShape
  <2> QED BY <2>1, <2>5 DEF Root
<1>4. ASSUME CascadeNext, ~((CascadeBegin \/ CascadeChild) /\ Blocked), cascade' # NoCascade
      PROVE  Root(k)'
  <2>1. /\ draining' = draining /\ pending' = pending /\ cascade'.root = cascade.root
        /\ cascade.visited \subseteq cascade'.visited
    BY <1>1, <1>4, FrameShape, BeginShape, ChildShape, LaterShape DEF CascadeNext, SameWalk
  <2> QED BY <2>1 DEF Root
<1>5. ASSUME CascadeNext, ~((CascadeBegin \/ CascadeChild) /\ Blocked), cascade' = NoCascade
      PROVE  Root(k)'
  <2>1. CascadeFinish /\ cascade.at = cascade.root /\ draining' = draining
    BY <1>1, <1>5, FrameShape, BeginShape, ChildShape, LaterShape, IdleShape
       DEF CascadeNext, SameWalk
  <2>2. pending' = pending /\ live' = live /\ cascade.step = "finish"
    BY <1>1, <2>1, LaterShape DEF CascadeFinish, recordVars
  <2>3. k # cascade.root
    BY <1>1, <2>1, <2>2 DEF GoneDead, Leaving
  <2> QED BY <2>1, <2>2, <2>3 DEF Root
<1> QED BY <1>2, <1>3, <1>4, <1>5

LEMMA StaysCovered ==
  ASSUME ConserveInv, Next
  PROVE  Covered'
<1>1. /\ Inv /\ Inv' /\ Custodians /\ PlanOwned /\ LockOwned /\ FreedInHand /\ Covered /\ HostTypeOK
      /\ ServiceNames /\ HostTypeOK' /\ live' \subseteq Keys
  <2>1. Inv'
    BY Parts, NextInv
  <2> QED BY <2>1, Parts DEF Inv, TypeOK, RecordsTypeOK
<1> SUFFICES ASSUME NEW k \in Keys, k \in live'
             PROVE  (\E c \in Sessions : Owner(c, k))' \/ Hosted(k)' \/ Serviced(k)' \/ Root(k)'
  BY <1>1 DEF Covered
<1>2. ASSUME cascade' = Start(k) PROVE Root(k)'
  BY <1>2, IdleShape DEF Root
<1>3. CASE k \notin live
  <2>1. CASE AllocateCommit
    <3>1. PICK c \in Sessions : c = ev.session
      BY <1>1, <2>1, EventSession DEF AllocateCommit, InEvent, InSession
    <3>2. k = plan[BapEvent].key /\ sess \in [Sessions -> Session]
      BY <1>1, <1>3, <2>1 DEF AllocateCommit, CommitSession, Inv, TypeOK
    <3>3. Owner(c, k)'
      BY <2>1, <3>1, <3>2 DEF AllocateCommit, Owner
    <3> QED BY <3>3
  <2>2. CASE ServiceCommit
    BY <1>1, <1>3, <2>2 DEF ServiceCommit, CommitSession, Serviced, Inv, TypeOK, ServiceCall
  <2>3. CASE CascadeRetire
    BY <1>3, <2>3 DEF CascadeRetire, RetireExact
  <2> QED BY <1>1, <1>3, <2>1, <2>2, <2>3, LiveSteps
<1>4. CASE k \in live
  <2>1. ASSUME NEW c \in Sessions, Owner(c, k), ~Owner(c, k)' PROVE Root(k)'
    BY <1>1, <1>2, <2>1, OwnersLeave
  <2>2. ASSUME Hosted(k) PROVE Hosted(k)' \/ Serviced(k)'
    <3>1. PICK j \in KeyOrNone : HostedUnder(k, j)
      BY <1>1, <2>2, HostedSomewhere
    <3> QED BY <1>1, <3>1, HostsKept, TakenServiced DEF HostedUnder, Hosted
  <2>3. ASSUME Serviced(k), ~Serviced(k)' PROVE Hosted(k)' \/ Root(k)'
    BY <1>1, <1>2, <2>3, ServedGoes
  <2> QED BY <1>1, <1>4, <2>1, <2>2, <2>3, RootsGo DEF Covered
<1> QED BY <1>3, <1>4

LEMMA StaysAnchored ==
  ASSUME ConserveInv, Next
  PROVE  FenceAnchored'
<1>1. /\ Inv /\ Custodians /\ OwnersApart /\ ServiceApart /\ FoundApart /\ FramesUnder /\ SourceGone
      /\ GoneDead /\ Covered /\ FenceAnchored /\ BeginLive /\ HostTypeOK /\ cascade \in Cascade
      /\ fences \subseteq Keys /\ fences' \subseteq Keys
  <2>1. Inv'
    BY Parts, NextInv
  <2> QED BY <2>1, Parts DEF Inv, TypeOK, HostTypeOK
<1> SUFFICES ASSUME NEW k \in Keys, k \in fences', k \in live'
             PROVE  Root(k)' \/ \E j \in fences' : HostedUnder(k, j)'
  BY <1>1, FencesStayLive DEF FenceAnchored, FencesLive, Fenced
<1>2. CASE k \in fences
  <2>1. ~(cascade.step = "finish" /\ k = cascade.at)
    BY <1>1, LeavingDoomed, FoundDoomed, IssuedNotBorn DEF GoneDead, Leaving
  <2>2. ASSUME NEW j \in fences, HostedUnder(k, j) PROVE j \in fences' /\ HostedUnder(k, j)'
    <3>1. HostedUnder(k, j)'
      BY <1>1, <2>2, HostsKept DEF Fenced
    <3>2. CASE CascadeFinish /\ j = cascade.at
      BY <1>1, <2>2, <3>2 DEF CascadeFinish, SourceGone, Emptied, HostedUnder, Filled, Keys
    <3>3. CASE CascadeFinish /\ j # cascade.at
      BY <1>1, <3>1, <3>3, LaterShape
    <3>4. CASE CascadeBegin
      BY <1>1, <3>1, <3>4, BeginShape
    <3>5. CASE fences' = fences
      BY <3>1, <3>5
    <3> QED BY <1>1, <3>2, <3>3, <3>4, <3>5, TablePromises
  <2> QED BY <1>1, <1>2, <2>1, <2>2, RootsGo DEF FenceAnchored
<1>3. CASE k \notin fences
  <2>1. CascadeBegin
    BY <1>1, <1>3, LaterShape, TablePromises
  <2>2. k = cascade.at /\ rows' = rows /\ evicted' = evicted /\ fences \subseteq fences' /\ k \in live
    BY <1>1, <1>3, <2>1, BeginShape DEF CascadeBegin, recordVars
  <2>3. CASE Root(k)
    BY <2>3, RootsGo
  <2>4. CASE ~Root(k)
    <3>1. k \in cascade.visited /\ k # cascade.root
      BY <1>1, <2>1, <2>2, <2>4, FrameShape DEF CascadeNext, Root
    <3>2. PICK j \in KeyOrNone : FoundBy(k, j)
      BY <1>1, <3>1 DEF FoundBy, Cascade
    <3>3. Held(k) /\ ~Serviced(k)
      BY <1>1, <3>1 DEF Held, Doomed, ServiceApart
    <3>4. Hosted(k)
      BY <1>1, <2>2, <2>4, <3>3 DEF Covered, OwnersApart
    <3>5. Fenced(j) /\ HostedUnder(k, j)
      BY <1>1, <3>2, <3>4 DEF FramesUnder, Under, Hosted, HostedUnder
    <3> QED BY <2>2, <3>5 DEF HostedUnder, Fenced
  <2> QED BY <2>3, <2>4
<1> QED BY <1>2, <1>3

LEMMA StaysBounded ==
  ASSUME Inv, Next, Bounded
  PROVE  Bounded'
<1>1. IsFiniteSet(live) /\ Cardinality(live) \in Nat /\ SessionCapacity \in Nat /\ NoKey \notin live
  BY LiveFinite, RecordsAssumption DEF Inv, TypeOK, RecordsTypeOK, Keys
<1>2. ASSUME NEW p \in Planners, CommitSession(p) PROVE Bounded'
  <2>1. PICK i, r : /\ i = plan[p].key /\ r = plan[p].replaces /\ HasTarget(r)
                    /\ live' = (live \ {r}) \cup {i}
    BY <1>2 DEF CommitSession, CanCommit
  <2>2. /\ IsFiniteSet(live \ {r})
        /\ Cardinality(live \ {r}) = IF r \in live THEN Cardinality(live) - 1 ELSE Cardinality(live)
    BY <1>1, FS_RemoveElement
  <2>3. Cardinality(live') \in Nat /\ Cardinality(live') <= Cardinality(live \ {r}) + 1
    <3>1. PICK L : L = live \ {r}
      OBVIOUS
    <3>2. /\ IsFiniteSet(L \cup {i}) /\ Cardinality(L) \in Nat
          /\ Cardinality(L \cup {i}) = IF i \in L THEN Cardinality(L) ELSE Cardinality(L) + 1
      BY <2>2, <3>1, FS_AddElement, FS_CardinalityType
    <3>3. live' = L \cup {i} /\ Cardinality(L \cup {i}) \in Nat
      BY <2>1, <3>1, <3>2, FS_CardinalityType
    <3> QED BY <3>1, <3>2, <3>3
  <2>4. Cardinality(live \ {r}) < SessionCapacity
    BY <1>1, <2>1, <2>2 DEF HasTarget, Bounded
  <2> QED BY <1>1, <2>2, <2>3, <2>4, FS_CardinalityType DEF Bounded
<1>3. ASSUME live' \subseteq live PROVE Bounded'
  BY <1>1, <1>3, LiveFinite DEF Bounded
<1> QED
  BY <1>2, <1>3, RecordSteps
     DEF RecordsNext, PrepareSession, RejectSession, RetireExact, MutateRecord, recordVars

LEMMA InitConserve == Init => ConserveInv
<1> SUFFICES ASSUME Init PROVE ConserveInv
  OBVIOUS
<1>1. /\ cascade = NoCascade /\ live = {} /\ fences = {} /\ pending = {} /\ draining = {}
      /\ NoCascade.step = "idle" /\ NoCascade.visited = {} /\ \A i \in Keys : NoCascade.todo[i] = {}
      /\ sv.freed = {} /\ sv.pc = "idle" /\ ev.pc = "idle" /\ \A a \in Callers : caller[a] = "idle"
      /\ \A c \in Sessions : ~sess[c].owns
  BY IdleShape DEF Init, RecordsInit, HostInit, NoCall, NoEvent, ClosedSession
<1>2. \A k \in Keys : ~Hosted(k)
  BY DEF Init, HostInit, FreeRow, Hosted, Keys
<1>3. \A k \in Keys : ~Root(k) /\ ~Serviced(k) /\ \A c \in Sessions : ~Owner(c, k)
  BY <1>1 DEF Root, Serviced, Owner
<1>4. LockOwned /\ FreedInHand
  BY <1>1 DEF LockOwned, FreedInHand, Retiring
<1>5. FramesApart
  BY <1>1, <1>3, IdleShape DEF FramesApart, FoundApart, RootsApart, DerivedFrame
<1>6. RecordsLive
  BY <1>1, <1>2, <1>3
     DEF RecordsLive, HostedLive, HandsLive, RootsLive, FencesLive, GoneDead, BeginLive, TodoLive,
         VisitedDone, Leaving, Fenced
<1>7. TodoComplete /\ Covered /\ FenceAnchored
  BY <1>1 DEF TodoComplete, Covered, FenceAnchored
<1>8. Bounded
  BY <1>1, FS_EmptySet, RecordsAssumption DEF Bounded
<1> QED BY <1>4, <1>5, <1>6, <1>7, <1>8, InitLive DEF ConserveInv

LEMMA NextConserve == ConserveInv /\ [Next]_vars => ConserveInv'
<1>1. ASSUME ConserveInv, Next PROVE ConserveInv'
  <2>1. LiveInv'
    BY <1>1, Parts, NextLive
  <2>2. LockOwned' /\ FreedInHand'
    BY <1>1, Parts, LocksStay, FreedStays
  <2>3. FramesApart'
    BY <1>1, FoundStaysApart, RootsStayApart, DerivedStays DEF FramesApart
  <2>4. RecordsLive'
    BY <1>1, HostedStaysLive, HandsStayLive, RootsStayLive, FencesStayLive, GoneStaysDead,
       BeginStaysLive, TodoStaysLive, VisitedStaysDone DEF RecordsLive
  <2>5. Bounded'
    BY <1>1, Parts, StaysBounded
  <2> QED
    BY <1>1, <2>1, <2>2, <2>3, <2>4, <2>5, TodoStaysComplete, StaysCovered, StaysAnchored
       DEF ConserveInv
<1>2. ASSUME ConserveInv, UNCHANGED vars PROVE ConserveInv'
  <2>1. LiveInv'
    BY <1>2, Parts, NextLive
  <2>2. /\ \A k \in Keys : /\ Hosted(k)' = Hosted(k) /\ Serviced(k)' = Serviced(k)
                           /\ Root(k)' = Root(k) /\ Leaving(k)' = Leaving(k)
                           /\ Fenced(k)' = Fenced(k)
        /\ \A c \in Sessions, k \in Keys : Owner(c, k)' = Owner(c, k)
        /\ \A k, j : HostedUnder(k, j)' = HostedUnder(k, j) /\ FoundBy(k, j)' = FoundBy(k, j)
    BY <1>2 DEF vars, recordVars, hostVars, bapVars, actorVars, Hosted, Serviced, Root, Leaving,
                Fenced, Owner, HostedUnder, FoundBy
  <2>3. /\ live' = live /\ fences' = fences /\ cascade' = cascade /\ pending' = pending
        /\ draining' = draining /\ ev' = ev /\ sv' = sv /\ caller' = caller /\ lock' = lock
    BY <1>2 DEF vars, recordVars, hostVars, bapVars, actorVars
  <2>4. LockOwned' /\ FreedInHand' /\ Bounded'
    BY <1>2, <2>3, Parts DEF LockOwned, FreedInHand, Bounded, Retiring
  <2>5. FramesApart'
    BY <1>2, <2>2, <2>3, Parts DEF FramesApart, FoundApart, RootsApart, DerivedFrame
  <2>6. HostedLive' /\ HandsLive' /\ RootsLive' /\ FencesLive' /\ GoneDead'
    BY <1>2, <2>2, <2>3, Parts DEF HostedLive, HandsLive, RootsLive, FencesLive, GoneDead
  <2>7. BeginLive' /\ TodoLive' /\ VisitedDone'
    BY <1>2, <2>3, Parts DEF BeginLive, TodoLive, VisitedDone, Fenced
  <2>8. TodoComplete' /\ FenceAnchored'
    BY <1>2, <2>2, <2>3, Parts DEF TodoComplete, FenceAnchored, Fenced
  <2>9. Covered'
    BY <1>2, <2>2, <2>3, Parts DEF Covered
  <2> QED BY <2>1, <2>4, <2>5, <2>6, <2>7, <2>8, <2>9 DEF ConserveInv, RecordsLive
<1> QED BY <1>1, <1>2

(* The four custodians, as the model names them. *)
LEMMA CustodianNames ==
  ASSUME ConserveInv, NEW k \in Keys
  PROVE  /\ k \in SessionKeys <=> \E c \in Sessions : Owner(c, k)
         /\ k \in GroupKeys <=> Hosted(k)
         /\ k \in ServiceKeys <=> Serviced(k)
         /\ k \in RetiringKeys <=> Root(k)
<1>1. k \in SessionKeys <=> \E c \in Sessions : Owner(c, k)
  BY DEF SessionKeys, Owner
<1>2. k \in GroupKeys <=> Hosted(k)
  BY DEF GroupKeys, Hosted
<1>3. k \in ServiceKeys <=> Serviced(k)
  BY DEF ServiceKeys, Serviced
<1>4. ASSUME k = cascade.root PROVE k \in cascade.visited
  <2>1. Inv /\ LockOwned
    BY Parts
  <2>2. Retiring
    BY <1>4, <2>1, IdleShape DEF LockOwned, Keys
  <2> QED BY <1>4, <2>1, <2>2 DEF Inv, FramesOK
<1>5. k \in RetiringKeys <=> Root(k)
  BY <1>4 DEF RetiringKeys, Root
<1> QED BY <1>1, <1>2, <1>3, <1>5

(* Conservation: every live record has exactly one custodian, and nobody    *)
(* but the table holds a record that is not live                            *)
(* (check_conservation in activity_retirement_integration_tests.cpp).       *)
LEMMA Conserved == ConserveInv => OneCustodian
<1> SUFFICES ASSUME ConserveInv PROVE OneCustodian
  OBVIOUS
<1>1. /\ Inv /\ OwnersApart /\ ServiceApart /\ RootsUnhosted /\ RootsApart /\ FoundApart
      /\ HandsLive /\ RootsLive /\ Covered /\ live \subseteq Keys
      /\ pending \subseteq Keys /\ draining \subseteq Keys
  BY Parts
<1>2. ASSUME NEW k \in live
      PROVE  Cardinality({i \in 1 .. 4 : k \in <<SessionKeys, GroupKeys, ServiceKeys,
                                                  RetiringKeys>>[i]}) = 1
  <2>1. k \in Keys
    BY <1>1
  <2> DEFINE In(i) == k \in <<SessionKeys, GroupKeys, ServiceKeys, RetiringKeys>>[i]
  <2>2. /\ In(1) <=> \E c \in Sessions : Owner(c, k)
        /\ In(2) <=> Hosted(k)
        /\ In(3) <=> Serviced(k)
        /\ In(4) <=> Root(k)
    BY <2>1, CustodianNames
  <2>3. In(1) \/ In(2) \/ In(3) \/ In(4)
    BY <1>1, <2>2 DEF Covered
  <2>4. /\ In(1) => ~In(2) /\ ~In(3) /\ ~In(4)
        /\ In(2) => ~In(3) /\ ~In(4)
        /\ In(3) => ~In(4)
    BY <1>1, <2>1, <2>2 DEF OwnersApart, Held, Doomed, Root, ServiceApart, RootsUnhosted
  <2>5. PICK n \in 1 .. 4 : In(n) /\ \A i \in 1 .. 4 : In(i) => i = n
    <3> HIDE DEF In
    <3> QED BY <2>3, <2>4
  <2>6. {i \in 1 .. 4 : In(i)} = {n}
    BY <2>5
  <2> QED BY <2>6, FS_Singleton
<1>3. SessionKeys \subseteq live
  BY <1>1 DEF SessionKeys, OwnersApart, HandsLive, Owner
<1>4. ServiceKeys \subseteq live
  <2>1. ServiceKeys \subseteq Keys
    BY <1>1 DEF ServiceKeys, Inv, TypeOK, ServiceCall, ServiceOK
  <2> QED BY <1>1, <2>1, CustodianNames DEF HandsLive
<1>5. ASSUME NEW k \in pending \cup draining PROVE k \in live
  <2>1. k \in Keys /\ Root(k) /\ k # cascade.root
    BY <1>1 DEF Root, RootsApart
  <2> QED BY <1>1, <2>1, LeavingDoomed DEF RootsLive, Leaving
<1>6. \A c, d \in Sessions :
          sess[c].owns /\ sess[d].owns /\ sess[c].instance = sess[d].instance => c = d
  BY <1>1 DEF OwnersApart, Owner
<1> QED BY <1>2, <1>3, <1>4, <1>5, <1>6 DEF OneCustodian

THEOREM RecordsConserved == Spec => []OneCustodian
<1>1. ConserveInv => OneCustodian
  BY Conserved
<1> QED BY <1>1, InitConserve, NextConserve, PTL DEF Spec

(***************************************************************************)
(* The tables of a retirement are big enough                               *)
(***************************************************************************)
RootsFit == Retiring => Cardinality(pending \cup draining \cup {cascade.root}) <= PendingCapacity

(* The roots a retirement may have to put back are live records when it     *)
(* starts, and none joins them before it is over.                           *)
LEMMA RootsStayFit ==
  ASSUME ConserveInv, RootsFit, Next
  PROVE  RootsFit'
<1>1. Inv /\ LockOwned
  BY Parts
<1>2. ASSUME UNCHANGED <<pending, draining>>, cascade'.root = cascade.root, Retiring PROVE RootsFit'
  BY <1>2 DEF RootsFit
<1>3. ASSUME ~Retiring' PROVE RootsFit'
  BY <1>3 DEF RootsFit
<1>4. ASSUME NEW r \in Keys, cascade' = Start(r) PROVE RootsFit'
  <2>1. /\ RootsLive' /\ Bounded' /\ pending' \subseteq Keys /\ draining' \subseteq Keys
        /\ live' \subseteq Keys
    <3>1. Inv'
      BY Parts, NextInv
    <3>2. Bounded'
      BY <1>1, Parts, StaysBounded
    <3> QED BY <3>1, <3>2, RootsStayLive DEF Inv, TypeOK, RecordsTypeOK
  <2>2. cascade'.root = r /\ cascade'.step # "finish" /\ Root(r)'
    BY <1>4, IdleShape DEF Root
  <2>3. PICK L, R : L = live' /\ R = pending' \cup draining' \cup {r}
    OBVIOUS
  <2>4. R \subseteq L
    BY <2>1, <2>2, <2>3 DEF RootsLive, Root
  <2>5. /\ IsFiniteSet(L) /\ Cardinality(L) \in Nat /\ Cardinality(L) <= SessionCapacity
    <3>1. IsFiniteSet(L)
      <4>1. IsFiniteSet(Keys)
        BY RecordsAssumption, FS_Interval DEF Keys
      <4> QED BY <2>1, <2>3, <4>1, FS_Subset
    <3>2. Cardinality(L) <= SessionCapacity
      BY <2>1, <2>3 DEF Bounded
    <3> QED BY <3>1, <3>2, FS_CardinalityType
  <2>6. Cardinality(R) \in Nat /\ Cardinality(R) <= Cardinality(L)
    BY <2>4, <2>5, FS_Subset, FS_CardinalityType
  <2>7. Cardinality(R) <= PendingCapacity
    BY <2>5, <2>6, CapacityAssumption, RecordsAssumption, RetirementAssumption
  <2> QED BY <2>2, <2>3, <2>7 DEF RootsFit
<1>5. CASE ~CascadeNext
  <2>1. CASE cascade' = cascade /\ Retiring
    <3>1. cascade # NoCascade
      BY <2>1, IdleShape DEF Retiring
    <3> QED BY <1>2, <1>5, <2>1, <3>1, StepsOutside, IdleShape DEF Waiting
  <2>2. CASE cascade' = cascade /\ ~Retiring
    BY <1>3, <2>2 DEF Retiring
  <2> QED BY <1>4, <1>5, <2>1, <2>2, StepsOutside
<1>6. CASE CascadeNext
  <2>1. CASE cascade' = NoCascade
    BY <1>3, <2>1, IdleShape DEF Retiring
  <2>2. CASE cascade' # NoCascade
    <3>1. Retiring /\ draining' = draining
      BY <1>1, <1>6, FrameShape
    <3>2. pending' = pending /\ cascade'.root = cascade.root
      BY <1>1, <1>6, <2>2, BeginShape, ChildShape, LaterShape, BlockedShape
         DEF CascadeNext, SameWalk
    <3> QED BY <1>2, <3>1, <3>2
  <2> QED BY <2>1, <2>2
<1> QED BY <1>5, <1>6

(* A fence is there for every source: the other fences are behind other     *)
(* records that are live.                                                   *)
LEMMA FenceFits ==
  ASSUME ConserveInv, cascade.step = "begin"
  PROVE  CanFence(cascade.at)
<1>1. Inv /\ BeginLive /\ FencesLive /\ Bounded /\ fences \subseteq Keys
  BY Parts
<1> SUFFICES ASSUME ~Fenced(cascade.at) PROVE Cardinality(fences) < FenceCapacity
  BY DEF CanFence
<1>2. cascade.at \in live /\ fences \subseteq live \ {cascade.at}
  BY <1>1 DEF BeginLive, FencesLive, Fenced
<1>3. IsFiniteSet(live) /\ Cardinality(live) \in Nat
  BY <1>1, LiveFinite
<1>4. /\ IsFiniteSet(live \ {cascade.at})
      /\ Cardinality(live \ {cascade.at}) = Cardinality(live) - 1
  BY <1>2, <1>3, FS_RemoveElement
<1>5. Cardinality(fences) \in Nat /\ Cardinality(fences) <= Cardinality(live) - 1
  BY <1>2, <1>4, FS_Subset, FS_CardinalityType
<1> QED
  BY <1>1, <1>3, <1>5, CapacityAssumption, RecordsAssumption, HostAssumption DEF Bounded

FitInv == ConserveInv /\ RootsFit

LEMMA InitFit == Init => FitInv
<1> SUFFICES ASSUME Init PROVE FitInv
  OBVIOUS
<1>1. cascade = NoCascade
  BY DEF Init
<1> QED BY <1>1, InitConserve, IdleShape DEF FitInv, RootsFit, Retiring

LEMMA NextFit == FitInv /\ [Next]_vars => FitInv'
<1>1. ASSUME FitInv, Next PROVE FitInv'
  BY <1>1, NextConserve, RootsStayFit DEF FitInv
<1>2. ASSUME FitInv, UNCHANGED vars PROVE FitInv'
  <2>1. UNCHANGED <<cascade, pending, draining>>
    BY <1>2 DEF vars, bapVars
  <2> QED BY <1>2, <2>1, NextConserve DEF FitInv, RootsFit, Retiring
<1> QED BY <1>1, <1>2

(* The fences and the pending entries never run out, given only that the    *)
(* two tables are as long as State's (group_host_retirement_fence.h and     *)
(* bap_route.cpp size them so): a retirement is refused for a pin and never *)
(* for want of a fence, and no blocked root is dropped.                     *)
THEOREM CapacitiesAlwaysSuffice == Spec => []CapacitiesSuffice
<1>1. FitInv => CapacitiesSuffice
  BY FenceFits DEF FitInv, RootsFit, CapacitiesSuffice
<1> QED BY <1>1, InitFit, NextFit, PTL DEF Spec

(***************************************************************************)
(* A record is younger than the source it is derived from                  *)
(***************************************************************************)
SourceBefore ==
    /\ \A s \in Slots : Filled(s) => rows[s].source < rows[s].host
    /\ \A e \in evicted : e.source < e.host
    /\ sv.pc = "store" => sv.source < sv.key

(* Whoever names a source names one that was issued. *)
SourcesIssued ==
    /\ \A s \in Slots : rows[s].source < nextKey
    /\ sv.source < nextKey
    /\ \A a \in Claimants : claim[a].source < nextKey
    /\ ev.pc = "identity" => ev.key < nextKey

LEMMA LeastOf ==
  ASSUME NEW S \in SUBSET Nat, S # {}
  PROVE  \E i \in S : \A j \in S : ~(j < i)
<1> DEFINE R == {p \in Nat \X Nat : p[1] < p[2]}
<1>1. IsWellFoundedOn(R, Nat)
  BY NatLessThanWellFounded DEF OpToRel
<1>2. \E i \in S : \A j \in S : ~(<<j, i>> \in R)
  <2> HIDE DEF R
  <2> QED BY <1>1, WFMin
<1> QED BY <1>2

(* What a critical section may leave as the source of a row. *)
SourcesFrom(k) == \A s \in Slots : rows'[s].source \in {rows[s].source, NoKey, k}

LEMMA ClaimSources ==
  ASSUME HostTypeOK, NEW g, NEW k, ClaimRow(g, k)
  PROVE  SourcesFrom(k)
<1> USE DEF HostTypeOK, SourcesFrom
<1>1. CASE ClaimRefuse(g, k)
  BY <1>1 DEF ClaimRefuse, hostVars
<1>2. CASE ClaimExisting(g, k)
  BY <1>2 DEF ClaimExisting, FirstOf, Named, Row
<1>3. ASSUME NEW s \in Slots, NewRow(s, g, k) PROVE SourcesFrom(k)
  BY <1>3 DEF NewRow, FreeRow
<1>4. CASE ClaimFree(g, k) \/ ClaimEvicting(g, k)
  BY <1>3, <1>4 DEF ClaimFree, ClaimEvicting, FirstOf, FreeSlots, Victims
<1> QED BY <1>1, <1>2, <1>4 DEF ClaimRow

LEMMA OtherSources ==
  ASSUME HostTypeOK
  PROVE  /\ \A S : ClearRows(S) => SourcesFrom(NoKey)
         /\ \A g, h, k : ClearStaleHost(g, h, k) => SourcesFrom(k)
         /\ \A g, h, k : StoreHost(g, h, k) => SourcesFrom(NoKey)
         /\ \A g, m : AliasRow(g, m) => SourcesFrom(NoKey)
         /\ \A h, k : AcquireLease(h, k) => SourcesFrom(NoKey)
         /\ \A h : ReleaseLease(h) => SourcesFrom(NoKey)
<1> USE DEF HostTypeOK, SourcesFrom
<1>1. ASSUME NEW S, ClearRows(S) PROVE SourcesFrom(NoKey)
  BY <1>1 DEF ClearRows, FreeRow
<1>2. ASSUME NEW g, NEW h, NEW k, ClearStaleHost(g, h, k) PROVE SourcesFrom(k)
  BY <1>2 DEF ClearStaleHost, Row
<1>3. ASSUME NEW g, NEW h, NEW k, StoreHost(g, h, k) PROVE SourcesFrom(NoKey)
  BY <1>3 DEF StoreHost, Row
<1>4. ASSUME NEW g, NEW m, AliasRow(g, m) PROVE SourcesFrom(NoKey)
  BY <1>4 DEF AliasRow, LastOf, Named, Row
<1>5. ASSUME NEW h, NEW k, AcquireLease(h, k) PROVE SourcesFrom(NoKey)
  BY <1>5 DEF AcquireLease, Leasable, FirstOf, Row
<1>6. ASSUME NEW h, ReleaseLease(h) PROVE SourcesFrom(NoKey)
  <2>1. CASE SameRow(lease[h])
    <3>1. PICK s : s = lease[h].slot /\ rows' = [rows EXCEPT ![s].pins = @ - 1]
      BY <1>6, <2>1 DEF ReleaseLease
    <3> QED BY <3>1 DEF Row
  <2>2. CASE ~SameRow(lease[h])
    BY <1>6, <2>2 DEF ReleaseLease
  <2> QED BY <2>1, <2>2
<1> QED BY <1>1, <1>2, <1>3, <1>4, <1>5, <1>6

(* The rows take their sources from the claims of activity_host_session.    *)
LEMMA RowSources ==
  ASSUME Inv, Next
  PROVE  SourcesFrom(NoKey) \/ \E a \in Claimants : SourcesFrom(claim[a].source)
<1> DEFINE Goal == SourcesFrom(NoKey) \/ \E a \in Claimants : SourcesFrom(claim[a].source)
<1>1. HostTypeOK
  BY DEF Inv, TypeOK
<1>2. ASSUME rows' = rows PROVE Goal
  BY <1>2 DEF SourcesFrom
<1>3. ASSUME NEW a \in Claimants, ClaimSteps(a) PROVE Goal
  BY <1>1, <1>2, <1>3, ClaimSources, OtherSources
     DEF ClaimSteps, ClaimTake, ClaimRecheck, ClaimDrop, ClaimPublish, ClaimClear,
         DropUnfilledClaim, hostVars
<1>4. ASSUME EventBegins \/ EventSteps PROVE Goal
  BY <1>1, <1>2, <1>4, OtherSources
     DEF EventBegins, Open, Close, Hello, Allocate, Join, Poll, Report, Identify, Shutdown, Frame,
         EventSteps, ShutdownSession, ShutdownDone, Retired, AllocateCommit, AllocateReject,
         JoinDirect, JoinLease, JoinRefused, JoinPublish, JoinDiscard, Deferred, IdentityClaim,
         ReportOwned, ReportBorrowed, ReportStale, ReportHeld, ReportAcquire, ReportLost,
         ReportCommit, ReportDiscard, EventRelease, EventReleased, Tail, EventDrained, hostVars
<1>5. ASSUME ServiceBegins \/ ServiceSteps PROVE Goal
  BY <1>1, <1>2, <1>5, OtherSources
     DEF ServiceBegins, ServiceSteps, Slice, Reset, Lookup, Alias, ServiceTake, ServiceRetire,
         ServiceUnlock, ServiceFreed, ServicePick, ServiceInherit, ServiceDrop, ServicePrepare,
         ServiceCommit, ServiceReject, ServiceStore, LookupCheck, LookupClear, TakeFreeable,
         ResetRows, DropStaleClaim, hostVars
<1>6. ASSUME NEW a \in Callers, CallerClaim(a) \/ CallerLease(a) \/ CallerSteps(a) PROVE Goal
  BY <1>1, <1>2, <1>6, OtherSources
     DEF CallerClaim, CallerLease, CallerSteps, CallerRelease, CallerRetry, CallerDrained, hostVars
<1>7. ASSUME CascadeNext \/ DrainRoot \/ Revise PROVE Goal
  BY <1>1, <1>2, <1>7, OtherSources
     DEF CascadeNext, CascadeBegin, CascadeChild, CascadeDerived, CascadeSource, CascadeRetire,
         CascadeFinish, FenceSource, FinishSource, CommitDerived, CommitSource, DrainRoot, Revise,
         hostVars
<1> QED BY <1>3, <1>4, <1>5, <1>6, <1>7 DEF Next

(* A claim is for a record that is live when it starts, for none, or for    *)
(* the one a client identity found live when its event began.               *)
LEMMA ClaimsName ==
  ASSUME Inv, Next, NEW a \in Claimants
  PROVE  \/ claim'[a].source \in {claim[a].source, NoKey} \cup live
         \/ ev.pc = "identity" /\ claim'[a].source = ev.key
<1> DEFINE Goal == \/ claim'[a].source \in {claim[a].source, NoKey} \cup live
                   \/ ev.pc = "identity" /\ claim'[a].source = ev.key
<1>1. claim \in [Claimants -> Claim] /\ BapEvent \in Claimants /\ Callers \subseteq Claimants
  BY DEF Inv, TypeOK, Claimants
<1>2. ASSUME claim'[a].source = claim[a].source PROVE Goal
  BY <1>2
<1>3. ASSUME NEW b \in Claimants, NEW g, NEW k, StartClaim(b, g, k)
      PROVE  claim'[a].source \in {claim[a].source, k}
  BY <1>1, <1>3 DEF StartClaim, NoClaim, Claim
<1>4. ASSUME NEW b \in Claimants, NEW r, Answer(b, r) PROVE Goal
  BY <1>1, <1>4 DEF Answer, NoClaim
<1>5. ASSUME NEW b \in Claimants, ClaimSteps(b) PROVE Goal
  <2>1. ASSUME NEW pc, ClaimGoes(b, pc) PROVE Goal
    BY <1>1, <2>1 DEF ClaimGoes, Claim
  <2>2. CASE ClaimTake(b)
    <3>1. CASE ClaimRefused(claim[b].group, claim[b].source)
      BY <1>4, <2>2, <3>1 DEF ClaimTake
    <3>2. CASE ~ClaimRefused(claim[b].group, claim[b].source)
      BY <1>1, <2>2, <3>2 DEF ClaimTake, Claim
    <3> QED BY <3>1, <3>2
  <2> QED BY <1>4, <1>5, <2>1, <2>2
          DEF ClaimSteps, ClaimRecheck, ClaimDrop, ClaimPublish, ClaimClear
<1>6. ASSUME EventSteps PROVE Goal
  <2>1. CASE IdentityClaim
    BY <1>1, <1>3, <2>1 DEF IdentityClaim, InEvent
  <2>2. CASE ReportOwned
    BY <1>1, <1>3, <2>2 DEF ReportOwned, OwnsLineage, Contains
  <2>3. CASE ReportBorrowed
    BY <1>1, <1>3, <2>3 DEF ReportBorrowed, BorrowsLineage, HasCreator, Contains
  <2> QED
    BY <1>6, <2>1, <2>2, <2>3
       DEF EventSteps, ShutdownSession, ShutdownDone, Retired, AllocateCommit, AllocateReject,
           JoinDirect, JoinLease, JoinRefused, JoinPublish, JoinDiscard, Deferred,
           ReportStale, ReportHeld, ReportAcquire, ReportLost,
           ReportCommit, ReportDiscard, EventRelease, EventReleased, Tail, EventDrained
<1>7. ASSUME EventBegins PROVE Goal
  BY <1>7
     DEF EventBegins, Open, Close, Hello, Allocate, Join, Poll, Report, Identify, Shutdown, Frame
<1>8. ASSUME ServiceBegins \/ ServiceSteps PROVE Goal
  BY <1>8
     DEF ServiceBegins, ServiceSteps, Slice, Reset, Lookup, Alias, ServiceTake, ServiceRetire,
         ServiceUnlock, ServiceFreed, ServicePick, ServiceInherit, ServiceDrop, ServicePrepare,
         ServiceCommit, ServiceReject, ServiceStore, LookupCheck, LookupClear, actorVars
<1>9. ASSUME NEW b \in Callers, CallerClaim(b) \/ CallerLease(b) \/ CallerSteps(b) PROVE Goal
  BY <1>1, <1>3, <1>9
     DEF CallerClaim, CallerLease, CallerSteps, CallerRelease, CallerRetry, CallerDrained
<1>10. ASSUME CascadeNext \/ DrainRoot \/ Revise PROVE Goal
  BY <1>10
     DEF CascadeNext, CascadeBegin, CascadeChild, CascadeDerived, CascadeSource, CascadeRetire,
         CascadeFinish, DrainRoot, Revise, actorVars
<1> QED BY <1>5, <1>6, <1>7, <1>8, <1>9, <1>10 DEF Next

(* The service thread works on the source of a row. *)
LEMMA ServiceSources ==
  ASSUME Inv, Next
  PROVE  sv'.source \in {sv.source, NoKey} \cup {rows[s].source : s \in Slots}
<1>1. sv \in ServiceCall /\ NoCall.source = NoKey
  BY DEF Inv, TypeOK, NoCall
<1>2. CASE ServiceBegins
  BY <1>1, <1>2 DEF ServiceBegins, Slice, Reset, Lookup, Alias, NoCall, actorVars
<1>3. CASE ServicePick
  BY <1>1, <1>3 DEF ServicePick, Claimed, FirstOf, NoCall
<1>4. CASE ServiceSteps /\ ~ServicePick
  <2>1. CASE ServiceFreed
    BY <1>1, <2>1 DEF ServiceFreed, ServiceCall
  <2>2. CASE ServiceTake \/ ServiceRetire \/ ServiceUnlock \/ ServiceInherit \/ ServiceCommit
    BY <1>1, <2>2 DEF ServiceTake, ServiceRetire, ServiceUnlock, ServiceInherit, ServiceCommit,
                      ServiceCall
  <2>3. CASE ServicePrepare \/ LookupCheck
    BY <1>1, <2>3 DEF ServicePrepare, LookupCheck, ServiceCall
  <2>4. CASE ServiceDrop \/ ServiceStore \/ ServiceReject \/ LookupClear
    <3>1. sv'.source = NoKey
      <4>1. CASE ServiceDrop
        BY <4>1 DEF ServiceDrop, NoCall
      <4>2. CASE ServiceStore
        BY <4>2 DEF ServiceStore, NoCall
      <4>3. CASE ServiceReject
        BY <4>3 DEF ServiceReject, NoCall
      <4>4. CASE LookupClear
        BY <4>4 DEF LookupClear, NoCall
      <4> QED BY <2>4, <4>1, <4>2, <4>3, <4>4
    <3> QED BY <3>1
  <2> QED BY <1>4, <2>1, <2>2, <2>3, <2>4 DEF ServiceSteps
<1> QED BY <1>2, <1>3, <1>4, ServiceAlone

(* An identity event names the record its connection is bound to.           *)
LEMMA IdentitySteps ==
  ASSUME Inv, Next, ev'.pc = "identity"
  PROVE  ev' = ev \/ ev'.key \in live
<1>1. ev \in Event /\ EventOK
  BY DEF Inv, TypeOK
<1>2. CASE EventBegins
  <2>1. ASSUME NEW c \in Sessions, NEW g \in Groups, Identify(c, g) PROVE ev'.key \in live
    BY <2>1 DEF Identify, Frame, NoEvent, Contains
  <2>2. ASSUME NEW c \in Sessions,
               Open(c) \/ Close(c) \/ Hello(c) \/ Allocate(c) \/ Join(c) \/ Poll(c)
        PROVE  FALSE
    BY <2>2 DEF Open, Close, Hello, Allocate, Join, Poll, Detach, Frame, NoEvent
  <2>3. ASSUME NEW c \in Sessions, NEW g \in Groups, Report(c, g) PROVE FALSE
    BY <2>3 DEF Report, Frame, NoEvent
  <2>4. CASE Shutdown
    BY <2>4 DEF Shutdown, NoEvent
  <2> QED BY <1>2, <2>1, <2>2, <2>3, <2>4 DEF EventBegins
<1>3. CASE EventSteps
  <2>1. CASE Retired
    BY <1>1, <2>1 DEF Retired, InEvent, Event, EventOK
  <2>2. CASE EventDrained
    <3>1. \/ ev' = NoEvent
          \/ ev' = [ev EXCEPT !.pc = ev.next, !.next = "none"] /\ ev.next = "sessions"
      BY <1>1, <2>2 DEF EventDrained, InEvent, EventOK
    <3>2. ASSUME ev' = [ev EXCEPT !.pc = ev.next, !.next = "none"], ev.next = "sessions"
          PROVE  ev'.pc = "sessions"
      BY <1>1, <3>2 DEF Event
    <3>3. ev' # NoEvent
      BY DEF NoEvent
    <3> QED BY <3>1, <3>2, <3>3
  <2>3. CASE ShutdownSession \/ ShutdownDone \/ AllocateCommit \/ AllocateReject \/ JoinDirect
    BY <1>1, <2>3 DEF ShutdownSession, ShutdownDone, AllocateCommit, AllocateReject, JoinDirect,
                      InEvent, Event
  <2>4. CASE JoinLease \/ JoinRefused \/ JoinPublish \/ JoinDiscard \/ IdentityClaim
    BY <1>1, <2>4 DEF JoinLease, JoinRefused, JoinPublish, JoinDiscard, IdentityClaim, Event
  <2>5. CASE ReportOwned \/ ReportBorrowed \/ ReportStale \/ ReportHeld
    BY <1>1, <2>5 DEF ReportOwned, ReportBorrowed, ReportStale, ReportHeld, Event
  <2>6. CASE ReportAcquire \/ ReportLost \/ ReportCommit \/ ReportDiscard
    BY <1>1, <2>6 DEF ReportAcquire, ReportLost, ReportCommit, ReportDiscard, Event
  <2>7. CASE EventRelease \/ EventReleased \/ Tail \/ \E g \in Groups : Deferred(g)
    BY <1>1, <2>7 DEF EventRelease, EventReleased, Tail, Deferred, NoEvent, Event
  <2> QED BY <1>3, <2>1, <2>2, <2>3, <2>4, <2>5, <2>6, <2>7 DEF EventSteps
<1>4. ASSUME NEW a \in Claimants, ClaimSteps(a) PROVE ev' = ev
  <2>1. ev' = ev \/ \E b \in BOOLEAN : Answer(a, b)
    BY <1>4 DEF ClaimSteps, ClaimTake, ClaimRecheck, ClaimDrop, ClaimPublish, ClaimClear, ClaimGoes
  <2> QED BY <1>1, <2>1 DEF Answer, Event
<1>5. CASE ServiceBegins \/ ServiceSteps
  BY <1>5
     DEF ServiceBegins, ServiceSteps, Slice, Reset, Lookup, Alias, ServiceTake, ServiceRetire,
         ServiceUnlock, ServiceFreed, ServicePick, ServiceInherit, ServiceDrop, ServicePrepare,
         ServiceCommit, ServiceReject, ServiceStore, LookupCheck, LookupClear, actorVars
<1>6. ASSUME NEW a \in Callers, CallerClaim(a) \/ CallerLease(a) \/ CallerSteps(a) PROVE ev' = ev
  BY <1>6
     DEF CallerClaim, CallerLease, CallerSteps, CallerRelease, CallerRetry, CallerDrained
<1>7. CASE CascadeNext \/ DrainRoot \/ Revise
  BY <1>7
     DEF CascadeNext, CascadeBegin, CascadeChild, CascadeDerived, CascadeSource, CascadeRetire,
         CascadeFinish, DrainRoot, Revise, actorVars
<1> QED BY <1>2, <1>3, <1>4, <1>5, <1>6, <1>7 DEF Next

(* Everything named as a source stays an id that was issued. *)
LEMMA SourcesStayIssued ==
  ASSUME ConserveInv, Next, SourcesIssued
  PROVE  SourcesIssued'
<1> DEFINE Old(k) == k \in KeyOrNone /\ k < nextKey
<1>1. /\ Inv /\ Inv' /\ IssuedInOrder /\ live \subseteq Keys
  BY Parts, NextInv
<1>2. nextKey \in Nat /\ 0 < nextKey /\ nextKey' \in Nat /\ nextKey' >= nextKey
  BY <1>1, RecordsOrder DEF Inv, TypeOK, RecordsTypeOK
<1>3. Old(NoKey) /\ \A k \in live : Old(k)
  BY <1>1, <1>2 DEF IssuedInOrder, Issued
<1>4. /\ \A s \in Slots : Old(rows[s].source)
      /\ Old(sv.source)
      /\ \A a \in Claimants : Old(claim[a].source)
      /\ ev.pc = "identity" => Old(ev.key)
  BY <1>1 DEF SourcesIssued, Inv, TypeOK, HostTypeOK, Row, ServiceCall, Claim, Event
<1>5. \A k : Old(k) => k < nextKey'
  BY <1>2 DEF Keys
<1>6. \A s \in Slots : Old(rows'[s].source)
  <2>1. CASE SourcesFrom(NoKey)
    BY <1>3, <1>4, <2>1 DEF SourcesFrom
  <2>2. ASSUME NEW a \in Claimants, SourcesFrom(claim[a].source) PROVE \A s \in Slots : Old(rows'[s].source)
    BY <1>3, <1>4, <2>2 DEF SourcesFrom
  <2> QED BY <1>1, <2>1, <2>2, RowSources
<1>7. Old(sv'.source)
  BY <1>1, <1>3, <1>4, ServiceSources
<1>8. \A a \in Claimants : Old(claim'[a].source)
  BY <1>1, <1>3, <1>4, ClaimsName
<1>9. ev'.pc = "identity" => Old(ev'.key)
  BY <1>1, <1>3, <1>4, IdentitySteps
<1> QED BY <1>5, <1>6, <1>7, <1>8, <1>9 DEF SourcesIssued

(* A host is stored in a row that was claimed for an older source, and an   *)
(* evicted host keeps the source of its row.                                *)
LEMMA SourceStaysBefore ==
  ASSUME ConserveInv, Next, SourcesIssued, SourceBefore
  PROVE  SourceBefore'
<1>1. /\ Inv /\ HostTypeOK /\ IssuedInOrder /\ sv \in ServiceCall
  BY Parts DEF Inv, TypeOK
<1>2. \A s \in Slots : Filled(s)' => rows'[s].source < rows'[s].host
  <2>1. CASE HostMoves \/ UNCHANGED hostVars
    BY <1>1, <2>1, MovesKeep DEF Kept, RowKept, Filled, SourceBefore
  <2>2. CASE CascadeBegin \/ CascadeFinish
    BY <2>2 DEF CascadeBegin, CascadeFinish, FenceSource, FinishSource, Filled, SourceBefore
  <2>3. CASE ServiceStore
    <3>1. ASSUME NEW s \in Slots
          PROVE  rows'[s] = rows[s] \/ (rows'[s].source = sv.source /\ rows'[s].host = sv.key)
      BY <1>1, <2>3 DEF ServiceStore, StoreHost, Storable, HostTypeOK, Row
    <3> QED BY <2>3, <3>1 DEF ServiceStore, Filled, SourceBefore
  <2> QED BY <1>1, <2>1, <2>2, <2>3, TableMoves
<1>3. \A e \in evicted' : e.source < e.host
  <2>1. CASE HostMoves \/ UNCHANGED hostVars
    BY <1>1, <2>1, MovesKeep DEF Kept, EvictedFromRows, SourceBefore
  <2>2. CASE CascadeBegin \/ CascadeFinish \/ ServiceStore
    BY <2>2 DEF CascadeBegin, CascadeFinish, ServiceStore, FenceSource, FinishSource, StoreHost,
                SourceBefore
  <2> QED BY <1>1, <2>1, <2>2, TableMoves
<1>4. sv'.pc = "store" => sv'.source < sv'.key
  <2>1. CASE sv' = sv
    BY <2>1 DEF SourceBefore
  <2>2. CASE ServiceCommit
    BY <1>1, <2>2, RecordsOrder DEF ServiceCommit, ServiceCall, Planners, SourcesIssued
  <2> QED BY <1>1, <2>1, <2>2, StoreFrom
<1> QED BY <1>2, <1>3, <1>4 DEF SourceBefore

StrandInv == ConserveInv /\ SourceBefore /\ SourcesIssued

LEMMA InitStrand == Init => StrandInv
<1> SUFFICES ASSUME Init PROVE SourceBefore /\ SourcesIssued
  BY InitConserve DEF StrandInv
<1> QED
  BY DEF Init, HostInit, RecordsInit, FreeRow, Filled, NoCall, NoClaim, NoEvent, SourceBefore, SourcesIssued

LEMMA NextStrand == StrandInv /\ [Next]_vars => StrandInv'
<1>1. ASSUME StrandInv, Next PROVE StrandInv'
  BY <1>1, NextConserve, SourcesStayIssued, SourceStaysBefore DEF StrandInv
<1>2. ASSUME StrandInv, UNCHANGED vars PROVE StrandInv'
  <2>1. SourceBefore' /\ SourcesIssued'
    BY <1>2 DEF StrandInv, vars, recordVars, hostVars, actorVars, SourceBefore, SourcesIssued, Filled
  <2> QED BY <1>2, <2>1, NextConserve DEF StrandInv
<1> QED BY <1>1, <1>2

(* With no root left, a fence would hang from a fence of an older source,    *)
(* and so on down for ever.                                                 *)
LEMMA NoneStranded == StrandInv => NoStrandedFence
<1> SUFFICES ASSUME StrandInv PROVE NoStrandedFence
  OBVIOUS
<1>1. /\ Inv /\ LockOwned /\ FencesLive /\ FenceAnchored /\ HostTypeOK /\ fences \subseteq Keys
      /\ SourceBefore
  BY Parts DEF StrandInv
<1>2. fences \subseteq live \cup IF cascade.step = "finish" THEN {cascade.at} ELSE {}
  BY <1>1 DEF FencesLive, Fenced
<1>3. ASSUME ~Retiring, pending \cup draining = {}, fences # {} PROVE FALSE
  <2>1. cascade.step # "finish" /\ \A k \in fences : ~Root(k)
    BY <1>1, <1>3, IdleShape DEF LockOwned, Root
  <2>2. \A k \in fences : \E j \in fences : HostedUnder(k, j)
    BY <1>1, <2>1 DEF FenceAnchored
  <2>3. \A k, j \in fences : HostedUnder(k, j) => j < k
    BY <1>1 DEF HostedUnder, SourceBefore, Filled, Keys
  <2>4. PICK k \in fences : \A j \in fences : ~(j < k)
    BY <1>1, <1>3, LeastOf DEF Keys
  <2> QED BY <2>2, <2>3, <2>4
<1> QED BY <1>2, <1>3 DEF NoStrandedFence

(* No fence is left behind: once nothing is being retired and nothing waits *)
(* to be, every source can be claimed again.                                *)
THEOREM NoFenceStranded == Spec => []NoStrandedFence
BY InitStrand, NextStrand, NoneStranded, PTL DEF Spec

(***************************************************************************)
(* A cascade has frames enough                                             *)
(***************************************************************************)
(* Without threads outside the BAP lock nothing claims a row while a        *)
(* cascade runs, for a claim is then part of an event.                      *)
ClaimsWait == Retiring => ev.pc # "claiming"

(* g_evicted is never longer than the table.                                *)
EvictedFit == IsFiniteSet(evicted) /\ Cardinality(evicted) <= RowCapacity

(* Once a source is committed, no row names it, filled or not.              *)
SourceForgotten ==
    cascade.step \in {"retire", "finish"}
        => \A s \in Slots : Occupied(s) => rows[s].source # cascade.at

(* What the frames are counted against: the places of the table that hold   *)
(* a host, or may still get one, and the records found in a place that is   *)
(* gone since.                                                              *)
Spent == {k \in cascade.visited \ {cascade.root} : ~Hosted(k)}
Staked(s) == Filled(s) \/ (Occupied(s) /\ ~Fenced(rows[s].source))
Uses == {<<"spent", k>> : k \in Spent} \cup {<<"row", s>> : s \in {t \in Slots : Staked(t)}}
           \cup {<<"evicted", e>> : e \in evicted}
UsesFit == Retiring => IsFiniteSet(Uses) /\ Cardinality(Uses) <= 2 * RowCapacity

FramesInv == ConserveInv /\ LeaseInv /\ ClaimsWait /\ EvictedFit /\ SourceForgotten /\ UsesFit

LEMMA Onto ==
  ASSUME NEW S, NEW T, NEW f, IsFiniteSet(S), \A t \in T : \E u \in S : f[u] = t
  PROVE  IsFiniteSet(T) /\ Cardinality(T) <= Cardinality(S)
<1> DEFINE g == [u \in S |-> f[u]]
           I == {f[u] : u \in S}
<1>1. g \in Surjection(S, I)
  BY DEF Surjection
<1>2. /\ IsFiniteSet(I) /\ Cardinality(I) <= Cardinality(S)
      /\ Cardinality(I) \in Nat /\ Cardinality(S) \in Nat
  <2> HIDE DEF g, I
  <2>1. IsFiniteSet(I) /\ Cardinality(I) <= Cardinality(S)
    BY <1>1, FS_Surjection
  <2> QED BY <2>1, FS_CardinalityType
<1>3. T \subseteq I
  OBVIOUS
<1> HIDE DEF g, I
<1>4. IsFiniteSet(T) /\ Cardinality(T) <= Cardinality(I) /\ Cardinality(T) \in Nat
  BY <1>2, <1>3, FS_Subset, FS_CardinalityType
<1> QED BY <1>2, <1>4

(* A cascade that found nothing yet has as many uses as places at most.     *)
LEMMA FreshFits == EvictedFit /\ cascade.visited \subseteq {cascade.root} => UsesFit
<1> SUFFICES ASSUME EvictedFit, cascade.visited \subseteq {cascade.root} PROVE UsesFit
  OBVIOUS
<1>1. IsFiniteSet(Slots) /\ Cardinality(Slots) = RowCapacity
  BY HostAssumption, FS_Interval DEF Slots
<1>2. IsFiniteSet(evicted) /\ Cardinality(evicted) <= RowCapacity /\ Cardinality(evicted) \in Nat
  BY FS_CardinalityType DEF EvictedFit
<1> DEFINE E == {<<"evicted", e>> : e \in evicted}
           tag == [e \in evicted |-> <<"evicted", e>>]
           U == {<<"row", s>> : s \in {t \in Slots : Staked(t)}}
           mark == [s \in Slots |-> <<"row", s>>]
<1>3. IsFiniteSet(E) /\ Cardinality(E) <= Cardinality(evicted)
  <2>1. \A t \in E : \E u \in evicted : tag[u] = t
    OBVIOUS
  <2> HIDE DEF E, tag
  <2> QED BY <1>2, <2>1, Onto
<1>4. IsFiniteSet(U) /\ Cardinality(U) <= Cardinality(Slots)
  <2>1. \A t \in U : \E u \in Slots : mark[u] = t
    OBVIOUS
  <2> HIDE DEF U, mark
  <2> QED BY <1>1, <2>1, Onto
<1>5. Uses = U \cup E
  BY DEF Uses, Spent
<1> HIDE DEF E, U
<1>6. IsFiniteSet(U \cup E) /\ Cardinality(U \cup E) <= Cardinality(U) + Cardinality(E)
  <2>1. Cardinality(U \cap E) \in Nat /\ Cardinality(U) \in Nat /\ Cardinality(E) \in Nat
    <3>1. IsFiniteSet(U \cap E)
      BY <1>3, FS_Subset
    <3> QED BY <1>3, <1>4, <3>1, FS_CardinalityType
  <2>2. /\ IsFiniteSet(U \cup E)
        /\ Cardinality(U \cup E) = Cardinality(U) + Cardinality(E) - Cardinality(U \cap E)
    BY <1>3, <1>4, FS_Union
  <2> QED BY <2>1, <2>2
<1>7. Cardinality(U) \in Nat /\ Cardinality(E) \in Nat /\ Cardinality(U \cup E) \in Nat
  BY <1>3, <1>4, <1>6, FS_CardinalityType
<1> QED BY <1>1, <1>2, <1>3, <1>4, <1>5, <1>6, <1>7, HostAssumption DEF UsesFit

(* A record to descend into is still in the table. *)
LEMMA ListedHosted ==
  ASSUME ConserveInv, Retiring, NEW k \in cascade.todo[cascade.at] \ cascade.visited
  PROVE  k \in Keys /\ Hosted(k)
<1>1. Inv /\ cascade.at \in Keys
  BY Parts, FrameIsRecord
<1>2. k \in Keys /\ FoundBy(k, cascade.at)
  BY <1>1 DEF Inv, TypeOK, Cascade, FoundBy
<1>3. Hosted(k)
  <2>1. k \in live
    BY <1>1, <1>2, Parts DEF TodoLive
  <2>2. ~Root(k)
    BY <1>1, <1>2, Parts DEF FoundApart
  <2>3. Doomed(k)
    BY <1>1, <1>2, FoundDoomed
  <2>4. ~Serviced(k)
    BY <1>1, <1>2, <2>3, Parts DEF ServiceApart
  <2>5. \A c \in Sessions : ~Owner(c, k)
    BY <1>1, <1>2, <2>3, Parts, FoundDoomed DEF OwnersApart
  <2> QED BY <1>1, <2>1, <2>2, <2>4, <2>5, Parts DEF Covered
<1> QED BY <1>2, <1>3

(* A record to descend into is still in the table, so there is a frame.     *)
LEMMA UsesCover ==
  ASSUME FramesInv, 2 * RowCapacity + 1 <= CascadeCapacity
  PROVE  FramesSuffice
<1> SUFFICES ASSUME cascade.step = "children", NEW k \in cascade.todo[cascade.at] \ cascade.visited
             PROVE  Cardinality(cascade.visited) < CascadeCapacity
  BY DEF FramesSuffice
<1>1. /\ ConserveInv /\ Inv /\ Retiring /\ IsFiniteSet(Uses) /\ Cardinality(Uses) <= 2 * RowCapacity
      /\ cascade.at \in Keys /\ cascade.root \in cascade.visited /\ cascade.visited \subseteq Keys
  BY Parts, FrameIsRecord DEF FramesInv, UsesFit, Retiring, Inv, FramesOK, TypeOK, Cascade
<1>2. k \in Keys
  BY <1>1, ListedHosted
<1>3. Hosted(k)
  BY <1>1, ListedHosted
<1> DEFINE W == (cascade.visited \ {cascade.root}) \cup {k}
           f == [u \in Uses |-> IF u[1] = "row" THEN rows[u[2]].host
                                ELSE IF u[1] = "evicted" THEN u[2].host ELSE u[2]]
<1>4. ASSUME NEW i \in W PROVE \E u \in Uses : f[u] = i
  <2>0. i \in Keys
    BY <1>1, <1>2
  <2>1. CASE Hosted(i)
    <3>1. CASE \E s \in Slots : rows[s].host = i
      <4>1. PICK s \in Slots : rows[s].host = i
        BY <3>1
      <4>2. Staked(s)
        BY <2>0, <4>1 DEF Staked, Filled, Keys
      <4>3. <<"row", s>> \in Uses
        BY <4>2 DEF Uses
      <4>4. f[<<"row", s>>] = i
        BY <4>1, <4>3
      <4> QED BY <4>3, <4>4
    <3>2. CASE \E e \in evicted : e.host = i
      <4>1. PICK e \in evicted : e.host = i
        BY <3>2
      <4>2. <<"evicted", e>> \in Uses
        BY DEF Uses
      <4>3. f[<<"evicted", e>>] = i
        BY <4>1, <4>2
      <4> QED BY <4>2, <4>3
    <3> QED BY <2>1, <3>1, <3>2 DEF Hosted
  <2>2. CASE ~Hosted(i)
    <3>1. <<"spent", i>> \in Uses
      BY <1>3, <2>2 DEF Uses, Spent
    <3>2. f[<<"spent", i>>] = i
      BY <3>1
    <3> QED BY <3>1, <3>2
  <2> QED BY <2>1, <2>2
<1> HIDE DEF f
<1>5. IsFiniteSet(W) /\ Cardinality(W) <= Cardinality(Uses)
  <2> HIDE DEF W
  <2> QED BY <1>1, <1>4, Onto
<1>6. PICK V : V = cascade.visited
  OBVIOUS
<1>7. IsFiniteSet(V)
  <2>1. IsFiniteSet(Keys)
    BY RecordsAssumption, FS_Interval DEF Keys
  <2> QED BY <1>1, <1>6, <2>1, FS_Subset
<1>8. /\ IsFiniteSet(V \ {cascade.root}) /\ Cardinality(V \ {cascade.root}) = Cardinality(V) - 1
      /\ Cardinality(V) \in Nat
  BY <1>1, <1>6, <1>7, FS_RemoveElement, FS_CardinalityType
<1>9. Cardinality(W) = Cardinality(V \ {cascade.root}) + 1
  BY <1>6, <1>8, FS_AddElement
<1>10. Cardinality(Uses) \in Nat
  BY <1>1, FS_CardinalityType
<1> QED
  BY <1>1, <1>5, <1>6, <1>8, <1>9, <1>10, HostAssumption, RetirementAssumption

(* What a critical section beside a cascade leaves of the table: it takes   *)
(* hosts and claims away and gives none, but for the store of a host.       *)
Loses(s) ==
    /\ Occupied(s)' => Occupied(s) /\ rows'[s].source = rows[s].source
    /\ rows'[s].host # NoKey => rows'[s].host = rows[s].host
Losing == evicted' \subseteq evicted /\ \A s \in Slots : Loses(s)

LEMMA ClearLoses ==
  ASSUME NEW S, ClearRows(S)
  PROVE  \A s \in Slots : Loses(s)
BY DEF ClearRows, Loses, FreeRow, Occupied

LEMMA TableLoses ==
  ASSUME Callers = {}, ConserveInv, ClaimsWait, Next, Retiring
  PROVE  \/ ServiceStore
         \/ CascadeNext /\ Losing
         \/ cascade' = cascade /\ fences' = fences /\ Losing
<1> USE DEF Losing
<1>1. Inv /\ LockOwned /\ HostTypeOK /\ lock # Nobody
  BY Parts DEF LockOwned
<1>2. ~EventBegins /\ ~EventSteps /\ ~DrainRoot
  <2>1. ~EventBegins
    BY <1>1 DEF EventBegins, Open, Close, Hello, Allocate, Join, Poll, Report, Identify, Shutdown, Begins
  <2>2. ~EventSteps
    BY DEF EventSteps, ShutdownSession, ShutdownDone, Retired, AllocateCommit, AllocateReject,
           JoinDirect, JoinLease, JoinRefused, JoinPublish, JoinDiscard, Deferred, IdentityClaim,
           ReportOwned, ReportBorrowed, ReportStale, ReportHeld, ReportAcquire, ReportLost,
           ReportCommit, ReportDiscard, EventRelease, EventReleased, Tail, EventDrained, InEvent
  <2> QED BY <2>1, <2>2 DEF DrainRoot
<1>3. ASSUME NEW a \in Claimants PROVE ~ClaimSteps(a)
  BY <1>1 DEF ClaimSteps, ClaimTake, ClaimRecheck, ClaimDrop, ClaimPublish, ClaimClear, ClaimStep,
              Claimants, ClaimsWait, Inv, ClaimOK
<1>4. ASSUME UNCHANGED <<rows, evicted>> PROVE Losing
  BY <1>4 DEF Loses, Occupied
<1>5. CASE CascadeNext
  <2>1. ASSUME CascadeBegin \/ CascadeChild \/ CascadeRetire \/ CascadeFinish PROVE Losing
    BY <1>4, <2>1 DEF CascadeBegin, CascadeChild, CascadeRetire, CascadeFinish, FenceSource,
                      FinishSource, hostVars
  <2>2. ASSUME CascadeDerived PROVE Losing
    BY <2>2, ClearLoses DEF CascadeDerived, CommitDerived
  <2>3. ASSUME CascadeSource PROVE Losing
    BY <2>3, ClearLoses DEF CascadeSource, CommitSource
  <2> QED BY <1>5, <2>1, <2>2, <2>3 DEF CascadeNext
<1>6. CASE ServiceBegins
  <2>1. CASE Slice \/ \E g \in Groups : Lookup(g)
    BY <1>4, <2>1 DEF Slice, Lookup, bapVars, hostVars
  <2>2. CASE Reset
    BY <2>2, ClearLoses DEF Reset, ResetRows, bapVars
  <2>3. ASSUME NEW g \in Groups, NEW m \in Groups, Alias(g, m)
        PROVE  cascade' = cascade /\ fences' = fences /\ Losing
    <3>1. PICK s \in Slots : rows' = [rows EXCEPT ![s].alias = m]
      BY <2>3 DEF Alias, AliasRow, LastOf, Named
    <3>2. \A t \in Slots : Loses(t)
      BY <1>1, <3>1 DEF Loses, Occupied, HostTypeOK, Row
    <3> QED BY <2>3, <3>2 DEF Alias, AliasRow, bapVars
  <2> QED BY <1>6, <2>1, <2>2, <2>3 DEF ServiceBegins
<1>7. CASE ServiceSteps
  <2>1. CASE ServiceTake
    BY <2>1 DEF ServiceTake, TakeFreeable, bapVars, Loses, Occupied
  <2>2. CASE ServiceDrop
    BY <2>2, ClearLoses DEF ServiceDrop, DropStaleClaim, bapVars
  <2>3. CASE LookupClear
    <3>1. \A s \in Slots : Loses(s)
      BY <1>1, <2>3 DEF LookupClear, ClearStaleHost, Loses, Occupied, HostTypeOK, Row
    <3> QED BY <2>3, <3>1 DEF LookupClear, ClearStaleHost, bapVars
  <2>4. CASE ServiceFreed \/ ServicePick \/ ServiceInherit \/ ServicePrepare \/ ServiceCommit
             \/ ServiceReject \/ LookupCheck
    BY <1>4, <2>4 DEF ServiceFreed, ServicePick, ServiceInherit, ServicePrepare, ServiceCommit,
                      ServiceReject, LookupCheck, bapVars, hostVars
  <2>5. ~ServiceRetire /\ ~ServiceUnlock
    BY <1>1 DEF ServiceRetire, ServiceUnlock
  <2> QED BY <1>7, <2>1, <2>2, <2>3, <2>4, <2>5 DEF ServiceSteps
<1>8. CASE Revise
  BY <1>4, <1>8 DEF Revise, bapVars, hostVars
<1> QED BY <1>2, <1>3, <1>5, <1>6, <1>7, <1>8 DEF Next

(* A use that goes pays for the record it gave: the records found in places *)
(* that go are no more than the places.                                     *)
LEMMA UsesShrink ==
  ASSUME UsesFit, Retiring, evicted' \subseteq evicted,
         \A s \in Slots : Staked(s)' => Staked(s),
         \A k \in Spent' : \/ k \in Spent
                           \/ \E s \in Slots : rows[s].host = k /\ Staked(s) /\ ~Staked(s)'
                           \/ \E e \in evicted \ evicted' : e.host = k
  PROVE  UsesFit'
<1>1. PICK T : T = Uses'
  OBVIOUS
<1> DEFINE Host(u) == IF u[1] = "row" THEN rows[u[2]].host ELSE u[2].host
           f == [u \in Uses |-> IF u \in T THEN u ELSE <<"spent", Host(u)>>]
<1>2. \A s \in Slots : <<"row", s>> \in T <=> Staked(s)'
  BY <1>1 DEF Uses
<1>3. \A e : <<"evicted", e>> \in T <=> e \in evicted'
  BY <1>1 DEF Uses
<1>4. ASSUME NEW t \in T PROVE \E u \in Uses : f[u] = t
  <2>1. CASE t \in Uses
    BY <2>1
  <2>2. CASE t \notin Uses
    <3>1. PICK k \in Spent' : t = <<"spent", k>>
      BY <1>1, <2>2 DEF Uses
    <3>2. k \notin Spent
      BY <2>2, <3>1 DEF Uses
    <3>3. CASE \E s \in Slots : rows[s].host = k /\ Staked(s) /\ ~Staked(s)'
      <4>1. PICK s \in Slots : rows[s].host = k /\ Staked(s) /\ ~Staked(s)'
        BY <3>3
      <4>2. <<"row", s>> \in Uses /\ <<"row", s>> \notin T
        BY <1>2, <4>1 DEF Uses
      <4>3. f[<<"row", s>>] = t
        BY <3>1, <4>1, <4>2
      <4> QED BY <4>2, <4>3
    <3>4. CASE \E e \in evicted \ evicted' : e.host = k
      <4>1. PICK e \in evicted \ evicted' : e.host = k
        BY <3>4
      <4>2. <<"evicted", e>> \in Uses /\ <<"evicted", e>> \notin T
        BY <1>3, <4>1 DEF Uses
      <4>3. f[<<"evicted", e>>] = t
        BY <3>1, <4>1, <4>2
      <4> QED BY <4>2, <4>3
    <3> QED BY <3>2, <3>3, <3>4
  <2> QED BY <2>1, <2>2
<1> HIDE DEF f
<1>5. PICK S : S = Uses
  OBVIOUS
<1>6. IsFiniteSet(S) /\ Cardinality(S) <= 2 * RowCapacity
  BY <1>5 DEF UsesFit
<1>7. IsFiniteSet(T) /\ Cardinality(T) <= Cardinality(S)
  BY <1>4, <1>5, <1>6, Onto
<1>8. Cardinality(T) \in Nat /\ Cardinality(S) \in Nat
  BY <1>6, <1>7, FS_CardinalityType
<1> QED BY <1>1, <1>6, <1>7, <1>8, HostAssumption DEF UsesFit

LEMMA ClaimsStillWait ==
  ASSUME ConserveInv, ClaimsWait, Next
  PROVE  ClaimsWait'
<1>1. Inv /\ LockOwned /\ ev \in Event
  BY Parts DEF Inv, TypeOK
<1>2. CASE ev' = ev /\ cascade' = cascade
  BY <1>2 DEF ClaimsWait, Retiring
<1>3. CASE EventBegins
  BY <1>3 DEF EventBegins, Open, Close, Hello, Allocate, Join, Poll, Report, Identify, Shutdown, Frame,
              Detach, NoEvent, ClaimsWait
<1>4. CASE EventSteps
  <2>1. CASE IdentityClaim \/ ReportOwned \/ ReportBorrowed
    BY <2>1 DEF IdentityClaim, ReportOwned, ReportBorrowed, InEvent, bapVars, ClaimsWait, Retiring
  <2>2. CASE ~(IdentityClaim \/ ReportOwned \/ ReportBorrowed)
    <3>1. ev.pc # "claiming" /\ ev.next # "claiming"
      BY <1>1, <1>4, <2>2
         DEF EventSteps, ShutdownSession, ShutdownDone, Retired, AllocateCommit, AllocateReject,
             JoinDirect, JoinLease, JoinRefused, JoinPublish, JoinDiscard, Deferred,
             ReportStale, ReportHeld, ReportAcquire, ReportLost, ReportCommit, ReportDiscard,
             EventRelease, EventReleased, Tail, EventDrained, InEvent, Event
    <3>2. ev'.pc # "claiming"
      <4>1. CASE ShutdownSession \/ ShutdownDone \/ Retired \/ AllocateCommit \/ AllocateReject
                 \/ JoinDirect \/ JoinLease \/ JoinRefused \/ JoinPublish \/ JoinDiscard
        BY <1>1, <3>1, <4>1
           DEF ShutdownSession, ShutdownDone, Retired, AllocateCommit, AllocateReject, JoinDirect,
               JoinLease, JoinRefused, JoinPublish, JoinDiscard, Event
      <4>2. CASE (\E g \in Groups : Deferred(g)) \/ ReportStale \/ ReportLost \/ ReportCommit
                 \/ ReportDiscard \/ EventRelease \/ EventReleased
        BY <1>1, <3>1, <4>2
           DEF Deferred, ReportStale, ReportLost, ReportCommit, ReportDiscard, EventRelease,
               EventReleased, Event
      <4>3. CASE ReportHeld \/ ReportAcquire
        <5>1. ASSUME ReportAcquire PROVE ev'.pc \in {"commit", "release"}
          BY <1>1, <5>1 DEF ReportAcquire, Event
        <5>2. ASSUME ReportHeld PROVE ev'.pc \in {"acquire", "release"}
          BY <1>1, <5>2 DEF ReportHeld, Event
        <5> QED BY <4>3, <5>1, <5>2
      <4>4. CASE Tail \/ EventDrained
        <5>1. ASSUME Tail PROVE ev'.pc = "drain"
          BY <5>1 DEF Tail, NoEvent
        <5>2. ASSUME EventDrained PROVE ev'.pc \in {"idle", ev.next}
          <6>1. ev' = NoEvent \/ ev' = [ev EXCEPT !.pc = ev.next, !.next = "none"]
            BY <5>2 DEF EventDrained
          <6>2. NoEvent.pc = "idle"
            BY DEF NoEvent
          <6>3. [ev EXCEPT !.pc = ev.next, !.next = "none"].pc = ev.next
            BY <1>1 DEF Event
          <6> QED BY <6>1, <6>2, <6>3
        <5> QED BY <3>1, <4>4, <5>1, <5>2
      <4> QED BY <1>4, <2>2, <4>1, <4>2, <4>3, <4>4 DEF EventSteps
    <3> QED BY <3>2 DEF ClaimsWait
  <2> QED BY <2>1, <2>2
<1>5. ASSUME NEW a \in Claimants, ClaimSteps(a) PROVE ClaimsWait'
  <2>1. cascade' = cascade
    BY <1>5 DEF ClaimSteps, ClaimTake, ClaimRecheck, ClaimDrop, ClaimPublish, ClaimClear, bapVars
  <2>2. ev' = ev \/ ev'.pc \in {"held", "commit"}
    BY <1>1, <1>5 DEF ClaimSteps, ClaimTake, ClaimRecheck, ClaimDrop, ClaimPublish, ClaimClear,
                      ClaimGoes, Answer, Event
  <2> QED BY <1>2, <2>1, <2>2 DEF ClaimsWait
<1>6. CASE DrainRoot \/ ServiceRetire
  <2>1. ev.pc # "claiming" /\ ev' = ev
    BY <1>1, <1>6, RetirementAssumption
       DEF DrainRoot, ServiceRetire, actorVars, LockOwned, BapEvent, Nobody
  <2> QED BY <2>1 DEF ClaimsWait
<1>7. CASE CascadeNext
  <2>1. Retiring /\ ev' = ev
    BY <1>1, <1>7, FrameShape
  <2> QED BY <2>1 DEF ClaimsWait
<1>8. CASE Revise \/ ServiceBegins \/ (ServiceSteps /\ ~ServiceRetire)
           \/ \E a \in Callers : CallerClaim(a) \/ CallerLease(a) \/ CallerSteps(a)
  <2>1. ev' = ev /\ cascade' = cascade
    BY <1>8 DEF Revise, ServiceBegins, Slice, Reset, Lookup, Alias, ServiceSteps, ServiceTake,
                ServiceUnlock, ServiceFreed, ServicePick, ServiceInherit, ServiceDrop,
                ServicePrepare, ServiceCommit, ServiceReject, ServiceStore, LookupCheck,
                LookupClear, CallerClaim, CallerLease, CallerSteps, CallerRelease, CallerRetry,
                CallerDrained, bapVars, actorVars
  <2> QED BY <1>2, <2>1
<1> QED BY <1>3, <1>4, <1>5, <1>6, <1>7, <1>8 DEF Next

LEMMA EvictedStaysFit ==
  ASSUME Inv, EvictedFit, Next
  PROVE  EvictedFit'
<1>1. PICK E : E = evicted
  OBVIOUS
<1>2. IsFiniteSet(E) /\ Cardinality(E) <= RowCapacity /\ Cardinality(E) \in Nat /\ RowCapacity \in Nat
  BY <1>1, FS_CardinalityType, HostAssumption DEF EvictedFit
<1>3. ASSUME evicted' \subseteq evicted PROVE EvictedFit'
  <2>1. PICK F : F = evicted'
    OBVIOUS
  <2>2. IsFiniteSet(F) /\ Cardinality(F) <= Cardinality(E) /\ Cardinality(F) \in Nat
    BY <1>1, <1>2, <1>3, <2>1, FS_Subset, FS_CardinalityType
  <2> QED BY <1>2, <2>1, <2>2 DEF EvictedFit
<1>4. ASSUME NEW g, NEW k, ClaimRow(g, k) PROVE EvictedFit'
  <2>1. CASE ClaimEvicting(g, k)
    <3>1. Cardinality(E) < RowCapacity
      BY <1>1, <1>2, <2>1 DEF ClaimEvicting, ClaimRefused
    <3>2. evicted' = E \/ \E e : evicted' = E \cup {e}
      BY <1>1, <2>1 DEF ClaimEvicting
    <3>3. ASSUME NEW e, evicted' = E \cup {e} PROVE EvictedFit'
      <4>1. PICK F : F = E \cup {e}
        OBVIOUS
      <4>2. IsFiniteSet(F) /\ Cardinality(F) \in {Cardinality(E), Cardinality(E) + 1}
        BY <1>2, <4>1, FS_AddElement
      <4> QED BY <1>2, <3>1, <3>3, <4>1, <4>2 DEF EvictedFit
    <3> QED BY <1>1, <1>3, <3>2, <3>3
  <2> QED BY <1>3, <1>4, <2>1 DEF ClaimRow, ClaimRefuse, ClaimExisting, ClaimFree, hostVars
<1>5. CASE HostCalls
  <2>1. CASE \E g \in GroupOrNone, k \in KeyOrNone : ClaimRow(g, k)
    BY <1>4, <2>1
  <2>2. CASE ~\E g \in GroupOrNone, k \in KeyOrNone : ClaimRow(g, k)
    <3>1. evicted' = evicted
      BY <1>5, <2>2 DEF HostCalls, DropUnfilledClaim, DropStaleClaim, AliasRow, AcquireLease, ReleaseLease
    <3> QED BY <1>3, <3>1
  <2> QED BY <2>1, <2>2
<1>6. CASE HostKeeps /\ ~HostCalls
  <2>1. evicted' \subseteq evicted
    BY <1>6 DEF HostKeeps, TakeFreeable, ResetRows, CommitSource, CommitDerived
  <2> QED BY <1>3, <2>1
<1>7. CASE \/ UNCHANGED hostVars
           \/ \E g \in GroupOrNone, h, k \in KeyOrNone : ClearStaleHost(g, h, k)
           \/ CascadeBegin \/ CascadeFinish \/ ServiceStore
  <2>1. evicted' = evicted
    BY <1>7 DEF hostVars, ClearStaleHost, CascadeBegin, CascadeFinish, ServiceStore, FenceSource,
                FinishSource, StoreHost
  <2> QED BY <1>3, <2>1
<1> QED BY <1>5, <1>6, <1>7, TableMoves DEF HostMoves

(* How the walk goes on: it stays at its root, and what it visits next is a *)
(* record its innermost frame listed.                                       *)
LEMMA WalkGoes ==
  ASSUME Inv, CascadeNext, cascade' # NoCascade
  PROVE  /\ cascade'.root = cascade.root
         /\ \/ cascade'.visited = cascade.visited
            \/ /\ CascadeChild
               /\ \E i \in cascade.todo[cascade.at] : /\ i \notin cascade.visited
                                                      /\ cascade'.visited = cascade.visited \cup {i}
         /\ ~CascadeFinish => fences \subseteq fences'
<1>1. CASE CascadeChild
  BY <1>1, ChildShape, BlockedShape DEF SameWalk, hostVars, CascadeFinish
<1>2. CASE CascadeBegin
  BY <1>2, BeginShape, BlockedShape DEF SameWalk
<1>3. CASE CascadeDerived \/ CascadeSource \/ CascadeRetire \/ CascadeFinish
  BY <1>3, LaterShape DEF SameWalk, hostVars
<1> QED BY <1>1, <1>2, <1>3 DEF CascadeNext

(* The host is stored in a row that waits for it, behind no fence.          *)
LEMMA StoreTakes ==
  ASSUME Inv, Custodians, ServiceStore
  PROVE  /\ evicted' = evicted /\ fences' = fences /\ cascade' = cascade
         /\ \A s \in Slots :
               /\ rows'[s].source = rows[s].source /\ rows'[s].group = rows[s].group
               /\ \/ rows'[s].host = rows[s].host
                  \/ ~Filled(s) /\ Occupied(s) /\ ~Fenced(rows[s].source)
<1>1. sv.group \in Groups /\ HostTypeOK
  BY DEF Inv, TypeOK, ServiceStore, Custodians, ServiceNames
<1>2. /\ evicted' = evicted /\ fences' = fences /\ cascade' = cascade
      /\ rows' = [s \in Slots |-> IF s \in Storable(sv.group, sv.source)
                                  THEN [rows[s] EXCEPT !.host = sv.key] ELSE rows[s]]
  BY DEF ServiceStore, StoreHost, bapVars
<1>3. ASSUME NEW s \in Storable(sv.group, sv.source)
      PROVE  ~Filled(s) /\ Occupied(s) /\ ~Fenced(rows[s].source)
  BY <1>1, HostAssumption DEF Storable, Occupied
<1> QED BY <1>1, <1>2, <1>3 DEF HostTypeOK, Row

LEMMA SourceStaysForgotten ==
  ASSUME Callers = {}, FramesInv, Next
  PROVE  SourceForgotten'
<1>1. ConserveInv /\ Inv /\ Custodians /\ LeasesHold /\ FencesHold /\ cascade \in Cascade
  BY Parts DEF FramesInv, LeaseInv
<1>2. CASE ~Retiring
  <2>1. ~CascadeNext
    BY <1>1, <1>2, FrameShape
  <2> QED BY <1>1, <1>2, <2>1, StepsOutside, IdleShape DEF SourceForgotten, Retiring
<1>3. ASSUME Retiring, Losing, cascade'.at = cascade.at,
             cascade'.step \in {"retire", "finish"} => cascade.step \in {"retire", "finish"}
      PROVE  SourceForgotten'
  BY <1>3 DEF FramesInv, SourceForgotten, Losing, Loses
<1>4. CASE ServiceStore
  BY <1>1, <1>4, StoreTakes DEF FramesInv, SourceForgotten, Occupied
<1>5. ASSUME cascade'.step \notin {"retire", "finish"} PROVE SourceForgotten'
  BY <1>5 DEF SourceForgotten
<1>6. CASE CascadeNext /\ Losing
  <2>1. CASE CascadeSource
    <3>1. /\ Retiring /\ cascade.at \in cascade.visited /\ Fenced(cascade.at) /\ cascade.step = "children"
      BY <1>1, <2>1, FrameShape, LaterShape DEF FencesHold, CascadeNext
    <3>2. Quiet(cascade.at) /\ cascade'.at = cascade.at
      BY <1>1, <2>1, <3>1, LaterShape DEF FencesHold
    <3>3. ASSUME NEW s \in Slots, Occupied(s)', rows'[s].source = cascade.at PROVE FALSE
      <4>1. Occupied(s) /\ rows[s].source = cascade.at
        BY <1>6, <3>3 DEF Losing, Loses
      <4>2. rows[s].pins # 0
        BY <2>1, <3>3, <4>1 DEF CascadeSource, CommitSource, ClearRows, Occupied, FreeRow
      <4>3. Filled(s)
        BY <1>1, <4>2, PinnedHeld
      <4> QED BY <3>2, <4>1, <4>2, <4>3 DEF Quiet
    <3> QED BY <3>2, <3>3 DEF SourceForgotten
  <2>2. CASE CascadeBegin \/ CascadeChild
    <3>1. cascade'.step \notin {"retire", "finish"}
      BY <1>1, <2>2, BeginShape, ChildShape, BlockedShape, IdleShape
    <3> QED BY <1>5, <3>1
  <2>3. CASE CascadeDerived \/ CascadeFinish
    <3>1. cascade'.step \notin {"retire", "finish"}
      BY <1>1, <2>3, LaterShape, IdleShape
    <3> QED BY <1>5, <3>1
  <2>4. CASE CascadeRetire
    BY <1>1, <1>3, <1>6, <2>4, LaterShape DEF Retiring
  <2> QED BY <1>6, <2>1, <2>2, <2>3, <2>4 DEF CascadeNext
<1>7. CASE Retiring
  <2>1. ClaimsWait
    BY DEF FramesInv
  <2> QED BY <1>1, <1>3, <1>4, <1>6, <1>7, <2>1, TableLoses
<1> QED BY <1>2, <1>7

LEMMA UsesStayFit ==
  ASSUME Callers = {}, FramesInv, Next
  PROVE  UsesFit'
<1>1. /\ ConserveInv /\ Inv /\ Custodians /\ FramesUnder /\ FencesHold /\ cascade \in Cascade
      /\ ClaimsWait /\ UsesFit /\ SourceForgotten
  BY Parts DEF FramesInv
<1>2. EvictedFit'
  BY <1>1, EvictedStaysFit DEF FramesInv
<1>3. ASSUME ~Retiring' PROVE UsesFit'
  BY <1>3 DEF UsesFit
<1>4. CASE ~Retiring
  <2>1. ~CascadeNext
    BY <1>1, <1>4, FrameShape
  <2>2. cascade = NoCascade
    BY <1>1, <1>4, Parts DEF LockOwned
  <2>3. cascade' = NoCascade \/ \E r \in Keys : cascade' = Start(r)
    BY <1>1, <2>1, <2>2, StepsOutside
  <2>4. cascade'.visited \subseteq {cascade'.root}
    BY <2>3, IdleShape
  <2>5. (EvictedFit /\ cascade.visited \subseteq {cascade.root} => UsesFit)'
    BY FreshFits, PTL
  <2> QED BY <1>2, <2>4, <2>5
<1>5. CASE Retiring
  <2>1. ASSUME NEW k \in cascade.visited \ {cascade.root}, Hosted(k)
        PROVE  /\ k \in Keys
               /\ \E j \in Keys : Under(k, j) /\ Fenced(j)
    <3>1. k \in Keys /\ cascade.parent[k] \in KeyOrNone
      BY <1>1 DEF Cascade
    <3>2. Under(k, cascade.parent[k])
      BY <1>1, <3>1 DEF FramesUnder, FoundBy
    <3>3. Fenced(cascade.parent[k]) /\ fences \subseteq Keys
      BY <1>1, <2>1, <3>2, Parts DEF Under
    <3> QED BY <3>1, <3>2, <3>3 DEF Fenced
  <2>2. ASSUME Losing, cascade' # NoCascade,
               cascade'.root = cascade.root,
               \A k \in cascade'.visited \ cascade.visited : Hosted(k)',
               fences \subseteq fences' \/ (CascadeFinish /\ UNCHANGED <<rows, evicted>>)
        PROVE  UsesFit'
    <3>1. ASSUME NEW s \in Slots, Staked(s)' PROVE Staked(s)
      <4>1. CASE fences \subseteq fences'
        BY <2>2, <3>1, <4>1 DEF Losing, Loses, Staked, Filled, Fenced
      <4>2. CASE CascadeFinish /\ UNCHANGED <<rows, evicted>>
        <5>1. cascade.step = "finish" /\ fences' = fences \ {cascade.at}
          BY <4>2 DEF CascadeFinish, FinishSource
        <5> QED BY <1>1, <3>1, <4>2, <5>1 DEF SourceForgotten, Staked, Filled, Fenced, Occupied
      <4> QED BY <2>2, <4>1, <4>2
    <3>2. ASSUME NEW k \in Spent', k \notin Spent
          PROVE  \/ \E s \in Slots : rows[s].host = k /\ Staked(s) /\ ~Staked(s)'
                 \/ \E e \in evicted \ evicted' : e.host = k
      <4>1. k \in cascade.visited \ {cascade.root} /\ Hosted(k) /\ ~Hosted(k)'
        BY <2>2, <3>2 DEF Spent
      <4>2. PICK j \in Keys : Under(k, j) /\ Fenced(j)
        BY <2>1, <4>1
      <4>3. k \in Keys
        BY <2>1, <4>1
      <4>4. CASE \E e \in evicted : e.host = k
        BY <4>1, <4>4 DEF Hosted
      <4>5. ASSUME NEW s \in Slots, rows[s].host = k PROVE Staked(s) /\ ~Staked(s)'
        <5>1. Filled(s) /\ rows[s].source = j
          BY <4>2, <4>3, <4>5 DEF Under, Filled, Keys
        <5>2. rows'[s].host = NoKey
          BY <2>2, <4>1, <4>5 DEF Losing, Loses, Hosted
        <5>3. fences \subseteq fences'
          BY <2>2, <4>3, <4>5, <5>2 DEF Keys
        <5> QED BY <2>2, <4>2, <5>1, <5>2, <5>3 DEF Losing, Loses, Staked, Filled, Fenced
      <4> QED BY <4>1, <4>4, <4>5 DEF Hosted
    <3> QED BY <1>1, <1>5, <2>2, <3>1, <3>2, UsesShrink DEF Losing
  <2>3. CASE ServiceStore
    <3>1. /\ evicted' = evicted /\ fences' = fences /\ cascade' = cascade
          /\ \A s \in Slots :
               /\ rows'[s].source = rows[s].source /\ rows'[s].group = rows[s].group
               /\ \/ rows'[s].host = rows[s].host
                  \/ ~Filled(s) /\ Occupied(s) /\ ~Fenced(rows[s].source)
      BY <1>1, <2>3, StoreTakes
    <3>2. \A s \in Slots : Staked(s)' => Staked(s)
      BY <3>1 DEF Staked, Filled, Occupied, Fenced
    <3>3. ASSUME NEW k \in Spent' PROVE k \in Spent
      <4>1. k \in cascade.visited \ {cascade.root} /\ ~Hosted(k)' /\ k \in Keys
        BY <1>1, <3>1, <3>3 DEF Spent, Cascade
      <4>2. ~Hosted(k)
        BY <3>1, <4>1 DEF Hosted, Filled, Keys
      <4> QED BY <4>1, <4>2 DEF Spent
    <3> QED BY <1>1, <1>5, <3>1, <3>2, <3>3, UsesShrink
  <2>4. CASE cascade' = cascade /\ fences' = fences /\ Losing
    BY <1>5, <2>2, <2>4, IdleShape DEF Retiring
  <2>5. CASE CascadeNext /\ Losing
    <3>1. CASE cascade' = NoCascade
      BY <1>3, <3>1, IdleShape DEF Retiring
    <3>2. CASE cascade' # NoCascade
      <4>1. ASSUME NEW k \in cascade'.visited \ cascade.visited PROVE Hosted(k)'
        <5>1. CascadeChild /\ k \in cascade.todo[cascade.at]
          BY <1>1, <2>5, <3>2, <4>1, WalkGoes
        <5>2. Hosted(k) /\ UNCHANGED hostVars
          BY <1>1, <1>5, <4>1, <5>1, ListedHosted, ChildShape
        <5> QED BY <5>2 DEF Hosted, hostVars
      <4>2. fences \subseteq fences' \/ (CascadeFinish /\ UNCHANGED <<rows, evicted>>)
        BY <1>1, <2>5, <3>2, WalkGoes DEF CascadeFinish, FinishSource
      <4> QED BY <1>1, <2>2, <2>5, <3>2, <4>1, <4>2, WalkGoes
    <3> QED BY <3>1, <3>2
  <2> QED BY <1>1, <1>5, <2>3, <2>4, <2>5, TableLoses
<1> QED BY <1>4, <1>5

LEMMA InitFrames == Init => FramesInv
<1> SUFFICES ASSUME Init PROVE FramesInv
  OBVIOUS
<1>1. cascade = NoCascade /\ evicted = {} /\ ev.pc = "idle"
  BY DEF Init, HostInit, NoEvent
<1>2. ~Retiring
  BY <1>1, IdleShape DEF Retiring
<1> QED BY <1>1, <1>2, InitConserve, InitLeases, IdleShape, FS_EmptySet, HostAssumption
        DEF FramesInv, ClaimsWait, EvictedFit, SourceForgotten, UsesFit

LEMMA NextFrames == Callers = {} /\ FramesInv /\ [Next]_vars => FramesInv'
<1>1. ASSUME Callers = {}, FramesInv, Next PROVE FramesInv'
  <2>1. ConserveInv' /\ LeaseInv'
    BY <1>1, NextConserve, NextLeases DEF FramesInv
  <2>2. ClaimsWait' /\ EvictedFit'
    BY <1>1, ClaimsStillWait, EvictedStaysFit, Parts DEF FramesInv
  <2> QED BY <1>1, <2>1, <2>2, SourceStaysForgotten, UsesStayFit DEF FramesInv
<1>2. ASSUME FramesInv, UNCHANGED vars PROVE FramesInv'
  <2>1. ConserveInv' /\ LeaseInv'
    BY <1>2, NextConserve, NextLeases DEF FramesInv
  <2>2. UNCHANGED <<rows, evicted, fences, cascade, ev>>
    BY <1>2 DEF vars, hostVars, bapVars, actorVars
  <2> QED BY <1>2, <2>1, <2>2
          DEF FramesInv, ClaimsWait, EvictedFit, SourceForgotten, UsesFit, Uses, Spent, Staked,
              Hosted, Filled, Occupied, Fenced, Retiring
<1> QED BY <1>1, <1>2

(* A cascade of the product never gives up for lack of a frame, if there    *)
(* are as many as two tables have rows and one more: the records it visited *)
(* and that left the table gave up a place nobody takes while it runs       *)
(* (kActivityRetirementCascadeCapacity in bap/internal.h: eight rows, eight *)
(* evicted hosts and the source).                                           *)
THEOREM FramesAlwaysSuffice ==
    Callers = {} /\ 2 * RowCapacity + 1 <= CascadeCapacity => (Spec => []FramesSuffice)
<1> SUFFICES ASSUME Callers = {}, 2 * RowCapacity + 1 <= CascadeCapacity
             PROVE  Spec => []FramesSuffice
  OBVIOUS
<1>1. Init => FramesInv
  BY InitFrames
<1>2. FramesInv /\ [Next]_vars => FramesInv'
  BY NextFrames
<1>3. FramesInv => FramesSuffice
  BY UsesCover
<1> QED BY <1>1, <1>2, <1>3, PTL DEF Spec

(***************************************************************************)
(* The refinement                                                          *)
(***************************************************************************)
(* Each step moves one record at most from one custodian to the next, along *)
(* the arrows RecordCustody allows, but for the commit that creates a       *)
(* record in the place of the one it overwrites.                            *)

(* Who holds a record says where it is. *)
LEMMA WhoHolds ==
  ConserveInv =>
    \A k \in Keys :
       /\ k \notin live => CustodyOf(k) = IF k < nextKey THEN "retired" ELSE "unissued"
       /\ k \in live =>
             /\ k < nextKey
             /\ Root(k) => CustodyOf(k) = "retiring"
             /\ (\E c \in Sessions : Owner(c, k)) => CustodyOf(k) = "session"
             /\ Serviced(k) => CustodyOf(k) = "service"
             /\ Hosted(k) => CustodyOf(k) = "group"
             /\ \/ Root(k) \/ Hosted(k) \/ Serviced(k) \/ \E c \in Sessions : Owner(c, k)
<1> SUFFICES ASSUME ConserveInv, NEW k \in Keys
             PROVE  /\ k \notin live => CustodyOf(k) = IF k < nextKey THEN "retired" ELSE "unissued"
                    /\ k \in live =>
                          /\ k < nextKey
                          /\ Root(k) => CustodyOf(k) = "retiring"
                          /\ (\E c \in Sessions : Owner(c, k)) => CustodyOf(k) = "session"
                          /\ Serviced(k) => CustodyOf(k) = "service"
                          /\ Hosted(k) => CustodyOf(k) = "group"
                          /\ \/ Root(k) \/ Hosted(k) \/ Serviced(k)
                             \/ \E c \in Sessions : Owner(c, k)
  OBVIOUS
<1>1. /\ OwnersApart /\ ServiceApart /\ RootsUnhosted /\ Covered /\ IssuedInOrder /\ Inv
  BY Parts
<1>2. nextKey \in Nat /\ k \in Nat
  BY <1>1 DEF Inv, TypeOK, RecordsTypeOK, Keys
<1>3. CASE k \notin live
  BY <1>2, <1>3 DEF CustodyOf, Contains
<1>4. CASE k \in live
  <2>1. k < nextKey /\ ~(k >= nextKey)
    BY <1>1, <1>2, <1>4 DEF IssuedInOrder, Issued
  <2>2. /\ \A c \in Sessions : Owner(c, k) => ~Hosted(k) /\ ~Serviced(k) /\ ~Root(k)
        /\ Hosted(k) => ~Serviced(k) /\ ~Root(k)
        /\ Serviced(k) => ~Root(k)
    BY <1>1 DEF OwnersApart, Held, Doomed, Root, ServiceApart, RootsUnhosted
  <2> DEFINE A == k \in RetiringKeys
             B == k \in SessionKeys
             C == k \in ServiceKeys
             D == k \in GroupKeys
  <2>3. CustodyOf(k) = CASE k >= nextKey                -> "unissued"
                         [] k < nextKey /\ k \notin live -> "retired"
                         [] k \in live /\ A             -> "retiring"
                         [] k \in live /\ B             -> "session"
                         [] k \in live /\ C             -> "service"
                         [] k \in live /\ D             -> "group"
                         [] OTHER                      -> "lost"
    BY DEF CustodyOf, Contains
  <2>4. /\ A <=> Root(k)
        /\ B <=> \E c \in Sessions : Owner(c, k)
        /\ C <=> Serviced(k)
        /\ D <=> Hosted(k)
    BY CustodianNames
  <2>5. /\ A => ~B /\ ~C /\ ~D
        /\ B => ~C /\ ~D
        /\ C => ~D
    BY <2>2, <2>4
  <2> HIDE DEF A, B, C, D
  <2>6. /\ A => CustodyOf(k) = "retiring"
        /\ B => CustodyOf(k) = "session"
        /\ C => CustodyOf(k) = "service"
        /\ D => CustodyOf(k) = "group"
    BY <1>4, <2>1, <2>3, <2>5
  <2> QED BY <1>1, <1>4, <2>1, <2>4, <2>6 DEF Covered
<1> QED BY <1>3, <1>4

LEMMA WhoHoldsNext ==
  ConserveInv' =>
    (\A k \in Keys :
       /\ k \notin live => CustodyOf(k) = IF k < nextKey THEN "retired" ELSE "unissued"
       /\ k \in live =>
             /\ k < nextKey
             /\ Root(k) => CustodyOf(k) = "retiring"
             /\ (\E c \in Sessions : Owner(c, k)) => CustodyOf(k) = "session"
             /\ Serviced(k) => CustodyOf(k) = "service"
             /\ Hosted(k) => CustodyOf(k) = "group"
             /\ \/ Root(k) \/ Hosted(k) \/ Serviced(k) \/ \E c \in Sessions : Owner(c, k))'
BY WhoHolds, PTL

(* The allocator only moves at a commit. *)
LEMMA KeySteps ==
  ASSUME Next, ~AllocateCommit, ~ServiceCommit
  PROVE  nextKey' = nextKey
<1> USE DEF Planners, recordVars
<1>1. CASE EventBegins \/ EventSteps
  BY <1>1
     DEF EventBegins, Open, Close, Hello, Allocate, Join, Poll, Report, Identify, Shutdown,
         EventSteps, ShutdownSession, ShutdownDone, Retired, AllocateReject,
         JoinDirect, JoinLease, JoinRefused, JoinPublish, JoinDiscard, Deferred, IdentityClaim,
         ReportOwned, ReportBorrowed, ReportStale, ReportHeld, ReportAcquire, ReportLost,
         ReportCommit, ReportDiscard, EventRelease, EventReleased, Tail, EventDrained,
         PrepareSession, RejectSession, MutateRecord
<1>2. CASE ServiceBegins \/ ServiceSteps
  BY <1>2
     DEF ServiceBegins, ServiceSteps, Slice, Reset, Lookup, Alias, ServiceTake, ServiceRetire,
         ServiceUnlock, ServiceFreed, ServicePick, ServiceInherit, ServiceDrop, ServicePrepare,
         ServiceReject, ServiceStore, LookupCheck, LookupClear,
         PrepareSession, RejectSession
<1>3. ASSUME NEW a \in Claimants, ClaimSteps(a) PROVE nextKey' = nextKey
  BY <1>3 DEF ClaimSteps, ClaimTake, ClaimRecheck, ClaimDrop, ClaimPublish, ClaimClear
<1>4. ASSUME NEW a \in Callers, CallerClaim(a) \/ CallerLease(a) \/ CallerSteps(a)
      PROVE  nextKey' = nextKey
  BY <1>4 DEF CallerClaim, CallerLease, CallerSteps, CallerRelease, CallerRetry, CallerDrained
<1>5. CASE CascadeNext \/ DrainRoot \/ Revise
  BY <1>5 DEF CascadeNext, CascadeBegin, CascadeChild, CascadeDerived, CascadeSource, CascadeFinish,
              CascadeRetire, RetireExact, DrainRoot, Revise, AdvanceRevision
<1> QED BY <1>1, <1>2, <1>3, <1>4, <1>5 DEF Next

(* A live record changes hands only when its retirement starts, when the    *)
(* service thread takes it from the table, or stores it there.              *)
LEMMA HandsKept ==
  ASSUME ConserveInv, Next, NEW k \in Keys, k \in live, k \in live',
         Root(k) \/ cascade' # Start(k), ~Taken(k), ~(ServiceStore /\ Serviced(k))
  PROVE  CustodyOf(k)' = CustodyOf(k)
<1>1. /\ Inv /\ HostTypeOK /\ HostTypeOK' /\ Custodians /\ PlanOwned /\ LockOwned /\ FreedInHand
      /\ ServiceNames /\ ServiceApart /\ ConserveInv'
  <2>1. Inv'
    BY Parts, NextInv
  <2> QED BY <2>1, Parts, NextConserve DEF Inv, TypeOK
<1>2. CASE Root(k)
  <2>1. Root(k)'
    BY <1>2, RootsGo
  <2> QED BY <1>1, <1>2, <2>1, WhoHolds, WhoHoldsNext
<1>3. CASE ~Root(k)
  <2>1. ASSUME NEW c \in Sessions, Owner(c, k) PROVE CustodyOf(k)' = CustodyOf(k)
    <3>1. Owner(c, k)'
      BY <1>1, <1>3, <2>1, OwnersLeave
    <3> QED BY <1>1, <2>1, <3>1, WhoHolds, WhoHoldsNext
  <2>2. CASE Serviced(k)
    <3>1. Hosted(k)' => Hosted(k) \/ ServiceStore
      BY <1>1, TablePromises
    <3>2. Serviced(k)'
      BY <1>1, <1>3, <2>2, <3>1, ServedGoes DEF ServiceApart
    <3> QED BY <1>1, <2>2, <3>2, WhoHolds, WhoHoldsNext
  <2>3. CASE Hosted(k)
    <3>1. PICK j \in KeyOrNone : HostedUnder(k, j)
      BY <1>1, <2>3, HostedSomewhere
    <3>2. Hosted(k)'
      BY <3>1, HostsKept DEF HostedUnder, Hosted
    <3> QED BY <1>1, <2>3, <3>2, WhoHolds, WhoHoldsNext
  <2> QED BY <1>3, <2>1, <2>2, <2>3, WhoHolds
<1> QED BY <1>2, <1>3

LEMMA GoneStays ==
  ASSUME ConserveInv, Next, NEW k \in Keys, k \notin live, k \notin live', nextKey' = nextKey
  PROVE  CustodyOf(k)' = CustodyOf(k)
BY NextConserve, WhoHolds, WhoHoldsNext

(***************************************************************************)
(* The steps of the abstract specification                                 *)
(***************************************************************************)
Same(k) == CustodyOf(k)' = CustodyOf(k)
Step == Custody!Next \/ \A k \in Keys : Same(k)

(* What the records K pass to, if nobody else moves. *)
LEMMA Passes ==
  ASSUME NEW K \in SUBSET Keys, NEW to,
         \A k \in Keys : CustodyOf(k)' = IF k \in K THEN to ELSE CustodyOf(k)
  PROVE  Custody!Pass(K, to)
BY DEF Custody!Pass

LEMMA PassesOne ==
  ASSUME NEW i \in Keys, NEW to,
         CustodyOf(i)' = to, \A k \in Keys : k # i => Same(k)
  PROVE  Custody!Pass({i}, to)
<1>1. \A k \in Keys : CustodyOf(k)' = IF k \in {i} THEN to ELSE CustodyOf(k)
  BY DEF Same
<1> QED BY <1>1, Passes

(* Each step of a record that is one of the abstract specification's.       *)
LEMMA OneMoves ==
  ASSUME NEW i \in Keys, \A k \in Keys : k # i => Same(k),
         \/ CustodyOf(i) = "unissued" /\ CustodyOf(i)' \in {"session", "service"}
         \/ CustodyOf(i) = "service" /\ CustodyOf(i)' = "group"
         \/ CustodyOf(i) \in {"session", "service"} /\ CustodyOf(i)' = "retiring"
         \/ CustodyOf(i) \in {"retiring", "group"} /\ CustodyOf(i)' = "retired"
  PROVE  Custody!Next
<1>1. PICK was, to : was = CustodyOf(i) /\ to = CustodyOf(i)'
  OBVIOUS
<1>2. Custody!Pass({i}, to) /\ i \in Custody!Held(was)
  BY <1>1, PassesOne DEF Custody!Held
<1> QED
  BY <1>1, <1>2 DEF Custody!Next, Custody!AllocateOwned, Custody!AllocateHost, Custody!Advertise,
                    Custody!Abandon, Custody!Retire

(* The retirement of a record its cascade has not retired yet. *)
LEMMA RetireMoves ==
  ASSUME ConserveInv, Next, CascadeRetire
  PROVE  Step
<1>0. PICK i \in Keys : i = cascade.at
  BY Parts, FrameShape DEF CascadeNext
<1>1. /\ Inv /\ Inv' /\ OwnersApart /\ ServiceApart /\ cascade \in Cascade /\ i = cascade.at
      /\ i \in cascade.visited /\ ~ServiceStore /\ ~ServiceTake /\ ~Reset
      /\ nextKey \in Nat
  BY <1>0, Parts, NextInv, FrameShape DEF CascadeNext, Inv, TypeOK, RecordsTypeOK
<1>2. /\ nextKey' = nextKey /\ live' = live \ {i} /\ cascade'.step = "finish"
  BY <1>1 DEF CascadeRetire, RetireExact, Cascade
<1>3. ASSUME NEW k \in Keys, k # i PROVE Same(k)
  <2>1. cascade' # Start(k) /\ ~Taken(k)
    BY <1>1, <1>2, IdleShape DEF Taken
  <2> QED BY <1>1, <1>2, <1>3, <2>1, HandsKept, GoneStays DEF Same
<1>4. CASE i \notin live
  BY <1>1, <1>2, <1>3, <1>4, GoneStays DEF Step, Same
<1>5. CASE i \in live
  <2>1. Doomed(i)
    BY <1>1 DEF Doomed
  <2>2. CustodyOf(i) \in {"retiring", "group"} /\ i < nextKey
    <3>1. ~Serviced(i) /\ \A c \in Sessions : ~Owner(c, i)
      BY <1>1, <2>1 DEF OwnersApart, ServiceApart, Held
    <3> QED BY <1>1, <1>5, <3>1, WhoHolds
  <2>3. CustodyOf(i)' = "retired"
    BY <1>1, <1>2, <2>2, NextConserve, WhoHoldsNext
  <2> QED BY <1>1, <1>3, <2>2, <2>3, OneMoves DEF Step
<1> QED BY <1>4, <1>5

(* A retirement starts: of a root that is, or of one its custodian gives up. *)
LEMMA StartMoves ==
  ASSUME ConserveInv, Next, ~CascadeNext, NEW r \in Keys, cascade = NoCascade,
         cascade' = Start(r), GivesUp(r), live' = live, nextKey' = nextKey
  PROVE  Step
<1>1. /\ Inv /\ HandsLive /\ RootsLive /\ draining \subseteq Keys /\ ConserveInv'
      /\ sv \in ServiceCall
  BY Parts, NextConserve DEF Inv, TypeOK
<1>2. cascade' # NoCascade /\ \A k \in Keys : k # r => cascade' # Start(k)
  BY IdleShape
<1>3. ~ServiceTake /\ ~Reset /\ ~ServiceStore
  BY <1>2 DEF ServiceTake, Reset, ServiceStore, bapVars
<1>4. ASSUME NEW k \in Keys, k # r PROVE Same(k)
  BY <1>2, <1>3, <1>4, HandsKept, GoneStays DEF Same, Taken
<1>5. r \in live
  <2>1. CASE r \in draining
    BY <1>1, <2>1, IdleShape DEF RootsLive, Root
  <2>2. CASE Serviced(r) \/ \E c \in Sessions : Owner(c, r)
    BY <1>1, <2>2 DEF HandsLive
  <2> QED BY <2>1, <2>2 DEF GivesUp
<1>6. CustodyOf(r) \in {"retiring", "session", "service"}
  BY <1>5, WhoHolds DEF GivesUp, Root
<1>7. CustodyOf(r)' = "retiring"
  <2>1. Root(r)'
    BY IdleShape DEF Root
  <2> QED BY <1>1, <1>5, <2>1, WhoHoldsNext
<1>8. CASE CustodyOf(r) = "retiring"
  BY <1>4, <1>7, <1>8 DEF Step, Same
<1> QED BY <1>4, <1>6, <1>7, <1>8, OneMoves DEF Step

(* The service thread takes hosts out of the table. *)
LEMMA TakeMoves ==
  ASSUME ConserveInv, Next, ServiceTake \/ Reset
  PROVE  Step
<1>1. /\ Inv /\ PlaceInv /\ HostedLive /\ ConserveInv'
  BY Parts, NextConserve
<1>2. /\ live' = live /\ nextKey' = nextKey /\ cascade' = cascade
      /\ ~ServiceStore
  BY DEF ServiceTake, Reset, Serves, ServiceStore, recordVars, bapVars
<1> DEFINE K == {k \in live : Taken(k)}
<1>3. K \in SUBSET Keys
  BY <1>1 DEF Inv, TypeOK, RecordsTypeOK
<1>4. ASSUME NEW k \in K PROVE CustodyOf(k) = "group" /\ CustodyOf(k)' = "service"
  <2>1. Hosted(k) /\ Serviced(k)'
    BY <1>1, <1>3, TakenApart, TakenServiced
  <2> QED BY <1>1, <1>2, <1>3, <2>1, WhoHolds, WhoHoldsNext
<1>5. ASSUME NEW k \in Keys, k \notin K PROVE Same(k)
  <2>1. CASE k \notin live
    BY <1>2, <2>1, GoneStays DEF Same
  <2>2. CASE k \in live
    <3>1. Root(k) \/ cascade' # Start(k)
      BY <1>2, IdleShape DEF Root
    <3> QED BY <1>2, <1>5, <2>2, <3>1, HandsKept DEF Same
  <2> QED BY <2>1, <2>2
<1>6. Custody!Pass(K, "service")
  BY <1>3, <1>4, <1>5, Passes DEF Same
<1>7. K \in SUBSET Custody!Held("group")
  BY <1>3, <1>4 DEF Custody!Held
<1> QED BY <1>6, <1>7 DEF Step, Custody!Next, Custody!Withdraw

(* The service thread stores the host it has created, or keeps it to free.  *)
LEMMA StoreMoves ==
  ASSUME ConserveInv, Next, ServiceStore
  PROVE  Step
<1>1. /\ Inv /\ Inv' /\ ConserveInv' /\ FreedInHand /\ HandsLive /\ sv \in ServiceCall
      /\ ServiceNames /\ sv.key \in Keys
  BY Parts, NextInv, NextConserve DEF Inv, TypeOK, ServiceOK, ServiceStore
<1>2. /\ live' = live /\ nextKey' = nextKey /\ cascade' = cascade /\ sv.pc = "store"
      /\ ~ServiceTake /\ ~Reset
  BY DEF ServiceStore, ServiceTake, Reset, Serves, recordVars, bapVars
<1>3. Serviced(sv.key) /\ \A k \in Keys : Serviced(k) => k = sv.key
  BY <1>1, <1>2 DEF Serviced, FreedInHand
<1>4. ASSUME NEW k \in Keys, k # sv.key PROVE Same(k)
  <2>1. Root(k) \/ cascade' # Start(k)
    BY <1>2, IdleShape DEF Root
  <2> QED BY <1>2, <1>3, <1>4, <2>1, HandsKept, GoneStays DEF Same, Taken
<1>5. PICK i \in Keys : i = sv.key
  BY <1>1
<1>6. i \in live /\ CustodyOf(i) = "service"
  BY <1>1, <1>3, <1>5, WhoHolds DEF HandsLive
<1>7. Hosted(i)' \/ Serviced(i)'
  <2>1. ~ServiceRetire
    BY <1>2 DEF ServiceRetire
  <2> QED BY <1>1, <1>3, <1>5, <2>1, Parts, ServedGoes
<1>8. CustodyOf(i)' \in {"group", "service"}
  BY <1>1, <1>2, <1>6, <1>7, WhoHoldsNext
<1>9. CASE CustodyOf(i)' = "service"
  BY <1>4, <1>5, <1>6, <1>9 DEF Step, Same
<1> QED BY <1>4, <1>5, <1>6, <1>8, <1>9, OneMoves DEF Step

(* A host is created: the service thread has it in hand. *)
LEMMA HostMovesIn ==
  ASSUME ConserveInv, Next, ServiceCommit
  PROVE  Step
<1>1. /\ Inv /\ Inv' /\ PlanOwned /\ IssuedInOrder /\ ConserveInv' /\ sv \in ServiceCall
      /\ nextKey \in Nat /\ nextKey' \in Nat
  BY Parts, NextInv, NextConserve DEF Inv, TypeOK, RecordsTypeOK
<1>2. PICK i : i = plan[Service].key
  OBVIOUS
<1>3. /\ i = nextKey /\ i \in Keys /\ nextKey' = nextKey + 1
      /\ plan[Service].replaces = NoKey
  BY <1>1, <1>2, RecordsOrder
     DEF ServiceCommit, Planners, CommitSession, CanCommit, AllocationAvailable, Keys, PlanOwned,
         Inv, TypeOK, RecordsTypeOK
<1>4. /\ live' = live \cup {i} /\ cascade' = cascade /\ sv.pc = "commit" /\ sv'.pc = "store"
      /\ sv'.key = i /\ live \subseteq Keys
  BY <1>1, <1>2, <1>3 DEF ServiceCommit, CommitSession, bapVars, ServiceCall, Inv, TypeOK,
                          RecordsTypeOK, Keys
<1>5. ~ServiceTake /\ ~Reset /\ ~ServiceStore
  BY <1>4 DEF ServiceTake, Reset, Serves, ServiceStore
<1>6. ASSUME NEW k \in Keys, k # i PROVE Same(k)
  <2>1. Root(k) \/ cascade' # Start(k)
    BY <1>4, IdleShape DEF Root
  <2>2. CASE k \in live
    BY <1>4, <1>5, <1>6, <2>1, <2>2, HandsKept DEF Same, Taken
  <2>3. CASE k \notin live
    <3>1. (k < nextKey) <=> (k < nextKey')
      BY <1>1, <1>3, <1>6 DEF Keys
    <3> QED BY <1>1, <1>4, <1>6, <2>3, <3>1, WhoHolds, WhoHoldsNext DEF Same
  <2> QED BY <2>2, <2>3
<1>7. i \notin live
  BY <1>1, <1>3 DEF IssuedInOrder, Issued
<1>8. CustodyOf(i) = "unissued"
  BY <1>1, <1>3, <1>7, WhoHolds
<1>9. CustodyOf(i)' = "service"
  <2>1. Serviced(i)'
    BY <1>4 DEF Serviced
  <2> QED BY <1>1, <1>3, <1>4, <2>1, WhoHoldsNext
<1> QED BY <1>3, <1>6, <1>8, <1>9, OneMoves DEF Step

(* A connection's new record: it overwrites the one the connection owned.   *)
LEMMA OwnerMovesIn ==
  ASSUME ConserveInv, Next, AllocateCommit
  PROVE  Step
<1>1. /\ Inv /\ Inv' /\ PlanOwned /\ OwnersApart /\ IssuedInOrder /\ LockOwned /\ ConserveInv'
      /\ nextKey \in Nat /\ nextKey' \in Nat /\ sess \in [Sessions -> Session]
      /\ live \subseteq Keys
  BY Parts, NextInv, NextConserve DEF Inv, TypeOK, RecordsTypeOK
<1>2. PICK i, r : i = plan[BapEvent].key /\ r = plan[BapEvent].replaces
  OBVIOUS
<1>3. PICK c \in Sessions : c = ev.session
  BY <1>1, EventSession DEF AllocateCommit, InEvent, InSession
<1>4. i = nextKey /\ i \in Keys /\ nextKey' = nextKey + 1 /\ HasTarget(r)
  BY <1>1, <1>2, RecordsOrder
     DEF AllocateCommit, Planners, CommitSession, CanCommit, AllocationAvailable, Keys
<1>5. r = Owned(c)
  BY <1>1, <1>2, <1>3, <1>4 DEF PlanOwned, PlanFor, AllocateCommit, InEvent, Keys
<1>6. /\ live' = (live \ {r}) \cup {i} /\ sv' = sv
      /\ sess' = [sess EXCEPT ![c] = [phase |-> "authenticated", instance |-> i,
                                      owns |-> TRUE, source |-> i]]
      /\ cascade' = NoCascade
  <2>1. LeaseToRetire(c, i, FALSE, r) = NoKey
    BY <1>5 DEF LeaseToRetire, Owned
  <2> QED BY <1>2, <1>3, <2>1 DEF AllocateCommit, CommitSession, Start
<1>7. ~ServiceTake /\ ~Reset /\ ~ServiceStore
  BY <1>1, <1>4 DEF ServiceTake, Reset, ServiceStore, recordVars
<1>8. i \notin live /\ CustodyOf(i) = "unissued"
  <2>1. i \notin live
    BY <1>1, <1>4 DEF IssuedInOrder, Issued
  <2> QED BY <1>1, <1>4, <2>1, WhoHolds
<1>9. CustodyOf(i)' = "session"
  <2>1. Owner(c, i)'
    BY <1>1, <1>6 DEF Owner
  <2> QED BY <1>1, <1>4, <1>6, <2>1, WhoHoldsNext
<1>10. ASSUME NEW k \in Keys, k # i, k # r PROVE Same(k)
  <2>1. cascade' # Start(k)
    BY <1>6, IdleShape
  <2>2. CASE k \in live
    BY <1>6, <1>7, <1>10, <2>1, <2>2, HandsKept DEF Same, Taken
  <2>3. CASE k \notin live
    <3>1. (k < nextKey) <=> (k < nextKey')
      BY <1>1, <1>4, <1>10 DEF Keys
    <3> QED BY <1>1, <1>6, <1>10, <2>3, <3>1, WhoHolds, WhoHoldsNext DEF Same
  <2> QED BY <2>2, <2>3
<1>11. CASE r \notin Keys
  BY <1>4, <1>8, <1>9, <1>10, <1>11, OneMoves DEF Step
<1>12. CASE r \in Keys
  <2>1. Owner(c, r) /\ r \in live /\ r # i
    BY <1>4, <1>5, <1>8, <1>12, OwnedOwner DEF HasTarget, Keys
  <2>2. CustodyOf(r) = "session" /\ r < nextKey
    BY <1>12, <2>1, WhoHolds
  <2>3. CustodyOf(r)' = "retired"
    <3>1. r \notin live' /\ r < nextKey'
      BY <1>1, <1>4, <1>6, <1>12, <2>1, <2>2 DEF Keys
    <3> QED BY <1>1, <1>12, <3>1, WhoHoldsNext
  <2>4. Custody!ReplaceOwned
    <3>1. i \in Custody!Held("unissued") /\ r \in Custody!Held("session")
      BY <1>4, <1>8, <1>12, <2>2 DEF Custody!Held
    <3>2. \A k \in Keys : CustodyOf(k)' = IF k = r THEN "retired"
                                          ELSE IF k = i THEN "session" ELSE CustodyOf(k)
      BY <1>9, <1>10, <2>3 DEF Same
    <3> QED BY <2>1, <3>1, <3>2 DEF Custody!ReplaceOwned
  <2> QED BY <2>4 DEF Step, Custody!Next
<1> QED BY <1>11, <1>12

(* The rest of a cascade moves nobody's records: the hosts it has not       *)
(* retired stay in the table, and its root stays a root.                    *)
LEMMA CascadeStays ==
  ASSUME ConserveInv, Next, CascadeNext, ~CascadeRetire
  PROVE  Step
<1>1. /\ Inv /\ cascade.root \in cascade.visited /\ ~ServiceStore /\ ~ServiceTake /\ ~Reset
      /\ live' = live /\ sv' = sv /\ sess' = sess
  BY Parts, FrameShape
<1>2. nextKey' = nextKey
  <2>1. recordVars' = recordVars
    BY DEF CascadeNext, CascadeBegin, CascadeChild, CascadeDerived, CascadeSource, CascadeFinish
  <2> QED BY <2>1 DEF recordVars
<1>3. ASSUME NEW k \in Keys, cascade' = Start(k) PROVE Root(k)
  <2>1. cascade'.root = k /\ cascade' # NoCascade
    BY <1>3, IdleShape
  <2>2. cascade'.root = cascade.root
    BY <1>1, <2>1, BeginShape, ChildShape, LaterShape, BlockedShape DEF CascadeNext, SameWalk
  <2> QED BY <1>1, <2>1, <2>2 DEF Root
<1>4. ASSUME NEW k \in Keys PROVE Same(k)
  BY <1>1, <1>2, <1>3, HandsKept, GoneStays DEF Same, Taken
<1> QED BY <1>4 DEF Step

LEMMA NextCustody ==
  ASSUME ConserveInv, Next
  PROVE  Step
<1>1. CASE CascadeRetire \/ AllocateCommit \/ ServiceCommit \/ ServiceTake \/ Reset \/ ServiceStore
  BY <1>1, RetireMoves, OwnerMovesIn, HostMovesIn, TakeMoves, StoreMoves
<1>2. CASE /\ ~CascadeRetire /\ ~AllocateCommit /\ ~ServiceCommit
           /\ ~ServiceTake /\ ~Reset /\ ~ServiceStore
  <2>1. live' = live /\ nextKey' = nextKey
    BY <1>2, LiveSteps, KeySteps
  <2>2. CASE CascadeNext
    BY <1>2, <2>2, CascadeStays
  <2>3. CASE ~CascadeNext /\ cascade' = cascade
    <3>1. ASSUME NEW k \in Keys PROVE Same(k)
      <4>1. Root(k) \/ cascade' # Start(k)
        BY <2>3, IdleShape DEF Root
      <4> QED BY <1>2, <2>1, <4>1, HandsKept, GoneStays DEF Same, Taken
    <3> QED BY <3>1 DEF Step
  <2>4. CASE ~CascadeNext /\ cascade' # cascade
    <3>1. PICK r \in Keys : cascade = NoCascade /\ cascade' = Start(r) /\ GivesUp(r)
      BY <2>4, StepsOutside
    <3> QED BY <2>1, <2>4, <3>1, StartMoves
  <2> QED BY <2>2, <2>3, <2>4
<1> QED BY <1>1, <1>2

(* The threads implement the abstract custody of records: whatever they     *)
(* interleave, a record passes from one custodian to the next along the     *)
(* arrows of RecordCustody alone.                                           *)
THEOREM CustodyIsImplemented == Spec => ImplementsCustody
<1>1. Init => Custody!Init
  <2> SUFFICES ASSUME Init PROVE Custody!Init
    OBVIOUS
  <2>1. ConserveInv /\ live = {} /\ nextKey = 1
    BY InitConserve DEF Init, RecordsInit
  <2>2. \A k \in Keys : CustodyOf(k) = "unissued"
    BY <2>1, WhoHolds DEF Keys
  <2> QED BY <2>2 DEF Custody!Init
<1>2. ConserveInv /\ [Next]_vars => [Custody!Next]_([k \in Keys |-> CustodyOf(k)])
  <2>1. ASSUME ConserveInv, Next PROVE Custody!Next \/ UNCHANGED [k \in Keys |-> CustodyOf(k)]
    BY <2>1, NextCustody DEF Step, Same
  <2>2. ASSUME UNCHANGED vars PROVE UNCHANGED [k \in Keys |-> CustodyOf(k)]
    <3>1. ASSUME NEW k \in Keys PROVE CustodyOf(k)' = CustodyOf(k)
      BY <2>2 DEF vars, recordVars, hostVars, bapVars, actorVars, CustodyOf, Contains,
                  RetiringKeys, SessionKeys, ServiceKeys, GroupKeys
    <3> QED BY <3>1
  <2> QED BY <2>1, <2>2
<1> QED BY <1>1, <1>2, InitConserve, NextConserve, PTL DEF Spec, ImplementsCustody, Custody!Spec
=============================================================================
