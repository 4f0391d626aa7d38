--------------------------- MODULE ActivityRecords ---------------------------
(***************************************************************************)
(* The activity record table of State (state/activity).  A record is named *)
(* by an ActivityInstanceKey: a session id the allocator hands out once,   *)
(* in increasing order, and an incarnation that every fresh record starts  *)
(* at kFirstGeneration.  Because ids are never reused, the key is modelled *)
(* by its allocator counter.                                               *)
(*                                                                         *)
(* Every operation below is one critical section of g_stateLock.  A record *)
(* is created in two of them: a plan is prepared under the shared lock,    *)
(* and committed later under the exclusive lock only if the two revisions  *)
(* it captured still match.  Two threads prepare plans: the one running a  *)
(* BAP event and the gameplay service thread.                              *)
(***************************************************************************)
EXTENDS Integers, FiniteSets

CONSTANTS
    MaxSessionId,      \* kMaximumSessionId: the last id the allocator may use
    SessionCapacity    \* kSessionCapacity: records the fixed table can hold

ASSUME RecordsAssumption ==
    /\ MaxSessionId \in Nat \ {0}
    /\ SessionCapacity \in Nat \ {0}

VARIABLES
    live,      \* keys of the occupied records of g_state.activity.sessions
    nextKey,   \* nextSessionId; MaxSessionId + 1 stands for allocatorExhausted
    plan       \* plan[p]: the PendingAllocation thread p holds

recordVars == <<live, nextKey, plan>>

Keys == 1 .. MaxSessionId
NoKey == 0
KeyOrNone == Keys \cup {NoKey}

BapEvent == "bap event"
Service == "service"
Planners == {BapEvent, Service}

(* A plan names the id it will commit, the exact record it overwrites (or   *)
(* none), and whether both revisions it captured are still current.  NoKey *)
(* as its key is the cleared plan, which no commit accepts.                 *)
Plan == [key : KeyOrNone, replaces : KeyOrNone, current : BOOLEAN]
NoPlan == [key |-> NoKey, replaces |-> NoKey, current |-> FALSE]

RecordsInit ==
    /\ live = {}
    /\ nextKey = 1
    /\ plan = [p \in Planners |-> NoPlan]

(* contains: the exact record is committed and not retired. *)
Contains(k) == k \in live

AllocationAvailable == nextKey <= MaxSessionId

(* select_target: an exact replacement needs its own live record, anything *)
(* else an empty record; a live record is never an implicit victim.         *)
HasTarget(replaces) ==
    IF replaces = NoKey THEN Cardinality(live) < SessionCapacity
                        ELSE replaces \in live

(* Any committed mutation advances stateRevision past every other plan. *)
Outdated(plans) == [p \in Planners |-> [plans[p] EXCEPT !.current = FALSE]]

PrepareSession(p, replaces) ==
    /\ plan' = [plan EXCEPT ![p] =
                   IF AllocationAvailable /\ HasTarget(replaces)
                   THEN [key |-> nextKey, replaces |-> replaces, current |-> TRUE]
                   ELSE NoPlan]
    /\ UNCHANGED <<live, nextKey>>

CanCommit(p) ==
    /\ plan[p].key # NoKey
    /\ plan[p].current
    /\ AllocationAvailable
    /\ HasTarget(plan[p].replaces)

(* commit: the plan is consumed whether or not it is accepted. *)
CommitSession(p) ==
    /\ CanCommit(p)
    /\ live' = (live \ {plan[p].replaces}) \cup {plan[p].key}
    /\ nextKey' = nextKey + 1
    /\ plan' = Outdated([plan EXCEPT ![p] = NoPlan])

RejectSession(p) ==
    /\ ~CanCommit(p)
    /\ plan' = [plan EXCEPT ![p] = NoPlan]
    /\ UNCHANGED <<live, nextKey>>

(* retire_session_exact: alreadyRetired changes nothing, not even the       *)
(* revision.                                                                *)
RetireExact(k) ==
    /\ live' = live \ {k}
    /\ plan' = IF k \in live THEN Outdated(plan) ELSE plan
    /\ UNCHANGED nextKey

(* A transaction on a record that stays (membership, entity slots) advances *)
(* the revision only if it changes the record.                              *)
MutateRecord == plan' \in {plan, Outdated(plan)} /\ UNCHANGED <<live, nextKey>>

(* Any other State transaction that advances the revision.                  *)
AdvanceRevision ==
    /\ \E p \in Planners : plan[p].current
    /\ plan' = Outdated(plan)
    /\ UNCHANGED <<live, nextKey>>

RecordsTypeOK ==
    /\ live \subseteq Keys
    /\ nextKey \in 1 .. MaxSessionId + 1
    /\ plan \in [Planners -> Plan]
=============================================================================
