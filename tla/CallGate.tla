------------------------------ MODULE CallGate ------------------------------
(***************************************************************************)
(* The removal of a pair of hooks while game threads run in them: the call *)
(* gate (call_gate.h), the Detours transaction that suspends every thread  *)
(* of the process (detour_thread_transaction.cpp), protected removal       *)
(* (protected_detour_uninstall.cpp), and an owner that installs and        *)
(* removes two detours through them (teleport_lifecycle.cpp).              *)
(*                                                                         *)
(* A game thread that calls a patched function runs the replacement: it    *)
(* enters the gate, waits for the trampoline, calls the native function    *)
(* through it, and leaves the gate.  The camera replacement works after    *)
(* the native call, the physics one before it; the camera's work may call  *)
(* the physics trampoline itself (invoke_sync), inside the gate again.     *)
(*                                                                         *)
(* A frame is one activation of a replacement ("hook") or of invoke_sync   *)
(* ("direct") on a thread, and at[f] its place in that code.  A suspended  *)
(* thread takes no step.  Detours itself is external: an attach or detach  *)
(* happens as a whole while every enlisted thread is suspended.            *)
(***************************************************************************)
EXTENDS Integers, FiniteSets

CONSTANTS Threads,        \* game threads of the process, the owner's excluded
          MaxInstalls     \* bound: how often the hooks are attached

ASSUME CallGateAssumption == IsFiniteSet(Threads) /\ MaxInstalls \in Nat

VARIABLES live,           \* threads that exist
          suspended,      \* threads held by the open transaction
          pending,        \* threads of the snapshot being enlisted
          at,             \* place of each frame in its code
          hook,           \* the replacement each thread is in
          next,           \* the trampoline a frame has read, by installation
          active,         \* CallGate::activeCalls_
          accepting,      \* CallGate::accepting_
          patched,        \* the installation whose jumps are in the game, or 0
          installs,       \* installations attached so far
          original,       \* g_cameraOriginal, g_physicsOriginal; 0 is null
          targets,        \* publish_targets was called and clear_targets not
          installed,      \* g_installed
          owner,          \* where install or uninstall is
          job             \* which of the two it is

gate == <<active, accepting>>
calls == <<at, hook, next>>
slots == <<patched, installs, original, targets, installed>>
transaction == <<suspended, pending>>
vars == <<live, transaction, calls, gate, slots, owner, job>>

Hooks == {"camera", "physics"}
Frames == Threads \X {"hook", "direct"}
Hook(t) == <<t, "hook">>
Direct(t) == <<t, "direct">>

\* Between the fetch_add of enter and the fetch_sub of leave.
Counted == {"counted", "owned", "native", "returned", "working", "done"}
\* Inside a replacement or invoke_sync, and inside enter or leave, but not
\* counted: only the instruction pointer gives such a thread away.
InReplacement == {"arrived", "departing"}
InGate == {"entering", "left"}
Places == {"out"} \cup InReplacement \cup InGate \cup Counted

Owners == {"idle", "enlisting", "attaching", "publishing", "inspecting", "clearing"}

TypeOK ==
    /\ live \subseteq Threads /\ suspended \subseteq Threads /\ pending \subseteq Threads
    /\ at \in [Frames -> Places]
    /\ hook \in [Threads -> Hooks]
    /\ next \in [Frames -> 0..MaxInstalls]
    /\ active \in Nat /\ accepting \in BOOLEAN
    /\ patched \in 0..MaxInstalls /\ installs \in 0..MaxInstalls
    /\ original \in [Hooks -> 0..MaxInstalls]
    /\ targets \in BOOLEAN /\ installed \in BOOLEAN
    /\ owner \in Owners /\ job \in {"install", "uninstall"}

Init ==
    /\ live \in SUBSET Threads /\ suspended = {} /\ pending = {}
    /\ at = [f \in Frames |-> "out"]
    /\ hook = [t \in Threads |-> "camera"]
    /\ next = [f \in Frames |-> 0]
    /\ active = 0 /\ accepting = FALSE
    /\ patched = 0 /\ installs = 0 /\ original = [h \in Hooks |-> 0]
    /\ targets = FALSE /\ installed = FALSE
    /\ owner = "idle" /\ job = "install"

-----------------------------------------------------------------------------
(* Game threads *)

Runs(t) == t \in live /\ t \notin suspended

Create(t) ==
    /\ t \notin live
    /\ owner = "idle" \/ \E u \in Threads : Runs(u)
    /\ live' = live \cup {t}
    /\ UNCHANGED <<transaction, calls, gate, slots, owner, job>>

Exit(t) ==
    /\ Runs(t) /\ at[Hook(t)] = "out"
    /\ live' = live \ {t}
    /\ UNCHANGED <<transaction, calls, gate, slots, owner, job>>

\* One step of a frame from one place to another.
Move(f, from, to) ==
    /\ Runs(f[1])
    /\ at[f] \in from
    /\ at' = [at EXCEPT ![f] = to]
    /\ UNCHANGED <<live, transaction, slots, owner, job>>

\* The game calls a patched function and lands in the replacement.
Call(t, h) ==
    /\ patched # 0
    /\ Move(Hook(t), {"out"}, "arrived")
    /\ hook' = [hook EXCEPT ![t] = h]
    /\ UNCHANGED <<next, gate>>

\* The camera's work calls invoke_sync.
CallDirect(t) ==
    /\ at[Hook(t)] = "working" /\ hook[t] = "camera"
    /\ Move(Direct(t), {"out"}, "arrived")
    /\ UNCHANGED <<hook, next, gate>>

Enter(f) == Move(f, {"arrived"}, "entering") /\ UNCHANGED <<hook, next, gate>>

\* Fault: the call is not counted.
CountInLost(f) ==
    /\ Move(f, {"entering"}, "counted")
    /\ UNCHANGED <<hook, next, gate>>

\* fetch_add in call_gate_detail::enter.
CountIn(f) ==
    /\ Move(f, {"entering"}, "counted")
    /\ active' = active + 1
    /\ UNCHANGED <<hook, next, accepting>>

Slot(f) == IF f[2] = "direct" THEN "physics" ELSE hook[f[1]]

\* await_original; invoke_sync gives up before it when the gate is quiesced.
AwaitOriginal(f) ==
    /\ original[Slot(f)] # 0
    /\ Move(f, {"counted"}, "owned")
    /\ next' = [next EXCEPT ![f] = original[Slot(f)]]
    /\ f[2] = "direct" => accepting
    /\ UNCHANGED <<hook, gate>>

RefuseDirect(f) ==
    /\ f[2] = "direct" /\ ~accepting
    /\ Move(f, {"counted"}, "done")
    /\ UNCHANGED <<hook, next, gate>>

\* Whether the frame's replacement works on this side of its native call.
WorksAfter(f) == f[2] = "hook" /\ hook[f[1]] = "camera"
WorksBefore(f) == f[2] = "hook" /\ hook[f[1]] = "physics"

\* accepts_side_effects() is true: the replacement does Dawn's own work.
Work(f) ==
    /\ accepting
    /\ \/ WorksAfter(f) /\ Move(f, {"returned"}, "working")
       \/ WorksBefore(f) /\ Move(f, {"owned"}, "working")
    /\ UNCHANGED <<hook, next, gate>>

\* The call through the trampoline: at once, after the work of the physics
\* replacement, or instead of it.
Forward(f) ==
    /\ IF WorksBefore(f) THEN Move(f, IF accepting THEN {"working"} ELSE {"owned", "working"}, "native")
                         ELSE Move(f, {"owned"}, "native")
    /\ UNCHANGED <<hook, next, gate>>

Return(f) == Move(f, {"native"}, "returned") /\ UNCHANGED <<hook, next, gate>>

\* Everything the replacement does is done; its Scope is about to be destroyed.
Finish(f) ==
    /\ IF WorksAfter(f) THEN /\ at[Direct(f[1])] = "out"
                             /\ Move(f, IF accepting THEN {"working"} ELSE {"returned", "working"}, "done")
                        ELSE Move(f, {"returned"}, "done")
    /\ UNCHANGED <<hook, next, gate>>

\* fetch_sub in call_gate_detail::leave, and the two returns after it.
CountOut(f) ==
    /\ Move(f, {"done"}, "left")
    /\ active' = active - 1
    /\ UNCHANGED <<hook, next, accepting>>

Leave(f) == Move(f, {"left"}, "departing") /\ UNCHANGED <<hook, next, gate>>
ReturnToGame(f) == Move(f, {"departing"}, "out") /\ UNCHANGED <<hook, next, gate>>

FrameStep(f) ==
    \/ Enter(f) \/ CountIn(f) \/ AwaitOriginal(f) \/ RefuseDirect(f) \/ Work(f)
    \/ Forward(f) \/ Return(f) \/ Finish(f) \/ CountOut(f) \/ Leave(f) \/ ReturnToGame(f)

-----------------------------------------------------------------------------
(* The transaction *)

Outside == <<live, calls>>

\* transaction::abort, or a failed commit: the threads run again.
Abort ==
    /\ suspended' = {} /\ pending' = {}
    /\ owner' = "idle"
    /\ UNCHANGED <<Outside, gate, slots, job>>

\* Fault: one pass over the threads is enough.
SnapshotOnce ==
    /\ owner = "enlisting" /\ pending = {}
    /\ pending' = IF suspended = {} THEN live ELSE {}
    /\ owner' = IF pending' # {} THEN "enlisting"
                ELSE IF job = "install" THEN "attaching" ELSE "inspecting"
    /\ UNCHANGED <<Outside, gate, slots, suspended, job>>

\* One CreateToolhelp32Snapshot of the process.  A pass that finds no unseen
\* thread ends the enlistment.
Snapshot ==
    /\ owner = "enlisting" /\ pending = {}
    /\ pending' = live \ suspended
    /\ owner' = IF pending' # {} THEN "enlisting"
                ELSE IF job = "install" THEN "attaching" ELSE "inspecting"
    /\ UNCHANGED <<Outside, gate, slots, suspended, job>>

\* DetourUpdateThread of one thread of the snapshot, or a failure that ends
\* the transaction.  A thread that exited meanwhile is passed over.
Enlist ==
    /\ owner = "enlisting"
    /\ \E t \in pending :
         /\ pending' = pending \ {t}
         /\ suspended' = suspended \cup ({t} \cap live)
    /\ UNCHANGED <<Outside, gate, slots, owner, job>>

EnlistFails == owner = "enlisting" /\ Abort

-----------------------------------------------------------------------------
(* teleport install() and uninstall() *)

\* install() with no hook attached: quiesce, and open the transaction when
\* the signatures are found.
StartInstall ==
    /\ owner = "idle" /\ ~installed /\ installs < MaxInstalls
    /\ accepting' = FALSE
    /\ job' = "install" /\ owner' \in {"idle", "enlisting"}
    /\ UNCHANGED <<Outside, transaction, slots, active>>

\* Fault: install() gives up after the commit.
AttachUnpublished ==
    /\ owner = "attaching"
    /\ installs' = installs + 1 /\ patched' = installs + 1
    /\ suspended' = {} /\ owner' = "idle"
    /\ UNCHANGED <<Outside, gate, pending, original, targets, installed, job>>

\* DetourAttach of both and the commit, which resumes the threads.
Attach ==
    /\ owner = "attaching"
    /\ installs' = installs + 1 /\ patched' = installs + 1
    /\ suspended' = {} /\ owner' = "publishing"
    /\ UNCHANGED <<Outside, gate, pending, original, targets, installed, job>>

AttachFails == owner = "attaching" /\ Abort

\* publish_original of the camera's trampoline, then of the physics one's.
Publish(h) ==
    /\ owner = "publishing" /\ original[h] = 0
    /\ h = "physics" => original["camera"] # 0
    /\ original' = [original EXCEPT ![h] = patched]
    /\ UNCHANGED <<Outside, transaction, gate, patched, installs, targets, installed, owner, job>>

PublishTargets ==
    /\ owner = "publishing" /\ original["physics"] # 0 /\ ~targets
    /\ targets' = TRUE
    /\ UNCHANGED <<Outside, transaction, gate, patched, installs, original, installed, owner, job>>

\* Fault: the gate accepts before the targets are published.
AcceptEarly ==
    /\ owner = "publishing" /\ original["physics"] # 0
    /\ installed' = TRUE /\ accepting' = TRUE /\ owner' = "idle"
    /\ UNCHANGED <<Outside, transaction, active, patched, installs, original, targets, job>>

Accept ==
    /\ owner = "publishing" /\ targets
    /\ installed' = TRUE /\ accepting' = TRUE /\ owner' = "idle"
    /\ UNCHANGED <<Outside, transaction, active, patched, installs, original, targets, job>>

\* quiesce(), called alone or as the first step of uninstall().
StartUninstall ==
    /\ owner = "idle"
    /\ accepting' = FALSE
    /\ job' = "uninstall"
    /\ owner' \in IF installed THEN {"idle", "enlisting"} ELSE {"idle"}
    /\ UNCHANGED <<Outside, transaction, slots, active>>

\* The instruction pointer GetThreadContext reports: the innermost frame's.
Rip(t) == IF at[Direct(t)] # "out" THEN at[Direct(t)] ELSE at[Hook(t)]

\* protectedEntries: both replacements, invoke_sync, enter and leave.
Protected == InReplacement \cup InGate

\* Fault: calls in the native function are not looked for.
ClearOfPointers == \A t \in suspended : Rip(t) \notin Protected

\* Fault: only the replacements are protected, not enter and leave.
ClearOfReplacements == (\A t \in suspended : Rip(t) \notin InReplacement) /\ active = 0

\* inspect() and the idle check, both run while every thread is suspended.
Clear == (\A t \in suspended : Rip(t) \notin Protected) /\ active = 0

\* The hooks are in use, or a step of the transaction fails: they are kept,
\* quiesced.
Defer == owner = "inspecting" /\ Abort

Detach ==
    /\ owner = "inspecting" /\ Clear
    /\ patched' = 0
    /\ suspended' = {} /\ owner' = "clearing"
    /\ UNCHANGED <<Outside, gate, pending, installs, original, targets, installed, job>>

\* The stores after the removal, in their order.
ClearTargets ==
    /\ owner = "clearing" /\ targets
    /\ targets' = FALSE
    /\ UNCHANGED <<Outside, transaction, gate, patched, installs, original, installed, owner, job>>

ClearPhysics ==
    /\ owner = "clearing" /\ ~targets /\ original["physics"] # 0
    /\ original' = [original EXCEPT !["physics"] = 0]
    /\ UNCHANGED <<Outside, transaction, gate, patched, installs, targets, installed, owner, job>>

\* Fault: the camera's trampoline stays published after the removal.
ClearCameraKept ==
    /\ owner = "clearing" /\ ~targets /\ original["physics"] = 0
    /\ installed' = FALSE /\ owner' = "idle"
    /\ UNCHANGED <<Outside, transaction, gate, patched, installs, original, targets, job>>

ClearCamera ==
    /\ owner = "clearing" /\ ~targets /\ original["physics"] = 0
    /\ original' = [original EXCEPT !["camera"] = 0]
    /\ installed' = FALSE /\ owner' = "idle"
    /\ UNCHANGED <<Outside, transaction, gate, patched, installs, targets, job>>

OwnerStep ==
    \/ Snapshot \/ Enlist \/ EnlistFails
    \/ Attach \/ AttachFails \/ (\E h \in Hooks : Publish(h)) \/ PublishTargets \/ Accept
    \/ Defer \/ Detach \/ ClearTargets \/ ClearPhysics \/ ClearCamera

Next ==
    \/ \E t \in Threads :
         Create(t) \/ Exit(t) \/ CallDirect(t) \/ \E h \in Hooks : Call(t, h)
    \/ \E f \in Frames : FrameStep(f)
    \/ StartInstall \/ StartUninstall \/ OwnerStep

Spec == Init /\ [][Next]_vars

\* Every thread that is not suspended for good is scheduled, the native
\* functions return, and the owner's thread finishes what it began.
FairSpec ==
    /\ Spec
    /\ \A f \in Frames : SF_vars(FrameStep(f))
    /\ WF_vars(OwnerStep)

-----------------------------------------------------------------------------
(* Properties *)

\* When the jumps are out of the game no thread has a frame in a replacement
\* or in invoke_sync, so Dawn's image may be unloaded: uninstall() returns
\* removed only then.
NoCallWhenRemoved == patched = 0 => \A f \in Frames : at[f] = "out"

\* A call forwards through the trampoline of the installation that sent it
\* here, as long as it may still use it: from reading it to the return of
\* the native function.
TrampolineLive ==
    \A f \in Frames : at[f] \in {"owned", "native"} => next[f] = patched /\ patched # 0

\* Dawn's work in a replacement runs only between publish_targets and
\* clear_targets, whatever install and uninstall do meanwhile.
WorkHasTargets == \A f \in Frames : at[f] = "working" => targets /\ installed

\* A game thread that enters a replacement, even before install() has
\* published the trampoline, returns from it, provided that the process does
\* not create threads for ever while a transaction enlists them.
CallsReturn ==
    <>[][\A t \in Threads : ~Create(t)]_vars =>
        \A t \in Threads : at[Hook(t)] = "arrived" ~> at[Hook(t)] = "out"
=============================================================================
