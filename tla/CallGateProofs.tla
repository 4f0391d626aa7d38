--------------------------- MODULE CallGateProofs ----------------------------
(***************************************************************************)
(* Removal never takes the code from under a thread, for every number of   *)
(* game threads and of installations.                                      *)
(***************************************************************************)
EXTENDS CallGate, FiniteSetTheorems, TLAPS

Inside(a) == {f \in Frames : a[f] \in Counted}

\* The counter is the number of calls between its two updates.
CountIsExact == active = Cardinality(Inside(at))

\* invoke_sync runs inside the camera's counted work.
Nested == \A t \in Threads :
    at[Direct(t)] # "out" => at[Hook(t)] = "working" /\ hook[t] = "camera"

\* A thread that does not exist has no frame.
AbsentIdle == \A t \in Threads \ live : at[Hook(t)] = "out"

\* A stable snapshot holds every thread.
Enlisted == owner \in {"attaching", "inspecting"} => live \subseteq suspended

\* A frame keeps the current trampoline from reading it to its last use.
Holding == {"owned", "native", "returned", "working"}
TrampolineKept == \A f \in Frames : at[f] \in Holding => next[f] = patched /\ patched # 0

\* What the slots hold at each point of install() and uninstall().
Attached == patched # 0 /\ targets /\ \A h \in Hooks : original[h] = patched
Detached == patched = 0 /\ ~targets /\ \A h \in Hooks : original[h] = 0
Phase ==
    /\ installed /\ owner # "clearing" => Attached
    /\ ~installed /\ owner # "publishing" => Detached
    /\ owner = "publishing" => /\ patched # 0 /\ ~installed
                               /\ \A h \in Hooks : original[h] \in {0, patched}
                               /\ targets => \A h \in Hooks : original[h] = patched
    /\ owner = "publishing" /\ original["physics"] # 0 => original["camera"] # 0
    /\ owner = "clearing" => patched = 0 /\ installed
    /\ owner = "enlisting" => (job = "install" <=> ~installed)
    /\ owner = "attaching" => ~installed
    /\ owner \in {"enlisting", "attaching"} /\ ~installed => installs < MaxInstalls
    /\ owner = "inspecting" => installed
    /\ accepting => installed /\ owner = "idle"

IInv ==
    /\ TypeOK /\ CountIsExact /\ Nested /\ AbsentIdle /\ Enlisted /\ Phase
    /\ NoCallWhenRemoved /\ TrampolineKept /\ WorkHasTargets

-----------------------------------------------------------------------------

LEMMA FramesFinite == IsFiniteSet(Frames)
<1>1. IsFiniteSet({"hook", "direct"})
  <2>1. {"hook", "direct"} = {"hook"} \cup {"direct"}
    OBVIOUS
  <2>2. IsFiniteSet({"hook"})
    BY FS_Singleton, Zenon
  <2> QED BY <2>1, <2>2, FS_AddElement
<1> QED BY <1>1, FS_Product, CallGateAssumption DEF Frames

\* What moving one frame does to the number of counted ones.
LEMMA MoveCount ==
  ASSUME at \in [Frames -> Places], NEW f \in Frames, NEW p \in Places
  PROVE  LET n == Cardinality(Inside(at))
             m == Cardinality(Inside([at EXCEPT ![f] = p]))
         IN  /\ n \in Nat /\ m \in Nat
             /\ (at[f] \in Counted <=> p \in Counted) => m = n
             /\ at[f] \notin Counted /\ p \in Counted => m = n + 1
             /\ at[f] \in Counted /\ p \notin Counted => m = n - 1
<1> DEFINE after == [at EXCEPT ![f] = p]
<1>1. IsFiniteSet(Inside(at)) /\ IsFiniteSet(Inside(after))
  BY FramesFinite, FS_Subset DEF Inside
<1>2. Cardinality(Inside(at)) \in Nat /\ Cardinality(Inside(after)) \in Nat
  BY <1>1, FS_CardinalityType
<1>3. CASE at[f] \in Counted <=> p \in Counted
  BY <1>2, <1>3, Inside(after) = Inside(at) DEF Inside
<1>4. CASE at[f] \notin Counted /\ p \in Counted
  <2>1. Inside(after) = Inside(at) \cup {f} /\ f \notin Inside(at)
    BY <1>4 DEF Inside
  <2> QED BY <1>1, <1>2, <1>4, <2>1, FS_AddElement
<1>5. CASE at[f] \in Counted /\ p \notin Counted
  <2>1. Inside(after) = Inside(at) \ {f} /\ f \in Inside(at)
    BY <1>5 DEF Inside
  <2> QED BY <1>1, <1>2, <1>5, <2>1, FS_RemoveElement
<1> QED BY <1>3, <1>4, <1>5

LEMMA InitInv == Init => IInv
<1> SUFFICES ASSUME Init PROVE IInv
  OBVIOUS
<1>1. TypeOK
  <2>1. 0 \in 0..MaxInstalls
    BY CallGateAssumption
  <2>2. "camera" \in Hooks /\ "out" \in Places /\ "idle" \in Owners
    BY DEF Hooks, Places, Owners
  <2> QED BY <2>1, <2>2 DEF Init, TypeOK
<1>2. CountIsExact
  BY FS_EmptySet, Inside(at) = {} DEF Init, CountIsExact, Inside, Counted
<1>3. Nested /\ AbsentIdle
  BY DEF Init, Nested, AbsentIdle, Direct, Hook, Frames
<1>4. Enlisted /\ Phase
  BY DEF Init, Enlisted, Phase, Attached, Detached, Hooks
<1>5. NoCallWhenRemoved /\ TrampolineKept /\ WorkHasTargets
  BY DEF Init, NoCallWhenRemoved, TrampolineKept, Holding, WorkHasTargets
<1> QED BY <1>1, <1>2, <1>3, <1>4, <1>5 DEF IInv

-----------------------------------------------------------------------------
(* Game threads *)

\* The places a frame moves to are places, and a hook exists for each frame.
LEMMA FrameFacts ==
  /\ \A t \in Threads : Hook(t) \in Frames /\ Direct(t) \in Frames /\ Hook(t) # Direct(t)
  /\ \A t \in Threads, u \in Threads : /\ Hook(t) = Hook(u) => t = u
                                       /\ Hook(t) # Direct(u)
                                       /\ Direct(t) = Direct(u) => t = u
  /\ \A t \in Threads : /\ Hook(t)[1] = t /\ Hook(t)[2] = "hook"
                        /\ Direct(t)[1] = t /\ Direct(t)[2] = "direct"
  /\ \A f \in Frames : \E t \in Threads : f = Hook(t) \/ f = Direct(t)
BY DEF Frames, Hook, Direct

\* A frame that is in the code moves within it only while the jumps are in.
LEMMA MoveKeeps ==
  ASSUME IInv, NEW f \in Frames, NEW from, NEW to \in Places, "out" \notin from,
         Move(f, from, to), accepting' = accepting
  PROVE  /\ patched # 0
         /\ NoCallWhenRemoved' /\ AbsentIdle' /\ Enlisted' /\ Phase'
         /\ \A g \in Frames : at'[g] = IF g = f THEN to ELSE at[g]
<1>1. at[f] # "out" /\ at \in [Frames -> Places]
  BY DEF Move, IInv, TypeOK
<1>2. patched # 0 /\ patched' = patched
  BY <1>1 DEF IInv, NoCallWhenRemoved, Move, slots
<1>3. \A g \in Frames : at'[g] = IF g = f THEN to ELSE at[g]
  BY <1>1 DEF Move
<1>4. AbsentIdle'
  BY <1>3, FrameFacts DEF IInv, AbsentIdle, Move, Runs
<1>5. Enlisted'
  BY DEF IInv, Enlisted, Move, transaction
<1>6. Phase'
  BY DEF IInv, Phase, Attached, Detached, Move, slots
<1> QED BY <1>2, <1>3, <1>4, <1>5, <1>6 DEF NoCallWhenRemoved

\* What is left to show of a frame's step, when it reads neither slots nor gate.
LEMMA PlainMove ==
  ASSUME IInv, NEW f \in Frames, NEW from, NEW to \in Places, "out" \notin from,
         Move(f, from, to), UNCHANGED <<hook, next, gate>>,
         at[f] \in Counted <=> to \in Counted,
         to \in Holding => at[f] \in Holding,
         to = "working" => targets /\ installed,
         f[2] = "hook" /\ at[f] = "working" /\ to # "working" => at[Direct(f[1])] = "out"
  PROVE  IInv'
<1>1. /\ patched # 0
      /\ NoCallWhenRemoved' /\ AbsentIdle' /\ Enlisted' /\ Phase'
      /\ \A g \in Frames : at'[g] = IF g = f THEN to ELSE at[g]
  BY MoveKeeps DEF gate
<1>2. at' = [at EXCEPT ![f] = to]
  BY DEF Move
<1>3. TypeOK'
  BY <1>2 DEF IInv, TypeOK, Move, gate, slots, transaction
<1>4. CountIsExact'
  BY <1>2, MoveCount DEF IInv, TypeOK, CountIsExact, gate
<1>5. Nested'
  BY <1>1, FrameFacts DEF IInv, Nested, Move
<1>6. TrampolineKept'
  BY <1>1 DEF IInv, TrampolineKept, Move, slots
<1>7. WorkHasTargets'
  BY <1>1 DEF IInv, WorkHasTargets, Move, slots
<1> QED BY <1>1, <1>3, <1>4, <1>5, <1>6, <1>7 DEF IInv

LEMMA FrameInv ==
  ASSUME IInv, NEW f \in Frames, FrameStep(f)
  PROVE  IInv'
<1> USE DEF Counted, Places, InReplacement, InGate, Holding
<1>a. /\ at \in [Frames -> Places] /\ Nested
      /\ \A t \in Threads : Hook(t) \in Frames /\ Direct(t) \in Frames
      /\ f[1] \in Threads /\ f[2] \in {"hook", "direct"} /\ f = <<f[1], f[2]>>
  BY DEF IInv, TypeOK, Frames, Hook, Direct
<1>1. CASE Enter(f)
  BY <1>1, PlainMove DEF Enter, Move
<1>2. CASE CountIn(f)
  <2>1. Move(f, {"entering"}, "counted") /\ UNCHANGED <<hook, next, accepting>> /\ at[f] = "entering"
    BY <1>2 DEF CountIn, Move
  <2>2. /\ NoCallWhenRemoved' /\ AbsentIdle' /\ Enlisted' /\ Phase'
        /\ \A g \in Frames : at'[g] = IF g = f THEN "counted" ELSE at[g]
    BY <2>1, MoveKeeps
  <2>3. CountIsExact' /\ active' \in Nat
    <3>1. /\ at' = [at EXCEPT ![f] = "counted"] /\ active' = active + 1
          /\ active = Cardinality(Inside(at))
      BY <1>2, <2>1 DEF CountIn, Move, IInv, CountIsExact
    <3>a. at[f] \notin Counted /\ "counted" \in Counted /\ "counted" \in Places
      BY <2>1
    <3> HIDE DEF Counted, Places
    <3>2. /\ Cardinality(Inside([at EXCEPT ![f] = "counted"])) = Cardinality(Inside(at)) + 1
          /\ Cardinality(Inside([at EXCEPT ![f] = "counted"])) \in Nat
      BY <3>a, <1>a, MoveCount
    <3> QED BY <3>1, <3>2 DEF CountIsExact
  <2>4. TypeOK'
    BY <2>1, <2>3 DEF IInv, TypeOK, Move, slots, transaction
  <2>5. Nested'
    BY <2>1, <2>2, FrameFacts DEF IInv, Nested
  <2>6. TrampolineKept' /\ WorkHasTargets'
    BY <2>1, <2>2 DEF IInv, TrampolineKept, WorkHasTargets, Move, slots
  <2> QED BY <2>2, <2>3, <2>4, <2>5, <2>6 DEF IInv
<1>3. CASE AwaitOriginal(f)
  <2>1. /\ Move(f, {"counted"}, "owned") /\ UNCHANGED <<hook, gate>> /\ at[f] = "counted"
        /\ next' = [next EXCEPT ![f] = original[Slot(f)]] /\ original[Slot(f)] # 0
    BY <1>3 DEF AwaitOriginal, Move
  <2>2. /\ patched # 0
        /\ NoCallWhenRemoved' /\ AbsentIdle' /\ Enlisted' /\ Phase'
        /\ \A g \in Frames : at'[g] = IF g = f THEN "owned" ELSE at[g]
    BY <2>1, MoveKeeps DEF gate
  <2>3. Slot(f) \in Hooks
    BY <1>a DEF Slot, Hooks, IInv, TypeOK
  <2>4. original[Slot(f)] = patched
    BY <2>1, <2>2, <2>3 DEF IInv, Phase, Attached, Detached
  <2>5. TypeOK'
    BY <2>1, <2>3 DEF IInv, TypeOK, Move, slots, transaction, gate
  <2>6. CountIsExact'
    BY <2>1, <1>a, MoveCount DEF IInv, CountIsExact, Move, gate
  <2>7. Nested'
    BY <2>1, <2>2, FrameFacts DEF IInv, Nested
  <2>8. TrampolineKept'
    BY <2>1, <2>2, <2>4 DEF IInv, TypeOK, TrampolineKept, Move, slots
  <2>9. WorkHasTargets'
    BY <2>1, <2>2 DEF IInv, WorkHasTargets, Move, slots
  <2> QED BY <2>2, <2>5, <2>6, <2>7, <2>8, <2>9 DEF IInv
<1>4. CASE RefuseDirect(f)
  BY <1>4, PlainMove DEF RefuseDirect, Move
<1>5. CASE Work(f)
  <2>1. targets /\ installed
    BY <1>5 DEF Work, IInv, Phase, Attached
  <2>2. PICK p \in {"returned", "owned"} : Move(f, {p}, "working") /\ UNCHANGED <<hook, next, gate>>
    BY <1>5 DEF Work
  <2> QED BY <2>1, <2>2, PlainMove DEF Move
<1>6. CASE Forward(f)
  <2>1. PICK from \in {{"working"}, {"owned", "working"}, {"owned"}} :
           /\ Move(f, from, "native") /\ UNCHANGED <<hook, next, gate>>
           /\ "working" \in from => hook[f[1]] = "physics"
    BY <1>6 DEF Forward, WorksBefore
  <2>2. f[2] = "hook" /\ "working" \in from => at[Direct(f[1])] = "out"
    BY <2>1, <1>a DEF Nested
  <2> QED BY <2>1, <2>2, PlainMove DEF Move
<1>7. CASE Return(f)
  BY <1>7, PlainMove DEF Return, Move
<1>8. CASE Finish(f)
  <2>1. PICK from \in {{"working"}, {"returned", "working"}, {"returned"}} :
           /\ Move(f, from, "done") /\ UNCHANGED <<hook, next, gate>>
           /\ "working" \in from => at[Direct(f[1])] = "out"
    BY <1>8 DEF Finish
  <2> QED BY <2>1, PlainMove DEF Move
<1>9. CASE CountOut(f)
  <2>1. Move(f, {"done"}, "left") /\ UNCHANGED <<hook, next, accepting>> /\ at[f] = "done"
    BY <1>9 DEF CountOut, Move
  <2>2. /\ NoCallWhenRemoved' /\ AbsentIdle' /\ Enlisted' /\ Phase'
        /\ \A g \in Frames : at'[g] = IF g = f THEN "left" ELSE at[g]
    BY <2>1, MoveKeeps
  <2>3. CountIsExact' /\ active' \in Nat
    <3>1. /\ at' = [at EXCEPT ![f] = "left"] /\ active' = active - 1
          /\ active = Cardinality(Inside(at))
      BY <1>9, <2>1 DEF CountOut, Move, IInv, CountIsExact
    <3>a. at[f] \in Counted /\ "left" \notin Counted /\ "left" \in Places
      BY <2>1
    <3> HIDE DEF Counted, Places
    <3>2. /\ Cardinality(Inside([at EXCEPT ![f] = "left"])) = Cardinality(Inside(at)) - 1
          /\ Cardinality(Inside([at EXCEPT ![f] = "left"])) \in Nat
      BY <3>a, <1>a, MoveCount
    <3> QED BY <3>1, <3>2 DEF CountIsExact
  <2>4. TypeOK'
    BY <2>1, <2>3 DEF IInv, TypeOK, Move, slots, transaction
  <2>5. Nested'
    BY <2>1, <2>2, FrameFacts DEF IInv, Nested
  <2>6. TrampolineKept' /\ WorkHasTargets'
    BY <2>1, <2>2 DEF IInv, TrampolineKept, WorkHasTargets, Move, slots
  <2> QED BY <2>2, <2>3, <2>4, <2>5, <2>6 DEF IInv
<1>10. CASE Leave(f)
  BY <1>10, PlainMove DEF Leave, Move
<1>11. CASE ReturnToGame(f)
  BY <1>11, PlainMove DEF ReturnToGame, Move
<1> QED
  BY <1>1, <1>2, <1>3, <1>4, <1>5, <1>6, <1>7, <1>8, <1>9, <1>10, <1>11 DEF FrameStep

\* Calls from the game and from the camera's work, and threads that come and go.
LEMMA ThreadInv ==
  ASSUME IInv, NEW t \in Threads,
         Create(t) \/ Exit(t) \/ CallDirect(t) \/ \E h \in Hooks : Call(t, h)
  PROVE  IInv'
<1>a. at \in [Frames -> Places] /\ Hook(t) \in Frames /\ Direct(t) \in Frames
  BY FrameFacts DEF IInv, TypeOK
<1>1. CASE Create(t)
  <2>1. UNCHANGED <<transaction, calls, gate, slots, owner, job>> /\ live' = live \cup {t}
    BY <1>1 DEF Create
  <2>2. Enlisted'
    BY <1>1, <2>1 DEF Create, Runs, IInv, Enlisted, transaction
  <2>3. AbsentIdle'
    BY <2>1 DEF IInv, AbsentIdle, calls
  <2>4. TypeOK' /\ CountIsExact' /\ Nested' /\ Phase'
    BY <2>1 DEF IInv, TypeOK, CountIsExact, Nested, Phase, Attached, Detached,
                transaction, calls, gate, slots
  <2>5. NoCallWhenRemoved' /\ TrampolineKept' /\ WorkHasTargets'
    BY <2>1 DEF IInv, NoCallWhenRemoved, TrampolineKept, WorkHasTargets, calls, slots
  <2> QED BY <2>2, <2>3, <2>4, <2>5 DEF IInv
<1>2. CASE Exit(t)
  <2>1. UNCHANGED <<transaction, calls, gate, slots, owner, job>> /\ live' = live \ {t}
    BY <1>2 DEF Exit
  <2>2. Enlisted' /\ AbsentIdle'
    BY <1>2, <2>1 DEF Exit, IInv, Enlisted, AbsentIdle, transaction, calls
  <2>3. TypeOK' /\ CountIsExact' /\ Nested' /\ Phase'
    BY <2>1 DEF IInv, TypeOK, CountIsExact, Nested, Phase, Attached, Detached,
                transaction, calls, gate, slots
  <2>4. NoCallWhenRemoved' /\ TrampolineKept' /\ WorkHasTargets'
    BY <2>1 DEF IInv, NoCallWhenRemoved, TrampolineKept, WorkHasTargets, calls, slots
  <2> QED BY <2>2, <2>3, <2>4 DEF IInv
<1>3. ASSUME NEW f \in Frames, Move(f, {"out"}, "arrived"), f[1] = t, patched # 0,
             UNCHANGED <<next, gate>>, hook' \in [Threads -> Hooks],
             \A u \in Threads : u # t => hook'[u] = hook[u],
             \/ f = Hook(t)
             \/ f = Direct(t) /\ hook' = hook /\ at[Hook(t)] = "working" /\ hook[t] = "camera"
      PROVE  IInv'
  <2>1. \A g \in Frames : at'[g] = IF g = f THEN "arrived" ELSE at[g]
    BY <1>3, <1>a DEF Move
  <2>2. TypeOK'
    BY <1>3, "arrived" \in Places DEF IInv, TypeOK, Move, slots, transaction, gate, Places, InReplacement
  <2>3. CountIsExact'
    <3>1. Cardinality(Inside([at EXCEPT ![f] = "arrived"])) = Cardinality(Inside(at))
      BY <1>3, <1>a, MoveCount, "arrived" \in Places, "arrived" \notin Counted,
         "out" \notin Counted DEF Places, InReplacement, Counted, Move
    <3> QED BY <3>1, <1>3 DEF IInv, CountIsExact, Move, gate
  <2>4. Nested'
    BY <2>1, <1>3, FrameFacts DEF IInv, Nested, Move
  <2>5. AbsentIdle' /\ Enlisted' /\ Phase'
    <3>1. AbsentIdle'
      BY <2>1, <1>3, FrameFacts DEF IInv, AbsentIdle, Move, Runs
    <3>2. Enlisted' /\ Phase'
      BY <1>3 DEF IInv, Enlisted, Phase, Attached, Detached, Move, transaction, slots, gate
    <3> QED BY <3>1, <3>2
  <2>6. NoCallWhenRemoved'
    BY <1>3 DEF NoCallWhenRemoved, Move, slots
  <2>7. TrampolineKept' /\ WorkHasTargets'
    BY <2>1, <1>3 DEF IInv, TrampolineKept, WorkHasTargets, Holding, Move, slots
  <2> QED BY <2>2, <2>3, <2>4, <2>5, <2>6, <2>7 DEF IInv
<1>4. CASE CallDirect(t)
  <2>1. patched # 0
    BY <1>4, <1>a DEF CallDirect, IInv, NoCallWhenRemoved
  <2> QED BY <1>3, <1>4, <1>a, <2>1, FrameFacts DEF CallDirect, IInv, TypeOK
<1>5. ASSUME NEW h \in Hooks, Call(t, h) PROVE IInv'
  BY <1>3, <1>5, <1>a, FrameFacts DEF Call, IInv, TypeOK
<1> QED BY <1>1, <1>2, <1>4, <1>5

-----------------------------------------------------------------------------
(* The owner *)

\* No step of the owner moves a thread: what is left to show of one.
LEMMA OwnerKeeps ==
  ASSUME IInv, UNCHANGED <<Outside, active>>
  PROVE  CountIsExact' /\ Nested' /\ AbsentIdle'
BY DEF IInv, CountIsExact, Nested, AbsentIdle, Outside, calls

\* Before the hooks are attached, while they are kept, and when a transaction ends.
LEMMA TransactionInv ==
  ASSUME IInv, UNCHANGED <<Outside, active, slots>>, TypeOK', Enlisted', Phase'
  PROVE  IInv'
<1>1. CountIsExact' /\ Nested' /\ AbsentIdle'
  BY OwnerKeeps
<1>2. NoCallWhenRemoved' /\ TrampolineKept' /\ WorkHasTargets'
  BY DEF IInv, NoCallWhenRemoved, TrampolineKept, WorkHasTargets, Outside, calls, slots
<1> QED BY <1>1, <1>2 DEF IInv

LEMMA AbortInv ==
  ASSUME IInv, Abort, owner \in {"enlisting", "attaching", "inspecting"} PROVE IInv'
<1>1. TypeOK' /\ Enlisted' /\ Phase'
  BY DEF Abort, IInv, TypeOK, Owners, Enlisted, Phase, Attached, Detached, Outside, calls, gate, slots
<1> QED BY <1>1, TransactionInv DEF Abort, gate

\* Opening the transaction and enlisting the threads.
LEMMA EnlistInv ==
  ASSUME IInv, StartInstall \/ StartUninstall \/ Snapshot \/ Enlist
  PROVE  IInv'
<1> USE DEF IInv, TypeOK, Owners, Enlisted, Phase, Attached, Detached, Outside, calls, gate,
            slots, transaction
<1>1. CASE StartInstall
  BY <1>1, TypeOK' /\ Enlisted' /\ Phase', TransactionInv DEF StartInstall
<1>2. CASE StartUninstall
  BY <1>2, TypeOK' /\ Enlisted' /\ Phase', TransactionInv DEF StartUninstall
<1>3. CASE Snapshot
  BY <1>3, TypeOK' /\ Enlisted' /\ Phase', TransactionInv DEF Snapshot
<1>4. CASE Enlist
  BY <1>4, TypeOK' /\ Enlisted' /\ Phase', TransactionInv DEF Enlist
<1> QED BY <1>1, <1>2, <1>3, <1>4

\* The commit of the attachment, and the publication of what it returned.
LEMMA InstallInv ==
  ASSUME IInv, Attach \/ (\E h \in Hooks : Publish(h)) \/ PublishTargets \/ Accept
  PROVE  IInv'
<1>1. UNCHANGED <<Outside, active>>
  BY DEF Attach, Publish, PublishTargets, Accept, gate
<1>2. CountIsExact' /\ Nested' /\ AbsentIdle'
  BY <1>1, OwnerKeeps
<1>3. CASE Attach
  <2>1. patched = 0 /\ ~installed /\ ~targets /\ \A h \in Hooks : original[h] = 0
    BY <1>3 DEF Attach, IInv, Phase, Detached
  <2>2. \A f \in Frames : at'[f] = "out"
    BY <1>1, <2>1 DEF IInv, NoCallWhenRemoved, Outside, calls
  <2>3. NoCallWhenRemoved' /\ TrampolineKept' /\ WorkHasTargets'
    BY <2>2 DEF NoCallWhenRemoved, TrampolineKept, Holding, WorkHasTargets
  <2>4. installs + 1 \in 0..MaxInstalls /\ installs + 1 # 0
    BY <1>3, <2>1, CallGateAssumption DEF Attach, IInv, TypeOK, Phase
  <2>5. TypeOK'
    BY <1>3, <2>4 DEF Attach, IInv, TypeOK, Owners, Outside, calls, gate
  <2>6. Enlisted' /\ Phase'
    BY <1>3, <2>1, <2>4 DEF Attach, IInv, Enlisted, Phase, Attached, Detached, gate, Hooks
  <2> QED BY <1>2, <2>3, <2>5, <2>6 DEF IInv
<1>4. CASE (\E h \in Hooks : Publish(h)) \/ PublishTargets \/ Accept
  <2>1. patched' = patched /\ owner = "publishing" /\ patched # 0 /\ ~installed
    BY <1>4 DEF Publish, PublishTargets, Accept, IInv, Phase
  <2>2. NoCallWhenRemoved' /\ TrampolineKept'
    BY <1>1, <2>1 DEF IInv, NoCallWhenRemoved, TrampolineKept, Outside, calls
  <2>3. WorkHasTargets'
    BY <1>1, <2>1 DEF IInv, WorkHasTargets, Outside, calls
  <2>4. TypeOK' /\ Enlisted' /\ Phase'
    <3> USE DEF IInv, TypeOK, Owners, Enlisted, Phase, Attached, Detached, Outside, calls,
                gate, transaction, Hooks
    <3>1. CASE \E h \in Hooks : Publish(h)
      BY <3>1, <2>1 DEF Publish
    <3>2. CASE PublishTargets
      BY <3>2, <2>1 DEF PublishTargets
    <3>3. CASE Accept
      BY <3>3, <2>1 DEF Accept
    <3> QED BY <1>4, <3>1, <3>2, <3>3
  <2> QED BY <1>2, <2>2, <2>3, <2>4 DEF IInv
<1> QED BY <1>3, <1>4

\* The heart of the matter: at the inspection every thread is suspended, so
\* one that exists is out of the protected code and not counted, and one that
\* does not exist is nowhere.
LEMMA DetachInv ==
  ASSUME IInv, Detach
  PROVE  IInv'
<1>1. /\ at \in [Frames -> Places] /\ active = 0 /\ live \subseteq suspended
      /\ \A t \in suspended : Rip(t) \notin Protected
      /\ suspended \subseteq Threads
  BY DEF Detach, Clear, IInv, Enlisted, TypeOK
<1>2. \A f \in Frames : at[f] \notin Counted
  <2>1. IsFiniteSet(Inside(at)) /\ Cardinality(Inside(at)) = 0
    BY <1>1, FramesFinite, FS_Subset DEF IInv, CountIsExact, Inside
  <2> QED BY <2>1, FS_EmptySet DEF Inside
<1>3. \A t \in Threads : at[Direct(t)] = "out"
  BY <1>2, FrameFacts DEF IInv, Nested, Counted
<1>4. \A t \in Threads : at[Hook(t)] = "out"
  <2>1. TAKE t \in Threads
  <2>2. CASE t \in live
    <3>1. at[Hook(t)] \notin Protected
      BY <1>1, <1>3, <2>2 DEF Rip
    <3> QED BY <1>1, <1>2, <3>1, FrameFacts DEF Places, Protected
  <2>3. CASE t \notin live
    BY <2>3 DEF IInv, AbsentIdle
  <2> QED BY <2>2, <2>3
<1>5. \A f \in Frames : at'[f] = "out"
  BY <1>3, <1>4, FrameFacts DEF Detach, Outside, calls
<1>6. CountIsExact' /\ Nested' /\ AbsentIdle'
  BY OwnerKeeps DEF Detach, gate
<1>7. NoCallWhenRemoved' /\ TrampolineKept' /\ WorkHasTargets'
  BY <1>5 DEF NoCallWhenRemoved, TrampolineKept, Holding, WorkHasTargets
<1>8. TypeOK' /\ Enlisted' /\ Phase'
  BY CallGateAssumption DEF Detach, IInv, TypeOK, Owners, Enlisted, Phase, Attached, Detached,
     Outside, calls, gate
<1> QED BY <1>6, <1>7, <1>8 DEF IInv

LEMMA ClearInv ==
  ASSUME IInv, ClearTargets \/ ClearPhysics \/ ClearCamera
  PROVE  IInv'
<1>1. UNCHANGED <<Outside, active>> /\ patched = 0 /\ installed /\ owner = "clearing"
  BY DEF ClearTargets, ClearPhysics, ClearCamera, gate, IInv, Phase
<1>2. CountIsExact' /\ Nested' /\ AbsentIdle'
  BY <1>1, OwnerKeeps
<1>3. \A f \in Frames : at'[f] = "out"
  BY <1>1 DEF IInv, NoCallWhenRemoved, Outside, calls
<1>4. NoCallWhenRemoved' /\ TrampolineKept' /\ WorkHasTargets'
  BY <1>3 DEF NoCallWhenRemoved, TrampolineKept, Holding, WorkHasTargets
<1>5. TypeOK' /\ Enlisted' /\ Phase'
  <2> USE CallGateAssumption DEF IInv, TypeOK, Owners, Enlisted, Phase, Attached, Detached,
          Outside, calls, gate, transaction, Hooks
  <2>1. CASE ClearTargets
    BY <1>1, <2>1 DEF ClearTargets
  <2>2. CASE ClearPhysics
    BY <1>1, <2>2 DEF ClearPhysics
  <2>3. CASE ClearCamera
    BY <1>1, <2>3 DEF ClearCamera
  <2> QED BY <2>1, <2>2, <2>3
<1> QED BY <1>2, <1>4, <1>5 DEF IInv

LEMMA NextInv == IInv /\ [Next]_vars => IInv'
<1> SUFFICES ASSUME IInv, [Next]_vars PROVE IInv'
  OBVIOUS
<1>1. CASE UNCHANGED vars
  BY <1>1 DEF IInv, TypeOK, CountIsExact, Nested, AbsentIdle, Enlisted, Phase, Attached, Detached,
     NoCallWhenRemoved, TrampolineKept, WorkHasTargets, vars, calls, gate, slots, transaction
<1>2. ASSUME NEW t \in Threads,
             Create(t) \/ Exit(t) \/ CallDirect(t) \/ \E h \in Hooks : Call(t, h)
      PROVE  IInv'
  BY <1>2, ThreadInv
<1>3. ASSUME NEW f \in Frames, FrameStep(f) PROVE IInv'
  BY <1>3, FrameInv
<1>4. CASE EnlistFails \/ AttachFails \/ Defer
  BY <1>4, AbortInv DEF EnlistFails, AttachFails, Defer
<1>5. CASE StartInstall \/ StartUninstall \/ OwnerStep
  BY <1>4, <1>5, EnlistInv, InstallInv, DetachInv, ClearInv DEF OwnerStep
<1> QED BY <1>1, <1>2, <1>3, <1>5 DEF Next

LEMMA SpecInv == Spec => []IInv
BY InitInv, NextInv, PTL DEF Spec

-----------------------------------------------------------------------------

\* Threads, frames, slots and the owner keep their kinds; the counter, which a
\* frame takes down when it leaves, never falls below zero.
THEOREM GateTyped == Spec => []TypeOK
<1>1. IInv => TypeOK
  BY DEF IInv
<1> QED BY <1>1, SpecInv, PTL

\* Whatever threads the process has and creates, and however often the hooks
\* are installed and removed: while the jumps are out of the game no thread is
\* anywhere in the replacements.
THEOREM RemovalIsSafe == Spec => []NoCallWhenRemoved
<1>1. IInv => NoCallWhenRemoved
  BY DEF IInv
<1> QED BY <1>1, SpecInv, PTL

\* A replacement forwards only through the trampoline of the installation that
\* is in place, until the native function has returned.
THEOREM TrampolinesAreLive == Spec => []TrampolineLive
<1>1. IInv => TrampolineLive
  BY DEF IInv, TrampolineKept, TrampolineLive, Holding
<1> QED BY <1>1, SpecInv, PTL

\* Dawn's work runs only while its targets are published.
THEOREM WorkIsInstalled == Spec => []WorkHasTargets
<1>1. IInv => WorkHasTargets
  BY DEF IInv
<1> QED BY <1>1, SpecInv, PTL
=============================================================================
