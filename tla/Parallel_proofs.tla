--------------------------- MODULE Parallel_proofs --------------------------
(***************************************************************************)
(* A with block whose body does not block between spawns waits for all its *)
(* functions and loses no exception, for every finite set of functions.    *)
(* IInv is the inductive invariant of such a block; of a block whose body  *)
(* blocks only BInv holds.                                                 *)
(***************************************************************************)
EXTENDS Parallel, FiniteSetTheorems, TLAPS

Pending == {f \in Funcs : greenlet[f] \in {"started", "finished"}}
AllLinked == \A f \in Funcs : greenlet[f] = "linked"

Types ==
  /\ pc \in PCs \ {"body_blocked"}
  /\ greenlet \in [Funcs -> {"unspawned", "started", "finished", "linked"}]
  /\ outcome \in [Funcs -> Outcomes \cup {"none"}]
  /\ results \in Seq(Items)
  /\ count \in Int
  /\ any_spawned \in BOOLEAN
  /\ iteration_stopped \in BOOLEAN

\* self.count counts the functions whose _finish is still to come.
CountInv == count = Cardinality(Pending)

\* Until the body ends nothing runs; afterwards everything was spawned.
BodyInv ==
  /\ pc = "body" => /\ \A f \in Funcs : greenlet[f] \in {"unspawned", "started"}
                    /\ results = <<>>
                    /\ ~iteration_stopped
  /\ pc # "body" => \A f \in Funcs : greenlet[f] # "unspawned"
  /\ ~any_spawned => \A f \in Funcs : greenlet[f] = "unspawned"

\* StopIteration is queued last, when every _finish has run, and once only.
StopInv ==
  /\ iteration_stopped => AllLinked /\ results = <<>>
  /\ \A i \in 1..Len(results) :
        results[i] = StopItem => AllLinked /\ i = Len(results)
  /\ pc = "returned" => iteration_stopped \/ ~any_spawned

\* A function that has ended has an outcome; an exception is in the queue
\* until the main greenlet has raised it.
ErrorInv ==
  \A f \in Funcs :
    /\ outcome[f] = "none" <=> greenlet[f] \in {"unspawned", "started"}
    /\ outcome[f] = "error" /\ greenlet[f] = "linked" /\ pc # "raised" =>
         \E i \in 1..Len(results) : results[i] = "error"

\* An exception in the queue was raised by a function.
CauseInv ==
  \A i \in 1..Len(results) :
    results[i] = "error" => \E f \in Funcs : outcome[f] = "error"

\* What holds of a block whose body blocks: a function ends once.
BInv ==
  /\ greenlet \in [Funcs -> {"unspawned", "started", "finished", "linked"}]
  /\ outcome \in [Funcs -> Outcomes \cup {"none"}]
  /\ \A f \in Funcs : outcome[f] = "none" <=> greenlet[f] \in {"unspawned", "started"}

IInv == Types /\ CountInv /\ BodyInv /\ StopInv /\ ErrorInv /\ CauseInv

LEMMA PendingFinite == IsFiniteSet(Pending)
BY FuncsAssumption, FS_Subset DEF Pending

LEMMA InitIInv == Init => IInv
<1> SUFFICES ASSUME Init PROVE IInv
  OBVIOUS
<1>1. Pending = {}
  BY DEF Init, Pending
<1>2. CountInv
  BY <1>1, FS_EmptySet DEF CountInv, Init
<1>3. Types
  <2>1. results \in Seq(Items)
    BY DEF Init
  <2>2. pc \in PCs \ {"body_blocked"}
    BY DEF Init, PCs
  <2>3. outcome \in [Funcs -> Outcomes \cup {"none"}]
    BY DEF Init
  <2>4. greenlet \in [Funcs -> {"unspawned", "started", "finished", "linked"}]
    BY DEF Init
  <2>5. count \in Int
    BY DEF Init
  <2>6. any_spawned \in BOOLEAN /\ iteration_stopped \in BOOLEAN
    BY Zenon DEF Init
  <2> QED
    BY <2>1, <2>2, <2>3, <2>4, <2>5, <2>6 DEF Types
<1> QED
  BY <1>2, <1>3 DEF Init, IInv, BodyInv, StopInv, ErrorInv, CauseInv, AllLinked

(* Steps of the main greenlet that leave the greenlets alone.              *)
LEMMA PendingUnchanged ==
  ASSUME CountInv, UNCHANGED <<greenlet, count>>
  PROVE  CountInv'
BY DEF CountInv, Pending

LEMMA SpawnStep ==
  ASSUME IInv, NEW f \in Funcs, spawn(f)
  PROVE  IInv'
<1> USE DEF IInv, spawn
<1>1. Pending' = Pending \cup {f} /\ f \notin Pending
  BY DEF Pending, Types
<1>2. CountInv'
  BY <1>1, PendingFinite, FS_AddElement DEF CountInv
<1>3. Types'
  BY DEF Types
<1>4. BodyInv' /\ StopInv' /\ ErrorInv' /\ CauseInv'
  BY DEF Types, BodyInv, StopInv, ErrorInv, CauseInv, AllLinked
<1> QED
  BY <1>2, <1>3, <1>4

LEMMA FinishStep ==
  ASSUME IInv, NEW f \in Funcs, Finish(f)
  PROVE  IInv'
<1> USE DEF IInv, Finish
<1>1. Pending' = Pending
  BY DEF Pending, Types
<1>2. CountInv'
  BY <1>1 DEF CountInv
<1>3. Types'
  BY DEF Types, Outcomes
<1>4. pc # "body" /\ ~AllLinked
  BY DEF HubRuns, Blocked, Left, AllLinked
<1>5. BodyInv'
  BY <1>4 DEF Types, BodyInv
<1>6. StopInv'
  BY <1>4 DEF Types, StopInv, AllLinked
<1>7. ErrorInv'
  <2>1. outcome'[f] \in Outcomes /\ "none" \notin Outcomes
    BY DEF Types, Outcomes
  <2>2. \A g \in Funcs \ {f} : outcome'[g] = outcome[g] /\ greenlet'[g] = greenlet[g]
    BY DEF Types
  <2>3. greenlet'[f] = "finished"
    BY DEF Types
  <2> QED
    BY <2>1, <2>2, <2>3 DEF ErrorInv
<1>8. CauseInv'
  <2>1. \A g \in Funcs : outcome[g] = "error" => outcome'[g] = "error"
    BY DEF Types, ErrorInv
  <2> QED
    BY <2>1 DEF CauseInv
<1> QED
  BY <1>2, <1>3, <1>5, <1>6, <1>7, <1>8

LEMMA LinkStep ==
  ASSUME IInv, NEW f \in Funcs, _finish(f)
  PROVE  IInv'
<1> USE DEF IInv, _finish
<1>1. Pending' = Pending \ {f} /\ f \in Pending
  BY DEF Pending, Types
<1>2. CountInv'
  <2>1. Cardinality(Pending \ {f}) = Cardinality(Pending) - 1
    BY <1>1, PendingFinite, FS_RemoveElement
  <2> QED
    BY <1>1, <2>1 DEF CountInv
<1>3. Types'
  <2>1. outcome[f] \in Items /\ StopItem \in Items
    BY DEF Types, Items, ErrorInv
  <2> QED
    BY <2>1 DEF Types
<1>4. pc # "body" /\ ~AllLinked
  BY DEF HubRuns, Blocked, Left, AllLinked
<1>5. BodyInv'
  BY <1>4 DEF Types, BodyInv
<1>6. count' <= 0 => AllLinked'
  <2> SUFFICES ASSUME count' <= 0 PROVE AllLinked'
    OBVIOUS
  <2>1. IsFiniteSet(Pending')
    BY <1>1, PendingFinite, FS_Subset
  <2>2. Pending' = {}
    BY <1>2, <2>1, FS_EmptySet, FS_CardinalityType DEF CountInv
  <2> QED
    BY <2>2, <1>5, <1>4, <1>3 DEF Pending, AllLinked, BodyInv, Types
<1>7. StopInv'
  <2>1. ~iteration_stopped /\ \A i \in 1..Len(results) : results[i] # StopItem
    BY <1>4 DEF StopInv
  <2>2. outcome[f] # StopItem
    BY DEF Types, Outcomes, StopItem
  <2>3. \A i \in 1..Len(results') : results'[i] = StopItem => AllLinked' /\ i = Len(results')
    BY <2>1, <2>2, <1>6 DEF Types
  <2>4. pc' = "returned" => iteration_stopped' \/ ~any_spawned'
    BY DEF StopInv
  <2> QED
    BY <2>1, <2>3, <2>4 DEF StopInv
<1>8. ErrorInv'
  <2> SUFFICES ASSUME NEW g \in Funcs
               PROVE  /\ outcome[g] = "none" <=> greenlet'[g] \in {"unspawned", "started"}
                      /\ outcome[g] = "error" /\ greenlet'[g] = "linked" /\ pc # "raised" =>
                           \E i \in 1..Len(results') : results'[i] = "error"
    BY DEF ErrorInv
  <2>1. Len(results') >= Len(results) + 1 /\ results'[Len(results) + 1] = outcome[f]
        /\ \A i \in 1..Len(results) : results'[i] = results[i]
    BY DEF Types
  <2>2. CASE g = f
    <3>1. greenlet[f] = "finished" /\ greenlet'[f] = "linked" /\ outcome[f] # "none"
      BY DEF Types, ErrorInv
    <3>2. Len(results) + 1 \in 1..Len(results')
      BY <2>1, <1>3 DEF Types
    <3> QED
      BY <2>1, <2>2, <3>1, <3>2
  <2>3. CASE g # f
    BY <2>1, <2>3 DEF Types, ErrorInv
  <2> QED
    BY <2>2, <2>3
<1>9. CauseInv'
  <2> SUFFICES ASSUME NEW i \in 1..Len(results'), results'[i] = "error"
               PROVE  \E g \in Funcs : outcome[g] = "error"
    BY DEF CauseInv
  <2>1. CASE i \in 1..Len(results)
    BY <2>1 DEF CauseInv, Types
  <2>2. CASE i \notin 1..Len(results)
    <3>1. results'[i] = outcome[f] \/ results'[i] = StopItem
      BY <2>2 DEF Types
    <3> QED
      BY <3>1 DEF StopItem
  <2> QED
    BY <2>1, <2>2
<1> QED
  BY <1>2, <1>3, <1>5, <1>7, <1>8, <1>9

LEMMA TakeStep ==
  ASSUME IInv, NextTakes
  PROVE  IInv'
<1> USE DEF IInv, NextTakes
<1>1. CountInv'
  BY PendingUnchanged
<1>2. Len(results) > 0 /\ Head(results) = results[1] /\ Head(results) \in Items
      /\ Len(results') = Len(results) - 1
      /\ \A i \in 1..Len(results') : results'[i] = results[i + 1]
  BY DEF Types
<1>3. Types'
  BY <1>2 DEF Types, PCs, Left, AfterStop, Items, Outcomes
<1>4. pc' # "body"
  BY <1>2 DEF AfterStop, Items, Outcomes
<1>5. BodyInv'
  BY <1>4 DEF BodyInv
<1>6. StopInv'
  <2>1. CASE Head(results) = StopItem
    <3>1. AllLinked /\ Len(results) = 1
      BY <2>1, <1>2 DEF StopInv
    <3>2. results' = <<>>
      BY <3>1, <1>2, <1>3 DEF Types
    <3>3. iteration_stopped' /\ AllLinked'
      BY <2>1, <3>1 DEF AllLinked
    <3> QED
      BY <3>2, <3>3 DEF StopInv
  <2>2. CASE Head(results) # StopItem
    <3>1. pc' # "returned" /\ ~iteration_stopped'
      BY <2>2, <1>2 DEF Items, Outcomes
    <3>2. \A i \in 1..Len(results') : results'[i] = StopItem => AllLinked' /\ i = Len(results')
      BY <1>2, <1>3 DEF StopInv, AllLinked, Types
    <3> QED
      BY <3>1, <3>2 DEF StopInv
  <2> QED
    BY <2>1, <2>2
<1>7. ErrorInv'
  <2>1. CASE Head(results) = "error"
    BY <2>1 DEF ErrorInv, StopItem
  <2>2. CASE Head(results) # "error"
    <3> SUFFICES ASSUME NEW g \in Funcs, outcome[g] = "error", greenlet[g] = "linked"
                 PROVE  \E i \in 1..Len(results') : results'[i] = "error"
      BY DEF ErrorInv
    <3>1. PICK i \in 1..Len(results) : results[i] = "error"
      BY DEF ErrorInv
    <3>2. i > 1
      BY <3>1, <2>2, <1>2
    <3>3. i - 1 \in 1..Len(results') /\ (i - 1) + 1 = i
      BY <3>2, <1>2 DEF Types
    <3>4. results'[i - 1] = results[i]
      BY <3>3, <1>2
    <3> QED
      BY <3>1, <3>3, <3>4
  <2> QED
    BY <2>1, <2>2
<1>8. CauseInv'
  BY <1>2 DEF CauseInv, Types
<1> QED
  BY <1>1, <1>3, <1>5, <1>6, <1>7, <1>8

(* The remaining steps move the main greenlet only.                        *)
LEMMA MoveStep ==
  ASSUME IInv, ~blocks,
         BodyBlock \/ BodyResume \/ BodyEnd \/ NextStops \/ NextBlocks \/ NextResumes
  PROVE  IInv'
<1> USE DEF IInv
<1>1. UNCHANGED <<greenlet, outcome, results, count, any_spawned, iteration_stopped>>
  BY DEF BodyBlock, BodyResume, BodyEnd, NextStops, NextBlocks, NextResumes
<1>2. CountInv'
  BY <1>1, PendingUnchanged
<1>3. /\ pc' \in PCs \ {"body_blocked", "raised", "body"}
      /\ pc # "raised"
      /\ pc' = "returned" => iteration_stopped \/ ~any_spawned
      /\ pc = "body" => \A f \in Funcs : greenlet[f] # "unspawned"
  BY DEF BodyBlock, BodyResume, BodyEnd, NextStops, NextBlocks, NextResumes,
         Types, PCs, Left, Blocked, AfterStop
<1>4. Types'
  BY <1>1, <1>3 DEF Types
<1>5. BodyInv'
  BY <1>1, <1>3 DEF BodyInv
<1>6. StopInv'
  BY <1>1, <1>3 DEF StopInv, AllLinked
<1>7. ErrorInv'
  BY <1>1, <1>3 DEF ErrorInv
<1>8. CauseInv'
  BY <1>1 DEF CauseInv
<1> QED
  BY <1>2, <1>4, <1>5, <1>6, <1>7, <1>8

LEMMA NextIInv ==
  ASSUME IInv, ~blocks, [Next]_vars
  PROVE  IInv'
<1>1. CASE UNCHANGED vars
  BY <1>1 DEF vars, IInv, Types, CountInv, Pending, BodyInv, StopInv, ErrorInv, CauseInv, AllLinked
<1>2. ASSUME NEW f \in Funcs, spawn(f) PROVE IInv'
  BY <1>2, SpawnStep
<1>3. CASE BodyBlock \/ BodyResume \/ BodyEnd \/ NextStops \/ NextBlocks \/ NextResumes
  BY <1>3, MoveStep
<1>4. CASE NextTakes
  BY <1>4, TakeStep
<1>5. ASSUME NEW f \in Funcs, Finish(f) PROVE IInv'
  BY <1>5, FinishStep
<1>6. ASSUME NEW f \in Funcs, _finish(f) PROVE IInv'
  BY <1>6, LinkStep
<1> QED
  BY <1>1, <1>2, <1>3, <1>4, <1>5, <1>6 DEF Next, Main, Hub

LEMMA IInvImplies == IInv => WaitsForAll /\ NoErrorLost
<1> SUFFICES ASSUME IInv, pc = "returned"
             PROVE  \A f \in Funcs : greenlet[f] = "linked" /\ outcome[f] # "error"
  BY DEF WaitsForAll, NoErrorLost
<1>1. CASE iteration_stopped
  BY <1>1 DEF IInv, StopInv, ErrorInv, AllLinked, Types
<1>2. CASE ~any_spawned
  BY <1>2 DEF IInv, BodyInv
<1> QED
  BY <1>1, <1>2 DEF IInv, StopInv

LEMMA BInvStep ==
  ASSUME BInv, [Next]_vars
  PROVE  BInv'
<1> USE DEF BInv
<1>1. CASE UNCHANGED <<greenlet, outcome>>
  BY <1>1
<1>2. ASSUME NEW f \in Funcs, spawn(f) PROVE BInv'
  BY <1>2 DEF spawn
<1>3. ASSUME NEW f \in Funcs, Finish(f) PROVE BInv'
  <2>1. PICK o \in Outcomes : outcome' = [outcome EXCEPT ![f] = o]
    BY <1>3 DEF Finish
  <2>2. o # "none" /\ o \in Outcomes
    BY DEF Outcomes
  <2>3. greenlet' = [greenlet EXCEPT ![f] = "finished"]
    BY <1>3 DEF Finish
  <2> QED
    BY <2>1, <2>2, <2>3
<1>4. ASSUME NEW f \in Funcs, _finish(f) PROVE BInv'
  BY <1>4 DEF _finish
<1> QED
  BY <1>1, <1>2, <1>3, <1>4 DEF Next, Main, Hub, vars, BodyBlock, BodyResume, BodyEnd,
                               NextStops, NextTakes, NextBlocks, NextResumes

\* The kind of body never changes.
LEMMA BodyVarsUnchanged == [Next]_vars => UNCHANGED bodyVars
BY DEF Next, Main, Hub, vars, spawn, BodyBlock, BodyResume, BodyEnd, NextStops,
       NextTakes, NextBlocks, NextResumes, Finish, _finish

\* The inductive invariant of both kinds of block.
Inv == BInv /\ (~blocks => IInv)

LEMMA InitInv == Init => Inv
<1>1. Init => BInv
  BY DEF Init, BInv, Outcomes
<1> QED
  BY <1>1, InitIInv DEF Inv

LEMMA NextInv == Inv /\ [Next]_vars => Inv'
<1> SUFFICES ASSUME Inv, [Next]_vars PROVE Inv'
  OBVIOUS
<1>1. BInv'
  BY BInvStep DEF Inv
<1>2. ASSUME ~blocks PROVE IInv'
  BY <1>2, NextIInv DEF Inv
<1>3. blocks' = blocks
  BY BodyVarsUnchanged DEF bodyVars
<1> QED
  BY <1>1, <1>2, <1>3 DEF Inv

(* With a body that does not block (unlock_safe), the block returns only   *)
(* after every function has ended, and never over an exception.            *)
THEOREM ForkJoinSafety == Spec => [](~blocks => WaitsForAll /\ NoErrorLost)
<1>1. Inv => (~blocks => WaitsForAll /\ NoErrorLost)
  BY IInvImplies DEF Inv
<1> QED
  BY <1>1, InitInv, NextInv, PTL DEF Spec

(* Every step of the block is a step of the fork-join, or none.            *)
LEMMA FinishSimulation ==
  ASSUME BInv, NEW f \in Funcs, Finish(f)
  PROVE  Abstract!Next
<1> DEFINE Ok     == {g \in Funcs : outcome[g] \in {"true", "false"}}
           Failed == {g \in Funcs : outcome[g] = "error"}
<1> USE DEF Abstract!Next
<1>1. PICK o \in Outcomes : outcome' = [outcome EXCEPT ![f] = o]
  BY DEF Finish
<1>2. outcome[f] = "none" /\ pc' = pc /\ blocks' = blocks
  BY DEF Finish, BInv, bodyVars
<1>3. \A g \in Funcs : outcome'[g] = IF g = f THEN o ELSE outcome[g]
  BY <1>1 DEF BInv
<1>4. CASE o = "error"
  <2>1. Failed' = Failed \cup {f} /\ Ok' = Ok
    BY <1>2, <1>3, <1>4
  <2> QED
    BY <2>1, <1>2 DEF Abstract!End
<1>5. CASE o # "error"
  <2>1. Failed' = Failed /\ Ok' = Ok \cup {f}
    BY <1>2, <1>3, <1>5 DEF Outcomes
  <2> QED
    BY <2>1, <1>2 DEF Abstract!End
<1> QED
  BY <1>4, <1>5

\* What the block's other steps do, when its body does not block.
LEMMA LeaveSimulation ==
  ASSUME IInv, IInv', ~blocks, ~blocks', Main
  PROVE  [Abstract!Next]_(Abstract!vars)
<1> USE DEF Abstract!Next, Abstract!vars
<1>1. UNCHANGED outcome
  BY DEF Main, spawn, BodyBlock, BodyResume, BodyEnd, NextStops, NextTakes,
         NextBlocks, NextResumes
<1>2. pc \notin Left
  BY DEF Main, spawn, BodyBlock, BodyResume, BodyEnd, NextStops, NextTakes,
         NextBlocks, NextResumes, Left
<1>3. CASE pc' = "returned"
  <2>1. WaitsForAll' /\ NoErrorLost'
    BY IInvImplies, PTL
  <2>2. \A f \in Funcs : greenlet'[f] \in {"finished", "linked"} /\ outcome'[f] # "error"
    BY <1>3, <2>1 DEF WaitsForAll, NoErrorLost
  <2>3. \A f \in Funcs : outcome'[f] \in {"true", "false"}
    BY <2>2 DEF IInv, Types, ErrorInv, Outcomes
  <2>4. Abstract!Return
    BY <1>1, <1>2, <1>3, <2>3 DEF Abstract!Return, Left
  <2> QED
    BY <2>4
<1>4. CASE pc' = "raised"
  <2>1. NextTakes
    BY <1>2, <1>4 DEF Main, spawn, BodyBlock, BodyResume, BodyEnd, NextStops,
                      NextBlocks, NextResumes, AfterStop, Left, IInv, Types
  <2>2. Head(results) = "error" /\ Len(results) > 0 /\ Head(results) = results[1]
    BY <1>4, <2>1 DEF NextTakes, AfterStop, IInv, Types, Items, Outcomes
  <2>3. \E f \in Funcs : outcome[f] = "error"
    BY <2>2 DEF IInv, CauseInv
  <2>4. Abstract!Raise
    BY <1>1, <1>2, <1>4, <2>3 DEF Abstract!Raise, Left
  <2> QED
    BY <2>4
<1>5. CASE pc' \notin Left
  BY <1>1, <1>2, <1>5
<1> QED
  BY <1>3, <1>4, <1>5 DEF Left

LEMMA StepSimulation ==
  ASSUME Inv, Inv', [Next]_vars
  PROVE  [Abstract!Next]_(Abstract!vars)
<1>0. blocks' = blocks
  BY BodyVarsUnchanged DEF bodyVars
<1>1. CASE UNCHANGED vars
  BY <1>1 DEF vars, bodyVars, Abstract!vars
<1>2. ASSUME NEW f \in Funcs, Finish(f) PROVE Abstract!Next
  BY <1>2, FinishSimulation DEF Inv
<1>3. ASSUME NEW f \in Funcs, _finish(f) PROVE UNCHANGED Abstract!vars
  BY <1>3 DEF _finish, bodyVars, Abstract!vars
<1>4. CASE Main /\ blocks
  <2>1. UNCHANGED outcome
    BY <1>4 DEF Main, spawn, BodyBlock, BodyResume, BodyEnd, NextStops, NextTakes,
                NextBlocks, NextResumes
  <2> QED
    BY <1>0, <1>4, <2>1 DEF Abstract!vars
<1>5. CASE Main /\ ~blocks
  BY <1>0, <1>5, LeaveSimulation DEF Inv
<1> QED
  BY <1>1, <1>2, <1>3, <1>4, <1>5 DEF Next, Hub

(* Every with block implements the fork-join, for every finite set of      *)
(* functions; how a block whose body blocks is left is hidden.             *)
THEOREM Implements == Spec => ImplementsForkJoin
<1>1. Init => Abstract!Init
  BY DEF Init, Abstract!Init, Left
<1>2. Inv /\ Inv' /\ [Next]_vars => [Abstract!Next]_(Abstract!vars)
  BY StepSimulation
<1> QED
  BY <1>1, <1>2, InitInv, NextInv, PTL DEF Spec, ImplementsForkJoin, Abstract!Spec
=============================================================================
