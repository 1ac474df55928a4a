-------------------------- MODULE Executor_proofs ---------------------------
(***************************************************************************)
(* What Executor guarantees for any number of jobs, whatever their names   *)
(* have in common, and any number of failing calls and crashes.            *)
(***************************************************************************)
EXTENDS Executor, TLAPS

-----------------------------------------------------------------------------
(* Types *)

(* The current job has a name. *)
LEMMA MyName == ASSUME TypeOK, pc # "idle" PROVE cur \in Job /\ My \in Name
BY DEF TypeOK, My, NameOf, Name

(* The loop of the executor keeps the types. *)
LEMMA LoopTypes ==
  ASSUME TypeOK,
         \/ \E j \in Job, kind \in {"noSpec", "noCode", "code"} : Take(j, kind)
         \/ MakeDir \/ WriteCode \/ RemoveDir \/ SendResult
  PROVE  TypeOK'
<1> USE ExecutorAssumption DEF TypeOK, Goto, Works, Fails, Fault, Leave, Kinds, Steps, machine, ghosts, task
<1>1. ASSUME NEW j \in Job, NEW kind, Take(j, kind) PROVE TypeOK'
  BY <1>1, ExecutorAssumption DEF Take
<1>2. CASE MakeDir
  BY <1>2, MyName DEF MakeDir
<1>3. CASE WriteCode
  BY <1>3, MyName DEF WriteCode
<1>4. CASE RemoveDir
  BY <1>4, MyName DEF RemoveDir
<1>5. CASE SendResult
  BY <1>5, MyName DEF SendResult
<1> QED BY <1>1, <1>2, <1>3, <1>4, <1>5

(* So do the steps around a container, *)
LEMMA ContainerTypes ==
  ASSUME TypeOK,
         \/ Context \/ BuildImage \/ LoadImage \/ Create \/ RunnerCreate \/ Start \/ RunnerStart
         \/ Wait \/ WaitTimeout \/ CollectLogs \/ RemoveContainer \/ RemoveImage
  PROVE  TypeOK'
<1> USE ExecutorAssumption DEF TypeOK, Goto, Works, Fails, Fault, Leave, Kinds, Steps, machine, ghosts, task
<1>1. CASE Context \/ BuildImage \/ LoadImage
  BY <1>1, MyName DEF Context, BuildImage, LoadImage
<1>2. CASE Create \/ RunnerCreate
  BY <1>2, MyName DEF Create, RunnerCreate, Created, NameInUse
<1>3. CASE Start \/ RunnerStart
  BY <1>3, MyName DEF Start, RunnerStart, Started
<1>4. CASE Wait
  BY <1>4, MyName DEF Wait, AfterWait, Verdict
<1>5. CASE WaitTimeout
  BY <1>5, MyName DEF WaitTimeout, AfterWait
<1>6. CASE CollectLogs \/ RemoveImage
  BY <1>6, MyName DEF CollectLogs, RemoveImage
<1>7. CASE RemoveContainer
  BY <1>7, MyName DEF RemoveContainer
<1> QED BY <1>1, <1>2, <1>3, <1>4, <1>5, <1>6, <1>7

(* and those around a process, the code itself, and a crash. *)
LEMMA OtherTypes ==
  ASSUME TypeOK,
         \/ Pip \/ Spawn \/ StdoutEnds \/ StdoutTimeout \/ ChildWait \/ Collect
         \/ Code \/ Crash
  PROVE  TypeOK'
<1> USE ExecutorAssumption DEF TypeOK, Goto, Works, Fails, Fault, Leave, Kinds, Steps, machine, ghosts, task
<1>1. CASE Pip \/ Spawn \/ StdoutEnds \/ StdoutTimeout
  <2>1. CASE Pip
    BY <2>1 DEF Pip
  <2>2. CASE Spawn
    BY <2>2 DEF Spawn
  <2>3. CASE StdoutEnds \/ StdoutTimeout
    BY <2>3 DEF StdoutEnds, StdoutTimeout
  <2> QED BY <1>1, <2>1, <2>2, <2>3
<1>2. CASE ChildWait \/ Collect
  <2>1. CASE ChildWait
    BY <2>1 DEF ChildWait, Verdict
  <2>2. CASE Collect
    BY <2>2 DEF Collect, Verdict
  <2> QED BY <1>2, <2>1, <2>2
<1>3. ASSUME NEW n \in Name, NEW how \in {"zero", "nonzero"}, ContainerExits(n, how)
      PROVE  TypeOK'
  <2>1. /\ containers' = [containers EXCEPT ![n] = how] /\ exits' = [exits EXCEPT ![owner[n]] = how]
        /\ UNCHANGED <<mode, pc, verdict, task, dirs, images, child, heirs, left, owner, faults>>
    BY <1>3 DEF ContainerExits
  <2>2. /\ containers' \in [Name -> {"none", "created", "running", "zero", "nonzero"}]
        /\ exits' \in [Job -> {"none", "zero", "nonzero"}]
    BY <2>1
  <2> QED BY <2>1, <2>2
<1>4. CASE ChildForks \/ ChildCloses \/ HeirsExit
  <2>1. heirs' \in BOOLEAN
    BY <1>4 DEF ChildForks, ChildCloses, HeirsExit
  <2> QED BY <1>4, <2>1 DEF ChildForks, ChildCloses, HeirsExit
<1>5. ASSUME NEW how \in {"zero", "nonzero"}, ChildExits(how) PROVE TypeOK'
  BY <1>5 DEF ChildExits
<1>6. CASE Crash
  <2>1. pc # "idle" /\ (cur' = NoJob) = (pc' = "idle")
    BY <1>6 DEF Crash
  <2>2. heirs' \in BOOLEAN
    BY <1>6 DEF Crash
  <2> QED BY <1>6, <2>1, <2>2, MyName DEF Crash
<1> QED BY <1>1, <1>2, <1>3, <1>4, <1>5, <1>6 DEF Code

(* Every step keeps the types. *)
LEMMA NextTypes == ASSUME TypeOK, [Next]_vars PROVE TypeOK'
<1>1. CASE UNCHANGED vars
  BY <1>1 DEF vars, task, machine, ghosts, TypeOK
<1>2. CASE Next
  BY <1>2, LoopTypes, ContainerTypes, OtherTypes DEF Next, ExecutorStep
<1> QED BY <1>1, <1>2

(* The variables keep their types. *)
LEMMA InitTypes == ASSUME Init PROVE TypeOK
<1>1. (cur = NoJob) = (pc = "idle") /\ heirs \in BOOLEAN
  BY DEF Init
<1> QED BY <1>1, ExecutorAssumption DEF Init, TypeOK, Steps

-----------------------------------------------------------------------------
(* What is left on the machine *)

(* A step of a job concerns its own name only. *)
LEMMA OthersStayClean ==
  ASSUME OthersClean, UNCHANGED <<mode, cur>>,
         \A k \in Kinds : left[k] \subseteq left'[k],
         \A n \in Name : cur = NoJob \/ n # My =>
            /\ n \in dirs' => n \in dirs
            /\ n \in images' => n \in images
            /\ containers[n] = "none" => containers'[n] = "none"
  PROVE  OthersClean'
BY DEF OthersClean, Clean, Kinds, My, NameOf

(* The loop of the executor. *)
LEMMA LoopTidies ==
  ASSUME TypeOK, OthersClean, MineInOrder,
         \/ \E j \in Job, kind \in {"noSpec", "noCode", "code"} : Take(j, kind)
         \/ MakeDir \/ WriteCode \/ RemoveDir \/ SendResult
  PROVE  OthersClean' /\ MineInOrder'
<1> USE DEF Goto, Works, Fails, Fault, Leave, Kinds, machine, ghosts, task
<1>1. ASSUME NEW j \in Job, NEW kind \in {"noSpec", "noCode", "code"}, Take(j, kind)
      PROVE  OthersClean' /\ MineInOrder'
  <2>1. cur = NoJob /\ (mode # "runner" => \A n \in Name : Clean(n))
    BY <1>1 DEF Take, TypeOK, OthersClean
  <2>2. OthersClean'
    BY <1>1, <2>1 DEF Take, OthersClean, Clean
  <2>3. cur' # NoJob => My' \in Name /\ pc' \in {"mkdir", "send"}
    BY <1>1, <2>1 DEF Take, My, NameOf, Name
  <2>4. UNCHANGED <<mode, dirs, images, containers, left>>
    BY <1>1 DEF Take
  <2>5. MineInOrder'
    <3>1. SUFFICES ASSUME mode' # "runner", cur' # NoJob
                   PROVE  /\ My' \in dirs => My' \in left["dir"]
                          /\ My' \in images => My' \in left["image"]
                          /\ containers[My'] # "none" => My' \in left["container"]
      BY <2>4 DEF MineInOrder, My, NameOf
    <3> QED BY <2>1, <2>3, <2>4, <3>1 DEF Clean
  <2> QED BY <2>2, <2>5
<1>2. CASE MakeDir
  <2>1. OthersClean'
    BY <1>2, MyName, OthersStayClean, ExecutorAssumption DEF MakeDir
  <2>2. MineInOrder'
    BY <1>2, MyName DEF MakeDir, MineInOrder, My, NameOf
  <2> QED BY <2>1, <2>2
<1>3. CASE WriteCode
  BY <1>3, MyName, OthersStayClean DEF WriteCode, MineInOrder, My, NameOf
<1>4. CASE RemoveDir
  BY <1>4, MyName, OthersStayClean DEF RemoveDir, MineInOrder, My, NameOf
<1>5. CASE SendResult
  BY <1>5, MyName DEF SendResult, OthersClean, MineInOrder, Clean
<1> QED BY <1>1, <1>2, <1>3, <1>4, <1>5

(* The steps around a container. *)
LEMMA ContainerTidies ==
  ASSUME TypeOK, OthersClean, MineInOrder,
         \/ Context \/ BuildImage \/ LoadImage \/ Create \/ RunnerCreate \/ Start \/ RunnerStart
         \/ Wait \/ WaitTimeout \/ CollectLogs \/ RemoveContainer \/ RemoveImage
  PROVE  OthersClean' /\ MineInOrder'
<1> USE DEF Goto, Works, Fails, Fault, Leave, Kinds, machine, ghosts, task
<1>1. CASE Context \/ BuildImage \/ LoadImage
  <2>1. OthersClean'
    BY <1>1, MyName, OthersStayClean, ExecutorAssumption DEF Context, BuildImage, LoadImage
  <2>2. MineInOrder'
    BY <1>1, MyName DEF Context, BuildImage, LoadImage, MineInOrder, My, NameOf
  <2> QED BY <2>1, <2>2
<1>2. CASE Create
  BY <1>2, MyName, OthersStayClean DEF Create, Created, NameInUse, MineInOrder, My, NameOf, TypeOK
<1>3. CASE RunnerCreate
  BY <1>3, MyName, OthersStayClean DEF RunnerCreate, Created, MineInOrder, My, NameOf, TypeOK
<1>4. CASE Start \/ RunnerStart
  BY <1>4, MyName, OthersStayClean DEF Start, RunnerStart, Started, MineInOrder, My, NameOf, TypeOK
<1>5. CASE Wait \/ CollectLogs
  BY <1>5, MyName, OthersStayClean DEF Wait, CollectLogs, AfterWait, MineInOrder, My, NameOf
<1>6. CASE WaitTimeout
  BY <1>6, MyName, OthersStayClean DEF WaitTimeout, AfterWait, MineInOrder, My, NameOf, TypeOK
<1>7. CASE RemoveContainer
  BY <1>7, MyName, OthersStayClean DEF RemoveContainer, MineInOrder, My, NameOf, TypeOK
<1>8. CASE RemoveImage
  BY <1>8, MyName, OthersStayClean DEF RemoveImage, MineInOrder, My, NameOf
<1> QED BY <1>1, <1>2, <1>3, <1>4, <1>5, <1>6, <1>7, <1>8

(* A process, the code itself, and a crash, after which all may stay. *)
LEMMA OtherTidies ==
  ASSUME TypeOK, OthersClean, MineInOrder,
         \/ Pip \/ Spawn \/ StdoutEnds \/ StdoutTimeout \/ ChildWait \/ Collect
         \/ Code \/ Crash
  PROVE  OthersClean' /\ MineInOrder'
<1> USE DEF Goto, Works, Fails, Fault, Leave, Kinds, machine, ghosts, task
<1>1. CASE Pip \/ Spawn \/ StdoutEnds \/ StdoutTimeout
  BY <1>1, OthersStayClean DEF Pip, Spawn, StdoutEnds, StdoutTimeout, MineInOrder, My, NameOf
<1>2. CASE ChildWait \/ Collect
  BY <1>2, OthersStayClean DEF ChildWait, Collect, MineInOrder, My, NameOf
<1>3. ASSUME NEW n \in Name, NEW how \in {"zero", "nonzero"}, ContainerExits(n, how)
      PROVE  OthersClean' /\ MineInOrder'
  BY <1>3, OthersStayClean DEF ContainerExits, MineInOrder, My, NameOf, TypeOK
<1>4. CASE ChildForks \/ ChildCloses \/ HeirsExit
  BY <1>4, OthersStayClean DEF ChildForks, ChildCloses, HeirsExit, MineInOrder, My, NameOf
<1>5. ASSUME NEW how \in {"zero", "nonzero"}, ChildExits(how)
      PROVE  OthersClean' /\ MineInOrder'
  BY <1>5, OthersStayClean DEF ChildExits, MineInOrder, My, NameOf
<1>6. CASE Crash
  BY <1>6 DEF Crash, OthersClean, MineInOrder, Clean
<1> QED BY <1>1, <1>2, <1>3, <1>4, <1>5, <1>6 DEF Code

-----------------------------------------------------------------------------
(* What is reported *)

Truth == TakenOnce /\ OwnContainer /\ OwnChild /\ VerdictIsTrue /\ ResultsStay

(* The loop of the executor. *)
LEMMA LoopTells ==
  ASSUME TypeOK, Truth,
         \/ \E j \in Job, kind \in {"noSpec", "noCode", "code"} : Take(j, kind)
         \/ MakeDir \/ WriteCode \/ RemoveDir \/ SendResult
  PROVE  Truth'
<1> USE DEF Goto, Works, Fails, Fault, Leave, Kinds, machine, ghosts, task,
            Truth, TakenOnce, OwnContainer, OwnChild, VerdictIsTrue, ResultsStay, EndedWell,
            NotOver, My, NameOf
<1>1. ASSUME NEW j \in Job, NEW kind \in {"noSpec", "noCode", "code"}, Take(j, kind)
      PROVE  Truth'
  BY <1>1, ExecutorAssumption DEF Take, TypeOK
<1>2. CASE MakeDir
  BY <1>2 DEF MakeDir
<1>3. CASE WriteCode
  BY <1>3 DEF WriteCode
<1>4. CASE RemoveDir
  BY <1>4 DEF RemoveDir
<1>5. CASE SendResult
  BY <1>5, MyName DEF SendResult, TypeOK
<1> QED BY <1>1, <1>2, <1>3, <1>4, <1>5

(* The steps around a container. *)
LEMMA ContainerTells ==
  ASSUME TypeOK, Truth,
         \/ Context \/ BuildImage \/ LoadImage \/ Create \/ RunnerCreate \/ Start \/ RunnerStart
         \/ Wait \/ WaitTimeout \/ CollectLogs \/ RemoveContainer \/ RemoveImage
  PROVE  Truth'
<1> USE DEF Goto, Works, Fails, Fault, Leave, Kinds, machine, ghosts, task,
            Truth, TakenOnce, OwnContainer, OwnChild, VerdictIsTrue, ResultsStay, EndedWell,
            NotOver, My, NameOf
<1>1. CASE Context \/ BuildImage \/ LoadImage
  BY <1>1 DEF Context, BuildImage, LoadImage
<1>2. CASE Create
  BY <1>2, MyName DEF Create, Created, NameInUse, TypeOK
<1>3. CASE RunnerCreate
  BY <1>3, MyName DEF RunnerCreate, Created, TypeOK
<1>4. CASE Start \/ RunnerStart
  BY <1>4, MyName DEF Start, RunnerStart, Started, TypeOK
<1>5. CASE Wait
  BY <1>5, MyName DEF Wait, Verdict, AfterWait, TypeOK
<1>6. CASE WaitTimeout
  BY <1>6, MyName DEF WaitTimeout, AfterWait, TypeOK
<1>7. CASE RemoveContainer
  BY <1>7, MyName DEF RemoveContainer, TypeOK
<1>8. CASE RemoveImage \/ CollectLogs
  BY <1>8 DEF RemoveImage, CollectLogs
<1> QED BY <1>1, <1>2, <1>3, <1>4, <1>5, <1>6, <1>7, <1>8

(* A process, the code itself, and a crash. *)
LEMMA OtherTells ==
  ASSUME TypeOK, Truth,
         \/ Pip \/ Spawn \/ StdoutEnds \/ StdoutTimeout \/ ChildWait \/ Collect
         \/ Code \/ Crash
  PROVE  Truth'
<1> USE DEF Goto, Works, Fails, Fault, Leave, Kinds, machine, ghosts, task,
            Truth, TakenOnce, OwnContainer, OwnChild, VerdictIsTrue, ResultsStay, EndedWell,
            NotOver, My, NameOf
<1>1. CASE Pip \/ Spawn \/ StdoutEnds
  BY <1>1 DEF Pip, Spawn, StdoutEnds
<1>2. CASE StdoutTimeout \/ Collect
  BY <1>2 DEF StdoutTimeout, Collect
<1>3. CASE ChildWait
  BY <1>3 DEF ChildWait, Verdict, TypeOK
<1>4. ASSUME NEW n \in Name, NEW how \in {"zero", "nonzero"}, ContainerExits(n, how)
      PROVE  Truth'
  BY <1>4 DEF ContainerExits, TypeOK
<1>5. CASE ChildForks \/ ChildCloses \/ HeirsExit
  BY <1>5 DEF ChildForks, ChildCloses, HeirsExit
<1>6. ASSUME NEW how \in {"zero", "nonzero"}, ChildExits(how)
      PROVE  Truth'
  BY <1>6 DEF ChildExits, TypeOK
<1>7. CASE Crash
  BY <1>7 DEF Crash
<1> QED BY <1>1, <1>2, <1>3, <1>4, <1>5, <1>6, <1>7 DEF Code

-----------------------------------------------------------------------------
(* The theorems *)

(* The inductive invariant. *)
LEMMA MachineAndTruth == Spec => []ExecutorInv
<1>1. Init => ExecutorInv
  <2>1. ASSUME Init PROVE TakenOnce /\ OwnContainer /\ OwnChild /\ VerdictIsTrue /\ ResultsStay
    BY <2>1 DEF Init, TakenOnce, OwnContainer, OwnChild, VerdictIsTrue, ResultsStay, NotOver
  <2>2. ASSUME Init PROVE OthersClean /\ MineInOrder
    BY <2>2 DEF Init, OthersClean, MineInOrder, Clean
  <2> QED BY <2>1, <2>2, InitTypes DEF ExecutorInv
<1>2. ExecutorInv /\ [Next]_vars => ExecutorInv'
  <2> SUFFICES ASSUME ExecutorInv, [Next]_vars PROVE ExecutorInv'
    OBVIOUS
  <2>1. TypeOK'
    BY NextTypes DEF ExecutorInv
  <2>2. CASE UNCHANGED vars
    BY <2>1, <2>2 DEF vars, task, machine, ghosts, ExecutorInv, OthersClean, MineInOrder, Clean,
          TakenOnce, OwnContainer, OwnChild, VerdictIsTrue, ResultsStay, EndedWell, My, NameOf
  <2>3. CASE Next
    <3>1. Truth'
      BY <2>3, LoopTells, ContainerTells, OtherTells DEF Next, ExecutorStep, ExecutorInv, Truth
    <3>2. OthersClean' /\ MineInOrder'
      BY <2>3, LoopTidies, ContainerTidies, OtherTidies DEF Next, ExecutorStep, ExecutorInv
    <3> QED BY <2>1, <3>1, <3>2 DEF ExecutorInv, Truth
  <2> QED BY <2>2, <2>3
<1> QED BY <1>1, <1>2, PTL DEF Spec

(* Whatever fails, the names in use, the task and its results keep their types. *)
THEOREM ExecutorTyping == Spec => []TypeOK
<1>1. ExecutorInv => TypeOK
  BY DEF ExecutorInv
<1> QED BY <1>1, MachineAndTruth, PTL

(* Between two jobs of the executor's loop the machine is as before, but for *)
(* what main.rs could not remove or gave up, and no container of an earlier  *)
(* job runs beside the current one, whatever prefixes the ids of jobs share  *)
(* and whatever a failed call to Docker did all the same.                    *)
THEOREM LeavesNothing == Spec => []Tidy
<1>1. ExecutorInv => Tidy
  BY DEF ExecutorInv, TypeOK, OthersClean, Clean, Tidy
<1> QED BY <1>1, MachineAndTruth, PTL

(* A worker reports success only of code that came to its end with exit code *)
(* zero, except by run_job.                                                  *)
THEOREM SuccessIsEarned == Spec => []SuccessIsExitZero
<1>1. ExecutorInv => SuccessIsExitZero
  BY DEF ExecutorInv, ResultsStay, EndedWell, SuccessIsExitZero
<1> QED BY <1>1, MachineAndTruth, PTL
=============================================================================
