------------------------------ MODULE Executor ------------------------------
(***************************************************************************)
(* How a worker executes its jobs (decentgpu-worker, main.rs): one after   *)
(* the other, in a directory, an image and a container named after the     *)
(* first eight characters of the job's id, or in a python3 process where   *)
(* there is no Docker.  A third way, JobContext::run_job of executor/, has *)
(* no caller; it is modelled beside the other two.                         *)
(*                                                                         *)
(* A step is a call to the file system, to Docker or to the process, with  *)
(* what follows it.  What is in the files, and the lines logged, are left  *)
(* out.  A call to Docker that fails may have taken effect.  `left' are the *)
(* names whose directory, image or container may stay behind: its removal  *)
(* failed, the worker crashed, or main.rs gives up without one.            *)
(***************************************************************************)
EXTENDS Naturals

CONSTANTS Job, NoJob,
          Prefix,      \* the first eight characters of a job's id
          MaxFaults    \* bound on failing calls and crashes

VARIABLES mode,                           \* "docker", "python" or "runner"
          todo, pc, cur, verdict, result, \* the executor task and its results
          dirs, images, containers,       \* names in use on the machine
          child, heirs,                   \* the python3 process; processes it left with its pipes
          left, owner, exits,             \* history: see above; who runs in a container; exits of code
          faults

task == <<todo, cur, result>>
machine == <<dirs, images, containers, child, heirs>>
ghosts == <<left, owner, exits>>
vars == <<mode, pc, verdict, task, machine, ghosts, faults>>

ASSUME ExecutorAssumption == NoJob \notin Job /\ MaxFaults \in Nat

Name == {Prefix[j] : j \in Job} \cup Job

(* run_job uses the whole id. *)
NameOf(j) == IF mode = "runner" THEN j ELSE Prefix[j]
My == NameOf(cur)

Kinds == {"dir", "image", "container"}

Steps == {"idle", "mkdir", "write", "context", "build", "load", "create", "start", "wait",
          "logs", "removeContainer", "removeImage", "pip", "spawn", "stdout", "childWait",
          "collect", "removeDir", "send"}

TypeOK == /\ mode \in {"docker", "python", "runner"}
          /\ todo \subseteq Job /\ pc \in Steps /\ cur \in Job \cup {NoJob}
          /\ (cur = NoJob) = (pc = "idle")
          /\ verdict \in {"none", "success", "failure"}
          /\ result \in [Job -> {"none", "success", "failure"}]
          /\ dirs \subseteq Name /\ images \subseteq Name /\ left \in [Kinds -> SUBSET Name]
          /\ containers \in [Name -> {"none", "created", "running", "zero", "nonzero"}]
          /\ child \in {"none", "running", "silent", "zero", "nonzero"}
          /\ heirs \in BOOLEAN
          /\ owner \in [Name -> Job \cup {NoJob}]
          /\ exits \in [Job -> {"none", "zero", "nonzero"}]
          /\ faults \in 0..MaxFaults

Init == /\ mode \in {"docker", "python", "runner"}
        /\ todo = Job /\ pc = "idle" /\ cur = NoJob
        /\ verdict = "none" /\ result = [j \in Job |-> "none"]
        /\ dirs = {} /\ images = {} /\ containers = [n \in Name |-> "none"]
        /\ child = "none" /\ heirs = FALSE
        /\ left = [k \in Kinds |-> {}] /\ owner = [n \in Name |-> NoJob] /\ exits = [j \in Job |-> "none"]
        /\ faults = 0

Goto(from, to) == pc = from /\ pc' = to
Fault == faults < MaxFaults /\ faults' = faults + 1

(* A step of the executor that succeeds, and one that fails the job. *)
Works(from, to) == Goto(from, to) /\ UNCHANGED <<mode, task, verdict, faults>>
Fails(from, to) == Goto(from, to) /\ verdict' = "failure" /\ Fault /\ UNCHANGED <<mode, task>>

Leave(kinds) == left' = [k \in Kinds |-> left[k] \cup {n \in {My} : k \in kinds}]

-----------------------------------------------------------------------------
(* The executor's loop. *)

(* An assignment without a specification is skipped, one without code fails. *)
Take(j, kind) ==
    /\ pc = "idle" /\ j \in todo
    /\ todo' = todo \ {j}
    /\ IF kind = "noSpec"
         THEN UNCHANGED <<pc, cur, verdict>>
         ELSE /\ cur' = j
              /\ IF kind = "noCode" THEN pc' = "send" /\ verdict' = "failure"
                                    ELSE pc' = "mkdir" /\ verdict' = "none"
    /\ UNCHANGED <<mode, result, machine, ghosts, faults>>

MakeDir == /\ \/ /\ Works("mkdir", IF mode = "runner" THEN "load" ELSE "write")
                 /\ dirs' = dirs \cup {My}
              \/ Fails("mkdir", "send") /\ UNCHANGED dirs
              \/ mode = "runner" /\ Fails("mkdir", "send") /\ dirs' = dirs \cup {My}
           /\ UNCHANGED <<images, containers, child, heirs, ghosts>>

(* code.py and requirements.txt; a failure leaves the directory. *)
WriteCode == /\ \/ /\ \/ mode = "docker" /\ Works("write", "context")
                      \/ mode = "python" /\ (Works("write", "pip") \/ Works("write", "spawn"))
                   /\ UNCHANGED left
                \/ Fails("write", "send") /\ Leave({"dir"})
             /\ UNCHANGED <<machine, owner, exits>>

RemoveDir == /\ \/ Works("removeDir", "send") /\ dirs' = dirs \ {My} /\ UNCHANGED left
                \/ /\ Goto("removeDir", "send") /\ Fault /\ Leave({"dir"})
                   /\ UNCHANGED <<mode, task, verdict, dirs>>
             /\ UNCHANGED <<images, containers, child, heirs, owner, exits>>

(* Mutant: the job is not put aside. *)
SendKeepsJob == /\ Goto("send", "idle")
                /\ result' = [result EXCEPT ![cur] = verdict]
                /\ UNCHANGED <<mode, todo, cur, verdict, machine, ghosts, faults>>

SendResult == /\ Goto("send", "idle")
              /\ result' = [result EXCEPT ![cur] = verdict]
              /\ cur' = NoJob
              /\ UNCHANGED <<mode, todo, verdict, machine, ghosts, faults>>

-----------------------------------------------------------------------------
(* In a container. *)

(* Dockerfile, tar of the directory, connection to the daemon. *)
Context == /\ Works("context", "build") \/ Fails("context", "removeDir")
           /\ UNCHANGED <<machine, ghosts>>

(* A build that failed may have tagged an image all the same; the code     *)
(* returns without removing it.                                            *)
BuildImage == /\ \/ Works("build", "create") /\ images' = images \cup {My} /\ UNCHANGED left
                 \/ Fails("build", "removeDir") /\ UNCHANGED <<images, left>>
                 \/ Fails("build", "removeDir") /\ images' = images \cup {My} /\ Leave({"image"})
              /\ UNCHANGED <<dirs, containers, child, heirs, owner, exits>>

(* A name that is in use is refused. *)
Created == /\ containers[My] = "none"
           /\ containers' = [containers EXCEPT ![My] = "created"]
           /\ owner' = [owner EXCEPT ![My] = cur]

NameInUse == /\ Goto("create", "removeImage") /\ containers[My] # "none"
             /\ verdict' = "failure" /\ UNCHANGED <<mode, task, faults>>

(* The id of a container whose creation failed is not known: only the image *)
(* is removed, and the container stays if there is one.                     *)
Create == /\ mode = "docker"
          /\ \/ Works("create", "start") /\ Created /\ UNCHANGED left
             \/ /\ Fails("create", "removeImage") \/ NameInUse
                /\ UNCHANGED <<containers, left, owner>>
             \/ Fails("create", "removeImage") /\ Created /\ Leave({"container"})
          /\ UNCHANGED <<dirs, images, child, heirs, exits>>

Started == containers' = [containers EXCEPT ![My] = "running"]

(* Mutant: the container that did not start is forgotten. *)
StartForgets == /\ mode = "docker"
                /\ \/ Works("start", "wait") /\ Started
                   \/ Fails("start", "removeImage") /\ UNCHANGED containers
                /\ UNCHANGED <<dirs, images, child, heirs, ghosts>>

Start == /\ mode = "docker"
         /\ \/ Works("start", "wait") /\ Started
            \/ Fails("start", "removeContainer") /\ (UNCHANGED containers \/ Started)
         /\ UNCHANGED <<dirs, images, child, heirs, ghosts>>

AfterWait == IF mode = "docker" THEN "logs" ELSE "removeContainer"

Verdict(end) == verdict' = IF end = "zero" THEN "success" ELSE "failure"

(* Mutant: a wait that ends says nothing bad. *)
WaitAny == /\ Goto("wait", AfterWait)
           /\ \/ containers[My] \in {"zero", "nonzero"} /\ UNCHANGED faults
              \/ Fault
           /\ verdict' = "success"
           /\ UNCHANGED <<mode, task, machine, ghosts>>

(* wait_container returns the exit code, or an error; an answer that ends  *)
(* without a word is an error in main.rs and exit code 0 in run_job.       *)
Wait == /\ Goto("wait", AfterWait)
        /\ \/ containers[My] \in {"zero", "nonzero"} /\ Verdict(containers[My]) /\ UNCHANGED faults
           \/ Fault /\ verdict' = "failure"
           \/ mode = "runner" /\ Fault /\ verdict' = "success"
        /\ UNCHANGED <<mode, task, machine, ghosts>>

(* Mutant: a container may take as long as it likes. *)
WaitForEver == FALSE /\ UNCHANGED vars

(* max_duration_secs: main.rs kills the container, run_job leaves that to  *)
(* remove_container.                                                       *)
WaitTimeout ==
    /\ Goto("wait", AfterWait)
    /\ verdict' = "failure"
    /\ \/ /\ mode = "docker" /\ containers[My] = "running"
          /\ containers' = [containers EXCEPT ![My] = "nonzero"] /\ UNCHANGED faults
       \/ mode = "docker" /\ Fault /\ UNCHANGED containers
       \/ UNCHANGED <<containers, faults>> /\ (mode = "docker" => containers[My] # "running")
    /\ UNCHANGED <<mode, task, dirs, images, child, heirs, ghosts>>

(* The last 500 lines, without following. *)
CollectLogs == Works("logs", "removeContainer") /\ UNCHANGED <<machine, ghosts>>

(* Forced, so a running container is stopped; the answer is ignored. *)
RemoveContainer ==
    /\ \/ /\ Works("removeContainer", "removeImage")
          /\ containers' = [containers EXCEPT ![My] = "none"]
          /\ owner' = [owner EXCEPT ![My] = NoJob] /\ UNCHANGED left
       \/ /\ Goto("removeContainer", "removeImage") /\ Fault /\ Leave({"container"})
          /\ UNCHANGED <<mode, task, verdict, containers, owner>>
    /\ UNCHANGED <<dirs, images, child, heirs, exits>>

(* Refused while a container is made from it. *)
RemoveImage ==
    /\ \/ /\ Works("removeImage", "removeDir")
          /\ images' = images \ {My} /\ UNCHANGED left
       \/ /\ Goto("removeImage", "removeDir") /\ Leave({"image"})
          /\ Fault \/ (containers[My] # "none" /\ UNCHANGED faults)
          /\ UNCHANGED <<mode, task, verdict, images>>
    /\ UNCHANGED <<dirs, containers, child, heirs, owner, exits>>

(* The code in a container comes to an end. *)
ContainerExits(n, how) ==
    /\ containers[n] = "running"
    /\ containers' = [containers EXCEPT ![n] = how]
    /\ exits' = [exits EXCEPT ![owner[n]] = how]
    /\ UNCHANGED <<mode, pc, verdict, task, dirs, images, child, heirs, left, owner, faults>>

-----------------------------------------------------------------------------
(* run_job: an error before the wait returns at once, with all that is there. *)

LoadImage == /\ mode = "runner"
             /\ \/ Works("load", "create") /\ images' = images \cup {My}
                \/ Fails("load", "send") /\ images' \in {images, images \cup {My}}
             /\ UNCHANGED <<dirs, containers, child, heirs, ghosts>>

RunnerCreate == /\ mode = "runner"
                /\ \/ Works("create", "start") /\ Created
                   \/ Fails("create", "send") /\ (Created \/ UNCHANGED <<containers, owner>>)
                /\ UNCHANGED <<dirs, images, child, heirs, left, exits>>

RunnerStart == /\ mode = "runner"
               /\ \/ Works("start", "wait") /\ Started
                  \/ Fails("start", "send") /\ (Started \/ UNCHANGED containers)
               /\ UNCHANGED <<dirs, images, child, heirs, ghosts>>

-----------------------------------------------------------------------------
(* As a process. *)

(* pip3 install has no timeout; it may fail, and nobody minds. *)
Pip == Works("pip", "spawn") /\ UNCHANGED <<machine, ghosts>>

Spawn == /\ \/ Works("spawn", "stdout") /\ child' = "running"
            \/ Fails("spawn", "removeDir") /\ UNCHANGED child
         /\ UNCHANGED <<dirs, images, containers, heirs, ghosts>>

(* The code starts other processes, closes its output, ends. *)
ChildForks == /\ child \in {"running", "silent"} /\ heirs' = TRUE
              /\ UNCHANGED <<mode, pc, verdict, task, dirs, images, containers, child, ghosts, faults>>
ChildCloses == /\ child = "running" /\ child' = "silent"
               /\ UNCHANGED <<mode, pc, verdict, task, dirs, images, containers, heirs, ghosts, faults>>
ChildExits(how) == /\ child \in {"running", "silent"} /\ child' = how
                   /\ exits' = [exits EXCEPT ![cur] = how]
                   /\ UNCHANGED <<mode, pc, verdict, task, dirs, images, containers, heirs,
                                  left, owner, faults>>
HeirsExit == /\ heirs /\ heirs' = FALSE
             /\ UNCHANGED <<mode, pc, verdict, task, dirs, images, containers, child, ghosts, faults>>

StdoutEnds == /\ child # "running"
              /\ Works("stdout", "childWait") /\ UNCHANGED <<machine, ghosts>>

(* The timeout covers the reading of stdout; only python3 itself is killed. *)
StdoutTimeout == /\ Goto("stdout", "collect")
                 /\ verdict' = "failure"
                 /\ child' = IF child \in {"running", "silent"} THEN "nonzero" ELSE child
                 /\ UNCHANGED <<mode, task, dirs, images, containers, heirs, ghosts, faults>>

ChildWait == /\ Goto("childWait", "collect")
             /\ \/ child \in {"zero", "nonzero"} /\ Verdict(child) /\ UNCHANGED faults
                \/ Fault /\ verdict' = "failure"
             /\ UNCHANGED <<mode, task, machine, ghosts>>

(* The log channel closes when the reader of stderr has come to its end,   *)
(* which takes the end of every process that has the pipe.                 *)
Collect == /\ child \notin {"running", "silent"} /\ ~heirs
           /\ Goto("collect", "removeDir")
           /\ child' = "none"
           /\ UNCHANGED <<mode, task, verdict, dirs, images, containers, heirs, ghosts, faults>>

-----------------------------------------------------------------------------
(* The worker restarts; containers run on, and nobody looks for them.  What *)
(* becomes of a python3 process is left out.                               *)
Crash == /\ cur # NoJob /\ Fault
         /\ Leave(Kinds)
         /\ pc' = "idle" /\ cur' = NoJob
         /\ child' = "none" /\ heirs' = FALSE
         /\ UNCHANGED <<mode, todo, verdict, result, dirs, images, containers, owner, exits>>

ExecutorStep ==
    \/ MakeDir \/ WriteCode \/ RemoveDir \/ SendResult
    \/ Context \/ BuildImage \/ Create \/ Start \/ Wait \/ WaitTimeout
    \/ CollectLogs \/ RemoveContainer \/ RemoveImage
    \/ LoadImage \/ RunnerCreate \/ RunnerStart
    \/ Pip \/ Spawn \/ StdoutEnds \/ StdoutTimeout \/ ChildWait \/ Collect

Code == \/ \E n \in Name, how \in {"zero", "nonzero"} : ContainerExits(n, how)
        \/ ChildForks \/ ChildCloses \/ HeirsExit
        \/ \E how \in {"zero", "nonzero"} : ChildExits(how)

Next == \/ \E j \in Job, kind \in {"noSpec", "noCode", "code"} : Take(j, kind)
        \/ ExecutorStep
        \/ Code
        \/ Crash

Spec == Init /\ [][Next]_vars

(* Every call of the executor returns, Docker's too, and timeouts fire;    *)
(* nothing is assumed of the code it runs.                                 *)
FairSpec == Spec /\ WF_vars(ExecutorStep)

-----------------------------------------------------------------------------
(* Nothing is there under a name that should not be. *)
Clean(n) == /\ n \in dirs => n \in left["dir"]
            /\ n \in images => n \in left["image"]
            /\ containers[n] # "none" => n \in left["container"]

(* Between two jobs no directory, image or container of an earlier one is  *)
(* there, but for each of them whose own removal failed or was given up;   *)
(* and a container runs only while its job does: jobs never share the      *)
(* machine.  Of run_job it does not hold: an error before its wait returns *)
(* past cleanup_job, which "must be called regardless of job success or    *)
(* failure" (docker/cleanup.rs).                                           *)
Tidy == mode # "runner" =>
    /\ pc = "idle" => \A n \in Name : Clean(n)
    /\ \A n \in Name \ left["container"] :
         containers[n] = "running" => cur # NoJob /\ n = My

(* A success is reported only of code that ran to its end with exit code   *)
(* zero, in this job's own container or process, whatever timeouts, lost   *)
(* answers and leftovers of other jobs under the same name there were.     *)
(* Of run_job it does not hold: there silence is a success.                *)
SuccessIsExitZero ==
    mode # "runner" => \A j \in Job : result[j] = "success" => exits[j] = "zero"

(* Why these hold: a name that is not the current job's is clean, and the  *)
(* current job uses its own only between two calls;                        *)
OthersClean == mode # "runner" => \A n \in Name : cur = NoJob \/ n # My => Clean(n)
MineInOrder ==
    mode # "runner" /\ cur # NoJob =>
      /\ My \in dirs \ left["dir"] => pc \notin {"mkdir", "send"}
      /\ My \in images \ left["image"] =>
           pc \in {"create", "start", "wait", "logs", "removeContainer", "removeImage"}
      /\ containers[My] # "none" /\ My \notin left["container"] =>
           pc \in {"start", "wait", "logs", "removeContainer"}

(* a job is taken once, and reported once;                                  *)
TakenOnce == /\ \A j \in todo : result[j] = "none"
             /\ cur # NoJob => cur \notin todo /\ result[cur] = "none"

(* a container bears the name of its owner, says how the owner's code ended, *)
(* and is the current job's own when that starts it and waits for it;        *)
OwnContainer ==
    /\ \A n \in Name : containers[n] # "none" => /\ owner[n] \in Job /\ NameOf(owner[n]) = n
                                                /\ mode # "python"
    /\ \A n \in Name : containers[n] = "zero" => exits[owner[n]] = "zero"
    /\ pc = "start" => containers[My] = "created" /\ owner[My] = cur
    /\ pc = "wait" => containers[My] \in {"running", "zero", "nonzero"} /\ owner[My] = cur

(* so does the process, which is the current job's;                         *)
OwnChild ==
    /\ pc \in {"pip", "spawn", "stdout", "childWait", "collect"} => mode = "python"
    /\ child # "none" => pc \in {"stdout", "childWait", "collect"}
    /\ child = "zero" => exits[cur] = "zero"

(* the verdict waits for the end; and after a success no code of the job is *)
(* left that could end otherwise.                                           *)
NotOver == {"mkdir", "write", "context", "build", "load", "create", "start", "wait", "pip",
            "spawn", "stdout", "childWait"}
EndedWell(j) == /\ exits[j] = "zero"
                /\ \A n \in Name : containers[n] = "running" => owner[n] # j
VerdictIsTrue ==
    /\ pc \in NotOver => verdict = "none"
    /\ mode # "runner" /\ cur # NoJob /\ verdict = "success" =>
         EndedWell(cur) /\ child \notin {"running", "silent"}
ResultsStay ==
    mode # "runner" => \A j \in Job : result[j] = "success" => EndedWell(j)

ExecutorInv == /\ TypeOK
               /\ OthersClean /\ MineInOrder
               /\ TakenOnce /\ OwnContainer /\ OwnChild
               /\ VerdictIsTrue /\ ResultsStay

(* A job taken from the queue ends, also one that never stops running: in  *)
(* a container always; as a process only if whatever it leaves behind ends *)
(* in the end, for the timeout covers nothing but its output.              *)
EveryJobEnds ==
    (mode = "python" => <>[](~heirs /\ child # "silent")) =>
        \A j \in Job : cur = j ~> cur # j
=============================================================================
