------------------------------ MODULE JobServer ------------------------------
(***************************************************************************)
(* The job server of `ignite server` (tools/ignite/dashboard.go).          *)
(*                                                                         *)
(* HTTP handler goroutines (Clients) enqueue jobs and cancel them; one     *)
(* worker goroutine takes the jobs in order and runs each one as one or    *)
(* more child processes (`ignite build-one r`, `ignite workspace r`, ...). *)
(* Every critical section of d.mu is one action, and so is every access to *)
(* job.State that the worker makes WITHOUT the mutex: a cancel may fall    *)
(* between any two of them.                                                *)
(***************************************************************************)
EXTENDS Naturals, Sequences, FiniteSets, SequencesExt

CONSTANTS Jobs,        \* job ids, all distinct (newJobID)
          Clients,     \* HTTP requests handled at the same time
          None,        \* nil
          MaxPlan,     \* bound: jobs in one build plan
          MaxCommands, \* bound: recipes of one workspace job
          HistoryCap   \* finished jobs kept (100 in the code)

ASSUME JobServerAssumption ==
  /\ IsFiniteSet(Jobs)
  /\ None \notin Jobs
  /\ MaxPlan \in Nat \ {0}
  /\ MaxCommands \in Nat \ {0}
  /\ HistoryCap \in Nat \ {0}

VARIABLES
  \* the Dashboard struct, guarded by d.mu
  queue,    \* d.queue
  history,  \* d.history
  active,   \* d.active
  \* the BuildJob structs
  state,    \* job.State, "new" before the job is created
  commands, \* how many ignite processes the job runs one after the other
  pid,      \* job.pid > 0
  passed,   \* how many of them exited with status 0
  \* the worker goroutine
  worker,   \* the statement it is about to run
  exit,     \* what cmd.Wait returned, until it is judged
  nth,      \* commands already behind the loop of runBuildJob, runWorkspaceJob, ...
  runErr,   \* runErr # nil
  child,    \* the ignite child process
  \* the handler goroutines
  handler,  \* the statement each is about to run
  todo,     \* commands of each job its request has still to enqueue
  plan,     \* jobs its last request enqueued, in order (the reply's "jobs")
  target    \* the job findJob returned to it

jobVars     == <<state, commands, pid, passed>>
workerVars  == <<worker, exit, nth, runErr>>
handlerVars == <<handler, todo, plan, target>>
vars == <<queue, history, active, jobVars, workerVars, child, handlerVars>>

JobState == {"queued", "running", "success", "failed", "cancelled"}
Terminal == {"success", "failed", "cancelled"}

TypeOK ==
  /\ queue \in Seq(Jobs)
  /\ history \in Seq(Jobs)
  /\ active \in Jobs \cup {None}
  /\ state \in [Jobs -> JobState \cup {"new"}]
  /\ commands \in [Jobs -> Nat]
  /\ pid \in [Jobs -> BOOLEAN]
  /\ passed \in [Jobs -> Nat]
  /\ worker \in {"check", "asleep", "open", "spawn", "record", "wait",
                 "clear", "judge", "verdict", "write", "archive"}
  /\ exit \in {"ok", "fail"}
  /\ nth \in Nat
  /\ runErr \in BOOLEAN
  /\ child \in {"none", "alive", "signalled", "ok", "fail"}
  /\ handler \in [Clients -> {"idle", "append", "signal", "cancel"}]
  /\ todo \in [Clients -> Seq(Nat)]
  /\ plan \in [Clients -> Seq(Jobs)]
  /\ target \in [Clients -> Jobs \cup {None}]

Init ==
  /\ queue = <<>> /\ history = <<>> /\ active = None
  /\ state = [j \in Jobs |-> "new"]
  /\ commands = [j \in Jobs |-> 0]
  /\ pid = [j \in Jobs |-> FALSE]
  /\ passed = [j \in Jobs |-> 0]
  /\ worker = "check" /\ exit = "ok" /\ nth = 0 /\ runErr = FALSE
  /\ child = "none"
  /\ handler = [c \in Clients |-> "idle"]
  /\ todo = [c \in Clients |-> <<>>]
  /\ plan = [c \in Clients |-> <<>>]
  /\ target = [c \in Clients |-> None]

-----------------------------------------------------------------------------
(***************************************************************************)
(* The handlers.  A build request enqueues one job per recipe that Resolve *)
(* left uncached, each in a critical section of its own; any other request *)
(* enqueues one job.                                                       *)
(***************************************************************************)
Unissued == {j \in Jobs : state[j] = "new"}
Promised == FoldFunction(LAMBDA s, n : Len(s) + n, 0, todo)

Receive(c, sizes) ==
  /\ handler[c] = "idle"
  /\ Promised + Len(sizes) <= Cardinality(Unissued)  \* bound: the ids
  /\ todo' = [todo EXCEPT ![c] = sizes]
  /\ plan' = [plan EXCEPT ![c] = <<>>]
  /\ handler' = [handler EXCEPT ![c] = IF sizes = <<>> THEN "idle" ELSE "append"]
  /\ UNCHANGED <<queue, history, active, jobVars, workerVars, child, target>>

RequestPlan(c) == \E n \in 0..MaxPlan : Receive(c, [i \in 1..n |-> 1])
RequestJob(c) == \E n \in 1..MaxCommands : Receive(c, <<n>>)

\* Faulty variant: the new job goes in front of the queue.
EnqueueInFront(c) ==
  /\ handler[c] = "append"
  /\ \E j \in Unissued :
       /\ queue' = <<j>> \o queue
       /\ state' = [state EXCEPT ![j] = "queued"]
       /\ commands' = [commands EXCEPT ![j] = Head(todo[c])]
       /\ plan' = [plan EXCEPT ![c] = Append(@, j)]
  /\ todo' = [todo EXCEPT ![c] = Tail(@)]
  /\ handler' = [handler EXCEPT ![c] = "signal"]
  /\ UNCHANGED <<history, active, pid, passed, workerVars, child, target>>

EnqueueJob(c) ==
  /\ handler[c] = "append"
  /\ \E j \in Unissued :
       /\ queue' = Append(queue, j)
       /\ state' = [state EXCEPT ![j] = "queued"]
       /\ commands' = [commands EXCEPT ![j] = Head(todo[c])]
       /\ plan' = [plan EXCEPT ![c] = Append(@, j)]
  /\ todo' = [todo EXCEPT ![c] = Tail(@)]
  /\ handler' = [handler EXCEPT ![c] = "signal"]
  /\ UNCHANGED <<history, active, pid, passed, workerVars, child, target>>

\* Faulty variant: nobody wakes the worker.
NoBroadcast(c) ==
  /\ handler[c] = "signal"
  /\ handler' = [handler EXCEPT ![c] = IF todo[c] = <<>> THEN "idle" ELSE "append"]
  /\ UNCHANGED <<queue, history, active, jobVars, workerVars, child, todo, plan, target>>

\* d.cond.Broadcast(), after the mutex is released
Broadcast(c) ==
  /\ handler[c] = "signal"
  /\ worker' = IF worker = "asleep" THEN "check" ELSE worker
  /\ handler' = [handler EXCEPT ![c] = IF todo[c] = <<>> THEN "idle" ELSE "append"]
  /\ UNCHANGED <<queue, history, active, jobVars, exit, nth, runErr, child,
                 todo, plan, target>>

FindJob(c) ==
  /\ handler[c] = "idle"
  /\ \E j \in Range(queue) \cup Range(history) \cup ({active} \ {None}) :
       target' = [target EXCEPT ![c] = j]
  /\ handler' = [handler EXCEPT ![c] = "cancel"]
  /\ UNCHANGED <<queue, history, active, jobVars, workerVars, child, todo, plan>>

\* The pid names a live process only until cmd.Wait has reaped it.
Kill == child' = IF child = "alive" THEN "signalled" ELSE child

\* Faulty variant: the cancelled job stays in d.queue.
CancelInPlace(j) ==
  /\ state[j] = "queued"
  /\ state' = [state EXCEPT ![j] = "cancelled"]
  /\ history' = Append(history, j)
  /\ UNCHANGED <<queue, child>>

CancelQueued(j) ==
  /\ state[j] = "queued"
  /\ state' = [state EXCEPT ![j] = "cancelled"]
  /\ \E i \in DOMAIN queue : queue[i] = j /\ queue' = RemoveAt(queue, i)
  /\ history' = Append(history, j)
  /\ UNCHANGED child

CancelRunning(j) ==
  /\ state[j] = "running"
  /\ state' = [state EXCEPT ![j] = "cancelled"]
  /\ IF pid[j] THEN Kill ELSE UNCHANGED child
  /\ UNCHANGED <<queue, history>>

\* Faulty variant: a job that is over is marked cancelled.
CancelAnyway(j) ==
  /\ state[j] \in Terminal
  /\ state' = [state EXCEPT ![j] = "cancelled"]
  /\ UNCHANGED <<queue, history, child>>

CancelFinished(j) ==
  /\ state[j] \in Terminal
  /\ UNCHANGED <<queue, history, state, child>>

CancelJob(c) ==
  /\ handler[c] = "cancel"
  /\ \/ CancelQueued(target[c])
     \/ CancelRunning(target[c])
     \/ CancelFinished(target[c])
  /\ handler' = [handler EXCEPT ![c] = "idle"]
  /\ target' = [target EXCEPT ![c] = None]
  /\ UNCHANGED <<active, commands, pid, passed, workerVars, todo, plan>>

-----------------------------------------------------------------------------
(***************************************************************************)
(* The worker goroutine: workerLoop, runJob, runIgniteCLI.                 *)
(***************************************************************************)
Sleep ==
  /\ worker = "check" /\ queue = <<>>
  /\ worker' = "asleep"
  /\ UNCHANGED <<queue, history, active, jobVars, exit, nth, runErr, child, handlerVars>>

\* Faulty variant: the worker takes the job that came last.
TakeLast ==
  /\ worker = "check" /\ queue # <<>>
  /\ active' = Last(queue)
  /\ queue' = Front(queue)
  /\ state' = [state EXCEPT ![Last(queue)] = "running"]
  /\ worker' = "open"
  /\ UNCHANGED <<history, commands, pid, passed, exit, nth, runErr, child, handlerVars>>

TakeJob ==
  /\ worker = "check" /\ queue # <<>>
  /\ active' = Head(queue)
  /\ queue' = Tail(queue)
  /\ state' = [state EXCEPT ![Head(queue)] = "running"]
  /\ worker' = "open"
  /\ UNCHANGED <<history, commands, pid, passed, exit, nth, runErr, child, handlerVars>>

OpenLog ==
  /\ worker = "open"
  /\ \/ worker' = "spawn" /\ UNCHANGED state
     \/ worker' = "archive" /\ state' = [state EXCEPT ![active] = "failed"]
  /\ UNCHANGED <<queue, history, active, commands, pid, passed, exit, nth,
                 runErr, child, handlerVars>>

\* cmd.Start
Spawn ==
  /\ worker = "spawn"
  /\ \/ worker' = "record" /\ child' = "alive" /\ UNCHANGED runErr
     \/ worker' = "verdict" /\ runErr' = TRUE /\ UNCHANGED child
  /\ UNCHANGED <<queue, history, active, jobVars, exit, nth, handlerVars>>

RecordPid ==
  /\ worker = "record"
  /\ pid' = [pid EXCEPT ![active] = TRUE]
  /\ worker' = "wait"
  /\ UNCHANGED <<queue, history, active, state, commands, passed, exit, nth,
                 runErr, child, handlerVars>>

\* A child that got SIGTERM may have been past its last instruction already.
ChildExit ==
  /\ child \in {"alive", "signalled"}
  /\ child' \in {"ok", "fail"}
  /\ UNCHANGED <<queue, history, active, jobVars, workerVars, handlerVars>>

\* Faulty variant: the worker goes on before the child has ended.
ReapEarly ==
  /\ worker = "wait"
  /\ exit' = child
  /\ child' = "none"
  /\ worker' = "clear"
  /\ UNCHANGED <<queue, history, active, jobVars, nth, runErr, handlerVars>>

\* cmd.Wait returns
Reap ==
  /\ worker = "wait" /\ child \in {"ok", "fail"}
  /\ exit' = child
  /\ child' = "none"
  /\ passed' = [passed EXCEPT ![active] = IF child = "ok" THEN @ + 1 ELSE @]
  /\ worker' = "clear"
  /\ UNCHANGED <<queue, history, active, state, commands, pid, nth, runErr, handlerVars>>

\* Faulty variant: job.pid = -1 is forgotten.
KeepPid ==
  /\ worker = "clear"
  /\ worker' = "judge"
  /\ UNCHANGED <<queue, history, active, jobVars, exit, nth, runErr, child, handlerVars>>

ClearPid ==
  /\ worker = "clear"
  /\ pid' = [pid EXCEPT ![active] = FALSE]
  /\ worker' = "judge"
  /\ UNCHANGED <<queue, history, active, state, commands, passed, exit, nth,
                 runErr, child, handlerVars>>

\* Faulty variant: the result of cmd.Wait is not looked at.
JudgeBlindly ==
  /\ worker = "judge"
  /\ nth' = nth + 1
  /\ worker' = IF nth + 1 < commands[active] THEN "spawn" ELSE "verdict"
  /\ exit' = "ok"
  /\ UNCHANGED <<queue, history, active, jobVars, runErr, child, handlerVars>>

\* A failed command ends the job, unless the job is cancelled: then
\* runIgniteCLI returns nil and the loop goes on to the next recipe.
Judge ==
  /\ worker = "judge"
  /\ IF exit = "fail" /\ state[active] # "cancelled"
     THEN worker' = "verdict" /\ runErr' = TRUE /\ UNCHANGED nth
     ELSE /\ nth' = nth + 1
          /\ worker' = IF nth + 1 < commands[active] THEN "spawn" ELSE "verdict"
          /\ UNCHANGED runErr
  /\ exit' = "ok"
  /\ UNCHANGED <<queue, history, active, jobVars, child, handlerVars>>

\* Faulty variant: the outcome is written whatever job.State says.
VerdictBlindly ==
  /\ worker = "verdict"
  /\ worker' = "write"
  /\ UNCHANGED <<queue, history, active, jobVars, exit, nth, runErr, child, handlerVars>>

\* if job.State == JobCancelled { return }, without the mutex
Verdict ==
  /\ worker = "verdict"
  /\ worker' = IF state[active] = "cancelled" THEN "archive" ELSE "write"
  /\ UNCHANGED <<queue, history, active, jobVars, exit, nth, runErr, child, handlerVars>>

\* job.State = JobFailed or JobSuccess, without the mutex
WriteState ==
  /\ worker = "write"
  /\ state' = [state EXCEPT ![active] = IF runErr THEN "failed" ELSE "success"]
  /\ worker' = "archive"
  /\ UNCHANGED <<queue, history, active, commands, pid, passed, exit, nth,
                 runErr, child, handlerVars>>

Newest(s, n) == IF Len(s) > n THEN SubSeq(s, Len(s) - n + 1, Len(s)) ELSE s

Archive ==
  /\ worker = "archive"
  /\ history' = Newest(Append(history, active), HistoryCap)
  /\ active' = None
  /\ nth' = 0 /\ runErr' = FALSE
  /\ worker' = "check"
  /\ UNCHANGED <<queue, jobVars, exit, child, handlerVars>>

Worker == Sleep \/ TakeJob \/ OpenLog \/ Spawn \/ RecordPid \/ Reap \/ ClearPid
          \/ Judge \/ Verdict \/ WriteState \/ Archive

Handler(c) == RequestPlan(c) \/ RequestJob(c) \/ EnqueueJob(c) \/ Broadcast(c)
              \/ FindJob(c) \/ CancelJob(c)

Next == Worker \/ ChildExit \/ \E c \in Clients : Handler(c)

Spec == Init /\ [][Next]_vars

(***************************************************************************)
(* Goroutines are scheduled: the worker, and a handler inside a request,   *)
(* keep running.  Clients need not send requests.  That an ignite child    *)
(* process ends is an assumption on the recipes' scripts.                  *)
(***************************************************************************)
Fairness ==
  /\ WF_vars(Worker)
  /\ WF_vars(ChildExit)
  /\ \A c \in Clients : WF_vars(EnqueueJob(c) \/ Broadcast(c))

FairSpec == Spec /\ Fairness

-----------------------------------------------------------------------------
Archived(j) == state[j] # "new" /\ j \notin Range(queue) /\ j # active

(***************************************************************************)
(* A job is in one place at a time.  What waits in d.queue is exactly what *)
(* is in state queued, nothing waits or runs twice, and a job that left    *)
(* both d.queue and d.active (to d.history, or trimmed from it) is over:   *)
(* no interleaving of enqueueJob, cancel and workerLoop loses a job or     *)
(* runs one again.                                                         *)
(***************************************************************************)
OnePlace ==
  /\ \A j \in Jobs : state[j] = "queued" <=> j \in Range(queue)
  /\ \A i, k \in DOMAIN queue : queue[i] = queue[k] => i = k
  /\ \A i, k \in DOMAIN history : history[i] = history[k] => i = k
  /\ active \notin Range(queue) \cup Range(history)
  /\ \A j \in Jobs : Archived(j) => state[j] \in Terminal
  /\ \A j \in Range(history) : Archived(j)

(***************************************************************************)
(* The jobs of one build plan (dependencies first) run strictly in that    *)
(* order, whatever other requests enqueue or cancel meanwhile: when a job  *)
(* of the plan has been taken by the worker or is over by its hand, every  *)
(* earlier job of the plan is over.  (A cancelled job may have been        *)
(* withdrawn from the middle of the queue.)                                *)
(***************************************************************************)
PlanOrder ==
  \A c \in Clients : \A i, k \in DOMAIN plan[c] :
    i < k /\ state[plan[c][k]] \in {"running", "success", "failed"}
      => Archived(plan[c][i])

(***************************************************************************)
(* The state shown for a finished job is the truth about its commands:     *)
(* success only if every one of them ran and exited with status 0, even    *)
(* when a cancel raced the end of the job, and failed only if one did not. *)
(***************************************************************************)
TrueOutcome ==
  \A j \in Jobs :
    /\ state[j] = "success" => passed[j] = commands[j]
    /\ state[j] = "failed" => passed[j] < commands[j]

(***************************************************************************)
(* At most one ignite process exists and it belongs to the active job; a   *)
(* recorded pid is that of the active job.  The builds share the build     *)
(* root, the source cache and checksum.lock and rely on this.              *)
(***************************************************************************)
OneChild ==
  /\ child # "none" => active # None /\ worker \in {"record", "wait"}
  /\ \A j \in Jobs : pid[j] => j = active

(***************************************************************************)
(* A job that has been archived never changes state again: a cancel that   *)
(* looked the job up while it was live and acts after its end has no       *)
(* effect.                                                                 *)
(***************************************************************************)
ArchivedIsFinal ==
  [][\A j \in Jobs : Archived(j) => state'[j] = state[j] /\ Archived(j)']_vars

(***************************************************************************)
(* A cancel that found the child process (and sent it SIGTERM) sticks: the *)
(* job is reported cancelled for good, although the worker writes job.State*)
(* without the mutex.                                                      *)
(***************************************************************************)
KilledStaysCancelled ==
  \A j \in Jobs :
    [](state[j] = "cancelled" /\ pid[j] => [](state[j] = "cancelled"))

(***************************************************************************)
(* Every job that was enqueued is over at some time: no lost wake-up       *)
(* between Broadcast and cond.Wait, no job left behind by a cancel.        *)
(***************************************************************************)
EveryJobSettles == \A j \in Jobs : state[j] = "queued" ~> Archived(j)

(***************************************************************************)
(* The server implements the abstract queue, fairness included.            *)
(***************************************************************************)
Abstract == INSTANCE JobQueue WITH
  pending <- queue, serving <- active, settled <- {j \in Jobs : Archived(j)}

ImplementsQueue == Abstract!Spec
=============================================================================
