------------------------------ MODULE TaskQueue ------------------------------
(***************************************************************************)
(* The in-process task queue of core/task_queue/queue.py: submitted jobs,  *)
(* a pool of worker coroutines, start and stop.                            *)
(*                                                                         *)
(* Everything runs on one event loop, so a step is the code between two    *)
(* awaits.  A worker that finds the queue non-empty takes a job without an *)
(* await, so the loop's test of _running and the take are one step.        *)
(*                                                                         *)
(* The n-th call of submit makes job n and TaskResult object n; _results   *)
(* maps a task id to the latest of its objects, and a worker updates the   *)
(* object it finds there, which is another job's when an id is used twice. *)
(***************************************************************************)
EXTENDS Integers, Sequences, FiniteSets

CONSTANTS
    TaskIds,    \* task ids callers use
    MaxWorkers, \* _max_workers
    Stops,      \* callers of stop(wait=True)
    MaxStarts,  \* bound: calls of start that create workers
    MaxJobs     \* bound: calls of submit

ASSUME TaskQueueAssumption ==
    /\ MaxWorkers \in Nat
    /\ MaxStarts \in Nat
    /\ MaxJobs \in Nat

Jobs == 1..MaxJobs
Workers == 1..(MaxWorkers * MaxStarts)

Statuses == {"pending", "running", "completed", "failed"}

VARIABLES
    running,    \* _running
    queue,      \* _queue: jobs in submission order
    submitted,  \* how many jobs were submitted
    idOf,       \* idOf[n]: the task id of job n
    status,     \* status[n]: TaskResult n's status
    completed,  \* objects whose completed_at is set
    workers,    \* how many workers are in _workers
    at,         \* at[w]: where worker w is
    job,        \* job[w]: the job worker w runs, or was killed with, else 0
    entry,      \* entry[w]: the TaskResult it updates
    joining     \* joining[s]: workers the stop(wait=True) of s awaits

(* History, never read by the code. *)
VARIABLES
    runs,       \* runs[n]: how often job n was run
    found,      \* found[s]: how many workers s found when it began to wait
    allowed     \* max_workers for each start since no worker lived

codeVars == <<running, queue, submitted, idOf, status, completed, workers,
              at, job, entry, joining>>
vars == <<codeVars, runs, found, allowed>>
poolVars == <<running, workers, joining, found, allowed>>
jobVars == <<queue, submitted, idOf, status, completed, runs, job, entry>>

(* "ready": created or timed out, about to test _running. *)
Places == {"new", "ready", "waiting", "busy", "exited", "died"}
Ended == {"exited", "died"}

Live == { w \in 1..workers : at[w] \notin Ended }
Busy == { w \in 1..workers : at[w] = "busy" }

(* _results[task_id], the object made by the latest submit of the id. *)
EntryOf(id) ==
    CHOOSE n \in 1..submitted :
      idOf[n] = id /\ \A m \in n+1..submitted : idOf[m] # id

-----------------------------------------------------------------------------
Init ==
    /\ running = FALSE
    /\ queue = <<>>
    /\ submitted = 0
    /\ idOf \in [Jobs -> TaskIds]
    /\ status = [n \in Jobs |-> "pending"]
    /\ completed = {}
    /\ workers = 0
    /\ at = [w \in Workers |-> "new"]
    /\ job = [w \in Workers |-> 0]
    /\ entry = [w \in Workers |-> 0]
    /\ joining = [s \in Stops |-> {}]
    /\ runs = [n \in Jobs |-> 0]
    /\ found = [s \in Stops |-> 0]
    /\ allowed = 0

(* Mutants: the newest job is put first; the previous number is queued. *)
Prepend(n) == <<n>> \o queue
AppendPrevious(n) == Append(queue, n - 1)

Enqueue(n) == Append(queue, n)

(* submit may be called before start and after stop. *)
Submit ==
    /\ submitted < MaxJobs
    /\ submitted' = submitted + 1
    /\ queue' = Enqueue(submitted + 1)
    /\ UNCHANGED <<idOf, status, completed, runs, at, job, entry, poolVars>>

(* Mutant: start does not ask whether the queue is running. *)
MayStartAgain == TRUE

MayStart == ~running

(* A start of a queue that runs makes no worker; else there are max_workers  *)
(* more, next to those of earlier starts that are still alive.               *)
AllowedAfterStart ==
    (IF running THEN 0 ELSE MaxWorkers) + (IF Live = {} THEN 0 ELSE allowed)

Start ==
    /\ MayStart
    /\ workers + MaxWorkers <= MaxWorkers * MaxStarts
    /\ running' = TRUE
    /\ workers' = workers + MaxWorkers
    /\ at' = [w \in Workers |->
                IF w \in workers+1..workers+MaxWorkers THEN "ready" ELSE at[w]]
    /\ allowed' = AllowedAfterStart
    /\ UNCHANGED <<jobVars, joining, found>>

(* stop(wait=False) *)
StopNow ==
    /\ running' = FALSE
    /\ UNCHANGED <<jobVars, at, workers, joining, found, allowed>>

(* Mutant: only the workers that have a job are awaited. *)
BusyAwaited == Busy

(* The workers of _workers that have not ended. *)
Awaited == Live

(* stop(wait=True): gather over all of _workers, also next to the stop of    *)
(* another caller.                                                           *)
StopAndWait(s) ==
    /\ joining[s] = {}
    /\ running' = FALSE
    /\ joining' = [joining EXCEPT ![s] = Awaited]
    /\ found' = [found EXCEPT ![s] = IF Awaited = {} THEN 0 ELSE workers]
    /\ UNCHANGED <<jobVars, at, workers, allowed>>

(* No stop awaits a worker that has ended. *)
NoLongerAwaited(W) ==
    /\ joining' = [s \in Stops |-> joining[s] \ W]
    /\ found' = [s \in Stops |-> IF joining'[s] = {} THEN 0 ELSE found[s]]

(* The caller of stop(wait=True) is cancelled: gather cancels the workers,   *)
(* and with each the job it runs; the finally clause sets completed_at.      *)
CancelStop(s) ==
    /\ joining[s] # {}
    /\ at' = [w \in Workers |-> IF w \in joining[s] THEN "died" ELSE at[w]]
    /\ completed' = completed \cup { entry[w] : w \in joining[s] \cap Busy }
    /\ NoLongerAwaited(joining[s])
    /\ UNCHANGED <<running, queue, submitted, idOf, status, workers, job,
                   entry, runs, allowed>>

Leave(w, place) ==
    /\ at' = [at EXCEPT ![w] = place]
    /\ NoLongerAwaited({w})

(* Mutant: the job is read without being removed. *)
Peeked == queue

Rest == Tail(queue)

(* Worker w takes the first job and runs it to its first await; st is the    *)
(* status of the objects as the worker left them before.                     *)
Take(w, st) ==
    LET n == Head(queue)
        e == EntryOf(idOf[n])
    IN  /\ queue' = Rest
        /\ at' = [at EXCEPT ![w] = "busy"]
        /\ job' = [job EXCEPT ![w] = n]
        /\ entry' = [entry EXCEPT ![w] = e]
        /\ status' = [st EXCEPT ![e] = "running"]
        /\ runs' = [runs EXCEPT ![n] = @ + 1]
        /\ UNCHANGED <<joining, found>>

(* Mutant: qsize() > 1. *)
SeveralQueued == Len(queue) > 1

JobQueued == queue # <<>>

(* The worker has no job and no record any more. *)
HasNoJob(w) == job' = [job EXCEPT ![w] = 0] /\ entry' = [entry EXCEPT ![w] = 0]

(* The top of the loop: test _running, then get a job or wait for one.       *)
LoopTop(w, st) ==
    \/ /\ ~running
       /\ Leave(w, "exited")
       /\ HasNoJob(w)
       /\ status' = st
       /\ UNCHANGED <<queue, runs>>
    \/ /\ running
       /\ JobQueued
       /\ Take(w, st)
    \/ /\ running
       /\ ~JobQueued
       /\ at' = [at EXCEPT ![w] = "waiting"]
       /\ HasNoJob(w)
       /\ status' = st
       /\ UNCHANGED <<queue, runs, joining, found>>

(* Mutant: completed_at is set, and the status is left to the job. *)
StatusKept(w, outcome) == status

StatusAfter(w, outcome) == [status EXCEPT ![entry[w]] = outcome]

(* A worker's first step, or the next after the wait for a job timed out.    *)
Begin(w) ==
    /\ at[w] = "ready"
    /\ LoopTop(w, status)
    /\ UNCHANGED <<running, submitted, idOf, completed, workers, allowed>>

(* Mutant: the wait for a job has no timeout. *)
NeverTimesOut(w) == FALSE

TimesOut(w) == at[w] = "waiting"

(* wait_for ends a queue.get that has waited for a second. *)
PollTimeout(w) ==
    /\ TimesOut(w)
    /\ at' = [at EXCEPT ![w] = "ready"]
    /\ UNCHANGED <<jobVars, poolVars>>

(* The wait for a job ends with one, whether or not the queue still runs.    *)
TakeWaited(w) ==
    /\ at[w] = "waiting"
    /\ JobQueued
    /\ Take(w, status)
    /\ UNCHANGED <<running, submitted, idOf, completed, workers, allowed>>

(* The job returns or raises an Exception, and the loop goes on.             *)
Finish(w, outcome) ==
    /\ at[w] = "busy"
    /\ completed' = completed \cup {entry[w]}
    /\ LoopTop(w, StatusAfter(w, outcome))
    /\ UNCHANGED <<running, submitted, idOf, workers, allowed>>

(* The job ends with CancelledError, which is no Exception: the worker ends, *)
(* and the object keeps the status it has.                                   *)
Cancelled(w) ==
    /\ at[w] = "busy"
    /\ completed' = completed \cup {entry[w]}
    /\ Leave(w, "died")
    /\ UNCHANGED <<running, queue, submitted, idOf, status, workers, job,
                   entry, runs, allowed>>

Work(w) ==
    \/ Begin(w)
    \/ PollTimeout(w)
    \/ TakeWaited(w)
    \/ \E outcome \in {"completed", "failed"} : Finish(w, outcome)

Next ==
    \/ Submit
    \/ Start
    \/ StopNow
    \/ \E s \in Stops : StopAndWait(s) \/ CancelStop(s)
    \/ \E w \in Workers : Work(w) \/ Cancelled(w)

Spec == Init /\ [][Next]_vars

(* The event loop runs every worker that is ready, a wait for a job ends     *)
(* after a second at the latest, and the jobs given to the queue end.        *)
Fairness ==
    \A w \in Workers :
      /\ WF_vars(Begin(w))
      /\ WF_vars(PollTimeout(w) \/ TakeWaited(w))
      /\ WF_vars(\E outcome \in {"completed", "failed"} : Finish(w, outcome))

FairSpec == Spec /\ Fairness

-----------------------------------------------------------------------------
(* Type correctness. *)
TypeOK ==
    /\ running \in BOOLEAN
    /\ queue \in Seq(Jobs)
    /\ submitted \in 0..MaxJobs
    /\ idOf \in [Jobs -> TaskIds]
    /\ status \in [Jobs -> Statuses]
    /\ completed \subseteq Jobs
    /\ workers \in 0..(MaxWorkers * MaxStarts)
    /\ at \in [Workers -> Places]
    /\ job \in [Workers -> Jobs \cup {0}]
    /\ entry \in [Workers -> Jobs \cup {0}]
    /\ joining \in [Stops -> SUBSET Workers]
    /\ runs \in [Jobs -> Nat]
    /\ found \in [Stops -> 0..workers]
    /\ allowed \in 0..workers

Queued(n) == \E i \in 1..Len(queue) : queue[i] = n

(* No job is lost, run twice or run by two workers, and jobs start in the    *)
(* order of their submission, whatever the workers, start and stop do: the   *)
(* queue holds, in order, exactly the submitted jobs that were not run yet.  *)
RunsOnce ==
    /\ \A i \in 1..Len(queue) : queue[i] = submitted - Len(queue) + i
    /\ \A n \in Jobs :
         runs[n] = IF n <= submitted - Len(queue) THEN 1 ELSE 0
    /\ \A v, w \in Busy : job[v] = job[w] => v = w
    /\ \A w \in Busy : runs[job[w]] = 1

(* No task id is used for two jobs. *)
IdsUnique == \A m, n \in Jobs : idOf[m] = idOf[n] => m = n

(* With ids used once, a record tells the truth about its job: pending until *)
(* it is run, running while a worker runs it, completed_at set once none     *)
(* does, and a final status from then on unless the worker was killed.       *)
RecordsTruthful ==
    IdsUnique =>
      \A n \in 1..submitted :
        /\ status[n] = "pending" <=> runs[n] = 0
        /\ n \in completed <=> runs[n] > 0 /\ \A w \in Busy : job[w] # n
        /\ status[n] \in {"completed", "failed"} => n \in completed
        /\ \A w \in Busy : job[w] = n => status[n] = "running"
        /\ status[n] = "running" =>
             \E w \in Workers : job[w] = n /\ at[w] \in {"busy", "died"}

(* At most max_workers workers for each start since no worker lived: no more *)
(* than max_workers, unless start is called while workers of an earlier one  *)
(* are still alive, and then no more than those starts account for.          *)
PoolBound == Cardinality(Live) <= allowed

(* When a stop(wait=True) returns, at once or after it has waited, or is     *)
(* cancelled, none of the workers it was called for is left, whatever other  *)
(* stops and starts do meanwhile.                                            *)
CalledFor(s) == 1..(IF joining[s] = {} THEN workers ELSE found[s])

StopIsQuiet ==
    [][\A s \in Stops :
         /\ joining[s] # {} \/ StopAndWait(s)
         /\ joining'[s] = {}
         => Live' \cap CalledFor(s) = {}]_vars

(* The lifecycle of a task, read off the records. *)
TaskState(n) ==
    CASE n > submitted -> "new"
      [] n <= submitted /\ status[n] = "running" /\ n \in completed ->
           "abandoned"
      [] OTHER -> status[n]

AbstractTasks == [n \in Jobs |-> IF IdsUnique THEN TaskState(n) ELSE "new"]

Lifecycle == INSTANCE TaskLifecycle WITH Tasks <- Jobs, task <- AbstractTasks

(* With ids used once, what get_status shows is the lifecycle of a task.     *)
FollowsLifecycle == Lifecycle!Spec

(* A job in a queue that runs is run, unless the queue is stopped or all its *)
(* workers were killed by jobs that ended in CancelledError.                 *)
QueuedJobsRun ==
    \A n \in Jobs :
      running /\ Queued(n) ~> runs[n] > 0 \/ ~running \/ Live = {}

(* Every stop(wait=True) returns once the queue stays stopped, also one that *)
(* was overtaken by a start, whose workers then ran on until the next stop.  *)
StopReturns ==
    \A s \in Stops :
      <>[]~running => (joining[s] # {} ~> joining[s] = {})

=============================================================================
