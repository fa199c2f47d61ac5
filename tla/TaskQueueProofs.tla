-------------------------- MODULE TaskQueueProofs --------------------------
(* Proofs about TaskQueue, for any number of jobs, workers and starts and    *)
(* any use of task ids: its types, that each job is run once and in order,   *)
(* that the pool keeps its size, and that stop leaves no worker behind; and, *)
(* with ids used once, that records tell the truth and follow TaskLifecycle. *)
EXTENDS TaskQueue, FiniteSetTheorems, TLAPS

(* The workers that were not created yet are untouched, nor awaited.         *)
Created ==
    /\ \A w \in Workers : w > workers => at[w] = "new"
    /\ \A s \in Stops : joining[s] \subseteq 1..workers

(* Every submitted id has a latest record: what _results[task_id] finds.     *)
LatestKnown ==
    \A m \in 1..submitted : \E n \in 1..submitted :
      /\ idOf[n] = idOf[m]
      /\ \A k \in n+1..submitted : idOf[k] # idOf[m]

(* A busy worker has a job and a record that were submitted.                 *)
Holding ==
    \A w \in Workers : at[w] = "busy" =>
      job[w] \in 1..submitted /\ entry[w] \in 1..submitted

(* The queue holds the latest submissions, in order.                         *)
InOrder == \A i \in 1..Len(queue) : queue[i] = submitted - Len(queue) + i

BaseInv == TypeOK /\ Created /\ LatestKnown /\ Holding /\ InOrder

-----------------------------------------------------------------------------
LEMMA PoolSize == MaxWorkers * MaxStarts \in Nat
  BY TaskQueueAssumption

LEMMA Counted ==
    /\ Workers \subseteq Nat \ {0}
    /\ TypeOK => 1..workers \subseteq Workers
  BY PoolSize DEF Workers, TypeOK

LEMMA LiveCreated == TypeOK => Live \subseteq Workers
  BY Counted DEF Live

LEMMA EntryKnown ==
    ASSUME LatestKnown, NEW m \in 1..submitted
    PROVE  EntryOf(idOf[m]) \in 1..submitted
  BY DEF LatestKnown, EntryOf

LEMMA FirstQueued ==
    ASSUME BaseInv, JobQueued
    PROVE  /\ Len(queue) \in 1..submitted
           /\ Head(queue) = submitted - Len(queue) + 1
           /\ Head(queue) \in 1..submitted
           /\ Tail(queue) \in Seq(Jobs)
           /\ Len(Tail(queue)) = Len(queue) - 1
           /\ \A i \in 1..Len(queue) - 1 : Tail(queue)[i] = queue[i + 1]
  <1>1. queue \in Seq(Jobs) /\ queue # <<>> /\ submitted \in 0..MaxJobs
    BY DEF BaseInv, TypeOK, JobQueued
  <1>2. Len(queue) \in Nat /\ Len(queue) >= 1
    BY <1>1
  <1>3. queue[1] \in Jobs /\ Head(queue) = queue[1]
    BY <1>1, <1>2
  <1>4. queue[1] = submitted - Len(queue) + 1
    BY <1>2 DEF BaseInv, InOrder
  <1> QED
    BY <1>1, <1>2, <1>3, <1>4, TaskQueueAssumption DEF Jobs

(* What worker w leaves behind as it comes to the top of its loop: records   *)
(* st and cp, changed by the job that has just ended, if one has.            *)
Released(w, st, cp) ==
    \/ at[w] \in {"ready", "waiting"} /\ st = status /\ cp = completed
    \/ /\ at[w] = "busy"
       /\ \E outcome \in {"completed", "failed"} : st = StatusAfter(w, outcome)
       /\ cp = completed \cup {entry[w]}

(* It goes on to place, "exited", "waiting" or "ready", without a job.       *)
GoesTo(w, place, st) ==
    /\ at' = [at EXCEPT ![w] = place]
    /\ status' = st
    /\ IF place = "exited" THEN NoLongerAwaited({w})
                           ELSE UNCHANGED <<joining, found>>
    /\ HasNoJob(w) \/ UNCHANGED <<job, entry>>
    /\ UNCHANGED <<queue, runs>>

Idle == {"exited", "waiting", "ready"}

LEMMA WorkCases ==
    ASSUME NEW w \in Workers, Work(w)
    PROVE  \E st, cp :
             /\ Released(w, st, cp)
             /\ completed' = cp
             /\ UNCHANGED <<running, submitted, idOf, workers, allowed>>
             /\ \/ JobQueued /\ Take(w, st)
                \/ \E place \in Idle : GoesTo(w, place, st)
  <1>1. ASSUME NEW st, LoopTop(w, st)
        PROVE  \/ JobQueued /\ Take(w, st)
               \/ \E place \in Idle : GoesTo(w, place, st)
    BY <1>1 DEF LoopTop, Leave, GoesTo, Idle
  <1>2. CASE Begin(w)
    BY <1>1, <1>2 DEF Begin, Released
  <1>3. CASE PollTimeout(w)
    BY <1>3 DEF PollTimeout, TimesOut, Released, GoesTo, Idle, jobVars,
                poolVars
  <1>4. CASE TakeWaited(w)
    BY <1>4 DEF TakeWaited, Released
  <1>5. ASSUME NEW outcome \in {"completed", "failed"}, Finish(w, outcome)
        PROVE  \E st, cp :
                 /\ Released(w, st, cp)
                 /\ completed' = cp
                 /\ UNCHANGED <<running, submitted, idOf, workers, allowed>>
                 /\ \/ JobQueued /\ Take(w, st)
                    \/ \E place \in Idle : GoesTo(w, place, st)
    BY <1>1, <1>5 DEF Finish, Released
  <1> QED
    BY <1>2, <1>3, <1>4, <1>5 DEF Work

LEMMA ReleasedTyped ==
    ASSUME BaseInv, NEW w \in Workers, NEW st, NEW cp, Released(w, st, cp)
    PROVE  st \in [Jobs -> Statuses] /\ cp \subseteq Jobs
  <1>1. status \in [Jobs -> Statuses] /\ completed \subseteq Jobs
    BY DEF BaseInv, TypeOK
  <1>2. CASE at[w] # "busy"
    BY <1>1, <1>2 DEF Released
  <1>3. CASE at[w] = "busy"
    <2>1. entry[w] \in Jobs
      BY <1>3, TaskQueueAssumption DEF BaseInv, TypeOK, Holding, Jobs
    <2> QED
      BY <1>1, <1>3, <2>1 DEF Released, StatusAfter, Statuses
  <1> QED
    BY <1>2, <1>3

LEMMA AwaitedTyped ==
    ASSUME TypeOK, UNCHANGED workers, NEW W, NoLongerAwaited(W)
    PROVE  /\ joining' \in [Stops -> SUBSET Workers]
           /\ found' \in [Stops -> 0..workers']
  <1>1. workers \in Nat
    BY PoolSize DEF TypeOK
  <1> QED
    BY <1>1 DEF TypeOK, NoLongerAwaited

-----------------------------------------------------------------------------
LEMMA BaseInit == Init => BaseInv
  <1> SUFFICES ASSUME Init
               PROVE  BaseInv
    OBVIOUS
  <1>1. 0 \in 0..MaxJobs /\ 0 \in 0..(MaxWorkers * MaxStarts)
    BY PoolSize, TaskQueueAssumption
  <1>2. TypeOK
    <2>1. /\ queue \in Seq(Jobs) /\ status \in [Jobs -> Statuses]
          /\ at \in [Workers -> Places] /\ runs \in [Jobs -> Nat]
      BY DEF Init, Statuses, Places
    <2>2. /\ job \in [Workers -> Jobs \cup {0}]
          /\ entry \in [Workers -> Jobs \cup {0}]
          /\ joining \in [Stops -> SUBSET Workers]
      BY DEF Init
    <2>3. found \in [Stops -> 0..workers] /\ allowed \in 0..workers
      BY DEF Init
    <2> QED
      BY <1>1, <2>1, <2>2, <2>3 DEF Init, TypeOK
  <1>3. Created /\ LatestKnown /\ Holding /\ InOrder
    BY DEF Init, Created, LatestKnown, Holding, InOrder
  <1> QED
    BY <1>2, <1>3 DEF BaseInv

LEMMA BaseSubmit == BaseInv /\ Submit => BaseInv'
  <1> SUFFICES ASSUME BaseInv, Submit
               PROVE  BaseInv'
    OBVIOUS
  <1>1. /\ submitted \in 0..MaxJobs /\ submitted' = submitted + 1
        /\ submitted' \in Jobs
        /\ queue' = Append(queue, submitted')
        /\ UNCHANGED <<idOf, at, job, entry>>
    BY TaskQueueAssumption DEF BaseInv, TypeOK, Submit, Enqueue, Jobs
  <1>2. queue' \in Seq(Jobs) /\ Len(queue') = Len(queue) + 1
    BY <1>1 DEF BaseInv, TypeOK
  <1>3. TypeOK'
    BY <1>1, <1>2 DEF BaseInv, TypeOK, Submit, poolVars, Jobs
  <1>4. InOrder'
    BY <1>1, <1>2 DEF BaseInv, TypeOK, InOrder
  <1>5. LatestKnown'
    <2> SUFFICES ASSUME NEW m \in 1..submitted'
                 PROVE  \E n \in 1..submitted' :
                          /\ idOf[n] = idOf[m]
                          /\ \A k \in n+1..submitted' : idOf[k] # idOf[m]
      BY <1>1 DEF LatestKnown
    <2>1. CASE idOf[m] = idOf[submitted']
      BY <1>1, <2>1
    <2>2. CASE idOf[m] # idOf[submitted']
      BY <1>1, <2>2 DEF BaseInv, LatestKnown
    <2> QED
      BY <2>1, <2>2
  <1>6. Created' /\ Holding'
    BY <1>1 DEF BaseInv, Created, Holding, Submit, poolVars
  <1> QED
    BY <1>3, <1>4, <1>5, <1>6 DEF BaseInv

LEMMA BaseTake ==
    ASSUME BaseInv, NEW w \in Workers, NEW st, NEW cp, Released(w, st, cp),
           completed' = cp, JobQueued, Take(w, st),
           UNCHANGED <<running, submitted, idOf, workers, allowed>>
    PROVE  BaseInv'
  <1> DEFINE n == Head(queue)
             e == EntryOf(idOf[n])
  <1>1. n \in 1..submitted /\ e \in 1..submitted /\ submitted \in 0..MaxJobs
    BY FirstQueued, EntryKnown DEF BaseInv, TypeOK
  <1>2. n \in Jobs /\ e \in Jobs
    BY <1>1, TaskQueueAssumption DEF Jobs
  <1>3. /\ queue' = Tail(queue)
        /\ at' = [at EXCEPT ![w] = "busy"]
        /\ job' = [job EXCEPT ![w] = n]
        /\ entry' = [entry EXCEPT ![w] = e]
        /\ status' = [st EXCEPT ![e] = "running"]
        /\ runs' = [runs EXCEPT ![n] = @ + 1]
        /\ UNCHANGED <<joining, found>>
    BY DEF Take, Rest
  <1> HIDE DEF n, e
  <1>4. TypeOK'
    <2>1. /\ queue' \in Seq(Jobs)
          /\ status' \in [Jobs -> Statuses] /\ completed' \subseteq Jobs
      BY <1>2, <1>3, ReleasedTyped, FirstQueued DEF Statuses
    <2>2. /\ at' \in [Workers -> Places]
          /\ job' \in [Workers -> Jobs \cup {0}]
          /\ entry' \in [Workers -> Jobs \cup {0}]
          /\ runs' \in [Jobs -> Nat]
      BY <1>2, <1>3 DEF BaseInv, TypeOK, Places
    <2> QED
      BY <1>3, <2>1, <2>2 DEF BaseInv, TypeOK
  <1>5. InOrder'
    <2>1. Len(queue) \in Nat /\ submitted' = submitted /\ submitted \in Nat
      BY <1>1, FirstQueued
    <2>2. ASSUME NEW i \in 1..Len(queue) - 1
          PROVE  queue'[i] = submitted - (Len(queue) - 1) + i
      <3>1. i + 1 \in 1..Len(queue) /\ queue'[i] = queue[i + 1]
        BY <1>3, <2>1, FirstQueued
      <3> QED
        BY <2>1, <3>1 DEF BaseInv, InOrder
    <2> QED
      BY <1>3, <2>1, <2>2, FirstQueued DEF InOrder
  <1>6. Created'
    BY <1>3 DEF BaseInv, TypeOK, Created, Released
  <1>7. Holding'
    BY <1>1, <1>3 DEF BaseInv, TypeOK, Holding
  <1>8. LatestKnown'
    BY DEF BaseInv, LatestKnown
  <1> QED
    BY <1>4, <1>5, <1>6, <1>7, <1>8 DEF BaseInv

LEMMA BaseGoesTo ==
    ASSUME BaseInv, NEW w \in Workers, NEW st, NEW cp, Released(w, st, cp),
           completed' = cp, NEW place \in Idle, GoesTo(w, place, st),
           UNCHANGED <<running, submitted, idOf, workers, allowed>>
    PROVE  BaseInv'
  <1>1. TypeOK'
    <2>1. /\ joining' \in [Stops -> SUBSET Workers]
          /\ found' \in [Stops -> 0..workers']
      BY AwaitedTyped DEF BaseInv, TypeOK, GoesTo
    <2>2. /\ job' \in [Workers -> Jobs \cup {0}]
          /\ entry' \in [Workers -> Jobs \cup {0}]
      BY DEF BaseInv, TypeOK, GoesTo, HasNoJob
    <2> QED
      BY <2>1, <2>2, ReleasedTyped DEF BaseInv, TypeOK, GoesTo, Idle, Places
  <1>2. Created'
    BY DEF BaseInv, TypeOK, Created, Released, GoesTo, NoLongerAwaited
  <1>3. InOrder' /\ LatestKnown' /\ Holding'
    BY DEF BaseInv, TypeOK, InOrder, LatestKnown, Holding, GoesTo, Idle,
           HasNoJob
  <1> QED
    BY <1>1, <1>2, <1>3 DEF BaseInv

LEMMA BaseStart == BaseInv /\ Start => BaseInv'
  <1> SUFFICES ASSUME BaseInv, Start
               PROVE  BaseInv'
    OBVIOUS
  <1>1. workers' \in 0..(MaxWorkers * MaxStarts) /\ workers' >= workers
    <2>1. /\ workers \in Nat /\ workers' = workers + MaxWorkers
          /\ workers + MaxWorkers <= MaxWorkers * MaxStarts
      BY PoolSize DEF BaseInv, TypeOK, Start
    <2> QED
      BY <2>1, PoolSize, TaskQueueAssumption
  <1>2. TypeOK'
    <2>1. allowed' \in 0..workers' /\ found' \in [Stops -> 0..workers']
      <3>1. /\ workers \in Nat /\ workers' = workers + MaxWorkers
            /\ allowed \in 0..workers /\ found \in [Stops -> 0..workers]
            /\ allowed' \in {0, MaxWorkers, allowed, MaxWorkers + allowed}
            /\ found' = found
        BY PoolSize, TaskQueueAssumption
        DEF BaseInv, TypeOK, Start, AllowedAfterStart
      <3> QED
        BY <3>1, TaskQueueAssumption
    <2> QED
      BY <1>1, <2>1 DEF BaseInv, TypeOK, Start, jobVars, Places
  <1>3. Created'
    <2>0. \A s \in Stops : joining'[s] \subseteq 1..workers'
      BY <1>1, PoolSize DEF BaseInv, TypeOK, Created, Start
    <2> SUFFICES ASSUME NEW w \in Workers, w > workers'
                 PROVE  at'[w] = "new"
      BY <2>0 DEF Created
    <2>1. w \in Nat /\ workers \in Nat /\ workers' = workers + MaxWorkers
      BY Counted, PoolSize DEF BaseInv, TypeOK, Start
    <2>2. w > workers /\ w \notin workers+1..workers+MaxWorkers
      BY <2>1, TaskQueueAssumption
    <2> QED
      BY <2>2 DEF BaseInv, Created, Start
  <1>4. InOrder' /\ LatestKnown'
    BY DEF BaseInv, InOrder, LatestKnown, Start, jobVars
  <1>5. Holding'
    BY DEF BaseInv, Holding, Start, jobVars
  <1> QED
    BY <1>2, <1>3, <1>4, <1>5 DEF BaseInv

LEMMA BaseStopNow == BaseInv /\ StopNow => BaseInv'
  <1> SUFFICES ASSUME BaseInv, StopNow
               PROVE  BaseInv'
    OBVIOUS
  <1>1. TypeOK'
    BY DEF BaseInv, TypeOK, StopNow, jobVars
  <1>2. Created' /\ InOrder' /\ LatestKnown' /\ Holding'
    BY DEF BaseInv, Created, InOrder, LatestKnown, Holding, StopNow, jobVars
  <1> QED
    BY <1>1, <1>2 DEF BaseInv

LEMMA BaseStop ==
    ASSUME BaseInv, NEW s \in Stops, StopAndWait(s) \/ CancelStop(s)
    PROVE  BaseInv'
  <1>1. CASE StopAndWait(s)
    <2>1. joining' \in [Stops -> SUBSET Workers]
      BY <1>1, LiveCreated DEF BaseInv, TypeOK, StopAndWait, Awaited
    <2>2. found' \in [Stops -> 0..workers]
      <3>1. workers \in Nat
        BY PoolSize DEF BaseInv, TypeOK
      <3> QED
        BY <1>1, <3>1 DEF BaseInv, TypeOK, StopAndWait
    <2>3. TypeOK'
      BY <1>1, <2>1, <2>2 DEF BaseInv, TypeOK, StopAndWait, jobVars
    <2>4. Created'
      BY <1>1 DEF BaseInv, TypeOK, Created, StopAndWait, Awaited, Live
    <2>5. InOrder' /\ LatestKnown' /\ Holding'
      BY <1>1
      DEF BaseInv, InOrder, LatestKnown, Holding, StopAndWait, jobVars
    <2> QED
      BY <2>3, <2>4, <2>5 DEF BaseInv
  <1>2. CASE CancelStop(s)
    <2>1. \A w \in joining[s] \cap Busy : entry[w] \in Jobs
      BY TaskQueueAssumption DEF BaseInv, TypeOK, Holding, Busy, Jobs
    <2>2. /\ joining' \in [Stops -> SUBSET Workers]
          /\ found' \in [Stops -> 0..workers']
      BY <1>2, AwaitedTyped DEF BaseInv, CancelStop
    <2>3. TypeOK'
      BY <1>2, <2>1, <2>2 DEF BaseInv, TypeOK, CancelStop, Places
    <2>4. Created'
      <3>1. workers' = workers /\ workers \in Nat
        BY <1>2, PoolSize DEF BaseInv, TypeOK, CancelStop
      <3>2. ASSUME NEW w \in Workers, w > workers
            PROVE  at'[w] = "new"
        BY <1>2, <3>1, <3>2, Counted DEF BaseInv, Created, CancelStop
      <3>3. \A t \in Stops : joining'[t] \subseteq 1..workers
        BY <1>2 DEF BaseInv, Created, CancelStop, NoLongerAwaited
      <3> QED
        BY <3>1, <3>2, <3>3 DEF Created
    <2>5. InOrder' /\ LatestKnown' /\ Holding'
      BY <1>2 DEF BaseInv, TypeOK, InOrder, LatestKnown, Holding, CancelStop
    <2> QED
      BY <2>3, <2>4, <2>5 DEF BaseInv
  <1> QED
    BY <1>1, <1>2

LEMMA BaseCancelled ==
    ASSUME BaseInv, NEW w \in Workers, Cancelled(w)
    PROVE  BaseInv'
  <1>1. entry[w] \in Jobs
    BY TaskQueueAssumption
    DEF BaseInv, TypeOK, Holding, Cancelled, Jobs
  <1>2. TypeOK'
    <2>1. /\ joining' \in [Stops -> SUBSET Workers]
          /\ found' \in [Stops -> 0..workers']
      BY AwaitedTyped DEF BaseInv, Cancelled, Leave
    <2> QED
      BY <1>1, <2>1 DEF BaseInv, TypeOK, Cancelled, Leave, Places
  <1>3. Created'
    BY DEF BaseInv, TypeOK, Created, Cancelled, Leave, NoLongerAwaited
  <1>4. InOrder' /\ LatestKnown' /\ Holding'
    BY DEF BaseInv, TypeOK, InOrder, LatestKnown, Holding, Cancelled, Leave
  <1> QED
    BY <1>2, <1>3, <1>4 DEF BaseInv

LEMMA BaseStep == BaseInv /\ [Next]_vars => BaseInv'
  <1> SUFFICES ASSUME BaseInv, [Next]_vars
               PROVE  BaseInv'
    OBVIOUS
  <1>1. CASE Submit
    BY <1>1, BaseSubmit
  <1>2. CASE Start
    BY <1>2, BaseStart
  <1>3. CASE StopNow
    BY <1>3, BaseStopNow
  <1>4. ASSUME NEW w \in Workers, Work(w)
        PROVE  BaseInv'
    BY <1>4, WorkCases, BaseTake, BaseGoesTo
  <1>5. ASSUME NEW w \in Workers, Cancelled(w)
        PROVE  BaseInv'
    BY <1>5, BaseCancelled
  <1>6. ASSUME NEW s \in Stops, StopAndWait(s) \/ CancelStop(s)
        PROVE  BaseInv'
    BY <1>6, BaseStop
  <1>7. CASE UNCHANGED vars
    BY <1>7 DEF BaseInv, TypeOK, Created, InOrder, LatestKnown, Holding, vars,
                codeVars
  <1> QED
    BY <1>1, <1>2, <1>3, <1>4, <1>5, <1>6, <1>7 DEF Next

(* Every variable of the queue keeps its type; above all, a worker always    *)
(* finds the record of the job it takes (_results[task_id]).                 *)
THEOREM TypeCorrect == Spec => []TypeOK
  <1>1. BaseInv => TypeOK
    BY DEF BaseInv
  <1> QED
    BY <1>1, BaseInit, BaseStep, PTL DEF Spec

-----------------------------------------------------------------------------
(* How many jobs were taken, a number that only a worker changes.            *)
TakenJobs == submitted - Len(queue)

(* A step that takes no job leaves RunsOnce alone.                           *)
LEMMA RunsLeft ==
    ASSUME RunsOnce, BaseInv', TakenJobs' = TakenJobs, Busy' \subseteq Busy,
           \A w \in Busy' : job'[w] = job[w], UNCHANGED runs
    PROVE  RunsOnce'
  BY DEF RunsOnce, BaseInv, InOrder, TakenJobs

LEMMA RunsTake ==
    ASSUME BaseInv, BaseInv', RunsOnce, NEW w \in Workers, NEW st, JobQueued,
           Take(w, st), UNCHANGED <<submitted, workers>>
    PROVE  RunsOnce'
  <1> DEFINE n == Head(queue)
  <1>1. /\ n = TakenJobs + 1 /\ n \in Jobs /\ TakenJobs \in Nat
        /\ TakenJobs' = TakenJobs + 1
    <2>1. /\ Len(queue) \in 1..submitted /\ n = submitted - Len(queue) + 1
          /\ n \in 1..submitted /\ Len(Tail(queue)) = Len(queue) - 1
      BY FirstQueued
    <2>2. submitted \in 0..MaxJobs /\ queue' = Tail(queue)
          /\ submitted' = submitted
      BY DEF BaseInv, TypeOK, Take, Rest
    <2> DEFINE len == Len(queue)
    <2>3. TakenJobs = submitted - len /\ TakenJobs' = submitted - (len - 1)
      BY <2>1, <2>2 DEF TakenJobs
    <2>4. len \in 1..submitted /\ submitted \in 0..MaxJobs
          /\ n = submitted - len + 1 /\ n \in 1..submitted
      BY <2>1, <2>2
    <2> HIDE DEF n, len
    <2> QED
      BY <2>3, <2>4, TaskQueueAssumption DEF Jobs
  <1>2. /\ at' = [at EXCEPT ![w] = "busy"]
        /\ job' = [job EXCEPT ![w] = n]
        /\ runs' = [runs EXCEPT ![n] = @ + 1]
    BY DEF Take
  <1>3. \A m \in Jobs : runs[m] = IF m <= TakenJobs THEN 1 ELSE 0
    BY DEF RunsOnce, TakenJobs
  <1>4. runs[n] = 0
    BY <1>1, <1>3
  <1> HIDE DEF n
  <1>5. \A m \in Jobs : runs'[m] = IF m <= TakenJobs' THEN 1 ELSE 0
    BY <1>1, <1>2, <1>3 DEF BaseInv, TypeOK, Jobs
  <1>6. \A v \in Busy' : v # w => v \in Busy /\ job'[v] = job[v]
    BY <1>2 DEF Busy, BaseInv, TypeOK
  <1>7. \A v \in Busy : runs[job[v]] = 1 /\ job[v] # n
    BY <1>4 DEF RunsOnce
  <1>8. job'[w] = n /\ runs'[n] = 1
    BY <1>1, <1>2, <1>4 DEF BaseInv, TypeOK
  <1>9. \A v \in Busy : v # w => runs'[job[v]] = runs[job[v]]
    BY <1>2, <1>7 DEF BaseInv, TypeOK
  <1>10. \A u, v \in Busy' : job'[u] = job'[v] => u = v
    BY <1>6, <1>7, <1>8 DEF RunsOnce
  <1>11. \A v \in Busy' : runs'[job'[v]] = 1
    BY <1>6, <1>7, <1>8, <1>9
  <1> QED
    BY <1>5, <1>10, <1>11 DEF RunsOnce, BaseInv, InOrder, TakenJobs

LEMMA RunsStep == BaseInv /\ BaseInv' /\ RunsOnce /\ [Next]_vars => RunsOnce'
  <1> SUFFICES ASSUME BaseInv, BaseInv', RunsOnce, [Next]_vars
               PROVE  RunsOnce'
    OBVIOUS
  <1>1. CASE Submit
    <2>1. TakenJobs' = TakenJobs
      BY <1>1 DEF BaseInv, TypeOK, Submit, Enqueue, TakenJobs
    <2> QED
      BY <1>1, <2>1, RunsLeft DEF Submit, poolVars, Busy
  <1>2. CASE Start
    <2>1. Busy' \subseteq Busy
      <3> SUFFICES ASSUME NEW w \in Busy'
                   PROVE  w \in Busy
        OBVIOUS
      <3>1. w \in 1..workers' /\ w \in Workers /\ at'[w] = "busy"
        BY PoolSize DEF Busy, BaseInv, TypeOK, Workers
      <3>2. at[w] = "busy"
        BY <1>2, <3>1 DEF Start
      <3>3. ~(w > workers)
        BY <3>1, <3>2 DEF BaseInv, Created
      <3> QED
        BY <3>1, <3>2, <3>3 DEF Busy, BaseInv, TypeOK
    <2> QED
      BY <1>2, <2>1, RunsLeft DEF Start, jobVars, TakenJobs
  <1>3. CASE StopNow \/ \E s \in Stops : StopAndWait(s)
    BY <1>3, RunsLeft DEF StopNow, StopAndWait, jobVars, TakenJobs, Busy
  <1>4. CASE \E s \in Stops : CancelStop(s)
    <2>1. Busy' \subseteq Busy
      BY <1>4, Counted DEF CancelStop, Busy, BaseInv
    <2> QED
      BY <1>4, <2>1, RunsLeft DEF CancelStop, TakenJobs
  <1>5. ASSUME NEW w \in Workers, Work(w)
        PROVE  RunsOnce'
    <2>1. UNCHANGED <<submitted, workers>>
      BY <1>5, WorkCases
    <2>2. CASE \E st : JobQueued /\ Take(w, st)
      BY <2>1, <2>2, RunsTake
    <2>3. ASSUME NEW st, NEW place \in Idle, GoesTo(w, place, st)
          PROVE  RunsOnce'
      <3>1. Busy' \subseteq Busy /\ \A v \in Busy' : job'[v] = job[v]
        BY <2>1, <2>3, Counted DEF GoesTo, HasNoJob, Idle, Busy, BaseInv, TypeOK
      <3> QED
        BY <2>1, <2>3, <3>1, RunsLeft DEF GoesTo, TakenJobs
    <2> QED
      BY <1>5, <2>2, <2>3, WorkCases
  <1>6. ASSUME NEW w \in Workers, Cancelled(w)
        PROVE  RunsOnce'
    <2>1. Busy' \subseteq Busy
      BY <1>6 DEF Cancelled, Leave, Busy, BaseInv, TypeOK
    <2> QED
      BY <1>6, <2>1, RunsLeft DEF Cancelled, TakenJobs
  <1>7. CASE UNCHANGED vars
    BY <1>7, RunsLeft DEF vars, codeVars, Busy, TakenJobs
  <1> QED
    BY <1>1, <1>2, <1>3, <1>4, <1>5, <1>6, <1>7 DEF Next

(* However workers, starts, stops and cancellations interleave, each job the *)
(* workers have taken was run exactly once, by one worker, and those not     *)
(* taken are all still queued, in the order of their submission.             *)
THEOREM RunsOnceKept == Spec => []RunsOnce
  <1>1. Init => RunsOnce
    BY DEF Init, RunsOnce, Busy, Jobs
  <1>2. BaseInv /\ BaseInv' /\ RunsOnce /\ [Next]_vars => RunsOnce'
    BY RunsStep
  <1> QED
    BY <1>1, <1>2, BaseInit, BaseStep, PTL DEF Spec

-----------------------------------------------------------------------------
(* The workers that live are among the latest that starts since then account *)
(* for.                                                                      *)
LatestPool == \A w \in Live : w > workers - allowed

(* A stop awaits the workers it found that live.                             *)
AwaitsFound(s) ==
    /\ joining[s] = Live \cap 1..found[s]
    /\ joining[s] = {} => found[s] = 0

PoolInv == LatestPool /\ \A s \in Stops : AwaitsFound(s)

(* A step leaves the workers that live alone, or adds to them,               *)
Adds ==
    /\ Live' \cap 1..workers = Live
    /\ UNCHANGED <<joining, found>>

(* or some of them end, and nobody awaits those any longer,                  *)
Loses(W) ==
    /\ Live' = Live \ W
    /\ NoLongerAwaited(W)
    /\ UNCHANGED <<workers, allowed>>

(* or a stop begins to await them all.                                       *)
Joins(s) ==
    /\ StopAndWait(s)
    /\ Live' = Live
    /\ UNCHANGED <<workers, allowed>>

LEMMA LiveNumbers == Live \subseteq 1..workers
  BY DEF Live

(* A worker that takes a step is alive, and dies or lives on.                *)
LEMMA WorkLive ==
    ASSUME BaseInv, NEW w \in Workers, Work(w) \/ Cancelled(w)
    PROVE  /\ (Adds /\ Live' = Live) \/ \E W : Loses(W)
           /\ UNCHANGED <<workers, allowed>>
  <1>1. at[w] \in {"ready", "waiting", "busy"}
    BY DEF Work, Begin, PollTimeout, TimesOut, TakeWaited, Finish, Cancelled
  <1>2. w \in Live
    <2>1. w \in Nat \ {0} /\ workers \in Nat
      BY Counted, PoolSize DEF BaseInv, TypeOK
    <2>2. ~(w > workers)
      BY <1>1 DEF BaseInv, Created
    <2> QED
      BY <1>1, <2>1, <2>2 DEF Live, Ended
  <1>3. UNCHANGED <<workers, allowed>>
    BY WorkCases DEF Cancelled
  <1>4. ASSUME NEW place, at' = [at EXCEPT ![w] = place], place \notin Ended
        PROVE  Live' = Live
    BY <1>2, <1>3, <1>4, Counted DEF Live, BaseInv, TypeOK
  <1>5. ASSUME NEW place \in Ended, at' = [at EXCEPT ![w] = place]
        PROVE  Live' = Live \ {w}
    BY <1>2, <1>3, <1>5, Counted DEF Live, BaseInv, TypeOK
  <1>6. CASE Cancelled(w)
    <2>1. Loses({w})
      BY <1>3, <1>5, <1>6 DEF Cancelled, Leave, Loses, Ended
    <2> QED
      BY <1>3, <2>1
  <1>7. CASE \E st : Take(w, st)
    <2>1. Live' = Live /\ UNCHANGED <<joining, found>>
      BY <1>4, <1>7 DEF Take, Ended
    <2> QED
      BY <1>3, <2>1, LiveNumbers DEF Adds
  <1>8. ASSUME NEW st, NEW place \in Idle, GoesTo(w, place, st)
        PROVE  (Adds /\ Live' = Live) \/ \E W : Loses(W)
    <2>1. CASE place = "exited"
      BY <1>3, <1>5, <1>8, <2>1 DEF GoesTo, Loses, Ended
    <2>2. CASE place # "exited"
      <3>1. Live' = Live /\ UNCHANGED <<joining, found>>
        BY <1>4, <1>8, <2>2 DEF GoesTo, Idle, Ended
      <3> QED
        BY <3>1, LiveNumbers DEF Adds
    <2> QED
      BY <2>1, <2>2
  <1> QED
    BY <1>3, <1>6, <1>7, <1>8, WorkCases

(* start adds its workers to those that live.                                *)
LEMMA StartLive ==
    ASSUME BaseInv, BaseInv', Start
    PROVE  /\ Live' = Live \cup workers+1..workers+MaxWorkers
           /\ Live' \cap 1..workers = Live
  <1>1. workers' = workers + MaxWorkers /\ workers \in Nat
    BY PoolSize DEF BaseInv, TypeOK, Start
  <1>2. 1..workers' \subseteq Workers
    BY PoolSize DEF BaseInv, TypeOK, Workers
  <1>3. \A w \in 1..workers' : w \in 1..workers <=> ~(w \in workers+1..workers')
    BY <1>1, TaskQueueAssumption
  <1>4. \A w \in 1..workers' :
          at'[w] = IF w \in workers+1..workers' THEN "ready" ELSE at[w]
    BY <1>1, <1>2 DEF Start
  <1>5. 1..workers \subseteq 1..workers' /\ workers+1..workers' \subseteq 1..workers'
    BY <1>1, TaskQueueAssumption
  <1> QED
    BY <1>1, <1>3, <1>4, <1>5 DEF Live, Ended

LEMMA PoolMoves ==
    ASSUME BaseInv, BaseInv', [Next]_vars
    PROVE  \/ /\ Adds
              /\ Start \/ (Live' = Live /\ UNCHANGED <<workers, allowed>>)
           \/ \E W : Loses(W)
           \/ \E s \in Stops : Joins(s)
  <1>1. CASE Submit \/ StopNow \/ UNCHANGED vars
    <2>1. UNCHANGED <<workers, joining, found, allowed, at>>
      BY <1>1 DEF Submit, StopNow, vars, codeVars, poolVars
    <2>2. Live' = Live
      BY <2>1 DEF Live
    <2> QED
      BY <2>1, <2>2, LiveNumbers DEF Adds
  <1>2. CASE Start
    <2>1. UNCHANGED <<joining, found>>
      BY <1>2 DEF Start
    <2>2. Live' \cap 1..workers = Live
      BY <1>2, StartLive
    <2> QED
      BY <1>2, <2>1, <2>2 DEF Adds
  <1>3. ASSUME NEW s \in Stops, StopAndWait(s)
        PROVE  Joins(s)
    BY <1>3 DEF StopAndWait, Joins, Live
  <1>4. ASSUME NEW s \in Stops, CancelStop(s)
        PROVE  Loses(joining[s])
    BY <1>4, Counted DEF CancelStop, Loses, Live, BaseInv, Ended
  <1>5. ASSUME NEW w \in Workers, Work(w) \/ Cancelled(w)
        PROVE  \/ Adds /\ Live' = Live /\ UNCHANGED <<workers, allowed>>
               \/ \E W : Loses(W)
    BY <1>5, WorkLive
  <1> QED
    BY <1>1, <1>2, <1>3, <1>4, <1>5 DEF Next

(* A stop that awaits workers goes on to await those it found that live.     *)
LEMMA AwaitsOn ==
    ASSUME BaseInv, BaseInv', PoolInv, [Next]_vars, NEW s \in Stops,
           joining[s] # {}
    PROVE  joining'[s] = Live' \cap 1..found[s]
  <1>1. /\ joining[s] = Live \cap 1..found[s] /\ found[s] \in 0..workers
        /\ workers \in Nat /\ joining \in [Stops -> SUBSET Workers]
        /\ found \in [Stops -> 0..workers]
    BY PoolSize DEF PoolInv, AwaitsFound, BaseInv, TypeOK
  <1>2. CASE Adds
    <2>1. Live' \cap 1..found[s] = Live \cap 1..found[s]
      BY <1>1, <1>2 DEF Adds
    <2> QED
      BY <1>1, <1>2, <2>1 DEF Adds
  <1>3. ASSUME NEW W, Loses(W)
        PROVE  joining'[s] = Live' \cap 1..found[s]
    BY <1>1, <1>3 DEF Loses, NoLongerAwaited
  <1>4. ASSUME NEW t \in Stops, Joins(t)
        PROVE  joining'[s] = joining[s] /\ Live' = Live
    BY <1>1, <1>4 DEF Joins, StopAndWait
  <1> QED
    BY <1>1, <1>2, <1>3, <1>4, PoolMoves

LEMMA PoolStep == BaseInv /\ BaseInv' /\ PoolInv /\ [Next]_vars => PoolInv'
  <1> SUFFICES ASSUME BaseInv, BaseInv', PoolInv, [Next]_vars
               PROVE  PoolInv'
    OBVIOUS
  <1>1. /\ workers \in Nat /\ allowed \in Nat
        /\ joining \in [Stops -> SUBSET Workers]
        /\ found \in [Stops -> 0..workers]
    BY PoolSize DEF BaseInv, TypeOK
  <1>2. LatestPool'
    <2>1. CASE Live' \subseteq Live /\ UNCHANGED <<workers, allowed>>
      BY <2>1 DEF PoolInv, LatestPool
    <2>2. CASE Start
      <3>1. /\ workers' = workers + MaxWorkers
            /\ allowed' = MaxWorkers + (IF Live = {} THEN 0 ELSE allowed)
        BY <2>2 DEF Start, MayStart, AllowedAfterStart
      <3>2. \A w \in workers+1..workers+MaxWorkers : w > workers' - allowed'
        BY <1>1, <3>1, TaskQueueAssumption
      <3>3. \A w \in Live : w > workers' - allowed'
        BY <1>1, <3>1, LiveNumbers, TaskQueueAssumption
        DEF PoolInv, LatestPool
      <3> QED
        BY <2>2, <3>2, <3>3, StartLive DEF LatestPool
    <2> QED
      BY <2>1, <2>2, PoolMoves DEF Loses, Joins
  <1>3. ASSUME NEW s \in Stops
        PROVE  AwaitsFound(s)'
    <2>1. CASE Adds
      <3>1. Live' \cap 1..found[s] = Live \cap 1..found[s]
        BY <1>1, <2>1 DEF Adds
      <3> QED
        BY <2>1, <3>1 DEF Adds, PoolInv, AwaitsFound
    <2>2. ASSUME NEW W, Loses(W)
          PROVE  AwaitsFound(s)'
      BY <1>1, <2>2 DEF Loses, NoLongerAwaited, PoolInv, AwaitsFound
    <2>3. ASSUME NEW t \in Stops, Joins(t)
          PROVE  AwaitsFound(s)'
      BY <1>1, <2>3, LiveNumbers
      DEF Joins, StopAndWait, Awaited, PoolInv, AwaitsFound
    <2> QED
      BY <2>1, <2>2, <2>3, PoolMoves
  <1> QED
    BY <1>2, <1>3 DEF PoolInv

LEMMA PoolInit == Init => PoolInv
  BY DEF Init, PoolInv, LatestPool, AwaitsFound, Live

LEMMA PoolBounded == BaseInv /\ LatestPool => PoolBound
  <1> SUFFICES ASSUME BaseInv, LatestPool
               PROVE  Cardinality(Live) <= allowed
    BY DEF PoolBound
  <1> DEFINE first == workers - allowed + 1
  <1>1. workers \in Nat /\ first \in Int /\ allowed \in 0..workers
    BY PoolSize DEF BaseInv, TypeOK
  <1>2. Live \subseteq first..workers
    BY <1>1 DEF LatestPool, Live
  <1>3. /\ IsFiniteSet(first..workers)
        /\ Cardinality(first..workers) =
             IF first > workers THEN 0 ELSE workers - first + 1
    BY <1>1, FS_Interval
  <1>4. Cardinality(first..workers) <= allowed
    BY <1>1, <1>3
  <1>5. /\ Cardinality(Live) <= Cardinality(first..workers)
        /\ Cardinality(Live) \in Nat /\ Cardinality(first..workers) \in Nat
    BY <1>2, <1>3, FS_Subset, FS_CardinalityType
  <1> QED
    BY <1>1, <1>4, <1>5

(* No more workers, and so no more jobs at once, than the starts since no    *)
(* worker lived account for: max_workers as long as start is not called      *)
(* while workers of an earlier start are alive.                              *)
THEOREM PoolBoundKept == Spec => []PoolBound
  <1>1. BaseInv /\ PoolInv => PoolBound
    BY PoolBounded DEF PoolInv
  <1> QED
    BY <1>1, BaseInit, BaseStep, PoolInit, PoolStep, PTL DEF Spec

(* A stop(wait=True) that returns, is cancelled or finds nothing to wait for *)
(* leaves none of the workers it was called for, however they end, whoever   *)
(* stops next to it and whoever starts the queue meanwhile.                  *)
THEOREM StopQuietKept == Spec => StopIsQuiet
  <1>1. ASSUME BaseInv, BaseInv', PoolInv, [Next]_vars, NEW s \in Stops,
               joining[s] # {} \/ StopAndWait(s), joining'[s] = {}
        PROVE  Live' \cap CalledFor(s) = {}
    <2>1. CASE StopAndWait(s)
      <3>1. joining' = [joining EXCEPT ![s] = Live] /\ UNCHANGED <<at, workers>>
        BY <2>1 DEF StopAndWait, Awaited
      <3>2. Live = {} /\ Live' = Live
        BY <1>1, <3>1 DEF BaseInv, TypeOK, Live
      <3> QED
        BY <3>2
    <2>2. CASE joining[s] # {}
      BY <1>1, <2>2, AwaitsOn DEF CalledFor
    <2> QED
      BY <1>1, <2>1, <2>2
  <1>2. BaseInv /\ BaseInv' /\ PoolInv /\ [Next]_vars =>
          \A s \in Stops :
            /\ joining[s] # {} \/ StopAndWait(s)
            /\ joining'[s] = {}
            => Live' \cap CalledFor(s) = {}
    BY <1>1
  <1> QED
    BY <1>2, BaseInit, BaseStep, PoolInit, PoolStep, PTL DEF Spec, StopIsQuiet

-----------------------------------------------------------------------------
(* A worker updates the record of its own job.                               *)
OwnRecord == \A w \in Workers : entry[w] = job[w]

(* What records st and cp say of job n while the workers of set B run theirs. *)
Record(n, st, cp, B) ==
    /\ st[n] = "pending" <=> runs[n] = 0
    /\ n \in cp <=> runs[n] > 0 /\ \A w \in B : job[w] # n
    /\ st[n] \in {"completed", "failed"} => n \in cp
    /\ \A w \in B : job[w] = n => st[n] = "running"
    /\ st[n] = "running" =>
         \E w \in Workers : job[w] = n /\ (w \in B \/ at[w] = "died")

Records == \A n \in Jobs : Record(n, status, completed, Busy)

RecordInv == IdsUnique => OwnRecord /\ Records

Inv == BaseInv /\ RunsOnce /\ RecordInv

LEMMA RecordsTold == BaseInv /\ RecordInv => RecordsTruthful
  BY TaskQueueAssumption
  DEF BaseInv, TypeOK, RecordInv, Records, Record, RecordsTruthful, Busy, Jobs

-----------------------------------------------------------------------------
LEMMA BusyCreated ==
    ASSUME BaseInv, NEW w \in Workers, at[w] = "busy"
    PROVE  w \in Busy
  BY Counted, PoolSize DEF BaseInv, TypeOK, Created, Busy

LEMMA BusyWorker ==
    ASSUME BaseInv, RunsOnce, OwnRecord, NEW w \in Busy
    PROVE  /\ w \in Workers /\ job[w] \in 1..submitted /\ job[w] \in Jobs
           /\ entry[w] = job[w]
           /\ runs[job[w]] = 1
           /\ \A v \in Busy \ {w} : job[v] # job[w]
  <1>1. w \in Workers /\ at[w] = "busy"
    BY Counted DEF BaseInv, Busy
  <1>2. job[w] \in 1..submitted /\ submitted \in 0..MaxJobs
    BY <1>1 DEF BaseInv, TypeOK, Holding
  <1>3. job[w] \in Jobs
    BY <1>2, TaskQueueAssumption DEF Jobs
  <1>4. runs[job[w]] = 1 /\ \A v \in Busy \ {w} : job[v] # job[w]
    BY DEF RunsOnce
  <1> QED
    BY <1>1, <1>2, <1>3, <1>4 DEF OwnRecord

LEMMA OwnEntry ==
    ASSUME IdsUnique, BaseInv, NEW m \in 1..submitted
    PROVE  EntryOf(idOf[m]) = m
  <1>1. m \in Jobs /\ 1..submitted \subseteq Jobs
    BY TaskQueueAssumption DEF BaseInv, TypeOK, Jobs
  <1>2. idOf[EntryOf(idOf[m])] = idOf[m] /\ EntryOf(idOf[m]) \in 1..submitted
    BY DEF BaseInv, LatestKnown, EntryOf
  <1> QED
    BY <1>1, <1>2 DEF IdsUnique

(* The records as a worker leaves them at the top of its loop.               *)
LEMMA ReleasedRecord ==
    ASSUME BaseInv, RunsOnce, OwnRecord, Records,
           NEW w \in Workers, NEW st, NEW cp, Released(w, st, cp),
           NEW n \in Jobs
    PROVE  Record(n, st, cp, Busy \ {w})
  <1>1. Record(n, status, completed, Busy)
    BY DEF Records
  <1>2. CASE at[w] # "busy"
    <2>1. Busy \ {w} = Busy
      BY <1>2 DEF Busy
    <2> QED
      BY <1>1, <1>2, <2>1 DEF Released
  <1>3. CASE at[w] = "busy"
    <2>1. w \in Busy
      BY <1>3, BusyCreated
    <2>2. /\ job[w] \in Jobs /\ entry[w] = job[w] /\ runs[job[w]] = 1
          /\ \A v \in Busy \ {w} : job[v] # job[w]
      BY <2>1, BusyWorker
    <2>3. PICK outcome \in {"completed", "failed"} :
            st = [status EXCEPT ![job[w]] = outcome]
      BY <1>3, <2>2 DEF Released, StatusAfter
    <2>4. cp = completed \cup {job[w]}
      BY <1>3, <2>2 DEF Released
    <2>5. CASE n = job[w]
      <3>1. st[n] = outcome /\ runs[n] = 1 /\ n \in cp
        BY <2>2, <2>3, <2>4, <2>5 DEF BaseInv, TypeOK
      <3> QED
        BY <2>2, <2>5, <3>1 DEF Record
    <2>6. CASE n # job[w]
      <3>1. st[n] = status[n] /\ (n \in cp <=> n \in completed)
        BY <2>3, <2>4, <2>6 DEF BaseInv, TypeOK
      <3> QED
        BY <1>1, <1>3, <2>6, <3>1 DEF Record
    <2> QED
      BY <2>5, <2>6
  <1> QED
    BY <1>2, <1>3

LEMMA RecordTake ==
    ASSUME IdsUnique, BaseInv, RunsOnce, OwnRecord, Records,
           NEW w \in Workers, NEW st, NEW cp, Released(w, st, cp),
           completed' = cp, JobQueued, Take(w, st),
           UNCHANGED <<submitted, workers, idOf>>
    PROVE  OwnRecord' /\ Records'
  <1> DEFINE m == Head(queue)
  <1>1. m \in 1..submitted /\ m \in Jobs /\ runs[m] = 0 /\ EntryOf(idOf[m]) = m
    <2>1. /\ m \in 1..submitted /\ submitted \in 0..MaxJobs
          /\ m = submitted - Len(queue) + 1 /\ Len(queue) \in Nat
      BY FirstQueued DEF BaseInv, TypeOK
    <2> HIDE DEF m
    <2>2. m \in Jobs /\ ~(m <= submitted - Len(queue))
      BY <2>1, TaskQueueAssumption DEF Jobs
    <2>3. runs[m] = 0
      BY <2>2 DEF RunsOnce
    <2> QED
      BY <2>1, <2>2, <2>3, OwnEntry
  <1>2. /\ at' = [at EXCEPT ![w] = "busy"]
        /\ job' = [job EXCEPT ![w] = m]
        /\ entry' = [entry EXCEPT ![w] = m]
        /\ status' = [st EXCEPT ![m] = "running"]
        /\ runs' = [runs EXCEPT ![m] = @ + 1]
    BY <1>1 DEF Take
  <1> HIDE DEF m
  <1>3. st \in [Jobs -> Statuses]
    BY ReleasedTyped
  <1>4. OwnRecord'
    BY <1>2 DEF OwnRecord, BaseInv, TypeOK
  <1>5. w \in 1..workers
    <2>1. w \in Nat \ {0} /\ workers \in Nat
      BY Counted, PoolSize DEF BaseInv, TypeOK
    <2>2. at[w] # "new"
      BY DEF Released
    <2> QED
      BY <2>1, <2>2 DEF BaseInv, Created
  <1>6. Busy' = (Busy \ {w}) \cup {w}
    BY <1>2, <1>5, Counted DEF Busy, BaseInv, TypeOK
  <1>7. \A v \in Workers \ {w} : job'[v] = job[v] /\ at'[v] = at[v]
    BY <1>2 DEF BaseInv, TypeOK
  <1>8. job'[w] = m /\ at'[w] = "busy" /\ at[w] # "died"
    BY <1>2 DEF BaseInv, TypeOK, Released
  <1>9. Busy \ {w} \subseteq Workers \ {w}
    BY Counted DEF Busy, BaseInv
  <1>10. ASSUME NEW n \in Jobs
         PROVE  Record(n, status, completed, Busy)'
    <2>1. Record(n, st, cp, Busy \ {w})
      BY ReleasedRecord
    <2>2. CASE n = m
      <3>1. status'[n] = "running" /\ runs'[n] = 1
        BY <1>1, <1>2, <1>3, <2>2 DEF BaseInv, TypeOK
      <3>2. n \notin cp
        BY <1>1, <2>1, <2>2 DEF Record
      <3> QED
        BY <1>6, <1>8, <2>2, <3>1, <3>2 DEF Record
    <2>3. CASE n # m
      <3>1. status'[n] = st[n] /\ runs'[n] = runs[n]
        BY <1>2, <1>3, <2>3 DEF BaseInv, TypeOK
      <3> QED
        BY <1>6, <1>7, <1>8, <1>9, <2>1, <2>3, <3>1 DEF Record
    <2> QED
      BY <2>2, <2>3
  <1> QED
    BY <1>4, <1>10 DEF Records

LEMMA RecordGoesTo ==
    ASSUME BaseInv, RunsOnce, OwnRecord, Records,
           NEW w \in Workers, NEW st, NEW cp, Released(w, st, cp),
           completed' = cp, NEW place \in Idle, GoesTo(w, place, st),
           UNCHANGED <<submitted, workers, idOf>>
    PROVE  OwnRecord' /\ Records'
  <1>1. /\ at' = [at EXCEPT ![w] = place] /\ status' = st /\ UNCHANGED runs
        /\ \A v \in Workers \ {w} : job'[v] = job[v]
    BY DEF GoesTo, HasNoJob, BaseInv, TypeOK
  <1>2. Busy' = Busy \ {w}
    BY <1>1, Counted DEF Busy, BaseInv, TypeOK, Idle
  <1>3. \A v \in Workers : at[v] = "died" => at'[v] = "died"
    BY <1>1 DEF Released, BaseInv, TypeOK
  <1>4. Busy \ {w} \subseteq Workers \ {w} /\ at[w] # "died"
    BY Counted DEF Busy, BaseInv, Released
  <1>5. ASSUME NEW n \in Jobs
        PROVE  Record(n, status, completed, Busy)'
    <2>1. Record(n, st, cp, Busy \ {w})
      BY ReleasedRecord
    <2> QED
      BY <1>1, <1>2, <1>3, <1>4, <2>1 DEF Record
  <1>6. OwnRecord'
    BY DEF OwnRecord, GoesTo, HasNoJob, BaseInv, TypeOK
  <1> QED
    BY <1>5, <1>6 DEF Records

(* Workers K are killed, and so are the jobs they run.                       *)
LEMMA RecordKilled ==
    ASSUME BaseInv, RunsOnce, OwnRecord, Records, NEW K \in SUBSET Workers,
           completed' = completed \cup { entry[w] : w \in K \cap Busy },
           at' = [w \in Workers |-> IF w \in K THEN "died" ELSE at[w]],
           UNCHANGED <<workers, status, job, entry, runs>>
    PROVE  OwnRecord' /\ Records'
  <1>1. Busy' = Busy \ K
    BY Counted DEF Busy, BaseInv
  <1>2. ASSUME NEW n \in Jobs
        PROVE  Record(n, status, completed, Busy)'
    <2>1. Record(n, status, completed, Busy)
      BY DEF Records
    <2>2. n \in completed' <=> n \in completed \/ \E w \in K \cap Busy : job[w] = n
      BY BusyWorker
    <2>3. \A w \in Busy : job[w] = n => runs[n] = 1
      BY BusyWorker
    <2>4. \A v, w \in Busy : job[v] = n /\ job[w] = n => v = w
      BY DEF RunsOnce
    <2>5. n \in completed' <=>
            runs'[n] > 0 /\ \A w \in Busy' : job'[w] # n
      BY <1>1, <2>1, <2>2, <2>3, <2>4 DEF Record
    <2>6. status'[n] = "running" =>
            \E w \in Workers : job'[w] = n /\ (w \in Busy' \/ at'[w] = "died")
      BY <1>1, <2>1 DEF Record
    <2> QED
      BY <1>1, <2>1, <2>2, <2>5, <2>6 DEF Record
  <1> QED
    BY <1>2 DEF OwnRecord, Records

(* A step of the pool that ends no job.                                      *)
LEMMA RecordLeft ==
    ASSUME OwnRecord, Records, Busy' = Busy,
           \A w \in Workers : at[w] = "died" => at'[w] = "died",
           UNCHANGED <<status, completed, job, entry, runs>>
    PROVE  OwnRecord' /\ Records'
  BY DEF OwnRecord, Records, Record

LEMMA StartKeepsBusy ==
    ASSUME BaseInv, BaseInv', Start
    PROVE  /\ Busy' = Busy
           /\ \A w \in Workers : at[w] \in {"busy", "died"} => at'[w] = at[w]
  <1>1. \A w \in Workers : at[w] \in {"busy", "died"} => at'[w] = at[w]
    <2> SUFFICES ASSUME NEW w \in Workers, at[w] \in {"busy", "died"}
                 PROVE  at'[w] = at[w]
      OBVIOUS
    <2>1. w \in Nat /\ workers \in Nat
      BY Counted, PoolSize DEF BaseInv, TypeOK
    <2>2. ~(w > workers)
      BY DEF BaseInv, Created
    <2>3. w \notin workers+1..workers+MaxWorkers
      BY <2>1, <2>2, TaskQueueAssumption
    <2> QED
      BY <2>3 DEF Start
  <1>2. ASSUME NEW w \in Workers
        PROVE  w \in Busy' <=> w \in Busy
    <2>1. at'[w] = "busy" <=> at[w] = "busy"
      <3>1. at'[w] = IF w \in workers+1..workers+MaxWorkers THEN "ready"
                     ELSE at[w]
        BY DEF Start
      <3> QED
        BY <1>1, <3>1
    <2>2. workers' = workers + MaxWorkers /\ workers \in Nat /\ w \in Nat
      BY Counted, PoolSize DEF Start, BaseInv, TypeOK
    <2>3. at[w] = "busy" => w \in 1..workers
      BY BusyCreated DEF Busy
    <2> QED
      BY <2>1, <2>2, <2>3, TaskQueueAssumption DEF Busy
  <1>3. Busy \subseteq Workers /\ Busy' \subseteq Workers
    BY PoolSize DEF Busy, BaseInv, TypeOK, Workers
  <1> QED
    BY <1>1, <1>2, <1>3

LEMMA IdsKept == [Next]_vars => UNCHANGED <<idOf, IdsUnique>>
  <1>1. \A w \in Workers : Work(w) => UNCHANGED idOf
    BY WorkCases
  <1>2. [Next]_vars => UNCHANGED idOf
    BY <1>1
    DEF Next, Submit, Start, StopNow, StopAndWait, CancelStop, Cancelled,
        jobVars, vars, codeVars
  <1> QED
    BY <1>2 DEF IdsUnique

LEMMA RecordStep == Inv /\ BaseInv' /\ [Next]_vars => RecordInv'
  <1> SUFFICES ASSUME Inv, BaseInv', [Next]_vars
               PROVE  RecordInv'
    OBVIOUS
  <1> SUFFICES ASSUME IdsUnique
               PROVE  OwnRecord' /\ Records'
    BY IdsKept DEF RecordInv
  <1>1. BaseInv /\ RunsOnce /\ OwnRecord /\ Records
    BY DEF Inv, RecordInv
  <1>2. CASE Submit
    BY <1>1, <1>2, RecordLeft DEF Submit, poolVars, Busy
  <1>3. CASE Start
    BY <1>1, <1>3, StartKeepsBusy, RecordLeft DEF Start, jobVars
  <1>4. CASE StopNow \/ \E s \in Stops : StopAndWait(s)
    BY <1>1, <1>4, RecordLeft DEF StopNow, StopAndWait, jobVars, Busy
  <1>5. ASSUME NEW s \in Stops, CancelStop(s)
        PROVE  OwnRecord' /\ Records'
    <2>1. joining[s] \subseteq Workers
      BY <1>1 DEF BaseInv, TypeOK
    <2> QED
      BY <1>1, <1>5, <2>1, RecordKilled DEF CancelStop
  <1>6. ASSUME NEW w \in Workers, Work(w)
        PROVE  OwnRecord' /\ Records'
    BY <1>1, <1>6, WorkCases, RecordTake, RecordGoesTo
  <1>7. ASSUME NEW w \in Workers, Cancelled(w)
        PROVE  OwnRecord' /\ Records'
    <2>1. w \in Busy
      BY <1>1, <1>7, BusyCreated DEF Cancelled
    <2>2. completed' = completed \cup { entry[v] : v \in {w} \cap Busy }
      BY <1>7, <2>1 DEF Cancelled
    <2>3. at' = [v \in Workers |-> IF v \in {w} THEN "died" ELSE at[v]]
      BY <1>1, <1>7 DEF Cancelled, Leave, BaseInv, TypeOK
    <2>4. UNCHANGED <<workers, status, job, entry, runs>>
      BY <1>7 DEF Cancelled
    <2>5. {w} \in SUBSET Workers
      OBVIOUS
    <2> QED
      BY <1>1, <2>2, <2>3, <2>4, <2>5, RecordKilled
  <1>8. CASE UNCHANGED vars
    BY <1>1, <1>8, RecordLeft DEF vars, codeVars, Busy
  <1> QED
    BY <1>2, <1>3, <1>4, <1>5, <1>6, <1>7, <1>8 DEF Next

LEMMA InvInit == Init => Inv
  <1>1. Init => RunsOnce /\ RecordInv
    BY DEF Init, RunsOnce, RecordInv, OwnRecord, Records, Record, Busy, Jobs
  <1> QED
    BY <1>1, BaseInit DEF Inv

LEMMA InvStep == Inv /\ [Next]_vars => Inv'
  BY BaseStep, RunsStep, RecordStep DEF Inv

(* With ids used once, a record is pending until its job is run, running and *)
(* without completed_at exactly while a worker runs it, and final or         *)
(* abandoned afterwards, whatever start, stop and cancellations do.          *)
THEOREM RecordsKept == Spec => []RecordsTruthful
  <1>1. Inv => RecordsTruthful
    BY RecordsTold DEF Inv
  <1> QED
    BY <1>1, InvInit, InvStep, PTL DEF Spec

-----------------------------------------------------------------------------
(* Where a task is, told by what the workers do.                             *)
LEMMA TaskIs ==
    ASSUME Inv, IdsUnique, NEW n \in Jobs
    PROVE  /\ n > submitted => TaskState(n) = "new" /\ runs[n] = 0
           /\ n <= submitted =>
                /\ TaskState(n) # "new"
                /\ TaskState(n) = "pending" <=> runs[n] = 0
                /\ \A w \in Busy : job[w] = n => TaskState(n) = "running"
  <1>1. /\ n \in Nat /\ submitted \in Nat /\ Len(queue) \in Nat
        /\ status[n] \in Statuses /\ runs[n] \in Nat
    BY TaskQueueAssumption DEF Inv, BaseInv, TypeOK, Jobs
  <1>2. Record(n, status, completed, Busy)
    BY DEF Inv, RecordInv, Records
  <1>3. n > submitted => runs[n] = 0
    BY <1>1 DEF Inv, RunsOnce
  <1> QED
    BY <1>1, <1>2, <1>3 DEF TaskState, Record, Statuses

(* Jobs that were taken before are not pending, those submitted not new.     *)
LEMMA Earlier ==
    ASSUME Inv, IdsUnique, NEW n \in Jobs, NEW m \in Jobs, m < n
    PROVE  /\ n <= submitted + 1 => TaskState(m) # "new"
           /\ n <= TakenJobs + 1 => TaskState(m) # "pending"
  <1>1. /\ m \in Nat /\ n \in Nat /\ submitted \in Nat /\ Len(queue) \in Nat
        /\ TakenJobs <= submitted /\ TakenJobs \in Int
    BY TaskQueueAssumption DEF Inv, BaseInv, TypeOK, Jobs, TakenJobs
  <1>2. n <= TakenJobs + 1 => runs[m] = 1
    BY <1>1 DEF Inv, RunsOnce, TakenJobs
  <1> QED
    BY <1>1, <1>2, TaskIs

(* A task that no worker touches stays where it is.                          *)
LEMMA SameState ==
    ASSUME NEW n \in Jobs, UNCHANGED submitted, status'[n] = status[n],
           n \in completed' <=> n \in completed
    PROVE  TaskState(n)' = TaskState(n)
  BY DEF TaskState

(* What one step may do to task n.                                           *)
MayMove(n) ==
    \/ TaskState(n)' = TaskState(n)
    \/ /\ TaskState(n) = "running"
       /\ TaskState(n)' \in {"completed", "failed", "abandoned"}
    \/ /\ \/ TaskState(n) = "new" /\ TaskState(n)' = "pending"
          \/ TaskState(n) = "pending" /\ TaskState(n)' = "running"
       /\ \A m \in Jobs : m < n => TaskState(m) # TaskState(n)

LEMMA MoveSubmit ==
    ASSUME Inv, Inv', IdsUnique, IdsUnique', Submit, NEW n \in Jobs
    PROVE  MayMove(n)
  <1>1. /\ n \in Nat /\ submitted \in Nat /\ submitted' = submitted + 1
        /\ UNCHANGED <<status, completed, runs>>
    BY TaskQueueAssumption DEF Inv, BaseInv, TypeOK, Jobs, Submit
  <1>2. CASE n = submitted + 1
    <2>1. TaskState(n) = "new" /\ runs[n] = 0
      BY <1>1, <1>2, TaskIs
    <2>2. status[n] = "pending"
      BY <2>1 DEF Inv, RecordInv, Records, Record
    <2>3. TaskState(n)' = "pending"
      BY <1>1, <1>2, <2>2 DEF TaskState
    <2>4. \A m \in Jobs : m < n => TaskState(m) # "new"
      BY <1>1, <1>2, Earlier
    <2> QED
      BY <2>1, <2>3, <2>4 DEF MayMove
  <1>3. CASE n # submitted + 1
    BY <1>1, <1>3 DEF TaskState, MayMove
  <1> QED
    BY <1>2, <1>3

(* The task a worker releases is running, and ends as st and cp say.         *)
LEMMA MoveReleased ==
    ASSUME Inv, IdsUnique, NEW w \in Workers, NEW st, NEW cp,
           Released(w, st, cp), UNCHANGED submitted,
           NEW n \in Jobs, status'[n] = st[n], completed' = cp
    PROVE  MayMove(n)
  <1>1. BaseInv /\ RunsOnce /\ OwnRecord
    BY DEF Inv, RecordInv
  <1>2. CASE at[w] = "busy" /\ n = job[w]
    <2>1. w \in Busy /\ entry[w] = n /\ n \in 1..submitted
      BY <1>1, <1>2, BusyCreated, BusyWorker
    <2>2. TaskState(n) = "running"
      BY <2>1, <1>2, TaskIs DEF Inv, BaseInv, TypeOK
    <2>3. status'[n] \in {"completed", "failed"}
      BY <1>1, <1>2, <2>1 DEF Released, StatusAfter, BaseInv, TypeOK
    <2>4. TaskState(n)' = status'[n]
      BY <2>1, <2>3 DEF TaskState, Inv, BaseInv, TypeOK
    <2> QED
      BY <2>2, <2>3, <2>4 DEF MayMove
  <1>3. CASE at[w] = "busy" /\ n # job[w]
    <2>1. entry[w] # n
      BY <1>1, <1>3 DEF OwnRecord
    <2> QED
      BY <1>1, <1>3, <2>1, SameState
      DEF Released, StatusAfter, BaseInv, TypeOK, MayMove
  <1>4. CASE at[w] # "busy"
    BY <1>4, SameState DEF Released, MayMove
  <1> QED
    BY <1>2, <1>3, <1>4

LEMMA MoveTake ==
    ASSUME Inv, Inv', IdsUnique, IdsUnique', NEW w \in Workers, NEW st, NEW cp,
           Released(w, st, cp), completed' = cp, JobQueued, Take(w, st),
           UNCHANGED <<submitted, workers, idOf>>, NEW n \in Jobs
    PROVE  MayMove(n)
  <1> DEFINE h == Head(queue)
  <1>1. BaseInv /\ RunsOnce /\ OwnRecord
    BY DEF Inv, RecordInv
  <1>2. /\ h \in 1..submitted /\ h = TakenJobs + 1 /\ submitted \in Nat
        /\ TakenJobs \in Int
    BY <1>1, FirstQueued DEF BaseInv, TypeOK, TakenJobs
  <1>3. EntryOf(idOf[h]) = h
    BY <1>1, <1>2, OwnEntry
  <1>4. status' = [st EXCEPT ![h] = "running"] /\ job' = [job EXCEPT ![w] = h]
        /\ at' = [at EXCEPT ![w] = "busy"]
    BY <1>3 DEF Take
  <1> HIDE DEF h
  <1>5. CASE n = h
    <2>1. ~(n <= TakenJobs) /\ n <= submitted
      BY <1>2, <1>5
    <2>2. runs[n] = 0
      BY <2>1 DEF Inv, RunsOnce, TakenJobs
    <2>3. TaskState(n) = "pending"
      BY <2>1, <2>2, TaskIs
    <2>4. w \in Busy'
      <3>1. w \in 1..workers
        <4>1. w \in Nat \ {0} /\ workers \in Nat
          BY <1>1, Counted, PoolSize DEF BaseInv, TypeOK
        <4>2. at[w] # "new"
          BY DEF Released
        <4> QED
          BY <1>1, <4>1, <4>2 DEF BaseInv, Created
      <3> QED
        BY <1>1, <1>4, <3>1 DEF Busy, BaseInv, TypeOK
    <2>5. job'[w] = n
      BY <1>1, <1>4, <1>5 DEF BaseInv, TypeOK
    <2>6. Record(n, status, completed, Busy)'
      BY DEF Inv, RecordInv, Records
    <2>7. status'[n] = "running" /\ n \notin completed'
      BY <2>4, <2>5, <2>6 DEF Record
    <2>8. TaskState(n)' = "running"
      BY <1>2, <1>5, <2>1, <2>7 DEF TaskState
    <2>9. \A m \in Jobs : m < n => TaskState(m) # "pending"
      BY <1>2, <1>5, Earlier
    <2> QED
      BY <2>3, <2>8, <2>9 DEF MayMove
  <1>6. CASE n # h
    <2>1. status'[n] = st[n]
      BY <1>1, <1>4, <1>6, ReleasedTyped
    <2> QED
      BY <2>1, MoveReleased
  <1> QED
    BY <1>5, <1>6

(* Killed jobs are abandoned.                                                *)
LEMMA MoveKilled ==
    ASSUME Inv, IdsUnique, NEW K \in SUBSET Workers,
           completed' = completed \cup { entry[w] : w \in K \cap Busy },
           UNCHANGED <<submitted, status>>, NEW n \in Jobs
    PROVE  MayMove(n)
  <1>1. BaseInv /\ RunsOnce /\ OwnRecord
    BY DEF Inv, RecordInv
  <1>2. CASE \E w \in K \cap Busy : job[w] = n
    <2>1. PICK w \in K \cap Busy : job[w] = n
      BY <1>2
    <2>2. n \in 1..submitted /\ entry[w] = n
      BY <1>1, <2>1, BusyWorker
    <2>3. TaskState(n) = "running"
      BY <2>1, <2>2, TaskIs DEF Inv, BaseInv, TypeOK
    <2>4. status[n] = "running"
      BY <2>1 DEF Inv, RecordInv, Records, Record
    <2>5. n \in completed'
      BY <2>1, <2>2
    <2>6. TaskState(n)' = "abandoned"
      BY <2>2, <2>4, <2>5 DEF TaskState, Inv, BaseInv, TypeOK
    <2> QED
      BY <2>3, <2>6 DEF MayMove
  <1>3. CASE \A w \in K \cap Busy : job[w] # n
    <2>1. \A w \in K \cap Busy : entry[w] # n
      BY <1>1, <1>3 DEF OwnRecord
    <2> QED
      BY <2>1, SameState DEF MayMove
  <1> QED
    BY <1>2, <1>3

LEMMA MoveStep ==
    ASSUME Inv, Inv', IdsUnique, IdsUnique', [Next]_vars, NEW n \in Jobs
    PROVE  MayMove(n)
  <1>1. CASE Submit
    BY <1>1, MoveSubmit
  <1>2. CASE \/ Start \/ StopNow \/ UNCHANGED vars
             \/ \E s \in Stops : StopAndWait(s)
    BY <1>2, SameState
    DEF Start, StopNow, StopAndWait, vars, codeVars, jobVars, MayMove
  <1>3. ASSUME NEW s \in Stops, CancelStop(s)
        PROVE  MayMove(n)
    <2>1. joining[s] \subseteq Workers
      BY DEF Inv, BaseInv, TypeOK
    <2> QED
      BY <1>3, <2>1, MoveKilled DEF CancelStop
  <1>4. ASSUME NEW w \in Workers, Cancelled(w)
        PROVE  MayMove(n)
    <2>1. w \in Busy
      BY <1>4, BusyCreated DEF Cancelled, Inv
    <2>2. completed' = completed \cup { entry[v] : v \in {w} \cap Busy }
      BY <1>4, <2>1 DEF Cancelled
    <2>3. {w} \in SUBSET Workers
      OBVIOUS
    <2>4. UNCHANGED <<submitted, status>>
      BY <1>4 DEF Cancelled
    <2> QED
      BY <2>2, <2>3, <2>4, MoveKilled
  <1>5. ASSUME NEW w \in Workers, Work(w)
        PROVE  MayMove(n)
    <2>1. PICK st, cp :
            /\ Released(w, st, cp)
            /\ completed' = cp
            /\ UNCHANGED <<running, submitted, idOf, workers, allowed>>
            /\ \/ JobQueued /\ Take(w, st)
               \/ \E place \in Idle : GoesTo(w, place, st)
      BY <1>5, WorkCases
    <2>2. CASE JobQueued /\ Take(w, st)
      BY <2>1, <2>2, MoveTake
    <2>3. CASE \E place \in Idle : GoesTo(w, place, st)
      BY <2>1, <2>3, MoveReleased DEF GoesTo
    <2> QED
      BY <2>1, <2>2, <2>3
  <1> QED
    BY <1>1, <1>2, <1>3, <1>4, <1>5 DEF Next

LEMMA LifecycleStep ==
    ASSUME Inv, Inv', [Next]_vars
    PROVE  [Lifecycle!Next]_AbstractTasks
  <1>1. CASE ~IdsUnique
    BY <1>1, IdsKept DEF AbstractTasks
  <1>2. CASE IdsUnique
    <2>1. IdsUnique'
      BY <1>2, IdsKept
    <2>2. \A n \in Jobs : /\ AbstractTasks[n] = TaskState(n)
                         /\ AbstractTasks'[n] = TaskState(n)'
      BY <1>2, <2>1 DEF AbstractTasks
    <2>3. DOMAIN AbstractTasks' = Jobs
      BY DEF AbstractTasks
    <2>4. ASSUME NEW n \in Jobs, AbstractTasks'[n] # AbstractTasks[n]
          PROVE  /\ <<AbstractTasks[n], AbstractTasks'[n]>> \in Lifecycle!Edges
                 /\ AbstractTasks'[n] \in {"pending", "running"} =>
                      \A m \in Jobs :
                        m < n => AbstractTasks[m] # AbstractTasks[n]
      <3>1. MayMove(n)
        BY <1>2, <2>1, MoveStep
      <3> QED
        BY <2>2, <2>4, <3>1 DEF MayMove, Lifecycle!Edges
    <2> QED
      BY <2>3, <2>4 DEF Lifecycle!Next, Lifecycle!Moved
  <1> QED
    BY <1>1, <1>2

(* With ids used once, a task goes from new to pending to running and to one *)
(* end, and tasks start in order: nothing start, stop, a cancelled stop or a *)
(* killed worker does can take a record another way.                         *)
THEOREM LifecycleFollowed == Spec => FollowsLifecycle
  <1>1. Init => Lifecycle!Init
    <2> SUFFICES ASSUME Init, NEW n \in Jobs
                 PROVE  TaskState(n) = "new"
      BY DEF Lifecycle!Init, AbstractTasks
    <2>1. n > submitted
      BY TaskQueueAssumption DEF Init, Jobs
    <2> QED
      BY <2>1 DEF TaskState, Init
  <1>2. Inv /\ Inv' /\ [Next]_vars => [Lifecycle!Next]_AbstractTasks
    BY LifecycleStep
  <1> QED
    BY <1>1, <1>2, InvInit, InvStep, PTL
    DEF Spec, FollowsLifecycle, Lifecycle!Spec

=============================================================================
