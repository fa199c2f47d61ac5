---------------------------- MODULE ToolExecutor ----------------------------
(***************************************************************************)
(* The tool execution engine of core/tool_executor.py: batches of tool     *)
(* calls, each call with a cache lookup, a registry lookup and a retry     *)
(* loop under a timeout, scheduled in parallel or one after the other.     *)
(*                                                                         *)
(* One ToolExecutor object is shared by every chat of the process, so      *)
(* several batches run at once and share the cache and the registry.  A    *)
(* step of this specification is a piece of code between two awaits.       *)
(* Durations, log lines and message texts are left out; an error message   *)
(* is the branch of the code that wrote it.                                *)
(***************************************************************************)
EXTENDS Integers, Sequences, FiniteSets

CONSTANTS
    Batches,        \* calls of execute_batch
    MaxBatch,       \* longest request list
    Tools,          \* tool names that may be registered
    Keys,           \* cache keys: one per (tool_name, sorted arguments)
    ToolOf,         \* ToolOf[k]: the tool_name of a request with key k
    BatchInputs,    \* the request lists callers submit, as lists of keys
    Contents,       \* outputs of successful tools
    Failures,       \* how an attempt may end without an answer
    MaxRetries,     \* _max_retries
    Parallel,       \* _parallel
    EnableCache,    \* _enable_cache
    MaxClears       \* bound: how often clear_cache is called

ASSUME ExecutorAssumption ==
    /\ MaxBatch \in Nat
    /\ MaxRetries \in Nat
    /\ MaxClears \in Nat
    /\ Parallel \in BOOLEAN
    /\ EnableCache \in BOOLEAN
    /\ ToolOf \in [Keys -> Tools]
    /\ Failures \subseteq {"timeout", "exception"}
    /\ BatchInputs \subseteq { q \in Seq(Keys) : Len(q) <= MaxBatch }

(***************************************************************************)
(* A slot is one tool call: batch b, position i in its request list.       *)
(***************************************************************************)
Slots == Batches \X (1..MaxBatch)

ExecutionStatus ==
    {"none", "success", "failed", "timeout", "retry_exhausted"}

Errors == {"", "unknown_tool", "tool_error", "exhausted", "unexpected"}

Results ==
    [status      : ExecutionStatus,
     content     : Contents \cup {""},
     error       : Errors,
     retry_count : 0..MaxRetries]

(* The value of a result variable before the call returns. *)
NoResult ==
    [status |-> "none", content |-> "", error |-> "", retry_count |-> 0]

PCs == {"unused", "queued", "sleep", "invoke", "done", "raised"}

VARIABLES
    registry,   \* names in ToolRegistry._tools
    cache,      \* _cache, as the set of its entries
    requests,   \* requests[b]: the list given to execute_batch
    phase,      \* where execute_batch(b) is
    results,    \* BatchExecutionResult.results
    pc,         \* where _execute_single is, per slot
    attempt,    \* the retry loop's counter
    lastError,  \* last_error: what ended the latest failed attempt
    result      \* what _execute_single returned

(* History: what was really run, never read by a guard of the code. *)
VARIABLES
    invoked,    \* how often the tool body was started for the slot
    epoch,      \* clear_cache calls so far
    began,      \* epoch in which the slot's call began
    ended,      \* epoch in which the slot's own execution succeeded
    source      \* the slot whose execution produced the result

codeVars == <<registry, cache, requests, phase, results,
              pc, attempt, lastError, result>>
histVars == <<invoked, epoch, began, ended, source>>
vars == <<codeVars, histVars>>

CacheEntries == [key : Keys, content : Contents \cup {""}, by : Slots]

-----------------------------------------------------------------------------
KeyOf(s) == requests[s[1]][s[2]]

CallsOf(b) == {b} \X (1..Len(requests[b]))

(* Mutant: a cache key of the tool name alone. *)
HitsByTool(s) == { e \in cache : ToolOf[e.key] = ToolOf[KeyOf(s)] }

(* The cache lookup: no entry or one. *)
Hits(s) == { e \in cache : e.key = KeyOf(s) }

Finished(s) == pc[s] \in {"done", "raised"}

Active(s) == pc[s] \in {"sleep", "invoke"}

Succeeded(s) == pc[s] = "done" /\ result[s].status = "success"

(* An execution of the slot itself succeeded, rather than a cache hit. *)
RanWell(s) == Succeeded(s) /\ invoked[s] > 0

-----------------------------------------------------------------------------
Init ==
    /\ registry \in SUBSET Tools
    /\ cache = {}
    /\ requests = [b \in Batches |-> <<>>]
    /\ phase = [b \in Batches |-> "idle"]
    /\ results = [b \in Batches |-> <<>>]
    /\ pc = [s \in Slots |-> "unused"]
    /\ attempt = [s \in Slots |-> 0]
    /\ lastError = [s \in Slots |-> "none"]
    /\ result = [s \in Slots |-> NoResult]
    /\ invoked = [s \in Slots |-> 0]
    /\ epoch = 0
    /\ began = [s \in Slots |-> 0]
    /\ ended = [s \in Slots |-> 0]
    /\ source = [s \in Slots |-> s]

(* execute_batch is entered: one task per request, or the serial loop. *)
Submit(b, q) ==
    /\ phase[b] = "idle"
    /\ phase' = [phase EXCEPT ![b] = "running"]
    /\ requests' = [requests EXCEPT ![b] = q]
    /\ pc' = [s \in Slots |->
                IF s[1] = b /\ s[2] <= Len(q) THEN "queued" ELSE pc[s]]
    /\ UNCHANGED <<registry, cache, results, attempt, lastError, result,
                   histVars>>

(* Mutants: the serial loop creates its calls without awaiting them; it goes *)
(* on only after a success.                                                  *)
MayStartAny(s) == phase[s[1]] = "running" /\ pc[s] = "queued"
MayStartAfterSuccess(s) ==
    /\ MayStartAny(s)
    /\ \A t \in CallsOf(s[1]) : t[2] < s[2] => Succeeded(t)

(* The serial loop awaits a call before it makes the next one. *)
MayStart(s) ==
    /\ phase[s[1]] = "running"
    /\ pc[s] = "queued"
    /\ Parallel \/ \A t \in CallsOf(s[1]) : t[2] < s[2] => pc[t] = "done"

EndCall(s, r) ==
    /\ pc' = [pc EXCEPT ![s] = "done"]
    /\ result' = [result EXCEPT ![s] = r]

(* Step 1: the cached result is returned, with a retry_count of 0. *)
CacheHit(s) ==
    /\ MayStart(s)
    /\ EnableCache
    /\ \E e \in Hits(s) :
         /\ EndCall(s, [status |-> "success", content |-> e.content,
                        error |-> "", retry_count |-> 0])
         /\ source' = [source EXCEPT ![s] = e.by]
    /\ began' = [began EXCEPT ![s] = epoch]
    /\ UNCHANGED <<registry, cache, requests, phase, results, attempt,
                   lastError, invoked, epoch, ended>>

(* The lookup of step 1 fails, or the cache is off. *)
CacheMiss(s) ==
    EnableCache => Hits(s) = {}

(* Step 2: the registry does not know the tool. *)
UnknownTool(s) ==
    /\ MayStart(s)
    /\ CacheMiss(s)
    /\ ToolOf[KeyOf(s)] \notin registry
    /\ EndCall(s, [status |-> "failed", content |-> "",
                   error |-> "unknown_tool", retry_count |-> 0])
    /\ began' = [began EXCEPT ![s] = epoch]
    /\ UNCHANGED <<registry, cache, requests, phase, results, attempt,
                   lastError, invoked, epoch, ended, source>>

(* Steps 3 and 4: the tool object is held from here on, attempt 0 starts.    *)
StartLoop(s) ==
    /\ MayStart(s)
    /\ CacheMiss(s)
    /\ ToolOf[KeyOf(s)] \in registry
    /\ pc' = [pc EXCEPT ![s] = "invoke"]
    /\ invoked' = [invoked EXCEPT ![s] = @ + 1]
    /\ began' = [began EXCEPT ![s] = epoch]
    /\ UNCHANGED <<registry, cache, requests, phase, results, attempt,
                   lastError, result, epoch, ended, source>>


(***************************************************************************)
(* Step 4: how one attempt of the retry loop ends.                         *)
(***************************************************************************)

(* Mutant: a write replaces the dictionary. *)
CacheReset(s, content) ==
    cache' = IF EnableCache
             THEN {[key |-> KeyOf(s), content |-> content, by |-> s]}
             ELSE cache

(* Only a successful result is cached, under the request's key. *)
CacheWrite(s, content) ==
    cache' = IF EnableCache
             THEN (cache \ Hits(s))
                    \cup {[key |-> KeyOf(s), content |-> content, by |-> s]}
             ELSE cache

(* The tool returns a ToolResult with success=True. *)
AttemptOk(s, content) ==
    /\ pc[s] = "invoke"
    /\ EndCall(s, [status |-> "success", content |-> content,
                   error |-> "", retry_count |-> attempt[s]])
    /\ CacheWrite(s, content)
    /\ ended' = [ended EXCEPT ![s] = epoch]
    /\ UNCHANGED <<registry, requests, phase, results, attempt, lastError,
                   invoked, epoch, began, source>>

(* It returns one with success=False: the call ends, without a retry. *)
AttemptFail(s) ==
    /\ pc[s] = "invoke"
    /\ EndCall(s, [status |-> "failed", content |-> "",
                   error |-> "tool_error", retry_count |-> attempt[s]])
    /\ UNCHANGED <<registry, cache, requests, phase, results, attempt,
                   lastError, histVars>>

(* Mutant: one attempt too many. *)
MayRetryOnceMore(s) == attempt[s] <= MaxRetries

(* for attempt in range(self._max_retries + 1) *)
MayRetry(s) == attempt[s] < MaxRetries

(* It raises, or the timeout ends it: the loop backs off while it may. *)
AttemptRetry(s, kind) ==
    /\ pc[s] = "invoke"
    /\ MayRetry(s)
    /\ lastError' = [lastError EXCEPT ![s] = kind]
    /\ pc' = [pc EXCEPT ![s] = "sleep"]
    /\ attempt' = [attempt EXCEPT ![s] = @ + 1]
    /\ UNCHANGED <<registry, cache, requests, phase, results, result,
                   histVars>>

(* Step 5: the last attempt raised or timed out. *)
AttemptExhausted(s, kind) ==
    /\ pc[s] = "invoke"
    /\ ~MayRetry(s)
    /\ lastError' = [lastError EXCEPT ![s] = kind]
    /\ EndCall(s, [status |-> IF MaxRetries > 0 THEN "retry_exhausted"
                              ELSE "failed",
                   content |-> "", error |-> "exhausted", retry_count |-> 0])
    /\ UNCHANGED <<registry, cache, requests, phase, results, attempt,
                   histVars>>

(* asyncio.CancelledError comes out of the tool: no except clause takes it. *)
AttemptCancelled(s) ==
    /\ pc[s] = "invoke"
    /\ pc' = [pc EXCEPT ![s] = "raised"]
    /\ UNCHANGED <<registry, cache, requests, phase, results, attempt,
                   lastError, result, histVars>>

(* The backoff sleep ends and the tool is invoked again. *)
Wake(s) ==
    /\ pc[s] = "sleep"
    /\ pc' = [pc EXCEPT ![s] = "invoke"]
    /\ invoked' = [invoked EXCEPT ![s] = @ + 1]
    /\ UNCHANGED <<registry, cache, requests, phase, results, attempt,
                   lastError, result, epoch, began, ended, source>>

-----------------------------------------------------------------------------
(* What gather's caller makes of a call that raised. *)
Unexpected ==
    [status |-> "failed", content |-> "", error |-> "unexpected",
     retry_count |-> 0]

(* What position i of batch b contributes to the returned list. *)
Resolved(b, i) ==
    IF pc[<<b, i>>] = "raised" THEN Unexpected ELSE result[<<b, i>>]

(* Mutants: only what did not raise is listed; the first answer is enough.   *)
ListAnswered(b) ==
    LET answered == { i \in 1..Len(requests[b]) : pc[<<b, i>>] = "done" }
    IN  [i \in 1..Cardinality(answered) |-> Resolved(b, i)]
AnyFinished(b) == \E s \in CallsOf(b) : Finished(s)

ResultList(b) == [i \in 1..Len(requests[b]) |-> Resolved(b, i)]

(* gather waits for every call, the serial loop for every answer. *)
AllFinished(b) ==
    \A s \in CallsOf(b) : IF Parallel THEN Finished(s) ELSE pc[s] = "done"

(* execute_batch returns: the results are in the order of the requests. *)
Return(b) ==
    /\ phase[b] = "running"
    /\ AllFinished(b)
    /\ phase' = [phase EXCEPT ![b] = "returned"]
    /\ results' = [results EXCEPT ![b] = ResultList(b)]
    /\ UNCHANGED <<registry, cache, requests, pc, attempt, lastError, result,
                   histVars>>

(* The serial loop has no handler: the exception leaves execute_batch. *)
Propagate(b) ==
    /\ phase[b] = "running"
    /\ ~Parallel
    /\ \E s \in CallsOf(b) : pc[s] = "raised"
    /\ phase' = [phase EXCEPT ![b] = "raised"]
    /\ UNCHANGED <<registry, cache, requests, results, pc, attempt, lastError,
                   result, histVars>>

(* Mutant: the calls are shielded from the cancellation. *)
CancelsNothing(b) == {}

(* gather cancels all its calls, the serial loop the one it awaits. *)
CancelledCalls(b) ==
    { s \in CallsOf(b) : ~Finished(s) /\ (Parallel \/ Active(s)) }

(* The task awaiting execute_batch is cancelled (a client that went away). *)
CancelBatch(b) ==
    /\ phase[b] = "running"
    /\ phase' = [phase EXCEPT ![b] = "raised"]
    /\ pc' = [s \in Slots |->
                IF s \in CancelledCalls(b) THEN "raised" ELSE pc[s]]
    /\ UNCHANGED <<registry, cache, requests, results, attempt, lastError,
                   result, histVars>>

(* ToolRegistry.register and unregister, by whoever owns the registry. *)
Register(t) ==
    /\ registry' = registry \cup {t}
    /\ UNCHANGED <<cache, requests, phase, results, pc, attempt, lastError,
                   result, histVars>>

Unregister(t) ==
    /\ registry' = registry \ {t}
    /\ UNCHANGED <<cache, requests, phase, results, pc, attempt, lastError,
                   result, histVars>>

ClearCache ==
    /\ epoch < MaxClears
    /\ cache' = {}
    /\ epoch' = epoch + 1
    /\ UNCHANGED <<registry, requests, phase, results, pc, attempt, lastError,
                   result, invoked, began, ended, source>>

Begin(s) == CacheHit(s) \/ UnknownTool(s) \/ StartLoop(s)

EndAttempt(s) ==
    \/ \E c \in Contents : AttemptOk(s, c)
    \/ AttemptFail(s)
    \/ \E kind \in Failures :
          AttemptRetry(s, kind) \/ AttemptExhausted(s, kind)
    \/ AttemptCancelled(s)

Next ==
    \/ \E b \in Batches, q \in BatchInputs : Submit(b, q)
    \/ \E b \in Batches : Return(b) \/ Propagate(b) \/ CancelBatch(b)
    \/ \E s \in Slots : Begin(s) \/ EndAttempt(s) \/ Wake(s)
    \/ \E t \in Tools : Register(t) \/ Unregister(t)
    \/ ClearCache

Spec == Init /\ [][Next]_vars

(* wait_for ends every attempt, asyncio.sleep every backoff, and the event   *)
(* loop runs every task that is ready.                                       *)
Fairness ==
    /\ \A s \in Slots : /\ WF_vars(Begin(s))
                      /\ WF_vars(EndAttempt(s))
                      /\ WF_vars(Wake(s))
    /\ \A b \in Batches : WF_vars(Return(b) \/ Propagate(b))

FairSpec == Spec /\ Fairness

-----------------------------------------------------------------------------
(* Type correctness. *)
TypeOK ==
    /\ registry \subseteq Tools
    /\ cache \subseteq CacheEntries
    /\ requests \in [Batches -> Seq(Keys)]
    /\ \A b \in Batches : Len(requests[b]) <= MaxBatch
    /\ phase \in [Batches -> {"idle", "running", "returned", "raised"}]
    /\ results \in [Batches -> Seq(Results)]
    /\ pc \in [Slots -> PCs]
    /\ attempt \in [Slots -> 0..MaxRetries]
    /\ lastError \in [Slots -> Failures \cup {"none"}]
    /\ result \in [Slots -> Results]
    /\ invoked \in [Slots -> Nat]
    /\ epoch \in 0..MaxClears
    /\ began \in [Slots -> 0..MaxClears]
    /\ ended \in [Slots -> 0..MaxClears]
    /\ source \in [Slots -> Slots]

(* A call runs its tool at most MaxRetries + 1 times; it is exhausted only   *)
(* after all of them, a tool's own answer carries the number of retries      *)
(* before it, and neither a cache hit nor an unknown tool runs anything.     *)
BudgetOf(s) ==
    /\ pc[s] \in {"unused", "queued"} => invoked[s] = 0 /\ attempt[s] = 0
    /\ pc[s] = "invoke" => invoked[s] = attempt[s] + 1
    /\ pc[s] = "sleep" => invoked[s] = attempt[s] /\ attempt[s] > 0
    /\ pc[s] = "raised" => invoked[s] <= MaxRetries + 1
    /\ pc[s] = "done" =>
         CASE result[s].error = "exhausted" -> invoked[s] = MaxRetries + 1
           [] result[s].error = "unknown_tool" -> invoked[s] = 0
           [] result[s].error = "tool_error" ->
                invoked[s] = result[s].retry_count + 1
           [] OTHER -> invoked[s] \in {0, result[s].retry_count + 1}

AttemptBudget == \A s \in Slots : BudgetOf(s)

(* Every cached entry is the answer of an execution of that very key that    *)
(* succeeded, a key has one entry, and a call answered from the cache has    *)
(* the content its source produced: no failure or foreign result is reused,  *)
(* and none that was stored before the latest clear_cache (TEX-10).          *)
CacheProvenance ==
    /\ \A e \in cache : /\ RanWell(e.by)
                        /\ KeyOf(e.by) = e.key
                        /\ result[e.by].content = e.content
                        /\ ended[e.by] = epoch
    /\ \A e, f \in cache : e.key = f.key => e = f
    /\ \A s \in Slots : Succeeded(s) /\ invoked[s] = 0 =>
         /\ RanWell(source[s])
         /\ KeyOf(source[s]) = KeyOf(s)
         /\ result[source[s]].content = result[s].content
         /\ ended[source[s]] = began[s]

(* The list a caller got answers its requests one to one and in order, with  *)
(* what each call returned, whatever order the calls finished in.            *)
BatchAligned ==
    \A b \in Batches : phase[b] = "returned" =>
      /\ Len(results[b]) = Len(requests[b])
      /\ \A i \in 1..Len(results[b]) :
           /\ pc[<<b, i>>] \in {"done", "raised"}
           /\ pc[<<b, i>>] = "done" => results[b][i] = result[<<b, i>>]
           /\ pc[<<b, i>>] = "raised" => results[b][i].error = "unexpected"

(* Serial mode: a call begins, and is cancelled, only after every earlier    *)
(* one has answered, so nothing after a call that raised is ever begun.      *)
SerialOrder ==
    ~Parallel =>
      \A b \in Batches : \A s, t \in CallsOf(b) :
        s[2] < t[2] /\ (Active(t) \/ Finished(t)) => pc[s] = "done"

(* Once its batch has returned or raised, a call neither runs its tool again *)
(* nor adds anything to the cache.                                           *)
NoEffectAfterReturn ==
    [][ \A s \in Slots : phase[s[1]] \in {"returned", "raised"} =>
          /\ invoked'[s] = invoked[s]
          /\ \A e \in cache' : e.by = s => e \in cache ]_vars

(* TEX-09: with the cache on, no call starts running a key that was already  *)
(* run with success since the cache was last cleared.                        *)
NoRepeatExecution ==
    [][ \A s, t \in Slots :
          /\ EnableCache
          /\ invoked[s] = 0 /\ invoked'[s] > 0
          /\ RanWell(t) /\ KeyOf(t) = KeyOf(s)
          => ended[t] < epoch ]_vars

(* The promise of execute_batch, with the answers read off the calls. *)
AnswerOf(s) ==
    CASE pc[s] = "done" -> result[s]
      [] pc[s] = "raised" -> Unexpected
      [] OTHER -> NoResult

Promise == INSTANCE BatchPromise WITH
    Answers <- Results \ {NoResult},
    Pending <- NoResult,
    size <- [b \in Batches |-> Len(requests[b])],
    answer <- [s \in Slots |-> AnswerOf(s)],
    delivered <- results

(* Caches, retries, cancellation and scheduling are invisible to the caller: *)
(* the executor implements the promise.                                      *)
KeepsPromise == Promise!Spec

(* Every batch returns or raises. *)
BatchTerminates ==
    \A b \in Batches : phase[b] = "running" ~> phase[b] # "running"

=============================================================================
