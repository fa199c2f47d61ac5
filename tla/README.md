# Verification of YellowBull Agent

TLA+ models of the core of YellowBull Agent, TLC runs that check them on small
instances, and TLAPS proofs, about every component that is modelled and for
every instance of it. Paths of code are relative to the repository's root.
`PROJECT.json` is the index: the parts of the system, the runs, the lines each
definition stands for, the hazards, and the theorems.

## 1. The system

A user's message enters through the command line or the HTTP API and is
answered by `Agent.chat`, which asks an LLM again and again, executing the tool
calls the LLM asks for, until it answers without any. Everything runs on one
asyncio event loop: between two awaits a coroutine is alone, across an await
anything may have changed.

| Part | State | Operations | Talks to |
|---|---|---|---|
| Tool executor, `core/tool_executor.py` | result cache; per call: attempt, last error | `execute_batch` (parallel, serial), `clear_cache` | registry (lookup), tools (await), one object shared by all chats |
| Agent, `core/agent.py` | per chat: depth, session object, tool calls in hand | `chat` | session store, context builder, LLM (await), executor (await) |
| Session store, `core/session_manager.py`, `models/` | sessions by id, their messages, `updated_at`, `chain_depth` | create, get, delete, list, cleanup_expired | called by Agent, command line, API |
| Context builder, `core/context_builder.py` | none | `build` | reads a session; its result goes to the LLM client |
| LLM providers, `llm/` | calls accumulated from a stream | `chat`, `_stream_chat`, `_parse_response` | the LLM service |
| Task queue, `core/task_queue/queue.py` | queue, records by task id, worker tasks, running flag | submit, start, stop, get_status, wait_for | jobs (await); nothing in the program uses it yet |
| Cache manager, `core/cache/manager.py` | entries with an expiry | get, set, delete, clear, cleanup_expired | nothing in the program uses it yet |
| Command line, `cli/repl.py`, `main.py` | current session id, working directory | the commands, chats | settings, LLM factory, Agent, session store |
| Settings, `config/settings.py` | cached settings and their path | load, reload, watch, validate | read at start |
| Registry and tool base, `tools/registry.py`, `tools/base.py` | tools by name | register, unregister, get, resolve; execute_with_retry, validate | executor |
| Built-in tools, `tools/builtins/` | files, directories and processes of the machine | `execute` of execute_command, create_file_folder, write_file, read_file, web_search, calculator, current_time | called by the executor and by `resolve`; operating system, network |
| API server and middlewares, `api/` | the agent, rate buckets | HTTP, SSE, WebSocket | Agent, session store |
| Input validation, logging, short-term memory | little or none | | nothing calls the first and the last |

What is hard in it, and what has to hold:

* **Executor.** Calls of several batches interleave over one cache; attempts
  time out and are retried after a backoff; batches are cancelled half-way.
  Results must answer their requests by position, attempts stay within
  `max_retries + 1`, cached content must come from a success of the same
  request, and a batch that has ended must have no effects.
* **Built-in tools.** A command is a process of its own, which changes files
  while the file tools look, open and write; two timers end it, and what they
  reach differs. A search keeps the whole event loop. The executor repeats
  timeouts and exceptions, `resolve` repeats reported failures, and neither may
  start a tool again too often. What a call leaves running, and what it does to
  a file that is not its own, must be accounted for.
* **Agent and sessions.** Two chats can hold one session, and a session can be
  deleted or expire while a chat awaits. Each chat must leave a well-formed
  transcript (the LLM services reject unpaired tool calls), the chain must be
  cut, and a deleted session must not come back.
* **Context and requests.** What is sent must be the newest part of the
  conversation without gaps, its summary must fit, and tool results must stand
  where the services expect them, although two chats of one session write to it
  in turns. Where making a request fails, it must be known why.
* **Streams.** Calls are put together from fragments that do not all say whose
  they are, and a stream may break.
* **Task queue.** start and stop race with each other, with submits and with
  jobs that end in any way; no job may be lost by the queue or run twice.
* **Cache manager.** Time passes between any two calls; removal is lazy.
* **Command line.** Two copies of the working directory; commands that throw.

## 2. The modules

State variables have the names of the code's attributes where TLA+ allows it;
the comment at each declaration says which one it is.

| Module | Models | Composition |
|---|---|---|
| `ToolExecutor` | the executor | |
| `BatchPromise` | what `execute_batch` promises a caller | implemented by `ToolExecutor` (`KeepsPromise`) |
| `ToolBase` | `resolve` and `execute_with_retry` | |
| `BuiltinTools` | what the bodies of the tools do to one path, to processes and to the event loop | |
| `ToolCalls` | the built-in tools as they are called | extends `ToolExecutor`, `ToolBase` and `BuiltinTools`, and joins their steps |
| `Agent` | `Agent.chat` over the in-memory store | batches appear with the outcomes `ToolExecutor` allows |
| `ContextBuilder` | `build` over every session that interleaved chats can make | |
| `AnthropicRequest` | `AnthropicLLM.chat` up to the call of the service, with the tools the registry offers | extends `ContextBuilder`: converts what it builds |
| `LLMStream` | both `_stream_chat` generators | against `_parse_response` |
| `TaskQueue` | the queue and its workers | |
| `TaskLifecycle` | what a task's record may go through | implemented by `TaskQueue` (`FollowsLifecycle`) |
| `CacheManager` | the cache under a clock | |
| `TtlMap` | a map whose entries vanish on time | implemented by `CacheManager` (`KeepsPromise`) |
| `Repl` | main and the command line | |
| `ToolExecutorProofs`, `AgentProofs`, `LLMStreamProofs`, `TaskQueueProofs`, `CacheManagerProofs`, `ReplProofs` | theorems | extend the module they are named for |
| `ToolCallsProofs` | theorems | extends `ToolCalls` and `ToolExecutorProofs`, whose theorems hold of the composed system too |
| `ContextProofs` | theorems | extends `AnthropicRequest`, and so `ContextBuilder` |
| `MC*` | constants and symmetry for TLC | |

How actions correspond to code:

* **ToolExecutor.** A step is the code from one await to the next. `Submit`
  enters `execute_batch`; `Begin` is a call's code up to its first await (hit,
  unknown tool, or attempt 0); `EndAttempt` is what follows an attempt, by the
  way it ended; `Wake` ends a backoff; `Return`, `Propagate` and `CancelBatch`
  end the batch. The history variables `invoked`, `epoch`, `began`, `ended`
  and `source` record what was really run; no guard reads them.
* **ToolCalls.** The executor's actions are those of `ToolExecutor`, made the
  steps of a tool's `execute` by conjunction: `AttemptBegins` starts an attempt
  and calls the tool (`CallTool`), `AttemptGoesOn` is a system call of a file
  tool or the search's request (`GoesOn`), `AttemptAnswered` ends both
  (`ToolReturns`, or the command's own timer), and `AttemptTimesOut` is the
  executor's timer, or its cancellation of the tool. The `Direct` actions do
  the same for `resolve`. `turn` says which tool keeps the event loop, and
  where in its code it is: the file tools and the search have no await, so
  while it is set no other task of the program takes a step, and only
  processes do. `stalled` are the commands that a search kept waiting beyond
  both timers: then the executor's cancellation takes the place of the
  command's TimeoutError. All calls name one path, and a text is the sequence
  of its authors, so that it can be said whose text a step destroys. A process
  may write, remove the file, end or run on at any time.
* **ToolBase.** Arguments are the names of their Python types, which is all
  that `validate` looks at; an argument that the tool does not have passes it,
  and is a TypeError when the tool is called (`NotRun`).
* **Agent.** A chat's steps lie between its awaits of the LLM and of the batch.
  `NextIteration` is the head of the loop and, past the limit, the fallback.
  `CancelChat` and `LLMRaises` are the exceptions nothing in `chat` handles,
  `LLMCallsMalformed` those of `_build_tool_requests`. A chat that is cancelled
  has, like one whose LLM raises, ended with an exception: "raised". A message
  carries its chat's name so that transcripts can be told apart.
* **ContextBuilder.** The chats of one session take their steps between their
  awaits of the LLM and of the tools: `Ask` is a chat up to its first call of
  the LLM, `Answer`, `AskTools` and `GiveUp` follow the LLM's answer, and
  `ToolsDone` and `Fallback` the batch. Nothing keeps two chats apart. A message
  is its role, number, size and place, and a tool message has the place of the
  response it answers; `Build` is an operator, evaluated at each call of the
  LLM. Slices of the form `s[-n:]` are Python's, `n = 0` included. The history
  variables `seen` and `own` say when and for whom the context was built, and
  `disturbed` which responses had another chat's message come in before their
  results; no guard reads them.
* **AnthropicRequest.** `Converted` is the loop over the messages, with the
  AttributeError of its line 55. `Request` adds what comes before the call of
  the service: with tools on offer, the KeyError of `_format_tools`. As
  `Agent.chat` passes on every registered tool, no Anthropic request is sent
  today unless all tools are disabled. The properties of the entries speak of
  `Converted`, the part before that.
* **LLMStream.** The service has decided on an answer; its fragments come in
  every order the provider's protocol allows. Argument text is a sequence of
  fragments.
* **TaskQueue.** A worker tests the flag, then gets a job or waits for one in
  slices of a second (`PollTimeout`); `TakeWaited` is the get that ends with a
  job. `stop` is `StopNow`, or `StopAndWait(s)` of a caller `s`, who waits until
  `joining[s]` is empty; several callers may wait at once, each for the workers
  that lived when it called. `CancelStop(s)` is a caller that is cancelled, for
  instance by a timeout of its own. `Cancelled` is a job that ends in
  `CancelledError`. The history variables `found` (the workers created when a
  stop was called) and `allowed` (the starts' workers since none lived) are
  read by no guard.
* **CacheManager.** `Tick` is the clock; expired entries stay until `Get` or
  `CleanupExpired` comes across them.
* **Repl.** The start (settings loaded twice, the client made, which ends the
  program for an unknown provider or a key its client does not take, the
  directory asked for), the commands that change state, and each chat as its request and
  its end. Commands that only write to the screen are left out.

## 3. The runs

| Run | Question | Bounds |
|---|---|---|
| `executor_parallel` | Are parallel batches correct while sharing the cache? | 2 batches of 1 or 2 calls, 2 keys of one tool, 1 retry, 1 clear |
| `executor_serial` | Is the serial loop serial, does it end, does it keep its promise? | 1 batch of 0 or 3 calls (a repeated key among them), both failures, 1 retry |
| `agent_chats` | Do chats leave well-formed transcripts, whatever happens to sessions? | 2 chats, 2 sessions, depth 2, responses with 2 calls of which 1 is executed |
| `queue_jobs` | Is the queue correct under start, stop and cancellation? | 2 workers, 2 starts, 2 callers of `stop`, 2 jobs, equal or different ids |
| `context_build` | Are contexts and requests faithful to the session? | 2 chats of one session, 9 messages, window 5, 1 or 2 calls per response, 2 turns kept, 1 tool or none |
| `cache_ttl` | Is lazy expiry invisible? | 2 keys, 2 values, ttl 0, 2 or none, 4 ticks |
| `llm_stream` | Does a stream yield the complete answer's calls? | 3 calls, 2 fragments each |
| `repl` | Do the screen, the LLM and the sessions agree? | 3 directories, one unusable, 3 sessions, 3 chats, every settings file |
| `tool_calls` | What do the built-in tools leave behind, and does their batch end? | 1 batch of 2 of 8 kinds of call, 1 retry, 1 call of `resolve` with 1 retry, 1 path |
| `tool_calls_doc_once` (violation) | Is a command over after its timeout? | as `tool_calls` |
| `agent_doc_order` (violation) | Is a session in the documented order? | as `agent_chats` |
| `context_doc_prompt` (violation) | Is the system prompt sent? | as `context_build` |

Why the bounds are enough to meet the interesting cases: two of each actor give
every pairwise race; one retry gives an attempt that may be repeated and one
that may not, with a backoff between them; two calls of which one is executed give the placeholder
answer; a window of five over nine messages is cut in every place, in the
middle of a group of tool results too; two chats put a message between a
response and its results, or begin so many turns that the other's own message is
compressed away; two starts give the overlapping pools, and two callers a stop
that finds another one waiting;
three streamed calls give one that is neither first nor last. In `tool_calls`
the four batches pair each tool with one that disturbs it: a command longer
than the executor's timeout with the tool whose look and write it can get in
between, a short one with the search that delays its timers, and two file
tools with each other; the call of `resolve` is a command or an append on the
same path, and its arguments meet each answer of `validate`. One path is
enough, since calls on different paths share nothing but the event loop. In
`ContextBuilder` the constants that the code fixes (50, 100 and the overheads)
are scaled down together with the window, so that small sessions reach each
branch. Bounds are constants declared as such (`MaxClears`, `MaxStarts`,
`MaxJobs`, `MaxRuns`, `MaxMessages`, `MaxText`, `MaxSessions`, `MaxChats`, `MaxClock`).

Symmetry is used where only safety is checked (`executor_parallel`,
`agent_doc_order`, `context_build` and `context_doc_prompt`). Deadlock is checked except where a run really
ends: a finished stream, a session that has reached its bound, a program that
was left.

Properties that deserve a word:

* `CacheProvenance` ties a cached or returned content to the execution that
  produced it, through the history variable `source`, and says what
  `clear_cache` is good for: nothing that was stored before the latest clear is
  in the cache, or is answered to a call that begins after it.
* `ExecutorCommands` lists the only ways a process can be left behind: its call
  was cancelled, the executor's timer came no later than the command's own, or
  a search kept both from firing. For a command with a shorter timeout and no
  search next to it, an attempt never begins while the one before it runs.
* `DirectCommands` is what `resolve` does better: it sets no timeout, and so
  never starts a command whose last execution still runs.
* `FilesAccounted` says which texts a file tool may destroy: `write_file`
  replaces, an append loses nothing even if it fails, and `create_file_folder`
  destroys only what a command writes in the moment between its look and its
  open, never what was there before or what another file tool wrote.
* `ChatTranscript` speaks of one chat's messages inside a session that other
  chats write to as well; the same statement about the whole session is false
  (`agent_doc_order`).
* `RunsOnce` says at once that no job is lost, none runs twice, and they start
  in order. `RecordsTruthful` and `FollowsLifecycle` are conditional on ids
  used once, since a reused id makes two jobs share one record.
* `PoolBound` has no condition: it counts what the starts since the queue was
  last without workers account for. With one start that is `max_workers`; a
  start that finds workers of an earlier one alive adds to it, which is the
  code's real limit (section 6).
* `StopIsQuiet` says that whichever way a stop ends, none of the workers it was
  called for is left, whatever other stops and starts do meanwhile; a start can
  only make it wait. `StopReturns` says that it does not wait for ever when the
  queue stays stopped from some time on, and would be false for a worker that
  waits for a job without a timeout.
* `ContextIsSuffix` and `RequestComplete` together say that the request shows
  the end of the conversation, without gaps. `RequestComplete` says in addition
  exactly when making a request fails: always with tools, and else only at
  the results of a disturbed response that follow a user message.
* `RequestShown` names the two ways the user message to be answered can be
  missing: the window, and later turns of other chats.
* `ResultsTogether` names what can part a result from its response: the window,
  which takes the front (so that a request can begin with results whose
  response it does not show), and another chat, which comes in front of all
  results of a response but never among them.

## 4. Fairness

* `ToolExecutor`: weak fairness of a call's first step, of the end of an
  attempt, of waking up, and of returning. `asyncio.wait_for` ends every
  attempt, `asyncio.sleep` every backoff, and the event loop runs what is
  ready. Not fair: submitting, cancelling, registering, clearing.
* `ToolCalls`: weak fairness of each slot's steps, of each `resolve`, and of
  returning. Here attempts end because the timers of commands fire, the network
  answers a search or times out, and system calls of the file tools return.
  Not fair: processes, which may run for ever, cancelling, submitting. Starting
  a process is taken to be short against the difference of two timeouts, so
  that the shorter one fires first when nothing keeps the loop.
* `Agent`: weak fairness of a chat's step. The executor ends every batch
  (`BatchTerminates`, `CallsEnd`), and the LLM clients have timeouts. Not fair:
  new chats, cancellation, deletion, expiry.
* `TaskQueue`: weak fairness of each worker's steps; a wait for a job lasts a
  second at most. That jobs end is an assumption about the jobs: the queue sets
  them no limit. Not fair: start, stop, submit and cancellation.

The other modules state safety only.

## 5. What is proved

Each theorem holds for every value of the module's constants; the only
assumptions are the modules' named ones (`ExecutorAssumption`,
`ToolsAssumption`, `BaseAssumption`, `CallsAssumption`, `AgentAssumption`,
`ContextAssumption`, `StreamAssumption`, `TaskQueueAssumption`,
`CacheAssumption`, `ReplAssumption`). TLC evaluates them in every run. They
give the constants' types for the most part. The others are these: a message
has a size and a response with calls has at least one (`ContextAssumption`,
`AgentAssumption`), the default provider is one that `create_llm` knows
(`ReplAssumption`), and the bound on executions leaves room for the retries, so
that it never stops a call that the code would go on with (`CallsAssumption`).

| Module | Theorem | Statement |
|---|---|---|
| `ToolExecutorProofs` | `TypeCorrect` | `Spec => []TypeOK` |
| | `BudgetKept` | `Spec => []AttemptBudget` |
| | `SerialKept` | `Spec => []SerialOrder` |
| | `AlignedKept` | `Spec => []BatchAligned` |
| | `ProvenanceKept` | `Spec => []CacheProvenance` |
| | `NoEffectKept` | `Spec => NoEffectAfterReturn` |
| | `NoRepeatKept` | `Spec => NoRepeatExecution` |
| | `PromiseKept` | `Spec => KeepsPromise` |
| `ToolCallsProofs` | `ExecutorImplemented` | `CallsSpec => Spec /\ KeepsPromise` |
| | `ToolsTypeCorrect` | `CallsSpec => []ToolsTypeOK` |
| | `ExecutorCommandsKept` | `CallsSpec => []ExecutorCommands` |
| | `DirectCommandsKept` | `CallsSpec => []DirectCommands` |
| | `FilesAccountedKept` | `CallsSpec => FilesAccounted` |
| `AgentProofs` | `TypeCorrect` | `Spec => []TypeOK` |
| | `NoResurrectionKept` | `Spec => NoResurrection` |
| | `ChatTranscriptKept` | `Spec => []ChatTranscript` |
| | `DepthAccountedKept` | `Spec => []DepthAccounted` |
| `ContextProofs` | `TypeCorrect` | `Spec => []TypeOK` |
| | `SuffixKept` | `Spec => []ContextIsSuffix` |
| | `RequestShownKept` | `Spec => []RequestShown` |
| | `SummaryFitsKept` | `Spec => []SummaryFits` |
| | `RequestCompleteKept` | `Spec => []RequestComplete` |
| | `ResultsTogetherKept` | `Spec => []ResultsTogether` |
| `LLMStreamProofs` | `TypeCorrect` | `Spec => []TypeOK` |
| | `StreamAgreesKept` | `Spec => []StreamAgrees` |
| `TaskQueueProofs` | `TypeCorrect` | `Spec => []TypeOK` |
| | `RunsOnceKept` | `Spec => []RunsOnce` |
| | `PoolBoundKept` | `Spec => []PoolBound` |
| | `StopQuietKept` | `Spec => StopIsQuiet` |
| | `RecordsKept` | `Spec => []RecordsTruthful` |
| | `LifecycleFollowed` | `Spec => FollowsLifecycle` |
| `CacheManagerProofs` | `TypeCorrect` | `Spec => []TypeOK` |
| | `PromiseKept` | `Spec => KeepsPromise` |
| `ReplProofs` | `TypeCorrect` | `Spec => []TypeOK` |
| | `DirShownKept` | `Spec => []DirShown` |
| | `OneConversationKept` | `Spec => OneConversation` |

**The executor.** `TypeOK` is not inductive alone: the type of a key looked up
needs that a slot in use lies within its batch's request list. `BaseInv`,
`TypeOK` with `InRange` (a used slot is in range and its batch was accepted),
is inductive and carries everything else. Two lemmas keep the proofs short:
`OtherSlots`, that a step of one slot leaves every other slot alone, and
`StepCases`, that a step is a submission, a cancellation, a step of one slot or
one of no slot. On top of them

* `AttemptBudget` and `SerialOrder` are inductive relative to `BaseInv`;
* `CacheProvenance` is too, with the number of clears (`epoch`): an entry's
  call ended in the present one, and a call that was answered from the cache
  ended as it began, without an await;
* `NoEffectAfterReturn` needs `Quiet`: the calls of a batch that has ended are
  themselves ended or were never begun;
* `BatchAligned` needs `Quiet` too, as a returned list is only right as long as
  the calls it was made from stay as they are;
* `NoRepeatExecution` needs `AttemptBudget` and `CacheComplete`: with the cache on, a success of
  the present epoch has an entry under its key;
* the refinement needs `Answered`: a finished call never holds the placeholder,
  so that under the mapping (an answer is what the caller could get for a
  position) each step is a `Settle`, a `Deliver`, an `Abort`, an `Accept` or a
  stutter of `BatchPromise`.

**The agent.** `TypeOK` becomes inductive with `HoldsCreated`, that a started
chat holds a session that was created. A session enters the store only with an
id that was never used (`StoreGrows`), which is all that `NoResurrection` needs.

For `ChatTranscript` and `DepthAccounted` the invariant is `AgentInv`, with two
parts more. `Progress` says for each chat how far its messages are when it is at
a place of its loop: nothing is owed before the LLM is called, one response's
calls are unanswered while the batch runs, and the number of responses with
calls is the depth, or one less before the LLM has answered. It speaks of places
in the session, not of a filtered sequence, so that what other chats append
leaves it alone (`LoopOthers`); that messages are only appended does the rest.
`SessionDepths` says that a session's `chain_depth` is the number of pairs of a
chat that holds it and an iteration that chat began. A step adds one pair or
none, which needs no sum over chats.

**The built-in tools.** Each step of `ToolCalls` is a step of the executor or a
stutter of it (`ExecutorStep`), so the executor's theorems and its promise hold
of the composition. `CallsInv` is `BaseInv` and `AttemptBudget` of the executor
with `ToolsInv`: for each execution that a slot or a call of `resolve` has
begun, what its process may be doing (`SlotsOk`, `DirectsOk`), and that the one
who keeps the event loop is in the middle of an execution that nobody has given
up (`TurnOk`). Retries never reach `MaxRuns`, so that an execution is always
one that the processes have a place for. `FilesAccounted` needs in addition
that a text is written by tools that were called (`Authors`), that
`create_file_folder` on its way to its write can only meet what a command wrote,
and of the executor `Quiet` and `SerialOrder`.

**Contexts and requests.** The code walks over messages with loops, the model
with folds. A fold is unfolded as a function of the length of a prefix, and
what it computes follows by taking the least length for which it would not
(`LeastNumber`), which is as good as an induction. Turns, and likewise the entries of a
request, are cut out of the session: each is an unbroken run of it, the next
begins where it ends, and so to put them together gives the session back
(`CutOutOf`, `FlattenCuts`). The window, the compression and the budget each
keep an end of that; hence `ContextIsSuffix`, `RequestShown` and `SummaryFits`.
The inductive invariant (`Inv`) is small, as contexts are computed, and has three
parts. `SessionInv`: messages are numbered by their places (`Numbered`), and
every tool message stands in the complete group of results of its response
(`Grouped`), which is right in front of the group unless it was disturbed.
`ChatInv`: a chat that awaits tools has its response in the session, as the
newest message unless it was disturbed. `BuildInv`: the context was built from a
prefix of the session, for a chat whose message is in it. A group stays one when
anything is added after it (`GroupKept`). For the requests, `RequestOf` says
what the conversion makes of a context that does not raise: its entries are cut
out of the session too, and two entries of tool results are never neighbours, so
that neighbouring results share an entry (`OneEntry`); and compression, which
cuts at user messages, never cuts a group (`NotCut`). If it raises, it does so
at a result right behind a user message, and the group of such a result is not
right behind its response.

**Streams.** Calls are put together from fragments that do not all say whose
  they are, and a stream may break.
* **Task queue.** start and stop race with each other, with submits and with
  jobs that end in any way; no job may be lost by the queue or run twice.
* **Cache manager.** Time passes between any two calls; removal is lazy.
* **Command line.** Two copies of the working directory; commands that throw.

## 2. The modules

State variables have the names of the code's attributes where TLA+ allows it;
the comment at each declaration says which one it is.

| Module | Models | Composition |
|---|---|---|
| `ToolExecutor` | the executor | |
| `BatchPromise` | what `execute_batch` promises a caller | implemented by `ToolExecutor` (`KeepsPromise`) |
| `ToolBase` | `resolve` and `execute_with_retry` | |
| `BuiltinTools` | what the bodies of the tools do to one path, to processes and to the event loop | |
| `ToolCalls` | the built-in tools as they are called | extends `ToolExecutor`, `ToolBase` and `BuiltinTools`, and joins their steps |
| `Agent` | `Agent.chat` over the in-memory store | batches appear with the outcomes `ToolExecutor` allows |
| `ContextBuilder` | `build` over every session that interleaved chats can make | |
| `AnthropicRequest` | `AnthropicLLM.chat` up to the call of the service, with the tools the registry offers | extends `ContextBuilder`: converts what it builds |
| `LLMStream` | both `_stream_chat` generators | against `_parse_response` |
| `TaskQueue` | the queue and its workers | |
| `TaskLifecycle` | what a task's record may go through | implemented by `TaskQueue` (`FollowsLifecycle`) |
| `CacheManager` | the cache under a clock | |
| `TtlMap` | a map whose entries vanish on time | implemented by `CacheManager` (`KeepsPromise`) |
| `Repl` | main and the command line | |
| `ToolExecutorProofs`, `AgentProofs`, `LLMStreamProofs`, `TaskQueueProofs`, `CacheManagerProofs`, `ReplProofs` | theorems | extend the module they are named for |
| `ToolCallsProofs` | theorems | extends `ToolCalls` and `ToolExecutorProofs`, whose theorems hold of the composed system too |
| `ContextProofs` | theorems | extends `AnthropicRequest`, and so `ContextBuilder` |
| `MC*` | constants and symmetry for TLC | |

How actions correspond to code:

* **ToolExecutor.** A step is the code from one await to the next. `Submit`
  enters `execute_batch`; `Begin` is a call's code up to its first await (hit,
  unknown tool, or attempt 0); `EndAttempt` is what follows an attempt, by the
  way it ended; `Wake` ends a backoff; `Return`, `Propagate` and `CancelBatch`
  end the batch. The history variables `invoked`, `epoch`, `began`, `ended`
  and `source` record what was really run; no guard reads them.
* **ToolCalls.** The executor's actions are those of `ToolExecutor`, made the
  steps of a tool's `execute` by conjunction: `AttemptBegins` starts an attempt
  and calls the tool (`CallTool`), `AttemptGoesOn` is a system call of a file
  tool or the search's request (`GoesOn`), `AttemptAnswered` ends both
  (`ToolReturns`, or the command's own timer), and `AttemptTimesOut` is the
  executor's timer, or its cancellation of the tool. The `Direct` actions do
  the same for `resolve`. `turn` says which tool keeps the event loop, and
  where in its code it is: the file tools and the search have no await, so
  while it is set no other task of the program takes a step, and only
  processes do. `stalled` are the commands that a search kept waiting beyond
  both timers: then the executor's cancellation takes the place of the
  command's TimeoutError. All calls name one path, and a text is the sequence
  of its authors, so that it can be said whose text a step destroys. A process
  may write, remove the file, end or run on at any time.
* **ToolBase.** Arguments are the names of their Python types, which is all
  that `validate` looks at; an argument that the tool does not have passes it,
  and is a TypeError when the tool is called (`NotRun`).
* **Agent.** A chat's steps lie between its awaits of the LLM and of the batch.
  `NextIteration` is the head of the loop and, past the limit, the fallback.
  `CancelChat` and `LLMRaises` are the exceptions nothing in `chat` handles,
  `LLMCallsMalformed` those of `_build_tool_requests`. A chat that is cancelled
  has, like one whose LLM raises, ended with an exception: "raised". A message
  carries its chat's name so that transcripts can be told apart.
* **ContextBuilder.** The chats of one session take their steps between their
  awaits of the LLM and of the tools: `Ask` is a chat up to its first call of
  the LLM, `Answer`, `AskTools` and `GiveUp` follow the LLM's answer, and
  `ToolsDone` and `Fallback` the batch. Nothing keeps two chats apart. A message
  is its role, number, size and place, and a tool message has the place of the
  response it answers; `Build` is an operator, evaluated at each call of the
  LLM. Slices of the form `s[-n:]` are Python's, `n = 0` included. The history
  variables `seen` and `own` say when and for whom the context was built, and
  `disturbed` which responses had another chat's message come in before their
  results; no guard reads them.
* **AnthropicRequest.** `Converted` is the loop over the messages, with the
  AttributeError of its line 55. `Request` adds what comes before the call of
  the service: with tools on offer, the KeyError of `_format_tools`. As
  `Agent.chat` passes on every registered tool, no Anthropic request is sent
  today unless all tools are disabled. The properties of the entries speak of
  `Converted`, the part before that.
* **LLMStream.** The service has decided on an answer; its fragments come in
  every order the provider's protocol allows. Argument text is a sequence of
  fragments.
* **TaskQueue.** A worker tests the flag, then gets a job or waits for one in
  slices of a second (`PollTimeout`); `TakeWaited` is the get that ends with a
  job. `stop` is `StopNow`, or `StopAndWait(s)` of a caller `s`, who waits until
  `joining[s]` is empty; several callers may wait at once, each for the workers
  that lived when it called. `CancelStop(s)` is a caller that is cancelled, for
  instance by a timeout of its own. `Cancelled` is a job that ends in
  `CancelledError`. The history variables `found` (the workers created when a
  stop was called) and `allowed` (the starts' workers since none lived) are
  read by no guard.
* **CacheManager.** `Tick` is the clock; expired entries stay until `Get` or
  `CleanupExpired` comes across them.
* **Repl.** The start (settings loaded twice, the client made, which ends the
  program for an unknown provider or a key its client does not take, the
  directory asked for), the commands that change state, and each chat as its request and
  its end. Commands that only write to the screen are left out.

## 3. The runs

| Run | Question | Bounds |
|---|---|---|
| `executor_parallel` | Are parallel batches correct while sharing the cache? | 2 batches of 1 or 2 calls, 2 keys of one tool, 1 retry, 1 clear |
| `executor_serial` | Is the serial loop serial, does it end, does it keep its promise? | 1 batch of 0 or 3 calls (a repeated key among them), both failures, 1 retry |
| `agent_chats` | Do chats leave well-formed transcripts, whatever happens to sessions? | 2 chats, 2 sessions, depth 2, responses with 2 calls of which 1 is executed |
| `queue_jobs` | Is the queue correct under start, stop and cancellation? | 2 workers, 2 starts, 2 callers of `stop`, 2 jobs, equal or different ids |
| `context_build` | Are contexts and requests faithful to the session? | 2 chats of one session, 9 messages, window 5, 1 or 2 calls per response, 2 turns kept, 1 tool or none |
| `cache_ttl` | Is lazy expiry invisible? | 2 keys, 2 values, ttl 0, 2 or none, 4 ticks |
| `llm_stream` | Does a stream yield the complete answer's calls? | 3 calls, 2 fragments each |
| `repl` | Do the screen, the LLM and the sessions agree? | 3 directories, one unusable, 3 sessions, 3 chats, every settings file |
| `tool_calls` | What do the built-in tools leave behind, and does their batch end? | 1 batch of 2 of 8 kinds of call, 1 retry, 1 call of `resolve` with 1 retry, 1 path |
| `tool_calls_doc_once` (violation) | Is a command over after its timeout? | as `tool_calls` |
| `agent_doc_order` (violation) | Is a session in the documented order? | as `agent_chats` |
| `context_doc_prompt` (violation) | Is the system prompt sent? | as `context_build` |

Why the bounds are enough to meet the interesting cases: two of each actor give
every pairwise race; one retry gives an attempt that may be repeated and one
that may not, with a backoff between them; two calls of which one is executed give the placeholder
answer; a window of five over nine messages is cut in every place, in the
middle of a group of tool results too; two chats put a message between a
response and its results, or begin so many turns that the other's own message is
compressed away; two starts give the overlapping pools, and two callers a stop
that finds another one waiting;
three streamed calls give one that is neither first nor last. In `tool_calls`
the four batches pair each tool with one that disturbs it: a command longer
than the executor's timeout with the tool whose look and write it can get in
between, a short one with the search that delays its timers, and two file
tools with each other; the call of `resolve` is a command or an append on the
same path, and its arguments meet each answer of `validate`. One path is
enough, since calls on different paths share nothing but the event loop. In
`ContextBuilder` the constants that the code fixes (50, 100 and the overheads)
are scaled down together with the window, so that small sessions reach each
branch. Bounds are constants declared as such (`MaxClears`, `MaxStarts`,
`MaxJobs`, `MaxRuns`, `MaxMessages`, `MaxText`, `MaxSessions`, `MaxChats`, `MaxClock`).

Symmetry is used where only safety is checked (`executor_parallel`,
`agent_doc_order`, `context_build` and `context_doc_prompt`). Deadlock is checked except where a run really
ends: a finished stream, a session that has reached its bound, a program that
was left.

Properties that deserve a word:

* `CacheProvenance` ties a cached or returned content to the execution that
  produced it, through the history variable `source`, and says what
  `clear_cache` is good for: nothing that was stored before the latest clear is
  in the cache, or is answered to a call that begins after it.
* `ExecutorCommands` lists the only ways a process can be left behind: its call
  was cancelled, the executor's timer came no later than the command's own, or
  a search kept both from firing. For a command with a shorter timeout and no
  search next to it, an attempt never begins while the one before it runs.
* `DirectCommands` is what `resolve` does better: it sets no timeout, and so
  never starts a command whose last execution still runs.
* `FilesAccounted` says which texts a file tool may destroy: `write_file`
  replaces, an append loses nothing even if it fails, and `create_file_folder`
  destroys only what a command writes in the moment between its look and its
  open, never what was there before or what another file tool wrote.
* `ChatTranscript` speaks of one chat's messages inside a session that other
  chats write to as well; the same statement about the whole session is false
  (`agent_doc_order`).
* `RunsOnce` says at once that no job is lost, none runs twice, and they start
  in order. `RecordsTruthful` and `FollowsLifecycle` are conditional on ids
  used once, since a reused id makes two jobs share one record.
* `PoolBound` has no condition: it counts what the starts since the queue was
  last without workers account for. With one start that is `max_workers`; a
  start that finds workers of an earlier one alive adds to it, which is the
  code's real limit (section 6).
* `StopIsQuiet` says that whichever way a stop ends, none of the workers it was
  called for is left, whatever other stops and starts do meanwhile; a start can
  only make it wait. `StopReturns` says that it does not wait for ever when the
  queue stays stopped from some time on, and would be false for a worker that
  waits for a job without a timeout.
* `ContextIsSuffix` and `RequestComplete` together say that the request shows
  the end of the conversation, without gaps. `RequestComplete` says in addition
  exactly when making a request fails: always with tools, and else only at
  the results of a disturbed response that follow a user message.
* `RequestShown` names the two ways the user message to be answered can be
  missing: the window, and later turns of other chats.
* `ResultsTogether` names what can part a result from its response: the window,
  which takes the front (so that a request can begin with results whose
  response it does not show), and another chat, which comes in front of all
  results of a response but never among them.

## 4. Fairness

* `ToolExecutor`: weak fairness of a call's first step, of the end of an
  attempt, of waking up, and of returning. `asyncio.wait_for` ends every
  attempt, `asyncio.sleep` every backoff, and the event loop runs what is
  ready. Not fair: submitting, cancelling, registering, clearing.
* `ToolCalls`: weak fairness of each slot's steps, of each `resolve`, and of
  returning. Here attempts end because the timers of commands fire, the network
  answers a search or times out, and system calls of the file tools return.
  Not fair: processes, which may run for ever, cancelling, submitting. Starting
  a process is taken to be short against the difference of two timeouts, so
  that the shorter one fires first when nothing keeps the loop.
* `Agent`: weak fairness of a chat's step. The executor ends every batch
  (`BatchTerminates`, `CallsEnd`), and the LLM clients have timeouts. Not fair:
  new chats, cancellation, deletion, expiry.
* `TaskQueue`: weak fairness of each worker's steps; a wait for a job lasts a
  second at most. That jobs end is an assumption about the jobs: the queue sets
  them no limit. Not fair: start, stop, submit and cancellation.

The other modules state safety only.

## 5. What is proved

Each theorem holds for every value of the module's constants; the only
assumptions are the modules' named ones (`ExecutorAssumption`,
`ToolsAssumption`, `BaseAssumption`, `CallsAssumption`, `AgentAssumption`,
`ContextAssumption`, `StreamAssumption`, `TaskQueueAssumption`,
`CacheAssumption`, `ReplAssumption`). TLC evaluates them in every run. They
give the constants' types for the most part. The others are these: a message
has a size and a response with calls has at least one (`ContextAssumption`,
`AgentAssumption`), the default provider is one that `create_llm` knows
(`ReplAssumption`), and the bound on executions leaves room for the retries, so
that it never stops a call that the code would go on with (`CallsAssumption`).

| Module | Theorem | Statement |
|---|---|---|
| `ToolExecutorProofs` | `TypeCorrect` | `Spec => []TypeOK` |
| | `BudgetKept` | `Spec => []AttemptBudget` |
| | `SerialKept` | `Spec => []SerialOrder` |
| | `AlignedKept` | `Spec => []BatchAligned` |
| | `ProvenanceKept` | `Spec => []CacheProvenance` |
| | `NoEffectKept` | `Spec => NoEffectAfterReturn` |
| | `NoRepeatKept` | `Spec => NoRepeatExecution` |
| | `PromiseKept` | `Spec => KeepsPromise` |
| `ToolCallsProofs` | `ExecutorImplemented` | `CallsSpec => Spec /\ KeepsPromise` |
| | `ToolsTypeCorrect` | `CallsSpec => []ToolsTypeOK` |
| | `ExecutorCommandsKept` | `CallsSpec => []ExecutorCommands` |
| | `DirectCommandsKept` | `CallsSpec => []DirectCommands` |
| | `FilesAccountedKept` | `CallsSpec => FilesAccounted` |
| `AgentProofs` | `TypeCorrect` | `Spec => []TypeOK` |
| | `NoResurrectionKept` | `Spec => NoResurrection` |
| | `ChatTranscriptKept` | `Spec => []ChatTranscript` |
| | `DepthAccountedKept` | `Spec => []DepthAccounted` |
| `ContextProofs` | `TypeCorrect` | `Spec => []TypeOK` |
| | `SuffixKept` | `Spec => []ContextIsSuffix` |
| | `RequestShownKept` | `Spec => []RequestShown` |
| | `SummaryFitsKept` | `Spec => []SummaryFits` |
| | `RequestCompleteKept` | `Spec => []RequestComplete` |
| | `ResultsTogetherKept` | `Spec => []ResultsTogether` |
| `LLMStreamProofs` | `TypeCorrect` | `Spec => []TypeOK` |
| | `StreamAgreesKept` | `Spec => []StreamAgrees` |
| `TaskQueueProofs` | `TypeCorrect` | `Spec => []TypeOK` |
| | `RunsOnceKept` | `Spec => []RunsOnce` |
| | `PoolBoundKept` | `Spec => []PoolBound` |
| | `StopQuietKept` | `Spec => StopIsQuiet` |
| | `RecordsKept` | `Spec => []RecordsTruthful` |
| | `LifecycleFollowed` | `Spec => FollowsLifecycle` |
| `CacheManagerProofs` | `TypeCorrect` | `Spec => []TypeOK` |
| | `PromiseKept` | `Spec => KeepsPromise` |
| `ReplProofs` | `TypeCorrect` | `Spec => []TypeOK` |
| | `DirShownKept` | `Spec => []DirShown` |
| | `OneConversationKept` | `Spec => OneConversation` |

**The executor.** `TypeOK` is not inductive alone: the type of a key looked up
needs that a slot in use lies within its batch's request list. `BaseInv`,
`TypeOK` with `InRange` (a used slot is in range and its batch was accepted),
is inductive and carries everything else. Two lemmas keep the proofs short:
`OtherSlots`, that a step of one slot leaves every other slot alone, and
`StepCases`, that a step is a submission, a cancellation, a step of one slot or
one of no slot. On top of them

* `AttemptBudget` and `SerialOrder` are inductive relative to `BaseInv`;
* `CacheProvenance` is too, with the number of clears (`epoch`): an entry's
  call ended in the present one, and a call that was answered from the cache
  ended as it began, without an await;
* `NoEffectAfterReturn` needs `Quiet`: the calls of a batch that has ended are
  themselves ended or were never begun;
* `BatchAligned` needs `Quiet` too, as a returned list is only right as long as
  the calls it was made from stay as they are;
* `NoRepeatExecution` needs `AttemptBudget` and `CacheComplete`: with the cache on, a success of
  the present epoch has an entry under its key;
* the refinement needs `Answered`: a finished call never holds the placeholder,
  so that under the mapping (an answer is what the caller could get for a
  position) each step is a `Settle`, a `Deliver`, an `Abort`, an `Accept` or a
  stutter of `BatchPromise`.

**The agent.** `TypeOK` becomes inductive with `HoldsCreated`, that a started
chat holds a session that was created. A session enters the store only with an
id that was never used (`StoreGrows`), which is all that `NoResurrection` needs.

For `ChatTranscript` and `DepthAccounted` the invariant is `AgentInv`, with two
parts more. `Progress` says for each chat how far its messages are when it is at
a place of its loop: nothing is owed before the LLM is called, one response's
calls are unanswered while the batch runs, and the number of responses with
calls is the depth, or one less before the LLM has answered. It speaks of places
in the session, not of a filtered sequence, so that what other chats append
leaves it alone (`LoopOthers`); that messages are only appended does the rest.
`SessionDepths` says that a session's `chain_depth` is the number of pairs of a
chat that holds it and an iteration that chat began. A step adds one pair or
none, which needs no sum over chats.

**The built-in tools.** Each step of `ToolCalls` is a step of the executor or a
stutter of it (`ExecutorStep`), so the executor's theorems and its promise hold
of the composition. `CallsInv` is `BaseInv` and `AttemptBudget` of the executor
with `ToolsInv`: for each execution that a slot or a call of `resolve` has
begun, what its process may be doing (`SlotsOk`, `DirectsOk`), and that the one
who keeps the event loop is in the middle of an execution that nobody has given
up (`TurnOk`). Retries never reach `MaxRuns`, so that an execution is always
one that the processes have a place for. `FilesAccounted` needs in addition
that a text is written by tools that were called (`Authors`), that
`create_file_folder` on its way to its write can only meet what a command wrote,
and of the executor `Quiet` and `SerialOrder`.

**Contexts and requests.** The code walks over messages with loops, the model
with folds. A fold is unfolded as a function of the length of a prefix, and
what it computes follows by taking the least length for which it would not
(`LeastNumber`), which is as good as an induction. Turns, and likewise the entries of a
request, are cut out of the session: each is an unbroken run of it, the next
begins where it ends, and so to put them together gives the session back
(`CutOutOf`, `FlattenCuts`). The window, the compression and the budget each
keep an end of that; hence `ContextIsSuffix`, `RequestShown` and `SummaryFits`.
The inductive invariant is small, as contexts are computed: `SessionInv`, that
messages are numbered by their places (`Numbered`) and every tool message
stands in a complete group after its response (`Grouped`), and `ContextInv`,
that a context was built from some prefix of the session. For the requests,
`RequestShape` says what the conversion makes of such a context: two entries of
tool results are never neighbours, which is what keeps the results of a response
together, wherever the window cuts.

**Streams.** `CallsAccumulated`, that what is put together agrees with the answer so far,
becomes inductive with `Keyed` (a call is found by its index, or its id),
`SentBounded` (no more is sent than there is) and `OneOpen` (an Anthropic
answer is streamed call by call).

**The task queue.** What a worker does is one of two things, taking a job or
going on without one, after it has released what it held (`WorkCases`,
`Released`); the cases of every proof follow these. `BaseInv` adds to `TypeOK`
that workers not yet created are untouched and not awaited (`Created`), that a
busy worker's job and record were submitted (`Holding`), that the queue holds the
latest submissions in order (`InOrder`), and `LatestKnown`: each submitted id
has a latest record. That is inductive step by step, and stands for an induction
over the numbers of the records. `RunsOnce` is inductive relative to it.
`PoolBound` and `StopIsQuiet` share `PoolInv`: the living workers are among the
last `allowed` created (`LatestPool`), and what a stop awaits is exactly those
that live of the workers it found (`AwaitsFound`). It follows from what each
step does to the set of living workers: it adds to them, some end, or a stop
begins to await them (`WorkLive`, `StartLive`, `PoolMoves`, `AwaitsOn`). For the
records, with ids used once, `RecordInv` says that a worker updates the record
of its own job and extends `RecordsTruthful` to jobs not yet submitted.
The lifecycle follows: `MayMove` lists what one step can do to one task, and
each of its cases is an edge of `TaskLifecycle`.

**The cache.** The store is a dictionary: at most one entry has a key. Under
that, `Seen`, what a dictionary shows at a time, is not changed by removing
entries that have expired (`RemovalUnseen`), so that each `Get` and
`CleanupExpired` is a step or a stutter of `TtlMap`, and the passing of time is
the abstract map's `Tick`.

**The command line.** `TypeOK`, which also says that a conversation has a
client, is inductive with `ClientMade` (a known provider from the client on)
and with `DirShown`, which `/new` needs to inherit a directory that is one.
`OneConversation` needs `LogInv`: no session after the current one has a
message, so that the next message is the last of the last one that has any.

Every invariant and every action property that a run checks is stated by a
theorem. Only model-checked is liveness (`BatchTerminates`, `CallsEnd`,
`ChatEnds`, `QueuedJobsRun`, `StopReturns`), since fairness and `ENABLED` are
out of the prover's reach; and the violations of section 6, which are
counterexamples.

## 6. Where the code and its documents part

Three disagreements are shown by a run, and have an entry under "findings":

1. Two chats of a session interleave in it (`core/agent.py:117`, AGT-10).
2. A summary's system message replaces the system prompt in Anthropic requests
   (`llm/anthropic_provider.py:50`, AGT-11).
3. With the default settings a command that takes more than 30 seconds is
   started again while its first process runs on, although it is described to
   time out after 60 (`tools/builtins/command_execute.py:29, 61`).

Others were met on the way and have no run. Of the built-in tools and settings:

* The search is a synchronous call inside a coroutine: while it waits no other
  tool, timer or chat runs (`tools/builtins/web_search.py:41`, TEX-02). When it
  has kept the loop beyond both timers of a command, the executor's
  cancellation wins, and even a command with a short timeout is left running
  and started again (`ExecutorCommands` excepts it as `BothDue`).
* `proc.kill()` ends the shell only; what the shell started runs on
  (`tools/builtins/command_execute.py:63`).
* The executor calls tools without `validate`: a missing argument is a
  TypeError, which it retries (TOL-09).
* `read_file` with `end_line=0` returns no line under a heading that says it
  shows all of them (`tools/builtins/file_read.py:79`).
* `reload_settings` renews a variable that nothing reads, so that a reload
  changes no running part (`config/settings.py:236`, CFG-03).
* `_ConfigWatcher.run` reads `self._stop_event`, which only the handle has: the
  thread dies at once and nothing is ever reloaded (`config/settings.py:189`).
* `cleanup_expired` of the sessions is called by nothing; several settings
  (`cache_ttl_seconds`, `cache_max_size`, `max_concurrent_tools`,
  `retry_max_attempts`) are read by nothing.

Of the executor, the queue and the agent:

* `clear_cache` does not reach calls in flight, whose results are stored
  afterwards (`core/tool_executor.py:245`, TEX-10); `CacheProvenance` says how
  far it does reach.
* start after `stop(wait=False)` doubles the pool
  (`core/task_queue/queue.py:54`, MQ-05); `PoolBound` counts such starts.
* start during `stop(wait=True)` sets the workers going again, and the stop
  waits until they meet the queue stopped once more, for ever if it is not
  (`core/task_queue/queue.py:64`, against the docstring in line 61);
  `StopReturns` therefore asks for a queue that stays stopped.
* `TIMEOUT` is never reported (`core/tool_executor.py:249-267`, TEX-02), and
  `retry_count` is 0 for an exhausted call (line 69 says actual retries).
* The text of a tool's failure is dropped: tool messages carry `content`, which
  is empty (`core/agent.py:123`, AGT-09). The built-in tools put their error
  text into `content`, which the executor drops as well.
* An LLM exception leaves `chat` (AGT-08) with the user message in the session;
  a chat cancelled during its batch leaves an assistant message whose calls are
  never answered, which the services reject later.
* A job that ends in `CancelledError` ends its worker for good; with all
  workers gone, jobs stay queued (the exception in `QueuedJobsRun`).
* `wait_for(timeout=0)` waits without limit (`core/task_queue/queue.py:104`).

Of contexts, requests, the command line and the server:

* The `window_size` of a context is a number of messages in one place and of
  tokens in another (`models/session.py:38`, `core/context_builder.py:155`), and
  the window may cut a group of tool results from its call, where
  `docs/modules/context_builder.md:13` promises the complete chain;
  `ResultsTogether` says what is left of the chain then.
* Two chats of one session are not kept apart, where
  `docs/agent-capabilities.md:30` speaks of a lock. A context can then show a
  tool result after a user's text, and `AnthropicLLM.chat` raises AttributeError
  on it (`llm/anthropic_provider.py:55`); `RequestComplete` says that nothing
  else leads there.
* `AnthropicLLM._format_tools` expects `tool["name"]`, which the function
  definitions of the registry hold one level deeper: KeyError at every call with
  tools (`llm/anthropic_provider.py:173`, `tools/registry.py:47-55`), also part
  of `RequestComplete`.
* Keys that `LLMProviderConfig` lets pass (`config/settings.py:31`) and the
  client's constructor does not take end the program at its start with a
  TypeError (`llm/factory.py:39, 43`; `MakeClient`).
* `/sessions` calls `model_dump` on a dataclass and ends the program
  (`cli/repl.py:215`).
* Both middlewares call `super().__init__()` without `app`
  (`api/middleware/rate_limit.py:36`, `api_key_auth.py:27`), so the application
  cannot build its middleware stack and serves no request.
* `stream_chat_response` uses `Agent.ChatRequest`, which does not exist
  (`api/server.py:66`).

## 7. What is not modelled

* Text: wording, logging, JSON conversions, token counting; the texts of files
  beyond who wrote them, and `calculator` and `current_time`, which compute one.
* Jobs, and tools other than the built-in ones, that swallow `CancelledError`;
  such a tool is otherwise free to succeed, fail, raise, time out or be
  cancelled. In `ToolCalls` the executor's calls have the arguments their tools
  take; those of `resolve` may lack some, or have one too many.
* `reload_settings`, the watcher and `Settings.validate`: what they do reaches
  no other part, or nothing calls them (section 6).
* Logging, input validation, short-term memory: functions of one value, or used
  by nothing.
* The API server and its middlewares: no code of a handler can run as the
  program stands (section 6). The handlers are thin over Agent and the store,
  and what they would do to sessions (delete, and chats that go away) is in
  `Agent` as `DeleteSession` and `CancelChat`.
* The OpenAI request format, which is the context entry by entry. The streamed
  Anthropic request: its messages are converted by the same lines, its tools
  formatted when the stream is first read; only `stream_chat_response` of the API
  server asks for one, and it fails before (section 6).
* Cache backends and session adapters other than those in memory: interfaces
  without an implementation. `get_json` and `set_json` of the cache wrap
  values in text.

## 8. Plan

Built so far, in this order: `ToolExecutor` with its promise, `Agent`,
`TaskQueue` with its lifecycle, `ContextBuilder` and `AnthropicRequest`,
`CacheManager` with `TtlMap`, `LLMStream`, `Repl`; the executor's proofs;
`BuiltinTools`, `ToolBase` and their composition with the executor in
`ToolCalls`; the proofs of the cache manager, the task queue and the command
line, of the agent, the streams and the built-in tools, and of contexts and
requests; contexts of several chats of one session.

Next, by importance:

1. `Agent` composed with `ToolExecutor` through `BatchPromise`, as a refinement
   with a proof.
2. An abstract specification of the agent: what a chat promises its caller.
3. The API server's handlers, WebSocket and rate limiter, once its middleware
   stack can be built; settings once a reload reaches the running parts.
