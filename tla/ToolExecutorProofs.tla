------------------------- MODULE ToolExecutorProofs -------------------------
(***************************************************************************)
(* Theorems about ToolExecutor, for all batches, tools, keys and retries:  *)
(* its types, its safety properties, and that it implements BatchPromise.  *)
(***************************************************************************)
EXTENDS ToolExecutor, TLAPS

(* A slot names a batch and a position. *)
LEMMA SlotParts ==
    ASSUME NEW s \in Slots
    PROVE  s[1] \in Batches /\ s[2] \in 1..MaxBatch /\ s = <<s[1], s[2]>>
  BY DEF Slots

(* Slots are used only within the request list of a batch that was accepted. *)
InRange ==
    \A s \in Slots : pc[s] # "unused" =>
      s[2] <= Len(requests[s[1]]) /\ phase[s[1]] # "idle"

BaseInv == TypeOK /\ InRange

(* A record of the four fields is a result of the executor. *)
LEMMA ResultTyped ==
    ASSUME NEW r \in 0..MaxRetries, NEW st \in ExecutionStatus,
           NEW c \in Contents \cup {""}, NEW e \in Errors
    PROVE  [status |-> st, content |-> c, error |-> e, retry_count |-> r]
             \in Results
  BY DEF Results

(* Zero retries are always within the bound. *)
LEMMA ZeroRetries == 0 \in 0..MaxRetries /\ 0 \in 0..MaxClears
  BY ExecutorAssumption

(* The placeholder of a running call and the result of one that raised. *)
LEMMA FixedResults == NoResult \in Results /\ Unexpected \in Results
  BY ZeroRetries, ResultTyped
  DEF NoResult, Unexpected, ExecutionStatus, Errors

(* The initial states are well typed and no slot is used in them. *)
LEMMA BaseInvInit == Init => BaseInv
  <1> SUFFICES ASSUME Init PROVE BaseInv
    OBVIOUS
  <1>1. /\ registry \subseteq Tools
        /\ cache \subseteq CacheEntries
        /\ source \in [Slots -> Slots]
        /\ phase \in [Batches -> {"idle", "running", "returned", "raised"}]
        /\ pc \in [Slots -> PCs]
        /\ lastError \in [Slots -> Failures \cup {"none"}]
    BY DEF Init, PCs
  <1>2. result \in [Slots -> Results]
    BY FixedResults DEF Init
  <1>3. /\ attempt \in [Slots -> 0..MaxRetries]
        /\ invoked \in [Slots -> Nat]
        /\ epoch \in 0..MaxClears
        /\ began \in [Slots -> 0..MaxClears]
        /\ ended \in [Slots -> 0..MaxClears]
    BY ZeroRetries DEF Init
  <1>4. /\ requests \in [Batches -> Seq(Keys)]
        /\ \A b \in Batches : Len(requests[b]) <= MaxBatch
        /\ results \in [Batches -> Seq(Results)]
    BY ExecutorAssumption DEF Init
  <1>5. InRange
    BY DEF Init, InRange
  <1> QED
    BY <1>1, <1>2, <1>3, <1>4, <1>5 DEF BaseInv, TypeOK

(* The key of a slot in use is a key. *)
LEMMA KeyTyped ==
    ASSUME BaseInv, NEW s \in Slots, pc[s] # "unused"
    PROVE  KeyOf(s) \in Keys
  <1>1. s[1] \in Batches /\ s[2] \in 1..Len(requests[s[1]])
    BY SlotParts, ExecutorAssumption DEF BaseInv, InRange, TypeOK
  <1> QED
    BY <1>1 DEF BaseInv, TypeOK, KeyOf

-----------------------------------------------------------------------------
(* Submit gives a batch its requests and queues its slots. *)
LEMMA BaseSubmit ==
    ASSUME BaseInv, NEW b \in Batches, NEW q \in BatchInputs, Submit(b, q)
    PROVE  BaseInv'
  <1>1. q \in Seq(Keys) /\ Len(q) <= MaxBatch
    BY ExecutorAssumption
  <1>2. TypeOK'
    BY <1>1 DEF BaseInv, TypeOK, Submit, PCs, histVars
  <1>3. InRange'
    BY <1>1, SlotParts DEF BaseInv, TypeOK, InRange, Submit
  <1> QED
    BY <1>2, <1>3 DEF BaseInv

(* A step that changes pc only within the slots in use keeps InRange. *)
LEMMA InRangeKept ==
    ASSUME BaseInv, UNCHANGED <<requests, phase>>,
           \A s \in Slots : pc[s] = "unused" => pc'[s] = "unused"
    PROVE  InRange'
  BY DEF BaseInv, InRange

(* A call ends with a result of the right type, and nothing else moves. *)
LEMMA BaseEnd ==
    ASSUME BaseInv, NEW s \in Slots, NEW r \in Results, EndCall(s, r),
           pc[s] # "unused", UNCHANGED <<requests, phase>>
    PROVE  /\ pc' \in [Slots -> PCs]
           /\ result' \in [Slots -> Results]
           /\ InRange'
  <1>1. pc' \in [Slots -> PCs] /\ result' \in [Slots -> Results]
    BY DEF BaseInv, TypeOK, EndCall, PCs
  <1>2. \A t \in Slots : pc[t] = "unused" => pc'[t] = "unused"
    BY DEF BaseInv, TypeOK, EndCall
  <1> QED
    BY <1>1, <1>2, InRangeKept

(* A call is answered from the cache. *)
LEMMA BaseCacheHit ==
    ASSUME BaseInv, NEW s \in Slots, CacheHit(s)
    PROVE  BaseInv'
  <1>1. PICK e \in Hits(s) :
          /\ EndCall(s, [status |-> "success", content |-> e.content,
                         error |-> "", retry_count |-> 0])
          /\ source' = [source EXCEPT ![s] = e.by]
    BY DEF CacheHit
  <1>2. e.content \in Contents \cup {""} /\ e.by \in Slots
    BY <1>1 DEF BaseInv, TypeOK, Hits, CacheEntries
  <1>3. [status |-> "success", content |-> e.content,
         error |-> "", retry_count |-> 0] \in Results
    BY <1>2, ResultTyped, ZeroRetries DEF ExecutionStatus, Errors
  <1>4. pc[s] # "unused" /\ UNCHANGED <<requests, phase>>
    BY DEF CacheHit, MayStart
  <1>5. /\ pc' \in [Slots -> PCs]
        /\ result' \in [Slots -> Results]
        /\ InRange'
    BY <1>1, <1>3, <1>4, BaseEnd
  <1>6. TypeOK'
    BY <1>1, <1>2, <1>5 DEF BaseInv, TypeOK, CacheHit, CacheEntries
  <1> QED
    BY <1>5, <1>6 DEF BaseInv

(* A call names a tool nobody registered. *)
LEMMA BaseUnknownTool ==
    ASSUME BaseInv, NEW s \in Slots, UnknownTool(s)
    PROVE  BaseInv'
  <1>1. [status |-> "failed", content |-> "", error |-> "unknown_tool",
         retry_count |-> 0] \in Results
    BY ResultTyped, ZeroRetries DEF ExecutionStatus, Errors
  <1>2. /\ pc' \in [Slots -> PCs]
        /\ result' \in [Slots -> Results]
        /\ InRange'
    BY <1>1, BaseEnd DEF UnknownTool, MayStart
  <1>3. TypeOK'
    BY <1>2 DEF BaseInv, TypeOK, UnknownTool, CacheEntries
  <1> QED
    BY <1>2, <1>3 DEF BaseInv

(* A slot in use moves on: pc stays typed and within range. *)
LEMMA BaseMove ==
    ASSUME BaseInv, NEW s \in Slots, NEW p \in PCs, pc[s] # "unused",
           pc' = [pc EXCEPT ![s] = p], UNCHANGED <<requests, phase>>
    PROVE  pc' \in [Slots -> PCs] /\ InRange'
  <1>1. pc' \in [Slots -> PCs]
    BY DEF BaseInv, TypeOK
  <1>2. \A t \in Slots : pc[t] = "unused" => pc'[t] = "unused"
    BY DEF BaseInv, TypeOK
  <1> QED
    BY <1>1, <1>2, InRangeKept

(* Starting the tool once more counts one more invocation. *)
LEMMA InvokedTyped ==
    ASSUME BaseInv, NEW s \in Slots,
           invoked' = [invoked EXCEPT ![s] = @ + 1]
    PROVE  invoked' \in [Slots -> Nat]
  <1>1. invoked \in [Slots -> Nat]
    BY DEF BaseInv, TypeOK
  <1> QED
    BY <1>1

(* The first attempt starts. *)
LEMMA BaseStartLoop ==
    ASSUME BaseInv, NEW s \in Slots, StartLoop(s)
    PROVE  BaseInv'
  <1>1. invoked' \in [Slots -> Nat]
    BY InvokedTyped DEF StartLoop
  <1>2. pc' \in [Slots -> PCs] /\ InRange'
    BY BaseMove DEF StartLoop, MayStart, PCs
  <1>3. TypeOK'
    BY <1>1, <1>2 DEF BaseInv, TypeOK, StartLoop, CacheEntries
  <1> QED
    BY <1>2, <1>3 DEF BaseInv

(* The tool answers, and the answer goes into the cache. *)
LEMMA BaseAttemptOk ==
    ASSUME BaseInv, NEW s \in Slots, NEW c \in Contents, AttemptOk(s, c)
    PROVE  BaseInv'
  <1>1. attempt[s] \in 0..MaxRetries
    BY DEF BaseInv, TypeOK
  <1>2. [status |-> "success", content |-> c, error |-> "",
         retry_count |-> attempt[s]] \in Results
    BY <1>1, ResultTyped DEF ExecutionStatus, Errors
  <1>3. /\ pc' \in [Slots -> PCs]
        /\ result' \in [Slots -> Results]
        /\ InRange'
    BY <1>2, BaseEnd DEF AttemptOk
  <1>4. cache' \subseteq CacheEntries
    <2>1. KeyOf(s) \in Keys
      BY KeyTyped DEF AttemptOk
    <2> DEFINE entry == [key |-> KeyOf(s), content |-> c, by |-> s]
    <2>2. entry \in CacheEntries
      BY <2>1 DEF CacheEntries
    <2>3. cache' \subseteq cache \cup {entry}
      BY DEF AttemptOk, CacheWrite
    <2> QED
      BY <2>2, <2>3 DEF BaseInv, TypeOK
  <1>5. TypeOK'
    BY <1>3, <1>4 DEF BaseInv, TypeOK, AttemptOk, CacheEntries
  <1> QED
    BY <1>3, <1>5 DEF BaseInv

(* The tool answers with success=False. *)
LEMMA BaseAttemptFail ==
    ASSUME BaseInv, NEW s \in Slots, AttemptFail(s)
    PROVE  BaseInv'
  <1>1. attempt[s] \in 0..MaxRetries
    BY DEF BaseInv, TypeOK
  <1>2. [status |-> "failed", content |-> "", error |-> "tool_error",
         retry_count |-> attempt[s]] \in Results
    BY <1>1, ResultTyped DEF ExecutionStatus, Errors
  <1>3. /\ pc' \in [Slots -> PCs]
        /\ result' \in [Slots -> Results]
        /\ InRange'
    BY <1>2, BaseEnd DEF AttemptFail
  <1>4. TypeOK'
    BY <1>3 DEF BaseInv, TypeOK, AttemptFail, CacheEntries, histVars
  <1> QED
    BY <1>3, <1>4 DEF BaseInv

(* An attempt ends without an answer, and another may follow. *)
LEMMA BaseAttemptRetry ==
    ASSUME BaseInv, NEW s \in Slots, NEW k \in Failures, AttemptRetry(s, k)
    PROVE  BaseInv'
  <1>1. attempt[s] \in 0..MaxRetries /\ attempt[s] < MaxRetries
    BY DEF BaseInv, TypeOK, AttemptRetry, MayRetry
  <1>2. attempt[s] + 1 \in 0..MaxRetries
    BY <1>1, ExecutorAssumption
  <1>3. attempt' \in [Slots -> 0..MaxRetries]
    BY <1>2 DEF BaseInv, TypeOK, AttemptRetry
  <1>4. pc' \in [Slots -> PCs] /\ InRange'
    BY BaseMove DEF AttemptRetry, PCs
  <1>5. TypeOK'
    BY <1>3, <1>4 DEF BaseInv, TypeOK, AttemptRetry, CacheEntries, histVars
  <1> QED
    BY <1>4, <1>5 DEF BaseInv

(* The last attempt ends without an answer. *)
LEMMA BaseAttemptExhausted ==
    ASSUME BaseInv, NEW s \in Slots, NEW k \in Failures,
           AttemptExhausted(s, k)
    PROVE  BaseInv'
  <1> DEFINE st == IF MaxRetries > 0 THEN "retry_exhausted" ELSE "failed"
  <1>1. [status |-> st, content |-> "", error |-> "exhausted",
         retry_count |-> 0] \in Results
    BY ResultTyped, ZeroRetries DEF ExecutionStatus, Errors
  <1>2. /\ pc' \in [Slots -> PCs]
        /\ result' \in [Slots -> Results]
        /\ InRange'
    BY <1>1, BaseEnd DEF AttemptExhausted
  <1>3. TypeOK'
    BY <1>2 DEF BaseInv, TypeOK, AttemptExhausted, CacheEntries, histVars
  <1> QED
    BY <1>2, <1>3 DEF BaseInv

(* Cancellation comes out of the tool. *)
LEMMA BaseAttemptCancelled ==
    ASSUME BaseInv, NEW s \in Slots, AttemptCancelled(s)
    PROVE  BaseInv'
  <1>1. pc' \in [Slots -> PCs] /\ InRange'
    BY BaseMove DEF AttemptCancelled, PCs
  <1>2. TypeOK'
    BY <1>1 DEF BaseInv, TypeOK, AttemptCancelled, CacheEntries, histVars
  <1> QED
    BY <1>1, <1>2 DEF BaseInv

(* The backoff ends. *)
LEMMA BaseWake ==
    ASSUME BaseInv, NEW s \in Slots, Wake(s)
    PROVE  BaseInv'
  <1>1. invoked' \in [Slots -> Nat]
    BY InvokedTyped DEF Wake
  <1>2. pc' \in [Slots -> PCs] /\ InRange'
    BY BaseMove DEF Wake, PCs
  <1>3. TypeOK'
    BY <1>1, <1>2 DEF BaseInv, TypeOK, Wake, CacheEntries
  <1> QED
    BY <1>2, <1>3 DEF BaseInv

-----------------------------------------------------------------------------
(* Each element of the list a batch returns is a result. *)
LEMMA ResultListTyped ==
    ASSUME BaseInv, NEW b \in Batches
    PROVE  ResultList(b) \in Seq(Results)
  <1>1. Len(requests[b]) \in Nat /\ Len(requests[b]) <= MaxBatch
    BY DEF BaseInv, TypeOK
  <1>2. ASSUME NEW i \in 1..Len(requests[b])
        PROVE  Resolved(b, i) \in Results
    <2>1. <<b, i>> \in Slots
      BY <1>1, ExecutorAssumption DEF Slots
    <2> QED
      BY <2>1, FixedResults DEF BaseInv, TypeOK, Resolved
  <1> QED
    BY <1>1, <1>2 DEF ResultList

(* A batch returns its list. *)
LEMMA BaseReturn ==
    ASSUME BaseInv, NEW b \in Batches, Return(b)
    PROVE  BaseInv'
  <1>1. results' \in [Batches -> Seq(Results)]
    BY ResultListTyped DEF BaseInv, TypeOK, Return
  <1>2. TypeOK'
    BY <1>1 DEF BaseInv, TypeOK, Return, CacheEntries, histVars
  <1>3. InRange'
    BY SlotParts DEF BaseInv, TypeOK, InRange, Return
  <1> QED
    BY <1>2, <1>3 DEF BaseInv

(* The exception of a serial call leaves execute_batch. *)
LEMMA BasePropagate ==
    ASSUME BaseInv, NEW b \in Batches, Propagate(b)
    PROVE  BaseInv'
  <1>1. TypeOK'
    BY DEF BaseInv, TypeOK, Propagate, CacheEntries, histVars
  <1>2. InRange'
    BY SlotParts DEF BaseInv, TypeOK, InRange, Propagate
  <1> QED
    BY <1>1, <1>2 DEF BaseInv

(* A batch is cancelled, and with it the calls it awaits. *)
LEMMA BaseCancelBatch ==
    ASSUME BaseInv, NEW b \in Batches, CancelBatch(b)
    PROVE  BaseInv'
  <1>1. \A s \in CancelledCalls(b) : s[2] <= Len(requests[s[1]])
    BY DEF BaseInv, TypeOK, CancelledCalls, CallsOf
  <1>2. \A s \in Slots : phase'[s[1]] = "idle" => phase[s[1]] = "idle"
    BY SlotParts DEF BaseInv, TypeOK, CancelBatch
  <1>3. \A s \in CancelledCalls(b) : phase'[s[1]] # "idle"
    BY DEF BaseInv, TypeOK, CancelBatch, CancelledCalls, CallsOf
  <1>4. TypeOK'
    BY DEF BaseInv, TypeOK, CancelBatch, CacheEntries, PCs, histVars
  <1>5. InRange'
    BY <1>1, <1>2, <1>3 DEF BaseInv, TypeOK, InRange, CancelBatch
  <1> QED
    BY <1>4, <1>5 DEF BaseInv

(* The registry changes, or the cache is emptied: no slot moves. *)
LEMMA BaseOthers ==
    ASSUME BaseInv,
           \/ \E t \in Tools : Register(t) \/ Unregister(t)
           \/ ClearCache
           \/ UNCHANGED vars
    PROVE  BaseInv'
  <1>1. CASE \E t \in Tools : Register(t) \/ Unregister(t)
    BY <1>1 DEF BaseInv, TypeOK, InRange, Register, Unregister, histVars,
                CacheEntries
  <1>2. CASE ClearCache
    <2>1. epoch' \in 0..MaxClears /\ cache' \subseteq CacheEntries
      BY <1>2, ExecutorAssumption DEF BaseInv, TypeOK, ClearCache
    <2> QED
      BY <1>2, <2>1 DEF BaseInv, TypeOK, InRange, ClearCache, CacheEntries
  <1>3. CASE UNCHANGED vars
    BY <1>3 DEF BaseInv, TypeOK, InRange, vars, codeVars, histVars,
                CacheEntries
  <1> QED
    BY <1>1, <1>2, <1>3

(* The base invariant is inductive. *)
LEMMA BaseStep == BaseInv /\ [Next]_vars => BaseInv'
  <1> SUFFICES ASSUME BaseInv, [Next]_vars PROVE BaseInv'
    OBVIOUS
  <1>1. ASSUME NEW b \in Batches, NEW q \in BatchInputs, Submit(b, q)
        PROVE  BaseInv'
    BY <1>1, BaseSubmit
  <1>2. ASSUME NEW b \in Batches, Return(b) \/ Propagate(b) \/ CancelBatch(b)
        PROVE  BaseInv'
    BY <1>2, BaseReturn, BasePropagate, BaseCancelBatch
  <1>3. ASSUME NEW s \in Slots, Begin(s) \/ EndAttempt(s) \/ Wake(s)
        PROVE  BaseInv'
    BY <1>3, BaseCacheHit, BaseUnknownTool, BaseStartLoop, BaseAttemptOk,
       BaseAttemptFail, BaseAttemptRetry, BaseAttemptExhausted,
       BaseAttemptCancelled, BaseWake DEF Begin, EndAttempt
  <1> QED
    BY <1>1, <1>2, <1>3, BaseOthers DEF Next

(* Every behaviour of the executor is well typed: in particular the number   *)
(* of an attempt and the retry_count of a result stay within max_retries,    *)
(* and nothing but answers of calls reaches the cache or a result list.      *)
THEOREM TypeCorrect == Spec => []TypeOK
  <1>1. BaseInv => TypeOK
    BY DEF BaseInv
  <1> QED
    BY <1>1, BaseInvInit, BaseStep, PTL DEF Spec

-----------------------------------------------------------------------------
(* Whatever a step of the system does, it leaves slot t as it is. *)
SlotSame(t) ==
    /\ pc'[t] = pc[t]
    /\ attempt'[t] = attempt[t]
    /\ result'[t] = result[t]
    /\ invoked'[t] = invoked[t]

(* The steps of other slots, and those of no slot, leave a slot alone. *)
LEMMA OtherSlots ==
    ASSUME BaseInv, NEW s \in Slots, NEW t \in Slots, s # t,
           Begin(s) \/ EndAttempt(s) \/ Wake(s)
    PROVE  SlotSame(t)
  <1>1. CASE CacheHit(s)
    BY <1>1 DEF BaseInv, TypeOK, SlotSame, CacheHit, EndCall
  <1>2. CASE UnknownTool(s)
    BY <1>2 DEF BaseInv, TypeOK, SlotSame, UnknownTool, EndCall
  <1>3. CASE StartLoop(s)
    BY <1>3 DEF BaseInv, TypeOK, SlotSame, StartLoop
  <1>4. ASSUME NEW c \in Contents, AttemptOk(s, c)
        PROVE  SlotSame(t)
    BY <1>4 DEF BaseInv, TypeOK, SlotSame, AttemptOk, EndCall
  <1>5. CASE AttemptFail(s)
    BY <1>5 DEF BaseInv, TypeOK, SlotSame, AttemptFail, EndCall, histVars
  <1>6. ASSUME NEW k \in Failures, AttemptRetry(s, k)
        PROVE  SlotSame(t)
    BY <1>6 DEF BaseInv, TypeOK, SlotSame, AttemptRetry, histVars
  <1>7. ASSUME NEW k \in Failures, AttemptExhausted(s, k)
        PROVE  SlotSame(t)
    BY <1>7 DEF BaseInv, TypeOK, SlotSame, AttemptExhausted, EndCall, histVars
  <1>8. CASE AttemptCancelled(s)
    BY <1>8 DEF BaseInv, TypeOK, SlotSame, AttemptCancelled, histVars
  <1>9. CASE Wake(s)
    BY <1>9 DEF BaseInv, TypeOK, SlotSame, Wake
  <1> QED
    BY <1>1, <1>2, <1>3, <1>4, <1>5, <1>6, <1>7, <1>8, <1>9
    DEF Begin, EndAttempt

(* Steps that touch no slot at all. *)
Elsewhere ==
    \/ \E b \in Batches : Return(b) \/ Propagate(b)
    \/ \E t \in Tools : Register(t) \/ Unregister(t)
    \/ ClearCache
    \/ UNCHANGED vars

LEMMA ElsewhereSame ==
    ASSUME Elsewhere, NEW t \in Slots
    PROVE  SlotSame(t)
  BY DEF Elsewhere, SlotSame, Return, Propagate, Register, Unregister,
         ClearCache, vars, codeVars, histVars

(* A step is a submission, a cancellation, a step of one slot or none's. *)
LEMMA StepCases ==
    ASSUME [Next]_vars
    PROVE  \/ \E b \in Batches, q \in BatchInputs : Submit(b, q)
           \/ \E b \in Batches : CancelBatch(b)
           \/ \E s \in Slots : Begin(s) \/ EndAttempt(s) \/ Wake(s)
           \/ Elsewhere
  BY DEF Next, Elsewhere

(* The calls of a batch are slots of it, told apart by their positions. *)
LEMMA CallParts ==
    ASSUME BaseInv, NEW b \in Batches, NEW s \in CallsOf(b)
    PROVE  /\ s \in Slots /\ s[1] = b /\ s = <<b, s[2]>>
           /\ s[2] \in 1..Len(requests[b]) /\ s[2] \in Nat
  <1>1. Len(requests[b]) <= MaxBatch /\ Len(requests[b]) \in Nat
    BY DEF BaseInv, TypeOK
  <1> QED
    BY <1>1, ExecutorAssumption DEF CallsOf, Slots

(* A slot in use is a call of its batch. *)
LEMMA UsedSlot ==
    ASSUME BaseInv, NEW s \in Slots, pc[s] # "unused"
    PROVE  s \in CallsOf(s[1])
  <1>1. s[1] \in Batches /\ s[2] \in 1..Len(requests[s[1]])
    BY SlotParts, ExecutorAssumption DEF BaseInv, InRange, TypeOK
  <1> QED
    BY <1>1, SlotParts DEF CallsOf

-----------------------------------------------------------------------------
(* A slot that does not move keeps its budget. *)
LEMMA BudgetSame ==
    ASSUME NEW t \in Slots, BudgetOf(t), SlotSame(t)
    PROVE  BudgetOf(t)'
  BY DEF BudgetOf, SlotSame

(* Each step of a slot keeps its own budget. *)
LEMMA BudgetOwn ==
    ASSUME BaseInv, NEW s \in Slots, BudgetOf(s),
           Begin(s) \/ EndAttempt(s) \/ Wake(s)
    PROVE  BudgetOf(s)'
  <1> USE DEF BudgetOf
  <1>0. /\ attempt[s] \in 0..MaxRetries /\ MaxRetries \in Nat
        /\ invoked[s] \in Nat
        /\ pc \in [Slots -> PCs] /\ result \in [Slots -> Results]
        /\ attempt \in [Slots -> 0..MaxRetries] /\ invoked \in [Slots -> Nat]
    BY ExecutorAssumption DEF BaseInv, TypeOK
  <1>1. CASE CacheHit(s)
    <2>1. PICK e \in Hits(s) :
            EndCall(s, [status |-> "success", content |-> e.content,
                        error |-> "", retry_count |-> 0])
      BY <1>1 DEF CacheHit
    <2>2. pc[s] = "queued" /\ UNCHANGED invoked
      BY <1>1 DEF CacheHit, MayStart
    <2>3. /\ pc'[s] = "done" /\ invoked'[s] = 0
          /\ result'[s].error = ""
      BY <1>0, <2>1, <2>2 DEF EndCall
    <2> QED
      BY <2>3
  <1>2. CASE UnknownTool(s)
    <2>1. /\ pc'[s] = "done" /\ invoked'[s] = 0
          /\ result'[s].error = "unknown_tool"
      BY <1>0, <1>2 DEF UnknownTool, MayStart, EndCall
    <2> QED
      BY <2>1
  <1>3. CASE StartLoop(s)
    <2>1. pc'[s] = "invoke" /\ attempt'[s] = 0 /\ invoked'[s] = 1
      BY <1>0, <1>3 DEF StartLoop, MayStart
    <2> QED
      BY <2>1
  <1>4. ASSUME NEW c \in Contents, AttemptOk(s, c)
        PROVE  BudgetOf(s)'
    <2>1. /\ pc'[s] = "done" /\ invoked'[s] = attempt[s] + 1
          /\ result'[s].error = "" /\ result'[s].retry_count = attempt[s]
      BY <1>0, <1>4 DEF AttemptOk, EndCall
    <2> QED
      BY <2>1
  <1>5. CASE AttemptFail(s)
    <2>1. /\ pc'[s] = "done" /\ invoked'[s] = attempt[s] + 1
          /\ result'[s].error = "tool_error"
          /\ result'[s].retry_count = attempt[s]
      BY <1>0, <1>5 DEF AttemptFail, EndCall, histVars
    <2> QED
      BY <2>1
  <1>6. ASSUME NEW k \in Failures, AttemptRetry(s, k)
        PROVE  BudgetOf(s)'
    <2>1. /\ pc'[s] = "sleep" /\ invoked'[s] = attempt[s] + 1
          /\ attempt'[s] = attempt[s] + 1
      BY <1>0, <1>6 DEF AttemptRetry, histVars
    <2> QED
      BY <1>0, <2>1
  <1>7. ASSUME NEW k \in Failures, AttemptExhausted(s, k)
        PROVE  BudgetOf(s)'
    <2>0. ~MayRetry(s)
      BY <1>7 DEF AttemptExhausted
    <2>1. attempt[s] = MaxRetries
      BY <1>0, <2>0 DEF MayRetry
    <2>2. /\ pc'[s] = "done" /\ invoked'[s] = MaxRetries + 1
          /\ result'[s].error = "exhausted"
      BY <1>0, <1>7, <2>1 DEF AttemptExhausted, EndCall, histVars
    <2> QED
      BY <2>2
  <1>8. CASE AttemptCancelled(s)
    <2>1. pc'[s] = "raised" /\ invoked'[s] = attempt[s] + 1
      BY <1>0, <1>8 DEF AttemptCancelled, histVars
    <2> QED
      BY <1>0, <2>1
  <1>9. CASE Wake(s)
    <2>1. /\ pc'[s] = "invoke" /\ attempt'[s] = attempt[s]
          /\ invoked'[s] = attempt[s] + 1
      BY <1>0, <1>9 DEF Wake
    <2> QED
      BY <2>1
  <1> QED
    BY <1>1, <1>2, <1>3, <1>4, <1>5, <1>6, <1>7, <1>8, <1>9
    DEF Begin, EndAttempt

(* A call that is cancelled has run its tool no more than it may. *)
LEMMA BudgetCancel ==
    ASSUME BaseInv, NEW b \in Batches, CancelBatch(b),
           NEW t \in Slots, BudgetOf(t)
    PROVE  BudgetOf(t)'
  <1>1. CASE t \in CancelledCalls(b)
    <2>1. pc'[t] = "raised" /\ invoked'[t] = invoked[t]
      BY <1>1 DEF CancelBatch, histVars
    <2>2. /\ pc[t] \in {"unused", "queued", "sleep", "invoke"}
          /\ attempt[t] \in 0..MaxRetries
          /\ MaxRetries \in Nat
      BY <1>1, ExecutorAssumption
      DEF BaseInv, TypeOK, PCs, CancelledCalls, Finished
    <2>3. invoked[t] <= MaxRetries + 1
      BY <2>2 DEF BudgetOf
    <2> QED
      BY <2>1, <2>3 DEF BudgetOf
  <1>2. CASE t \notin CancelledCalls(b)
    BY <1>2, BudgetSame DEF CancelBatch, SlotSame, histVars
  <1> QED
    BY <1>1, <1>2

(* A slot that a submission takes has not run anything. *)
LEMMA BudgetSubmit ==
    ASSUME BaseInv, NEW b \in Batches, NEW q \in BatchInputs, Submit(b, q),
           NEW t \in Slots, BudgetOf(t)
    PROVE  BudgetOf(t)'
  <1>1. CASE t[1] = b /\ t[2] <= Len(q)
    <2>1. pc[t] = "unused"
      BY <1>1 DEF BaseInv, InRange, Submit
    <2>2. /\ pc'[t] = "queued" /\ invoked'[t] = invoked[t]
          /\ attempt'[t] = attempt[t]
      BY <1>1 DEF Submit, histVars
    <2> QED
      BY <2>1, <2>2 DEF BudgetOf
  <1>2. CASE ~(t[1] = b /\ t[2] <= Len(q))
    BY <1>2, BudgetSame DEF Submit, SlotSame, histVars
  <1> QED
    BY <1>1, <1>2

(* Every step keeps every budget. *)
LEMMA BudgetStep ==
    BaseInv /\ AttemptBudget /\ [Next]_vars => AttemptBudget'
  <1> SUFFICES ASSUME BaseInv, AttemptBudget, [Next]_vars, NEW t \in Slots
               PROVE  BudgetOf(t)'
    BY DEF AttemptBudget
  <1>1. BudgetOf(t)
    BY DEF AttemptBudget
  <1>2. CASE \E b \in Batches, q \in BatchInputs : Submit(b, q)
    BY <1>1, <1>2, BudgetSubmit
  <1>3. CASE \E b \in Batches : CancelBatch(b)
    BY <1>1, <1>3, BudgetCancel
  <1>4. ASSUME NEW s \in Slots, Begin(s) \/ EndAttempt(s) \/ Wake(s)
        PROVE  BudgetOf(t)'
    BY <1>1, <1>4, BudgetOwn, OtherSlots, BudgetSame
  <1>5. CASE Elsewhere
    BY <1>1, <1>5, ElsewhereSame, BudgetSame
  <1> QED
    BY <1>2, <1>3, <1>4, <1>5, StepCases

(* No call runs its tool more than max_retries + 1 times, an exhausted call  *)
(* has used them all, and a cache hit or an unknown tool runs nothing.       *)
THEOREM BudgetKept == Spec => []AttemptBudget
  <1>1. Init => AttemptBudget
    BY DEF Init, AttemptBudget, BudgetOf
  <1> QED
    BY <1>1, BaseInvInit, BaseStep, BudgetStep, PTL DEF Spec

-----------------------------------------------------------------------------
(* A slot that takes a step was waiting for its turn or was active, is used  *)
(* afterwards, and its step changes no batch.                                *)
LEMMA OwnStep ==
    ASSUME BaseInv, NEW s \in Slots, Begin(s) \/ EndAttempt(s) \/ Wake(s)
    PROVE  /\ MayStart(s) \/ Active(s)
           /\ ~Finished(s)
           /\ UNCHANGED <<requests, phase, results>>
  <1>1. CASE Begin(s)
    BY <1>1 DEF Begin, CacheHit, UnknownTool, StartLoop, MayStart, Finished
  <1>2. CASE EndAttempt(s)
    BY <1>2 DEF EndAttempt, AttemptOk, AttemptFail, AttemptRetry,
                AttemptExhausted, AttemptCancelled, Active, Finished
  <1>3. CASE Wake(s)
    BY <1>3 DEF Wake, Active, Finished
  <1> QED
    BY <1>1, <1>2, <1>3

(* A slot that takes a step has no other history than its own. *)
LEMMA OtherEnded ==
    ASSUME BaseInv, NEW s \in Slots, NEW t \in Slots, s # t,
           Begin(s) \/ EndAttempt(s) \/ Wake(s)
    PROVE  /\ ended'[t] = ended[t]
           /\ source'[t] = source[t]
           /\ began'[t] = began[t]
  <1>1. CASE Begin(s)
    BY <1>1 DEF BaseInv, TypeOK, Begin, CacheHit, UnknownTool, StartLoop
  <1>2. CASE EndAttempt(s)
    BY <1>2 DEF BaseInv, TypeOK, EndAttempt, AttemptOk, AttemptFail,
                AttemptRetry, AttemptExhausted, AttemptCancelled, histVars
  <1>3. CASE Wake(s)
    BY <1>3 DEF Wake
  <1> QED
    BY <1>1, <1>2, <1>3

(* What a finished call answered, and for which request, is final. *)
LEMMA DoneStays ==
    ASSUME BaseInv, [Next]_vars, NEW t \in Slots, Finished(t)
    PROVE  /\ SlotSame(t)
           /\ ended'[t] = ended[t]
           /\ source'[t] = source[t]
           /\ began'[t] = began[t]
           /\ requests'[t[1]] = requests[t[1]]
  <1>1. ASSUME NEW b \in Batches, NEW q \in BatchInputs, Submit(b, q)
        PROVE  /\ SlotSame(t) /\ ended'[t] = ended[t]
               /\ source'[t] = source[t] /\ began'[t] = began[t]
               /\ requests'[t[1]] = requests[t[1]]
    <2>1. t[1] \in Batches /\ t[1] # b
      BY <1>1, SlotParts DEF BaseInv, InRange, Submit, Finished
    <2> QED
      BY <1>1, <2>1 DEF BaseInv, TypeOK, Submit, SlotSame, histVars
  <1>2. ASSUME NEW b \in Batches, CancelBatch(b)
        PROVE  /\ SlotSame(t) /\ ended'[t] = ended[t]
               /\ source'[t] = source[t] /\ began'[t] = began[t]
               /\ requests'[t[1]] = requests[t[1]]
    BY <1>2 DEF CancelBatch, CancelledCalls, SlotSame, histVars
  <1>3. ASSUME NEW s \in Slots, Begin(s) \/ EndAttempt(s) \/ Wake(s)
        PROVE  /\ SlotSame(t) /\ ended'[t] = ended[t]
               /\ source'[t] = source[t] /\ began'[t] = began[t]
               /\ requests'[t[1]] = requests[t[1]]
    <2>1. s # t
      BY <1>3, OwnStep
    <2> QED
      BY <1>3, <2>1, OwnStep, OtherSlots, OtherEnded
  <1>4. CASE Elsewhere
    BY <1>4, ElsewhereSame
    DEF Elsewhere, Return, Propagate, Register, Unregister, ClearCache, vars,
        codeVars, histVars
  <1> QED
    BY <1>1, <1>2, <1>3, <1>4, StepCases

-----------------------------------------------------------------------------
(* The steps keep the order of a serial batch. *)
LEMMA SerialStep ==
    BaseInv /\ SerialOrder /\ [Next]_vars => SerialOrder'
  <1> SUFFICES ASSUME BaseInv, SerialOrder, [Next]_vars, ~Parallel,
                      NEW b \in Batches, NEW s \in CallsOf(b)',
                      NEW t \in CallsOf(b)', s[2] < t[2],
                      (Active(t) \/ Finished(t))'
               PROVE  pc'[s] = "done"
    BY DEF SerialOrder
  <1> USE DEF Active, Finished
  <1>0. ASSUME requests'[b] = requests[b]
        PROVE  s \in CallsOf(b) /\ t \in CallsOf(b)
    BY <1>0 DEF CallsOf
  <1>s. s \in Slots /\ t \in Slots /\ s # t /\ s[1] = b /\ t[1] = b
    <2>1. Len(requests'[b]) <= MaxBatch /\ Len(requests'[b]) \in Nat
      BY BaseStep DEF BaseInv, TypeOK
    <2> QED
      BY <2>1, ExecutorAssumption DEF CallsOf, Slots
  <1>1. ASSUME pc[s] = "done"
        PROVE  pc'[s] = "done"
    BY <1>1, <1>s, DoneStays DEF SlotSame
  <1>2. ASSUME requests'[b] = requests[b], Active(t) \/ Finished(t)
        PROVE  pc'[s] = "done"
    BY <1>0, <1>1, <1>2 DEF SerialOrder
  <1>3. ASSUME NEW b2 \in Batches, NEW q \in BatchInputs, Submit(b2, q)
        PROVE  pc'[s] = "done"
    <2>1. b2 # b
      <3>1. ASSUME b2 = b PROVE FALSE
        <4>1. t[2] <= Len(q)
          BY <1>3, <3>1 DEF Submit, CallsOf, BaseInv, TypeOK
        <4> QED
          BY <1>3, <3>1, <4>1, <1>s DEF Submit
      <3> QED
        BY <3>1
    <2> QED
      BY <1>2, <1>3, <1>s, <2>1 DEF Submit, BaseInv, TypeOK
  <1>4. ASSUME NEW b2 \in Batches, CancelBatch(b2)
        PROVE  pc'[s] = "done"
    BY <1>2, <1>4, <1>s DEF CancelBatch, CancelledCalls
  <1>5. ASSUME NEW x \in Slots, Begin(x) \/ EndAttempt(x) \/ Wake(x)
        PROVE  pc'[s] = "done"
    <2>1. requests' = requests
      BY <1>5, OwnStep
    <2>2. CASE x = t
      <3>1. CASE MayStart(x)
        BY <1>0, <1>1, <1>s, <2>1, <2>2, <3>1 DEF MayStart
      <3>2. CASE Active(x)
        BY <1>2, <2>1, <2>2, <3>2
      <3> QED
        BY <1>5, <3>1, <3>2, OwnStep
    <2>3. CASE x # t
      BY <1>2, <1>5, <1>s, <2>1, <2>3, OtherSlots DEF SlotSame
    <2> QED
      BY <2>2, <2>3
  <1>6. CASE Elsewhere
    <2>1. pc'[t] = pc[t] /\ requests' = requests
      BY <1>6, <1>s, ElsewhereSame
      DEF Elsewhere, SlotSame, Return, Propagate, Register, Unregister,
          ClearCache, vars, codeVars, histVars
    <2> QED
      BY <1>2, <2>1
  <1> QED
    BY <1>3, <1>4, <1>5, <1>6, StepCases

(* Serial mode: no call begins, or is cancelled, before every earlier call   *)
(* of its batch has answered.                                                *)
THEOREM SerialKept == Spec => []SerialOrder
  <1>1. Init => SerialOrder
    BY DEF Init, SerialOrder, CallsOf
  <1> QED
    BY <1>1, BaseInvInit, BaseStep, SerialStep, PTL DEF Spec

-----------------------------------------------------------------------------
(* No call of a batch that is over is running or about to run again. *)
Quiet ==
    \A s \in Slots : phase[s[1]] \in {"returned", "raised"} => ~Active(s)

(* A batch ends only when its calls have ended, or are made to end. *)
LEMMA QuietStep ==
    BaseInv /\ SerialOrder /\ Quiet /\ [Next]_vars => Quiet'
  <1> SUFFICES ASSUME BaseInv, SerialOrder, Quiet, [Next]_vars,
                      NEW s \in Slots, Active(s)',
                      phase'[s[1]] \in {"returned", "raised"}
               PROVE  FALSE
    BY DEF Quiet
  <1> USE DEF Active
  <1>s. s[1] \in Batches /\ s[2] \in 1..MaxBatch /\ s = <<s[1], s[2]>>
    BY SlotParts
  <1>c. ASSUME Active(s)
        PROVE  s \in CallsOf(s[1]) /\ ~Finished(s)
    BY <1>c, UsedSlot DEF Finished
  <1>1. ASSUME NEW b \in Batches, NEW q \in BatchInputs, Submit(b, q)
        PROVE  FALSE
    BY <1>1, <1>s DEF Submit, BaseInv, TypeOK, Quiet
  <1>2. ASSUME NEW b \in Batches, CancelBatch(b)
        PROVE  FALSE
    <2>1. Active(s)
      BY <1>2 DEF CancelBatch
    <2>2. s[1] = b
      BY <1>2, <1>s, <2>1 DEF CancelBatch, BaseInv, TypeOK, Quiet
    <2> QED
      BY <1>2, <1>c, <2>1, <2>2 DEF CancelBatch, CancelledCalls
  <1>3. ASSUME NEW x \in Slots, Begin(x) \/ EndAttempt(x) \/ Wake(x)
        PROVE  FALSE
    <2>1. UNCHANGED phase
      BY <1>3, OwnStep
    <2>2. x = s
      BY <1>3, <2>1, OtherSlots DEF Quiet, SlotSame
    <2>3. MayStart(s) \/ Active(s)
      BY <1>3, <2>2, OwnStep
    <2> QED
      BY <2>1, <2>3 DEF Quiet, MayStart
  <1>4. ASSUME NEW b \in Batches, Return(b)
        PROVE  FALSE
    <2>1. Active(s)
      BY <1>4 DEF Return
    <2>2. s[1] = b
      BY <1>4, <1>s, <2>1 DEF Return, BaseInv, TypeOK, Quiet
    <2> QED
      BY <1>4, <1>c, <2>1, <2>2 DEF Return, AllFinished, Finished
  <1>5. ASSUME NEW b \in Batches, Propagate(b)
        PROVE  FALSE
    <2>1. Active(s)
      BY <1>5 DEF Propagate
    <2>2. s[1] = b
      BY <1>5, <1>s, <2>1 DEF Propagate, BaseInv, TypeOK, Quiet
    <2>3. PICK x \in CallsOf(b) : pc[x] = "raised"
      BY <1>5 DEF Propagate
    <2>4. s \in CallsOf(b) /\ x # s
      BY <1>c, <2>1, <2>2, <2>3
    <2>5. s[2] \in Nat /\ x[2] \in Nat /\ s[2] # x[2]
      BY <2>4, CallParts
    <2>6. s[2] < x[2] \/ x[2] < s[2]
      BY <2>5
    <2> QED
      BY <1>5, <2>1, <2>3, <2>4, <2>6 DEF SerialOrder, Propagate, Finished
  <1>6. CASE \/ \E t \in Tools : Register(t) \/ Unregister(t)
             \/ ClearCache
             \/ UNCHANGED vars
    BY <1>6 DEF Register, Unregister, ClearCache, vars, codeVars, Quiet
  <1> QED
    BY <1>1, <1>2, <1>3, <1>4, <1>5, <1>6 DEF Next

(* Whatever is new in the cache is the answer of an attempt that succeeded. *)
LEMMA CacheStep ==
    ASSUME [Next]_vars, NEW e \in cache', e \notin cache
    PROVE  \E s \in Slots, c \in Contents :
             /\ AttemptOk(s, c)
             /\ e = [key |-> KeyOf(s), content |-> c, by |-> s]
  <1>1. CASE \E s \in Slots, c \in Contents : AttemptOk(s, c)
    <2>1. PICK s \in Slots, c \in Contents : AttemptOk(s, c)
      BY <1>1
    <2>2. e = [key |-> KeyOf(s), content |-> c, by |-> s]
      BY <2>1 DEF AttemptOk, CacheWrite
    <2> QED
      BY <2>1, <2>2
  <1>2. CASE ~\E s \in Slots, c \in Contents : AttemptOk(s, c)
    <2>1. ASSUME NEW s \in Slots, Begin(s) \/ EndAttempt(s) \/ Wake(s)
          PROVE  UNCHANGED cache
      BY <1>2, <2>1
      DEF Begin, CacheHit, UnknownTool, StartLoop, EndAttempt, AttemptFail,
          AttemptRetry, AttemptExhausted, AttemptCancelled, Wake
    <2>2. ASSUME NEW b \in Batches,
                 \/ \E q \in BatchInputs : Submit(b, q)
                 \/ Return(b) \/ Propagate(b) \/ CancelBatch(b)
          PROVE  UNCHANGED cache
      BY <2>2 DEF Submit, Return, Propagate, CancelBatch
    <2>3. CASE \E t \in Tools : Register(t) \/ Unregister(t)
      BY <2>3 DEF Register, Unregister
    <2>4. CASE ClearCache
      BY <2>4 DEF ClearCache
    <2>5. CASE UNCHANGED vars
      BY <2>5 DEF vars, codeVars
    <2> QED
      BY <2>1, <2>2, <2>3, <2>4, <2>5 DEF Next
  <1> QED
    BY <1>1, <1>2

(* In a quiet state a step has no effect in the name of a batch that is over. *)
LEMMA QuietEffect ==
    ASSUME BaseInv, Quiet, [Next]_vars, NEW s \in Slots,
           phase[s[1]] \in {"returned", "raised"}
    PROVE  /\ invoked'[s] = invoked[s]
           /\ \A e \in cache' : e.by = s => e \in cache
  <1>1. ~Active(s) /\ ~MayStart(s)
    BY DEF Quiet, MayStart
  <1>2. invoked'[s] = invoked[s]
    <2>1. ASSUME NEW x \in Slots, Begin(x) \/ EndAttempt(x) \/ Wake(x)
          PROVE  invoked'[s] = invoked[s]
      BY <1>1, <2>1, OwnStep, OtherSlots DEF SlotSame
    <2>2. CASE \E b \in Batches, q \in BatchInputs : Submit(b, q)
      BY <2>2 DEF Submit, histVars
    <2>3. CASE \E b \in Batches : CancelBatch(b)
      BY <2>3 DEF CancelBatch, histVars
    <2>4. CASE Elsewhere
      BY <2>4, ElsewhereSame DEF SlotSame
    <2> QED
      BY <2>1, <2>2, <2>3, <2>4, StepCases
  <1>3. ASSUME NEW e \in cache', e.by = s
        PROVE  e \in cache
    <2>1. SUFFICES ASSUME e \notin cache PROVE FALSE
      OBVIOUS
    <2>2. PICK x \in Slots, c \in Contents :
            /\ AttemptOk(x, c)
            /\ e = [key |-> KeyOf(x), content |-> c, by |-> x]
      BY <2>1, CacheStep
    <2> QED
      BY <1>1, <1>3, <2>2 DEF AttemptOk, Active
  <1> QED
    BY <1>2, <1>3

(* Once its batch has returned or raised, a call neither runs its tool nor   *)
(* adds to the cache.                                                        *)
THEOREM NoEffectKept == Spec => NoEffectAfterReturn
  <1>1. Init => SerialOrder /\ Quiet
    BY DEF Init, SerialOrder, CallsOf, Quiet, Active
  <1>2. BaseInv /\ Quiet /\ [Next]_vars =>
          [ \A s \in Slots : phase[s[1]] \in {"returned", "raised"} =>
              /\ invoked'[s] = invoked[s]
              /\ \A e \in cache' : e.by = s => e \in cache ]_vars
    BY QuietEffect
  <1> QED
    BY <1>1, <1>2, BaseInvInit, BaseStep, SerialStep, QuietStep, PTL
    DEF Spec, NoEffectAfterReturn

-----------------------------------------------------------------------------
(* What BatchAligned says of one batch. *)
AlignedOf(b) ==
    phase[b] = "returned" =>
      /\ Len(results[b]) = Len(requests[b])
      /\ \A i \in 1..Len(results[b]) :
           /\ pc[<<b, i>>] \in {"done", "raised"}
           /\ pc[<<b, i>>] = "done" => results[b][i] = result[<<b, i>>]
           /\ pc[<<b, i>>] = "raised" => results[b][i].error = "unexpected"

(* A position of a request list names a slot. *)
LEMMA PositionSlot ==
    ASSUME BaseInv, NEW b \in Batches, NEW i \in 1..Len(requests[b])
    PROVE  <<b, i>> \in Slots /\ <<b, i>> \in CallsOf(b)
  <1>1. Len(requests[b]) <= MaxBatch /\ Len(requests[b]) \in Nat
    BY DEF BaseInv, TypeOK
  <1> QED
    BY <1>1, ExecutorAssumption DEF CallsOf, Slots

(* The list a batch returns is aligned with its requests. *)
LEMMA ReturnAligned ==
    ASSUME BaseInv, NEW b \in Batches, Return(b)
    PROVE  AlignedOf(b)'
  <1>1. Len(requests[b]) \in Nat
    BY DEF BaseInv, TypeOK
  <1>2. /\ results'[b] = ResultList(b)
        /\ UNCHANGED <<requests, pc, result>>
    BY DEF Return, BaseInv, TypeOK
  <1>3. /\ Len(ResultList(b)) = Len(requests[b])
        /\ \A i \in 1..Len(requests[b]) : ResultList(b)[i] = Resolved(b, i)
    BY <1>1 DEF ResultList
  <1>4. ASSUME NEW i \in 1..Len(requests[b])
        PROVE  /\ pc[<<b, i>>] \in {"done", "raised"}
               /\ pc[<<b, i>>] = "done" => Resolved(b, i) = result[<<b, i>>]
               /\ pc[<<b, i>>] = "raised" =>
                    Resolved(b, i).error = "unexpected"
    <2>1. Finished(<<b, i>>)
      BY PositionSlot DEF Return, AllFinished, Finished
    <2> QED
      BY <2>1 DEF Finished, Resolved, Unexpected
  <1> QED
    BY <1>2, <1>3, <1>4 DEF AlignedOf

(* A list that was returned stays aligned: its calls are final. *)
LEMMA AlignedStays ==
    ASSUME BaseInv, [Next]_vars, NEW b \in Batches, AlignedOf(b),
           UNCHANGED <<phase[b], results[b], requests[b]>>
    PROVE  AlignedOf(b)'
  <1> SUFFICES ASSUME phase[b] = "returned"
               PROVE  AlignedOf(b)'
    BY DEF AlignedOf
  <1>1. /\ Len(results[b]) = Len(requests[b])
        /\ results'[b] = results[b] /\ requests'[b] = requests[b]
    BY DEF AlignedOf
  <1>2. ASSUME NEW i \in 1..Len(requests[b])
        PROVE  SlotSame(<<b, i>>)
    BY <1>1, PositionSlot, DoneStays DEF AlignedOf, Finished
  <1> QED
    BY <1>1, <1>2 DEF AlignedOf, SlotSame

(* Only its own steps move a batch, and none moves it to "returned" but one. *)
LEMMA BatchSame ==
    ASSUME BaseInv, [Next]_vars, NEW b \in Batches,
           phase'[b] = "returned", ~Return(b)
    PROVE  UNCHANGED <<phase[b], results[b], requests[b]>>
  <1>1. ASSUME NEW c \in Batches, NEW q \in BatchInputs, Submit(c, q)
        PROVE  UNCHANGED <<phase[b], results[b], requests[b]>>
    BY <1>1 DEF Submit, BaseInv, TypeOK
  <1>2. ASSUME NEW c \in Batches, CancelBatch(c)
        PROVE  UNCHANGED <<phase[b], results[b], requests[b]>>
    BY <1>2 DEF CancelBatch, BaseInv, TypeOK
  <1>3. ASSUME NEW s \in Slots, Begin(s) \/ EndAttempt(s) \/ Wake(s)
        PROVE  UNCHANGED <<phase[b], results[b], requests[b]>>
    BY <1>3, OwnStep
  <1>4. CASE Elsewhere
    <2>1. ASSUME NEW c \in Batches, Return(c)
          PROVE  UNCHANGED <<phase[b], results[b], requests[b]>>
      BY <2>1 DEF Return, BaseInv, TypeOK
    <2>2. ASSUME NEW c \in Batches, Propagate(c)
          PROVE  UNCHANGED <<phase[b], results[b], requests[b]>>
      BY <2>2 DEF Propagate, BaseInv, TypeOK
    <2>3. CASE \/ \E t \in Tools : Register(t) \/ Unregister(t)
               \/ ClearCache
               \/ UNCHANGED vars
      BY <2>3 DEF Register, Unregister, ClearCache, vars, codeVars
    <2> QED
      BY <1>4, <2>1, <2>2, <2>3 DEF Elsewhere
  <1> QED
    BY <1>1, <1>2, <1>3, <1>4, StepCases

(* Every step keeps every returned list aligned. *)
LEMMA AlignedStep ==
    BaseInv /\ BatchAligned /\ [Next]_vars => BatchAligned'
  <1> SUFFICES ASSUME BaseInv, BatchAligned, [Next]_vars, NEW b \in Batches
               PROVE  AlignedOf(b)'
    BY DEF BatchAligned, AlignedOf
  <1>1. AlignedOf(b)
    BY DEF BatchAligned, AlignedOf
  <1>2. CASE Return(b)
    BY <1>2, ReturnAligned
  <1>3. CASE ~Return(b) /\ phase'[b] = "returned"
    BY <1>1, <1>3, BatchSame, AlignedStays
  <1>4. CASE phase'[b] # "returned"
    BY <1>4 DEF AlignedOf
  <1> QED
    BY <1>2, <1>3, <1>4

(* The list a caller gets answers its requests one to one and in order.      *)
THEOREM AlignedKept == Spec => []BatchAligned
  <1>1. Init => BatchAligned
    BY DEF Init, BatchAligned
  <1> QED
    BY <1>1, BaseInvInit, BaseStep, AlignedStep, PTL DEF Spec

-----------------------------------------------------------------------------
(* The parts of CacheProvenance. *)
EntryOk(e) ==
    /\ RanWell(e.by)
    /\ KeyOf(e.by) = e.key
    /\ result[e.by].content = e.content
    /\ ended[e.by] = epoch

HitOk(s) ==
    /\ RanWell(source[s])
    /\ KeyOf(source[s]) = KeyOf(s)
    /\ result[source[s]].content = result[s].content
    /\ ended[source[s]] = began[s]

(* An execution that succeeded is final, as is the key it ran for. *)
LEMMA RanWellStays ==
    ASSUME BaseInv, [Next]_vars, NEW t \in Slots, RanWell(t)
    PROVE  /\ RanWell(t)'
           /\ KeyOf(t)' = KeyOf(t)
           /\ result'[t] = result[t]
           /\ ended'[t] = ended[t]
  <1>1. Finished(t)
    BY DEF RanWell, Succeeded, Finished
  <1> QED
    BY <1>1, DoneStays DEF RanWell, Succeeded, KeyOf, SlotSame

(* The step of a slot that succeeds by running makes it RanWell. *)
LEMMA OkRanWell ==
    ASSUME BaseInv, AttemptBudget, NEW s \in Slots, NEW c \in Contents,
           AttemptOk(s, c)
    PROVE  /\ RanWell(s)' /\ KeyOf(s)' = KeyOf(s) /\ result'[s].content = c
           /\ ended'[s] = epoch /\ epoch' = epoch
  <1>1. pc'[s] = "done" /\ result'[s].status = "success"
        /\ result'[s].content = c
    BY DEF BaseInv, TypeOK, AttemptOk, EndCall
  <1>2. invoked'[s] = attempt[s] + 1 /\ attempt[s] \in 0..MaxRetries
    BY DEF AttemptBudget, BudgetOf, AttemptOk, BaseInv, TypeOK
  <1>3. invoked'[s] > 0
    BY <1>2
  <1>4. ended'[s] = epoch /\ epoch' = epoch
    BY DEF BaseInv, TypeOK, AttemptOk
  <1> QED
    BY <1>1, <1>3, <1>4 DEF RanWell, Succeeded, KeyOf, AttemptOk

(* The clock of the history moves only when the cache is cleared, and no     *)
(* step but that and an answer removes a key from the cache.                 *)
LEMMA EpochStep ==
    ASSUME [Next]_vars, ~ClearCache
    PROVE  /\ epoch' = epoch
           /\ \/ cache' = cache
              \/ \E s \in Slots, c \in Contents : AttemptOk(s, c)
  <1>1. ASSUME NEW b \in Batches, NEW q \in BatchInputs, Submit(b, q)
        PROVE  UNCHANGED <<cache, epoch>>
    BY <1>1 DEF Submit, histVars
  <1>2. ASSUME NEW b \in Batches, Return(b) \/ Propagate(b) \/ CancelBatch(b)
        PROVE  UNCHANGED <<cache, epoch>>
    BY <1>2 DEF Return, Propagate, CancelBatch, histVars
  <1>3. ASSUME NEW s \in Slots, Begin(s) \/ EndAttempt(s) \/ Wake(s),
               ~\E c \in Contents : AttemptOk(s, c)
        PROVE  UNCHANGED <<cache, epoch>>
    BY <1>3 DEF Begin, CacheHit, UnknownTool, StartLoop, EndAttempt,
                AttemptFail, AttemptRetry, AttemptExhausted,
                AttemptCancelled, Wake, histVars
  <1>4. ASSUME NEW s \in Slots, NEW c \in Contents, AttemptOk(s, c)
        PROVE  UNCHANGED epoch
    BY <1>4 DEF AttemptOk
  <1>5. CASE \E t \in Tools : Register(t) \/ Unregister(t)
    BY <1>5 DEF Register, Unregister, histVars
  <1>6. CASE UNCHANGED vars
    BY <1>6 DEF vars, codeVars, histVars
  <1> QED
    BY <1>1, <1>2, <1>3, <1>4, <1>5, <1>6 DEF Next

(* Entries stay, or become, answers of executions of their keys. *)
LEMMA EntryStep ==
    ASSUME BaseInv, AttemptBudget, CacheProvenance, [Next]_vars,
           NEW e \in cache'
    PROVE  EntryOk(e)'
  <1>1. CASE e \in cache
    <2>1. e.by \in Slots
      BY <1>1 DEF BaseInv, TypeOK, CacheEntries
    <2>2. EntryOk(e)
      BY <1>1 DEF CacheProvenance, EntryOk
    <2>3. epoch' = epoch
      BY EpochStep DEF ClearCache
    <2> QED
      BY <2>1, <2>2, <2>3, RanWellStays DEF EntryOk
  <1>2. CASE e \notin cache
    <2>1. PICK s \in Slots, c \in Contents :
            /\ AttemptOk(s, c)
            /\ e = [key |-> KeyOf(s), content |-> c, by |-> s]
      BY <1>2, CacheStep
    <2>2. e.by = s /\ e.key = KeyOf(s) /\ e.content = c
      BY <2>1
    <2> QED
      BY <2>1, <2>2, OkRanWell DEF EntryOk
  <1> QED
    BY <1>1, <1>2

(* The cache has one entry for a key. *)
LEMMA OneEntryStep ==
    ASSUME CacheProvenance, [Next]_vars,
           NEW e \in cache', NEW f \in cache', e.key = f.key
    PROVE  e = f
  <1>1. CASE \E s \in Slots, c \in Contents : AttemptOk(s, c)
    <2>1. PICK s \in Slots, c \in Contents : AttemptOk(s, c)
      BY <1>1
    <2> DEFINE new == [key |-> KeyOf(s), content |-> c, by |-> s]
    <2>2. new.key = KeyOf(s)
      OBVIOUS
    <2>3. \/ cache' = (cache \ Hits(s)) \cup {new}
          \/ cache' = cache
      BY <2>1 DEF AttemptOk, CacheWrite
    <2>4. \A g \in cache \ Hits(s) : g.key # KeyOf(s)
      BY DEF Hits
    <2> HIDE DEF new
    <2> QED
      BY <2>2, <2>3, <2>4 DEF CacheProvenance
  <1>2. CASE ~\E s \in Slots, c \in Contents : AttemptOk(s, c)
    BY <1>2, CacheStep DEF CacheProvenance
  <1> QED
    BY <1>1, <1>2

(* A call comes to succeed by a cache hit or by an answer of its tool. *)
LEMMA HowItSucceeds ==
    ASSUME BaseInv, [Next]_vars, NEW s \in Slots,
           ~Succeeded(s), Succeeded(s)'
    PROVE  CacheHit(s) \/ \E c \in Contents : AttemptOk(s, c)
  <1>1. ~SlotSame(s)
    BY DEF SlotSame, Succeeded
  <1>2. ASSUME NEW b \in Batches, NEW q \in BatchInputs, Submit(b, q)
        PROVE  FALSE
    BY <1>2 DEF Submit, Succeeded
  <1>3. ASSUME NEW b \in Batches, CancelBatch(b)
        PROVE  FALSE
    BY <1>3 DEF CancelBatch, Succeeded
  <1>4. ASSUME NEW x \in Slots, Begin(x) \/ EndAttempt(x) \/ Wake(x)
        PROVE  x = s
    BY <1>1, <1>4, OtherSlots
  <1>5. ~Elsewhere
    BY <1>1, ElsewhereSame
  <1>6. Begin(s) \/ EndAttempt(s) \/ Wake(s)
    BY <1>2, <1>3, <1>4, <1>5, StepCases
  <1>7. result \in [Slots -> Results] /\ pc \in [Slots -> PCs]
    BY DEF BaseInv, TypeOK
  <1> USE DEF EndCall, Succeeded
  <1>8. CASE UnknownTool(s)
    BY <1>7, <1>8 DEF UnknownTool
  <1>9. CASE AttemptFail(s)
    BY <1>7, <1>9 DEF AttemptFail
  <1>10. CASE StartLoop(s) \/ AttemptCancelled(s) \/ Wake(s)
    BY <1>7, <1>10 DEF StartLoop, AttemptCancelled, Wake
  <1>11. ASSUME NEW k \in Failures, AttemptRetry(s, k)
         PROVE  FALSE
    BY <1>7, <1>11 DEF AttemptRetry
  <1>12. ASSUME NEW k \in Failures, AttemptExhausted(s, k)
         PROVE  FALSE
    BY <1>7, <1>12 DEF AttemptExhausted
  <1> QED
    BY <1>6, <1>8, <1>9, <1>10, <1>11, <1>12 DEF Begin, EndAttempt

(* A call answered from the cache has the content its source produced. *)
LEMMA HitStep ==
    ASSUME BaseInv, AttemptBudget, CacheProvenance, [Next]_vars,
           NEW s \in Slots, Succeeded(s)', invoked'[s] = 0
    PROVE  HitOk(s)'
  <1>1. CASE Succeeded(s)
    <2>1. /\ SlotSame(s) /\ source'[s] = source[s] /\ KeyOf(s)' = KeyOf(s)
          /\ began'[s] = began[s]
      BY <1>1, DoneStays DEF Succeeded, Finished, KeyOf
    <2>2. HitOk(s) /\ source[s] \in Slots
      BY <1>1, <2>1 DEF CacheProvenance, HitOk, SlotSame, BaseInv, TypeOK
    <2> QED
      BY <2>1, <2>2, RanWellStays DEF HitOk, SlotSame
  <1>2. CASE CacheHit(s)
    <2>1. PICK e \in Hits(s) :
            /\ EndCall(s, [status |-> "success", content |-> e.content,
                           error |-> "", retry_count |-> 0])
            /\ source' = [source EXCEPT ![s] = e.by]
      BY <1>2 DEF CacheHit
    <2>2. /\ e \in cache /\ e.key = KeyOf(s) /\ e.by \in Slots
          /\ EntryOk(e)
      BY <2>1 DEF Hits, CacheProvenance, EntryOk, BaseInv, TypeOK,
                  CacheEntries
    <2>3. /\ source'[s] = e.by
          /\ result'[s].content = e.content
          /\ KeyOf(s)' = KeyOf(s)
      BY <1>2, <2>1 DEF BaseInv, TypeOK, EndCall, CacheHit, KeyOf
    <2>4. began'[s] = epoch
      BY <1>2 DEF BaseInv, TypeOK, CacheHit
    <2> QED
      BY <2>2, <2>3, <2>4, RanWellStays DEF EntryOk, HitOk
  <1>3. CASE \E c \in Contents : AttemptOk(s, c)
    BY <1>3, OkRanWell DEF RanWell, BaseInv, TypeOK
  <1> QED
    BY <1>1, <1>2, <1>3, HowItSucceeds

(* Every step keeps the provenance of what is cached and reused. *)
LEMMA ProvenanceStep ==
    BaseInv /\ AttemptBudget /\ CacheProvenance /\ [Next]_vars
      => CacheProvenance'
  <1> SUFFICES ASSUME BaseInv, AttemptBudget, CacheProvenance, [Next]_vars
               PROVE  CacheProvenance'
    OBVIOUS
  <1>1. \A e \in cache' : EntryOk(e)'
    BY EntryStep
  <1>2. \A e, f \in cache' : e.key = f.key => e = f
    BY OneEntryStep
  <1>3. \A s \in Slots : Succeeded(s)' /\ invoked'[s] = 0 => HitOk(s)'
    BY HitStep
  <1> QED
    BY <1>1, <1>2, <1>3 DEF CacheProvenance, EntryOk, HitOk

(* Whatever is answered from the cache was produced by a successful run of a *)
(* tool on that very key; no failure and no foreign result is ever reused.   *)
THEOREM ProvenanceKept == Spec => []CacheProvenance
  <1>1. Init => AttemptBudget /\ CacheProvenance
    BY DEF Init, AttemptBudget, BudgetOf, CacheProvenance, Succeeded
  <1> QED
    BY <1>1, BaseInvInit, BaseStep, BudgetStep, ProvenanceStep, PTL DEF Spec

-----------------------------------------------------------------------------
(* With the cache on, a key that was run with success since the cache was    *)
(* last cleared is cached.                                                   *)
CacheComplete ==
    \A t \in Slots :
      /\ ended[t] <= epoch
      /\ EnableCache /\ RanWell(t) /\ ended[t] = epoch => Hits(t) # {}

(* An answer of a tool is in the cache when the cache is on. *)
LEMMA OkCached ==
    ASSUME BaseInv, EnableCache, NEW s \in Slots, NEW c \in Contents,
           AttemptOk(s, c)
    PROVE  /\ \E e \in cache' : e.key = KeyOf(s)
           /\ \A e \in cache : e.key # KeyOf(s) => e \in cache'
  <1> DEFINE new == [key |-> KeyOf(s), content |-> c, by |-> s]
  <1>1. cache' = (cache \ Hits(s)) \cup {new}
    BY DEF AttemptOk, CacheWrite
  <1>2. new.key = KeyOf(s)
    OBVIOUS
  <1> HIDE DEF new
  <1> QED
    BY <1>1, <1>2 DEF Hits

(* The slot's own epoch is never ahead of the current one. *)
LEMMA EndedStep ==
    ASSUME BaseInv, CacheComplete, [Next]_vars, NEW t \in Slots
    PROVE  ended'[t] <= epoch'
  <1>1. /\ epoch \in Nat /\ ended[t] \in Nat /\ ended[t] <= epoch
        /\ ended \in [Slots -> 0..MaxClears]
    BY ExecutorAssumption DEF BaseInv, TypeOK, CacheComplete
  <1>2. CASE ClearCache
    BY <1>1, <1>2 DEF ClearCache
  <1>3. CASE ~ClearCache
    <2>1. epoch' = epoch
      BY <1>3, EpochStep
    <2>2. ASSUME NEW s \in Slots, NEW c \in Contents, AttemptOk(s, c)
          PROVE  ended'[t] <= epoch'
      <3>1. ended' = [ended EXCEPT ![s] = epoch]
        BY <2>2 DEF AttemptOk
      <3>2. ended'[t] = ended[t] \/ ended'[t] = epoch
        BY <1>1, <3>1
      <3> QED
        BY <1>1, <2>1, <3>2
    <2>3. CASE ~\E s \in Slots, c \in Contents : AttemptOk(s, c)
      <3>1. ASSUME NEW s \in Slots, Begin(s) \/ EndAttempt(s) \/ Wake(s)
            PROVE  UNCHANGED ended
        BY <2>3, <3>1
        DEF Begin, CacheHit, UnknownTool, StartLoop, EndAttempt, AttemptFail,
            AttemptRetry, AttemptExhausted, AttemptCancelled, Wake, histVars
      <3>2. ASSUME NEW b \in Batches,
                   CancelBatch(b) \/ \E q \in BatchInputs : Submit(b, q)
            PROVE  UNCHANGED ended
        BY <3>2 DEF Submit, CancelBatch, histVars
      <3>4. ASSUME Elsewhere
            PROVE  UNCHANGED ended
        BY <3>4 DEF Elsewhere, Return, Propagate, Register, Unregister,
                    ClearCache, vars, codeVars, histVars
      <3>5. ended' = ended
        BY <3>1, <3>2, <3>4, StepCases
      <3> QED
        BY <1>1, <2>1, <3>5
    <2> QED
      BY <2>2, <2>3
  <1> QED
    BY <1>2, <1>3

(* Every step keeps the cache complete. *)
LEMMA CompleteStep ==
    BaseInv /\ AttemptBudget /\ CacheComplete /\ [Next]_vars
      => CacheComplete'
  <1> SUFFICES ASSUME BaseInv, AttemptBudget, CacheComplete, [Next]_vars,
                      NEW t \in Slots, EnableCache, RanWell(t)',
                      ended'[t] = epoch'
               PROVE  Hits(t)' # {}
    BY EndedStep DEF CacheComplete
  <1>1. CASE RanWell(t)
    <2>1. ended'[t] = ended[t] /\ KeyOf(t)' = KeyOf(t)
      BY <1>1, RanWellStays
    <2>2. ended[t] <= epoch /\ epoch \in Nat /\ ended[t] \in Nat
      BY ExecutorAssumption DEF CacheComplete, BaseInv, TypeOK
    <2>3. ~ClearCache
      BY <2>1, <2>2 DEF ClearCache
    <2>4. epoch' = epoch /\ \E e \in cache : e.key = KeyOf(t)
      BY <1>1, <2>1, <2>3, EpochStep DEF CacheComplete, Hits
    <2>5. \E e \in cache' : e.key = KeyOf(t)
      <3>1. CASE cache' = cache
        BY <2>4, <3>1
      <3>2. ASSUME NEW s \in Slots, NEW c \in Contents, AttemptOk(s, c)
            PROVE  \E e \in cache' : e.key = KeyOf(t)
        BY <2>4, <3>2, OkCached
      <3> QED
        BY <2>3, <3>1, <3>2, EpochStep
    <2> QED
      BY <2>1, <2>5 DEF Hits
  <1>2. CASE ~RanWell(t)
    <2>1. ~Succeeded(t)
      BY <1>2, DoneStays DEF RanWell, Succeeded, Finished, SlotSame
    <2>2. Succeeded(t)' /\ invoked'[t] > 0
      BY DEF RanWell
    <2>3. ~CacheHit(t)
      <3>1. ASSUME CacheHit(t)
            PROVE  invoked'[t] = 0
        BY <3>1 DEF CacheHit, MayStart, AttemptBudget, BudgetOf
      <3> QED
        BY <2>2, <3>1
    <2>4. PICK c \in Contents : AttemptOk(t, c)
      BY <2>1, <2>2, <2>3, HowItSucceeds
    <2>5. KeyOf(t)' = KeyOf(t)
      BY <2>4 DEF AttemptOk, KeyOf
    <2> QED
      BY <2>4, <2>5, OkCached DEF Hits
  <1> QED
    BY <1>1, <1>2

(* While the cache is complete, a call that starts its tool has a key that   *)
(* was not run with success since the last clear.                            *)
LEMMA NoRepeatStep ==
    ASSUME BaseInv, AttemptBudget, CacheComplete, [Next]_vars,
           NEW s \in Slots, NEW t \in Slots, EnableCache,
           invoked[s] = 0, invoked'[s] > 0,
           RanWell(t), KeyOf(t) = KeyOf(s)
    PROVE  ended[t] < epoch
  <1>1. /\ ended[t] \in Nat /\ epoch \in Nat /\ ended[t] <= epoch
        /\ invoked \in [Slots -> Nat]
    BY ExecutorAssumption DEF BaseInv, TypeOK, CacheComplete
  <1>2. ~SlotSame(s)
    BY <1>1 DEF SlotSame
  <1>3. Begin(s) \/ EndAttempt(s) \/ Wake(s)
    <2>1. ASSUME NEW b \in Batches, NEW q \in BatchInputs, Submit(b, q)
          PROVE  FALSE
      BY <2>1 DEF Submit, histVars
    <2>2. ASSUME NEW b \in Batches, CancelBatch(b)
          PROVE  FALSE
      BY <2>2 DEF CancelBatch, histVars
    <2>3. ASSUME NEW x \in Slots, Begin(x) \/ EndAttempt(x) \/ Wake(x)
          PROVE  x = s
      BY <1>2, <2>3, OtherSlots
    <2>4. ~Elsewhere
      BY <1>2, ElsewhereSame
    <2> QED
      BY <2>1, <2>2, <2>3, <2>4, StepCases
  <1>4. StartLoop(s) \/ Wake(s)
    <2>1. invoked'[s] # invoked[s]
      BY <1>1
    <2> QED
      BY <1>3, <2>1
      DEF Begin, CacheHit, UnknownTool, EndAttempt, AttemptOk, AttemptFail,
          AttemptRetry, AttemptExhausted, AttemptCancelled, histVars
  <1>5. ~Wake(s)
    <2>1. attempt[s] \in Nat
      BY DEF BaseInv, TypeOK
    <2> QED
      BY <2>1 DEF Wake, AttemptBudget, BudgetOf
  <1>6. Hits(t) = {}
    BY <1>4, <1>5 DEF StartLoop, CacheMiss, Hits
  <1> QED
    BY <1>1, <1>6 DEF CacheComplete

(* With the cache on, no key is run again that was already run with success  *)
(* since the cache was last cleared (calls in flight together excepted).     *)
THEOREM NoRepeatKept == Spec => NoRepeatExecution
  <1>1. Init => AttemptBudget /\ CacheComplete
    BY ExecutorAssumption
    DEF Init, AttemptBudget, BudgetOf, CacheComplete, RanWell, Succeeded
  <1>2. BaseInv /\ AttemptBudget /\ CacheComplete /\ [Next]_vars =>
          [ \A s, t \in Slots :
              /\ EnableCache
              /\ invoked[s] = 0 /\ invoked'[s] > 0
              /\ RanWell(t) /\ KeyOf(t) = KeyOf(s)
              => ended[t] < epoch ]_vars
    BY NoRepeatStep
  <1> QED
    BY <1>1, <1>2, BaseInvInit, BaseStep, BudgetStep, CompleteStep, PTL
    DEF Spec, NoRepeatExecution

-----------------------------------------------------------------------------
(* The answers as the caller could see them, and the batch sizes. *)
SeenAnswer == [s \in Slots |-> AnswerOf(s)]
SeenSize == [b \in Batches |-> Len(requests[b])]

(* What a finished call holds is an answer, never the placeholder. *)
Answered ==
    \A s \in Slots : pc[s] = "done" => result[s] \in Results \ {NoResult}

-----------------------------------------------------------------------------
(* A slot that does not move, or moves without ending, is seen unchanged. *)
LEMMA SeenSame ==
    ASSUME NEW t \in Slots, SlotSame(t)
    PROVE  AnswerOf(t)' = AnswerOf(t)
  BY DEF SlotSame, AnswerOf

LEMMA SeenPending ==
    ASSUME NEW t \in Slots, ~Finished(t)
    PROVE  AnswerOf(t) = NoResult
  BY DEF AnswerOf, Finished

(* A record whose status is not "none" is not the placeholder. *)
LEMMA NotPlaceholder ==
    ASSUME NEW r \in Results, r.status # "none"
    PROVE  r \in Results \ {NoResult}
  <1>1. NoResult.status = "none"
    BY DEF NoResult
  <1> QED
    BY <1>1

(* A call that ends by itself holds an answer. *)
LEMMA EndAnswered ==
    ASSUME BaseInv, NEW s \in Slots, Begin(s) \/ EndAttempt(s) \/ Wake(s),
           pc'[s] = "done"
    PROVE  result'[s] \in Results \ {NoResult}
  <1>1. result'[s] \in Results
    <2>1. Next
      BY DEF Next
    <2>2. BaseInv'
      BY <2>1, BaseStep
    <2> QED
      BY <2>2 DEF BaseInv, TypeOK
  <1>2. result \in [Slots -> Results] /\ pc \in [Slots -> PCs]
    BY DEF BaseInv, TypeOK
  <1>3. result'[s].status # "none"
    <2> USE DEF EndCall
    <2>1. CASE CacheHit(s)
      <3>1. PICK e \in Hits(s) :
              EndCall(s, [status |-> "success", content |-> e.content,
                          error |-> "", retry_count |-> 0])
        BY <2>1 DEF CacheHit
      <3> QED
        BY <1>2, <3>1
    <2>2. CASE UnknownTool(s)
      BY <1>2, <2>2 DEF UnknownTool
    <2>3. CASE StartLoop(s) \/ AttemptCancelled(s) \/ Wake(s)
      BY <1>2, <2>3 DEF StartLoop, AttemptCancelled, Wake
    <2>4. ASSUME NEW c \in Contents, AttemptOk(s, c)
          PROVE  result'[s].status # "none"
      BY <1>2, <2>4 DEF AttemptOk
    <2>5. CASE AttemptFail(s)
      BY <1>2, <2>5 DEF AttemptFail
    <2>6. ASSUME NEW k \in Failures, AttemptRetry(s, k)
          PROVE  FALSE
      BY <1>2, <2>6 DEF AttemptRetry
    <2>7. ASSUME NEW k \in Failures, AttemptExhausted(s, k)
          PROVE  result'[s].status # "none"
      BY <1>2, <2>7 DEF AttemptExhausted
    <2> QED
      BY <2>1, <2>2, <2>3, <2>4, <2>5, <2>6, <2>7 DEF Begin, EndAttempt
  <1> QED
    BY <1>1, <1>3, NotPlaceholder

(* Every step keeps Answered. *)
LEMMA AnsweredStep ==
    BaseInv /\ Answered /\ [Next]_vars => Answered'
  <1> SUFFICES ASSUME BaseInv, Answered, [Next]_vars, NEW t \in Slots,
                      pc'[t] = "done"
               PROVE  result'[t] \in Results \ {NoResult}
    BY DEF Answered, Results, NoResult
  <1>1. ASSUME SlotSame(t)
        PROVE  result'[t] \in Results \ {NoResult}
    BY <1>1 DEF Answered, SlotSame
  <1>2. ASSUME NEW b \in Batches, NEW q \in BatchInputs, Submit(b, q)
        PROVE  SlotSame(t)
    BY <1>2 DEF Submit, SlotSame, histVars
  <1>3. ASSUME NEW b \in Batches, CancelBatch(b)
        PROVE  SlotSame(t)
    BY <1>3 DEF CancelBatch, SlotSame, histVars
  <1>4. ASSUME NEW s \in Slots, Begin(s) \/ EndAttempt(s) \/ Wake(s)
        PROVE  result'[t] \in Results \ {NoResult}
    BY <1>1, <1>4, OtherSlots, EndAnswered
  <1> QED
    BY <1>1, <1>2, <1>3, <1>4, ElsewhereSame, StepCases

-----------------------------------------------------------------------------
(* The initial states of the executor are initial states of the promise. *)
LEMMA PromiseInit == Init => Promise!Init
  <1> SUFFICES ASSUME Init PROVE Promise!Init
    OBVIOUS
  <1>1. SeenSize = [b \in Batches |-> 0]
    BY DEF Init, SeenSize
  <1>2. SeenAnswer = [s \in Slots |-> NoResult]
    BY DEF Init, SeenAnswer, AnswerOf
  <1> QED
    BY <1>1, <1>2 DEF Init, Promise!Init, SeenSize, SeenAnswer, Slots

(* Submit accepts the batch. *)
LEMMA PromiseAccept ==
    ASSUME BaseInv, NEW b \in Batches, NEW q \in BatchInputs, Submit(b, q)
    PROVE  Promise!Accept(b, Len(q)) /\ Len(q) \in 0..MaxBatch
  <1>1. Len(q) \in 0..MaxBatch
    BY ExecutorAssumption
  <1>2. SeenSize' = [SeenSize EXCEPT ![b] = Len(q)]
    BY DEF SeenSize, Submit, BaseInv, TypeOK
  <1>3. ASSUME NEW s \in Slots
        PROVE  AnswerOf(s)' = AnswerOf(s)
    <2>1. CASE s[1] = b /\ s[2] <= Len(q)
      BY <2>1 DEF Submit, AnswerOf, BaseInv, InRange
    <2>2. CASE ~(s[1] = b /\ s[2] <= Len(q))
      BY <2>2 DEF Submit, AnswerOf
    <2> QED
      BY <2>1, <2>2
  <1>4. SeenAnswer' = SeenAnswer
    BY <1>3 DEF SeenAnswer
  <1> QED
    BY <1>1, <1>2, <1>4 DEF Submit, Promise!Accept, SeenSize, SeenAnswer

(* A step of a call settles its request, or is invisible. *)
LEMMA PromiseSettle ==
    ASSUME BaseInv, Quiet, Answered, NEW s \in Slots,
           Begin(s) \/ EndAttempt(s) \/ Wake(s)
    PROVE  Promise!Settle(s[1], s[2]) \/ UNCHANGED Promise!vars
  <1>1. /\ s[1] \in Batches /\ s = <<s[1], s[2]>>
        /\ s[2] \in 1..Len(requests[s[1]])
    <2>1. pc[s] # "unused"
      BY OwnStep DEF MayStart, Active
    <2> QED
      BY <2>1, UsedSlot, CallParts, SlotParts
  <1>2. UNCHANGED <<phase, SeenSize, results>>
    BY OwnStep DEF SeenSize
  <1>3. \A t \in Slots : t # s => AnswerOf(t)' = AnswerOf(t)
    BY OtherSlots, SeenSame
  <1>4. CASE Finished(s)'
    <2>1. AnswerOf(s)' \in Results \ {NoResult}
      <3>1. CASE pc'[s] = "done"
        BY <3>1, EndAnswered DEF AnswerOf
      <3>2. CASE pc'[s] = "raised"
        BY <3>2, FixedResults DEF AnswerOf, Unexpected, NoResult
      <3> QED
        BY <1>4, <3>1, <3>2 DEF Finished
    <2>2. AnswerOf(s) = NoResult
      BY OwnStep, SeenPending
    <2>3. SeenAnswer' = [SeenAnswer EXCEPT ![s] = AnswerOf(s)']
      BY <1>3 DEF SeenAnswer
    <2>4. SeenAnswer'[s] = AnswerOf(s)' /\ SeenAnswer[s] = NoResult
      BY <2>2 DEF SeenAnswer
    <2>5. phase[s[1]] = "running"
      <3>1. CASE MayStart(s)
        BY <3>1 DEF MayStart
      <3>2. CASE Active(s)
        <4>1. phase[s[1]] \notin {"returned", "raised"}
          BY <3>2 DEF Quiet
        <4>2. phase[s[1]] # "idle"
          BY <3>2 DEF BaseInv, InRange, Active
        <4> QED
          BY <1>1, <4>1, <4>2 DEF BaseInv, TypeOK
      <3> QED
        BY <3>1, <3>2, OwnStep
    <2>6. SeenSize[s[1]] = Len(requests[s[1]])
      BY <1>1 DEF SeenSize
    <2> QED
      BY <1>1, <1>2, <2>1, <2>3, <2>4, <2>5, <2>6
      DEF Promise!Settle, Promise!Positions, SeenSize, SeenAnswer
  <1>5. CASE ~Finished(s)'
    <2>1. AnswerOf(s)' = AnswerOf(s)
      BY <1>5, OwnStep, SeenPending DEF AnswerOf, Finished
    <2>2. SeenAnswer' = SeenAnswer
      BY <1>3, <2>1 DEF SeenAnswer
    <2> QED
      BY <1>2, <2>2 DEF Promise!vars, SeenSize, SeenAnswer
  <1> QED
    BY <1>4, <1>5

(* A finished call is seen with an answer. *)
LEMMA SeenFinished ==
    ASSUME Answered, NEW t \in Slots, Finished(t)
    PROVE  AnswerOf(t) # NoResult
  BY DEF Answered, Finished, AnswerOf, Unexpected, NoResult

(* Return delivers the answers. *)
LEMMA PromiseDeliver ==
    ASSUME BaseInv, Answered, NEW b \in Batches, Return(b)
    PROVE  Promise!Deliver(b)
  <1>1. SeenSize' = SeenSize /\ SeenAnswer' = SeenAnswer
    BY DEF Return, SeenSize, SeenAnswer, AnswerOf
  <1>2. SeenSize[b] = Len(requests[b])
    BY DEF SeenSize
  <1>3. ASSUME NEW i \in 1..Len(requests[b])
        PROVE  /\ SeenAnswer[<<b, i>>] = Resolved(b, i)
               /\ SeenAnswer[<<b, i>>] # NoResult
    <2>1. Finished(<<b, i>>) /\ <<b, i>> \in Slots
      BY PositionSlot DEF Return, AllFinished, Finished
    <2>2. SeenAnswer[<<b, i>>] = AnswerOf(<<b, i>>)
      BY <2>1 DEF SeenAnswer
    <2>3. AnswerOf(<<b, i>>) = Resolved(b, i)
      BY <2>1 DEF AnswerOf, Resolved, Finished
    <2> QED
      BY <2>1, <2>2, <2>3, SeenFinished
  <1>4. ResultList(b) = [i \in 1..SeenSize[b] |-> SeenAnswer[<<b, i>>]]
    BY <1>2, <1>3 DEF ResultList
  <1>5. \A i \in 1..SeenSize[b] : SeenAnswer[<<b, i>>] # NoResult
    BY <1>2, <1>3
  <1> QED
    BY <1>1, <1>4, <1>5
    DEF Return, Promise!Deliver, Promise!Positions, SeenSize, SeenAnswer

(* A batch that raises is aborted. *)
LEMMA PromiseAbort ==
    ASSUME BaseInv, NEW b \in Batches, CancelBatch(b) \/ Propagate(b)
    PROVE  Promise!Abort(b)
  <1>1. /\ phase[b] = "running"
        /\ phase' = [phase EXCEPT ![b] = "raised"]
        /\ UNCHANGED <<results, requests>>
    BY DEF CancelBatch, Propagate
  <1>2. SeenSize' = SeenSize
    BY <1>1 DEF SeenSize
  <1>3. ASSUME NEW s \in Slots
        PROVE  \/ AnswerOf(s)' = AnswerOf(s)
               \/ /\ s[1] = b /\ AnswerOf(s) = NoResult
                  /\ AnswerOf(s)' \in Results \ {NoResult}
    <2>1. CASE Propagate(b)
      BY <2>1 DEF Propagate, AnswerOf
    <2>2. CASE CancelBatch(b) /\ s \in CancelledCalls(b)
      <3>1. s[1] = b /\ ~Finished(s)
        BY <2>2, CallParts DEF CancelledCalls
      <3>2. AnswerOf(s) = NoResult
        BY <3>1, SeenPending
      <3>3. AnswerOf(s)' = Unexpected
        BY <2>2 DEF CancelBatch, AnswerOf, Unexpected
      <3>4. Unexpected \in Results \ {NoResult}
        BY FixedResults, NotPlaceholder DEF Unexpected
      <3> QED
        BY <3>1, <3>2, <3>3, <3>4
    <2>3. CASE CancelBatch(b) /\ s \notin CancelledCalls(b)
      BY <2>3 DEF CancelBatch, AnswerOf
    <2> QED
      BY <2>1, <2>2, <2>3
  <1>4. /\ DOMAIN SeenAnswer' = DOMAIN SeenAnswer
        /\ \A s \in DOMAIN SeenAnswer :
             \/ SeenAnswer'[s] = SeenAnswer[s]
             \/ /\ s[1] = b /\ SeenAnswer[s] = NoResult
                /\ SeenAnswer'[s] \in Results \ {NoResult}
    BY <1>3 DEF SeenAnswer
  <1> QED
    BY <1>1, <1>2, <1>4 DEF Promise!Abort, SeenSize, SeenAnswer

(* Every step of the executor is a step of the promise or invisible. *)
LEMMA PromiseStep ==
    ASSUME BaseInv, Quiet, Answered, [Next]_vars
    PROVE  [Promise!Next]_(Promise!vars)
  <1>1. ASSUME NEW b \in Batches, NEW q \in BatchInputs, Submit(b, q)
        PROVE  Promise!Next
    BY <1>1, PromiseAccept DEF Promise!Next
  <1>2. ASSUME NEW b \in Batches, Return(b)
        PROVE  Promise!Next
    BY <1>2, PromiseDeliver DEF Promise!Next
  <1>3. ASSUME NEW b \in Batches, CancelBatch(b) \/ Propagate(b)
        PROVE  Promise!Next
    BY <1>3, PromiseAbort DEF Promise!Next
  <1>4. ASSUME NEW s \in Slots, Begin(s) \/ EndAttempt(s) \/ Wake(s)
        PROVE  Promise!Next \/ UNCHANGED Promise!vars
    BY <1>4, PromiseSettle, SlotParts DEF Promise!Next
  <1>5. CASE \/ \E t \in Tools : Register(t) \/ Unregister(t)
             \/ ClearCache
             \/ UNCHANGED vars
    BY <1>5 DEF Register, Unregister, ClearCache, vars, codeVars, histVars,
                Promise!vars, AnswerOf
  <1> QED
    BY <1>1, <1>2, <1>3, <1>4, <1>5 DEF Next

(* Caches, retries, cancellation and scheduling are invisible to the caller  *)
(* of execute_batch: the executor implements the promise.                    *)
THEOREM PromiseKept == Spec => KeepsPromise
  <1>1. Init => SerialOrder /\ Quiet /\ Answered
    BY DEF Init, SerialOrder, CallsOf, Quiet, Active, Answered
  <1> QED
    BY <1>1, BaseInvInit, BaseStep, SerialStep, QuietStep, AnsweredStep,
       PromiseInit, PromiseStep, PTL
    DEF Spec, KeepsPromise, Promise!Spec

=============================================================================
