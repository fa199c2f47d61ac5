------------------------------ MODULE ToolCalls ------------------------------
(***************************************************************************)
(* The built-in tools as they are called: by the executor (ToolExecutor),  *)
(* as Agent configures it, and by ToolRegistry.resolve (ToolBase).  All    *)
(* share the event loop, the file system and the machine (BuiltinTools).   *)
(*                                                                         *)
(* The executor gives an attempt up at its own timeout, or when the batch  *)
(* is cancelled: the CancelledError that raises in execute_command is no   *)
(* Exception, proc.kill() is not reached, and the process runs on.         *)
(*                                                                         *)
(* The tools are registered when their package is imported and are not     *)
(* removed; the cache is off, as in the default settings.                  *)
(***************************************************************************)
EXTENDS ToolExecutor, ToolBase, BuiltinTools

CONSTANTS
    AskOf,       \* AskOf[k]: which tool a call with key k asks for
    TimeoutOf,   \* TimeoutOf[k]: the timeout argument of a command
    ToolTimeout, \* _default_timeout of the executor
    DirectAsk    \* DirectAsk[t]: what a resolve of tool t asks for

ASSUME CallsAssumption ==
    /\ Callers = Slots \cup Direct
    /\ Slots \cap Direct = {}
    /\ Old \notin Callers
    /\ MaxRetries < MaxRuns
    /\ Limit < MaxRuns
    /\ "timeout" \in Failures
    /\ AskOf \in [Keys -> Asks]
    /\ TimeoutOf \in [Keys -> Nat]
    /\ ToolTimeout \in Nat
    /\ DirectAsk \in [Tools -> Asks]

VARIABLE
    stalled  \* commands, by call and execution, a search kept waiting

callVars == <<vars, baseVars, toolVars, stalled>>

AskOfSlot(s) == AskOf[KeyOf(s)]

CallsInit ==
    Init /\ registry = Tools /\ BaseInit /\ ToolsInit /\ stalled = {}

-----------------------------------------------------------------------------
(* The executor's side.                                                      *)

(* Code of the executor that touches no tool. *)
ExecutorAlone ==
    /\ LoopFree
    /\ \/ \E b \in Batches, q \in BatchInputs : Submit(b, q)
       \/ \E b \in Batches : Return(b) \/ CancelBatch(b)
    /\ UNCHANGED <<baseVars, toolVars, stalled>>

(* An attempt begins; wait_for makes a task of the tool's execute(), which   *)
(* runs at once or, before Python 3.12, when the loop comes to it.           *)
AttemptBegins(s) ==
    /\ LoopFree
    /\ StartLoop(s) \/ Wake(s)
    /\ CallTool(s, invoked'[s], AskOfSlot(s), NoTurn)
    /\ UNCHANGED <<baseVars, stalled>>

Awaited(s) == pc[s] = "invoke" /\ AskOfSlot(s) = "command"

(* A search keeps the loop from the timers of the commands under way. *)
Stalls(c, ask) ==
    stalled' = IF ask = "search" /\ turn' = <<c, "waiting">>
               THEN stalled \cup { <<s, invoked[s]>> : s \in {t \in Slots : Awaited(t)} }
               ELSE stalled

(* The file tool or the search of an attempt goes on. *)
AttemptGoesOn(s) ==
    /\ pc[s] = "invoke"
    /\ GoesOn(s, AskOfSlot(s))
    /\ Stalls(s, AskOfSlot(s))
    /\ UNCHANGED <<vars, baseVars>>

(* Which timer ends a command; nothing else is ever awaited.  When both are  *)
(* due, since a search kept the loop, the cancellation by the executor takes *)
(* the place of the TimeoutError in the command.                             *)
OwnTimerFirst(s) == TimeoutOf[KeyOf(s)] <= ToolTimeout
ExecutorTimerFirst(s) == ToolTimeout <= TimeoutOf[KeyOf(s)]
BothDue(s, n) == <<s, n>> \in stalled

(* The tool's answer, its text left out; execute_command's own timeout is    *)
(* an answer without success.                                                *)
AttemptAnswered(s) ==
    /\ pc[s] = "invoke"
    /\ \/ /\ ToolReturns(s, invoked[s], AskOfSlot(s), TRUE, NoTurn)
          /\ \E content \in Contents : AttemptOk(s, content)
       \/ /\ ToolReturns(s, invoked[s], AskOfSlot(s), FALSE, NoTurn)
          /\ AttemptFail(s)
       \/ /\ OwnTimerFirst(s)
          /\ CommandTimesOut(s, invoked[s], AskOfSlot(s), NoTurn)
          /\ AttemptFail(s)
    /\ UNCHANGED <<baseVars, stalled>>

(* wait_for gives the command up, also one that has just ended. *)
AttemptTimesOut(s) ==
    /\ LoopFree
    /\ Awaited(s) /\ process[s][invoked[s]] # "none"
    /\ ExecutorTimerFirst(s) \/ BothDue(s, invoked[s])
    /\ AttemptRetry(s, "timeout") \/ AttemptExhausted(s, "timeout")
    /\ UNCHANGED <<baseVars, toolVars, stalled>>

SlotStep(s) ==
    AttemptBegins(s) \/ AttemptGoesOn(s) \/ AttemptAnswered(s)
      \/ AttemptTimesOut(s)

-----------------------------------------------------------------------------
(* resolve's side.                                                           *)

AskOfDirect(d) == DirectAsk[given[d].tool]

DirectBegins(d) ==
    /\ LoopFree
    /\ \/ NotRun(d, registry) /\ UNCHANGED toolVars
       \/ /\ FirstRun(d, registry)
          /\ CallTool(d, 1, AskOfDirect(d), <<d, "called">>)
    /\ UNCHANGED <<vars, stalled>>

DirectGoesOn(d) ==
    /\ state[d] = "running"
    /\ GoesOn(d, AskOfDirect(d))
    /\ Stalls(d, AskOfDirect(d))
    /\ UNCHANGED <<vars, baseVars>>

(* After a failure the loop of execute_with_retry goes on without an await. *)
DirectAnswered(d) ==
    /\ state[d] = "running"
    /\ \E ok \in BOOLEAN :
         LET again == ~ok /\ MayRunAgain(d)
             next == IF again THEN <<d, "again">> ELSE NoTurn
         IN  /\ \/ ToolReturns(d, runs[d], AskOfDirect(d), ok, next)
                \/ ~ok /\ CommandTimesOut(d, runs[d], AskOfDirect(d), next)
             /\ IF again THEN UNCHANGED baseVars ELSE ReturnResult(d, ok)
    /\ UNCHANGED <<vars, stalled>>

DirectAgain(d) ==
    /\ At(d, "again")
    /\ RunAgain(d)
    /\ CallTool(d, runs'[d], AskOfDirect(d), <<d, "called">>)
    /\ UNCHANGED <<vars, stalled>>

(* Only a command awaits anything. *)
DirectCancelled(d) ==
    /\ LoopFree
    /\ CancelDirect(d)
    /\ UNCHANGED <<vars, toolVars, stalled>>

DirectStep(d) ==
    DirectBegins(d) \/ DirectGoesOn(d) \/ DirectAnswered(d) \/ DirectAgain(d)

CallsNext ==
    \/ ExecutorAlone
    \/ \E s \in Slots : SlotStep(s)
    \/ \E d \in Direct : DirectStep(d) \/ DirectCancelled(d)
    \/ ProcessStep /\ UNCHANGED <<vars, baseVars, stalled>>

CallsSpec == CallsInit /\ [][CallsNext]_callVars

(* The event loop runs what is ready, timers fire, and the network answers   *)
(* or times out.  A process may run for ever.                                *)
FairCalls ==
    /\ CallsSpec
    /\ \A s \in Slots : WF_callVars(SlotStep(s))
    /\ \A d \in Direct : WF_callVars(DirectStep(d))
    /\ WF_callVars(ExecutorAlone /\ \E b \in Batches : phase'[b] = "returned")

-----------------------------------------------------------------------------
(* Types, and that the event loop is held only by a tool that was called.    *)
ToolsTypeOK ==
    /\ TypeOK
    /\ file \in {Absent, Directory} \cup Texts
    /\ process \in [Callers -> [1..MaxRuns -> ProcessStates]]
    /\ state \in [Direct -> {"idle", "running", "unknown", "invalid",
                             "refused", "succeeded", "failed", "raised"}]
    /\ runs \in [Direct -> 0..Limit + 1]
    /\ stalled \subseteq Slots \X (1..MaxRuns)
    /\ ~LoopFree =>
         /\ turn[2] \in {"called", "again", "checked", "opened", "unlinked",
                         "waiting"}
         /\ IF turn[1] \in Slots THEN pc[turn[1]] = "invoke"
                                 ELSE state[turn[1]] = "running"

(* A process the program is not waiting for was given up by its caller's     *)
(* cancellation, or by the executor's timer where the command's own timeout  *)
(* is no shorter or a search kept both from firing: else a call never has    *)
(* two of them.  Only the command's own timeout kills, and it ends the call. *)
ExecutorCommands ==
    \A s \in Slots : \A n \in 1..invoked[s] :
      /\ process[s][n] = "running" =>
           \/ pc[s] = "invoke" /\ n = invoked[s]
           \/ pc[s] = "raised"
           \/ ExecutorTimerFirst(s)
           \/ BothDue(s, n)
      /\ process[s][n] \in {"killed", "loose"} =>
           pc[s] = "done" /\ n = invoked[s] /\ result[s].error = "tool_error"
      /\ Succeeded(s) /\ AskOfSlot(s) = "command" =>
           process[s][invoked[s]] = "succeeded"

(* resolve runs a tool only with all it requires and the right types, until  *)
(* the first success, at most Limit + 1 times; no execution starts before    *)
(* the one before it has ended, by itself or by its own timeout.             *)
DirectCommands ==
    \A d \in Direct :
      /\ state[d] \in {"unknown", "invalid", "refused"} => runs[d] = 0
      /\ state[d] = "failed" => runs[d] = Limit + 1
      /\ runs[d] > 0 => \A p \in DOMAIN Schema :
           \/ given[d].args[p] \in Instances(Schema[p])
           \/ given[d].args[p] = NotGiven /\ p \notin Required
      /\ \A n \in 1..MaxRuns : process[d][n] = "running" =>
           n = runs[d] /\ state[d] \in {"running", "raised"}
      /\ state[d] = "succeeded" /\ AskOfDirect(d) = "command" =>
           process[d][runs[d]] = "succeeded"

AskOfCall(c) == IF c \in Slots THEN AskOfSlot(c) ELSE AskOfDirect(c)

(* The call whose file tool takes a step, if it is not a process that does.  *)
Steps(c) ==
    /\ turn' # turn
    /\ ~(turn' # NoTurn /\ turn'[2] = "unlinked")
    /\ c = IF turn # NoTurn THEN turn[1] ELSE turn'[1]

CallsOver ==
    /\ \A b \in Batches : phase[b] # "running"
    /\ \A d \in Direct : state[d] # "running"
    /\ \A c \in Callers, n \in 1..MaxRuns : process[c][n] \notin Live

(* What a file tool may do to a text: write_file replaces it, an append, and *)
(* its failure, loses none of it, and create_file_folder destroys only what  *)
(* a command writes there in that moment, never what was there before or     *)
(* what another file tool wrote.  And once all calls and all processes are   *)
(* over, cancelled ones included, the file stays as it is.                   *)
FilesAccounted ==
    [][/\ \A c \in Callers : Steps(c) /\ IsText(file) /\ file' # file =>
            \/ AskOfCall(c) = "write"
            \/ AskOfCall(c) = "append" /\ IsPrefix(file, file')
            \/ /\ AskOfCall(c) \in {"create", "mkdir"}
               /\ \A i \in DOMAIN file : /\ file[i] # Old
                                        /\ AskOfCall(file[i]) = "command"
       /\ CallsOver => file' = file]_callVars

(* A batch with built-in tools returns or raises, although the processes of  *)
(* its commands may never end.                                               *)
CallsEnd == BatchTerminates

-----------------------------------------------------------------------------
(* What the documentation says, and the code does not do.                    *)

(* A command runs for its timeout, 60 s unless the call says otherwise, and  *)
(* then it is over: a call has one process at a time.                        *)
OneCommand ==
    \A s \in Slots : \A m, n \in 1..MaxRuns :
      process[s][m] = "running" /\ process[s][n] = "running" => m = n

=============================================================================
