--------------------------- MODULE ToolCallsProofs ---------------------------
(***************************************************************************)
(* The built-in tools under the executor and under resolve: the composed   *)
(* system implements the executor alone, and its commands are accounted    *)
(* for, for all callers, tools, timeouts and retries.                      *)
(***************************************************************************)
EXTENDS ToolCalls, ToolExecutorProofs

-----------------------------------------------------------------------------
(* The executor under the tools.                                             *)

(* Every step of the composed system is one of the executor, or none of it. *)
LEMMA ExecutorStep == CallsNext => [Next]_vars
  <1> SUFFICES ASSUME CallsNext PROVE [Next]_vars
    OBVIOUS
  <1>1. CASE ExecutorAlone
    BY <1>1 DEF ExecutorAlone, Next
  <1>2. ASSUME NEW s \in Slots, SlotStep(s)
        PROVE  [Next]_vars
    <2>1. CASE AttemptBegins(s)
      BY <2>1 DEF AttemptBegins, Next, Begin
    <2>2. CASE AttemptGoesOn(s)
      BY <2>2 DEF AttemptGoesOn
    <2>3. CASE AttemptAnswered(s)
      <3>1. (\E content \in Contents : AttemptOk(s, content)) \/ AttemptFail(s)
        BY <2>3 DEF AttemptAnswered
      <3> QED
        BY <3>1 DEF Next, EndAttempt
    <2>4. CASE AttemptTimesOut(s)
      BY <2>4, CallsAssumption DEF AttemptTimesOut, Next, EndAttempt
    <2> QED
      BY <1>2, <2>1, <2>2, <2>3, <2>4 DEF SlotStep
  <1>3. ASSUME NEW d \in Direct, DirectStep(d) \/ DirectCancelled(d)
        PROVE  UNCHANGED vars
    BY <1>3 DEF DirectStep, DirectCancelled, DirectBegins, DirectGoesOn,
                DirectAnswered, DirectAgain
  <1> QED
    BY <1>1, <1>2, <1>3 DEF CallsNext

LEMMA ExecutorStutters == UNCHANGED callVars => UNCHANGED vars
  BY DEF callVars

(* The composed system implements the executor: whatever is proved of the    *)
(* executor holds of the program's own tools, in particular the promise of   *)
(* execute_batch.                                                            *)
THEOREM ExecutorImplemented == CallsSpec => Spec /\ KeepsPromise
  <1>1. CallsInit => Init
    BY DEF CallsInit
  <1> QED
    BY <1>1, ExecutorStep, ExecutorStutters, PromiseKept, PTL
    DEF CallsSpec, Spec

-----------------------------------------------------------------------------
(* What the tools' steps do to the file and to the processes.                *)

Stages == {"called", "again", "checked", "opened", "unlinked", "waiting"}

FileTyped == file \in {Absent, Directory} \cup Texts

ProcessTyped == process \in [Callers -> [1..MaxRuns -> ProcessStates]]

(* Only the processes of call c may change. *)
OnlyOf(c) == \A t \in Callers : t # c => process'[t] = process[t]

(* One entry of the table of processes is replaced. *)
Replaced(c, n, v) == process' = [process EXCEPT ![c][n] = v]

LEMMA EntryReplaced ==
    ASSUME ProcessTyped, NEW c \in Callers, NEW n, NEW v \in ProcessStates,
           Replaced(c, n, v)
    PROVE  /\ ProcessTyped' /\ OnlyOf(c)
           /\ \A m \in 1..MaxRuns :
                process'[c][m] = IF m = n THEN v ELSE process[c][m]
  BY DEF ProcessTyped, OnlyOf, Replaced

LEMMA EntriesKept ==
    ASSUME ProcessTyped, UNCHANGED process
    PROVE  ProcessTyped' /\ \A c \in Callers : OnlyOf(c)
  BY DEF ProcessTyped, OnlyOf

(* A tool is called: at most one process is started, for a command.          *)
LEMMA CallEffect ==
    ASSUME ProcessTyped, NEW c \in Callers, NEW n, NEW ask, NEW by,
           CallTool(c, n, ask, by)
    PROVE  /\ ProcessTyped' /\ OnlyOf(c) /\ UNCHANGED file
           /\ turn' = IF ask = "command" THEN NoTurn ELSE by
           /\ \A m \in 1..MaxRuns :
                \/ process'[c][m] = process[c][m]
                \/ m = n /\ ask = "command" /\ process'[c][m] = "running"
  <1>1. CASE ask = "command" /\ Replaced(c, n, "running")
    <2>1. "running" \in ProcessStates
      BY DEF ProcessStates
    <2> QED
      BY <1>1, <2>1, EntryReplaced DEF CallTool
  <1>2. CASE UNCHANGED process
    BY <1>2, EntriesKept DEF CallTool
  <1> QED
    BY <1>1, <1>2 DEF CallTool, Replaced

(* The call that keeps the loop is no command, and the file it opened is one.*)
Holds(c, ask) ==
    \A st \in {"called", "checked", "opened", "unlinked", "waiting"} : At(c, st) =>
      ask # "command" /\ (st = "opened" => file \in Texts)

(* A file tool or a search goes on, and keeps the loop. *)
LEMMA GoesOnEffect ==
    ASSUME FileTyped, NEW c, NEW ask, GoesOn(c, ask)
    PROVE  /\ FileTyped' /\ UNCHANGED process /\ ask # "command"
           /\ LoopFree \/ At(c, "called") \/ At(c, "checked")
           /\ \E st \in Stages \ {"again", "called", "unlinked"} :
                /\ turn' = <<c, st>>
                /\ st = "opened" => file' \in Texts
  <1>1. CASE CheckAbsent(c, ask)
    BY <1>1 DEF CheckAbsent, FileTyped, Enters, Stages
  <1>2. CASE OpenFile(c, ask)
    <2>1. Opened(ask) \in Texts
      BY DEF Opened, FileTyped, IsText, Texts
    <2> QED
      BY <1>2, <2>1 DEF OpenFile, MayOpen, Enters, FileTyped, Stages
  <1>3. CASE StartSearch(c, ask)
    BY <1>3 DEF StartSearch, FileTyped, Enters, Stages
  <1> QED
    BY <1>1, <1>2, <1>3 DEF GoesOn

(* A file tool or a search returns: no command does that, and no process     *)
(* changes.                                                                  *)
LEMMA FileToolEffect ==
    ASSUME FileTyped, NEW c \in Callers, NEW ask, NEW ok, NEW next,
           Holds(c, ask), FileToolReturns(c, ask, ok, next)
    PROVE  FileTyped' /\ UNCHANGED process /\ ask # "command" /\ turn' = next
  <1>1. CASE MakeDirectory(c, ask, ok)
    BY <1>1 DEF MakeDirectory, FileTyped, FileToolReturns
  <1>2. CASE WriteText(c, ask, ok)
    <2>1. ask # "command" /\ (At(c, "opened") => file \in Texts)
      BY <1>2 DEF WriteText, Holds
    <2>2. <<c>> \in Texts /\ (file \in Texts => Append(file, c) \in Texts)
      BY DEF Texts
    <2> QED
      BY <1>2, <2>1, <2>2 DEF WriteText, FileTyped, FileToolReturns
  <1>3. CASE Refused(c, ask)
    BY <1>3 DEF Refused, MayOpen, FileTyped, FileToolReturns
  <1>4. CASE ReadText(c, ask, ok)
    BY <1>4 DEF ReadText, FileTyped, FileToolReturns
  <1>5. CASE SearchEnds(c)
    BY <1>5 DEF SearchEnds, Holds, FileTyped, FileToolReturns
  <1> QED
    BY <1>1, <1>2, <1>3, <1>4, <1>5 DEF FileToolReturns

(* A tool returns: a command that it says succeeded did, one that it says    *)
(* failed is over or never began, and no process changes.                    *)
LEMMA ReturnEffect ==
    ASSUME FileTyped, NEW c \in Callers, NEW n, NEW ask, NEW ok \in BOOLEAN,
           NEW next, Holds(c, ask), ToolReturns(c, n, ask, ok, next)
    PROVE  /\ FileTyped' /\ UNCHANGED process /\ turn' = next
           /\ ask = "command" =>
                /\ LoopFree
                /\ process[c][n] \in IF ok THEN {"succeeded"}
                                     ELSE {"failed", "none"}
  <1>1. CASE FileToolReturns(c, ask, ok, next)
    BY <1>1, FileToolEffect
  <1>2. CASE CommandReturns(c, n, ask, ok, next)
    BY <1>2 DEF CommandReturns, HasEnded, ExitedZero, FileTyped
  <1> QED
    BY <1>1, <1>2 DEF ToolReturns

(* The own timeout of a command kills its process if that has not ended.     *)
LEMMA TimeoutEffect ==
    ASSUME FileTyped, ProcessTyped, NEW c \in Callers, NEW n \in 1..MaxRuns,
           NEW ask, NEW next, CommandTimesOut(c, n, ask, next)
    PROVE  /\ FileTyped' /\ ProcessTyped' /\ OnlyOf(c) /\ turn' = next
           /\ ask = "command" /\ LoopFree /\ process[c][n] # "none"
           /\ \A m \in 1..MaxRuns : m # n => process'[c][m] = process[c][m]
           /\ process'[c][n] \in IF process[c][n] = "running"
                                 THEN {"killed", "loose"} ELSE {process[c][n]}
  <1>1. PICK st \in Killed(process[c][n]) : Replaced(c, n, st)
    BY DEF CommandTimesOut, Replaced
  <1>2. process[c][n] \in ProcessStates
    BY DEF ProcessTyped
  <1>3. st \in ProcessStates
    BY <1>1, <1>2 DEF Killed, ProcessStates
  <1> QED
    BY <1>1, <1>3, EntryReplaced DEF CommandTimesOut, Killed, FileTyped

(* By itself a process only ends: what was started dies with a loose one.    *)
Evolves(c) ==
    \A n \in 1..MaxRuns :
      \/ process'[c][n] = process[c][n]
      \/ process[c][n] = "running" /\ process'[c][n] \in {"succeeded", "failed"}
      \/ process[c][n] = "loose" /\ process'[c][n] = "killed"

(* A process takes a step: its file stays a file or goes, and of the tool    *)
(* that keeps the loop it can only remove the file that it has open.         *)
LEMMA ProcessEffect ==
    ASSUME FileTyped, ProcessTyped, ProcessStep
    PROVE  /\ FileTyped' /\ ProcessTyped'
           /\ \A c \in Callers : Evolves(c)
           /\ \/ turn' = turn /\ (file \in Texts => file' \in Texts \/ turn = NoTurn
                                                     \/ turn[2] # "opened")
              \/ /\ turn # NoTurn /\ turn[2] = "opened"
                 /\ turn' = <<turn[1], "unlinked">>
  <1>1. PICK c \in Callers, n \in 1..MaxRuns :
          ProcessWrites(c, n) \/ ProcessRemoves(c, n) \/ ProcessEnds(c, n)
    BY DEF ProcessStep
  <1>2. CASE ProcessWrites(c, n)
    <2>1. file' \in Texts
      BY <1>2 DEF ProcessWrites, Texts
    <2> QED
      BY <1>2, <2>1 DEF ProcessWrites, FileTyped, ProcessTyped, Evolves
  <1>3. CASE ProcessRemoves(c, n)
    BY <1>3 DEF ProcessRemoves, FileTyped, ProcessTyped, Evolves
  <1>4. CASE ProcessEnds(c, n)
    <2>1. PICK st \in IF process[c][n] = "running" THEN {"succeeded", "failed"}
                      ELSE {"killed"} : Replaced(c, n, st)
      BY <1>4 DEF ProcessEnds, Replaced
    <2>2. st \in ProcessStates
      BY <2>1 DEF ProcessStates
    <2>3. /\ ProcessTyped' /\ OnlyOf(c)
          /\ \A m \in 1..MaxRuns :
               process'[c][m] = IF m = n THEN st ELSE process[c][m]
      BY <2>1, <2>2, EntryReplaced
    <2>4. Evolves(c)
      BY <1>4, <2>1, <2>3 DEF ProcessEnds, Live, Evolves
    <2>5. ASSUME NEW t \in Callers PROVE Evolves(t)
      BY <2>3, <2>4 DEF OnlyOf, Evolves
    <2> QED
      BY <1>4, <2>3, <2>5 DEF ProcessEnds, FileTyped
  <1> QED
    BY <1>1, <1>2, <1>3, <1>4

-----------------------------------------------------------------------------
(* The commands of a slot: ExecutorCommands, and that processes are started  *)
(* for commands only, one for each attempt made.                             *)
SlotCommands(s) ==
    \A n \in 1..invoked[s] :
      /\ process[s][n] = "running" =>
           \/ pc[s] = "invoke" /\ n = invoked[s]
           \/ pc[s] = "raised"
           \/ ExecutorTimerFirst(s)
           \/ BothDue(s, n)
      /\ process[s][n] \in {"killed", "loose"} =>
           pc[s] = "done" /\ n = invoked[s] /\ result[s].error = "tool_error"
      /\ Succeeded(s) /\ AskOfSlot(s) = "command" =>
           process[s][invoked[s]] = "succeeded"

SlotStarted(s) ==
    \A n \in 1..MaxRuns : process[s][n] # "none" =>
      n <= invoked[s] /\ AskOfSlot(s) = "command"

SlotOk(s) == SlotCommands(s) /\ SlotStarted(s)

SlotsOk == \A s \in Slots : SlotOk(s)

(* A step that leaves a slot's call alone, and lets its processes end. *)
SlotLeft(s) ==
    /\ SlotSame(s) /\ requests'[s[1]] = requests[s[1]]
    /\ Evolves(s)
    /\ stalled \subseteq stalled'

(* Attempts are few enough for the table of processes. *)
LEMMA AttemptsFit ==
    ASSUME BaseInv, AttemptBudget, NEW s \in Slots
    PROVE  /\ invoked[s] \in Nat /\ invoked[s] <= MaxRuns
           /\ 1..invoked[s] \subseteq 1..MaxRuns
           /\ pc[s] = "invoke" => invoked[s] \in 1..MaxRuns
           /\ pc[s] \in {"queued", "sleep"} =>
                invoked[s] + 1 \in 1..MaxRuns
  <1>1. /\ attempt[s] \in 0..MaxRetries /\ invoked[s] \in Nat /\ pc[s] \in PCs
        /\ result[s].retry_count \in 0..MaxRetries
        /\ MaxRetries \in Nat /\ MaxRuns \in Nat /\ MaxRetries < MaxRuns
    BY ExecutorAssumption, CallsAssumption, ToolsAssumption
    DEF BaseInv, TypeOK, Results
  <1>2. BudgetOf(s)
    BY DEF AttemptBudget
  <1>3. invoked[s] <= MaxRetries + 1
    BY <1>1, <1>2 DEF BudgetOf, PCs
  <1>4. pc[s] = "invoke" => invoked[s] >= 1
    BY <1>1, <1>2 DEF BudgetOf
  <1>5. pc[s] \in {"queued", "sleep"} => invoked[s] <= MaxRetries
    BY <1>1, <1>2 DEF BudgetOf
  <1> QED
    BY <1>1, <1>3, <1>4, <1>5

(* A slot that is left alone keeps its commands accounted for. *)
LEMMA SlotLeftOk ==
    ASSUME BaseInv, AttemptBudget, NEW s \in Slots, SlotOk(s), SlotLeft(s)
    PROVE  SlotOk(s)'
  <1>1. /\ 1..invoked[s] \subseteq 1..MaxRuns
        /\ AskOfSlot(s)' = AskOfSlot(s)
        /\ ExecutorTimerFirst(s)' <=> ExecutorTimerFirst(s)
        /\ Succeeded(s)' <=> Succeeded(s)
        /\ pc'[s] = pc[s] /\ invoked'[s] = invoked[s] /\ result'[s] = result[s]
    BY AttemptsFit
    DEF SlotLeft, SlotSame, AskOfSlot, KeyOf, ExecutorTimerFirst, Succeeded
  <1>2. SlotStarted(s)'
    BY <1>1 DEF SlotOk, SlotStarted, SlotLeft, Evolves
  <1>3. ASSUME NEW n \in 1..invoked[s], process'[s][n] = "running"
        PROVE  \/ pc[s] = "invoke" /\ n = invoked[s]
               \/ pc[s] = "raised"
               \/ ExecutorTimerFirst(s)
               \/ BothDue(s, n)'
    <2>1. process[s][n] = "running"
      BY <1>1, <1>3 DEF SlotLeft, Evolves
    <2> QED
      BY <2>1 DEF SlotOk, SlotCommands, SlotLeft, BothDue
  <1>4. ASSUME NEW n \in 1..invoked[s], process'[s][n] \in {"killed", "loose"}
        PROVE  pc[s] = "done" /\ n = invoked[s] /\ result[s].error = "tool_error"
    <2>1. process[s][n] \in {"killed", "loose"}
      BY <1>1, <1>4 DEF SlotLeft, Evolves
    <2> QED
      BY <2>1 DEF SlotOk, SlotCommands
  <1>5. ASSUME NEW n \in 1..invoked[s], Succeeded(s), AskOfSlot(s) = "command"
        PROVE  process'[s][invoked[s]] = "succeeded"
    <2>1. process[s][invoked[s]] = "succeeded"
      BY <1>5 DEF SlotOk, SlotCommands
    <2>2. invoked[s] \in 1..MaxRuns
      BY <1>1, AttemptsFit
    <2> QED
      BY <2>1, <2>2 DEF SlotLeft, Evolves
  <1>6. SlotCommands(s)'
    BY <1>1, <1>3, <1>4, <1>5 DEF SlotCommands
  <1> QED
    BY <1>2, <1>6 DEF SlotOk

LEMMA SlotsCall == \A s \in Slots : s \in Callers /\ s \notin Direct
  BY CallsAssumption

(* An attempt begins: the process it may start is the only one that may be   *)
(* waited for.                                                               *)
LEMMA BeginsOk ==
    ASSUME BaseInv, AttemptBudget, ProcessTyped,
           NEW s \in Slots, SlotOk(s), AttemptBegins(s)
    PROVE  SlotOk(s)' /\ OnlyOf(s) /\ ProcessTyped' /\ UNCHANGED file
  <1>1. /\ pc[s] \in {"queued", "sleep"} /\ pc'[s] = "invoke"
        /\ invoked'[s] = invoked[s] + 1
        /\ UNCHANGED <<requests, result, stalled>>
        /\ CallTool(s, invoked'[s], AskOfSlot(s), NoTurn)
    BY DEF AttemptBegins, StartLoop, Wake, MayStart, BaseInv, TypeOK
  <1>2. s \in Callers
    BY SlotsCall
  <1>3. /\ ProcessTyped' /\ OnlyOf(s) /\ UNCHANGED file
        /\ \A m \in 1..MaxRuns :
             \/ process'[s][m] = process[s][m]
             \/ /\ m = invoked'[s] /\ AskOfSlot(s) = "command"
                /\ process'[s][m] = "running"
    BY <1>1, <1>2, CallEffect
  <1>4. /\ invoked[s] \in Nat /\ 1..invoked[s] \subseteq 1..MaxRuns
        /\ invoked[s] + 1 \in 1..MaxRuns
    BY <1>1, AttemptsFit
  <1>5. /\ AskOfSlot(s)' = AskOfSlot(s)
        /\ ExecutorTimerFirst(s)' <=> ExecutorTimerFirst(s)
        /\ \A n : BothDue(s, n)' <=> <<s, n>> \in stalled
        /\ ~Succeeded(s)'
    BY <1>1 DEF AskOfSlot, KeyOf, ExecutorTimerFirst, BothDue, Succeeded
  <1>6. SlotStarted(s)'
    BY <1>1, <1>3, <1>4, <1>5 DEF SlotOk, SlotStarted
  <1>7. ASSUME NEW n \in 1..invoked[s] + 1, n # invoked[s] + 1
        PROVE  /\ process'[s][n] = process[s][n]
               /\ process'[s][n] = "running" =>
                    ExecutorTimerFirst(s) \/ <<s, n>> \in stalled
               /\ process'[s][n] \notin {"killed", "loose"}
    <2>1. n \in 1..invoked[s] /\ n \in 1..MaxRuns
      BY <1>4, <1>7
    <2>2. process'[s][n] = process[s][n]
      BY <1>1, <1>3, <2>1, <1>7
    <2> QED
      BY <1>1, <2>1, <2>2 DEF SlotOk, SlotCommands, BothDue
  <1>8. process'[s][invoked[s] + 1] \in {"none", "running"}
    <2>1. process[s][invoked[s] + 1] = "none"
      BY <1>4 DEF SlotOk, SlotStarted
    <2> QED
      BY <1>3, <1>4, <2>1
  <1>9. SlotCommands(s)'
    BY <1>1, <1>4, <1>5, <1>7, <1>8 DEF SlotCommands
  <1> QED
    BY <1>3, <1>6, <1>9 DEF SlotOk

(* The state of a call after its attempt was answered. *)
LEMMA AnswerEnds ==
    ASSUME BaseInv, NEW s \in Slots,
           (\E content \in Contents : AttemptOk(s, content)) \/ AttemptFail(s)
    PROVE  /\ pc'[s] = "done" /\ invoked'[s] = invoked[s]
           /\ UNCHANGED requests
           /\ \/ /\ \E content \in Contents : AttemptOk(s, content)
                 /\ result'[s].status = "success"
              \/ /\ AttemptFail(s)
                 /\ result'[s].status = "failed"
                 /\ result'[s].error = "tool_error"
  <1>1. ASSUME NEW content \in Contents, AttemptOk(s, content)
        PROVE  /\ pc'[s] = "done" /\ invoked'[s] = invoked[s]
               /\ UNCHANGED requests /\ result'[s].status = "success"
    BY <1>1 DEF AttemptOk, EndCall, BaseInv, TypeOK
  <1>2. CASE AttemptFail(s)
    BY <1>2 DEF AttemptFail, EndCall, BaseInv, TypeOK, histVars
  <1> QED
    BY <1>1, <1>2

(* An attempt is answered: a command has ended, or its own timeout ends it.  *)
LEMMA AnsweredOk ==
    ASSUME BaseInv, AttemptBudget, FileTyped, ProcessTyped, NEW s \in Slots,
           SlotOk(s), Holds(s, AskOfSlot(s)), AttemptAnswered(s)
    PROVE  /\ SlotOk(s)' /\ OnlyOf(s) /\ ProcessTyped' /\ FileTyped'
           /\ turn' = NoTurn
  <1> DEFINE i == invoked[s]
  <1>1. /\ pc[s] = "invoke" /\ pc'[s] = "done" /\ invoked'[s] = i
        /\ UNCHANGED <<requests, stalled>>
    BY AnswerEnds DEF AttemptAnswered
  <1>2. s \in Callers
    BY SlotsCall
  <1>3. i \in 1..MaxRuns /\ 1..i \subseteq 1..MaxRuns /\ i \in 1..i
    BY <1>1, AttemptsFit
  <1>4. /\ AskOfSlot(s)' = AskOfSlot(s)
        /\ ExecutorTimerFirst(s)' <=> ExecutorTimerFirst(s)
        /\ \A n : BothDue(s, n)' <=> BothDue(s, n)
    BY <1>1 DEF AskOfSlot, KeyOf, ExecutorTimerFirst, BothDue
  <1>5. /\ OnlyOf(s) /\ ProcessTyped' /\ FileTyped' /\ turn' = NoTurn
        /\ \A m \in 1..MaxRuns : m # i => process'[s][m] = process[s][m]
        /\ process'[s][i] # "none" => process[s][i] # "none"
        /\ process'[s][i] # "running"
        /\ process'[s][i] \in {"killed", "loose"} =>
             result'[s].error = "tool_error"
        /\ result'[s].status = "success" /\ AskOfSlot(s) = "command" =>
             process'[s][i] = "succeeded"
    <2>0. process[s][i] \notin {"killed", "loose"}
      BY <1>1, <1>3 DEF SlotOk, SlotCommands
    <2>s. AskOfSlot(s) # "command" => process[s][i] = "none"
      BY <1>3 DEF SlotOk, SlotStarted
    <2>1. CASE /\ ToolReturns(s, i, AskOfSlot(s), TRUE, NoTurn)
               /\ \E content \in Contents : AttemptOk(s, content)
      <3>1. /\ FileTyped' /\ UNCHANGED process /\ turn' = NoTurn
            /\ AskOfSlot(s) = "command" => process[s][i] = "succeeded"
        BY <2>1, <1>2, ReturnEffect
      <3> QED
        BY <3>1, <2>0, <2>s, <1>2, EntriesKept
    <2>2. CASE /\ ToolReturns(s, i, AskOfSlot(s), FALSE, NoTurn)
               /\ AttemptFail(s)
      <3>1. /\ FileTyped' /\ UNCHANGED process /\ turn' = NoTurn
            /\ AskOfSlot(s) = "command" => process[s][i] \in {"failed", "none"}
        BY <2>2, <1>2, ReturnEffect
      <3>2. result'[s].status = "failed"
        BY <2>2 DEF AttemptFail, EndCall, BaseInv, TypeOK
      <3> QED
        BY <3>1, <3>2, <2>0, <2>s, <1>2, EntriesKept
    <2>3. CASE /\ CommandTimesOut(s, i, AskOfSlot(s), NoTurn)
               /\ AttemptFail(s)
      <3>1. /\ FileTyped' /\ ProcessTyped' /\ OnlyOf(s) /\ turn' = NoTurn
            /\ process[s][i] # "none"
            /\ \A m \in 1..MaxRuns : m # i => process'[s][m] = process[s][m]
            /\ process'[s][i] \in IF process[s][i] = "running"
                                  THEN {"killed", "loose"} ELSE {process[s][i]}
        BY <2>3, <1>2, <1>3, TimeoutEffect
      <3>2. result'[s].status = "failed" /\ result'[s].error = "tool_error"
        BY <2>3 DEF AttemptFail, EndCall, BaseInv, TypeOK
      <3> QED
        BY <3>1, <3>2
    <2> QED
      BY <2>1, <2>2, <2>3 DEF AttemptAnswered
  <1>6. SlotStarted(s)'
    BY <1>1, <1>3, <1>4, <1>5 DEF SlotOk, SlotStarted
  <1>7. ASSUME NEW n \in 1..i, n # i
        PROVE  /\ process'[s][n] = "running" =>
                    ExecutorTimerFirst(s) \/ BothDue(s, n)
               /\ process'[s][n] \notin {"killed", "loose"}
    <2>1. process'[s][n] = process[s][n]
      BY <1>3, <1>5, <1>7
    <2> QED
      BY <1>1, <1>7, <2>1 DEF SlotOk, SlotCommands
  <1>8. SlotCommands(s)'
    BY <1>1, <1>3, <1>4, <1>5, <1>7 DEF SlotCommands, Succeeded
  <1> QED
    BY <1>5, <1>6, <1>8 DEF SlotOk

(* wait_for gives an attempt up: the process it may leave behind is one the  *)
(* executor's timer was to end first, or could.                              *)
LEMMA TimesOutOk ==
    ASSUME BaseInv, AttemptBudget, NEW s \in Slots, SlotOk(s),
           AttemptTimesOut(s)
    PROVE  SlotOk(s)'
  <1>1. /\ pc[s] = "invoke" /\ invoked'[s] = invoked[s]
        /\ UNCHANGED <<requests, stalled, process>>
        /\ ExecutorTimerFirst(s) \/ BothDue(s, invoked[s])
        /\ \/ pc'[s] = "sleep"
           \/ pc'[s] = "done" /\ result'[s].status # "success"
    <2>1. CASE AttemptRetry(s, "timeout")
      BY <2>1
      DEF AttemptTimesOut, AttemptRetry, BaseInv, TypeOK, toolVars, histVars
    <2>2. CASE AttemptExhausted(s, "timeout")
      <3>1. result'[s].status # "success"
        BY <2>2 DEF AttemptExhausted, EndCall, BaseInv, TypeOK
      <3> QED
        BY <2>2, <3>1
        DEF AttemptTimesOut, AttemptExhausted, EndCall, BaseInv, TypeOK,
            toolVars, histVars
    <2> QED
      BY <2>1, <2>2 DEF AttemptTimesOut
  <1>2. /\ AskOfSlot(s)' = AskOfSlot(s)
        /\ ExecutorTimerFirst(s)' <=> ExecutorTimerFirst(s)
        /\ \A n : BothDue(s, n)' <=> BothDue(s, n)
        /\ ~Succeeded(s)'
    BY <1>1 DEF AskOfSlot, KeyOf, ExecutorTimerFirst, BothDue, Succeeded
  <1>3. SlotStarted(s)'
    BY <1>1, <1>2 DEF SlotOk, SlotStarted
  <1>4. SlotCommands(s)'
    BY <1>1, <1>2 DEF SlotOk, SlotCommands
  <1> QED
    BY <1>3, <1>4 DEF SlotOk

-----------------------------------------------------------------------------
(* The calls of resolve.                                                     *)

DirectStates ==
    {"idle", "running", "unknown", "invalid", "refused", "succeeded", "failed",
     "raised"}

DirectTyped ==
    /\ given \in [Direct -> Givens]
    /\ state \in [Direct -> DirectStates]
    /\ runs \in [Direct -> 0..Limit + 1]

(* What DirectCommands says of call d, and that processes are started for    *)
(* commands only, one for each execution.                                    *)
DirectOk(d) ==
    /\ state[d] \in {"idle", "unknown", "invalid", "refused"} => runs[d] = 0
    /\ state[d] \notin {"idle", "unknown", "invalid", "refused"} => runs[d] > 0
    /\ state[d] = "failed" => runs[d] = Limit + 1
    /\ runs[d] > 0 => Invalid(given[d].args) = {}
    /\ \A n \in 1..MaxRuns :
         /\ process[d][n] # "none" => n <= runs[d] /\ AskOfDirect(d) = "command"
         /\ process[d][n] = "running" =>
              n = runs[d] /\ state[d] \in {"running", "raised"}
    /\ state[d] = "succeeded" /\ AskOfDirect(d) = "command" =>
         process[d][runs[d]] = "succeeded"

DirectsOk == \A d \in Direct : DirectOk(d)

DirectSame(d) ==
    state'[d] = state[d] /\ runs'[d] = runs[d] /\ given'[d] = given[d]

LEMMA DirectsCall == \A d \in Direct : d \in Callers /\ d \notin Slots
  BY CallsAssumption

(* Executions are few enough for the table of processes. *)
LEMMA RunsFit ==
    ASSUME DirectTyped, NEW d \in Direct
    PROVE  /\ runs[d] \in 0..MaxRuns /\ runs[d] \in Nat /\ runs[d] <= Limit + 1
           /\ MayRunAgain(d) => runs[d] + 1 \in 1..MaxRuns
           /\ MayRunAgain(d) <=> runs[d] # Limit + 1
           /\ Limit \in Nat /\ MaxRuns \in Nat /\ 1 \in 1..MaxRuns
  <1>1. Limit \in Nat /\ MaxRuns \in Nat /\ Limit < MaxRuns
    BY BaseAssumption, ToolsAssumption, CallsAssumption
  <1> QED
    BY <1>1 DEF DirectTyped, MayRunAgain

(* A call of resolve that is left alone, but for its processes. *)
LEMMA DirectLeftOk ==
    ASSUME DirectTyped, NEW d \in Direct, DirectOk(d), DirectSame(d), Evolves(d)
    PROVE  DirectOk(d)'
  <1>1. runs[d] \in 0..MaxRuns /\ AskOfDirect(d)' = AskOfDirect(d)
    BY RunsFit DEF DirectSame, AskOfDirect
  <1>2. ASSUME NEW n \in 1..MaxRuns
        PROVE  /\ process'[d][n] # "none" =>
                    n <= runs[d] /\ AskOfDirect(d) = "command"
               /\ process'[d][n] = "running" =>
                    n = runs[d] /\ state[d] \in {"running", "raised"}
    BY DEF DirectOk, Evolves
  <1>3. state[d] = "succeeded" /\ AskOfDirect(d) = "command" =>
          process'[d][runs[d]] = "succeeded"
    <2>1. CASE state[d] = "succeeded" /\ AskOfDirect(d) = "command"
      <3>1. runs[d] \in 1..MaxRuns
        BY <1>1, <2>1 DEF DirectOk
      <3> QED
        BY <2>1, <3>1 DEF DirectOk, Evolves
    <2> QED
      BY <2>1
  <1> QED
    BY <1>1, <1>2, <1>3 DEF DirectOk, DirectSame

(* A call moves on to where it ends, or to another execution. *)
LEMMA DirectMoves ==
    ASSUME DirectTyped, NEW d \in Direct,
           \/ \E how \in DirectStates : Ends(d, how)
           \/ Runs(d) /\ MayRunAgain(d)
    PROVE  /\ DirectTyped'
           /\ \A t \in Direct : t # d => DirectSame(t)
           /\ given' = given
  <1>1. CASE \E how \in DirectStates : Ends(d, how)
    BY <1>1 DEF DirectTyped, DirectSame, Ends
  <1>2. CASE Runs(d) /\ MayRunAgain(d)
    <2>1. runs[d] + 1 \in 0..Limit + 1
      BY <1>2, RunsFit DEF MayRunAgain
    <2> QED
      BY <1>2, <2>1 DEF DirectTyped, DirectStates, DirectSame, Runs
  <1> QED
    BY <1>1, <1>2

(* What a step of call d does to the calls of resolve. *)
DirectKept(d) ==
    /\ DirectTyped' /\ DirectOk(d)' /\ \A t \in Direct : t # d => DirectSame(t)

(* resolve refuses the call, or runs the tool for the first time. *)
LEMMA DirectBeginsOk ==
    ASSUME DirectTyped, FileTyped, ProcessTyped, NEW d \in Direct, DirectOk(d),
           DirectBegins(d)
    PROVE  /\ DirectKept(d) /\ OnlyOf(d) /\ ProcessTyped' /\ FileTyped'
           /\ \/ UNCHANGED turn
              \/ turn' = NoTurn
              \/ /\ turn' = <<d, "called">> /\ state'[d] = "running"
                 /\ AskOfDirect(d)' # "command"
  <1>1. d \in Callers
    BY DirectsCall
  <1>2. CASE NotRun(d, registry) /\ UNCHANGED toolVars
    <2>1. PICK how \in {"unknown", "invalid", "refused"} : Ends(d, how)
      BY <1>2 DEF NotRun
    <2>2. DirectTyped' /\ \A t \in Direct : t # d => DirectSame(t)
      BY <2>1, DirectMoves DEF DirectStates
    <2>3. /\ state[d] = "idle" /\ runs[d] = 0 /\ runs'[d] = 0
          /\ state'[d] = how /\ UNCHANGED process
          /\ given'[d] = given[d]
      BY <1>2, <2>1 DEF NotRun, Ends, DirectOk, DirectTyped, toolVars
    <2>4. DirectOk(d)'
      BY <2>3 DEF DirectOk, AskOfDirect
    <2> QED
      BY <1>1, <1>2, <2>2, <2>4, EntriesKept DEF DirectKept, FileTyped, toolVars
  <1>3. CASE /\ FirstRun(d, registry)
             /\ CallTool(d, 1, AskOfDirect(d), <<d, "called">>)
    <2>1. /\ state[d] = "idle" /\ runs[d] = 0 /\ Runs(d)
          /\ Invalid(given[d].args) = {}
      BY <1>3 DEF FirstRun, DirectOk
    <2>2. MayRunAgain(d)
      BY <2>1, BaseAssumption DEF MayRunAgain
    <2>3. DirectTyped' /\ \A t \in Direct : t # d => DirectSame(t)
      BY <2>1, <2>2, DirectMoves
    <2>4. /\ ProcessTyped' /\ OnlyOf(d) /\ UNCHANGED file
          /\ turn' = IF AskOfDirect(d) = "command" THEN NoTurn ELSE <<d, "called">>
          /\ \A m \in 1..MaxRuns :
               \/ process'[d][m] = process[d][m]
               \/ /\ m = 1 /\ AskOfDirect(d) = "command"
                  /\ process'[d][m] = "running"
      BY <1>1, <1>3, CallEffect
    <2>5. /\ runs'[d] = 1 /\ state'[d] = "running" /\ given'[d] = given[d]
          /\ AskOfDirect(d)' = AskOfDirect(d)
      BY <2>1 DEF Runs, DirectTyped, AskOfDirect
    <2>6. \A m \in 1..MaxRuns : process[d][m] = "none"
      BY <2>1 DEF DirectOk
    <2>7. DirectOk(d)'
      BY <2>1, <2>4, <2>5, <2>6 DEF DirectOk
    <2> QED
      BY <2>3, <2>4, <2>5, <2>7 DEF DirectKept, FileTyped
  <1> QED
    BY <1>2, <1>3 DEF DirectBegins

(* An execution is answered: its process is over, and so is the call unless  *)
(* the loop goes on.                                                         *)
LEMMA DirectAnsweredOk ==
    ASSUME DirectTyped, FileTyped, ProcessTyped, NEW d \in Direct, DirectOk(d),
           Holds(d, AskOfDirect(d)), DirectAnswered(d)
    PROVE  /\ DirectKept(d) /\ OnlyOf(d) /\ ProcessTyped' /\ FileTyped'
           /\ \/ turn' = NoTurn
              \/ /\ turn' = <<d, "again">> /\ state'[d] = "running"
                 /\ process'[d][runs'[d]] # "running"
  <1> DEFINE i == runs[d]
             ask == AskOfDirect(d)
  <1>1. d \in Callers
    BY DirectsCall
  <1>2. state[d] = "running" /\ i \in 1..MaxRuns /\ i \in Nat
    BY RunsFit DEF DirectAnswered, DirectOk
  <1>3. PICK ok \in BOOLEAN :
          LET again == ~ok /\ MayRunAgain(d)
              next == IF again THEN <<d, "again">> ELSE NoTurn
          IN  /\ \/ ToolReturns(d, i, ask, ok, next)
                 \/ ~ok /\ CommandTimesOut(d, i, ask, next)
              /\ IF again THEN UNCHANGED baseVars ELSE ReturnResult(d, ok)
    BY DEF DirectAnswered
  <1> DEFINE again == ~ok /\ MayRunAgain(d)
             next == IF again THEN <<d, "again">> ELSE NoTurn
  <1>4. /\ ProcessTyped' /\ FileTyped' /\ OnlyOf(d) /\ turn' = next
        /\ \A m \in 1..MaxRuns : m # i => process'[d][m] = process[d][m]
        /\ process'[d][i] # "running"
        /\ process'[d][i] # "none" => process[d][i] # "none"
        /\ ok /\ ask = "command" => process'[d][i] = "succeeded"
    <2>s. ask # "command" => process[d][i] = "none"
      BY <1>2 DEF DirectOk
    <2>1. CASE ToolReturns(d, i, ask, ok, next)
      <3>1. /\ FileTyped' /\ UNCHANGED process /\ turn' = next
            /\ ask = "command" =>
                 process[d][i] \in IF ok THEN {"succeeded"} ELSE {"failed", "none"}
        BY <2>1, <1>1, ReturnEffect
      <3> QED
        BY <3>1, <2>s, <1>1, EntriesKept
    <2>2. CASE ~ok /\ CommandTimesOut(d, i, ask, next)
      <3>1. /\ FileTyped' /\ ProcessTyped' /\ OnlyOf(d) /\ turn' = next
            /\ process[d][i] # "none"
            /\ \A m \in 1..MaxRuns : m # i => process'[d][m] = process[d][m]
            /\ process'[d][i] \in IF process[d][i] = "running"
                                  THEN {"killed", "loose"} ELSE {process[d][i]}
        BY <2>2, <1>1, <1>2, TimeoutEffect
      <3> QED
        BY <3>1, <2>2
    <2> QED
      BY <1>3, <2>1, <2>2
  <1>5. /\ DirectTyped' /\ \A t \in Direct : t # d => DirectSame(t)
        /\ given'[d] = given[d] /\ runs'[d] = i
        /\ IF again THEN state'[d] = "running"
           ELSE IF ok THEN state'[d] = "succeeded"
           ELSE state'[d] = "failed" /\ ~MayRunAgain(d)
    <2>1. CASE again
      BY <2>1, <1>2, <1>3 DEF baseVars, DirectTyped, DirectSame
    <2>2. CASE ~again
      <3> DEFINE how == IF ok THEN "succeeded" ELSE "failed"
      <3>1. Ends(d, how) /\ (ok \/ ~MayRunAgain(d))
        BY <2>2, <1>3 DEF ReturnResult
      <3>2. DirectTyped' /\ \A t \in Direct : t # d => DirectSame(t)
        BY <3>1, DirectMoves DEF DirectStates
      <3> QED
        BY <2>2, <3>1, <3>2 DEF Ends, DirectTyped
    <2> QED
      BY <2>1, <2>2
  <1>6. DirectOk(d)'
    <2>1. ask' = ask
      BY <1>5 DEF AskOfDirect
    <2>2. i > 0 /\ Invalid(given'[d].args) = {}
      BY <1>2, <1>5 DEF DirectOk
    <2>3. state'[d] = "failed" => i = Limit + 1
      BY <1>5, RunsFit
    <2>4. ASSUME NEW n \in 1..MaxRuns
          PROVE  /\ process'[d][n] # "none" => n <= i /\ ask = "command"
                 /\ process'[d][n] # "running"
      BY <1>2, <1>4 DEF DirectOk
    <2> QED
      BY <1>4, <1>5, <2>1, <2>2, <2>3, <2>4 DEF DirectOk
  <1> QED
    BY <1>4, <1>5, <1>6 DEF DirectKept

(* The loop goes on: no execution before the new one still runs. *)
LEMMA DirectAgainOk ==
    ASSUME DirectTyped, FileTyped, ProcessTyped, NEW d \in Direct, DirectOk(d),
           process[d][runs[d]] # "running", DirectAgain(d)
    PROVE  /\ DirectKept(d) /\ OnlyOf(d) /\ ProcessTyped' /\ FileTyped'
           /\ \/ turn' = NoTurn
              \/ /\ turn' = <<d, "called">> /\ state'[d] = "running"
                 /\ AskOfDirect(d)' # "command"
  <1>1. d \in Callers
    BY DirectsCall
  <1>2. /\ state[d] = "running" /\ MayRunAgain(d) /\ Runs(d)
        /\ CallTool(d, runs'[d], AskOfDirect(d), <<d, "called">>)
    BY DEF DirectAgain, RunAgain
  <1>3. DirectTyped' /\ \A t \in Direct : t # d => DirectSame(t)
    BY <1>2, DirectMoves
  <1>4. /\ runs'[d] = runs[d] + 1 /\ state'[d] = "running"
        /\ given'[d] = given[d] /\ AskOfDirect(d)' = AskOfDirect(d)
        /\ runs[d] \in Nat /\ runs[d] > 0
    BY <1>2, RunsFit DEF Runs, DirectTyped, AskOfDirect, DirectOk
  <1>5. /\ ProcessTyped' /\ OnlyOf(d) /\ UNCHANGED file
        /\ turn' = IF AskOfDirect(d) = "command" THEN NoTurn ELSE <<d, "called">>
        /\ \A m \in 1..MaxRuns :
             \/ process'[d][m] = process[d][m]
             \/ /\ m = runs'[d] /\ AskOfDirect(d) = "command"
                /\ process'[d][m] = "running"
    BY <1>1, <1>2, CallEffect
  <1>6. \A m \in 1..MaxRuns : process[d][m] # "running"
    BY DEF DirectOk
  <1>7. DirectOk(d)'
    <2>1. Invalid(given'[d].args) = {}
      BY <1>4 DEF DirectOk
    <2>2. ASSUME NEW n \in 1..MaxRuns
          PROVE  /\ process'[d][n] # "none" =>
                      n <= runs[d] + 1 /\ AskOfDirect(d) = "command"
                 /\ process'[d][n] = "running" => n = runs[d] + 1
      BY <1>4, <1>5, <1>6 DEF DirectOk
    <2> QED
      BY <1>4, <2>1, <2>2 DEF DirectOk
  <1> QED
    BY <1>3, <1>4, <1>5, <1>7 DEF DirectKept, FileTyped

(* The caller is cancelled; the process of its command runs on. *)
LEMMA DirectCancelledOk ==
    ASSUME DirectTyped, NEW d \in Direct, DirectOk(d), DirectCancelled(d)
    PROVE  DirectKept(d)
  <1>1. state[d] = "running" /\ Ends(d, "raised") /\ UNCHANGED process
    BY DEF DirectCancelled, CancelDirect, toolVars
  <1>2. DirectTyped' /\ \A t \in Direct : t # d => DirectSame(t)
    BY <1>1, DirectMoves DEF DirectStates
  <1>3. state'[d] = "raised" /\ runs'[d] = runs[d] /\ given'[d] = given[d]
    BY <1>1 DEF Ends, DirectTyped
  <1>4. DirectOk(d)'
    BY <1>1, <1>3 DEF DirectOk, AskOfDirect
  <1> QED
    BY <1>2, <1>4 DEF DirectKept

-----------------------------------------------------------------------------
(* The call that keeps the event loop is in its tool, no command keeps it,   *)
(* and the loop of resolve goes on only when no process of the call runs.    *)
HoldsLoop(c, st) ==
    /\ c \in Slots => pc[c] = "invoke" /\ AskOfSlot(c) # "command"
    /\ c \in Direct => /\ state[c] = "running"
                       /\ IF st = "again" THEN process[c][runs[c]] # "running"
                          ELSE AskOfDirect(c) # "command"
    /\ st = "opened" => file \in Texts

TurnOk ==
    \/ turn = NoTurn
    \/ \E c \in Callers, st \in Stages : turn = <<c, st>> /\ HoldsLoop(c, st)

ToolsInv ==
    /\ FileTyped /\ ProcessTyped /\ DirectTyped
    /\ stalled \subseteq Slots \X (1..MaxRuns)
    /\ SlotsOk /\ DirectsOk /\ TurnOk

CallsInv == BaseInv /\ AttemptBudget /\ ToolsInv

(* Who keeps the loop is no command. *)
LEMMA SlotHolds ==
    ASSUME TurnOk, NEW s \in Slots
    PROVE  Holds(s, AskOfSlot(s))
  BY SlotsCall DEF TurnOk, HoldsLoop, Holds, At, NoTurn

LEMMA DirectHolds ==
    ASSUME TurnOk, NEW d \in Direct
    PROVE  Holds(d, AskOfDirect(d))
  BY DirectsCall DEF TurnOk, HoldsLoop, Holds, At, NoTurn

LEMMA SameEvolves ==
    ASSUME NEW c, process'[c] = process[c]
    PROVE  Evolves(c)
  BY DEF Evolves

(* A search that starts adds only executions under way to the stalled ones. *)
LEMMA StallsTyped ==
    ASSUME CallsInv, NEW c, NEW ask, Stalls(c, ask)
    PROVE  stalled \subseteq stalled' /\ stalled' \subseteq Slots \X (1..MaxRuns)
  <1>1. ASSUME NEW t \in Slots, Awaited(t)
        PROVE  <<t, invoked[t]>> \in Slots \X (1..MaxRuns)
    BY <1>1, AttemptsFit DEF CallsInv, Awaited
  <1>2. { <<s, invoked[s]>> : s \in {t \in Slots : Awaited(t)} }
          \subseteq Slots \X (1..MaxRuns)
    BY <1>1
  <1> QED
    BY <1>2 DEF Stalls, CallsInv, ToolsInv

(* The executor runs while no tool does. *)
LEMMA SlotsFree ==
    ASSUME CallsInv, \A s \in Slots : SlotLeft(s) \/ SlotOk(s)'
    PROVE  SlotsOk'
  BY SlotLeftOk DEF CallsInv, ToolsInv, SlotsOk

LEMMA DirectsFree ==
    ASSUME CallsInv, \A d \in Direct : DirectSame(d) /\ Evolves(d)
    PROVE  DirectsOk'
  BY DirectLeftOk DEF CallsInv, ToolsInv, DirectsOk

LEMMA DirectsUnchanged ==
    ASSUME CallsInv, UNCHANGED baseVars, \A d \in Direct : Evolves(d)
    PROVE  DirectTyped' /\ DirectsOk'
  <1>1. \A d \in Direct : DirectSame(d)
    BY DEF baseVars, DirectSame
  <1> QED
    BY <1>1, DirectsFree DEF CallsInv, ToolsInv, baseVars, DirectTyped

-----------------------------------------------------------------------------
(* Batches are submitted, cancelled and returned. *)
LEMMA AloneStep ==
    ASSUME CallsInv, ExecutorAlone
    PROVE  ToolsInv'
  <1>1. /\ UNCHANGED <<baseVars, toolVars, stalled>> /\ turn = NoTurn
        /\ UNCHANGED <<file, process, turn>>
    BY DEF ExecutorAlone, LoopFree, toolVars
  <1>2. \A c : Evolves(c)
    BY <1>1, SameEvolves
  <1>3. ASSUME NEW b \in Batches, NEW q \in BatchInputs, Submit(b, q),
               NEW t \in Slots
        PROVE  SlotLeft(t) \/ SlotOk(t)'
    <2>1. CASE t[1] # b
      <3>1. requests'[t[1]] = requests[t[1]] /\ SlotSame(t)
        BY <1>3, <2>1, SlotParts
        DEF Submit, SlotSame, histVars, CallsInv, BaseInv, TypeOK
      <3> QED
        BY <1>1, <1>2, <3>1 DEF SlotLeft
    <2>2. CASE t[1] = b
      <3>1. pc[t] = "unused"
        BY <1>3, <2>2 DEF Submit, CallsInv, BaseInv, InRange
      <3>2. invoked[t] = 0 /\ invoked'[t] = 0
        BY <1>3, <3>1 DEF CallsInv, AttemptBudget, BudgetOf, Submit, histVars
      <3>3. \A n \in 1..MaxRuns : process'[t][n] = "none"
        BY <1>1, <3>2 DEF CallsInv, ToolsInv, SlotsOk, SlotOk, SlotStarted
      <3> QED
        BY <3>2, <3>3 DEF SlotOk, SlotCommands, SlotStarted
    <2> QED
      BY <2>1, <2>2
  <1>4. ASSUME NEW b \in Batches, Return(b), NEW t \in Slots
        PROVE  SlotLeft(t)
    BY <1>1, <1>2, <1>4 DEF Return, SlotLeft, SlotSame, histVars
  <1>5. ASSUME NEW b \in Batches, CancelBatch(b), NEW t \in Slots
        PROVE  SlotLeft(t) \/ SlotOk(t)'
    <2>1. CASE t \in CancelledCalls(b)
      <3>1. /\ pc'[t] = "raised" /\ pc[t] # "done" /\ invoked'[t] = invoked[t]
            /\ UNCHANGED <<requests, process, invoked>>
        BY <1>1, <1>5, <2>1 DEF CancelBatch, CancelledCalls, Finished, histVars
      <3>2. AskOfSlot(t)' = AskOfSlot(t) /\ ~Succeeded(t)'
        BY <3>1 DEF AskOfSlot, KeyOf, Succeeded
      <3>3. SlotOk(t)
        BY DEF CallsInv, ToolsInv, SlotsOk
      <3> QED
        BY <3>1, <3>2, <3>3 DEF SlotOk, SlotCommands, SlotStarted
    <2>2. CASE t \notin CancelledCalls(b)
      BY <1>1, <1>2, <1>5, <2>2 DEF CancelBatch, SlotLeft, SlotSame, histVars
    <2> QED
      BY <2>1, <2>2
  <1>6. SlotsOk'
    BY <1>3, <1>4, <1>5, SlotsFree DEF ExecutorAlone
  <1>7. DirectTyped' /\ DirectsOk'
    BY <1>1, <1>2, DirectsUnchanged
  <1> QED
    BY <1>1, <1>6, <1>7
    DEF CallsInv, ToolsInv, TurnOk, FileTyped, ProcessTyped

(* When a step is of one slot's call, all other calls are left alone. *)
LEMMA OthersLeft ==
    ASSUME CallsInv, NEW s \in Slots, OnlyOf(s), SlotStep(s)
    PROVE  /\ \A t \in Slots : t # s => SlotLeft(t)
           /\ \A d \in Direct : Evolves(d)
           /\ UNCHANGED baseVars
           /\ stalled' \subseteq Slots \X (1..MaxRuns)
  <1>1. UNCHANGED baseVars
    BY DEF SlotStep, AttemptBegins, AttemptGoesOn, AttemptAnswered,
           AttemptTimesOut
  <1>2. stalled \subseteq stalled' /\ stalled' \subseteq Slots \X (1..MaxRuns)
    <2>1. CASE AttemptGoesOn(s)
      BY <2>1, StallsTyped DEF AttemptGoesOn
    <2>2. CASE UNCHANGED stalled
      BY <2>2 DEF CallsInv, ToolsInv
    <2> QED
      BY <2>1, <2>2 DEF SlotStep, AttemptBegins, AttemptAnswered,
                        AttemptTimesOut
  <1>3. Begin(s) \/ EndAttempt(s) \/ Wake(s) \/ UNCHANGED vars
    <2>1. CASE AttemptBegins(s)
      BY <2>1 DEF AttemptBegins, Begin
    <2>2. CASE AttemptGoesOn(s)
      BY <2>2 DEF AttemptGoesOn
    <2>3. CASE AttemptAnswered(s)
      <3>1. (\E content \in Contents : AttemptOk(s, content)) \/ AttemptFail(s)
        BY <2>3 DEF AttemptAnswered
      <3> QED
        BY <3>1 DEF EndAttempt
    <2>4. CASE AttemptTimesOut(s)
      BY <2>4, CallsAssumption DEF AttemptTimesOut, EndAttempt
    <2> QED
      BY <2>1, <2>2, <2>3, <2>4 DEF SlotStep
  <1>4. ASSUME NEW t \in Slots, t # s
        PROVE  SlotSame(t) /\ requests' = requests
    <2>1. CASE UNCHANGED vars
      BY <2>1 DEF SlotSame, vars, codeVars, histVars
    <2>2. CASE Begin(s) \/ EndAttempt(s) \/ Wake(s)
      BY <2>2, <1>4, OtherSlots, OwnStep DEF CallsInv
    <2> QED
      BY <1>3, <2>1, <2>2
  <1>5. ASSUME NEW c \in Callers, c # s
        PROVE  Evolves(c)
    BY <1>5, SameEvolves DEF OnlyOf
  <1>6. \A t \in Slots : t # s => SlotLeft(t)
    BY <1>2, <1>4, <1>5, SlotsCall DEF SlotLeft
  <1>7. \A d \in Direct : Evolves(d)
    BY <1>5, DirectsCall
  <1> QED
    BY <1>1, <1>2, <1>6, <1>7

(* An attempt begins, goes on, is answered or given up. *)
LEMMA SlotStepKeeps ==
    ASSUME CallsInv, NEW s \in Slots, SlotStep(s)
    PROVE  ToolsInv'
  <1>0. /\ BaseInv /\ AttemptBudget /\ FileTyped /\ ProcessTyped /\ TurnOk
        /\ SlotOk(s) /\ Holds(s, AskOfSlot(s)) /\ s \in Callers
    BY SlotHolds, SlotsCall DEF CallsInv, ToolsInv, SlotsOk
  <1>1. CASE AttemptBegins(s)
    <2>1. SlotOk(s)' /\ OnlyOf(s) /\ ProcessTyped' /\ UNCHANGED file
      BY <1>0, <1>1, BeginsOk
    <2>2. turn' = NoTurn
      BY <1>1 DEF AttemptBegins, CallTool
    <2>3. /\ \A t \in Slots : t # s => SlotLeft(t)
          /\ \A d \in Direct : Evolves(d)
          /\ UNCHANGED baseVars
          /\ stalled' \subseteq Slots \X (1..MaxRuns)
      BY <1>1, <2>1, OthersLeft DEF SlotStep
    <2>4. SlotsOk' /\ DirectTyped' /\ DirectsOk'
      BY <2>1, <2>3, SlotsFree, DirectsUnchanged
    <2> QED
      BY <1>0, <2>1, <2>2, <2>3, <2>4 DEF ToolsInv, TurnOk, FileTyped
  <1>2. CASE AttemptGoesOn(s)
    <2>1. /\ pc[s] = "invoke" /\ UNCHANGED <<vars, pc, requests>>
          /\ GoesOn(s, AskOfSlot(s)) /\ Stalls(s, AskOfSlot(s))
      BY <1>2 DEF AttemptGoesOn, vars, codeVars
    <2>2. /\ FileTyped' /\ UNCHANGED process /\ AskOfSlot(s) # "command"
          /\ \E st \in Stages \ {"again", "called", "unlinked"} :
               turn' = <<s, st>> /\ (st = "opened" => file' \in Texts)
      BY <1>0, <2>1, GoesOnEffect
    <2>3. OnlyOf(s) /\ ProcessTyped' /\ Evolves(s)
      BY <1>0, <2>2, EntriesKept, SameEvolves
    <2>4. /\ \A t \in Slots : t # s => SlotLeft(t)
          /\ \A d \in Direct : Evolves(d)
          /\ UNCHANGED baseVars
          /\ stalled' \subseteq Slots \X (1..MaxRuns)
      BY <1>2, <2>3, OthersLeft DEF SlotStep
    <2>5. SlotLeft(s)
      BY <2>1, <2>3, StallsTyped DEF SlotLeft, SlotSame, vars, codeVars, histVars
    <2>6. SlotsOk' /\ DirectTyped' /\ DirectsOk'
      BY <2>4, <2>5, SlotsFree, DirectsUnchanged
    <2>7. AskOfSlot(s)' # "command"
      BY <2>1, <2>2 DEF AskOfSlot, KeyOf
    <2>8. TurnOk'
      BY <1>0, <2>1, <2>2, <2>7, SlotsCall DEF TurnOk, HoldsLoop
    <2> QED
      BY <2>2, <2>3, <2>4, <2>6, <2>8 DEF ToolsInv
  <1>3. CASE AttemptAnswered(s)
    <2>1. /\ SlotOk(s)' /\ OnlyOf(s) /\ ProcessTyped' /\ FileTyped'
          /\ turn' = NoTurn
      BY <1>0, <1>3, AnsweredOk
    <2>2. /\ \A t \in Slots : t # s => SlotLeft(t)
          /\ \A d \in Direct : Evolves(d)
          /\ UNCHANGED baseVars
          /\ stalled' \subseteq Slots \X (1..MaxRuns)
      BY <1>3, <2>1, OthersLeft DEF SlotStep
    <2>3. SlotsOk' /\ DirectTyped' /\ DirectsOk'
      BY <2>1, <2>2, SlotsFree, DirectsUnchanged
    <2> QED
      BY <2>1, <2>2, <2>3 DEF ToolsInv, TurnOk
  <1>4. CASE AttemptTimesOut(s)
    <2>1. SlotOk(s)'
      BY <1>0, <1>4, TimesOutOk
    <2>2. UNCHANGED <<file, process, turn>> /\ turn = NoTurn
      BY <1>4 DEF AttemptTimesOut, toolVars, LoopFree
    <2>3. OnlyOf(s) /\ ProcessTyped'
      BY <1>0, <2>2, EntriesKept
    <2>4. /\ \A t \in Slots : t # s => SlotLeft(t)
          /\ \A d \in Direct : Evolves(d)
          /\ UNCHANGED baseVars
          /\ stalled' \subseteq Slots \X (1..MaxRuns)
      BY <1>4, <2>3, OthersLeft DEF SlotStep
    <2>5. SlotsOk' /\ DirectTyped' /\ DirectsOk'
      BY <2>1, <2>4, SlotsFree, DirectsUnchanged
    <2> QED
      BY <1>0, <2>2, <2>3, <2>4, <2>5 DEF ToolsInv, TurnOk, FileTyped
  <1> QED
    BY <1>1, <1>2, <1>3, <1>4 DEF SlotStep

(* A step of one call of resolve leaves the slots and the other calls alone. *)
LEMMA AroundDirect ==
    ASSUME CallsInv, NEW d \in Direct, OnlyOf(d), UNCHANGED vars,
           stalled \subseteq stalled',
           DirectKept(d)
    PROVE  SlotsOk' /\ DirectTyped' /\ DirectsOk'
  <1>1. ASSUME NEW c \in Callers, c # d
        PROVE  Evolves(c)
    BY <1>1, SameEvolves DEF OnlyOf
  <1>2. \A s \in Slots : SlotLeft(s)
    BY <1>1, SlotsCall DEF SlotLeft, SlotSame, vars, codeVars, histVars
  <1>3. ASSUME NEW t \in Direct
        PROVE  DirectOk(t)'
    <2>1. CASE t = d
      BY <2>1 DEF DirectKept
    <2>2. CASE t # d
      BY <1>1, <2>2, DirectLeftOk, DirectsCall
      DEF DirectKept, CallsInv, ToolsInv, DirectsOk
    <2> QED
      BY <2>1, <2>2
  <1> QED
    BY <1>2, <1>3, SlotsFree DEF DirectKept, DirectsOk

(* The call has the event loop, at a stage before its file is open. *)
LEMMA DirectTurn ==
    ASSUME NEW d \in Direct, NEW st \in Stages \ {"opened"},
           turn' = <<d, st>>, state'[d] = "running",
           IF st = "again" THEN process'[d][runs'[d]] # "running"
           ELSE AskOfDirect(d)' # "command"
    PROVE  TurnOk'
  BY DirectsCall DEF TurnOk, HoldsLoop

(* A call of resolve begins, goes on, is answered, runs again, or is cut off.*)
LEMMA DirectStepKeeps ==
    ASSUME CallsInv, NEW d \in Direct, DirectStep(d) \/ DirectCancelled(d)
    PROVE  ToolsInv'
  <1>0. /\ FileTyped /\ ProcessTyped /\ DirectTyped /\ TurnOk /\ DirectOk(d)
        /\ Holds(d, AskOfDirect(d)) /\ d \in Callers /\ d \notin Slots
        /\ stalled \subseteq Slots \X (1..MaxRuns)
    BY DirectHolds, DirectsCall DEF CallsInv, ToolsInv, DirectsOk
  <1>1. CASE DirectBegins(d)
    <2>1. UNCHANGED <<vars, stalled>> /\ turn = NoTurn
      BY <1>1 DEF DirectBegins, LoopFree
    <2>2. /\ DirectKept(d) /\ OnlyOf(d) /\ ProcessTyped' /\ FileTyped'
          /\ \/ UNCHANGED turn
             \/ turn' = NoTurn
             \/ /\ turn' = <<d, "called">> /\ state'[d] = "running"
                /\ AskOfDirect(d)' # "command"
      BY <1>0, <1>1, DirectBeginsOk
    <2>3. SlotsOk' /\ DirectTyped' /\ DirectsOk'
      BY <2>1, <2>2, AroundDirect
    <2>4. TurnOk'
      <3>1. CASE turn' = NoTurn
        BY <3>1 DEF TurnOk
      <3>2. CASE /\ turn' = <<d, "called">> /\ state'[d] = "running"
                 /\ AskOfDirect(d)' # "command"
        BY <3>2, DirectTurn DEF Stages
      <3> QED
        BY <2>1, <2>2, <3>1, <3>2
    <2> QED
      BY <1>0, <2>1, <2>2, <2>3, <2>4 DEF ToolsInv
  <1>2. CASE DirectGoesOn(d)
    <2>1. /\ state[d] = "running" /\ UNCHANGED <<vars, baseVars>>
          /\ GoesOn(d, AskOfDirect(d)) /\ Stalls(d, AskOfDirect(d))
      BY <1>2 DEF DirectGoesOn
    <2>2. /\ FileTyped' /\ UNCHANGED process /\ AskOfDirect(d) # "command"
          /\ \E st \in Stages \ {"again", "called", "unlinked"} :
               turn' = <<d, st>> /\ (st = "opened" => file' \in Texts)
      BY <1>0, <2>1, GoesOnEffect
    <2>3. OnlyOf(d) /\ ProcessTyped' /\ \A t \in Direct : Evolves(t)
      BY <1>0, <2>2, EntriesKept, SameEvolves
    <2>4. stalled \subseteq stalled' /\ stalled' \subseteq Slots \X (1..MaxRuns)
      BY <2>1, StallsTyped
    <2>5. DirectTyped' /\ DirectsOk'
      BY <2>1, <2>3, DirectsUnchanged
    <2>6. DirectKept(d)
      BY <2>1, <2>5 DEF DirectKept, DirectsOk, DirectSame, baseVars
    <2>7. SlotsOk'
      BY <2>1, <2>3, <2>4, <2>6, AroundDirect
    <2>8. state'[d] = "running" /\ AskOfDirect(d)' # "command"
      BY <2>1, <2>2 DEF AskOfDirect, baseVars
    <2>9. TurnOk'
      BY <1>0, <2>2, <2>8 DEF TurnOk, HoldsLoop
    <2> QED
      BY <2>2, <2>3, <2>4, <2>5, <2>7, <2>9 DEF ToolsInv
  <1>3. CASE DirectAnswered(d)
    <2>1. UNCHANGED <<vars, stalled>>
      BY <1>3 DEF DirectAnswered
    <2>2. /\ DirectKept(d) /\ OnlyOf(d) /\ ProcessTyped' /\ FileTyped'
          /\ \/ turn' = NoTurn
             \/ /\ turn' = <<d, "again">> /\ state'[d] = "running"
                /\ process'[d][runs'[d]] # "running"
      BY <1>0, <1>3, DirectAnsweredOk
    <2>3. SlotsOk' /\ DirectTyped' /\ DirectsOk'
      BY <2>1, <2>2, AroundDirect
    <2>4. TurnOk'
      <3>1. CASE turn' = NoTurn
        BY <3>1 DEF TurnOk
      <3>2. CASE /\ turn' = <<d, "again">> /\ state'[d] = "running"
                 /\ process'[d][runs'[d]] # "running"
        BY <3>2, DirectTurn DEF Stages
      <3> QED
        BY <2>2, <3>1, <3>2
    <2> QED
      BY <1>0, <2>1, <2>2, <2>3, <2>4 DEF ToolsInv
  <1>4. CASE DirectAgain(d)
    <2>1. UNCHANGED <<vars, stalled>> /\ turn = <<d, "again">>
      BY <1>4 DEF DirectAgain, At
    <2>2. process[d][runs[d]] # "running"
      BY <1>0, <2>1 DEF TurnOk, HoldsLoop, NoTurn
    <2>3. /\ DirectKept(d) /\ OnlyOf(d) /\ ProcessTyped' /\ FileTyped'
          /\ \/ turn' = NoTurn
             \/ /\ turn' = <<d, "called">> /\ state'[d] = "running"
                /\ AskOfDirect(d)' # "command"
      BY <1>0, <1>4, <2>2, DirectAgainOk
    <2>4. SlotsOk' /\ DirectTyped' /\ DirectsOk'
      BY <2>1, <2>3, AroundDirect
    <2>5. TurnOk'
      <3>1. CASE turn' = NoTurn
        BY <3>1 DEF TurnOk
      <3>2. CASE /\ turn' = <<d, "called">> /\ state'[d] = "running"
                 /\ AskOfDirect(d)' # "command"
        BY <3>2, DirectTurn DEF Stages
      <3> QED
        BY <2>3, <3>1, <3>2
    <2> QED
      BY <1>0, <2>1, <2>3, <2>4, <2>5 DEF ToolsInv
  <1>5. CASE DirectCancelled(d)
    <2>1. /\ UNCHANGED <<vars, stalled, file, process, turn>> /\ turn = NoTurn
      BY <1>5 DEF DirectCancelled, LoopFree, toolVars
    <2>2. DirectKept(d)
      BY <1>0, <1>5, DirectCancelledOk
    <2>3. OnlyOf(d) /\ ProcessTyped'
      BY <1>0, <2>1, EntriesKept
    <2>4. SlotsOk' /\ DirectTyped' /\ DirectsOk'
      BY <2>1, <2>2, <2>3, AroundDirect
    <2> QED
      BY <1>0, <2>1, <2>3, <2>4 DEF ToolsInv, TurnOk, FileTyped
  <1> QED
    BY <1>1, <1>2, <1>3, <1>4, <1>5 DEF DirectStep

(* Processes write, remove and end in between, while a tool has the loop too.*)
LEMMA ProcessStepKeeps ==
    ASSUME CallsInv, ProcessStep, UNCHANGED <<vars, baseVars, stalled>>
    PROVE  ToolsInv'
  <1>1. /\ FileTyped' /\ ProcessTyped' /\ \A c \in Callers : Evolves(c)
        /\ \/ /\ turn' = turn
              /\ file \in Texts =>
                   file' \in Texts \/ turn = NoTurn \/ turn[2] # "opened"
           \/ /\ turn # NoTurn /\ turn[2] = "opened"
              /\ turn' = <<turn[1], "unlinked">>
    BY ProcessEffect DEF CallsInv, ToolsInv
  <1>2. SlotsOk'
    <2>1. \A s \in Slots : SlotLeft(s)
      BY <1>1, SlotsCall DEF SlotLeft, SlotSame, vars, codeVars, histVars
    <2> QED
      BY <2>1, SlotsFree
  <1>3. DirectTyped' /\ DirectsOk'
    BY <1>1, DirectsCall, DirectsUnchanged
  <1>4. TurnOk'
    <2>1. CASE turn = NoTurn
      BY <1>1, <2>1 DEF TurnOk
    <2>2. ASSUME NEW c \in Callers, NEW st \in Stages, turn = <<c, st>>,
                 HoldsLoop(c, st)
          PROVE  TurnOk'
      <3>1. PICK now \in {st, "unlinked"} :
              /\ turn' = <<c, now>>
              /\ now = "opened" => file' \in Texts
              /\ now # st => st = "opened"
        BY <1>1, <2>2 DEF HoldsLoop, NoTurn
      <3>2. now \in Stages
        BY <3>1 DEF Stages
      <3>3. c \in Slots => pc'[c] = "invoke" /\ AskOfSlot(c)' # "command"
        BY <2>2 DEF HoldsLoop, vars, codeVars, AskOfSlot, KeyOf
      <3>4. c \in Direct => /\ state'[c] = "running"
                            /\ AskOfDirect(c)' = AskOfDirect(c)
                            /\ runs'[c] = runs[c]
        BY <2>2 DEF HoldsLoop, baseVars, AskOfDirect
      <3>5. c \in Direct => IF now = "again" THEN process'[c][runs[c]] # "running"
                            ELSE AskOfDirect(c) # "command"
        <4>1. c \in Direct => runs[c] \in 1..MaxRuns
          BY <2>2, RunsFit DEF HoldsLoop, CallsInv, ToolsInv, DirectsOk, DirectOk
        <4> QED
          BY <1>1, <2>2, <3>1, <4>1 DEF HoldsLoop, Evolves
      <3> QED
        BY <3>1, <3>2, <3>3, <3>4, <3>5 DEF TurnOk, HoldsLoop
    <2> QED
      BY <2>1, <2>2 DEF CallsInv, ToolsInv, TurnOk
  <1> QED
    BY <1>1, <1>2, <1>3, <1>4 DEF CallsInv, ToolsInv

LEMMA CallsStutter ==
    ASSUME CallsInv, UNCHANGED callVars
    PROVE  ToolsInv'
  <1>1. UNCHANGED <<vars, baseVars, file, process, turn, stalled>>
    BY DEF callVars, toolVars
  <1>2. \A c : Evolves(c)
    BY <1>1, SameEvolves
  <1>3. SlotsOk'
    <2>1. \A s \in Slots : SlotLeft(s)
      BY <1>1, <1>2 DEF SlotLeft, SlotSame, vars, codeVars, histVars
    <2> QED
      BY <2>1, SlotsFree
  <1>4. DirectTyped' /\ DirectsOk'
    BY <1>1, <1>2, DirectsUnchanged
  <1>5. TurnOk'
    BY <1>1 DEF CallsInv, ToolsInv, TurnOk, HoldsLoop, AskOfSlot, KeyOf,
                AskOfDirect, baseVars, vars, codeVars
  <1> QED
    BY <1>1, <1>3, <1>4, <1>5 DEF CallsInv, ToolsInv, FileTyped, ProcessTyped

-----------------------------------------------------------------------------
(* The invariant of the composed system holds at first and is kept. *)
LEMMA CallsInvInit == CallsInit => CallsInv
  <1> SUFFICES ASSUME CallsInit PROVE CallsInv
    OBVIOUS
  <1>1. BaseInv
    BY BaseInvInit DEF CallsInit
  <1>2. AttemptBudget
    BY DEF CallsInit, Init, AttemptBudget, BudgetOf
  <1>3. /\ \A c \in Callers, n \in 1..MaxRuns : process[c][n] = "none"
        /\ ProcessTyped
    BY DEF CallsInit, ToolsInit, ProcessTyped, ProcessStates
  <1>4. FileTyped
    <2>1. <<Old>> \in Texts
      BY DEF Texts
    <2> QED
      BY <2>1 DEF CallsInit, ToolsInit, FileTyped
  <1>5. /\ given \in [Direct -> Givens]
        /\ \A d \in Direct : state[d] = "idle" /\ runs[d] = 0
        /\ DirectTyped
    BY BaseAssumption DEF CallsInit, BaseInit, DirectTyped, DirectStates
  <1>6. SlotsOk
    BY <1>3, SlotsCall
    DEF CallsInit, Init, SlotsOk, SlotOk, SlotCommands, SlotStarted
  <1>7. DirectsOk
    BY <1>3, <1>5, DirectsCall DEF DirectsOk, DirectOk
  <1> QED
    BY <1>1, <1>2, <1>3, <1>4, <1>5, <1>6, <1>7
    DEF CallsInv, ToolsInv, TurnOk, CallsInit, ToolsInit

LEMMA CallsInvStep == CallsInv /\ [CallsNext]_callVars => CallsInv'
  <1> SUFFICES ASSUME CallsInv, [CallsNext]_callVars PROVE CallsInv'
    OBVIOUS
  <1>1. [Next]_vars
    BY ExecutorStep, ExecutorStutters
  <1>2. BaseInv' /\ AttemptBudget'
    BY <1>1, BaseStep, BudgetStep DEF CallsInv
  <1>3. ToolsInv'
    BY AloneStep, SlotStepKeeps, DirectStepKeeps, ProcessStepKeeps,
       CallsStutter DEF CallsNext
  <1> QED
    BY <1>2, <1>3 DEF CallsInv

(* Files, processes and calls of resolve are well typed, with the executor   *)
(* under them, no call is run more often than its retries allow, and only a  *)
(* tool that was called, and not given up since, keeps the event loop.       *)
THEOREM ToolsTypeCorrect == CallsSpec => []ToolsTypeOK
  <1>1. CallsInv => ToolsTypeOK
    <2> SUFFICES ASSUME CallsInv PROVE ToolsTypeOK
      OBVIOUS
    <2>1. ~LoopFree =>
            /\ turn[2] \in {"called", "again", "checked", "opened", "unlinked",
                            "waiting"}
            /\ IF turn[1] \in Slots THEN pc[turn[1]] = "invoke"
                                    ELSE state[turn[1]] = "running"
      BY CallsAssumption
      DEF CallsInv, ToolsInv, TurnOk, LoopFree, HoldsLoop, Stages
    <2> QED
      BY <2>1
      DEF CallsInv, BaseInv, ToolsInv, FileTyped, ProcessTyped, DirectTyped,
          DirectStates, ToolsTypeOK
  <1> QED
    BY <1>1, CallsInvInit, CallsInvStep, PTL DEF CallsSpec

(* A process nobody waits for was left by a cancellation or by the timer of  *)
(* the executor, only a command's own timeout kills, and what is reported as *)
(* success did succeed, for every timeout and number of retries.             *)
THEOREM ExecutorCommandsKept == CallsSpec => []ExecutorCommands
  <1>1. CallsInv => ExecutorCommands
    BY DEF CallsInv, ToolsInv, SlotsOk, SlotOk, SlotCommands, ExecutorCommands
  <1> QED
    BY <1>1, CallsInvInit, CallsInvStep, PTL DEF CallsSpec

(* resolve runs no tool whose arguments are refused, uses its retries up     *)
(* before it reports a failure, and never runs a command twice at a time.    *)
THEOREM DirectCommandsKept == CallsSpec => []DirectCommands
  <1>1. CallsInv => DirectCommands
    <2> SUFFICES ASSUME CallsInv, NEW d \in Direct
                 PROVE  /\ state[d] \in {"unknown", "invalid", "refused"} => runs[d] = 0
                        /\ state[d] = "failed" => runs[d] = Limit + 1
                        /\ runs[d] > 0 => \A p \in DOMAIN Schema :
                             \/ given[d].args[p] \in Instances(Schema[p])
                             \/ given[d].args[p] = NotGiven /\ p \notin Required
                        /\ \A n \in 1..MaxRuns : process[d][n] = "running" =>
                             n = runs[d] /\ state[d] \in {"running", "raised"}
                        /\ state[d] = "succeeded" /\ AskOfDirect(d) = "command" =>
                             process[d][runs[d]] = "succeeded"
      BY DEF DirectCommands
    <2>1. DirectOk(d)
      BY DEF CallsInv, ToolsInv, DirectsOk
    <2>2. ASSUME Invalid(given[d].args) = {}, NEW p \in DOMAIN Schema
          PROVE  \/ given[d].args[p] \in Instances(Schema[p])
                 \/ given[d].args[p] = NotGiven /\ p \notin Required
      <3>1. p \notin Mistyped(given[d].args)
        BY <2>2 DEF Invalid
      <3>2. p \in Required => given[d].args[p] # NotGiven
        BY <2>2 DEF Invalid
      <3> QED
        BY <3>1, <3>2 DEF Mistyped
    <2> QED
      BY <2>1, <2>2 DEF DirectOk
  <1> QED
    BY <1>1, CallsInvInit, CallsInvStep, PTL DEF CallsSpec

-----------------------------------------------------------------------------
(* Who wrote the file.                                                       *)

(* What is there was written by commands. *)
CommandsOnly(f) ==
    IsText(f) => \A i \in DOMAIN f : f[i] # Old /\ AskOfCall(f[i]) = "command"

(* A file tool that keeps the loop is one that may be at its stage, and what *)
(* is there while create_file_folder goes on is of commands.                 *)
Authors ==
    \A c \in Callers :
      /\ At(c, "checked") => AskOfCall(c) \in {"create", "mkdir"}
      /\ At(c, "opened") => AskOfCall(c) \in {"create", "write", "append"}
      /\ At(c, "checked") \/ At(c, "opened") =>
           (AskOfCall(c) \in {"create", "mkdir"} => CommandsOnly(file))

(* What a call asks for is fixed while a tool keeps the loop. *)
LEMMA AskFixed ==
    ASSUME UNCHANGED <<requests, given>>
    PROVE  \A c : AskOfCall(c)' = AskOfCall(c)
  BY DEF AskOfCall, AskOfSlot, KeyOf, AskOfDirect

LEMMA AskedHow ==
    /\ \A s \in Slots : s \in Callers /\ AskOfCall(s) = AskOfSlot(s)
    /\ \A d \in Direct : d \in Callers /\ AskOfCall(d) = AskOfDirect(d)
  BY SlotsCall, DirectsCall DEF AskOfCall

(* A file tool or a search that goes on takes its place. *)
LEMMA GoesOnAuthors ==
    ASSUME Authors, NEW c \in Callers, GoesOn(c, AskOfCall(c)),
           UNCHANGED <<requests, given>>
    PROVE  Authors'
  <1>1. ASSUME NEW x \in Callers
        PROVE  AskOfCall(x)' = AskOfCall(x)
    BY AskFixed
  <1>2. CASE CheckAbsent(c, AskOfCall(c))
    <2>1. turn' = <<c, "checked">> /\ AskOfCall(c) \in {"create", "mkdir"}
      BY <1>2 DEF CheckAbsent
    <2>2. ~IsText(file')
      BY <1>2 DEF CheckAbsent, NothingThere, IsText
    <2> QED
      BY <1>1, <2>1, <2>2 DEF Authors, At, CommandsOnly
  <1>3. CASE OpenFile(c, AskOfCall(c))
    <2>1. /\ turn' = <<c, "opened">>
          /\ AskOfCall(c) \in {"create", "write", "append"}
          /\ AskOfCall(c) = "create" => file' = <<>>
      BY <1>3 DEF OpenFile, MayOpen, Opened
    <2>2. file' = <<>> => CommandsOnly(file)'
      BY DEF CommandsOnly
    <2> QED
      BY <1>1, <2>1, <2>2 DEF Authors, At
  <1>4. CASE StartSearch(c, AskOfCall(c))
    BY <1>4 DEF StartSearch, Authors, At
  <1> QED
    BY <1>2, <1>3, <1>4 DEF GoesOn

(* A process that writes is one of a command. *)
LEMMA LiveCommand ==
    ASSUME CallsInv, NEW c \in Callers, NEW n \in 1..MaxRuns,
           process[c][n] \in Live
    PROVE  AskOfCall(c) = "command" /\ c # Old
  <1>1. process[c][n] # "none"
    BY DEF Live
  <1>2. CASE c \in Slots
    BY <1>1, <1>2, AskedHow, CallsAssumption
    DEF CallsInv, ToolsInv, SlotsOk, SlotOk, SlotStarted
  <1>3. CASE c \in Direct
    BY <1>1, <1>3, AskedHow, CallsAssumption
    DEF CallsInv, ToolsInv, DirectsOk, DirectOk
  <1> QED
    BY <1>2, <1>3, CallsAssumption

LEMMA ProcessAuthors ==
    ASSUME CallsInv, Authors, ProcessStep, UNCHANGED <<vars, baseVars>>
    PROVE  Authors'
  <1>1. UNCHANGED <<requests, given>>
    BY DEF vars, codeVars, baseVars
  <1>2. \A x : AskOfCall(x)' = AskOfCall(x)
    BY <1>1, AskFixed
  <1>3. PICK c \in Callers, n \in 1..MaxRuns :
          ProcessWrites(c, n) \/ ProcessRemoves(c, n) \/ ProcessEnds(c, n)
    BY DEF ProcessStep
  <1>4. CASE ProcessWrites(c, n)
    <2>1. AskOfCall(c) = "command" /\ c # Old
      BY <1>4, LiveCommand DEF ProcessWrites
    <2>2. \A i \in DOMAIN <<c>> : <<c>>[i] = c
      OBVIOUS
    <2>3. CommandsOnly(file)'
      BY <1>2, <1>4, <2>1, <2>2 DEF ProcessWrites, CommandsOnly
    <2> QED
      BY <1>2, <1>4, <2>3 DEF ProcessWrites, Authors, At
  <1>5. CASE ProcessRemoves(c, n)
    <2>1. CommandsOnly(file)'
      BY <1>5 DEF ProcessRemoves, CommandsOnly, IsText
    <2>2. ASSUME NEW x \in Callers, NEW st \in {"checked", "opened"}, At(x, st)'
          PROVE  At(x, st)
      BY <1>5, <2>2 DEF ProcessRemoves, At
    <2> QED
      BY <1>2, <2>1, <2>2 DEF Authors
  <1>6. CASE ProcessEnds(c, n)
    BY <1>2, <1>6 DEF ProcessEnds, Authors, At, CommandsOnly
  <1> QED
    BY <1>3, <1>4, <1>5, <1>6

(* A tool that returns, or a call, leaves nobody at those stages. *)
LEMMA LoopLeft ==
    ASSUME \/ turn' = NoTurn
           \/ \E d, st : turn' = <<d, st>> /\ st \in {"called", "again"}
    PROVE  Authors'
  BY DEF Authors, At, NoTurn

(* Every step keeps the authors of the file known. *)
LEMMA AuthorsStep ==
    CallsInv /\ Authors /\ [CallsNext]_callVars => Authors'
  <1> SUFFICES ASSUME CallsInv, Authors, [CallsNext]_callVars PROVE Authors'
    OBVIOUS
  <1>1. CASE ExecutorAlone
    BY <1>1, LoopLeft DEF ExecutorAlone, LoopFree, toolVars
  <1>2. ASSUME NEW s \in Slots, SlotStep(s) PROVE Authors'
    <2>1. CASE AttemptGoesOn(s)
      <3>1. GoesOn(s, AskOfCall(s)) /\ UNCHANGED <<requests, given>>
        BY <2>1, AskedHow DEF AttemptGoesOn, vars, codeVars, baseVars
      <3> QED
        BY <3>1, AskedHow, GoesOnAuthors
    <2>2. CASE AttemptBegins(s) \/ AttemptAnswered(s) \/ AttemptTimesOut(s)
      <3>1. turn' = NoTurn
        BY <2>2 DEF AttemptBegins, CallTool, AttemptAnswered, ToolReturns,
                    FileToolReturns, CommandReturns, CommandTimesOut,
                    AttemptTimesOut, LoopFree, toolVars
      <3> QED
        BY <3>1, LoopLeft
    <2> QED
      BY <1>2, <2>1, <2>2 DEF SlotStep
  <1>3. ASSUME NEW d \in Direct, DirectStep(d) \/ DirectCancelled(d)
        PROVE  Authors'
    <2>1. CASE DirectGoesOn(d)
      <3>1. GoesOn(d, AskOfCall(d)) /\ UNCHANGED <<requests, given>>
        BY <2>1, AskedHow DEF DirectGoesOn, vars, codeVars, baseVars
      <3> QED
        BY <3>1, AskedHow, GoesOnAuthors
    <2>2. CASE DirectAnswered(d)
      <3>1. turn' \in {NoTurn, <<d, "again">>}
        BY <2>2 DEF DirectAnswered, ToolReturns, FileToolReturns,
                    CommandReturns, CommandTimesOut
      <3> QED
        BY <3>1, LoopLeft
    <2>3. CASE DirectBegins(d) \/ DirectAgain(d) \/ DirectCancelled(d)
      <3>1. turn' \in {NoTurn, <<d, "called">>}
        BY <2>3 DEF DirectBegins, DirectAgain, DirectCancelled, CallTool,
                    LoopFree, toolVars
      <3> QED
        BY <3>1, LoopLeft
    <2> QED
      BY <1>3, <2>1, <2>2, <2>3 DEF DirectStep
  <1>4. CASE ProcessStep /\ UNCHANGED <<vars, baseVars, stalled>>
    BY <1>4, ProcessAuthors
  <1>5. CASE UNCHANGED callVars
    BY <1>5 DEF callVars, toolVars, baseVars, vars, codeVars, Authors, At,
                CommandsOnly, AskOfCall, AskOfSlot, KeyOf, AskOfDirect
  <1> QED
    BY <1>1, <1>2, <1>3, <1>4, <1>5 DEF CallsNext

(* A text with one more author begins with the text as it was. *)
LEMMA AppendPrefix ==
    ASSUME NEW t \in Texts, NEW c \in Callers
    PROVE  IsPrefix(t, Append(t, c))
  BY DEF Texts, IsPrefix

(* What the files' promise says of call c and the step. *)
Accounted(c) ==
    \/ AskOfCall(c) = "write"
    \/ AskOfCall(c) = "append" /\ IsPrefix(file, file')
    \/ /\ AskOfCall(c) \in {"create", "mkdir"}
       /\ \A i \in DOMAIN file : file[i] # Old /\ AskOfCall(file[i]) = "command"

(* A tool of call c that changes a text is accounted for. *)
LEMMA ToolAccounted ==
    ASSUME FileTyped, Authors, NEW c \in Callers, NEW n, NEW ok, NEW next,
           \/ GoesOn(c, AskOfCall(c))
           \/ ToolReturns(c, n, AskOfCall(c), ok, next)
           \/ CommandTimesOut(c, n, AskOfCall(c), next),
           IsText(file), file' # file
    PROVE  /\ Accounted(c)
           /\ turn # NoTurn => turn[1] = c
           /\ turn = NoTurn => turn'[1] = c
  <1> DEFINE ask == AskOfCall(c)
  <1>1. CASE GoesOn(c, ask)
    <2>1. OpenFile(c, ask)
      BY <1>1 DEF GoesOn, CheckAbsent, StartSearch
    <2>2. /\ turn' = <<c, "opened">> /\ file' = Opened(ask)
          /\ \/ ask = "create" /\ At(c, "checked")
             \/ ask \in {"write", "append"} /\ (turn = NoTurn \/ At(c, "called"))
      BY <2>1 DEF OpenFile, MayOpen, Enters, LoopFree
    <2>3. ask # "append"
      BY <2>2 DEF Opened
    <2>4. ask = "create" => CommandsOnly(file)
      BY <2>2 DEF Authors
    <2> QED
      BY <2>2, <2>3, <2>4 DEF Accounted, CommandsOnly, At, NoTurn
  <1>2. CASE ToolReturns(c, n, ask, ok, next)
    <2>1. CASE WriteText(c, ask, ok)
      <3>1. /\ At(c, "opened")
            /\ file' = IF ask = "append" THEN Append(file, c) ELSE <<c>>
        BY <2>1 DEF WriteText
      <3>2. ask \in {"create", "write", "append"}
        BY <3>1 DEF Authors
      <3>3. ask = "create" => CommandsOnly(file)
        BY <3>1 DEF Authors
      <3>4. ask = "append" => IsPrefix(file, file')
        BY <3>1, AppendPrefix DEF FileTyped, IsText
      <3> QED
        BY <3>1, <3>2, <3>3, <3>4 DEF Accounted, CommandsOnly, At, NoTurn
    <2>2. CASE MakeDirectory(c, ask, ok)
      BY <2>2 DEF MakeDirectory, IsText
    <2> QED
      BY <1>2, <2>1, <2>2 DEF ToolReturns, FileToolReturns, CommandReturns,
                              Refused, ReadText, SearchEnds
  <1>3. CASE CommandTimesOut(c, n, ask, next)
    BY <1>3 DEF CommandTimesOut
  <1> QED
    BY <1>1, <1>2, <1>3

(* Who may change the file: a tool at its call, or a process that lives.     *)
LEMMA WhoChanges ==
    ASSUME CallsNext, file' # file
    PROVE  \/ \E c \in Callers : \E n, ok, next :
                /\ \/ GoesOn(c, AskOfCall(c))
                   \/ ToolReturns(c, n, AskOfCall(c), ok, next)
                   \/ CommandTimesOut(c, n, AskOfCall(c), next)
                /\ \/ c \in Slots /\ pc[c] = "invoke"
                   \/ c \in Direct /\ state[c] = "running"
           \/ ProcessStep
  <1>1. ~ExecutorAlone
    BY DEF ExecutorAlone, toolVars
  <1>2. ASSUME NEW s \in Slots, SlotStep(s)
        PROVE  /\ pc[s] = "invoke" /\ s \in Callers
               /\ \E n, ok, next :
                    \/ GoesOn(s, AskOfCall(s))
                    \/ ToolReturns(s, n, AskOfCall(s), ok, next)
                    \/ CommandTimesOut(s, n, AskOfCall(s), next)
    <2>1. AttemptGoesOn(s) \/ AttemptAnswered(s)
      BY <1>2 DEF SlotStep, AttemptBegins, CallTool, AttemptTimesOut, toolVars
    <2> QED
      BY <2>1, AskedHow DEF AttemptGoesOn, AttemptAnswered
  <1>3. ASSUME NEW d \in Direct, DirectStep(d) \/ DirectCancelled(d)
        PROVE  /\ state[d] = "running" /\ d \in Callers
               /\ \E n, ok, next :
                    \/ GoesOn(d, AskOfCall(d))
                    \/ ToolReturns(d, n, AskOfCall(d), ok, next)
                    \/ CommandTimesOut(d, n, AskOfCall(d), next)
    <2>1. DirectGoesOn(d) \/ DirectAnswered(d)
      BY <1>3 DEF DirectStep, DirectBegins, CallTool, DirectAgain,
                  DirectCancelled, toolVars
    <2> QED
      BY <2>1, AskedHow DEF DirectGoesOn, DirectAnswered
  <1> QED
    BY <1>1, <1>2, <1>3 DEF CallsNext

(* Once everything is over, nothing of that is left. *)
LEMMA OverStill ==
    ASSUME CallsInv, Quiet, CallsNext, CallsOver
    PROVE  file' = file
  <1> SUFFICES ASSUME file' # file PROVE FALSE
    OBVIOUS
  <1>1. ~ProcessStep
    BY DEF CallsOver, ProcessStep, ProcessWrites, ProcessRemoves, ProcessEnds
  <1>2. ASSUME NEW s \in Slots, pc[s] = "invoke"
        PROVE  FALSE
    <2>1. phase[s[1]] \in {"idle", "running", "returned", "raised"}
      BY SlotParts DEF CallsInv, BaseInv, TypeOK
    <2>2. phase[s[1]] # "idle"
      BY <1>2 DEF CallsInv, BaseInv, InRange
    <2>3. phase[s[1]] # "running"
      BY SlotParts DEF CallsOver
    <2> QED
      BY <1>2, <2>1, <2>2, <2>3 DEF Quiet, Active
  <1> QED
    BY <1>1, <1>2, WhoChanges DEF CallsOver

(* A process never has the step of a file tool. *)
LEMMA ProcessNoTool ==
    ASSUME ProcessStep, NEW c \in Callers
    PROVE  ~Steps(c)
  BY DEF ProcessStep, ProcessWrites, ProcessRemoves, ProcessEnds, Steps, NoTurn

(* The texts are accounted for: no file tool but write_file destroys what    *)
(* was there, except what a command wrote in between, and when all calls and *)
(* processes are over the file stays as it is.                               *)
THEOREM FilesAccountedKept == CallsSpec => FilesAccounted
  <1> DEFINE FilesInv == CallsInv /\ SerialOrder /\ Quiet /\ Authors
             Kept ==
               /\ \A c \in Callers : Steps(c) /\ IsText(file) /\ file' # file =>
                    \/ AskOfCall(c) = "write"
                    \/ AskOfCall(c) = "append" /\ IsPrefix(file, file')
                    \/ /\ AskOfCall(c) \in {"create", "mkdir"}
                       /\ \A i \in DOMAIN file : /\ file[i] # Old
                                                /\ AskOfCall(file[i]) = "command"
               /\ CallsOver => file' = file
  <1>1. CallsInit => FilesInv
    BY CallsInvInit
    DEF CallsInit, Init, SerialOrder, CallsOf, Quiet, Active, ToolsInit,
        Authors, At, NoTurn
  <1>2. FilesInv /\ [CallsNext]_callVars => FilesInv'
    BY CallsInvStep, AuthorsStep, SerialStep, QuietStep, ExecutorStep,
       ExecutorStutters DEF CallsInv
  <1>3. FilesInv /\ [CallsNext]_callVars => [Kept]_callVars
    <2> SUFFICES ASSUME FilesInv, CallsNext PROVE Kept
      OBVIOUS
    <2>1. ASSUME NEW c \in Callers, Steps(c), IsText(file), file' # file
          PROVE  Accounted(c)
      <3>1. ~ProcessStep
        BY <2>1, ProcessNoTool
      <3>2. PICK x \in Callers :
              \E n, ok, next :
                \/ GoesOn(x, AskOfCall(x))
                \/ ToolReturns(x, n, AskOfCall(x), ok, next)
                \/ CommandTimesOut(x, n, AskOfCall(x), next)
        BY <2>1, <3>1, WhoChanges
      <3>3. /\ Accounted(x)
            /\ turn # NoTurn => turn[1] = x
            /\ turn = NoTurn => turn'[1] = x
        BY <2>1, <3>2, ToolAccounted DEF CallsInv, ToolsInv
      <3>4. x = c
        BY <2>1, <3>3 DEF Steps
      <3> QED
        BY <3>3, <3>4
    <2> QED
      BY <2>1, OverStill DEF Accounted
  <1> QED
    BY <1>1, <1>2, <1>3, PTL DEF CallsSpec, FilesAccounted

=============================================================================
