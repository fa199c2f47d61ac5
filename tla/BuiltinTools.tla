---------------------------- MODULE BuiltinTools ----------------------------
(***************************************************************************)
(* The bodies of the tools in tools/builtins/: what one execute() does to  *)
(* the file system and to the processes of the machine.                    *)
(*                                                                         *)
(* The file tools and the search have no await: they keep the event loop   *)
(* for themselves (turn) until they return.  A command is awaited, and is  *)
(* a process of its own: it changes files at any time, in between two      *)
(* system calls of a file tool too.                                        *)
(*                                                                         *)
(* One path is modelled, which every call names.  A text is the sequence   *)
(* of its authors.  Who calls execute(), and what becomes of its answer,   *)
(* is in ToolCalls; c is the call, n counts its executions, and ask says   *)
(* which tool it is, with which kind of arguments.                         *)
(***************************************************************************)
EXTENDS Integers, SequencesExt

CONSTANTS
    Callers,   \* the calls
    MaxRuns,   \* bound: executions of one call
    Absent,    \* nothing is at the path,
    Directory, \*   or a directory,
    Old        \*   or a file, with a text that no call wrote

ASSUME ToolsAssumption == MaxRuns \in Nat

Asks == {"command", "create", "mkdir", "write", "append", "read", "search"}

Texts == Seq(Callers \cup {Old})

(* What became of the process of an execution: "loose" is one whose shell    *)
(* was killed while what it had started runs on.                             *)
ProcessStates == {"none", "running", "succeeded", "failed", "killed", "loose"}
Live == {"running", "loose"}

VARIABLES
    file,     \* what is at the path
    process,  \* process[c][n]: the process of execution n of call c
    turn      \* the call whose tool keeps the event loop, and where it is

toolVars == <<file, process, turn>>

NoTurn == <<>>
IsText(f) == f \notin {Absent, Directory}

ToolsInit ==
    /\ file \in {Absent, Directory, <<Old>>}
    /\ process = [c \in Callers |-> [n \in 1..MaxRuns |-> "none"]]
    /\ turn = NoTurn

-----------------------------------------------------------------------------
(* Mutant: the file tools await between their system calls. *)
AlwaysFree == TRUE

(* The event loop is free to run another task. *)
LoopFree == turn = NoTurn

At(c, stage) == turn = <<c, stage>>

(* The tool gets the event loop, or was called by who had it. *)
Enters(c) == LoopFree \/ At(c, "called")

(* execute() is called.  A command is started, unless its directory is not   *)
(* there or the system refuses; by is where that leaves the event loop.      *)
CallTool(c, n, ask, by) ==
    /\ \/ ask = "command" /\ process' = [process EXCEPT ![c][n] = "running"]
       \/ UNCHANGED process
    /\ turn' = IF ask = "command" THEN NoTurn ELSE by
    /\ UNCHANGED file

(* Mutant: the path is not looked at first. *)
NotLookedAt == TRUE

(* if target.exists() *)
NothingThere == file = Absent

(* create_file_folder finds nothing at the path, and goes on. *)
CheckAbsent(c, ask) ==
    /\ ask \in {"create", "mkdir"}
    /\ Enters(c)
    /\ NothingThere
    /\ turn' = <<c, "checked">>
    /\ UNCHANGED <<file, process>>

MayOpen(c, ask) ==
    \/ ask = "create" /\ At(c, "checked")
    \/ ask \in {"write", "append"} /\ Enters(c)

(* Mutant: "w" whatever append says. *)
Truncated(ask) == <<>>

(* mode = "a" if append else "w" *)
Opened(ask) == IF ask = "append" /\ IsText(file) THEN file ELSE <<>>

OpenFile(c, ask) ==
    /\ MayOpen(c, ask)
    /\ file # Directory
    /\ file' = Opened(ask)
    /\ turn' = <<c, "opened">>
    /\ UNCHANGED process

(* DDGS().text is no coroutine: the loop waits for the network with it. *)
StartSearch(c, ask) ==
    /\ ask = "search"
    /\ Enters(c)
    /\ turn' = <<c, "waiting">>
    /\ UNCHANGED <<file, process>>

GoesOn(c, ask) ==
    CheckAbsent(c, ask) \/ OpenFile(c, ask) \/ StartSearch(c, ask)

-----------------------------------------------------------------------------
(* execute() returns: ok is ToolResult.success, next is who goes on then.    *)

MakeDirectory(c, ask, ok) ==
    /\ ask = "mkdir" /\ At(c, "checked")
    /\ ok => file \in {Absent, Directory}
    /\ file' = IF ok THEN Directory ELSE file

(* The text is written at the start of a file opened with "w".  It goes      *)
(* nowhere when the file was removed since, and is lost with the old one     *)
(* when it cannot be encoded.                                                *)
WriteText(c, ask, ok) ==
    \/ /\ At(c, "opened")
       /\ file' = IF ~ok THEN file
                  ELSE IF ask = "append" THEN Append(file, c) ELSE <<c>>
    \/ /\ At(c, "unlinked")
       /\ ok => file # Absent
       /\ file' = file

(* The path is taken, or the system refuses (permissions, parents). *)
Refused(c, ask) ==
    /\ \/ ask \in {"create", "mkdir"} /\ Enters(c) /\ file # Absent
       \/ MayOpen(c, ask)
    /\ UNCHANGED file

ReadText(c, ask, ok) ==
    /\ ask = "read" /\ Enters(c)
    /\ ok => IsText(file)
    /\ UNCHANGED file

SearchEnds(c) == At(c, "waiting") /\ UNCHANGED file

FileToolReturns(c, ask, ok, next) ==
    /\ \/ MakeDirectory(c, ask, ok)
       \/ WriteText(c, ask, ok)
       \/ Refused(c, ask) /\ ~ok
       \/ ReadText(c, ask, ok)
       \/ SearchEnds(c)
    /\ turn' = next
    /\ UNCHANGED process

HasEnded == {"succeeded", "failed"}

(* Mutant: the exit status is not looked at. *)
ExitedAnyhow == HasEnded

(* success=proc.returncode == 0 *)
ExitedZero == {"succeeded"}

(* communicate() returns, or the command could not be started. *)
CommandReturns(c, n, ask, ok, next) ==
    /\ ask = "command" /\ LoopFree
    /\ \/ ok /\ process[c][n] \in ExitedZero
       \/ ~ok /\ process[c][n] \in HasEnded \ ExitedZero
       \/ ~ok /\ process[c][n] = "none"
    /\ turn' = next
    /\ UNCHANGED <<file, process>>

(* Mutant: the process is left alone. *)
LeftRunning(state) == {state}

(* proc.kill() ends the shell, not what it started; it raises, inside the    *)
(* try, when the process has just ended.                                     *)
Killed(state) == IF state = "running" THEN {"killed", "loose"} ELSE {state}

(* The timeout of execute_command itself. *)
CommandTimesOut(c, n, ask, next) ==
    /\ ask = "command" /\ LoopFree
    /\ process[c][n] # "none"
    /\ \E state \in Killed(process[c][n]) :
          process' = [process EXCEPT ![c][n] = state]
    /\ turn' = next
    /\ UNCHANGED file

(* Any of the ways execute() returns. *)
ToolReturns(c, n, ask, ok, next) ==
    FileToolReturns(c, ask, ok, next) \/ CommandReturns(c, n, ask, ok, next)

-----------------------------------------------------------------------------
(* What processes do by themselves.                                          *)

ProcessWrites(c, n) ==
    /\ process[c][n] \in Live
    /\ file # Directory
    /\ file' = <<c>>
    /\ UNCHANGED <<process, turn>>

ProcessRemoves(c, n) ==
    /\ process[c][n] \in Live
    /\ file' = Absent
    /\ turn' = IF turn # NoTurn /\ turn[2] = "opened"
               THEN <<turn[1], "unlinked">> ELSE turn
    /\ UNCHANGED process

ProcessEnds(c, n) ==
    /\ process[c][n] \in Live
    /\ \E state \in IF process[c][n] = "running" THEN {"succeeded", "failed"}
                    ELSE {"killed"} :
          process' = [process EXCEPT ![c][n] = state]
    /\ UNCHANGED <<file, turn>>

ProcessStep ==
    \E c \in Callers, n \in 1..MaxRuns :
      ProcessWrites(c, n) \/ ProcessRemoves(c, n) \/ ProcessEnds(c, n)

=============================================================================
