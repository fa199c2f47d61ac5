---------------------------- MODULE MCToolCalls ----------------------------
(* Small instances of ToolCalls for TLC: a key is named for what it asks.    *)
EXTENDS ToolCalls, TLC

CONSTANTS b1, d1

MCCallers == Slots \cup Direct

MCAskOf == [k \in Keys |-> IF k \in {"long", "short"} THEN "command" ELSE k]

(* Seconds; the defaults of execute_command and of the executor, and less.   *)
MCTimeoutOf == [k \in Keys |-> IF k = "long" THEN 60 ELSE 10]

MCToolOf ==
    [k \in Keys |->
       CASE MCAskOf[k] = "command" -> "execute_command"
         [] k \in {"create", "mkdir"} -> "create_file_folder"
         [] k \in {"write", "append"} -> "write_file"
         [] k = "read" -> "read_file"
         [] k = "search" -> "web_search"]

MCBatches == {<<"long", "create">>, <<"short", "search">>,
              <<"append", "mkdir">>, <<"read", "write">>}

MCDirectAsk ==
    [t \in Tools |-> IF t = "execute_command" THEN "command" ELSE "append"]

MCSchema == "command" :> "string" @@ "timeout" :> "integer"

Given(tool, c, t) ==
    [tool |-> tool, args |-> "command" :> c @@ "timeout" :> t, extra |-> FALSE]

(* A name nobody registered; a command with True for its timeout; with a     *)
(* text for it, without the command, or with None for it; a file tool with   *)
(* and without an argument it has no parameter for.                          *)
MCGivens ==
    { Given("no_such_tool", "str", NotGiven),
      Given("execute_command", "str", "bool"),
      Given("execute_command", "str", "str"),
      Given("execute_command", NotGiven, "int"),
      Given("execute_command", "NoneType", "int"),
      Given("write_file", "str", NotGiven),
      [Given("write_file", "str", NotGiven) EXCEPT !.extra = TRUE] }

=============================================================================
