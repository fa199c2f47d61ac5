------------------------------ MODULE ToolBase ------------------------------
(***************************************************************************)
(* The other way to a tool: ToolRegistry.resolve and BaseTool.execute_     *)
(* with_retry (tools/registry.py, tools/base.py), which check the          *)
(* parameters, run the tool until it succeeds or the retries are used up,  *)
(* and set no timeout.  What the tool does meanwhile is in ToolCalls.      *)
(*                                                                         *)
(* A value is the name of its Python type.                                 *)
(***************************************************************************)
EXTENDS Integers

CONSTANTS
    Direct,    \* calls of resolve
    Limit,     \* max_retries, of the call or of the tool
    Schema,    \* Schema[p]: the JSON type of parameter p
    Required,  \* the required parameters
    Givens     \* the names and keyword arguments callers pass; extra: also one
               \* the schema does not have, which validate lets pass

NotGiven == "absent"
PythonTypes == {"NoneType", "str", "int", "float", "bool", "list", "dict"}

ASSUME BaseAssumption ==
    /\ Limit \in Nat
    /\ Required \subseteq DOMAIN Schema
    /\ \A g \in Givens :
         /\ g.args \in [DOMAIN Schema -> PythonTypes \cup {NotGiven}]
         /\ g.extra \in BOOLEAN

VARIABLES
    given,   \* given[d]: the tool's name and the keyword arguments
    state,   \* state[d]: where it is, or how it ended
    runs     \* runs[d]: executions begun

baseVars == <<given, state, runs>>

BaseInit ==
    /\ given \in [Direct -> Givens]
    /\ state = [d \in Direct |-> "idle"]
    /\ runs = [d \in Direct |-> 0]

(* isinstance, for which True and False are integers; a type that is not in  *)
(* the table is not checked.                                                 *)
Instances(type) ==
    CASE type = "string" -> {"str"}
      [] type = "integer" -> {"int", "bool"}
      [] type = "number" -> {"int", "float", "bool"}
      [] type = "boolean" -> {"bool"}
      [] type = "array" -> {"list"}
      [] type = "object" -> {"dict"}
      [] OTHER -> PythonTypes

Mistyped(args) ==
    { p \in DOMAIN Schema : args[p] \notin Instances(Schema[p]) \cup {NotGiven} }

(* Mutant: only what is given is checked. *)
MistypedOnly(args) == Mistyped(args)

(* validate: the parameters with an error; None counts as given for the type *)
(* and as not given for the requirement.                                     *)
Invalid(args) ==
    Mistyped(args) \cup { p \in Required : args[p] \in {NotGiven, "NoneType"} }

Ends(d, how) == state' = [state EXCEPT ![d] = how] /\ UNCHANGED <<given, runs>>

Runs(d) ==
    /\ state' = [state EXCEPT ![d] = "running"]
    /\ runs' = [runs EXCEPT ![d] = @ + 1]
    /\ UNCHANGED given

(* resolve does not find the tool, its arguments are invalid, or the call of *)
(* execute raises TypeError for the argument it has no parameter for.        *)
NotRun(d, known) ==
    /\ state[d] = "idle"
    /\ IF given[d].tool \notin known THEN Ends(d, "unknown")
       ELSE \/ Invalid(given[d].args) # {} /\ Ends(d, "invalid")
            \/ /\ Invalid(given[d].args) = {} /\ given[d].extra
               /\ Ends(d, "refused")

FirstRun(d, known) ==
    /\ state[d] = "idle"
    /\ given[d].tool \in known
    /\ Invalid(given[d].args) = {}
    /\ ~given[d].extra
    /\ Runs(d)

(* for _ in range(limit), after a first execution *)
MayRunAgain(d) == runs[d] <= Limit

(* A result without success: the tool is run again, at once. *)
RunAgain(d) ==
    /\ state[d] = "running"
    /\ MayRunAgain(d)
    /\ Runs(d)

(* The result is returned: the first success, or the last failure. *)
ReturnResult(d, ok) ==
    /\ state[d] = "running"
    /\ ok \/ ~MayRunAgain(d)
    /\ Ends(d, IF ok THEN "succeeded" ELSE "failed")

(* The caller is cancelled at the tool's await; nothing here catches that. *)
CancelDirect(d) ==
    /\ state[d] = "running"
    /\ Ends(d, "raised")

=============================================================================
