-------------------------- MODULE AnthropicRequest --------------------------
(***************************************************************************)
(* The request AnthropicLLM.chat makes of a context (llm/anthropic_        *)
(* provider.py), composed with ContextBuilder, which builds the context.   *)
(* The API takes the system prompt apart from the messages, and the tool   *)
(* results of a response in one user message.  A streamed request is       *)
(* converted alike, its tools when the stream is first read.               *)
(***************************************************************************)
EXTENDS ContextBuilder

CONSTANT Tools      \* names of tools in ToolRegistry

NoPrompt == [role |-> "none"]

(* The content of an entry is a string, which is never appended to, or a     *)
(* list of blocks.                                                           *)
Text(m) == [role |-> "user", isText |-> TRUE, blocks |-> <<m>>]
ListOf(role, blocks) == [role |-> role, isText |-> FALSE, blocks |-> blocks]

EmptyRequest == [system |-> NoPrompt, entries |-> <<>>, error |-> "none"]

(* Mutant: every tool result opens a user message of its own. *)
AlwaysOpens(entries) == TRUE

(* not anthropic_messages or anthropic_messages[-1]["role"] != "user" *)
OpensEntry(entries) == entries = <<>> \/ Last(entries).role # "user"

AddBlock(entry, m) == ListOf(entry.role, Append(entry.blocks, m))

(* A tool result is appended to the last user message; that raises when the  *)
(* message is a user's words, as these are a string.                         *)
AddResult(request, m) ==
    IF OpensEntry(request.entries)
    THEN [request EXCEPT !.entries = Append(@, ListOf("user", <<m>>))]
    ELSE IF Last(request.entries).isText
    THEN [request EXCEPT !.error = "AttributeError"]
    ELSE [request EXCEPT !.entries =
            Append(Front(@), AddBlock(Last(@), m))]

(* The system prompt is the latest system message. *)
AddMessage(request, m) ==
    CASE request.error # "none" -> request
      [] request.error = "none" /\ m.role \in {"system", "summary"} ->
           [request EXCEPT !.system = m]
      [] request.error = "none" /\ m.role = "tool" -> AddResult(request, m)
      [] request.error = "none" /\ m.role = "assistant" ->
           [request EXCEPT !.entries = Append(@, ListOf("assistant", <<m>>))]
      [] request.error = "none" /\ m.role = "user" ->
           [request EXCEPT !.entries = Append(@, Text(m))]

(* Mutant: the last message is left out. *)
AllButLast(ms) == FoldLeft(AddMessage, EmptyRequest, Front(ms))

Converted(ms) == FoldLeft(AddMessage, EmptyRequest, ms)

(* ToolRegistry.to_function_definitions nests what it tells of a tool. *)
FunctionDefinition(tool) ==
    [type |-> "function", function |-> [name |-> tool]]

(* tool["name"] in _format_tools raises KeyError. *)
FormatRaises(tool) == "name" \notin DOMAIN FunctionDefinition(tool)

(* AnthropicLLM.chat, up to the call of the API. *)
Request(ms, offered) ==
    LET request == Converted(ms)
    IN  IF request.error = "none" /\ \E tool \in offered : FormatRaises(tool)
        THEN [request EXCEPT !.error = "KeyError"] ELSE request

-----------------------------------------------------------------------------
(* Making the request of a context fails in two cases.  With tools on offer  *)
(* it always does: KeyError.  Before that, AttributeError comes of a tool    *)
(* result right after a user message, which takes a second chat of the       *)
(* session: the response that asked for it was disturbed.  In all other      *)
(* cases the blocks are the messages shown, all of them and in their order.  *)
RequestComplete ==
    Built =>
      \A offered \in SUBSET Tools :
        LET request == Request(context, offered)
        IN  \/ /\ request.error = "AttributeError"
               /\ \E i \in 2..Len(Shown) :
                    /\ Shown[i].role = "tool" /\ Shown[i-1].role = "user"
                    /\ Shown[i].of \in disturbed
            \/ /\ request.error = IF offered = {} THEN "none" ELSE "KeyError"
               /\ FlattenSeq([i \in DOMAIN request.entries |->
                                request.entries[i].blocks]) = Shown

(* Every result m in a request stands in one user message with all results   *)
(* of its response, in the order of the calls, the message before this being *)
(* the response.  Two things alone part them: the window, which takes what   *)
(* is in front of it (a response without its results, or with some), and a   *)
(* second chat of the session, which comes between a response and its        *)
(* results, but never between the results.                                   *)
ResultsTogether ==
    Built =>
      LET request == Converted(context)
          entries == request.entries
          Block(i, k) == entries[i].blocks[k]
      IN  request.error = "none" =>
            \A i \in DOMAIN entries : \A k \in DOMAIN entries[i].blocks :
              LET m == Block(i, k)
              IN  m.role = "tool" =>
                /\ \A j \in 1..messages[m.of].n :
                     InWindow(m.place - m.n + j) =>
                       /\ k - m.n + j \in DOMAIN entries[i].blocks
                       /\ Block(i, k - m.n + j).of = m.of
                       /\ Block(i, k - m.n + j).n = j
                /\ InWindow(m.of) /\ m.of \notin disturbed =>
                     /\ k = m.n /\ i > 1
                     /\ entries[i-1] = ListOf("assistant", <<messages[m.of]>>)

-----------------------------------------------------------------------------
(* What the documentation says, and the code does not do.                    *)

(* AGT-11: the system prompt is sent to the LLM.                             *)
SystemPromptSent == Built => Converted(context).system = SystemPrompt

=============================================================================
