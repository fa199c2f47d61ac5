-------------------------------- MODULE Agent --------------------------------
(***************************************************************************)
(* Agent.chat (core/agent.py) over the in-memory session store             *)
(* (core/session_manager.py, models/session.py).                           *)
(*                                                                         *)
(* A chat is one call of Agent.chat.  Chats run as coroutines of one event *)
(* loop, so the code between two awaits (the LLM call, the batch of tool   *)
(* calls) is one step; several chats may hold the same session, and a      *)
(* session may be deleted or expire while a chat holds it.                 *)
(*                                                                         *)
(* A message is its role, the chat that added it, a number (the calls an   *)
(* assistant message asks for, the position a tool message answers) and    *)
(* what kind of content it has; wording and ids are left out.              *)
(***************************************************************************)
EXTENDS Integers, Sequences, FiniteSets

CONSTANTS
    Chats,      \* calls of Agent.chat
    Sessions,   \* session ids (uuid4), bounding the number of sessions
    NoSession,  \* a request without a session_id
    MaxDepth,   \* settings.agent.max_chain_depth
    MaxCalls,   \* settings.agent.max_tool_calls_per_turn
    CallCounts  \* how many tool calls one LLM response may ask for

ASSUME AgentAssumption ==
    /\ NoSession \notin Sessions
    /\ MaxDepth \in Nat
    /\ MaxCalls \in Nat
    /\ CallCounts \subseteq Nat \ {0}

Roles == {"user", "assistant", "tool"}

Contents ==
    {"text",        \* a user's message or the LLM's words
     "fallback",    \* the notice that the depth limit was reached
     "result",      \* ExecutionResult.content, empty if the tool failed
     "unavailable"} \* the placeholder of a call without a result

Messages ==
    [role : Roles, chat : Chats, n : Nat, content : Contents]

VARIABLES
    store,      \* ids in MemorySessionAdapter._sessions
    created,    \* ids of all sessions ever created
    messages,   \* messages[s]: Session.messages
    stale,      \* sessions whose updated_at is older than the TTL
    chainDepth, \* chainDepth[s]: SessionState.chain_depth
    pc,         \* pc[c]: where the chat is
    held,       \* held[c]: the session object the chat works on
    depth,      \* depth[c]: iterations of the main loop begun
    calls       \* calls[c]: tool calls in the response being handled

vars == <<store, created, messages, stale, chainDepth, pc, held, depth, calls>>
sessionVars == <<store, created, messages, stale, chainDepth>>
chatVars == <<pc, held, depth, calls>>

Running == {"llm", "tools"}
Ended == {"answered", "raised"}

-----------------------------------------------------------------------------
Init ==
    /\ store = {}
    /\ created = {}
    /\ messages = [s \in Sessions |-> <<>>]
    /\ stale = {}
    /\ chainDepth = [s \in Sessions |-> 0]
    /\ pc = [c \in Chats |-> "idle"]
    /\ held = [c \in Chats |-> NoSession]
    /\ depth = [c \in Chats |-> 0]
    /\ calls = [c \in Chats |-> 0]

UserMessage(c) ==
    [role |-> "user", chat |-> c, n |-> 0, content |-> "text"]

AssistantMessage(c, n, content) ==
    [role |-> "assistant", chat |-> c, n |-> n, content |-> content]

ToolMessage(c, i, content) ==
    [role |-> "tool", chat |-> c, n |-> i, content |-> content]

(* Session.add_message: append, and touch updated_at.  The store is not      *)
(* written: the object appended to need not be in it any more.               *)
AddMessages(s, msgs) ==
    /\ messages' = [messages EXCEPT ![s] = @ \o msgs]
    /\ stale' = stale \ {s}

(* Mutant: the limit is checked one late. *)
MayGoOnTwice(c) == depth[c] <= MaxDepth

(* for depth in range(max_chain_depth) *)
MayGoOn(c) == depth[c] < MaxDepth

(* The main loop goes on to its next LLM call, or past its limit to the      *)
(* fallback answer; msgs is what the code before it adds to the session.     *)
NextIteration(c, s, msgs) ==
    IF MayGoOn(c)
    THEN /\ depth' = [depth EXCEPT ![c] = @ + 1]
         /\ chainDepth' = [chainDepth EXCEPT ![s] = @ + 1]
         /\ pc' = [pc EXCEPT ![c] = "llm"]
         /\ AddMessages(s, msgs)
    ELSE /\ pc' = [pc EXCEPT ![c] = "answered"]
         /\ AddMessages(s, Append(msgs, AssistantMessage(c, 0, "fallback")))
         /\ UNCHANGED <<depth, chainDepth>>

(* A request that names a stored session continues it. *)
ContinueSession(c, s) ==
    /\ pc[c] = "idle"
    /\ s \in store
    /\ held' = [held EXCEPT ![c] = s]
    /\ NextIteration(c, s, <<UserMessage(c)>>)
    /\ UNCHANGED <<store, created, calls>>

(* Mutant: a new session takes the id the request asked for. *)
FreshOrRequested(s, requested) == s \notin created \/ s = requested

(* A new session has a uuid of its own. *)
FreshId(s, requested) == s \notin created

(* One without a session_id, or with an id that is not (or no longer) in the *)
(* store, gets a new session.                                                *)
OpenSession(c, requested, s) ==
    /\ pc[c] = "idle"
    /\ requested \notin store
    /\ FreshId(s, requested)
    /\ store' = store \cup {s}
    /\ created' = created \cup {s}
    /\ held' = [held EXCEPT ![c] = s]
    /\ NextIteration(c, s, <<UserMessage(c)>>)
    /\ UNCHANGED calls

(* The LLM answers without tool calls: the chat ends with its words. *)
LLMAnswers(c) ==
    /\ pc[c] = "llm"
    /\ AddMessages(held[c], <<AssistantMessage(c, 0, "text")>>)
    /\ pc' = [pc EXCEPT ![c] = "answered"]
    /\ UNCHANGED <<store, created, chainDepth, held, depth, calls>>

(* It asks for n tool calls: they are recorded and the batch is started. *)
LLMCallsTools(c, n) ==
    /\ pc[c] = "llm"
    /\ AddMessages(held[c], <<AssistantMessage(c, n, "text")>>)
    /\ calls' = [calls EXCEPT ![c] = n]
    /\ pc' = [pc EXCEPT ![c] = "tools"]
    /\ UNCHANGED <<store, created, chainDepth, held, depth>>

(* A call without a name, or whose arguments are no text: the message is     *)
(* recorded, and building the requests raises.                               *)
LLMCallsMalformed(c, n) ==
    /\ pc[c] = "llm"
    /\ AddMessages(held[c], <<AssistantMessage(c, n, "text")>>)
    /\ calls' = [calls EXCEPT ![c] = n]
    /\ pc' = [pc EXCEPT ![c] = "raised"]
    /\ UNCHANGED <<store, created, chainDepth, held, depth>>

(* llm.chat raises: nothing in chat handles it. *)
LLMRaises(c) ==
    /\ pc[c] = "llm"
    /\ pc' = [pc EXCEPT ![c] = "raised"]
    /\ UNCHANGED <<sessionVars, held, depth, calls>>

(* _build_tool_requests cuts the list; execute_batch answers what is left.   *)
Executed(n) == IF n < MaxCalls THEN n ELSE MaxCalls

(* Mutant: one tool message per executed call. *)
ExecutedMessages(c, n, outcome) ==
    [i \in 1..Executed(n) |-> ToolMessage(c, i, outcome[i])]

(* One tool message per call of the response, in the order of the calls.     *)
ToolMessages(c, n, outcome) ==
    [i \in 1..n |-> ToolMessage(c, i,
        IF i <= Executed(n) THEN outcome[i] ELSE "unavailable")]

(* Mutant: the batch is waited for until it has a result for every call.     *)
EveryCallAnswered(c, outcome) == DOMAIN outcome = 1..calls[c]

(* The results are those of the calls that were executed. *)
ExecutedAnswered(c, outcome) == DOMAIN outcome = 1..Executed(calls[c])

(* The batch returns: outcome[i] is the content of its i-th result. *)
ToolsReturn(c, outcome) ==
    /\ pc[c] = "tools"
    /\ ExecutedAnswered(c, outcome)
    /\ NextIteration(c, held[c], ToolMessages(c, calls[c], outcome))
    /\ UNCHANGED <<store, created, held, calls>>

(* The task that runs the chat is cancelled at one of its awaits, which      *)
(* raises CancelledError there.                                              *)
CancelChat(c) ==
    /\ pc[c] \in Running
    /\ pc' = [pc EXCEPT ![c] = "raised"]
    /\ UNCHANGED <<sessionVars, held, depth, calls>>

(* SessionManager.create, called by the REPL (/new and at startup). *)
CreateSession(s) ==
    /\ s \notin created
    /\ store' = store \cup {s}
    /\ created' = created \cup {s}
    /\ UNCHANGED <<messages, stale, chainDepth, chatVars>>

(* SessionManager.delete, called by DELETE /api/sessions/{session_id}. *)
DeleteSession(s) ==
    /\ s \in store
    /\ store' = store \ {s}
    /\ UNCHANGED <<created, messages, stale, chainDepth, chatVars>>

(* A stored session's updated_at falls behind the TTL. *)
GrowStale(s) ==
    /\ s \in store
    /\ stale' = stale \cup {s}
    /\ UNCHANGED <<store, created, messages, chainDepth, chatVars>>

(* SessionManager.cleanup_expired. *)
CleanupExpired ==
    /\ store' = store \ stale
    /\ UNCHANGED <<created, messages, stale, chainDepth, chatVars>>

Outcomes == UNION { [1..k -> {"result"}] : k \in 0..MaxCalls }

ChatStep(c) ==
    \/ LLMAnswers(c)
    \/ \E n \in CallCounts : LLMCallsTools(c, n) \/ LLMCallsMalformed(c, n)
    \/ LLMRaises(c)
    \/ \E outcome \in Outcomes : ToolsReturn(c, outcome)

Next ==
    \/ \E c \in Chats, s \in Sessions : ContinueSession(c, s)
    \/ \E c \in Chats, r \in Sessions \cup {NoSession}, s \in Sessions :
          OpenSession(c, r, s)
    \/ \E c \in Chats : ChatStep(c) \/ CancelChat(c)
    \/ \E s \in Sessions : CreateSession(s) \/ DeleteSession(s) \/ GrowStale(s)
    \/ CleanupExpired

Spec == Init /\ [][Next]_vars

(* The LLM client and the tool executor end every call they are given. *)
FairSpec == Spec /\ \A c \in Chats : WF_vars(ChatStep(c))

-----------------------------------------------------------------------------
(* Type correctness. *)
TypeOK ==
    /\ store \subseteq created
    /\ created \subseteq Sessions
    /\ messages \in [Sessions -> Seq(Messages)]
    /\ stale \subseteq Sessions
    /\ chainDepth \in [Sessions -> Nat]
    /\ pc \in [Chats -> {"idle"} \cup Running \cup Ended]
    /\ held \in [Chats -> Sessions \cup {NoSession}]
    /\ depth \in [Chats -> 0..MaxDepth]
    /\ calls \in [Chats -> CallCounts \cup {0}]

(* Where in the messages m of a session those that chat c added are.         *)
Own(m, c) == { i \in DOMAIN m : m[i].chat = c }

IsFirst(own, i) == \A j \in own : i <= j
IsLast(own, i) == \A j \in own : j <= i

AsksForTools(msg) == msg.role = "assistant" /\ msg.n > 0
IsAnswer(msg) == msg.role = "assistant" /\ msg.n = 0

(* Of a chat's messages, where own is: the tool messages between message r   *)
(* and the next one that is no tool message.                                 *)
Round(m, own, r) ==
    { i \in own :
        r < i /\ \A j \in own : r < j /\ j <= i => m[j].role = "tool" }

(* They are one for each of the calls that r asks for (a user's message and  *)
(* an answer ask for none), in the order of the calls.                       *)
Paired(m, own, r) ==
    LET round == Round(m, own, r)
    IN  /\ { m[i].n : i \in round } = 1..m[r].n
        /\ \A i, j \in round : i < j => m[i].n < m[j].n

(* AGT-10, for the messages of one chat, whatever other chats of the session *)
(* do in between: its user message, complete groups of a response and its    *)
(* tool results (but the last, where the chat waits for them or stopped),    *)
(* and one answer, last, exactly when the chat was answered; all of it in    *)
(* one session.                                                              *)
ChatTranscript ==
    \A c \in Chats : pc[c] # "idle" =>
      LET m == messages[held[c]]
          own == Own(m, c)
      IN  /\ own # {}
          /\ \A i \in own : m[i].role = "user" <=> IsFirst(own, i)
          /\ \A r \in own : m[r].role # "tool" =>
               \/ Paired(m, own, r)
               \/ IsLast(own, r) /\ pc[c] \in {"tools", "raised"}
          /\ \A i \in own : IsAnswer(m[i]) => IsLast(own, i)
          /\ (\E i \in own : IsAnswer(m[i])) <=> pc[c] = "answered"
          /\ \A s \in Sessions \ {held[c]} : Own(messages[s], c) = {}

(* The rounds of tool calls that the chat went through. *)
Rounds(m, c) == Cardinality({ i \in Own(m, c) : AsksForTools(m[i]) })

(* The iterations that the chats of session s have begun: iteration k of     *)
(* chat c is <<c, k>>.                                                       *)
Iterations(s) ==
    { p \in Chats \X (1..MaxDepth) : held[p[1]] = s /\ p[2] <= depth[p[1]] }

(* The LLM is asked at most MaxDepth times per chat; the fallback is given   *)
(* only after MaxDepth rounds of tools; and a session's chain_depth counts   *)
(* the iterations of all its chats, finished ones included: it is never      *)
(* reset.                                                                    *)
DepthAccounted ==
    /\ \A c \in Chats : pc[c] # "idle" =>
         LET m == messages[held[c]]
         IN  /\ depth[c] <= MaxDepth
             /\ Rounds(m, c) \in {depth[c] - 1, depth[c]}
             /\ (\E i \in Own(m, c) : m[i].content = "fallback") =>
                  Rounds(m, c) = MaxDepth
    /\ \A s \in Sessions : chainDepth[s] = Cardinality(Iterations(s))

(* A session that was deleted or has expired stays out of the store, even    *)
(* when a chat goes on adding messages to it or a request names it again.    *)
NoResurrection == [][ (created \ store) \cap store' = {} ]_vars

(* A chat that was started is answered or raises. *)
ChatEnds == \A c \in Chats : pc[c] \in Running ~> pc[c] \in Ended

-----------------------------------------------------------------------------
(* What the documentation says, and the code does not do.                    *)

(* AGT-10 for the session: after a chat was answered, each of its responses  *)
(* is directly followed by its tool results in the session's messages.       *)
SessionOrder ==
    \A c \in Chats : pc[c] = "answered" =>
      LET m == messages[held[c]]
      IN  \A i \in DOMAIN m : m[i].chat = c /\ AsksForTools(m[i]) =>
            \A j \in 1..m[i].n : m[i+j].chat = c /\ m[i+j].role = "tool"

=============================================================================
