--------------------------- MODULE ContextBuilder ---------------------------
(***************************************************************************)
(* What the LLM is shown of a session: Session.get_context_messages        *)
(* (models/session.py) and ContextBuilder.build (core/context_builder.py), *)
(* called by the chats of one session (Agent.chat) as it grows.  Nothing   *)
(* keeps two chats of a session apart, so their messages interleave at the *)
(* awaits of the LLM and of the tools.                                     *)
(*                                                                         *)
(* A message is its role, the number n of calls it asks for or the         *)
(* position it answers, its size in tokens (_message_tokens), its place in *)
(* the session, which tells messages apart, and, for a tool message, the   *)
(* place of the response whose call it answers (tool_call_id).  The        *)
(* literals 100, 50, 6 and 300 of the code are constants, so that small    *)
(* sessions reach the cases they separate.  How many rounds a chat may     *)
(* take is Agent's matter: here it may end, or go on, after any.           *)
(***************************************************************************)
EXTENDS Integers, Sequences, FiniteSets, SequencesExt

CONSTANTS
    Chats,          \* calls of Agent.chat on the session
    WindowSize,     \* settings.agent.context_window
    PromptTokens,   \* tokens of the system prompt, with overhead
    Overhead,       \* 4: what a message costs besides its text
    MinAvailable,   \* 100: the least token budget
    Enabled,        \* CompressionConfig.enabled
    MinTurns,       \* CompressionConfig.min_turns_to_keep
    MaxSummary,     \* CompressionConfig.max_summary_tokens
    MinSummary,     \* 50: the budget a summary must exceed
    Sizes,          \* token counts of messages
    CallCounts,     \* tool calls one response asks for
    MaxMessages     \* bound: length of the session

ASSUME ContextAssumption ==
    /\ WindowSize \in Nat /\ PromptTokens \in Nat /\ MinAvailable \in Nat
    /\ Overhead \in Nat
    /\ MinTurns \in Nat /\ MaxSummary \in Nat /\ MinSummary \in Nat
    /\ MaxMessages \in Nat
    /\ Enabled \in BOOLEAN
    /\ Sizes \subseteq Nat \ {0}
    /\ CallCounts \subseteq Nat \ {0}

VARIABLES
    messages,   \* Session.messages: no system message is ever added to it
    at,         \* what each chat awaits: "llm", "tools", or it is "idle"
    asked,      \* place of the user message of each chat, 0 when idle
    response,   \* place of the response whose calls a chat awaits, or 0
    context,    \* what the latest call of build returned
    seen,       \* history: the length of the session at that call,
    own,        \* and the place of the user message of the chat that called
    disturbed   \* history: the responses during whose calls another chat
                \* added a message

chatVars == <<at, asked, response>>
buildVars == <<context, seen, own>>
vars == <<messages, chatVars, buildVars, disturbed>>

-----------------------------------------------------------------------------
(* s[-n:] and s[:-n], where -0 is 0. *)
LastSlice(s, n) ==
    IF n = 0 \/ n >= Len(s) THEN s ELSE SubSeq(s, Len(s) - n + 1, Len(s))
FirstSlice(s, n) ==
    IF n = 0 \/ n >= Len(s) THEN <<>> ELSE SubSeq(s, 1, Len(s) - n)

Tokens(ms) == FoldLeft(LAMBDA sum, m : sum + m.size, 0, ms)

Smaller(x, y) == IF x < y THEN x ELSE y
Larger(x, y) == IF x < y THEN y ELSE x

SystemPrompt ==
    [role |-> "system", n |-> 0, size |-> PromptTokens, place |-> 0, of |-> 0]

(* The token budget of the conversation; only the fixed prompt is deducted,  *)
(* not the paragraph about the working directory.                            *)
Available == Larger(WindowSize - PromptTokens, MinAvailable)

(* A turn begins at each user message, and at the first message.             *)
AddToTurns(turns, m) ==
    IF turns = <<>> \/ m.role = "user"
    THEN Append(turns, <<m>>)
    ELSE Append(Front(turns), Append(Last(turns), m))

GroupByUser(ms) == FoldLeft(AddToTurns, <<>>, ms)

(* Mutant: the turn that is open when the loop ends is dropped. *)
ClosedTurns(ms) == Front(GroupByUser(ms))

Turns(ms) == GroupByUser(ms)

(* Mutant: a summary is counted by what it saves. *)
SummarySaving(turns, budget) ==
    [role |-> "summary", n |-> Len(turns),
     size |-> budget - Tokens(FlattenSeq(turns)) - Overhead,
     place |-> 0, of |-> 0]

(* _summarize_turns: a text as long as the turns', cut to the budget, in a   *)
(* message of its own.                                                       *)
Summary(turns, budget) ==
    [role |-> "summary", n |-> Len(turns),
     size |-> Overhead + Smaller(Tokens(FlattenSeq(turns)), budget),
     place |-> 0, of |-> 0]

(* Mutant: the summary may use all of max_summary_tokens. *)
WholeBudget(recent) == MaxSummary

SummaryBudget(recent) == Smaller(MaxSummary, Available - Tokens(recent))

(* Mutant: a cut by messages instead of turns. *)
LastMessages(turns) == LastSlice(FlattenSeq(turns), MinTurns)

RecentMessages(turns) == FlattenSeq(LastSlice(turns, MinTurns))

(* Old turns become one system message, when there is room for it.           *)
Compressed(turns) ==
    LET old == FirstSlice(turns, MinTurns)
        recent == RecentMessages(turns)
        budget == SummaryBudget(recent)
    IN  (IF budget > MinSummary THEN <<Summary(old, budget)>> ELSE <<>>)
          \o recent

(* Session.get_context_messages; a session has no system message of its own. *)
Window(msgs) == LastSlice(msgs, WindowSize)

(* ContextBuilder.build *)
Build(msgs) ==
    LET window == Window(msgs)
        turns == Turns(window)
    IN  <<SystemPrompt>> \o
          (IF ~Enabled \/ Tokens(window) <= Available \/ Len(turns) <= MinTurns
           THEN window
           ELSE Compressed(turns))

-----------------------------------------------------------------------------
Message(role, n, size, place, of) ==
    [role |-> role, n |-> n, size |-> size, place |-> place, of |-> of]

Room(k) == Len(messages) + k <= MaxMessages

Init ==
    /\ messages = <<>>
    /\ at = [c \in Chats |-> "idle"]
    /\ asked = [c \in Chats |-> 0]
    /\ response = [c \in Chats |-> 0]
    /\ context = <<>>
    /\ seen = 0
    /\ own = 0
    /\ disturbed = {}

(* session.add_message, for messages added without an await between them.    *)
Adds(c, new) ==
    /\ Room(Len(new))
    /\ messages' = messages \o new
    /\ disturbed' = disturbed \cup
         { response[d] : d \in { e \in Chats \ {c} : at[e] = "tools" } }

(* A chat goes round its loop: it builds a context and awaits the LLM.       *)
Rounds(c) ==
    /\ at' = [at EXCEPT ![c] = "llm"]
    /\ response' = [response EXCEPT ![c] = 0]
    /\ context' = Build(messages')
    /\ seen' = Len(messages')
    /\ own' = asked'[c]

(* It returns, or raises.                                                    *)
Leaves(c) ==
    /\ at' = [at EXCEPT ![c] = "idle"]
    /\ asked' = [asked EXCEPT ![c] = 0]
    /\ response' = [response EXCEPT ![c] = 0]
    /\ UNCHANGED buildVars

Assistant(n, size, place) == Message("assistant", n, size, place, 0)

(* The tool messages of the response at place r, from place first on.        *)
Results(r, size, first) ==
    [i \in 1..messages[r].n |-> Message("tool", i, size, first + i - 1, r)]

(* A chat begins with its user message.                                      *)
Ask(c, size) ==
    LET place == Len(messages) + 1
    IN  /\ at[c] = "idle"
        /\ Adds(c, <<Message("user", 0, size, place, 0)>>)
        /\ asked' = [asked EXCEPT ![c] = place]
        /\ Rounds(c)

(* The LLM answers without tool calls.                                       *)
Answer(c, size) ==
    /\ at[c] = "llm"
    /\ Adds(c, <<Assistant(0, size, Len(messages) + 1)>>)
    /\ Leaves(c)

(* It asks for n calls, and the chat awaits them.                            *)
AskTools(c, n, size) ==
    LET place == Len(messages) + 1
    IN  /\ at[c] = "llm"
        /\ Adds(c, <<Assistant(n, size, place)>>)
        /\ at' = [at EXCEPT ![c] = "tools"]
        /\ response' = [response EXCEPT ![c] = place]
        /\ UNCHANGED <<asked, buildVars>>

(* The calls are answered, and the chat goes on.                             *)
ToolsDone(c, size) ==
    /\ at[c] = "tools"
    /\ Adds(c, Results(response[c], size, Len(messages) + 1))
    /\ UNCHANGED asked
    /\ Rounds(c)

(* They are answered, and that was the last round: the fallback is added.    *)
Fallback(c, size) ==
    LET results == Results(response[c], size, Len(messages) + 1)
    IN  /\ at[c] = "tools"
        /\ Adds(c, Append(results,
                   Assistant(0, size, Len(messages) + Len(results) + 1)))
        /\ Leaves(c)

(* The LLM raises, or the requests cannot be built from its calls, or the    *)
(* chat is cancelled while it awaits the LLM or the tools.                   *)
GiveUp(c) ==
    /\ at[c] # "idle"
    /\ Leaves(c)
    /\ UNCHANGED <<messages, disturbed>>

Next ==
    \E c \in Chats :
      \/ \E size \in Sizes :
           \/ Ask(c, size) \/ Answer(c, size)
           \/ \E n \in CallCounts : AskTools(c, n, size)
           \/ ToolsDone(c, size) \/ Fallback(c, size)
      \/ GiveUp(c)

Spec == Init /\ [][Next]_vars

-----------------------------------------------------------------------------
(* Type correctness. *)
Entry ==
    [role : {"system", "summary", "user", "assistant", "tool"},
     n : Nat, size : Nat, place : 0..MaxMessages, of : 0..MaxMessages]

TypeOK ==
    /\ messages \in Seq(Entry)
    /\ at \in [Chats -> {"idle", "llm", "tools"}]
    /\ asked \in [Chats -> 0..Len(messages)]
    /\ response \in [Chats -> 0..Len(messages)]
    /\ context \in Seq(Entry)
    /\ seen \in 0..Len(messages)
    /\ own \in 0..seen
    /\ disturbed \subseteq 1..Len(messages)

(* The context without what is not a message of the session: the system      *)
(* prompt, and a summary if there is one.                                    *)
Summarised == Len(context) > 1 /\ context[2].role = "summary"
Shown == SubSeq(context, IF Summarised THEN 3 ELSE 2, Len(context))

Built == context # <<>>

(* The window is counted in messages; a size of 0 means all of them.         *)
InWindow(place) == WindowSize = 0 \/ place > seen - WindowSize

(* The context is the system prompt, at most one summary after it, and an    *)
(* unbroken run of the session's messages that ends with the one that was    *)
(* the newest: neither the window nor the compression skips, repeats or      *)
(* moves a message, whichever chats of the session added them.               *)
ContextIsSuffix ==
    Built =>
      /\ context[1] = SystemPrompt
      /\ Shown # <<>>
      /\ Shown = SubSeq(messages, seen - Len(Shown) + 1, seen)

(* The LLM is shown the user message it is to answer.  Two things alone take *)
(* it away: the window, counted in messages, and, as other chats of the      *)
(* session may have begun since, compression down to the last MinTurns       *)
(* turns, which never shows fewer than these of the window.                  *)
UsersIn(ms, a, b) == Cardinality({ i \in a..b : ms[i].role = "user" })

RequestShown ==
    Built =>
      LET window == Window(SubSeq(messages, 1, seen))
      IN  /\ /\ InWindow(own)
             /\ MinTurns = 0 \/ UsersIn(messages, own + 1, seen) < MinTurns
             => \E i \in DOMAIN Shown : Shown[i] = messages[own]
          /\ UsersIn(Shown, 1, Len(Shown)) >=
               Smaller(MinTurns, UsersIn(window, 1, Len(window)))

(* When a summary is shown, it and the messages after it fit the budget but  *)
(* for the overhead of the summary's own message, which the code does not    *)
(* deduct; and it stands for at least one turn that is not shown.            *)
SummaryFits ==
    Built /\ Summarised =>
      /\ Tokens(Tail(context)) <= Available + Overhead
      /\ context[2].n > 0
      /\ Len(Shown) < seen

=============================================================================
