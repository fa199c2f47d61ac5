----------------------------- MODULE LLMStream -----------------------------
(***************************************************************************)
(* Streamed answers of the two LLM providers: _stream_chat of              *)
(* llm/openai_provider.py and llm/anthropic_provider.py, which put the     *)
(* tool calls together from fragments, next to _parse_response, which      *)
(* reads them from a complete answer.                                      *)
(*                                                                         *)
(* The service is external.  It has decided on an answer and streams it:   *)
(* Anthropic one content block after the other, OpenAI-compatible services *)
(* with fragments of several calls in between each other, tagged with the  *)
(* index of the call, and with the call's id once or every time.           *)
(* The arguments of a call are the sequence of their fragments.            *)
(***************************************************************************)
EXTENDS Integers, Sequences, SequencesExt

CONSTANTS
    Ids,        \* ids of tool calls
    Names,      \* tool names
    Fragments,  \* pieces of an argument text
    MaxCalls,   \* bound: tool calls of an answer
    MaxPieces,  \* bound: fragments of the arguments of a call
    MaxText     \* bound: chunks before the last piece of text

ASSUME StreamAssumption ==
    /\ MaxCalls \in Nat
    /\ MaxPieces \in Nat
    /\ MaxText \in Nat

Calls == [id : Ids, name : Names, arguments : SeqOf(Fragments, MaxPieces)]

(* Ids are unique within an answer. *)
Answers ==
    { a \in SeqOf(Calls, MaxCalls) :
        \A i, j \in DOMAIN a : a[i].id = a[j].id => i = j }

VARIABLES
    provider,   \* which provider's code reads the stream
    answer,     \* the tool calls of the service's answer
    sent,       \* sent[i]: fragments of call i streamed, -1 before the first
    reading,    \* "open", or how the stream ended: "done" or "broken"
    calls,      \* accumulated_tool_calls, in insertion order
    chunks      \* the StreamChunks that were yielded

vars == <<provider, answer, sent, reading, calls, chunks>>

-----------------------------------------------------------------------------
Init ==
    /\ provider \in {"openai", "anthropic"}
    /\ answer \in Answers
    /\ sent = [i \in DOMAIN answer |-> -1]
    /\ reading = "open"
    /\ calls = <<>>
    /\ chunks = <<>>

TextChunk == [kind |-> "text"]
CallChunk(call) ==
    [kind |-> "call", id |-> call.id, name |-> call.name,
     arguments |-> call.arguments]
DoneChunk == [kind |-> "done"]

(* Mutant: the name is not stored. *)
NamelessCall(key, id, name) ==
    [key |-> key, id |-> id, name |-> "", arguments |-> <<>>]

(* An accumulated call is stored under its key: the index of the call, or    *)
(* its id.                                                                   *)
NewCall(key, id, name) ==
    [key |-> key, id |-> id, name |-> name, arguments |-> <<>>]

(* Mutant: a fragment replaces the ones before it. *)
Overwrite(k, fragment) ==
    [calls EXCEPT ![k].arguments = <<fragment>>]

(* call["function"]["arguments"] += ... *)
Extend(k, fragment) ==
    [calls EXCEPT ![k].arguments = Append(@, fragment)]

Position(index) == CHOOSE k \in DOMAIN calls : calls[k].key = index

Started(i) == sent[i] >= 0
Complete(i) == sent[i] = Len(answer[i].arguments)
NextFragment(i) == answer[i].arguments[sent[i] + 1]
InOrder(i) == \A j \in 1..i-1 : Started(j)

(* The first piece of a call has its id and name, and its arguments' first   *)
(* fragment or none.                                                         *)
OpenAIStart(i, n) ==
    /\ provider = "openai"
    /\ reading = "open"
    /\ ~Started(i) /\ InOrder(i)
    /\ n \in {0, 1} /\ n <= Len(answer[i].arguments)
    /\ sent' = [sent EXCEPT ![i] = n]
    /\ calls' = Append(calls,
         [NewCall(i, answer[i].id, answer[i].name) EXCEPT
            !.arguments = SubSeq(answer[i].arguments, 1, n)])
    /\ chunks' = Append(chunks, TextChunk)
    /\ UNCHANGED <<provider, answer, reading>>

(* A later piece: empty ids and names leave what is stored.                  *)
OpenAIFragment(i) ==
    /\ provider = "openai"
    /\ reading = "open"
    /\ Started(i) /\ ~Complete(i)
    /\ sent' = [sent EXCEPT ![i] = @ + 1]
    /\ calls' = Extend(Position(i), NextFragment(i))
    /\ chunks' = Append(chunks, TextChunk)
    /\ UNCHANGED <<provider, answer, reading>>

AllBefore(i) == \A j \in 1..i-1 : Started(j) /\ Complete(j)

(* content_block_start of a tool_use block.                                  *)
AnthropicStart(i) ==
    /\ provider = "anthropic"
    /\ reading = "open"
    /\ ~Started(i) /\ AllBefore(i)
    /\ sent' = [sent EXCEPT ![i] = 0]
    /\ calls' = Append(calls,
                       NewCall(answer[i].id, answer[i].id, answer[i].name))
    /\ UNCHANGED <<provider, answer, reading, chunks>>

(* The call started last: reversed(list(accumulated_tool_calls.keys()))      *)
Newest == Len(calls)

(* input_json_delta: it names no call. *)
AnthropicFragment(i) ==
    /\ provider = "anthropic"
    /\ reading = "open"
    /\ Started(i) /\ ~Complete(i)
    /\ sent' = [sent EXCEPT ![i] = @ + 1]
    /\ calls' = Extend(Newest, NextFragment(i))
    /\ UNCHANGED <<provider, answer, reading, chunks>>

(* A piece of the answer's text, before, after or between the calls.         *)
TextPiece ==
    /\ reading = "open"
    /\ Len(chunks) < MaxText
    /\ chunks' = Append(chunks, TextChunk)
    /\ UNCHANGED <<provider, answer, sent, reading, calls>>

Ending == Append([k \in DOMAIN calls |-> CallChunk(calls[k])], DoneChunk)

(* The stream ends: the calls are yielded, then the end.                     *)
Finish ==
    /\ reading = "open"
    /\ \A i \in DOMAIN answer : Started(i) /\ Complete(i)
    /\ reading' = "done"
    /\ chunks' = chunks \o Ending
    /\ UNCHANGED <<provider, answer, sent, calls>>

(* The connection breaks: the exception passes through the generator.        *)
Break ==
    /\ reading = "open"
    /\ reading' = "broken"
    /\ UNCHANGED <<provider, answer, sent, calls, chunks>>

Next ==
    \/ \E i \in DOMAIN answer :
         \/ \E n \in {0, 1} : OpenAIStart(i, n)
         \/ OpenAIFragment(i)
         \/ AnthropicStart(i)
         \/ AnthropicFragment(i)
    \/ TextPiece
    \/ Finish
    \/ Break

Spec == Init /\ [][Next]_vars

-----------------------------------------------------------------------------
(* Type correctness. *)
AccumulatedCalls ==
    [key : IF provider = "openai" THEN DOMAIN answer ELSE Ids,
     id : Ids, name : Names, arguments : Seq(Fragments)]

Chunks == {TextChunk, DoneChunk} \cup { CallChunk(call) : call \in Calls }

TypeOK ==
    /\ provider \in {"openai", "anthropic"}
    /\ answer \in Answers
    /\ sent \in [DOMAIN answer -> -1..MaxPieces]
    /\ reading \in {"open", "done", "broken"}
    /\ calls \in Seq(AccumulatedCalls)
    /\ chunks \in Seq(Chunks)

(* What _parse_response makes of the complete answer: its calls, in order.   *)
(* The text of absent arguments is "" in a stream and "{}" there, which mean *)
(* the same.                                                                 *)
ParsedResponse == [i \in DOMAIN answer |-> CallChunk(answer[i])]

(* The accumulated calls are those whose first piece arrived, in their       *)
(* order, and each has exactly its own fragments so far.                     *)
CallsAccumulated ==
    /\ \A i \in DOMAIN answer : Started(i) <=> i <= Len(calls)
    /\ \A i \in DOMAIN calls :
         /\ i \in DOMAIN answer
         /\ calls[i].id = answer[i].id
         /\ calls[i].name = answer[i].name
         /\ calls[i].arguments = SubSeq(answer[i].arguments, 1, sent[i])

(* A consumer may act on a call as soon as it sees it: no call is shown      *)
(* before the stream is complete, none when it broke, and the end is told    *)
(* once, last.                                                               *)
TextThenCalls ==
    \E n \in 0..Len(chunks) :
      chunks = [k \in 1..n |-> TextChunk] \o
                 (IF reading = "done" THEN Append(ParsedResponse, DoneChunk)
                                      ELSE <<>>)

(* Streamed or not, an answer has the same tool calls: at every moment each  *)
(* accumulated call has exactly its own fragments, in order, although an     *)
(* Anthropic fragment names no call and those of an OpenAI answer come mixed *)
(* up; and what a finished stream yielded is what _parse_response returns,   *)
(* with the end after it, where one that broke off shows neither.            *)
StreamAgrees == CallsAccumulated /\ TextThenCalls

=============================================================================
