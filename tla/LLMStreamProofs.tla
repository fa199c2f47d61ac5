-------------------------- MODULE LLMStreamProofs --------------------------
(* Proofs about LLMStream, for any ids, names and fragments and answers of   *)
(* any length: what the two providers put together from a stream, however    *)
(* its pieces come and wherever it breaks off, is the complete answer's.     *)
EXTENDS LLMStream, SequenceTheorems, TLAPS

(* A call is found by its key: an index, or an id.                           *)
Keyed ==
    \A k \in DOMAIN calls :
      calls[k].key = IF provider = "openai" THEN k ELSE answer[k].id

SentBounded == \A i \in DOMAIN answer : sent[i] <= Len(answer[i].arguments)

(* An Anthropic answer is streamed call by call: only the newest is open.    *)
OneOpen ==
    provider = "anthropic" => \A i \in 1..Len(calls)-1 : Complete(i)

Inv == TypeOK /\ CallsAccumulated /\ Keyed /\ SentBounded /\ OneOpen

-----------------------------------------------------------------------------
(* What an answer is made of.                                                *)
LEMMA AnswerParts ==
    ASSUME NEW a \in Answers
    PROVE  /\ a \in Seq(Calls) /\ DOMAIN a = 1..Len(a) /\ Len(a) \in Nat
           /\ \A i \in DOMAIN a :
                /\ a[i] \in Calls
                /\ a[i].id \in Ids /\ a[i].name \in Names
                /\ a[i].arguments \in Seq(Fragments)
                /\ Len(a[i].arguments) \in 0..MaxPieces
  <1>1. PICK m \in 0..MaxCalls : a \in [1..m -> Calls]
    BY DEF Answers, SeqOf
  <1>2. m \in Nat
    BY StreamAssumption
  <1>3. a \in Seq(Calls) /\ DOMAIN a = 1..Len(a) /\ Len(a) \in Nat
    BY <1>1, <1>2
  <1>4. ASSUME NEW i \in DOMAIN a
        PROVE  /\ a[i] \in Calls
               /\ a[i].id \in Ids /\ a[i].name \in Names
               /\ a[i].arguments \in Seq(Fragments)
               /\ Len(a[i].arguments) \in 0..MaxPieces
    <2>1. a[i] \in Calls
      BY <1>1
    <2>2. PICK n \in 0..MaxPieces : a[i].arguments \in [1..n -> Fragments]
      BY <2>1 DEF Calls, SeqOf
    <2>3. n \in Nat
      BY StreamAssumption
    <2> QED
      BY <2>1, <2>2, <2>3 DEF Calls
  <1> QED
    BY <1>3, <1>4

(* The first n fragments, and one more.                                      *)
LEMMA OneMore ==
    ASSUME NEW S, NEW s \in Seq(S), NEW n \in 0..Len(s)
    PROVE  /\ SubSeq(s, 1, n) \in Seq(S)
           /\ n < Len(s) =>
                SubSeq(s, 1, n + 1) = Append(SubSeq(s, 1, n), s[n + 1])
  <1>1. SubSeq(s, 1, n) \in Seq(S) /\ Len(SubSeq(s, 1, n)) = n
    BY SubSeqProperties, LenProperties
  <1>2. ASSUME n < Len(s)
        PROVE  SubSeq(s, 1, n + 1) = Append(SubSeq(s, 1, n), s[n + 1])
    <2>1. n + 1 \in 1..Len(s) /\ s[n + 1] \in S
      BY <1>2, LenProperties
    <2>2. SubSeq(s, 1, n + 1) = SubSeq(s, 1, n) \o <<s[n + 1]>>
      BY <2>1, SubSeqRecursiveSecond, LenProperties
    <2> QED
      BY <1>1, <2>1, <2>2, AppendIsConcat
  <1> QED
    BY <1>1, <1>2

(* Calls are started in order, so that the next is the one after the last.   *)
LEMMA NextStarted ==
    ASSUME Inv, NEW i \in DOMAIN answer, ~Started(i),
           \A j \in 1..i-1 : Started(j)
    PROVE  i = Len(calls) + 1
  <1>1. Len(calls) \in Nat /\ DOMAIN calls = 1..Len(calls)
    BY DEF Inv, TypeOK
  <1>2. i \in Nat \ {0} /\ DOMAIN answer = 1..Len(answer) /\ Len(answer) \in Nat
    BY AnswerParts DEF Inv, TypeOK
  <1>3. ~(i <= Len(calls))
    BY DEF Inv, CallsAccumulated
  <1>4. ~(i > Len(calls) + 1)
    <2>1. SUFFICES ASSUME i > Len(calls) + 1 PROVE FALSE
      OBVIOUS
    <2>2. Len(calls) + 1 \in 1..i-1 /\ Len(calls) + 1 \in DOMAIN answer
      BY <1>1, <1>2, <2>1
    <2> QED
      BY <1>1, <2>2 DEF Inv, CallsAccumulated
  <1> QED
    BY <1>1, <1>2, <1>3, <1>4

(* What a call's first piece does, with the first n of its fragments.        *)
LEMMA StartStep ==
    ASSUME Inv, NEW i \in DOMAIN answer, ~Started(i),
           \A j \in 1..i-1 : Started(j),
           provider = "anthropic" => \A j \in 1..i-1 : Complete(j),
           NEW n \in 0..Len(answer[i].arguments),
           sent' = [sent EXCEPT ![i] = n],
           calls' = Append(calls,
             [key |-> IF provider = "openai" THEN i ELSE answer[i].id,
              id |-> answer[i].id, name |-> answer[i].name,
              arguments |-> SubSeq(answer[i].arguments, 1, n)]),
           UNCHANGED <<provider, answer>>
    PROVE  /\ sent' \in [DOMAIN answer -> -1..MaxPieces]
           /\ calls' \in Seq(AccumulatedCalls)
           /\ (CallsAccumulated /\ Keyed /\ SentBounded /\ OneOpen)'
  <1> DEFINE new == [key |-> IF provider = "openai" THEN i ELSE answer[i].id,
                     id |-> answer[i].id, name |-> answer[i].name,
                     arguments |-> SubSeq(answer[i].arguments, 1, n)]
  <1>1. i = Len(calls) + 1
    BY NextStarted
  <1>2. /\ answer[i].id \in Ids /\ answer[i].name \in Names
        /\ answer[i].arguments \in Seq(Fragments)
        /\ Len(answer[i].arguments) \in 0..MaxPieces
        /\ DOMAIN answer = 1..Len(answer) /\ Len(answer) \in Nat
    BY AnswerParts DEF Inv, TypeOK
  <1>3. new \in AccumulatedCalls
    BY <1>2, OneMore DEF AccumulatedCalls
  <1>4. /\ calls \in Seq(AccumulatedCalls) /\ Len(calls) \in Nat
        /\ sent \in [DOMAIN answer -> -1..MaxPieces]
    BY DEF Inv, TypeOK
  <1>5. /\ calls' \in Seq(AccumulatedCalls)
        /\ Len(calls') = i /\ DOMAIN calls' = 1..i
        /\ calls'[i] = new
        /\ \A k \in 1..i-1 : k \in DOMAIN calls /\ calls'[k] = calls[k]
    <2> HIDE DEF new
    <2>1. calls' = Append(calls, new)
      BY DEF new
    <2> QED
      BY <1>1, <1>3, <1>4, <2>1
  <1>6. /\ sent' \in [DOMAIN answer -> -1..MaxPieces] /\ sent'[i] = n
        /\ \A j \in DOMAIN answer \ {i} : sent'[j] = sent[j]
    BY <1>2, <1>4, StreamAssumption
  <1>7. CallsAccumulated'
    <2>1. \A j \in DOMAIN answer : sent'[j] >= 0 <=> j <= Len(calls')
      BY <1>1, <1>2, <1>4, <1>5, <1>6 DEF Inv, CallsAccumulated, Started
    <2>2. ASSUME NEW k \in 1..i
          PROVE  /\ k \in DOMAIN answer
                 /\ calls'[k].id = answer[k].id /\ calls'[k].name = answer[k].name
                 /\ calls'[k].arguments = SubSeq(answer[k].arguments, 1, sent'[k])
      <3>1. CASE k = i
        BY <1>5, <1>6, <3>1
      <3>2. CASE k # i
        BY <1>1, <1>4, <1>5, <1>6, <3>2 DEF Inv, CallsAccumulated
      <3> QED
        BY <3>1, <3>2
    <2> QED
      BY <1>5, <2>1, <2>2 DEF CallsAccumulated, Started
  <1>8. Keyed'
    BY <1>1, <1>4, <1>5 DEF Inv, Keyed
  <1>9. SentBounded'
    BY <1>2, <1>6 DEF Inv, SentBounded
  <1>10. OneOpen'
    BY <1>1, <1>2, <1>4, <1>5, <1>6 DEF OneOpen, Complete
  <1> QED
    BY <1>5, <1>6, <1>7, <1>8, <1>9, <1>10

(* What a later piece does, which is added to the call it belongs to.        *)
LEMMA PieceStep ==
    ASSUME Inv, NEW i \in DOMAIN answer, Started(i), ~Complete(i),
           sent' = [sent EXCEPT ![i] = @ + 1],
           calls' = Extend(i, NextFragment(i)),
           UNCHANGED <<provider, answer>>
    PROVE  /\ sent' \in [DOMAIN answer -> -1..MaxPieces]
           /\ calls' \in Seq(AccumulatedCalls)
           /\ (CallsAccumulated /\ Keyed /\ SentBounded /\ OneOpen)'
  <1> DEFINE args == answer[i].arguments
  <1>1. /\ args \in Seq(Fragments) /\ Len(args) \in 0..MaxPieces
        /\ DOMAIN answer = 1..Len(answer) /\ Len(answer) \in Nat
    BY AnswerParts DEF Inv, TypeOK
  <1>2. /\ calls \in Seq(AccumulatedCalls) /\ Len(calls) \in Nat
        /\ DOMAIN calls = 1..Len(calls)
        /\ sent \in [DOMAIN answer -> -1..MaxPieces]
    BY DEF Inv, TypeOK
  <1>3. i \in DOMAIN calls /\ sent[i] \in 0..Len(args) /\ sent[i] < Len(args)
    BY <1>1, <1>2 DEF Inv, CallsAccumulated, SentBounded, Started, Complete
  <1>4. /\ calls[i].arguments = SubSeq(args, 1, sent[i])
        /\ calls[i] \in AccumulatedCalls
    BY <1>2, <1>3 DEF Inv, CallsAccumulated
  <1>5. /\ Append(calls[i].arguments, NextFragment(i)) =
             SubSeq(args, 1, sent[i] + 1)
        /\ SubSeq(args, 1, sent[i] + 1) \in Seq(Fragments)
    <2>1. sent[i] + 1 \in 0..Len(args)
      BY <1>1, <1>3
    <2> QED
      BY <1>1, <1>3, <1>4, <2>1, OneMore DEF NextFragment
  <1>6. calls' = [calls EXCEPT ![i].arguments = SubSeq(args, 1, sent[i] + 1)]
    BY <1>3, <1>5 DEF Extend
  <1>7. /\ calls' \in Seq(AccumulatedCalls) /\ Len(calls') = Len(calls)
        /\ DOMAIN calls' = DOMAIN calls
        /\ \A k \in DOMAIN calls :
             /\ calls'[k].key = calls[k].key
             /\ calls'[k].id = calls[k].id /\ calls'[k].name = calls[k].name
             /\ calls'[k].arguments = IF k = i THEN SubSeq(args, 1, sent[i] + 1)
                                      ELSE calls[k].arguments
    <2> DEFINE longer == [calls[i] EXCEPT !.arguments = SubSeq(args, 1, sent[i] + 1)]
    <2>1. /\ longer \in AccumulatedCalls
          /\ longer.key = calls[i].key /\ longer.id = calls[i].id
          /\ longer.name = calls[i].name
          /\ longer.arguments = SubSeq(args, 1, sent[i] + 1)
      BY <1>4, <1>5 DEF AccumulatedCalls
    <2>2. calls' = [calls EXCEPT ![i] = longer]
      BY <1>6
    <2> HIDE DEF longer
    <2>3. /\ calls' \in Seq(AccumulatedCalls) /\ Len(calls') = Len(calls)
          /\ \A k \in 1..Len(calls) :
               calls'[k] = IF k = i THEN longer ELSE calls[k]
      BY <1>2, <1>3, <2>1, <2>2, ExceptSeq
    <2>4. DOMAIN calls' = 1..Len(calls)
      BY <2>3, LenProperties
    <2>5. ASSUME NEW k \in DOMAIN calls
          PROVE  /\ calls'[k].key = calls[k].key
                 /\ calls'[k].id = calls[k].id /\ calls'[k].name = calls[k].name
                 /\ calls'[k].arguments = IF k = i THEN SubSeq(args, 1, sent[i] + 1)
                                          ELSE calls[k].arguments
      <3>1. calls'[k] = IF k = i THEN longer ELSE calls[k]
        BY <1>2, <2>3
      <3> QED
        BY <2>1, <3>1
    <2> QED
      BY <1>2, <2>3, <2>4, <2>5
  <1>8. /\ sent' \in [DOMAIN answer -> -1..MaxPieces]
        /\ sent'[i] = sent[i] + 1
        /\ \A j \in DOMAIN answer \ {i} : sent'[j] = sent[j]
    BY <1>1, <1>2, <1>3, StreamAssumption
  <1>9. CallsAccumulated'
    <2>1. \A j \in DOMAIN answer : sent'[j] >= 0 <=> j <= Len(calls')
      BY <1>1, <1>2, <1>3, <1>7, <1>8 DEF Inv, CallsAccumulated, Started
    <2>2. ASSUME NEW k \in DOMAIN calls
          PROVE  /\ k \in DOMAIN answer
                 /\ calls'[k].id = answer[k].id /\ calls'[k].name = answer[k].name
                 /\ calls'[k].arguments = SubSeq(answer[k].arguments, 1, sent'[k])
      BY <1>7, <1>8, <2>2 DEF Inv, CallsAccumulated
    <2> QED
      BY <1>7, <2>1, <2>2 DEF CallsAccumulated, Started
  <1>10. Keyed'
    BY <1>7 DEF Inv, Keyed
  <1>11. SentBounded'
    BY <1>1, <1>2, <1>3, <1>8 DEF Inv, SentBounded
  <1>12. OneOpen'
    <2>1. SUFFICES ASSUME provider = "anthropic", NEW k \in 1..Len(calls)-1
                   PROVE  sent'[k] = Len(answer[k].arguments)
      BY <1>7 DEF OneOpen, Complete
    <2>2. Complete(k) /\ k # i
      BY <2>1 DEF Inv, OneOpen
    <2>3. k \in DOMAIN answer
      BY <1>2, <2>1 DEF Inv, CallsAccumulated
    <2> QED
      BY <1>8, <2>2, <2>3 DEF Complete
  <1> QED
    BY <1>7, <1>8, <1>9, <1>10, <1>11, <1>12

-----------------------------------------------------------------------------
LEMMA InvInit == Init => Inv
  <1> SUFFICES ASSUME Init
               PROVE  Inv
    OBVIOUS
  <1>1. answer \in Answers /\ DOMAIN answer = 1..Len(answer)
    BY AnswerParts DEF Init
  <1>2. TypeOK
    BY <1>1, StreamAssumption DEF Init, TypeOK
  <1>3. CallsAccumulated /\ Keyed
    BY <1>1 DEF Init, CallsAccumulated, Keyed, Started
  <1>4. SentBounded
    <2>1. \A i \in DOMAIN answer : Len(answer[i].arguments) \in Nat
      BY <1>1, AnswerParts
    <2> QED
      BY <2>1 DEF Init, SentBounded
  <1>5. OneOpen
    BY DEF Init, OneOpen
  <1> QED
    BY <1>2, <1>3, <1>4, <1>5 DEF Inv

(* The pieces of a call.                                                     *)
CallPiece(i) ==
    \/ \E n \in {0, 1} : OpenAIStart(i, n)
    \/ OpenAIFragment(i)
    \/ AnthropicStart(i)
    \/ AnthropicFragment(i)

LEMMA CallPieceStep ==
    ASSUME Inv, NEW i \in DOMAIN answer, CallPiece(i)
    PROVE  /\ sent' \in [DOMAIN answer -> -1..MaxPieces]
           /\ calls' \in Seq(AccumulatedCalls)
           /\ (CallsAccumulated /\ Keyed /\ SentBounded /\ OneOpen)'
  <1>1. /\ answer[i].arguments \in Seq(Fragments)
        /\ Len(answer[i].arguments) \in Nat /\ i \in Nat
        /\ DOMAIN answer = 1..Len(answer) /\ Len(answer) \in Nat
    BY AnswerParts DEF Inv, TypeOK
  <1>2. \A k \in 1..i-1 : k \in DOMAIN answer
    BY <1>1
  <1>3. ASSUME NEW n \in {0, 1}, OpenAIStart(i, n)
        PROVE  /\ sent' \in [DOMAIN answer -> -1..MaxPieces]
               /\ calls' \in Seq(AccumulatedCalls)
               /\ (CallsAccumulated /\ Keyed /\ SentBounded /\ OneOpen)'
    <2>1. n \in 0..Len(answer[i].arguments)
      BY <1>1, <1>3 DEF OpenAIStart
    <2>2. calls' = Append(calls,
             [key |-> IF provider = "openai" THEN i ELSE answer[i].id,
              id |-> answer[i].id, name |-> answer[i].name,
              arguments |-> SubSeq(answer[i].arguments, 1, n)])
      BY <1>3 DEF OpenAIStart, NewCall
    <2> QED
      BY <1>3, <2>1, <2>2, StartStep DEF OpenAIStart, InOrder
  <1>4. CASE AnthropicStart(i)
    <2>1. SubSeq(answer[i].arguments, 1, 0) = <<>>
      BY SubSeqEmpty
    <2>2. calls' = Append(calls,
             [key |-> IF provider = "openai" THEN i ELSE answer[i].id,
              id |-> answer[i].id, name |-> answer[i].name,
              arguments |-> SubSeq(answer[i].arguments, 1, 0)])
      BY <1>4, <2>1 DEF AnthropicStart, NewCall
    <2>3. 0 \in 0..Len(answer[i].arguments)
      BY <1>1
    <2> QED
      BY <1>4, <2>2, <2>3, StartStep DEF AnthropicStart, AllBefore
  <1>5. CASE OpenAIFragment(i)
    <2>1. i \in DOMAIN calls /\ \A k \in DOMAIN calls : calls[k].key = k
      BY <1>1, <1>5 DEF OpenAIFragment, Inv, TypeOK, CallsAccumulated, Keyed
    <2>2. Position(i) = i
      BY <2>1 DEF Position
    <2> QED
      BY <1>5, <2>2, PieceStep DEF OpenAIFragment
  <1>6. CASE AnthropicFragment(i)
    <2>1. Len(calls) \in Nat
      BY DEF Inv, TypeOK
    <2>2. i <= Len(calls) /\ ~(i \in 1..Len(calls)-1)
      BY <1>6 DEF AnthropicFragment, Inv, CallsAccumulated, OneOpen
    <2>3. Newest = i
      BY <1>1, <2>1, <2>2 DEF Newest
    <2> QED
      BY <1>6, <2>3, PieceStep DEF AnthropicFragment
  <1> QED
    BY <1>3, <1>4, <1>5, <1>6 DEF CallPiece

-----------------------------------------------------------------------------
(* What is shown before the stream ends.                                     *)
Texts(n) == [k \in 1..n |-> TextChunk]

LEMMA TextsTyped ==
    ASSUME NEW n \in Nat
    PROVE  Texts(n) \in Seq(Chunks) /\ Len(Texts(n)) = n
  BY DEF Texts, Chunks

LEMMA TextsAppend ==
    ASSUME NEW n \in Nat
    PROVE  Append(Texts(n), TextChunk) = Texts(n + 1)
  BY DEF Texts

OnlyText == reading # "done" => \E n \in Nat : chunks = Texts(n)

(* Once every call is complete, what was put together is the answer.         *)
LEMMA WholeAnswer ==
    ASSUME Inv, \A i \in DOMAIN answer : Started(i) /\ Complete(i)
    PROVE  /\ Ending = Append(ParsedResponse, DoneChunk)
           /\ ParsedResponse \in Seq(Chunks)
  <1>1. /\ answer \in Seq(Calls) /\ DOMAIN answer = 1..Len(answer)
        /\ Len(answer) \in Nat
        /\ Len(calls) \in Nat /\ DOMAIN calls = 1..Len(calls)
    BY AnswerParts DEF Inv, TypeOK
  <1>2. Len(calls) = Len(answer)
    <2>1. \A i \in 1..Len(answer) : i <= Len(calls)
      BY <1>1 DEF Inv, CallsAccumulated
    <2>2. \A i \in 1..Len(calls) : i <= Len(answer)
      BY <1>1 DEF Inv, CallsAccumulated
    <2>3. Len(answer) <= Len(calls)
      BY <1>1, <2>1
    <2>4. Len(calls) <= Len(answer)
      BY <1>1, <2>2
    <2>5. Len(answer) \in Nat /\ Len(calls) \in Nat
      BY <1>1
    <2> QED
      BY <2>3, <2>4, <2>5
  <1>3. ASSUME NEW i \in DOMAIN answer
        PROVE  CallChunk(calls[i]) = CallChunk(answer[i])
    <2>1. /\ i \in DOMAIN calls
          /\ answer[i].arguments \in Seq(Fragments)
      BY <1>1, <1>2, AnswerParts DEF Inv, TypeOK
    <2>2. calls[i].arguments = answer[i].arguments
      BY <2>1, SubSeqFull DEF Inv, CallsAccumulated, Complete
    <2> QED
      BY <2>1, <2>2 DEF Inv, CallsAccumulated, CallChunk
  <1>4. [i \in DOMAIN calls |-> CallChunk(calls[i])] = ParsedResponse
    BY <1>1, <1>2, <1>3 DEF ParsedResponse
  <1>5. ParsedResponse \in Seq(Chunks)
    <2>1. \A i \in 1..Len(answer) : CallChunk(answer[i]) \in Chunks
      BY <1>1 DEF Chunks
    <2> QED
      BY <1>1, <2>1 DEF ParsedResponse
  <1> QED
    BY <1>4, <1>5 DEF Ending

(* What is yielded when the stream is complete.                              *)
LEMMA FinishYields ==
    ASSUME Inv, Finish
    PROVE  /\ chunks' = chunks \o Append(ParsedResponse, DoneChunk)
           /\ Append(ParsedResponse, DoneChunk) \in Seq(Chunks)
  <1>1. \A i \in DOMAIN answer : Started(i) /\ Complete(i)
    BY DEF Finish
  <1>2. Ending = Append(ParsedResponse, DoneChunk) /\ ParsedResponse \in Seq(Chunks)
    BY <1>1, WholeAnswer
  <1>3. DoneChunk \in Chunks
    BY DEF Chunks
  <1>4. Append(ParsedResponse, DoneChunk) \in Seq(Chunks)
    BY <1>2, <1>3, AppendProperties
  <1> QED
    BY <1>2, <1>4 DEF Finish

(* The chunks that are yielded, as they stand and as they come.              *)
LEMMA ChunksStep ==
    ASSUME Inv, OnlyText, [Next]_vars
    PROVE  OnlyText' /\ chunks' \in Seq(Chunks)
  <1>1. chunks \in Seq(Chunks)
    BY DEF Inv, TypeOK
  <1>2. TextChunk \in Chunks /\ DoneChunk \in Chunks
    BY DEF Chunks
  <1>3. CASE UNCHANGED <<chunks, reading>>
    BY <1>1, <1>3 DEF OnlyText
  <1>4. CASE chunks' = Append(chunks, TextChunk) /\ UNCHANGED reading
    <2>1. chunks' \in Seq(Chunks)
      BY <1>1, <1>2, <1>4, AppendProperties
    <2>2. ASSUME reading' # "done"
          PROVE  \E n \in Nat : chunks' = Texts(n)
      <3>1. PICK n \in Nat : chunks = Texts(n)
        BY <1>4, <2>2 DEF OnlyText
      <3>2. chunks' = Append(Texts(n), TextChunk)
        BY <1>4, <3>1
      <3>3. chunks' = Texts(n + 1)
        BY <3>2, TextsAppend
      <3> QED
        BY <3>3
    <2> QED
      BY <2>1, <2>2 DEF OnlyText
  <1>5. CASE Finish
    <2> DEFINE rest == Append(ParsedResponse, DoneChunk)
    <2>1. rest \in Seq(Chunks) /\ chunks' = chunks \o rest
      BY <1>5, FinishYields
    <2> HIDE DEF rest
    <2>2. chunks' \in Seq(Chunks)
      BY <1>1, <2>1, ConcatProperties
    <2> QED
      BY <1>5, <2>2 DEF Finish, OnlyText
  <1>6. CASE Break
    BY <1>1, <1>6 DEF Break, OnlyText
  <1> QED
    BY <1>3, <1>4, <1>5, <1>6
    DEF Next, OpenAIStart, OpenAIFragment, AnthropicStart, AnthropicFragment,
        TextPiece, vars

LEMMA InvStep == Inv /\ OnlyText /\ [Next]_vars => Inv' /\ OnlyText'
  <1> SUFFICES ASSUME Inv, OnlyText, [Next]_vars
               PROVE  Inv' /\ OnlyText'
    OBVIOUS
  <1>1. OnlyText' /\ chunks' \in Seq(Chunks)
    BY ChunksStep
  <1>2. /\ UNCHANGED <<provider, answer>>
        /\ reading' \in {"open", "done", "broken"}
    <2>1. UNCHANGED <<provider, answer>>
      BY DEF Next, OpenAIStart, OpenAIFragment, AnthropicStart,
             AnthropicFragment, TextPiece, Finish, Break, vars
    <2>2. reading' \in {reading, "done", "broken"}
      BY DEF Next, OpenAIStart, OpenAIFragment, AnthropicStart,
             AnthropicFragment, TextPiece, Finish, Break, vars
    <2> QED
      BY <2>1, <2>2 DEF Inv, TypeOK
  <1>3. /\ sent' \in [DOMAIN answer -> -1..MaxPieces]
        /\ calls' \in Seq(AccumulatedCalls)
        /\ (CallsAccumulated /\ Keyed /\ SentBounded /\ OneOpen)'
    <2>1. CASE \E i \in DOMAIN answer : CallPiece(i)
      BY <2>1, CallPieceStep
    <2>2. CASE UNCHANGED <<provider, answer, sent, calls>>
      BY <2>2 DEF Inv, TypeOK, CallsAccumulated, Keyed, SentBounded, OneOpen,
                  Started, Complete
    <2> QED
      BY <2>1, <2>2 DEF Next, CallPiece, TextPiece, Finish, Break, vars
  <1>4. AccumulatedCalls' = AccumulatedCalls
    BY <1>2 DEF AccumulatedCalls
  <1>5. TypeOK'
    BY <1>1, <1>2, <1>3, <1>4 DEF Inv, TypeOK
  <1> QED
    BY <1>1, <1>3, <1>5 DEF Inv

LEMMA TextInit == Init => OnlyText
  <1>1. Texts(0) = <<>>
    BY DEF Texts
  <1> QED
    BY <1>1 DEF Init, OnlyText

(* What is accumulated and yielded keeps its types, for both providers and   *)
(* every order of pieces that a service may send.                            *)
THEOREM TypeCorrect == Spec => []TypeOK
  <1>1. Inv => TypeOK
    BY DEF Inv
  <1> QED
    BY <1>1, InvInit, InvStep, TextInit, PTL DEF Spec

-----------------------------------------------------------------------------
(* Ending, once the stream is done: only text comes before what is parsed.   *)
LEMMA TextThenCallsStep ==
    ASSUME Inv, OnlyText, TextThenCalls, [Next]_vars, Inv', OnlyText'
    PROVE  TextThenCalls'
  <1>1. CASE reading' # "done"
    <2>1. PICK n \in Nat : chunks' = Texts(n)
      BY <1>1 DEF OnlyText
    <2>2. n \in 0..Len(chunks') /\ chunks' = Texts(n) \o <<>>
      BY <2>1, TextsTyped, ConcatEmptySeq
    <2> QED
      BY <1>1, <2>2 DEF TextThenCalls, Texts
  <1>2. CASE Finish
    <2>1. PICK n \in Nat : chunks = Texts(n)
      BY <1>2 DEF Finish, OnlyText
    <2>2. /\ chunks' = Texts(n) \o Append(ParsedResponse, DoneChunk)
          /\ Append(ParsedResponse, DoneChunk) \in Seq(Chunks)
      BY <1>2, <2>1, FinishYields
    <2>3. n \in 0..Len(chunks')
      <3> DEFINE rest == Append(ParsedResponse, DoneChunk)
      <3>1. Texts(n) \in Seq(Chunks) /\ Len(Texts(n)) = n
        BY TextsTyped
      <3>2. rest \in Seq(Chunks) /\ Len(rest) \in Nat
        BY <2>2
      <3> HIDE DEF rest
      <3>3. Len(Texts(n) \o rest) = n + Len(rest)
        BY <3>1, <3>2, ConcatProperties
      <3> QED
        BY <2>2, <3>2, <3>3 DEF rest
    <2>4. ParsedResponse' = ParsedResponse /\ reading' = "done"
      BY <1>2 DEF Finish, ParsedResponse
    <2> QED
      BY <2>2, <2>3, <2>4 DEF TextThenCalls, Texts
  <1>3. CASE reading' = "done" /\ ~Finish
    <2>1. UNCHANGED <<answer, chunks, reading>>
      BY <1>3 DEF Next, OpenAIStart, OpenAIFragment, AnthropicStart,
                  AnthropicFragment, TextPiece, Break, vars
    <2> QED
      BY <2>1 DEF TextThenCalls, ParsedResponse
  <1> QED
    BY <1>1, <1>2, <1>3

LEMMA TextThenCallsInit == Init => TextThenCalls
  <1>1. Texts(0) \o <<>> = <<>>
    BY DEF Texts
  <1> QED
    BY <1>1 DEF Init, TextThenCalls, Texts

(* However a stream's pieces come, each accumulated call holds exactly its   *)
(* own fragments, and a finished stream has yielded what _parse_response     *)
(* makes of the complete answer, where a broken one has yielded text only.   *)
THEOREM StreamAgreesKept == Spec => []StreamAgrees
  <1>1. Inv /\ TextThenCalls => StreamAgrees
    BY DEF Inv, StreamAgrees
  <1>2. Inv /\ OnlyText /\ TextThenCalls /\ Inv' /\ OnlyText' /\ [Next]_vars
          => TextThenCalls'
    BY TextThenCallsStep
  <1> QED
    BY <1>1, <1>2, InvInit, InvStep, TextInit, TextThenCallsInit, PTL DEF Spec

=============================================================================
