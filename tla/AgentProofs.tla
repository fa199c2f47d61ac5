----------------------------- MODULE AgentProofs -----------------------------
(* Proofs about Agent, for any number of chats and sessions, any limits and  *)
(* any number of tool calls per response: its types, the bound on the chain  *)
(* of LLM calls among them, that deleted sessions stay deleted, what a chat  *)
(* leaves in its session's transcript, and what chain_depth counts.          *)
EXTENDS Agent, FiniteSetTheorems, TLAPS

(* A chat that was started holds a session that was created.                 *)
HoldsCreated == \A c \in Chats : pc[c] # "idle" => held[c] \in created

BaseInv == TypeOK /\ HoldsCreated

-----------------------------------------------------------------------------
LEMMA PlainMessages ==
    ASSUME NEW c \in Chats, NEW n \in Nat, NEW content \in Contents
    PROVE  /\ UserMessage(c) \in Messages
           /\ AssistantMessage(c, n, content) \in Messages
           /\ ToolMessage(c, n, content) \in Messages
  BY DEF UserMessage, AssistantMessage, ToolMessage, Messages, Roles, Contents

(* Every call gets a message, the executed ones that of their result.        *)
LEMMA ToolMessagesTyped ==
    ASSUME NEW c \in Chats, NEW n \in Nat, NEW outcome \in Outcomes,
           DOMAIN outcome = 1..Executed(n)
    PROVE  ToolMessages(c, n, outcome) \in Seq(Messages)
  <1>1. PICK k \in 0..MaxCalls : outcome \in [1..k -> {"result"}]
    BY DEF Outcomes
  <1>2. ASSUME NEW i \in 1..n
        PROVE  ToolMessage(c, i, IF i <= Executed(n) THEN outcome[i]
                                 ELSE "unavailable") \in Messages
    <2>1. Executed(n) \in Nat
      BY AgentAssumption DEF Executed
    <2>2. (IF i <= Executed(n) THEN outcome[i] ELSE "unavailable") \in Contents
      BY <1>1, <2>1 DEF Contents
    <2> QED
      BY <2>2, PlainMessages
  <1>3. ToolMessages(c, n, outcome) \in [1..n -> Messages]
    BY <1>2 DEF ToolMessages
  <1> QED
    BY <1>3

LEMMA AddTyped ==
    ASSUME messages \in [Sessions -> Seq(Messages)], stale \subseteq Sessions,
           NEW s \in Sessions, NEW msgs \in Seq(Messages), AddMessages(s, msgs)
    PROVE  /\ messages' \in [Sessions -> Seq(Messages)]
           /\ stale' \subseteq Sessions
  BY DEF AddMessages

LEMMA IterationTyped ==
    ASSUME TypeOK, NEW c \in Chats, NEW s \in Sessions,
           NEW msgs \in Seq(Messages), NextIteration(c, s, msgs)
    PROVE  /\ messages' \in [Sessions -> Seq(Messages)]
           /\ stale' \subseteq Sessions
           /\ chainDepth' \in [Sessions -> Nat]
           /\ pc' \in [Chats -> {"idle"} \cup Running \cup Ended]
           /\ depth' \in [Chats -> 0..MaxDepth]
           /\ \A b \in Chats \ {c} : pc'[b] = pc[b]
  <1>1. CASE MayGoOn(c)
    <2>1. depth[c] + 1 \in 0..MaxDepth
      BY <1>1, AgentAssumption DEF TypeOK, MayGoOn
    <2>2. /\ depth' = [depth EXCEPT ![c] = @ + 1]
          /\ chainDepth' = [chainDepth EXCEPT ![s] = @ + 1]
          /\ pc' = [pc EXCEPT ![c] = "llm"]
          /\ AddMessages(s, msgs)
      BY <1>1 DEF NextIteration
    <2>3. depth' \in [Chats -> 0..MaxDepth]
      BY <2>1, <2>2 DEF TypeOK
    <2>4. chainDepth' \in [Sessions -> Nat]
      BY <2>2 DEF TypeOK
    <2>5. /\ pc' \in [Chats -> {"idle"} \cup Running \cup Ended]
          /\ \A b \in Chats \ {c} : pc'[b] = pc[b]
      BY <2>2 DEF TypeOK, Running, Ended
    <2> QED
      BY <2>2, <2>3, <2>4, <2>5, AddTyped DEF TypeOK
  <1>2. CASE ~MayGoOn(c)
    <2>1. Append(msgs, AssistantMessage(c, 0, "fallback")) \in Seq(Messages)
      BY PlainMessages DEF Contents
    <2> QED
      BY <1>2, <2>1, AddTyped DEF TypeOK, NextIteration, Running, Ended
  <1> QED
    BY <1>1, <1>2

-----------------------------------------------------------------------------
LEMMA OneMessage ==
    ASSUME NEW m \in Messages PROVE <<m>> \in Seq(Messages)
  OBVIOUS

LEMMA StartStep ==
    ASSUME BaseInv, NEW c \in Chats, NEW s \in Sessions,
           \/ ContinueSession(c, s)
           \/ \E r \in Sessions \cup {NoSession} : OpenSession(c, r, s)
    PROVE  BaseInv'
  <1>1. /\ held' = [held EXCEPT ![c] = s]
        /\ NextIteration(c, s, <<UserMessage(c)>>)
        /\ store' \subseteq created' /\ created' \subseteq Sessions
        /\ created \subseteq created' /\ s \in created'
        /\ UNCHANGED calls
    BY DEF BaseInv, TypeOK, ContinueSession, OpenSession
  <1>2. <<UserMessage(c)>> \in Seq(Messages)
    BY PlainMessages DEF Contents
  <1>3. /\ messages' \in [Sessions -> Seq(Messages)]
        /\ stale' \subseteq Sessions
        /\ chainDepth' \in [Sessions -> Nat]
        /\ pc' \in [Chats -> {"idle"} \cup Running \cup Ended]
        /\ depth' \in [Chats -> 0..MaxDepth]
        /\ \A b \in Chats \ {c} : pc'[b] = pc[b]
    BY <1>1, <1>2, IterationTyped DEF BaseInv
  <1>4. TypeOK'
    BY <1>1, <1>3 DEF BaseInv, TypeOK
  <1>5. HoldsCreated'
    BY <1>1, <1>3 DEF BaseInv, TypeOK, HoldsCreated
  <1> QED
    BY <1>4, <1>5 DEF BaseInv

LEMMA LLMStep ==
    ASSUME BaseInv, NEW c \in Chats,
           \/ LLMAnswers(c)
           \/ \E n \in CallCounts : LLMCallsTools(c, n) \/ LLMCallsMalformed(c, n)
           \/ LLMRaises(c)
           \/ CancelChat(c)
    PROVE  BaseInv'
  <1>1. held[c] \in Sessions /\ pc[c] # "idle"
    BY DEF BaseInv, TypeOK, HoldsCreated, LLMAnswers, LLMCallsTools,
           LLMCallsMalformed, LLMRaises, CancelChat, Running
  <1>2. /\ \E place \in {"tools"} \cup Ended : pc' = [pc EXCEPT ![c] = place]
        /\ calls' = calls \/ \E n \in CallCounts : calls' = [calls EXCEPT ![c] = n]
        /\ UNCHANGED <<store, created, chainDepth, held, depth>>
    BY DEF LLMAnswers, LLMCallsTools, LLMCallsMalformed, LLMRaises, CancelChat,
           Ended, sessionVars
  <1>3. \/ UNCHANGED <<messages, stale>>
        \/ \E n \in Nat : AddMessages(held[c], <<AssistantMessage(c, n, "text")>>)
    BY AgentAssumption
    DEF LLMAnswers, LLMCallsTools, LLMCallsMalformed, LLMRaises, CancelChat,
        sessionVars
  <1>4. /\ messages' \in [Sessions -> Seq(Messages)]
        /\ stale' \subseteq Sessions
    <2>1. ASSUME NEW n \in Nat
          PROVE  <<AssistantMessage(c, n, "text")>> \in Seq(Messages)
      BY PlainMessages, OneMessage DEF Contents
    <2> QED
      BY <1>1, <1>3, <2>1, AddTyped DEF BaseInv, TypeOK
  <1>5. TypeOK'
    BY <1>2, <1>4 DEF BaseInv, TypeOK, Running, Ended
  <1>6. HoldsCreated'
    BY <1>1, <1>2 DEF BaseInv, TypeOK, HoldsCreated
  <1> QED
    BY <1>5, <1>6 DEF BaseInv

LEMMA ToolsStep ==
    ASSUME BaseInv, NEW c \in Chats, NEW outcome \in Outcomes,
           ToolsReturn(c, outcome)
    PROVE  BaseInv'
  <1>0. CallCounts \cup {0} \subseteq Nat
    BY AgentAssumption
  <1>1. /\ pc[c] # "idle" /\ held[c] \in Sessions /\ calls[c] \in Nat
        /\ DOMAIN outcome = 1..Executed(calls[c])
        /\ NextIteration(c, held[c], ToolMessages(c, calls[c], outcome))
        /\ UNCHANGED <<store, created, held, calls>>
    BY <1>0
    DEF BaseInv, TypeOK, HoldsCreated, ToolsReturn, ExecutedAnswered
  <1>2. ToolMessages(c, calls[c], outcome) \in Seq(Messages)
    BY <1>1, ToolMessagesTyped
  <1>3. /\ messages' \in [Sessions -> Seq(Messages)]
        /\ stale' \subseteq Sessions
        /\ chainDepth' \in [Sessions -> Nat]
        /\ pc' \in [Chats -> {"idle"} \cup Running \cup Ended]
        /\ depth' \in [Chats -> 0..MaxDepth]
        /\ \A b \in Chats \ {c} : pc'[b] = pc[b]
    BY <1>1, <1>2, IterationTyped DEF BaseInv
  <1>4. TypeOK'
    BY <1>1, <1>3 DEF BaseInv, TypeOK
  <1>5. HoldsCreated'
    BY <1>1, <1>3 DEF BaseInv, HoldsCreated
  <1> QED
    BY <1>4, <1>5 DEF BaseInv

LEMMA StoreStep ==
    ASSUME BaseInv,
           \/ \E s \in Sessions : CreateSession(s) \/ DeleteSession(s)
                                  \/ GrowStale(s)
           \/ CleanupExpired
    PROVE  BaseInv'
  BY DEF BaseInv, TypeOK, HoldsCreated, CreateSession, DeleteSession, GrowStale,
         CleanupExpired, chatVars

LEMMA BaseStep == BaseInv /\ [Next]_vars => BaseInv'
  <1>1. BaseInv /\ UNCHANGED vars => BaseInv'
    BY DEF BaseInv, TypeOK, HoldsCreated, vars
  <1> QED
    BY <1>1, StartStep, LLMStep, ToolsStep, StoreStep DEF Next, ChatStep

LEMMA BaseInit == Init => BaseInv
  BY AgentAssumption DEF Init, BaseInv, TypeOK, HoldsCreated

(* Sessions, messages and chats keep their types whatever chats, deletions   *)
(* and cancellations interleave, and no chat goes past max_chain_depth       *)
(* (core/agent.py:75).                                                       *)
THEOREM TypeCorrect == Spec => []TypeOK
  <1>1. BaseInv => TypeOK
    BY DEF BaseInv
  <1> QED
    BY <1>1, BaseInit, BaseStep, PTL DEF Spec

-----------------------------------------------------------------------------
(* The messages of one chat, in a session whose messages are m.              *)
UserFirst(m, c) ==
    /\ Own(m, c) # {}
    /\ \A i \in Own(m, c) : m[i].role = "user" <=> IsFirst(Own(m, c), i)

NotEnded(m, c) ==
    \A i \in Own(m, c) : ~IsAnswer(m[i]) /\ m[i].content # "fallback"

PairedBut(m, c, others) ==
    \A r \in Own(m, c) \ others :
      m[r].role # "tool" => Paired(m, Own(m, c), r)

(* All calls are answered, and the LLM may be asked.                         *)
Ready(m, c) == UserFirst(m, c) /\ NotEnded(m, c) /\ PairedBut(m, c, {})

(* The last message asks for n calls.                                        *)
Asked(m, c, n) ==
    /\ UserFirst(m, c) /\ NotEnded(m, c)
    /\ \E r \in Own(m, c) :
         /\ IsLast(Own(m, c), r)
         /\ m[r].role = "assistant" /\ m[r].n = n
         /\ PairedBut(m, c, {r})

(* The last message is the answer.                                           *)
Answered(m, c) ==
    /\ UserFirst(m, c) /\ PairedBut(m, c, {})
    /\ \E i \in Own(m, c) : IsLast(Own(m, c), i)
    /\ \A i \in Own(m, c) :
         IsAnswer(m[i]) <=> IsLast(Own(m, c), i)

LEMMA OwnAppend ==
    ASSUME NEW c \in Chats, NEW m \in Seq(Messages), NEW msgs \in Seq(Messages)
    PROVE  /\ m \o msgs \in Seq(Messages)
           /\ Len(m) \in Nat /\ Own(m, c) \subseteq 1..Len(m)
           /\ Own(m \o msgs, c) \subseteq Int
           /\ \A i \in Int : i \in Own(m \o msgs, c)
                <=> i \in Own(m, c) \/ i - Len(m) \in Own(msgs, c)
           /\ \A i \in 1..Len(m) : (m \o msgs)[i] = m[i]
           /\ \A i \in 1..Len(msgs) : (m \o msgs)[Len(m) + i] = msgs[i]
  <1>1. /\ m \o msgs \in Seq(Messages)
        /\ Len(m) \in Nat /\ Len(msgs) \in Nat
        /\ Len(m \o msgs) = Len(m) + Len(msgs)
        /\ \A i \in 1..Len(m) : (m \o msgs)[i] = m[i]
        /\ \A i \in 1..Len(msgs) : (m \o msgs)[Len(m) + i] = msgs[i]
    OBVIOUS
  <1>2. /\ DOMAIN m = 1..Len(m) /\ DOMAIN msgs = 1..Len(msgs)
        /\ DOMAIN (m \o msgs) = 1..Len(m) + Len(msgs)
    BY <1>1
  <1>3. Own(m, c) \subseteq 1..Len(m)
    BY <1>2 DEF Own
  <1>4. Own(m \o msgs, c) \subseteq Int
    BY <1>1, <1>2 DEF Own
  <1>5. ASSUME NEW i \in Own(m \o msgs, c)
        PROVE  i \in Own(m, c) \/ i - Len(m) \in Own(msgs, c)
    <2>1. i \in 1..Len(m) + Len(msgs) /\ (m \o msgs)[i].chat = c
      BY <1>2 DEF Own
    <2>2. CASE i \in 1..Len(m)
      BY <1>1, <1>2, <2>1, <2>2 DEF Own
    <2>3. CASE i \notin 1..Len(m)
      <3>1. i - Len(m) \in 1..Len(msgs) /\ Len(m) + (i - Len(m)) = i
        BY <1>1, <2>1, <2>3
      <3>2. (m \o msgs)[i] = msgs[i - Len(m)]
        BY <1>1, <3>1
      <3> QED
        BY <1>2, <2>1, <3>1, <3>2 DEF Own
    <2> QED
      BY <2>2, <2>3
  <1>6. Own(m, c) \subseteq Own(m \o msgs, c)
    BY <1>1, <1>2 DEF Own
  <1>7. ASSUME NEW i \in Int, i - Len(m) \in Own(msgs, c)
        PROVE  i \in Own(m \o msgs, c)
    <2> DEFINE j == i - Len(m)
    <2>1. j \in 1..Len(msgs) /\ msgs[j].chat = c /\ Len(m) + j = i
      BY <1>1, <1>2, <1>7 DEF Own
    <2>2. i \in 1..Len(m) + Len(msgs)
      BY <1>1, <2>1
    <2>3. (m \o msgs)[i] = msgs[j]
      BY <1>1, <2>1
    <2> QED
      BY <1>2, <2>1, <2>2, <2>3 DEF Own
  <1> QED
    BY <1>1, <1>3, <1>4, <1>5, <1>6, <1>7

(* Messages that are added later change a round only if they may belong to   *)
(* it, which those after a message that is no tool message do not.           *)
CutOff(m, m2, own, added, last, r) ==
    /\ own \in SUBSET Int /\ added \in SUBSET Int /\ last \in Int
    /\ \A i \in own : i <= last /\ m2[i] = m[i]
    /\ \A i \in added : i > last
    /\ r \in own
    /\ \A i \in added : \E b \in own \cup added :
         r < b /\ b <= i /\ m2[b].role # "tool"

LEMMA PairedKept ==
    ASSUME NEW m, NEW m2, NEW own, NEW added, NEW last, NEW r,
           CutOff(m, m2, own, added, last, r)
    PROVE  Paired(m2, own \cup added, r) <=> Paired(m, own, r)
  <1> USE DEF CutOff
  <1>1. Round(m2, own \cup added, r) \subseteq own
    BY DEF Round
  <1>2. ASSUME NEW i \in own
        PROVE  i \in Round(m2, own \cup added, r) <=> i \in Round(m, own, r)
    <2>1. \A j \in added : ~(j <= i)
      OBVIOUS
    <2> QED
      BY <2>1 DEF Round
  <1>3. Round(m2, own \cup added, r) = Round(m, own, r)
    BY <1>1, <1>2 DEF Round
  <1>4. \A i \in Round(m, own, r) : m2[i] = m[i]
    BY DEF Round
  <1>5. { m2[i].n : i \in Round(m, own, r) } = { m[i].n : i \in Round(m, own, r) }
    BY <1>4
  <1>6. m2[r].n = m[r].n
    OBVIOUS
  <1> QED
    BY <1>3, <1>4, <1>5, <1>6 DEF Paired

LEMMA RoundsTyped ==
    ASSUME NEW c \in Chats, NEW m \in Seq(Messages)
    PROVE  /\ IsFiniteSet({ i \in Own(m, c) : AsksForTools(m[i]) })
           /\ Rounds(m, c) \in Nat
  <1>1. IsFiniteSet(1..Len(m))
    BY FS_Interval
  <1>2. { i \in Own(m, c) : AsksForTools(m[i]) } \subseteq 1..Len(m)
    BY DEF Own
  <1>3. IsFiniteSet({ i \in Own(m, c) : AsksForTools(m[i]) })
    BY <1>1, <1>2, FS_Subset
  <1> QED
    BY <1>3, FS_CardinalityType DEF Rounds

(* What other chats add to the session is nothing to a chat.                 *)
LEMMA OthersAdd ==
    ASSUME NEW c \in Chats, NEW m \in Seq(Messages), NEW msgs \in Seq(Messages),
           Own(msgs, c) = {}
    PROVE  /\ Own(m \o msgs, c) = Own(m, c)
           /\ Rounds(m \o msgs, c) = Rounds(m, c)
           /\ \A i \in Own(m, c) : (m \o msgs)[i] = m[i]
           /\ Ready(m, c) => Ready(m \o msgs, c)
           /\ \A n : Asked(m, c, n) => Asked(m \o msgs, c, n)
           /\ Answered(m, c) => Answered(m \o msgs, c)
  <1> DEFINE m2 == m \o msgs
             own == Own(m, c)
  <1>1. /\ Own(m2, c) = own /\ own \subseteq 1..Len(m) /\ Len(m) \in Nat
        /\ \A i \in own : m2[i] = m[i]
    <2>1. /\ Own(m2, c) \subseteq Int /\ own \subseteq 1..Len(m) /\ Len(m) \in Nat
          /\ \A i \in Int : i \in Own(m2, c)
               <=> i \in own \/ i - Len(m) \in Own(msgs, c)
          /\ \A i \in 1..Len(m) : m2[i] = m[i]
      BY OwnAppend
    <2> HIDE DEF m2, own
    <2>2. own \subseteq Int
      BY <2>1
    <2>3. \A i \in Int : i \in Own(m2, c) <=> i \in own
      BY <2>1
    <2>4. Own(m2, c) \subseteq own
      BY <2>1, <2>3
    <2>5. own \subseteq Own(m2, c)
      BY <2>2, <2>3
    <2> QED
      BY <2>1, <2>4, <2>5
  <1> HIDE DEF m2, own
  <1>2. Rounds(m2, c) = Rounds(m, c)
    <2>1. { i \in own : AsksForTools(m2[i]) } = { i \in own : AsksForTools(m[i]) }
      BY <1>1
    <2> QED
      BY <1>1, <2>1 DEF Rounds, own
  <1>3. \A r \in own : Paired(m2, own, r) <=> Paired(m, own, r)
    <2>1. ASSUME NEW r \in own PROVE Paired(m2, own, r) <=> Paired(m, own, r)
      <3>1. Round(m2, own, r) = Round(m, own, r)
        BY <1>1 DEF Round
      <3>2. \A i \in Round(m, own, r) : m2[i] = m[i]
        BY <1>1 DEF Round
      <3>3. { m2[i].n : i \in Round(m, own, r) } =
              { m[i].n : i \in Round(m, own, r) }
        BY <3>2
      <3> QED
        BY <1>1, <3>1, <3>2, <3>3 DEF Paired
    <2> QED
      BY <2>1
  <1>4. \A others : PairedBut(m, c, others) => PairedBut(m2, c, others)
    BY <1>1, <1>3 DEF PairedBut, own
  <1>5. /\ UserFirst(m, c) => UserFirst(m2, c)
        /\ NotEnded(m, c) => NotEnded(m2, c)
    BY <1>1 DEF UserFirst, NotEnded, own
  <1>6. Ready(m, c) => Ready(m2, c)
    BY <1>4, <1>5 DEF Ready
  <1>7. ASSUME NEW n, Asked(m, c, n) PROVE Asked(m2, c, n)
    BY <1>1, <1>4, <1>5, <1>7 DEF Asked, own
  <1>8. Answered(m, c) => Answered(m2, c)
    BY <1>1, <1>4, <1>5 DEF Answered, own
  <1> QED
    BY <1>1, <1>2, <1>6, <1>7, <1>8 DEF m2, own

LEMMA EmptyRound ==
    ASSUME NEW m, NEW own, NEW r, Round(m, own, r) = {}, m[r].n = 0
    PROVE  Paired(m, own, r)
  <1>1. { m[i].n : i \in {} } = {} /\ 1..0 = {}
    OBVIOUS
  <1> QED
    BY <1>1 DEF Paired

(* A position after the others is the last, and not the first.               *)
LEMMA EndOf ==
    ASSUME NEW own \in SUBSET Int, NEW end \in Int, \A i \in own : i < end
    PROVE  /\ IsLast(own \cup {end}, end)
           /\ \A i \in own : ~IsLast(own \cup {end}, i)
           /\ \A i \in own : IsFirst(own \cup {end}, i) <=> IsFirst(own, i)
           /\ own # {} => ~IsFirst(own \cup {end}, end)
  <1>1. IsLast(own \cup {end}, end)
    BY DEF IsLast
  <1>2. \A i \in own : ~IsLast(own \cup {end}, i)
    BY DEF IsLast
  <1>3. \A i \in own : IsFirst(own \cup {end}, i) <=> IsFirst(own, i)
    BY DEF IsFirst
  <1>4. ASSUME own # {} PROVE ~IsFirst(own \cup {end}, end)
    <2>1. PICK i \in own : TRUE
      BY <1>4
    <2>2. i \in Int /\ i < end /\ ~(end <= i)
      OBVIOUS
    <2> QED
      BY <2>2 DEF IsFirst
  <1> QED
    BY <1>1, <1>2, <1>3, <1>4

(* What message x at the end of m2 is, where m was before.                   *)
AddedLast(m, m2, c, x) ==
    LET end == Len(m) + 1
        own == Own(m, c)
    IN  /\ m2 \in Seq(Messages)
        /\ end \in Int /\ own \in SUBSET Int
        /\ \A i \in own : i < end
        /\ Own(m2, c) = own \cup {end}
        /\ m2[end] = x
        /\ \A i \in own : m2[i] = m[i]
        /\ \A r \in own : Paired(m2, own \cup {end}, r) <=> Paired(m, own, r)
        /\ x.n = 0 => Paired(m2, own \cup {end}, end)

(* One message more of the chat itself, which is no tool message.            *)
LEMMA OneMore ==
    ASSUME NEW c \in Chats, NEW m \in Seq(Messages), NEW x \in Messages,
           x.chat = c, x.role # "tool"
    PROVE  AddedLast(m, m \o <<x>>, c, x)
  <1> DEFINE msgs == <<x>>
             m2 == m \o msgs
             own == Own(m, c)
             end == Len(m) + 1
  <1>1. msgs \in Seq(Messages) /\ Len(msgs) = 1 /\ msgs[1] = x
    OBVIOUS
  <1>2. Own(msgs, c) = {1}
    BY <1>1 DEF Own
  <1> HIDE DEF msgs
  <1>3. /\ m2 \in Seq(Messages)
        /\ Len(m) \in Nat /\ own \subseteq 1..Len(m)
        /\ Own(m2, c) \subseteq Int
        /\ \A i \in Int : i \in Own(m2, c)
             <=> i \in own \/ i - Len(m) \in Own(msgs, c)
        /\ \A i \in 1..Len(m) : m2[i] = m[i]
        /\ \A i \in 1..Len(msgs) : m2[Len(m) + i] = msgs[i]
    BY <1>1, OwnAppend
  <1>4. Own(m2, c) = own \cup {end} /\ m2[end] = x
    <2>1. \A i \in Int : i - Len(m) \in Own(msgs, c) <=> i = end
      BY <1>2, <1>3
    <2>2. end \in Int /\ own \subseteq Int
      BY <1>3
    <2>3. 1 \in 1..Len(msgs)
      BY <1>1
    <2>4. m2[end] = x
      BY <1>1, <1>3, <2>3
    <2> HIDE DEF m2, own, end
    <2>5. Own(m2, c) \subseteq own \cup {end}
      BY <1>3, <2>1
    <2>6. own \cup {end} \subseteq Own(m2, c)
      BY <1>3, <2>1, <2>2
    <2> QED
      BY <2>4, <2>5, <2>6
  <1> HIDE DEF m2, own, end
  <1>5. /\ own \in SUBSET Int /\ {end} \in SUBSET Int /\ Len(m) \in Int
        /\ \A i \in own : i <= Len(m) /\ m2[i] = m[i]
        /\ \A i \in {end} : i > Len(m)
    BY <1>3 DEF end
  <1>6. ASSUME NEW r \in own
        PROVE  Paired(m2, own \cup {end}, r) <=> Paired(m, own, r)
    <2>1. \A i \in {end} : \E b \in own \cup {end} :
            r < b /\ b <= i /\ m2[b].role # "tool"
      BY <1>4, <1>5 DEF end
    <2>2. CutOff(m, m2, own, {end}, Len(m), r)
      BY <1>5, <2>1 DEF CutOff
    <2> QED
      BY <2>2, PairedKept
  <1>7. ASSUME x.n = 0
        PROVE  Paired(m2, own \cup {end}, end)
    <2>1. Round(m2, own \cup {end}, end) = {}
      <3>1. \A i \in own \cup {end} : ~(end < i)
        BY <1>3, <1>5 DEF end
      <3> QED
        BY <3>1 DEF Round
    <2> QED
      BY <1>4, <1>7, <2>1, EmptyRound
  <1>8. /\ end \in Int
        /\ \A i \in own : i < end
    BY <1>3 DEF end
  <1>9. AddedLast(m, m2, c, x)
    BY <1>3, <1>4, <1>5, <1>6, <1>7, <1>8 DEF AddedLast, own, end
  <1> QED
    BY <1>9 DEF m2, msgs

(* The user's message opens the transcript.                                  *)
LEMMA UserBegins ==
    ASSUME NEW c \in Chats, NEW m \in Seq(Messages), Own(m, c) = {}
    PROVE  /\ m \o <<UserMessage(c)>> \in Seq(Messages)
           /\ Ready(m \o <<UserMessage(c)>>, c)
           /\ Rounds(m \o <<UserMessage(c)>>, c) = 0
  <1> DEFINE x == UserMessage(c)
             m2 == m \o <<x>>
             end == Len(m) + 1
  <1>1. /\ x \in Messages /\ x.chat = c /\ x.role = "user" /\ x.n = 0
        /\ x.content = "text"
    BY PlainMessages DEF Contents, UserMessage
  <1>2. x.role # "tool"
    BY <1>1
  <1> HIDE DEF x
  <1>3. AddedLast(m, m2, c, x)
    BY <1>1, <1>2, OneMore
  <1> HIDE DEF m2
  <1>4. /\ m2 \in Seq(Messages) /\ end \in Int
        /\ Own(m2, c) = {end} /\ m2[end] = x
        /\ Paired(m2, Own(m2, c), end)
    <2>1. {} \cup {end} = {end}
      OBVIOUS
    <2> QED
      BY <1>1, <1>3, <2>1 DEF AddedLast
  <1> HIDE DEF end
  <1>5. UserFirst(m2, c)
    BY <1>1, <1>4 DEF UserFirst, IsFirst
  <1>6. NotEnded(m2, c)
    BY <1>1, <1>4 DEF NotEnded, IsAnswer
  <1>7. PairedBut(m2, c, {})
    BY <1>4 DEF PairedBut
  <1>8. Rounds(m2, c) = 0
    <2>1. { i \in Own(m2, c) : AsksForTools(m2[i]) } = {}
      BY <1>1, <1>4 DEF AsksForTools
    <2> QED
      BY <2>1, FS_EmptySet DEF Rounds
  <1> QED
    BY <1>4, <1>5, <1>6, <1>7, <1>8 DEF Ready, m2, x

(* What an assistant message does to a transcript whose calls are answered.  *)
LEMMA Assists ==
    ASSUME NEW c \in Chats, NEW m \in Seq(Messages), Ready(m, c),
           NEW x \in Messages, x.chat = c, x.role = "assistant",
           NEW m2, AddedLast(m, m2, c, x)
    PROVE  /\ UserFirst(m2, c) /\ PairedBut(m2, c, {Len(m) + 1})
           /\ x.n = 0 => PairedBut(m2, c, {})
           /\ IsLast(Own(m2, c), Len(m) + 1)
           /\ \A i \in Own(m, c) : ~IsLast(Own(m2, c), i)
  <1> DEFINE end == Len(m) + 1
             own == Own(m, c)
  <1>1. /\ end \in Int /\ own \in SUBSET Int
        /\ \A i \in own : i < end
        /\ Own(m2, c) = own \cup {end}
        /\ m2[end] = x
        /\ \A i \in own : m2[i] = m[i]
        /\ \A r \in own : Paired(m2, own \cup {end}, r) <=> Paired(m, own, r)
        /\ x.n = 0 => Paired(m2, own \cup {end}, end)
    BY DEF AddedLast
  <1>2. /\ own # {}
        /\ \A i \in own : m[i].role = "user" <=> IsFirst(own, i)
        /\ \A r \in own : m[r].role # "tool" => Paired(m, own, r)
    BY DEF Ready, UserFirst, PairedBut
  <1> HIDE DEF own, end
  <1>3. /\ IsLast(own \cup {end}, end)
        /\ \A i \in own : ~IsLast(own \cup {end}, i)
        /\ \A i \in own : IsFirst(own \cup {end}, i) <=> IsFirst(own, i)
        /\ ~IsFirst(own \cup {end}, end)
    BY <1>1, <1>2, EndOf
  <1>4. UserFirst(m2, c)
    <2>1. m2[end].role # "user"
      BY <1>1
    <2>2. \A i \in own : m2[i].role = "user" <=> IsFirst(own \cup {end}, i)
      BY <1>1, <1>2, <1>3
    <2>3. own \cup {end} # {}
      OBVIOUS
    <2> QED
      BY <1>1, <1>3, <2>1, <2>2, <2>3 DEF UserFirst
  <1>5. PairedBut(m2, c, {end}) /\ (x.n = 0 => PairedBut(m2, c, {}))
    BY <1>1, <1>2 DEF PairedBut
  <1> QED
    BY <1>1, <1>3, <1>4, <1>5 DEF own, end

(* Words end it: the LLM's, or the fallback answer.                          *)
LEMMA AnswerEnds ==
    ASSUME NEW c \in Chats, NEW m \in Seq(Messages), Ready(m, c),
           NEW content \in Contents,
           NEW x, x = AssistantMessage(c, 0, content),
           NEW m2, AddedLast(m, m2, c, x)
    PROVE  /\ m2 \in Seq(Messages) /\ Answered(m2, c)
           /\ Rounds(m2, c) = Rounds(m, c)
           /\ content # "fallback" =>
                \A i \in Own(m2, c) : m2[i].content # "fallback"
  <1> DEFINE end == Len(m) + 1
  <1>1. /\ x \in Messages /\ x.chat = c /\ x.role = "assistant" /\ x.n = 0
        /\ x.content = content
    BY PlainMessages DEF AssistantMessage
  <1>2. IsAnswer(x) /\ ~AsksForTools(x) /\ x.role # "tool"
    BY <1>1 DEF IsAnswer, AsksForTools
  <1>3. /\ UserFirst(m2, c) /\ PairedBut(m2, c, {})
        /\ IsLast(Own(m2, c), end)
        /\ \A i \in Own(m, c) : ~IsLast(Own(m2, c), i)
    BY <1>1, Assists
  <1>4. /\ m2 \in Seq(Messages)
        /\ Own(m2, c) = Own(m, c) \cup {end}
        /\ m2[end] = x
        /\ \A i \in Own(m, c) : m2[i] = m[i]
    BY DEF AddedLast
  <1> HIDE DEF end
  <1>5. \A i \in Own(m, c) : ~IsAnswer(m2[i]) /\ m2[i].content # "fallback"
    BY <1>4 DEF Ready, NotEnded
  <1>6. Answered(m2, c)
    BY <1>2, <1>3, <1>4, <1>5 DEF Answered
  <1>7. { i \in Own(m2, c) : AsksForTools(m2[i]) } =
          { i \in Own(m, c) : AsksForTools(m[i]) }
    BY <1>2, <1>4
  <1> QED
    BY <1>1, <1>4, <1>5, <1>6, <1>7 DEF Rounds

(* A response that asks for tools begins a round.                            *)
LEMMA ResponseAsks ==
    ASSUME NEW c \in Chats, NEW m \in Seq(Messages), Ready(m, c),
           NEW n \in Nat \ {0},
           NEW x, x = AssistantMessage(c, n, "text"),
           NEW m2, AddedLast(m, m2, c, x)
    PROVE  /\ m2 \in Seq(Messages) /\ Asked(m2, c, n)
           /\ Rounds(m2, c) = Rounds(m, c) + 1
  <1> DEFINE end == Len(m) + 1
  <1>1. /\ x \in Messages /\ x.chat = c /\ x.role = "assistant" /\ x.n = n
        /\ x.content = "text"
    BY PlainMessages DEF AssistantMessage, Contents
  <1>2. ~IsAnswer(x) /\ AsksForTools(x) /\ x.role # "tool"
    BY <1>1 DEF IsAnswer, AsksForTools
  <1>3. /\ UserFirst(m2, c) /\ PairedBut(m2, c, {end})
        /\ IsLast(Own(m2, c), end)
    BY <1>1, Assists
  <1>4. /\ m2 \in Seq(Messages)
        /\ Own(m2, c) = Own(m, c) \cup {end}
        /\ m2[end] = x
        /\ \A i \in Own(m, c) : m2[i] = m[i]
        /\ end \notin Own(m, c)
    <2>1. \A i \in Own(m, c) : i \in Int /\ i < end
      BY DEF AddedLast
    <2> QED
      BY <2>1 DEF AddedLast
  <1> HIDE DEF end
  <1>5. NotEnded(m2, c)
    <2>1. \A i \in Own(m, c) : ~IsAnswer(m2[i]) /\ m2[i].content # "fallback"
      BY <1>4 DEF Ready, NotEnded
    <2> QED
      BY <1>1, <1>2, <1>4, <2>1 DEF NotEnded
  <1>6. Asked(m2, c, n)
    BY <1>1, <1>3, <1>4, <1>5 DEF Asked
  <1>7. Rounds(m2, c) = Rounds(m, c) + 1
    <2> DEFINE asking == { i \in Own(m, c) : AsksForTools(m[i]) }
    <2>1. { i \in Own(m2, c) : AsksForTools(m2[i]) } = asking \cup {end}
      BY <1>2, <1>4
    <2>2. IsFiniteSet(asking) /\ end \notin asking
      BY <1>4, RoundsTyped
    <2> HIDE DEF asking
    <2>3. Cardinality(asking \cup {end}) = Cardinality(asking) + 1
      BY <2>2, FS_AddElement
    <2> QED
      BY <2>1, <2>3 DEF Rounds, asking
  <1> QED
    BY <1>4, <1>6, <1>7

(* Tool messages, one for each call in their order, complete it.             *)
LEMMA ToolsAnswer ==
    ASSUME NEW c \in Chats, NEW m \in Seq(Messages), NEW n \in Nat,
           Asked(m, c, n),
           NEW msgs \in Seq(Messages), Len(msgs) = n,
           \A i \in 1..n : /\ msgs[i].role = "tool" /\ msgs[i].chat = c
                           /\ msgs[i].n = i /\ msgs[i].content # "fallback"
    PROVE  /\ m \o msgs \in Seq(Messages) /\ Ready(m \o msgs, c)
           /\ Rounds(m \o msgs, c) = Rounds(m, c)
  <1> DEFINE m2 == m \o msgs
             L == Len(m)
             own == Own(m, c)
             added == L+1..L+n
  <1>1. /\ m2 \in Seq(Messages)
        /\ L \in Nat /\ own \subseteq 1..L
        /\ Own(m2, c) \subseteq Int
        /\ \A i \in Int : i \in Own(m2, c) <=> i \in own \/ i - L \in Own(msgs, c)
        /\ \A i \in 1..L : m2[i] = m[i]
        /\ \A i \in 1..Len(msgs) : m2[L + i] = msgs[i]
    BY OwnAppend
  <1>2. Own(msgs, c) = 1..n
    BY DEF Own
  <1> HIDE DEF L, own, m2
  <1>3. Own(m2, c) = own \cup added
    <2>1. \A i \in Int : i \in Own(m2, c) <=> i \in own \/ i \in added
      <3>1. \A i \in Int : i - L \in 1..n <=> i \in added
        BY <1>1
      <3> QED
        BY <1>1, <1>2, <3>1
    <2>2. own \subseteq Int /\ added \subseteq Int
      BY <1>1
    <2> HIDE DEF added
    <2> QED
      BY <1>1, <2>1, <2>2
  <1>4. /\ \A i \in own : i \in Int /\ i <= L /\ m2[i] = m[i]
        /\ \A i \in added : i \in Int /\ i > L
    BY <1>1
  <1>5. ASSUME NEW i \in added
        PROVE  /\ m2[i].role = "tool" /\ m2[i].n = i - L
               /\ m2[i].content # "fallback"
    <2>1. i - L \in 1..n /\ L + (i - L) = i
      BY <1>1
    <2>2. m2[i] = msgs[i - L]
      BY <1>1, <2>1
    <2> QED
      BY <2>1, <2>2
  <1>6. PICK r \in own : /\ IsLast(own, r)
                         /\ m[r].role = "assistant" /\ m[r].n = n
                         /\ PairedBut(m, c, {r})
    BY DEF Asked, own
  <1>7. UserFirst(m, c) /\ NotEnded(m, c)
    BY DEF Asked
  <1>8. UserFirst(m2, c)
    <2>1. own # {} /\ \A i \in own : m[i].role = "user" <=> IsFirst(own, i)
      BY <1>7 DEF UserFirst, own
    <2>2. \A i \in own : IsFirst(own \cup added, i) <=> IsFirst(own, i)
      <3>1. \A i \in own, j \in added : i <= j
        BY <1>4, <1>1
      <3> HIDE DEF added
      <3> QED
        BY <3>1 DEF IsFirst
    <2>3. \A i \in added : ~IsFirst(own \cup added, i)
      <3>1. \A i \in added : r \in own \cup added /\ ~(i <= r)
        BY <1>1, <1>4
      <3> HIDE DEF added
      <3> QED
        BY <3>1 DEF IsFirst
    <2> HIDE DEF added
    <2>4. \A i \in own \cup added :
            m2[i].role = "user" <=> IsFirst(own \cup added, i)
      BY <1>4, <1>5, <2>1, <2>2, <2>3
    <2> QED
      BY <1>3, <2>1, <2>4 DEF UserFirst
  <1>9. NotEnded(m2, c)
    <2>1. \A i \in own : ~IsAnswer(m2[i]) /\ m2[i].content # "fallback"
      BY <1>4, <1>7 DEF NotEnded, own
    <2>2. \A i \in added : ~IsAnswer(m2[i]) /\ m2[i].content # "fallback"
      BY <1>5 DEF IsAnswer
    <2> QED
      BY <1>3, <2>1, <2>2 DEF NotEnded
  <1>10. Paired(m2, own \cup added, r)
    <2>1. \A i \in own : ~(r < i)
      BY <1>4, <1>6 DEF IsLast
    <2>2. Round(m2, own \cup added, r) = added
      <3>1. \A i \in added : r < i
        BY <1>1, <1>4
      <3>2. \A i \in added, j \in own \cup added :
              r < j /\ j <= i => m2[j].role = "tool"
        BY <1>5, <2>1
      <3> HIDE DEF added
      <3>3. added \subseteq Round(m2, own \cup added, r)
        BY <3>1, <3>2 DEF Round
      <3>4. Round(m2, own \cup added, r) \subseteq added
        BY <2>1 DEF Round
      <3> QED
        BY <3>3, <3>4
    <2>3. m2[r].n = n
      BY <1>4, <1>6
    <2>4. { m2[i].n : i \in added } = 1..n
      <3>1. \A i \in added : m2[i].n \in 1..n
        BY <1>1, <1>5
      <3>2. \A k \in 1..n : L + k \in added /\ m2[L + k].n = k
        BY <1>1, <1>5
      <3> HIDE DEF added
      <3> QED
        BY <3>1, <3>2
    <2>5. \A i, j \in added : i < j => m2[i].n < m2[j].n
      BY <1>1, <1>5
    <2> QED
      BY <2>2, <2>3, <2>4, <2>5 DEF Paired
  <1>11. ASSUME NEW q \in own \ {r}, m2[q].role # "tool"
         PROVE  Paired(m2, own \cup added, q)
    <2>1. Paired(m, own, q)
      BY <1>4, <1>6, <1>11 DEF PairedBut, own
    <2>2. q < r
      BY <1>4, <1>6 DEF IsLast
    <2>3. /\ own \in SUBSET Int /\ added \in SUBSET Int /\ L \in Int
          /\ \A i \in own : i <= L /\ m2[i] = m[i]
          /\ \A i \in added : i > L
      BY <1>1, <1>4
    <2>4. \A i \in added : \E b \in own \cup added :
            q < b /\ b <= i /\ m2[b].role # "tool"
      <3>1. \A i \in added : r <= i
        BY <1>1, <1>4
      <3>2. m2[r].role # "tool"
        BY <1>4, <1>6
      <3> HIDE DEF added
      <3> QED
        BY <2>2, <3>1, <3>2
    <2>5. q \in own
      OBVIOUS
    <2> HIDE DEF added
    <2>6. Paired(m2, own \cup added, q) <=> Paired(m, own, q)
      <3>1. CutOff(m, m2, own, added, L, q)
        BY <2>3, <2>4, <2>5 DEF CutOff
      <3> QED
        BY <3>1, PairedKept
    <2> QED
      BY <2>1, <2>6
  <1>12. PairedBut(m2, c, {})
    BY <1>3, <1>5, <1>10, <1>11 DEF PairedBut
  <1>13. Rounds(m2, c) = Rounds(m, c)
    <2>1. \A i \in added : ~AsksForTools(m2[i])
      BY <1>5 DEF AsksForTools
    <2>2. { i \in own \cup added : AsksForTools(m2[i]) } =
            { i \in own : AsksForTools(m[i]) }
      BY <1>4, <2>1
    <2> QED
      BY <1>3, <2>2 DEF Rounds, own
  <1> QED
    BY <1>1, <1>8, <1>9, <1>12, <1>13 DEF Ready, m2

-----------------------------------------------------------------------------
(* Where a chat is, and what it added to its session by then.                *)
Loop(c, place, m, begun, asked) ==
    /\ place = "llm" => Ready(m, c) /\ Rounds(m, c) = begun - 1
    /\ place = "tools" =>
         Asked(m, c, asked) /\ asked # 0 /\ Rounds(m, c) = begun
    /\ place = "answered" =>
         /\ Answered(m, c) /\ Rounds(m, c) \in {begun - 1, begun}
         /\ (\E i \in Own(m, c) : m[i].content = "fallback") =>
              Rounds(m, c) = MaxDepth
    /\ place = "raised" =>
         /\ Ready(m, c) \/ \E n \in Nat \ {0} : Asked(m, c, n)
         /\ Rounds(m, c) \in {begun - 1, begun}

(* An idle chat is nowhere yet, and one that was started is in its session   *)
(* only.                                                                     *)
ProgressOf(c) ==
    /\ pc[c] = "idle" => held[c] = NoSession /\ depth[c] = 0
    /\ pc[c] # "idle" =>
         Loop(c, pc[c], messages[held[c]], depth[c], calls[c])
    /\ \A s \in Sessions \ {held[c]} : Own(messages[s], c) = {}

Progress == \A c \in Chats : ProgressOf(c)

OnlyFrom(c, msgs) == \A i \in DOMAIN msgs : msgs[i].chat = c

LEMMA LoopOthers ==
    ASSUME NEW c \in Chats, NEW place, NEW begun, NEW asked,
           NEW m \in Seq(Messages), NEW msgs \in Seq(Messages),
           Own(msgs, c) = {}, Loop(c, place, m, begun, asked)
    PROVE  Loop(c, place, m \o msgs, begun, asked)
  <1> DEFINE m2 == m \o msgs
  <1>1. /\ Own(m2, c) = Own(m, c)
        /\ Rounds(m2, c) = Rounds(m, c)
        /\ \A i \in Own(m, c) : m2[i] = m[i]
        /\ Ready(m, c) => Ready(m2, c)
        /\ \A n : Asked(m, c, n) => Asked(m2, c, n)
        /\ Answered(m, c) => Answered(m2, c)
    BY OthersAdd
  <1> HIDE DEF m2
  <1>2. Loop(c, place, m2, begun, asked)
    BY <1>1 DEF Loop
  <1> QED
    BY <1>2 DEF m2

(* What a chat adds to its session leaves the other chats where they are.    *)
LEMMA ProgressOthers ==
    ASSUME BaseInv, Progress, NEW c \in Chats, NEW b \in Chats \ {c},
           NEW s \in Sessions, NEW msgs \in Seq(Messages), OnlyFrom(c, msgs),
           messages' = [messages EXCEPT ![s] = @ \o msgs],
           pc'[b] = pc[b], held'[b] = held[b], depth'[b] = depth[b],
           calls'[b] = calls[b]
    PROVE  ProgressOf(b)'
  <1>1. /\ messages \in [Sessions -> Seq(Messages)]
        /\ pc[b] # "idle" => held[b] \in Sessions
        /\ ProgressOf(b)
    BY DEF BaseInv, TypeOK, HoldsCreated, Progress
  <1>2. Own(msgs, b) = {}
    BY DEF Own, OnlyFrom
  <1>3. ASSUME NEW t \in Sessions
        PROVE  /\ messages'[t] = IF t = s THEN messages[t] \o msgs ELSE messages[t]
               /\ Own(messages'[t], b) = Own(messages[t], b)
    <2>1. messages'[t] = IF t = s THEN messages[t] \o msgs ELSE messages[t]
      BY <1>1
    <2>2. Own(messages[t] \o msgs, b) = Own(messages[t], b)
      BY <1>1, <1>2, OthersAdd
    <2> QED
      BY <2>1, <2>2
  <1>4. pc[b] # "idle" => Loop(b, pc[b], messages'[held[b]], depth[b], calls[b])
    <2>1. SUFFICES ASSUME pc[b] # "idle"
                   PROVE  Loop(b, pc[b], messages'[held[b]], depth[b], calls[b])
      OBVIOUS
    <2>2. /\ Loop(b, pc[b], messages[held[b]], depth[b], calls[b])
          /\ messages[held[b]] \in Seq(Messages) /\ held[b] \in Sessions
      BY <1>1, <2>1 DEF ProgressOf
    <2>3. Loop(b, pc[b], messages[held[b]] \o msgs, depth[b], calls[b])
      BY <1>2, <2>2, LoopOthers
    <2> QED
      BY <1>3, <2>2, <2>3
  <1> QED
    BY <1>1, <1>3, <1>4 DEF ProgressOf

(* The chat itself, once it is known where its own messages leave it.        *)
LEMMA ProgressOwn ==
    ASSUME BaseInv, Progress, NEW c \in Chats, NEW s \in Sessions,
           NEW msgs \in Seq(Messages), OnlyFrom(c, msgs),
           messages' = [messages EXCEPT ![s] = @ \o msgs],
           \A b \in Chats \ {c} : /\ pc'[b] = pc[b] /\ held'[b] = held[b]
                                  /\ depth'[b] = depth[b] /\ calls'[b] = calls[b],
           held'[c] = s, pc[c] # "idle" => held[c] = s,
           pc'[c] # "idle",
           Loop(c, pc'[c], messages[s] \o msgs, depth'[c], calls'[c])
    PROVE  Progress'
  <1>1. messages \in [Sessions -> Seq(Messages)] /\ ProgressOf(c)
    BY DEF BaseInv, TypeOK, Progress
  <1>2. \A t \in Sessions \ {s} : messages'[t] = messages[t]
    BY <1>1
  <1>3. messages'[s] = messages[s] \o msgs
    BY <1>1
  <1>4. \A t \in Sessions \ {s} : Own(messages[t], c) = {}
    BY <1>1, AgentAssumption DEF ProgressOf
  <1>5. ProgressOf(c)'
    BY <1>2, <1>3, <1>4 DEF ProgressOf
  <1>6. \A b \in Chats \ {c} : ProgressOf(b)'
    BY ProgressOthers
  <1> QED
    BY <1>5, <1>6 DEF Progress

(* The assistant's message at the end of a session's messages.               *)
LEMMA AssistantAdded ==
    ASSUME NEW c \in Chats, NEW m \in Seq(Messages), NEW n \in Nat,
           NEW content \in Contents
    PROVE  AddedLast(m, m \o <<AssistantMessage(c, n, content)>>, c,
                     AssistantMessage(c, n, content))
  <1> DEFINE x == AssistantMessage(c, n, content)
  <1>1. x \in Messages /\ x.chat = c /\ x.role # "tool"
    BY PlainMessages DEF AssistantMessage
  <1> HIDE DEF x
  <1>2. AddedLast(m, m \o <<x>>, c, x)
    BY <1>1, OneMore
  <1> QED
    BY <1>2 DEF x

LEMMA OnlyAssistant ==
    ASSUME NEW c \in Chats, NEW n \in Nat, NEW content \in Contents
    PROVE  /\ <<AssistantMessage(c, n, content)>> \in Seq(Messages)
           /\ OnlyFrom(c, <<AssistantMessage(c, n, content)>>)
  BY PlainMessages DEF OnlyFrom, AssistantMessage

LEMMA FallbackAppended ==
    ASSUME NEW m \in Seq(Messages), NEW msgs \in Seq(Messages),
           NEW x \in Messages
    PROVE  m \o Append(msgs, x) = (m \o msgs) \o <<x>>
  OBVIOUS

LEMMA OnlyFromAppend ==
    ASSUME NEW c \in Chats, NEW msgs \in Seq(Messages), OnlyFrom(c, msgs),
           NEW x \in Messages, x.chat = c
    PROVE  Append(msgs, x) \in Seq(Messages) /\ OnlyFrom(c, Append(msgs, x))
  <1> DEFINE all == Append(msgs, x)
  <1>1. /\ all \in Seq(Messages) /\ Len(msgs) \in Nat
        /\ DOMAIN msgs = 1..Len(msgs)
        /\ DOMAIN all = 1..Len(msgs) + 1
        /\ \A i \in 1..Len(msgs) : all[i] = msgs[i]
        /\ all[Len(msgs) + 1] = x
    OBVIOUS
  <1> HIDE DEF all
  <1>2. \A i \in DOMAIN all : i \in DOMAIN msgs \/ i = Len(msgs) + 1
    BY <1>1
  <1>3. OnlyFrom(c, all)
    BY <1>1, <1>2 DEF OnlyFrom
  <1> QED
    BY <1>1, <1>3 DEF all

(* The loop goes on, or ends with the fallback answer, from a transcript     *)
(* whose calls are all answered.                                             *)
LEMMA IterationProgress ==
    ASSUME BaseInv, Progress, NEW c \in Chats, NEW s \in Sessions,
           NEW msgs \in Seq(Messages), OnlyFrom(c, msgs),
           NextIteration(c, s, msgs),
           Ready(messages[s] \o msgs, c),
           Rounds(messages[s] \o msgs, c) = depth[c],
           held' = [held EXCEPT ![c] = s], pc[c] # "idle" => held[c] = s,
           UNCHANGED calls
    PROVE  Progress'
  <1>1. /\ pc \in [Chats -> {"idle"} \cup Running \cup Ended]
        /\ held \in [Chats -> Sessions \cup {NoSession}]
        /\ depth \in [Chats -> 0..MaxDepth]
        /\ messages \in [Sessions -> Seq(Messages)]
    BY DEF BaseInv, TypeOK
  <1>2. held'[c] = s /\ \A b \in Chats \ {c} : held'[b] = held[b]
    BY <1>1
  <1>3. CASE MayGoOn(c)
    <2>1. /\ depth' = [depth EXCEPT ![c] = @ + 1]
          /\ pc' = [pc EXCEPT ![c] = "llm"]
          /\ messages' = [messages EXCEPT ![s] = @ \o msgs]
      BY <1>3 DEF NextIteration, AddMessages
    <2>2. /\ depth'[c] = depth[c] + 1 /\ pc'[c] = "llm"
          /\ \A b \in Chats \ {c} : pc'[b] = pc[b] /\ depth'[b] = depth[b]
      BY <1>1, <2>1
    <2>3. depth'[c] - 1 = depth[c]
      BY <1>1, <2>2
    <2>4. Loop(c, "llm", messages[s] \o msgs, depth'[c], calls'[c])
      BY <2>3 DEF Loop
    <2> QED
      BY <1>2, <2>1, <2>2, <2>4, ProgressOwn
  <1>4. CASE ~MayGoOn(c)
    <2> DEFINE x == AssistantMessage(c, 0, "fallback")
               m == messages[s] \o msgs
               all == Append(msgs, x)
    <2>1. /\ pc' = [pc EXCEPT ![c] = "answered"]
          /\ messages' = [messages EXCEPT ![s] = @ \o all]
          /\ UNCHANGED depth
      BY <1>4 DEF NextIteration, AddMessages
    <2>2. /\ pc'[c] = "answered"
          /\ \A b \in Chats \ {c} : pc'[b] = pc[b] /\ depth'[b] = depth[b]
      BY <1>1, <2>1
    <2>3. depth[c] = MaxDepth
      BY <1>1, <1>4, AgentAssumption DEF MayGoOn
    <2>4. x \in Messages /\ x.chat = c /\ AddedLast(m, m \o <<x>>, c, x)
      <3>1. "fallback" \in Contents
        BY DEF Contents
      <3>2. m \in Seq(Messages)
        BY <1>1, OwnAppend
      <3>3. x \in Messages /\ x.chat = c
        BY <3>1, PlainMessages DEF AssistantMessage
      <3> HIDE DEF m
      <3> QED
        BY <3>1, <3>2, <3>3, AssistantAdded
    <2>5. messages[s] \o all = m \o <<x>>
      BY <1>1, <2>4, FallbackAppended
    <2>6. all \in Seq(Messages) /\ OnlyFrom(c, all)
      <3> HIDE DEF x
      <3> QED
        BY <2>4, OnlyFromAppend
    <2>7. Answered(m \o <<x>>, c) /\ Rounds(m \o <<x>>, c) = depth[c]
      <3>1. m \in Seq(Messages) /\ Ready(m, c) /\ Rounds(m, c) = depth[c]
        BY <1>1, OwnAppend
      <3>2. "fallback" \in Contents
        BY DEF Contents
      <3> HIDE DEF m
      <3> QED
        BY <2>4, <3>1, <3>2, AnswerEnds
    <2>8. Loop(c, "answered", messages[s] \o all, depth'[c], calls'[c])
      <3> HIDE DEF m, x, all
      <3> QED
        BY <2>1, <2>3, <2>5, <2>7 DEF Loop
    <2> HIDE DEF m, x, all
    <2> QED
      BY <1>2, <2>1, <2>2, <2>6, <2>8, ProgressOwn
  <1> QED
    BY <1>3, <1>4

LEMMA StartProgress ==
    ASSUME BaseInv, Progress, NEW c \in Chats, NEW s \in Sessions,
           \/ ContinueSession(c, s)
           \/ \E r \in Sessions \cup {NoSession} : OpenSession(c, r, s)
    PROVE  Progress'
  <1> DEFINE msgs == <<UserMessage(c)>>
  <1>1. /\ pc[c] = "idle" /\ held' = [held EXCEPT ![c] = s]
        /\ NextIteration(c, s, msgs)
        /\ UNCHANGED calls
    BY DEF ContinueSession, OpenSession
  <1>2. /\ messages[s] \in Seq(Messages) /\ Own(messages[s], c) = {}
        /\ depth[c] = 0
    <2>1. ProgressOf(c) /\ messages \in [Sessions -> Seq(Messages)]
      BY DEF BaseInv, TypeOK, Progress
    <2> QED
      BY <1>1, <2>1, AgentAssumption DEF ProgressOf
  <1>3. msgs \in Seq(Messages) /\ OnlyFrom(c, msgs)
    BY PlainMessages DEF OnlyFrom, UserMessage, Contents
  <1>4. Ready(messages[s] \o msgs, c) /\ Rounds(messages[s] \o msgs, c) = depth[c]
    BY <1>2, UserBegins
  <1> HIDE DEF msgs
  <1> QED
    BY <1>1, <1>3, <1>4, IterationProgress

LEMMA LLMProgress ==
    ASSUME BaseInv, Progress, NEW c \in Chats,
           \/ LLMAnswers(c)
           \/ \E n \in CallCounts : LLMCallsTools(c, n) \/ LLMCallsMalformed(c, n)
    PROVE  Progress'
  <1> DEFINE s == held[c]
             m == messages[held[c]]
  <1>1. /\ pc[c] = "llm" /\ s \in Sessions /\ m \in Seq(Messages)
        /\ ProgressOf(c)
        /\ pc \in [Chats -> {"idle"} \cup Running \cup Ended]
        /\ calls \in [Chats -> CallCounts \cup {0}]
        /\ depth[c] \in Nat
    <2>1. depth[c] \in 0..MaxDepth
      BY DEF BaseInv, TypeOK
    <2>2. depth[c] \in Nat
      BY <2>1, AgentAssumption
    <2>3. pc[c] = "llm"
      BY DEF LLMAnswers, LLMCallsTools, LLMCallsMalformed
    <2>4. held[c] \in Sessions /\ messages[held[c]] \in Seq(Messages)
      BY <2>3 DEF BaseInv, TypeOK, HoldsCreated
    <2> QED
      BY <2>2, <2>3, <2>4 DEF BaseInv, TypeOK, Progress
  <1>2. Ready(m, c) /\ Rounds(m, c) = depth[c] - 1
    BY <1>1 DEF ProgressOf, Loop
  <1>3. UNCHANGED <<held, depth>>
    BY DEF LLMAnswers, LLMCallsTools, LLMCallsMalformed
  <1> HIDE DEF s, m
  <1>4. CASE LLMAnswers(c)
    <2> DEFINE x == AssistantMessage(c, 0, "text")
    <2>1. /\ messages' = [messages EXCEPT ![s] = @ \o <<x>>]
          /\ pc' = [pc EXCEPT ![c] = "answered"] /\ UNCHANGED calls
      BY <1>4 DEF LLMAnswers, AddMessages, s
    <2>2. "text" \in Contents /\ "text" # "fallback"
      BY DEF Contents
    <2>3. AddedLast(m, m \o <<x>>, c, x)
      BY <1>1, <2>2, AssistantAdded
    <2>4. /\ Answered(m \o <<x>>, c) /\ Rounds(m \o <<x>>, c) = Rounds(m, c)
          /\ \A i \in Own(m \o <<x>>, c) : (m \o <<x>>)[i].content # "fallback"
      <3>1. x = AssistantMessage(c, 0, "text")
        OBVIOUS
      <3> DEFINE m2 == m \o <<x>>
      <3>2. AddedLast(m, m2, c, x)
        BY <2>3
      <3> HIDE DEF x, m2
      <3>3. /\ Answered(m2, c) /\ Rounds(m2, c) = Rounds(m, c)
            /\ \A i \in Own(m2, c) : m2[i].content # "fallback"
        BY <1>1, <1>2, <2>2, <3>1, <3>2, AnswerEnds
      <3> QED
        BY <3>3 DEF m2
    <2>5. <<x>> \in Seq(Messages) /\ OnlyFrom(c, <<x>>)
      BY <2>2, OnlyAssistant
    <2> HIDE DEF x
    <2>6. Loop(c, "answered", m \o <<x>>, depth[c], calls'[c])
      BY <1>2, <2>4 DEF Loop
    <2>7. /\ pc'[c] = "answered" /\ messages[s] = m /\ pc'[c] # "idle"
          /\ \A b \in Chats \ {c} : pc'[b] = pc[b]
      BY <1>1, <2>1 DEF m, s
    <2>8. Loop(c, pc'[c], messages[s] \o <<x>>, depth'[c], calls'[c])
      BY <1>3, <2>6, <2>7
    <2> QED
      BY <1>1, <1>3, <2>1, <2>5, <2>7, <2>8, ProgressOwn DEF s
  <1>5. ASSUME NEW n \in CallCounts, LLMCallsTools(c, n) \/ LLMCallsMalformed(c, n)
        PROVE  Progress'
    <2> DEFINE x == AssistantMessage(c, n, "text")
    <2>1. PICK place \in {"tools", "raised"} :
            /\ messages' = [messages EXCEPT ![s] = @ \o <<x>>]
            /\ pc' = [pc EXCEPT ![c] = place]
            /\ calls' = [calls EXCEPT ![c] = n]
      BY <1>5 DEF LLMCallsTools, LLMCallsMalformed, AddMessages, s
    <2>2. "text" \in Contents /\ n \in Nat /\ n \in Nat \ {0}
      BY AgentAssumption DEF Contents
    <2>3. AddedLast(m, m \o <<x>>, c, x)
      BY <1>1, <2>2, AssistantAdded
    <2>4. Asked(m \o <<x>>, c, n) /\ Rounds(m \o <<x>>, c) = Rounds(m, c) + 1
      BY <1>1, <1>2, <2>2, <2>3, ResponseAsks
    <2>5. <<x>> \in Seq(Messages) /\ OnlyFrom(c, <<x>>)
      BY <2>2, OnlyAssistant
    <2> HIDE DEF x
    <2>6. Rounds(m \o <<x>>, c) = depth[c]
      BY <1>1, <1>2, <2>4
    <2>7. Loop(c, place, m \o <<x>>, depth[c], n)
      BY <2>2, <2>4, <2>6 DEF Loop
    <2>8. /\ pc'[c] = place /\ messages[s] = m /\ calls'[c] = n /\ pc'[c] # "idle"
          /\ \A b \in Chats \ {c} : pc'[b] = pc[b] /\ calls'[b] = calls[b]
      BY <1>1, <2>1 DEF m, s
    <2>9. Loop(c, pc'[c], messages[s] \o <<x>>, depth'[c], calls'[c])
      BY <1>3, <2>7, <2>8
    <2> QED
      BY <1>1, <1>3, <2>1, <2>5, <2>8, <2>9, ProgressOwn DEF s
  <1> QED
    BY <1>4, <1>5

(* Where an exception ends the chat, its transcript stays as it is.          *)
LEMMA RaiseProgress ==
    ASSUME BaseInv, Progress, NEW c \in Chats, LLMRaises(c) \/ CancelChat(c)
    PROVE  Progress'
  <1>1. /\ pc[c] \in Running
        /\ pc' = [pc EXCEPT ![c] = "raised"]
        /\ UNCHANGED <<messages, held, depth, calls>>
    BY DEF LLMRaises, CancelChat, sessionVars, Running
  <1>2. pc \in [Chats -> {"idle"} \cup Running \cup Ended]
    BY DEF BaseInv, TypeOK
  <1>3. /\ pc'[c] = "raised"
        /\ \A b \in Chats \ {c} : pc'[b] = pc[b]
    BY <1>1, <1>2
  <1>4. /\ ProgressOf(c) /\ calls[c] \in Nat /\ depth[c] \in Int
    <2>1. calls[c] \in CallCounts \cup {0} /\ depth[c] \in 0..MaxDepth
      BY DEF BaseInv, TypeOK
    <2> QED
      BY <2>1, AgentAssumption DEF Progress
  <1>5. Loop(c, "raised", messages[held[c]], depth[c], calls[c])
    BY <1>1, <1>4 DEF ProgressOf, Loop, Running
  <1>6. ProgressOf(c)'
    BY <1>1, <1>3, <1>4, <1>5 DEF ProgressOf
  <1>7. \A b \in Chats \ {c} : ProgressOf(b)'
    BY <1>1, <1>3 DEF Progress, ProgressOf
  <1> QED
    BY <1>6, <1>7 DEF Progress

LEMMA ToolsProgress ==
    ASSUME BaseInv, Progress, NEW c \in Chats, NEW outcome \in Outcomes,
           ToolsReturn(c, outcome)
    PROVE  Progress'
  <1> DEFINE n == calls[c]
             msgs == ToolMessages(c, n, outcome)
             m == messages[held[c]]
  <1>1. CallCounts \cup {0} \subseteq Nat
    BY AgentAssumption
  <1>2. /\ pc[c] = "tools" /\ held[c] \in Sessions /\ m \in Seq(Messages)
        /\ held \in [Chats -> Sessions \cup {NoSession}]
        /\ n \in Nat /\ DOMAIN outcome = 1..Executed(n)
        /\ NextIteration(c, held[c], msgs) /\ UNCHANGED <<held, calls>>
        /\ ProgressOf(c)
    BY <1>1
    DEF BaseInv, TypeOK, HoldsCreated, Progress, ToolsReturn, ExecutedAnswered
  <1>3. Asked(m, c, n) /\ Rounds(m, c) = depth[c]
    BY <1>2 DEF ProgressOf, Loop
  <1>4. msgs \in Seq(Messages)
    BY <1>2, ToolMessagesTyped
  <1>5. /\ Len(msgs) = n /\ DOMAIN msgs = 1..n
        /\ \A i \in 1..n : /\ msgs[i].role = "tool" /\ msgs[i].chat = c
                           /\ msgs[i].n = i /\ msgs[i].content # "fallback"
    <2>1. PICK k \in 0..MaxCalls : outcome \in [1..k -> {"result"}]
      BY DEF Outcomes
    <2>2. Executed(n) \in Nat
      BY <1>2, AgentAssumption DEF Executed
    <2>3. \A i \in 1..n :
            (IF i <= Executed(n) THEN outcome[i] ELSE "unavailable") # "fallback"
      BY <1>2, <2>1, <2>2
    <2>4. DOMAIN msgs = 1..n
      BY DEF ToolMessages
    <2>5. \A i \in 1..n : /\ msgs[i].role = "tool" /\ msgs[i].chat = c
                          /\ msgs[i].n = i /\ msgs[i].content # "fallback"
      BY <2>3 DEF ToolMessages, ToolMessage
    <2> HIDE DEF msgs, n
    <2>6. Len(msgs) = n
      BY <1>2, <1>4, <2>4
    <2> QED
      BY <2>4, <2>5, <2>6
  <1>6. OnlyFrom(c, msgs)
    BY <1>5 DEF OnlyFrom
  <1>7. held' = [held EXCEPT ![c] = held[c]]
    BY <1>2
  <1> HIDE DEF msgs, m, n
  <1>8. Ready(m \o msgs, c) /\ Rounds(m \o msgs, c) = depth[c]
    BY <1>2, <1>3, <1>4, <1>5, ToolsAnswer
  <1> QED
    BY <1>2, <1>4, <1>6, <1>7, <1>8, IterationProgress DEF m

-----------------------------------------------------------------------------
(* chain_depth counts the iterations of a session's chats.                   *)
SessionDepths ==
    \A s \in Sessions :
      /\ IsFiniteSet(Iterations(s))
      /\ chainDepth[s] = Cardinality(Iterations(s))

LEMMA IterationDepths ==
    ASSUME BaseInv, Progress, SessionDepths, NEW c \in Chats,
           NEW s \in Sessions, NEW msgs, NextIteration(c, s, msgs),
           held' = [held EXCEPT ![c] = s], pc[c] # "idle" => held[c] = s
    PROVE  SessionDepths'
  <1>1. /\ held \in [Chats -> Sessions \cup {NoSession}]
        /\ depth \in [Chats -> 0..MaxDepth]
        /\ chainDepth \in [Sessions -> Nat]
    BY DEF BaseInv, TypeOK
  <1>2. held[c] = s \/ depth[c] = 0
    BY DEF Progress, ProgressOf
  <1>3. /\ held'[c] = s
        /\ \A b \in Chats \ {c} : held'[b] = held[b]
    BY <1>1
  <1>4. CASE MayGoOn(c)
    <2> DEFINE new == <<c, depth[c] + 1>>
    <2>1. /\ depth' = [depth EXCEPT ![c] = @ + 1]
          /\ chainDepth' = [chainDepth EXCEPT ![s] = @ + 1]
      BY <1>4 DEF NextIteration
    <2>2. /\ depth'[c] = depth[c] + 1
          /\ \A b \in Chats \ {c} : depth'[b] = depth[b]
          /\ chainDepth'[s] = chainDepth[s] + 1
          /\ \A t \in Sessions \ {s} : chainDepth'[t] = chainDepth[t]
      BY <1>1, <2>1
    <2>3. depth[c] \in Nat /\ depth[c] + 1 \in 1..MaxDepth
      <3>1. depth[c] \in 0..MaxDepth
        BY <1>1
      <3> QED
        BY <1>4, <3>1, AgentAssumption DEF MayGoOn
    <2>4. ASSUME NEW t \in Sessions \ {s}
          PROVE  Iterations(t)' = Iterations(t)
      <3>1. ASSUME NEW b \in Chats, NEW k \in 1..MaxDepth
            PROVE  held'[b] = t /\ k <= depth'[b] <=> held[b] = t /\ k <= depth[b]
        <4>1. CASE b = c
          BY <1>2, <1>3, <4>1
        <4>2. CASE b # c
          BY <1>3, <2>2, <4>2
        <4> QED
          BY <4>1, <4>2
      <3> QED
        BY <3>1 DEF Iterations
    <2>5. Iterations(s)' = Iterations(s) \cup {new} /\ new \notin Iterations(s)
      <3>1. ASSUME NEW b \in Chats, NEW k \in 1..MaxDepth
            PROVE  held'[b] = s /\ k <= depth'[b]
                     <=> (held[b] = s /\ k <= depth[b]) \/ <<b, k>> = new
        <4>1. CASE b = c
          <5>1. k <= depth[c] + 1 <=> k <= depth[c] \/ k = depth[c] + 1
            BY <2>3
          <5>2. held[c] = s \/ ~(k <= depth[c])
            BY <1>2
          <5> QED
            BY <1>3, <2>2, <4>1, <5>1, <5>2
        <4>2. CASE b # c
          BY <1>3, <2>2, <4>2
        <4> QED
          BY <4>1, <4>2
      <3>2. new \in Chats \X (1..MaxDepth) /\ new[1] = c /\ new[2] = depth[c] + 1
        BY <2>3
      <3>3. new \notin Iterations(s)
        BY <2>3, <3>2 DEF Iterations
      <3>4. new \in Iterations(s)'
        BY <1>3, <2>2, <2>3, <3>2 DEF Iterations
      <3>5. \A p \in Chats \X (1..MaxDepth) : p = <<p[1], p[2]>>
        OBVIOUS
      <3> HIDE DEF new
      <3>6. Iterations(s)' = Iterations(s) \cup {new}
        BY <3>1, <3>4, <3>5 DEF Iterations
      <3> QED
        BY <3>3, <3>6
    <2>6. /\ IsFiniteSet(Iterations(s) \cup {new})
          /\ Cardinality(Iterations(s) \cup {new}) = Cardinality(Iterations(s)) + 1
      <3> HIDE DEF new
      <3> QED
        BY <2>5, FS_AddElement DEF SessionDepths
    <2> HIDE DEF new
    <2> QED
      BY <2>2, <2>4, <2>5, <2>6 DEF SessionDepths
  <1>5. CASE ~MayGoOn(c)
    <2>1. UNCHANGED <<depth, chainDepth>>
      BY <1>5 DEF NextIteration
    <2>2. ASSUME NEW t \in Sessions
          PROVE  Iterations(t)' = Iterations(t)
      <3>1. ASSUME NEW b \in Chats, NEW k \in 1..MaxDepth
            PROVE  held'[b] = t /\ k <= depth'[b] <=> held[b] = t /\ k <= depth[b]
        <4>1. CASE b = c
          BY <1>2, <1>3, <2>1, <4>1
        <4>2. CASE b # c
          BY <1>3, <2>1, <4>2
        <4> QED
          BY <4>1, <4>2
      <3> QED
        BY <3>1 DEF Iterations
    <2> QED
      BY <2>1, <2>2 DEF SessionDepths
  <1> QED
    BY <1>4, <1>5

-----------------------------------------------------------------------------
AgentInv == BaseInv /\ Progress /\ SessionDepths

LEMMA AgentInit == Init => AgentInv
  <1> SUFFICES ASSUME Init
               PROVE  AgentInv
    OBVIOUS
  <1>1. Progress
    BY DEF Init, Progress, ProgressOf, Own
  <1>2. ASSUME NEW s \in Sessions
        PROVE  Iterations(s) = {}
    BY AgentAssumption DEF Init, Iterations
  <1>3. SessionDepths
    BY <1>2, FS_EmptySet DEF Init, SessionDepths
  <1> QED
    BY <1>1, <1>3, BaseInit DEF AgentInv

LEMMA AgentStep == AgentInv /\ [Next]_vars => AgentInv'
  <1> SUFFICES ASSUME AgentInv, [Next]_vars
               PROVE  AgentInv'
    OBVIOUS
  <1>1. BaseInv /\ Progress /\ SessionDepths
    BY DEF AgentInv
  <1>2. BaseInv'
    BY <1>1, BaseStep
  <1>3. ASSUME NEW c \in Chats, NEW s \in Sessions,
               \/ ContinueSession(c, s)
               \/ \E r \in Sessions \cup {NoSession} : OpenSession(c, r, s)
        PROVE  Progress' /\ SessionDepths'
    <2>1. Progress'
      BY <1>1, <1>3, StartProgress
    <2>2. /\ pc[c] = "idle" /\ held' = [held EXCEPT ![c] = s]
          /\ NextIteration(c, s, <<UserMessage(c)>>)
      BY <1>3 DEF ContinueSession, OpenSession
    <2> QED
      BY <1>1, <2>1, <2>2, IterationDepths
  <1>4. ASSUME NEW c \in Chats, NEW outcome \in Outcomes, ToolsReturn(c, outcome)
        PROVE  Progress' /\ SessionDepths'
    <2>1. Progress'
      BY <1>1, <1>4, ToolsProgress
    <2>2. /\ held[c] \in Sessions /\ held' = [held EXCEPT ![c] = held[c]]
          /\ NextIteration(c, held[c], ToolMessages(c, calls[c], outcome))
      BY <1>1, <1>4 DEF BaseInv, TypeOK, HoldsCreated, ToolsReturn
    <2>3. SessionDepths'
      BY <1>1, <2>2, IterationDepths
    <2> QED
      BY <2>1, <2>3
  <1>5. ASSUME NEW c \in Chats,
               \/ LLMAnswers(c)
               \/ \E n \in CallCounts :
                    LLMCallsTools(c, n) \/ LLMCallsMalformed(c, n)
               \/ LLMRaises(c) \/ CancelChat(c)
        PROVE  Progress' /\ SessionDepths'
    <2>1. Progress'
      BY <1>1, <1>5, LLMProgress, RaiseProgress
    <2>2. UNCHANGED <<held, depth, chainDepth>>
      BY <1>5 DEF LLMAnswers, LLMCallsTools, LLMCallsMalformed, LLMRaises,
                  CancelChat, sessionVars
    <2>3. \A s \in Sessions : Iterations(s)' = Iterations(s)
      BY <2>2 DEF Iterations
    <2> QED
      BY <1>1, <2>1, <2>2, <2>3 DEF SessionDepths
  <1>6. ASSUME \/ \E s \in Sessions :
                    CreateSession(s) \/ DeleteSession(s) \/ GrowStale(s)
               \/ CleanupExpired
               \/ UNCHANGED vars
        PROVE  Progress' /\ SessionDepths'
    <2>1. UNCHANGED <<messages, chainDepth, pc, held, depth, calls>>
      BY <1>6 DEF CreateSession, DeleteSession, GrowStale, CleanupExpired,
                  chatVars, vars
    <2>2. Progress'
      BY <1>1, <2>1 DEF Progress, ProgressOf
    <2>3. \A s \in Sessions : Iterations(s)' = Iterations(s)
      BY <2>1 DEF Iterations
    <2> QED
      BY <1>1, <2>1, <2>2, <2>3 DEF SessionDepths
  <1>7. Progress' /\ SessionDepths'
    BY <1>3, <1>4, <1>5, <1>6 DEF Next, ChatStep
  <1> QED
    BY <1>2, <1>7 DEF AgentInv

(* What a chat that was started has in its session, wherever it is.          *)
LEMMA LoopShows ==
    ASSUME NEW c \in Chats, NEW place \in Running \cup Ended, NEW m,
           NEW begun, NEW asked \in Nat, Loop(c, place, m, begun, asked)
    PROVE  /\ UserFirst(m, c)
           /\ \A r \in Own(m, c) : m[r].role # "tool" =>
                \/ Paired(m, Own(m, c), r)
                \/ IsLast(Own(m, c), r) /\ place \in {"tools", "raised"}
           /\ \A i \in Own(m, c) : IsAnswer(m[i]) => IsLast(Own(m, c), i)
           /\ (\E i \in Own(m, c) : IsAnswer(m[i])) <=> place = "answered"
           /\ place # "answered" =>
                \A i \in Own(m, c) : m[i].content # "fallback"
  <1>1. CASE Ready(m, c) /\ place # "answered"
    BY <1>1 DEF Ready, NotEnded, PairedBut
  <1>2. ASSUME NEW n \in Nat, Asked(m, c, n), place \in {"tools", "raised"}
        PROVE  /\ UserFirst(m, c)
               /\ \A r \in Own(m, c) : m[r].role # "tool" =>
                    \/ Paired(m, Own(m, c), r)
                    \/ IsLast(Own(m, c), r)
               /\ NotEnded(m, c)
    BY <1>2 DEF Asked, PairedBut
  <1>3. CASE Answered(m, c) /\ place = "answered"
    BY <1>3 DEF Answered, PairedBut
  <1>4. \/ Ready(m, c) /\ place # "answered"
        \/ (\E n \in Nat : Asked(m, c, n)) /\ place \in {"tools", "raised"}
        \/ Answered(m, c) /\ place = "answered"
    BY DEF Loop, Running, Ended
  <1>5. CASE (\E n \in Nat : Asked(m, c, n)) /\ place \in {"tools", "raised"}
    BY <1>2, <1>5 DEF NotEnded
  <1> QED
    BY <1>1, <1>3, <1>4, <1>5

LEMMA Started ==
    ASSUME AgentInv, NEW c \in Chats, pc[c] # "idle"
    PROVE  /\ pc[c] \in Running \cup Ended /\ calls[c] \in Nat
           /\ depth[c] \in 0..MaxDepth
           /\ Loop(c, pc[c], messages[held[c]], depth[c], calls[c])
           /\ \A s \in Sessions \ {held[c]} : Own(messages[s], c) = {}
  <1>1. /\ pc[c] \in {"idle"} \cup Running \cup Ended
        /\ calls[c] \in CallCounts \cup {0}
        /\ depth[c] \in 0..MaxDepth
    BY DEF AgentInv, BaseInv, TypeOK
  <1>2. calls[c] \in Nat
    <2>1. CallCounts \cup {0} \subseteq Nat
      BY AgentAssumption
    <2> QED
      BY <1>1, <2>1
  <1>3. ProgressOf(c)
    BY DEF AgentInv, Progress
  <1> QED
    BY <1>1, <1>2, <1>3 DEF ProgressOf

(* AGT-10 for the messages of one chat (core/agent.py:66-141): whatever      *)
(* other chats of the session, deletions and cancellations interleave, they  *)
(* are its user message, complete groups of a response and its tool results  *)
(* but perhaps the last, and one answer, last, when the chat was answered;   *)
(* for any number of chats and sessions, any limits and any number of calls. *)
THEOREM ChatTranscriptKept == Spec => []ChatTranscript
  <1>1. ASSUME AgentInv PROVE ChatTranscript
    <2>1. SUFFICES ASSUME NEW c \in Chats, pc[c] # "idle"
                   PROVE  LET m == messages[held[c]]
                              own == Own(m, c)
                          IN  /\ own # {}
                              /\ \A i \in own :
                                   m[i].role = "user" <=> IsFirst(own, i)
                              /\ \A r \in own : m[r].role # "tool" =>
                                   \/ Paired(m, own, r)
                                   \/ IsLast(own, r) /\ pc[c] \in {"tools", "raised"}
                              /\ \A i \in own : IsAnswer(m[i]) => IsLast(own, i)
                              /\ (\E i \in own : IsAnswer(m[i]))
                                   <=> pc[c] = "answered"
                              /\ \A s \in Sessions \ {held[c]} :
                                   Own(messages[s], c) = {}
      BY DEF ChatTranscript
    <2>2. /\ pc[c] \in Running \cup Ended /\ calls[c] \in Nat
          /\ Loop(c, pc[c], messages[held[c]], depth[c], calls[c])
          /\ \A s \in Sessions \ {held[c]} : Own(messages[s], c) = {}
      BY <1>1, <2>1, Started
    <2> QED
      BY <2>2, LoopShows DEF UserFirst
  <1> QED
    BY <1>1, AgentInit, AgentStep, PTL DEF Spec

(* No chat goes past max_chain_depth; the fallback answer is given only      *)
(* after that many rounds of tools; and SessionState.chain_depth, which is   *)
(* never reset, counts the iterations of all chats the session ever had.     *)
THEOREM DepthAccountedKept == Spec => []DepthAccounted
  <1>1. ASSUME AgentInv PROVE DepthAccounted
    <2>1. ASSUME NEW c \in Chats, pc[c] # "idle"
          PROVE  LET m == messages[held[c]]
                 IN  /\ depth[c] <= MaxDepth
                     /\ Rounds(m, c) \in {depth[c] - 1, depth[c]}
                     /\ (\E i \in Own(m, c) : m[i].content = "fallback") =>
                          Rounds(m, c) = MaxDepth
      <3> DEFINE m == messages[held[c]]
      <3>1. /\ pc[c] \in Running \cup Ended /\ calls[c] \in Nat
            /\ Loop(c, pc[c], m, depth[c], calls[c])
            /\ depth[c] \in 0..MaxDepth
        BY <1>1, <2>1, Started
      <3>2. depth[c] <= MaxDepth
        BY <3>1
      <3> HIDE DEF m
      <3>3. pc[c] # "answered" => \A i \in Own(m, c) : m[i].content # "fallback"
        BY <3>1, LoopShows
      <3>4. Rounds(m, c) \in {depth[c] - 1, depth[c]}
        BY <3>1 DEF Loop, Running, Ended
      <3>5. (\E i \in Own(m, c) : m[i].content = "fallback") =>
              Rounds(m, c) = MaxDepth
        BY <3>1, <3>3 DEF Loop
      <3> QED
        BY <3>2, <3>4, <3>5 DEF m
    <2> QED
      BY <1>1, <2>1 DEF AgentInv, SessionDepths, DepthAccounted
  <1> QED
    BY <1>1, AgentInit, AgentStep, PTL DEF Spec

-----------------------------------------------------------------------------
(* A session enters the store only under an id that was never used.          *)
LEMMA StoreGrows == [Next]_vars => (created \ store) \cap store' = {}
  <1> SUFFICES ASSUME [Next]_vars
               PROVE  (created \ store) \cap store' = {}
    OBVIOUS
  <1>1. ASSUME NEW c \in Chats, NEW r, NEW s, OpenSession(c, r, s)
        PROVE  (created \ store) \cap store' = {}
    BY <1>1 DEF OpenSession, FreshId
  <1>2. ASSUME NEW c \in Chats, ChatStep(c) \/ CancelChat(c)
        PROVE  UNCHANGED store
    BY <1>2 DEF ChatStep, LLMAnswers, LLMCallsTools, LLMCallsMalformed,
                LLMRaises, ToolsReturn, CancelChat, sessionVars
  <1> QED
    BY <1>1, <1>2
    DEF Next, ContinueSession, CreateSession, DeleteSession, GrowStale,
        CleanupExpired, vars

(* A session that was deleted or has expired never comes back, neither with  *)
(* a chat that still holds it nor with a request that names its id.          *)
THEOREM NoResurrectionKept == Spec => NoResurrection
  BY StoreGrows, PTL DEF Spec, NoResurrection

=============================================================================
