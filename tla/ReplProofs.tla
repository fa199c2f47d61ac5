----------------------------- MODULE ReplProofs -----------------------------
(* Proofs about Repl, for all directories, provider names, settings files    *)
(* and numbers of sessions and messages: its types, that it converses only   *)
(* with a client create_llm can make, that it shows the directory the LLM    *)
(* works in, and that its sessions together are the whole conversation.      *)
EXTENDS Repl, TLAPS

(* From the client on, the provider is one that create_llm knows.            *)
ClientMade == at \in {"asking", "prompt", "chatting"} => provider \in Supported

BaseInv == TypeOK /\ ClientMade

-----------------------------------------------------------------------------
LEMMA BaseInit == Init => BaseInv
  BY ReplAssumption
  DEF Init, BaseInv, TypeOK, ClientMade, Conversing, Files, Sessions, NoName,
      NoDir, NoSession

LEMMA LoadStep ==
    ASSUME BaseInv, NEW from, NEW to \in {"main", "loaded"}, Load(from, to)
    PROVE  BaseInv'
  <1>1. provider' \in Names \cup {NoName}
    BY ReplAssumption DEF BaseInv, TypeOK, Load, Active, Files
  <1> QED
    BY <1>1
    DEF BaseInv, TypeOK, ClientMade, Conversing, Load, sessions, Sessions

LEMMA SetupStep == BaseInv /\ (EditFile \/ MakeClient) => BaseInv'
  BY DEF BaseInv, TypeOK, ClientMade, Conversing, EditFile, MakeClient, Known,
         settings, sessions, Sessions

LEMMA NewTyped ==
    ASSUME BaseInv, NEW d \in Dirs \cup {NoDir}, NewSession(d)
    PROVE  /\ created' \in 0..MaxSessions
           /\ sessionDir' \in [Sessions -> Dirs \cup {NoDir}]
           /\ current' \in 0..created'
           /\ current' \in Sessions /\ current' # NoSession
           /\ sessionDir'[current'] = d
           /\ workDir' = d
  <1>1. created + 1 \in Sessions /\ created + 1 \in 0..MaxSessions
    BY ReplAssumption DEF BaseInv, TypeOK, NewSession, Sessions
  <1> QED
    BY <1>1, ReplAssumption
    DEF BaseInv, TypeOK, NewSession, NoSession, Sessions

LEMMA AskStep ==
    ASSUME BaseInv, NEW d \in Dirs, AskWorkDir(d)
    PROVE  BaseInv'
  BY NewTyped
  DEF BaseInv, TypeOK, ClientMade, Conversing, AskWorkDir, settings

LEMMA NewStep == BaseInv /\ DirShown /\ NewCommand => BaseInv'
  <1> SUFFICES ASSUME BaseInv, DirShown, NewCommand
               PROVE  BaseInv'
    OBVIOUS
  <1>1. InheritedDir \in Dirs \cup {NoDir}
    BY DEF BaseInv, TypeOK, InheritedDir, DirShown, Conversing, NewCommand
  <1> QED
    BY <1>1, NewTyped
    DEF BaseInv, TypeOK, ClientMade, Conversing, NewCommand, settings

LEMMA WorkDirStep ==
    ASSUME BaseInv, NEW d \in Dirs, WorkDirCommand(d)
    PROVE  BaseInv'
  BY DEF BaseInv, TypeOK, ClientMade, Conversing, WorkDirCommand, DirOfCurrent,
         settings

LEMMA ChatStep == BaseInv /\ Chat => BaseInv'
  <1> SUFFICES ASSUME BaseInv, Chat
               PROVE  BaseInv'
    OBVIOUS
  <1>1. typed' = typed + 1 /\ typed' \in 0..MaxChats
    BY ReplAssumption DEF BaseInv, TypeOK, Chat
  <1> QED
    BY <1>1
    DEF BaseInv, TypeOK, ClientMade, Conversing, Chat, settings, sessions

LEMMA EndStep ==
    BaseInv /\ (SessionsCommand \/ ChatEnds \/ Leave) => BaseInv'
  BY DEF BaseInv, TypeOK, ClientMade, Conversing, SessionsCommand, ChatEnds,
         Leave, settings, sessions

LEMMA BaseStep == BaseInv /\ DirShown /\ [Next]_vars => BaseInv'
  <1>1. BaseInv /\ UNCHANGED vars => BaseInv'
    BY DEF BaseInv, TypeOK, ClientMade, Conversing, vars, settings, sessions
  <1> QED
    BY <1>1, LoadStep, SetupStep, AskStep, NewStep, WorkDirStep, ChatStep,
       EndStep
    DEF Next

(* The conversation begins in a session of its own, in the directory shown,  *)
(* and every command that changes one of the two directories changes both.   *)
LEMMA DirStep == BaseInv /\ DirShown /\ [Next]_vars => DirShown'
  <1> SUFFICES ASSUME BaseInv, DirShown, [Next]_vars
               PROVE  DirShown'
    OBVIOUS
  <1>1. ASSUME NEW d \in Dirs, AskWorkDir(d)
        PROVE  DirShown'
    BY <1>1, NewTyped DEF AskWorkDir, DirShown
  <1>2. ASSUME NEW d \in Dirs, WorkDirCommand(d)
        PROVE  DirShown'
    <2>1. current \in Sessions
      BY <1>2, ReplAssumption
      DEF BaseInv, TypeOK, DirShown, Conversing, WorkDirCommand, NoSession,
          Sessions
    <2> QED
      BY <1>2, <2>1
      DEF BaseInv, TypeOK, WorkDirCommand, DirOfCurrent, DirShown, Conversing
  <1>3. CASE NewCommand
    <2>1. InheritedDir = workDir /\ workDir \in Dirs \cup {NoDir}
      BY <1>3
      DEF BaseInv, TypeOK, InheritedDir, DirShown, Conversing, NewCommand
    <2> QED
      BY <1>3, <2>1, NewTyped DEF NewCommand, DirShown
  <1>4. CASE \/ \E from, to \in {"starting", "main", "loaded"} : Load(from, to)
             \/ EditFile \/ MakeClient \/ SessionsCommand
    BY <1>4
    DEF Load, EditFile, MakeClient, SessionsCommand, DirShown, Conversing,
        sessions
  <1>5. CASE Chat \/ ChatEnds \/ Leave \/ UNCHANGED vars
    BY <1>5
    DEF Chat, ChatEnds, Leave, vars, DirShown, Conversing, sessions
  <1> QED
    BY <1>1, <1>2, <1>3, <1>4, <1>5 DEF Next

LEMMA DirInit == Init => DirShown
  BY DEF Init, DirShown, Conversing

(* Whatever the settings say and however the file changes between its two    *)
(* loads, a conversation is held with a client create_llm can make; and all  *)
(* that the program keeps has its type.                                      *)
THEOREM TypeCorrect == Spec => []TypeOK
  <1>1. BaseInv => TypeOK
    BY DEF BaseInv
  <1> QED
    BY <1>1, BaseInit, BaseStep, DirInit, DirStep, PTL DEF Spec

(* Through any order of /workdir, /new and chats the directory on the screen *)
(* is the one the current session tells the LLM to work in.                  *)
THEOREM DirShownKept == Spec => []DirShown
  BY BaseInit, BaseStep, DirInit, DirStep, PTL DEF Spec

-----------------------------------------------------------------------------
(* No session after the current one has a message, and there is none before  *)
(* the directory was asked for.                                              *)
LogInv ==
    /\ log \in [Sessions -> Seq(Nat)]
    /\ \A s \in Sessions : s > current => log[s] = <<>>
    /\ at \in {"starting", "main", "loaded", "asking"} => current = NoSession
    /\ Conversation

ReplInv == BaseInv /\ DirShown /\ LogInv

LEMMA LogInit == Init => LogInv
  <1> SUFFICES ASSUME Init PROVE LogInv
    OBVIOUS
  <1>1. /\ log = [s \in Sessions |-> <<>>] /\ typed = 0
        /\ current = NoSession
    BY DEF Init
  <1>2. /\ log \in [Sessions -> Seq(Nat)]
        /\ \A s \in Sessions : log[s] = <<>> /\ DOMAIN log[s] = {}
    BY <1>1
  <1>3. 1..typed = {}
    BY <1>1
  <1> QED
    BY <1>1, <1>2, <1>3 DEF LogInv, Conversation

(* A message is the last of the current session and newer than all others.   *)
LEMMA LogChat ==
    ASSUME ReplInv, Chat
    PROVE  /\ LogInv'
           /\ \A s \in 1..current - 1 : log'[s] = log[s]
  <1> DEFINE N == Len(log[current])
  <1>1. /\ log \in [Sessions -> Seq(Nat)] /\ Conversation
        /\ \A s \in Sessions : s > current => log[s] = <<>>
    BY DEF ReplInv, LogInv
  <1>2. /\ current \in Sessions /\ typed \in Nat /\ typed' = typed + 1
        /\ \A s \in Sessions : s \in Nat
        /\ \A s \in Sessions : \A i \in DOMAIN log[s] : log[s][i] \in 1..typed
    BY ReplAssumption
    DEF ReplInv, BaseInv, TypeOK, DirShown, Conversing, Chat, NoSession, Sessions
  <1>3. /\ log' = [log EXCEPT ![current] = Append(@, typed + 1)]
        /\ current' = current /\ at' = "chatting"
    BY DEF Chat, Asked, sessions
  <1>4. /\ N \in Nat /\ DOMAIN log[current] = 1..N
        /\ DOMAIN log'[current] = 1..N+1 /\ log'[current][N+1] = typed + 1
        /\ \A i \in 1..N : log'[current][i] = log[current][i]
        /\ \A s \in Sessions \ {current} : log'[s] = log[s]
        /\ log' \in [Sessions -> Seq(Nat)]
    <2>1. log[current] \in Seq(Nat) /\ typed + 1 \in Nat
      BY <1>1, <1>2
    <2>2. log'[current] = Append(log[current], typed + 1)
      BY <1>1, <1>2, <1>3
    <2>5. Append(log[current], typed + 1) \in Seq(Nat)
      BY <2>1
    <2>6. log' = [log EXCEPT ![current] = Append(log[current], typed + 1)]
      BY <1>3
    <2>3. log' \in [Sessions -> Seq(Nat)]
      BY <1>1, <2>5, <2>6
    <2>4. \A s \in Sessions \ {current} : log'[s] = log[s]
      BY <1>1, <1>3
    <2> QED
      BY <2>1, <2>2, <2>3, <2>4
  <1> HIDE DEF N
  <1>5. ASSUME NEW s \in Sessions, NEW i \in DOMAIN log'[s]
        PROVE  \/ s = current /\ i = N + 1 /\ log'[s][i] = typed + 1
               \/ /\ i \in DOMAIN log[s] /\ log'[s][i] = log[s][i]
                  /\ log[s][i] \in 1..typed /\ s <= current
                  /\ s = current => i < N + 1
    <2>1. CASE s = current
      <3>1. i = N + 1 \/ (i \in 1..N /\ i < N + 1)
        BY <1>4, <2>1
      <3> QED
        BY <1>2, <1>4, <2>1, <3>1
    <2>2. CASE s # current
      <3>1. log'[s] = log[s] /\ i \in DOMAIN log[s]
        BY <1>4, <2>2
      <3>2. ~(s > current)
        BY <1>1, <3>1
      <3> QED
        BY <1>2, <2>2, <3>1, <3>2
    <2> QED
      BY <2>1, <2>2
  <1>6. ASSUME NEW m \in 1..typed'
        PROVE  \E s \in Sessions : \E i \in DOMAIN log'[s] : log'[s][i] = m
    <2>1. CASE m = typed + 1
      <3>1. N + 1 \in DOMAIN log'[current]
        BY <1>4
      <3> QED
        BY <1>2, <1>4, <2>1, <3>1
    <2>2. CASE m \in 1..typed
      <3>1. PICK s \in Sessions : \E i \in DOMAIN log[s] : log[s][i] = m
        BY <1>1, <2>2 DEF Conversation
      <3>2. PICK i \in DOMAIN log[s] : log[s][i] = m
        BY <3>1
      <3>3. i \in DOMAIN log'[s] /\ log'[s][i] = m
        <4>1. CASE s = current
          <5>1. i \in 1..N /\ i \in 1..N+1
            BY <1>4, <3>2, <4>1
          <5> QED
            BY <1>4, <3>2, <4>1, <5>1
        <4>2. CASE s # current
          BY <1>4, <3>2, <4>2
        <4> QED
          BY <4>1, <4>2
      <3> QED
        BY <3>3
    <2> QED
      BY <1>2, <2>1, <2>2
  <1>7. ASSUME NEW s \in Sessions, NEW t \in Sessions,
               NEW i \in DOMAIN log'[s], NEW j \in DOMAIN log'[t],
               s < t \/ (s = t /\ i < j)
        PROVE  log'[s][i] < log'[t][j]
    <2>1. CASE s = current /\ i = N + 1
      <3>1. \/ t = current /\ j = N + 1
            \/ t <= current /\ (t = current => j < N + 1)
        BY <1>5
      <3>2. j \in Int
        <4>1. log'[t] \in Seq(Nat)
          BY <1>4
        <4> QED
          BY <4>1
      <3> QED
        BY <1>2, <1>4, <1>7, <2>1, <3>1, <3>2
    <2>2. CASE i \in DOMAIN log[s] /\ log'[s][i] = log[s][i] /\ log[s][i] \in 1..typed
      <3>1. CASE log'[t][j] = typed + 1
        BY <1>2, <2>2, <3>1
      <3>2. CASE j \in DOMAIN log[t] /\ log'[t][j] = log[t][j]
        BY <1>1, <1>7, <2>2, <3>2 DEF Conversation
      <3> QED
        BY <1>5, <3>1, <3>2
    <2> QED
      BY <1>5, <2>1, <2>2
  <1>8. \A s \in Sessions : s > current => log'[s] = <<>>
    BY <1>1, <1>2, <1>4
  <1>9. \A s \in 1..current-1 : log'[s] = log[s]
    <2> SUFFICES ASSUME NEW s \in 1..current-1 PROVE log'[s] = log[s]
      OBVIOUS
    <2>1. s \in Sessions /\ s # current
      BY <1>2, ReplAssumption DEF Sessions
    <2> QED
      BY <1>4, <2>1
  <1>10. Conversation'
    BY <1>6, <1>7 DEF Conversation, Sessions
  <1> QED
    BY <1>3, <1>4, <1>8, <1>9, <1>10 DEF LogInv, Sessions

(* All other steps leave the messages, and the sessions but the current one  *)
(* and a new one, as they are.                                               *)
LEMMA LogOther ==
    ASSUME ReplInv, [Next]_vars, ~Chat
    PROVE  /\ UNCHANGED <<log, typed>>
           /\ current' \in Nat /\ current <= current'
           /\ at' \in {"starting", "main", "loaded", "asking"} =>
                at \in {"starting", "main", "loaded", "asking"} /\ current' = current
           /\ current # NoSession /\ current' # current => workDir' = workDir
           /\ \A s \in 1..current - 1 : sessionDir'[s] = sessionDir[s]
  <1>1. /\ current \in Nat /\ created \in Nat /\ current <= created
        /\ sessionDir \in [Sessions -> Dirs \cup {NoDir}]
        /\ \A s \in 1..current - 1 :
             s \in Sessions /\ s # current /\ s # created + 1
    BY ReplAssumption DEF ReplInv, BaseInv, TypeOK, Sessions
  <1>2. ASSUME NEW d \in Dirs, AskWorkDir(d)
        PROVE  /\ UNCHANGED <<log, typed>>
               /\ current' = created + 1 /\ at' = "prompt" /\ current = NoSession
               /\ sessionDir' = [sessionDir EXCEPT ![created + 1] = d]
    BY <1>2 DEF AskWorkDir, NewSession, ReplInv, LogInv
  <1>3. ASSUME NEW d \in Dirs, WorkDirCommand(d)
        PROVE  /\ UNCHANGED <<log, typed, current, at>>
               /\ at = "prompt"
               /\ sessionDir' = [sessionDir EXCEPT ![current] = d]
    BY <1>3 DEF WorkDirCommand, DirOfCurrent
  <1>4. ASSUME NewCommand
        PROVE  /\ UNCHANGED <<log, typed, at>> /\ at = "prompt"
               /\ current' = created + 1 /\ workDir' = workDir
               /\ sessionDir' = [sessionDir EXCEPT ![created + 1] = workDir]
    <2>1. InheritedDir = workDir
      BY <1>4 DEF InheritedDir, ReplInv, DirShown, Conversing, NewCommand
    <2> QED
      BY <1>4, <2>1 DEF NewCommand, NewSession
  <1>5. ASSUME \/ Load("starting", "main") \/ Load("main", "loaded")
               \/ EditFile \/ MakeClient \/ SessionsCommand
               \/ ChatEnds \/ Leave \/ UNCHANGED vars
        PROVE  /\ UNCHANGED <<log, typed, sessionDir, current, workDir>>
               /\ at' \in {"starting", "main", "loaded", "asking"} =>
                    at \in {"starting", "main", "loaded", "asking"}
    BY <1>5
    DEF Load, EditFile, MakeClient, SessionsCommand, ChatEnds, Leave, vars,
        sessions
  <1> QED
    BY <1>1, <1>2, <1>3, <1>4, <1>5 DEF Next, NoSession

LEMMA LogStep ==
    ASSUME ReplInv, [Next]_vars
    PROVE  LogInv'
  <1>1. CASE Chat
    BY <1>1, LogChat
  <1>2. CASE ~Chat
    <2>1. /\ UNCHANGED <<log, typed>> /\ current' \in Nat /\ current <= current'
          /\ at' \in {"starting", "main", "loaded", "asking"} =>
               at \in {"starting", "main", "loaded", "asking"} /\ current' = current
      BY <1>2, LogOther
    <2>2. \A s \in Sessions : s > current' => s > current
      BY <2>1 DEF Sessions, ReplInv, BaseInv, TypeOK
    <2> QED
      BY <2>1, <2>2 DEF ReplInv, LogInv, Conversation, Sessions
  <1> QED
    BY <1>1, <1>2

(* /new keeps the directory, a session that was left stays as it is, and the *)
(* sessions together hold every message typed, each once and in order: for   *)
(* any number of sessions and messages.                                      *)
THEOREM OneConversationKept == Spec => OneConversation
  <1> DEFINE Step ==
               /\ current # NoSession /\ current' # current => workDir' = workDir
               /\ \A s \in 1..current - 1 : /\ log'[s] = log[s]
                                            /\ sessionDir'[s] = sessionDir[s]
               /\ Conversation'
  <1>1. Init => ReplInv
    BY BaseInit, DirInit, LogInit DEF ReplInv
  <1>2. ReplInv /\ [Next]_vars => ReplInv'
    BY BaseStep, DirStep, LogStep DEF ReplInv
  <1>3. ReplInv /\ [Next]_vars => [Step]_vars
    <2> SUFFICES ASSUME ReplInv, [Next]_vars PROVE Step
      OBVIOUS
    <2>1. Conversation'
      BY LogStep DEF LogInv
    <2>2. CASE Chat
      <3>1. \A s \in 1..current - 1 : log'[s] = log[s]
        BY <2>2, LogChat
      <3> QED
        BY <2>1, <2>2, <3>1 DEF Chat, sessions
    <2>3. CASE ~Chat
      BY <2>1, <2>3, LogOther
    <2> QED
      BY <2>2, <2>3
  <1> QED
    BY <1>1, <1>2, <1>3, PTL DEF Spec, OneConversation

=============================================================================
