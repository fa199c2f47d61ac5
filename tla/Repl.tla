-------------------------------- MODULE Repl --------------------------------
(***************************************************************************)
(* The interactive program (main.py --cli, cli/repl.py): it reads its      *)
(* settings, makes the LLM client they name, asks for a working directory  *)
(* and then converses with one user over the Agent's session store, in one *)
(* session at a time.  run_cli keeps the current session's id and the      *)
(* working directory it shows; every session has a working directory of    *)
(* its own, and that one is what the LLM is told.                          *)
(*                                                                         *)
(* A chat is two steps, its request and its end; what happens in between   *)
(* is in Agent.  /help, /clear, /history, an empty line and an unknown     *)
(* command only write to the screen and are left out.                      *)
(***************************************************************************)
EXTENDS Integers, Sequences

CONSTANTS
    Dirs,        \* absolute paths
    Forbidden,   \* those that os.makedirs cannot create
    Names,       \* what llm.active may say: a provider's name or ${VARIABLE}
    Supported,   \* the names create_llm knows
    Default,     \* LLMConfig.active when the file does not say
    MaxSessions, \* bound: sessions ever created
    MaxChats     \* bound: messages typed

ASSUME ReplAssumption ==
    /\ Forbidden \subseteq Dirs
    /\ Supported \subseteq Names
    /\ Default \in Supported
    /\ MaxSessions \in Nat
    /\ MaxChats \in Nat

NoDir == "none"
NoSession == 0
NoName == "unset"
Sessions == 1..MaxSessions

(* What the settings file holds: llm.active when it can be read. *)
Files == Names \cup {"missing", "malformed"}

VARIABLES
    file,       \* the settings file
    env,        \* env[n]: what ${n} stands for, itself when not set
    provider,   \* the settings' llm.active
    at,         \* where the program is
    existing,   \* the directories that exist
    created,    \* how many sessions were created: their ids are 1..created
    sessionDir, \* sessionDir[s]: Session.work_dir
    current,    \* current_session_id
    workDir,    \* work_dir
    typed,      \* how many messages were typed
    log         \* log[s]: the numbers of the messages session s was given

settings == <<file, env, provider>>
sessions == <<created, sessionDir, current, workDir>>
vars == <<settings, at, existing, sessions, typed, log>>

-----------------------------------------------------------------------------
Init ==
    /\ file \in Files
    /\ env \in {e \in [Names -> Names] :
                    \A n \in Supported : e[n] = n}
    /\ provider = NoName
    /\ at = "starting"
    /\ existing \in SUBSET Dirs
    /\ created = 0
    /\ sessionDir = [s \in Sessions |-> NoDir]
    /\ current = NoSession
    /\ workDir = NoDir
    /\ typed = 0
    /\ log = [s \in Sessions |-> <<>>]

(* Mutant: ${VARIABLE} is left as it stands. *)
Unresolved == file

(* A missing file gives the defaults; a reference whose variable is not set  *)
(* stays as it is.                                                           *)
Active == IF file = "missing" THEN Default ELSE env[file]

(* load_settings, which main calls and run_cli calls again; text that is not *)
(* YAML, or of the wrong type, raises out of the program.                    *)
Load(from, to) ==
    /\ at = from
    /\ IF file = "malformed"
       THEN at' = "crashed" /\ UNCHANGED provider
       ELSE at' = to /\ provider' = Active
    /\ UNCHANGED <<file, env, existing, sessions, typed, log>>

(* Mutant: any name makes a client. *)
AnyProvider == Names

Known == Supported

(* create_llm raises ValueError for a name it does not know; the client of a *)
(* known one raises, too, for a key of the file its constructor has not, as  *)
(* LLMProviderConfig keeps any.                                              *)
MakeClient ==
    /\ at = "loaded"
    /\ at' \in {"crashed"} \cup IF provider \in Known THEN {"asking"} ELSE {}
    /\ UNCHANGED <<settings, existing, sessions, typed, log>>

(* The file is edited meanwhile, the second load can find another text. *)
EditFile ==
    /\ at = "main"
    /\ file' \in Files
    /\ UNCHANGED <<env, provider, at, existing, sessions, typed, log>>

-----------------------------------------------------------------------------
(* os.path.isdir holds, or os.makedirs does not raise. *)
Usable(d) == d \in existing \/ d \notin Forbidden

(* A new session gets directory d and becomes the current one. *)
NewSession(d) ==
    /\ created < MaxSessions
    /\ created' = created + 1
    /\ current' = created + 1
    /\ sessionDir' = [sessionDir EXCEPT ![created + 1] = d]
    /\ workDir' = d

(* _ask_work_dir: an empty or unusable path is asked for again. *)
AskWorkDir(d) ==
    /\ at = "asking"
    /\ Usable(d)
    /\ existing' = existing \cup {d}
    /\ NewSession(d)
    /\ at' = "prompt"
    /\ UNCHANGED <<settings, typed, log>>

(* Mutant: /workdir changes what the program shows only. *)
ShownOnly(d) == sessionDir

DirOfCurrent(d) == [sessionDir EXCEPT ![current] = d]

(* /workdir d; without a path it only shows the directory. *)
WorkDirCommand(d) ==
    /\ at = "prompt"
    /\ Usable(d)
    /\ existing' = existing \cup {d}
    /\ sessionDir' = DirOfCurrent(d)
    /\ workDir' = d
    /\ UNCHANGED <<settings, at, created, current, typed, log>>

(* The old session's directory, or the one shown when it has none. *)
InheritedDir ==
    IF sessionDir[current] # NoDir THEN sessionDir[current] ELSE workDir

(* /new *)
NewCommand ==
    /\ at = "prompt"
    /\ NewSession(InheritedDir)
    /\ UNCHANGED <<settings, at, existing, typed, log>>

(* /sessions: a Session is a dataclass and has no model_dump; the user       *)
(* always has a session, and nothing catches the AttributeError.             *)
SessionsCommand ==
    /\ at = "prompt"
    /\ at' = "crashed"
    /\ UNCHANGED <<settings, existing, sessions, typed, log>>

(* Mutant: the conversation goes on in the first session. *)
FirstSession == 1

Asked == current

(* Any other text: the request names the current session, which the store    *)
(* has, for nothing here removes one.                                        *)
Chat ==
    /\ at = "prompt"
    /\ typed < MaxChats
    /\ typed' = typed + 1
    /\ log' = [log EXCEPT ![Asked] = Append(@, typed + 1)]
    /\ at' = "chatting"
    /\ UNCHANGED <<settings, existing, sessions>>

(* The chat is answered, or raises an Exception, which is shown.  Its tools  *)
(* may have made and removed directories.                                    *)
ChatEnds ==
    /\ at = "chatting"
    /\ at' = "prompt"
    /\ existing' \in SUBSET Dirs
    /\ UNCHANGED <<settings, sessions, typed, log>>

(* /quit, the end of the input or an interrupt; during a chat the interrupt  *)
(* is no Exception and ends the program too.                                 *)
Leave ==
    /\ at \in {"asking", "prompt", "chatting"}
    /\ at' = "left"
    /\ UNCHANGED <<settings, existing, sessions, typed, log>>

-----------------------------------------------------------------------------
Next ==
    \/ Load("starting", "main")
    \/ EditFile
    \/ Load("main", "loaded")
    \/ MakeClient
    \/ \E d \in Dirs : AskWorkDir(d) \/ WorkDirCommand(d)
    \/ NewCommand
    \/ SessionsCommand
    \/ Chat
    \/ ChatEnds
    \/ Leave

Spec == Init /\ [][Next]_vars

-----------------------------------------------------------------------------
Conversing == at \in {"prompt", "chatting"}

(* Types, and that a conversation is only held with a client create_llm      *)
(* knows how to make (llm/factory.py:45): whatever the settings said and     *)
(* however the file changed between the two loads.                           *)
TypeOK ==
    /\ file \in Files
    /\ env \in [Names -> Names]
    /\ provider \in Names \cup {NoName}
    /\ at \in {"starting", "main", "loaded", "asking", "prompt", "chatting",
               "left", "crashed"}
    /\ existing \subseteq Dirs
    /\ created \in 0..MaxSessions
    /\ sessionDir \in [Sessions -> Dirs \cup {NoDir}]
    /\ current \in 0..created
    /\ workDir \in Dirs \cup {NoDir}
    /\ typed \in 0..MaxChats
    /\ \A s \in Sessions : \A i \in DOMAIN log[s] : log[s][i] \in 1..typed
    /\ Conversing => provider \in Supported

(* The directory the program shows and the one the LLM is told to work in,   *)
(* the current session's, never part: through /workdir, /new and chats in    *)
(* any order (cli/repl.py:189-208).                                          *)
DirShown == Conversing => current # NoSession /\ sessionDir[current] = workDir

(* Every message typed is in one session, and one after the other the        *)
(* sessions hold them in the order in which they were typed.                 *)
Conversation ==
    /\ \A m \in 1..typed : \E s \in Sessions : \E i \in DOMAIN log[s] :
         log[s][i] = m
    /\ \A s, t \in Sessions : \A i \in DOMAIN log[s], j \in DOMAIN log[t] :
         s < t \/ (s = t /\ i < j) => log[s][i] < log[t][j]

(* /new goes on in the directory last chosen with /workdir, whichever        *)
(* session it was chosen in; a session it has left keeps its directory and   *)
(* its messages as they are; and the sessions together are the whole         *)
(* conversation (cli/repl.py:198-252).                                       *)
OneConversation ==
    [][/\ current # NoSession /\ current' # current => workDir' = workDir
       /\ \A s \in 1..current - 1 : /\ log'[s] = log[s]
                                    /\ sessionDir'[s] = sessionDir[s]
       /\ Conversation']_vars

=============================================================================
