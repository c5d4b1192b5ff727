---------------------------- MODULE SandboxGuard ----------------------------
(***************************************************************************)
(* A sandbox and the guard before its backend                              *)
(* (electromind/sandbox/sandbox.py, guard.py, backends/, mode_guard.py,    *)
(* policy.py).  A call is a command, a whole write or a str_replace of one *)
(* file.  The guard asks whether the backend lives before every operation  *)
(* and revives it, and never repeats an operation.  An environment is a    *)
(* container or a connection; the host itself is the local backend's.      *)
(***************************************************************************)
EXTENDS Naturals, FiniteSets

CONSTANTS
    Commands,   \* calls of run_command
    Writes,     \* calls of write_file
    Replaces,   \* calls of str_replace
    Straying,   \* the commands that name a path outside the workspace
    RestartMax, \* restart_max_attempts
    MaxEnvs,    \* bound: environments made
    MaxFaults   \* bound: environments that end or hang by themselves, removals that fail,
                \* calls that are cancelled

ASSUME SandboxConstants ==
    /\ RestartMax \in Nat /\ MaxEnvs \in Nat \ {0} /\ MaxFaults \in Nat
    /\ Commands \cap Writes = {} /\ Commands \cap Replaces = {} /\ Writes \cap Replaces = {}

VARIABLES
    kind,    \* the backend: "local", "container" or "ssh"
    mode,    \* the session mode and the command policy, frozen in the spec
    isOpen,  \* Sandbox._started
    handle,  \* container_id or conn; 0 is None
    envs,    \* what became of each environment made so far
    left,    \* history: those whose making was cut short or whose removal failed
    failures,  \* how many of these there were
    file,    \* the calls whose text is in the file
    call,    \* where each call stands, the attempts of its revival, the environment it closes
             \* or runs in, and what a str_replace has read
    answer,  \* what each call returned
    stray,   \* operations that go on after their call has ended
    landed,  \* how often the operation of each call took effect
    audited, \* calls the audit log has a line of
    met \* a call, a revival or a close met another one

hostVars == <<kind, mode, isOpen, handle, envs, left, failures>>
tellVars == <<file, stray, landed, audited, met>>
sandboxVars == <<hostVars, call, answer, tellVars>>

SandboxCalls == Commands \cup Writes \cup Replaces
Made == Cardinality(DOMAIN envs)
NoAnswer == "none"
Resting == [at |-> "idle", tries |-> 0, env |-> 0, read |-> {}]
Busy == {c \in SandboxCalls : call[c].at \notin {"idle", "over"}}
Texts == SUBSET (SandboxCalls \cup {"before"})

CallPlaces == {"idle", "alive", "close", "closed", "start", "again", "act", "running", "emptied", "read", "over"}
Standing == [at : CallPlaces, tries : 0..RestartMax, env : 0..MaxEnvs, read : Texts]
Straggling == [call : SandboxCalls, env : 0..MaxEnvs, text : Texts, emptied : BOOLEAN]
CallReplies == {NoAnswer, "ok", "refused", "error", "timed_out", "dead", "abandoned"}

SandboxTypeOK ==
    /\ kind \in {"local", "container", "ssh"} /\ mode \in {"agent", "workdir", "plan"}
    /\ isOpen \in BOOLEAN /\ met \in BOOLEAN
    /\ handle \in 0..MaxEnvs /\ DOMAIN envs \subseteq 1..MaxEnvs /\ left \subseteq 1..MaxEnvs
    /\ \A e \in DOMAIN envs : envs[e] \in {"up", "hung", "gone"}
    /\ failures \in 0..MaxFaults /\ file \in Texts
    /\ call \in [SandboxCalls -> Standing] /\ answer \in [SandboxCalls -> CallReplies]
    /\ stray \subseteq Straggling /\ landed \in [SandboxCalls -> 0..2]
    /\ audited \subseteq SandboxCalls

\* Sandbox.create starts the backend through the guard; a start that fails makes no sandbox.
SandboxInit ==
    /\ kind \in {"local", "container", "ssh"} /\ mode \in {"agent", "workdir", "plan"}
    /\ isOpen = TRUE /\ handle = 1 /\ envs = [e \in {1} |-> "up"] /\ left = {} /\ failures = 0
    /\ file = {"before"} /\ call = [c \in SandboxCalls |-> Resting]
    /\ answer = [c \in SandboxCalls |-> NoAnswer]
    /\ stray = {} /\ landed = [c \in SandboxCalls |-> 0] /\ audited = {} /\ met = FALSE

\* check_command refuses parent directories, and a cd or a path out of the workspace.
LeavesWorkdir(c) == c \in Straying

\* The mode guard and the command policy, asked before the backend is.
Permitted(c) ==
    CASE mode = "plan" -> FALSE
      [] mode = "workdir" -> ~LeavesWorkdir(c)
      [] mode = "agent" -> TRUE

\* The alive probe of each backend: the local one always lives.
Alive == kind = "local" \/ (handle # 0 /\ envs[handle] = "up")
Hangs == kind = "ssh" /\ handle # 0 /\ envs[handle] = "hung"

\* The environment an operation runs in is still there.
Runs(e) == kind = "local" \/ (e # 0 /\ envs[e] = "up")

Moves(c, where) == call' = [call EXCEPT ![c].at = where] /\ UNCHANGED answer
Over(c, what) == /\ answer' = [answer EXCEPT ![c] = what]
                 /\ call' = [call EXCEPT ![c] = [Resting EXCEPT !.at = "over"]]

BeginCall(c) ==
    /\ call[c].at = "idle"
    /\ met' = (met \/ Busy # {} \/ stray # {} \/ ~isOpen)
    /\ IF Permitted(c) \/ c \in Replaces THEN Moves(c, "alive") ELSE Over(c, "refused")
    /\ UNCHANGED <<hostVars, file, stray, landed, audited>>

\* One more attempt to revive, or the backend is given up.
NextTry(c) ==
    IF call[c].tries < RestartMax
    THEN /\ call' = [call EXCEPT ![c].at = "close", ![c].tries = @ + 1]
         /\ UNCHANGED answer
    ELSE Over(c, "dead")

\* ensure_alive: a probe that is answered; one that hangs raises, and no one revives.
Probe(c) ==
    /\ call[c].at \in {"alive", "again"}
    /\ \/ Alive /\ Moves(c, "act")
       \/ Hangs /\ Over(c, "error")
       \/ ~Alive /\ ~Hangs /\ NextTry(c)
    /\ UNCHANGED <<hostVars, tellVars>>

\* inner.close removes what the handle named when it began, then forgets the handle. That
\* the runtime did not remove a container goes unnoticed, or closing raises and nothing is
\* forgotten; either way the revival goes on.
Removed(e) == IF e = 0 \/ kind = "local" THEN envs ELSE [envs EXCEPT ![e] = "gone"]
GoesWrong == failures < MaxFaults /\ failures' = failures + 1
NotRemoved(e) == /\ kind = "container" /\ e # 0 /\ GoesWrong
                 /\ left' = left \cup {e} /\ UNCHANGED envs
Closes(e) == (envs' = Removed(e) /\ UNCHANGED <<left, failures>>) \/ NotRemoved(e)

CloseInner(c) ==
    /\ call[c].at = "close"
    /\ \/ /\ Closes(handle)
          /\ call' = [call EXCEPT ![c].at = "closed", ![c].env = handle]
          /\ UNCHANGED answer
       \/ NotRemoved(handle) /\ Moves(c, "start")
    /\ UNCHANGED <<kind, mode, isOpen, handle, tellVars>>

CloseForgets(c) ==
    /\ call[c].at = "closed"
    /\ handle' = IF call[c].env = 0 THEN handle ELSE 0
    /\ call' = [call EXCEPT ![c].at = "start", ![c].env = 0]
    /\ UNCHANGED <<kind, mode, isOpen, envs, left, failures, answer, tellVars>>

\* A start makes a new environment and remembers it; over SSH the rest of it may still fail.
MakesOne == /\ Made < MaxEnvs
            /\ envs' = [e \in 1..Made + 1 |-> IF e = Made + 1 THEN "up" ELSE envs[e]]

StartInner(c) ==
    /\ call[c].at = "start"
    /\ \/ /\ MakesOne /\ handle' = Made + 1
          /\ Moves(c, "again") \/ (kind = "ssh" /\ NextTry(c))
       \/ NextTry(c) /\ UNCHANGED <<envs, handle>>
    /\ UNCHANGED <<kind, mode, isOpen, left, failures, tellVars>>

\* The operation starts in the environment the handle names now.
Act(c) ==
    /\ call[c].at = "act"
    /\ \/ /\ Alive /\ (c \in Replaces => call[c].read # {})
          /\ call' = [call EXCEPT ![c].at = "running", ![c].env = handle]
          /\ UNCHANGED <<answer, audited>>
       \/ /\ Alive /\ c \in Replaces /\ call[c].read = {}
          /\ IF file = {} THEN Over(c, "error")      \* old_string is not found
             ELSE /\ call' = [call EXCEPT ![c].at = "read", ![c].read = file]
                  /\ UNCHANGED answer
          /\ UNCHANGED audited
       \/ /\ ~Alive
          /\ Over(c, "error")
          /\ audited' = IF c \in Commands /\ kind = "container" /\ handle # 0
                        THEN audited \cup {c} ELSE audited
       \/ /\ kind = "ssh" /\ c \notin Commands         \* SFTP is missing, or refuses
          /\ Over(c, "error") /\ UNCHANGED audited
    /\ UNCHANGED <<hostVars, file, stray, landed, met>>

\* str_replace goes on to write what it read, with its text replaced, through the mode guard
\* and the backend guard again.
WriteBack(c) ==
    /\ call[c].at = "read"
    /\ IF Permitted(c)
       THEN call' = [call EXCEPT ![c].at = "alive", ![c].tries = 0] /\ UNCHANGED answer
       ELSE Over(c, "refused")
    /\ UNCHANGED <<hostVars, tellVars>>

\* The file when an operation takes effect that has read what.
Content(c, what) == CASE c \in Commands -> file \cup {c}
                      [] c \in Writes -> {c}
                      [] c \in Replaces -> what \cup {c}

Takes(c, what) == /\ file' = Content(c, what)
                  /\ landed' = [landed EXCEPT ![c] = @ + 1]

\* A write through a shell or over SFTP empties the file before it fills it.
Empties(c) ==
    /\ call[c].at = "running" /\ c \notin Commands /\ kind # "local" /\ Runs(call[c].env)
    /\ file' = {}
    /\ Moves(c, "emptied")
    /\ UNCHANGED <<hostVars, stray, landed, audited, met>>

Lands(c) ==
    /\ \/ call[c].at = "running" /\ (c \in Commands \/ kind = "local")
       \/ call[c].at = "emptied"
    /\ Runs(call[c].env)
    /\ Takes(c, call[c].read)
    /\ Over(c, "ok")
    /\ audited' = audited \cup {c}
    /\ UNCHANGED <<hostVars, stray, met>>

\* Mutant: exec restarts and repeats what it was doing when the environment ended.
LostRepeats(c) ==
    /\ call[c].at \in {"running", "emptied"} /\ ~Runs(call[c].env)
    /\ landed' = [landed EXCEPT ![c] = IF c \in Commands THEN @ + 1 ELSE @]
    /\ Moves(c, "alive")
    /\ UNCHANGED <<hostVars, file, stray, audited, met>>

\* The environment of a running operation has ended: a command may have taken effect, the call
\* reports an error.
Lost(c) ==
    /\ call[c].at \in {"running", "emptied"} /\ ~Runs(call[c].env)
    /\ \/ UNCHANGED <<file, landed>>
       \/ c \in Commands /\ Takes(c, call[c].read)
    /\ Over(c, "error")
    /\ audited' = IF c \in Commands /\ kind = "container" THEN audited \cup {c} ELSE audited
    /\ UNCHANGED <<hostVars, stray, met>>

\* What is started outside goes on without the call.
GoesOnOutside(c) ==
    stray' = stray \cup {[call |-> c, env |-> call[c].env, text |-> call[c].read,
                          emptied |-> call[c].at = "emptied"]}

\* The time limit of a command, and of a write into a container: the host kills its process;
\* a container and a remote host only lose the client, and what they run goes on.
CallTimesOut(c) ==
    /\ call[c].at \in {"running", "emptied"}
    /\ \/ c \in Commands /\ Over(c, "timed_out") /\ audited' = audited \cup {c}
       \/ c \notin Commands /\ kind = "container" /\ Over(c, "error") /\ UNCHANGED audited
    /\ IF kind = "local" THEN UNCHANGED stray ELSE GoesOnOutside(c)
    /\ UNCHANGED <<hostVars, file, landed, met>>

\* The task of the call is cancelled while the backend is asked or closed: no more happens.
AbandonAsking(c) ==
    /\ call[c].at \in {"alive", "again", "close", "closed", "read"} /\ kind # "local"
    /\ UNCHANGED <<handle, envs, left, file, stray, landed>>

\* While it is started: a container comes up all the same, and its id is not stored.
AbandonStart(c) ==
    /\ call[c].at = "start"
    /\ \/ UNCHANGED <<handle, envs, left>>
       \/ MakesOne /\ kind = "container" /\ left' = left \cup {Made + 1} /\ UNCHANGED handle
       \/ MakesOne /\ kind = "ssh" /\ handle' = Made + 1 /\ UNCHANGED left
    /\ UNCHANGED <<file, stray, landed>>

\* While it is at work: no backend stops what runs outside; a write over SFTP stops, unless
\* its text is sent already; one on the host is never cut.
AbandonWork(c) ==
    /\ call[c].at \in {"running", "emptied"}
    /\ \/ (c \in Commands \/ kind = "container") /\ GoesOnOutside(c) /\ UNCHANGED <<file, landed>>
       \/ c \notin Commands /\ kind = "ssh" /\ UNCHANGED <<file, stray, landed>>
       \/ c \notin Commands /\ kind = "ssh" /\ call[c].at = "emptied" /\ Takes(c, call[c].read) /\ UNCHANGED stray
    /\ UNCHANGED <<handle, envs, left>>

Abandon(c) ==
    /\ AbandonAsking(c) \/ AbandonStart(c) \/ AbandonWork(c)
    /\ Over(c, "abandoned") /\ GoesWrong
    /\ UNCHANGED <<kind, mode, isOpen, audited, met>>

\* A write into a container that goes on empties the file, too, before it fills it.
StrayEmpties ==
    \E s \in stray :
        /\ s.call \notin Commands /\ ~s.emptied /\ Runs(s.env)
        /\ stray' = (stray \ {s}) \cup {[s EXCEPT !.emptied = TRUE]}
        /\ file' = {}
        /\ UNCHANGED <<hostVars, call, answer, landed, audited, met>>

StrayEnds ==
    \E s \in stray :
        /\ stray' = stray \ {s}
        /\ \/ UNCHANGED <<file, landed>>
           \/ /\ s.call \in Commands \/ s.emptied
              /\ kind = "container" => Runs(s.env)
              /\ Takes(s.call, s.text)
        /\ UNCHANGED <<hostVars, call, answer, audited, met>>

\* A container reaches its time to live or is killed; a connection breaks or hangs.
Fault ==
    /\ kind # "local" /\ GoesWrong
    /\ \E e \in {x \in DOMAIN envs : envs[x] # "gone"} :
          \E end \in (IF kind = "ssh" THEN {"gone", "hung"} ELSE {"gone"}) \ {envs[e]} :
             envs' = [envs EXCEPT ![e] = end]
    /\ UNCHANGED <<kind, mode, isOpen, handle, left, call, answer, tellVars>>

\* Sandbox.close, once; the guard passes it on whatever runs.
CloseSandbox ==
    /\ isOpen
    /\ isOpen' = FALSE
    /\ Closes(handle)
    /\ handle' = IF kind = "local" THEN handle ELSE 0
    /\ met' = (met \/ Busy # {})
    /\ UNCHANGED <<kind, mode, call, answer, file, stray, landed, audited>>

SandboxNext ==
    \/ Fault \/ CloseSandbox \/ StrayEmpties \/ StrayEnds
    \/ \E c \in SandboxCalls :
          \/ BeginCall(c) \/ Probe(c) \/ CloseInner(c) \/ CloseForgets(c) \/ StartInner(c)
          \/ Act(c) \/ WriteBack(c) \/ Empties(c) \/ Lands(c) \/ Lost(c)
          \/ CallTimesOut(c) \/ Abandon(c)

SandboxSpec == SandboxInit /\ [][SandboxNext]_sandboxVars

-----------------------------------------------------------------------------
\* What a call is asked to do happens at most once, however often its backend was revived;
\* an answer "ok" means it has happened, is over and is in the audit log; a call that was
\* refused, or had no backend, did nothing.
DoneOnce ==
    \A c \in SandboxCalls :
        /\ landed[c] <= 1
        /\ answer[c] = "ok" => landed[c] = 1 /\ c \in audited /\ \A s \in stray : s.call # c
        /\ answer[c] \in {"refused", "dead"} => landed[c] = 0

\* A sandbox that was closed with nothing under way has left no container and no connection
\* behind, but those whose start was cancelled or that the runtime did not remove.  (Calls
\* that meet a revival or the close may leave more: see NothingEverLeft.)
NothingLeft ==
    ~isOpen /\ ~met /\ kind # "local" => \A e \in DOMAIN envs \ left : envs[e] = "gone"

\* While calls never meet each other, the file holds the text of every change that was
\* reported done, unless a whole write, or a write that failed or was cancelled, came after
\* it.
TextKept ==
    (/\ ~met
     /\ \A c \in Writes : call[c].at = "idle"
     /\ \A d \in Replaces : answer[d] \notin {"error", "abandoned"} /\ call[d].at # "emptied")
        => \A c \in SandboxCalls : answer[c] = "ok" => c \in file

SandboxSound == SandboxTypeOK /\ DoneOnce /\ NothingLeft /\ TextKept

\* Not so: two revivals at once make two containers and only one is known; a call after the
\* close brings the backend back; a start that is cancelled leaves a container nobody knows.
NothingEverLeft == ~isOpen /\ Busy = {} /\ kind # "local" => \A e \in DOMAIN envs : envs[e] = "gone"

\* Not so: a command that was reported to have timed out takes effect later.
TimedOutIsOver == [][\A c \in SandboxCalls : answer[c] = "timed_out" => landed'[c] = landed[c]]_sandboxVars
=============================================================================
