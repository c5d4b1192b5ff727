----------------------------- MODULE TextFronts -----------------------------
(***************************************************************************)
(* The two front ends without a screen of their own: the print mode (-p,    *)
(* app/commands/print_mode.py) for one prompt or for a stream of them, and  *)
(* the blocking REPL (app/repl.py).  Both send an input to an               *)
(* EmbeddedAgentClient, wait for "run/completed" and only then read on; a   *)
(* question about a tool is answered by a task that reads the same stdin.   *)
(* /new and /resume give the REPL a client of its own for the other thread; *)
(* the old clients are closed at the end.                                   *)
(***************************************************************************)
EXTENDS Naturals, Sequences, FiniteSets

CONSTANTS Dialogues,   \* threads the REPL can switch between
          MaxClients,  \* bound: clients of one process
          MaxJobs      \* bound: inputs of one process

ASSUME FrontConstants == Dialogues # {} /\ MaxClients \in Nat \ {0} /\ MaxJobs \in Nat

Job     == 1..MaxJobs       \* an input and the Run started for it
Clients == 1..MaxClients
Working == {"created", "model", "asking", "allowed", "refused"}
Idle    == [at |-> "none", job |-> 0, late |-> FALSE, ok |-> TRUE, class |-> "free"]
NoSink  == [text |-> {}, stop |-> "", denied |-> FALSE]
\* What the last event of a Run calls its reason, and which of these are failures.
Reasons == {"no_tool_calls", "max_turns"}
\* What the permission rules tell apart of a call: a tool that needs no permission, a command
\* they judge to be reading only, everything else.
CallClass == {"free", "reading", "guarded"}
Policies  == {"prompt", "auto-safe", "auto"}

VARIABLES
  front,    \* "ready", "waiting" (for the Run's end), "closing", "gone"
  sort,     \* "text", "stream" (print mode), "repl"
  tty,      \* print mode: somebody can be asked
  policy,   \* permission mode of the process
  jobs,     \* inputs sent so far
  clients,  \* the thread of every client made, the last one is in use
  turn,     \* what the Run of each client does
  done,     \* the event each client's sink sets
  sink,     \* print mode: what _PrintSink collected
  results,  \* print mode: what was printed for each input
  exit,     \* the exit code so far
  readers,  \* approval prompts that wait for a line: <<client, job>>
  held,     \* the messages each client's runner holds, by the jobs they come from
  filed,    \* conversation.json of each thread
  said,     \* history: the answers given to a job's question, "late" if it had expired
  executed  \* history: jobs with a guarded call that ran
textVars == <<front, sort, tty, policy, jobs, clients, turn, done, sink, results, exit, readers, held,
              filed, said, executed>>

Current == Len(clients)
Prints == sort # "repl"
JobOf(c) == turn[c].job
Live(c)  == turn[c].at \in Working

TextInit ==
  /\ front = "ready" /\ sort \in {"text", "stream", "repl"} /\ tty \in BOOLEAN
  /\ (sort = "repl" => tty) /\ policy \in Policies
  /\ jobs = 0 /\ clients \in {<<d>> : d \in Dialogues}
  /\ turn = [c \in Clients |-> Idle] /\ done = [c \in Clients |-> FALSE]
  /\ sink = NoSink /\ results = <<>> /\ exit = "ok" /\ readers = {}
  /\ held = [c \in Clients |-> {}] /\ filed = [d \in Dialogues |-> {}]
  /\ said = [j \in Job |-> "nothing"] /\ executed = {}

-----------------------------------------------------------------------------
(* The front's own loop *)

\* _run_one forgets the previous Run before it sends.
Forgotten == NoSink

\* _run_one and _blocking_send: the input starts a Run, nothing else is active.
SendLine ==
  /\ front = "ready" /\ jobs < MaxJobs /\ ~(sort = "text" /\ jobs > 0)
  /\ ~Live(Current)
  /\ jobs' = jobs + 1 /\ front' = "waiting"
  /\ sink' = IF Prints THEN Forgotten ELSE sink
  /\ done' = [done EXCEPT ![Current] = FALSE]
  /\ turn' = [turn EXCEPT ![Current] = [Idle EXCEPT !.at = "created", !.job = jobs + 1]]
  /\ UNCHANGED <<sort, tty, policy, clients, results, exit, readers, held, filed, said, executed>>

\* Without a prompt or an API key no client is made.
NothingToDo ==
  /\ front = "ready" /\ Prints /\ jobs = 0
  /\ front' = "gone" /\ exit' \in {"cli", "provider"}
  /\ UNCHANGED <<sort, tty, policy, jobs, clients, turn, done, sink, results, readers, held, filed,
                 said, executed>>

\* A runner that cannot be opened is an exception of the print mode.
SendRaises ==
  /\ front = "ready" /\ Prints /\ jobs = 0
  /\ front' = "closing" /\ exit' = "unknown"
  /\ UNCHANGED <<sort, tty, policy, jobs, clients, turn, done, sink, results, readers, held, filed, said,
                 executed>>

\* _exit_for
CodeFor(s) ==
  IF s.denied THEN "permission"
  ELSE IF s.stop = "cancelled" THEN "cancelled"
  ELSE IF s.stop = "max_turns" THEN "execution"
  ELSE "ok"

\* The first code that is not OK stays.
Combined(old, new) == IF old = "ok" THEN new ELSE old

\* The rest of _run_one once the Run is over.
PrintResult ==
  /\ front = "waiting" /\ Prints /\ done[Current]
  /\ results' = Append(results, [job |-> jobs, text |-> sink.text, code |-> CodeFor(sink)])
  /\ exit' = Combined(exit, CodeFor(sink))
  /\ front' = IF sort = "text" THEN "closing" ELSE "ready"
  /\ UNCHANGED <<sort, tty, policy, jobs, clients, turn, done, sink, readers, held, filed, said, executed>>

PromptAgain ==
  /\ front = "waiting" /\ ~Prints /\ done[Current] /\ front' = "ready"
  /\ UNCHANGED <<sort, tty, policy, jobs, clients, turn, done, sink, results, exit, readers, held, filed,
                 said, executed>>

\* /new and /resume: a client with an event of its own, which reads the thread's file.
SwitchThread(d) ==
  /\ front = "ready" /\ sort = "repl" /\ Current < MaxClients
  /\ clients' = Append(clients, d)
  /\ held' = [held EXCEPT ![Current + 1] = filed[d]]
  /\ UNCHANGED <<front, sort, tty, policy, jobs, turn, done, sink, results, exit, readers, filed, said,
                 executed>>

\* A line of a stream that is JSON but no object: .get raises.
LineRaises ==
  /\ front = "ready" /\ sort = "stream" /\ front' = "closing" /\ exit' = "unknown"
  /\ UNCHANGED <<sort, tty, policy, jobs, clients, turn, done, sink, results, readers, held, filed, said,
                 executed>>

\* The end of stdin, /exit, or an interrupt, which a wait for a Run ends too.
Leave ==
  /\ \/ front = "ready" /\ sort # "text" /\ exit' = exit
     \/ front \in {"ready", "waiting"} /\ exit' = IF Prints THEN "cancelled" ELSE "execution"
  /\ front' = "closing"
  /\ UNCHANGED <<sort, tty, policy, jobs, clients, turn, done, sink, results, readers, held, filed, said,
                 executed>>

-----------------------------------------------------------------------------
(* The Run of a client *)

\* The sink of the print mode; the REPL's draws and forgets.
Collects(f) == sink' = IF Prints THEN f ELSE sink

\* RunBegin and every event up to the end of a model call.
Speaks(c) ==
  /\ Live(c) /\ turn[c].at \in {"created", "model"}
  /\ turn' = [turn EXCEPT ![c].at = "model"]
  /\ held' = [held EXCEPT ![c] = @ \cup {JobOf(c)}]
  /\ Collects([sink EXCEPT !.text = @ \cup {JobOf(c)}])
  /\ UNCHANGED <<front, sort, tty, policy, jobs, clients, done, results, exit, readers, filed, said, executed>>

\* requires_permit_prompt: what the client asks about.
NeedsPrompt(k) == policy # "auto" /\ k # "free" /\ ~(policy = "auto-safe" /\ k = "reading")

\* require_tool_permit: what the tool's hook waits for.
HookWaits(k) == policy # "auto" /\ k # "free" /\ ~(policy = "auto-safe" /\ k = "reading")

Ran(c, k) == executed' = IF k = "guarded" THEN executed \cup {JobOf(c)} ELSE executed

\* A call the hook lets pass.
RunsFreely(c, k) ==
  /\ turn[c].at = "model" /\ ~HookWaits(k) /\ ~NeedsPrompt(k) /\ Ran(c, k)
  /\ UNCHANGED <<front, sort, tty, policy, jobs, clients, turn, done, sink, results, exit, readers,
                 held, filed, said>>

\* approval/requested: without a terminal the sink refuses at once and notes it.
Asks(c, k) ==
  /\ turn[c].at = "model" /\ NeedsPrompt(k) /\ HookWaits(k) /\ said[JobOf(c)] = "nothing"
  /\ turn' = [turn EXCEPT ![c].at = "asking", ![c].late = FALSE, ![c].class = k]
  /\ IF tty THEN readers' = readers \cup {<<c, JobOf(c)>>} /\ UNCHANGED <<sink, said>>
     ELSE /\ sink' = [sink EXCEPT !.denied = TRUE]
          /\ said' = [said EXCEPT ![JobOf(c)] = "no"] /\ UNCHANGED readers
  /\ UNCHANGED <<front, sort, tty, policy, jobs, clients, done, results, exit, held, filed, executed>>

\* The time of the question is over; nothing tells the tool.
QuestionExpires(c) ==
  /\ turn[c].at = "asking" /\ tty /\ ~turn[c].late
  /\ turn' = [turn EXCEPT ![c].late = TRUE]
  /\ UNCHANGED <<front, sort, tty, policy, jobs, clients, done, sink, results, exit, readers, held, filed,
                 said, executed>>

\* resolve_approval takes an answer only for the client's live Run, in time.
Resolves(c, j) == turn[c].at = "asking" /\ JobOf(c) = j /\ ~turn[c].late

\* A line that is no answer is asked for again; an answer ends the reader.
Answered(r, a) ==
  /\ r \in readers /\ readers' = readers \ {r}
  /\ said' = [said EXCEPT ![r[2]] = IF Resolves(r[1], r[2]) THEN a ELSE "late"]
  /\ turn' = IF Resolves(r[1], r[2])
               THEN [turn EXCEPT ![r[1]].at = IF a = "yes" THEN "allowed" ELSE "refused"] ELSE turn
  /\ UNCHANGED <<front, sort, tty, policy, jobs, clients, done, sink, results, exit, held, filed, executed>>

\* The task _respond_approval made.
RefusalArrives(c) ==
  /\ turn[c].at = "asking" /\ ~tty /\ turn' = [turn EXCEPT ![c].at = "refused"]
  /\ UNCHANGED <<front, sort, tty, policy, jobs, clients, done, sink, results, exit, readers, held, filed,
                 said, executed>>

\* stdin ends while a question waits: the reader's task dies with EOFError.
ReaderDies(r) ==
  /\ r \in readers /\ readers' = readers \ {r}
  /\ UNCHANGED <<front, sort, tty, policy, jobs, clients, turn, done, sink, results, exit, held, filed,
                 said, executed>>

ToolAnswered(c) ==
  /\ turn[c].at \in {"allowed", "refused"}
  /\ IF turn[c].at = "allowed" THEN Ran(c, turn[c].class) ELSE UNCHANGED executed
  /\ turn' = [turn EXCEPT ![c].at = "model"]
  /\ UNCHANGED <<front, sort, tty, policy, jobs, clients, done, sink, results, exit, readers, held, filed, said>>

\* The runner saves the conversation, then run/completed wakes the front.
EndsTurn(c, reason, ok) ==
  /\ filed' = [filed EXCEPT ![clients[c]] = held[c]]
  /\ turn' = [turn EXCEPT ![c].at = "over", ![c].ok = ok]
  /\ done' = [done EXCEPT ![c] = TRUE]
  /\ Collects([sink EXCEPT !.stop = reason])

RunOver(c, reason) ==
  /\ turn[c].at = "model" /\ EndsTurn(c, reason, TRUE)
  /\ UNCHANGED <<front, sort, tty, policy, jobs, clients, results, exit, readers, held, said, executed>>

\* A Run that raises is announced before its reason is known, as "completed".
RunRaises(c) ==
  /\ turn[c].at = "model" /\ EndsTurn(c, "completed", FALSE)
  /\ UNCHANGED <<front, sort, tty, policy, jobs, clients, results, exit, readers, held, said, executed>>

\* Before its first event a Run has no id for the engine: nobody is told.
RunBreaksEarly(c) ==
  /\ turn[c].at = "created" /\ turn' = [turn EXCEPT ![c].at = "lost", ![c].ok = FALSE]
  /\ UNCHANGED <<front, sort, tty, policy, jobs, clients, done, sink, results, exit, readers, held, filed,
                 said, executed>>

\* close() of every client: a Run that works is cancelled and saved.
CloseClients ==
  /\ front = "closing" /\ front' = "gone"
  /\ turn' = [c \in Clients |-> IF Live(c) THEN [turn[c] EXCEPT !.at = "over", !.ok = FALSE] ELSE turn[c]]
  /\ filed' = [d \in Dialogues |->
       filed[d] \cup UNION {held[c] : c \in {k \in 1..Current : Live(k) /\ clients[k] = d}}]
  /\ readers' = {}
  /\ UNCHANGED <<sort, tty, policy, jobs, clients, done, sink, results, exit, held, said, executed>>

TextNext ==
  \/ SendLine \/ NothingToDo \/ SendRaises \/ PrintResult \/ PromptAgain \/ LineRaises \/ Leave \/ CloseClients
  \/ \E d \in Dialogues : SwitchThread(d)
  \/ \E r \in readers : ReaderDies(r) \/ \E a \in {"yes", "no"} : Answered(r, a)
  \/ \E c \in 1..Current :
       \/ \E k \in CallClass : RunsFreely(c, k) \/ Asks(c, k)
       \/ Speaks(c) \/ QuestionExpires(c) \/ RefusalArrives(c) \/ ToolAnswered(c)
       \/ RunRaises(c) \/ RunBreaksEarly(c) \/ \E reason \in Reasons : RunOver(c, reason)

TextSpec == TextInit /\ [][TextNext]_textVars

-----------------------------------------------------------------------------
\* Clients, Runs and results have their types.
TextTypeOK ==
  /\ jobs \in 0..MaxJobs /\ clients \in Seq(Dialogues) /\ Current \in Clients
  /\ \A c \in Clients : turn[c].at \in Working \cup {"none", "over", "lost"} /\ JobOf(c) \in 0..MaxJobs
  /\ readers \subseteq Clients \X Job /\ executed \subseteq Job

\* What is printed for an input is the text of the Run started for it, with a code of that
\* Run: a refusal in one Run is not told of the next one.
ResultsAreOwn ==
  \A i \in DOMAIN results :
    /\ results[i].job = i /\ results[i].text \subseteq {i}
    /\ results[i].code = "permission" <=> (~tty /\ said[i] = "no")

\* A later success does not hide an earlier code.
FirstCodeStays ==
  (exit = "ok" => \A i \in DOMAIN results : results[i].code = "ok")
  /\ (front \in {"ready", "waiting"} /\ exit # "ok" =>
        \E i \in DOMAIN results : results[i].code = exit /\ \A k \in 1..(i - 1) : results[k].code = "ok")

\* Unless the policy is to ask nothing, a tool that changes something runs only after a "yes"
\* somebody gave for this very Run while the question was open.
RunsOnYes == policy # "auto" => \A j \in executed : tty /\ said[j] = "yes"

\* Whatever clients were made, at most one Run works, and it is the one the front waits for.
OneAtATime ==
  \A c \in 1..Current : Live(c) /\ front \in {"ready", "waiting"} =>
    c = Current /\ front = "waiting" /\ JobOf(c) = jobs

\* A client that is left has read and written everything: a thread's file holds every Run of the
\* thread that is over, whichever client it was.
HistoryWhole ==
  \A c \in 1..Current : (turn[c].at = "over" \/ (turn[c].at = "none" /\ c = Current)) => held[c] \subseteq filed[clients[c]]

\* Nothing works and nothing is asked any more when the process is gone.
FrontLeavesNothing == front = "gone" => readers = {} /\ \A c \in Clients : ~Live(c)

\* What the text front ends promise together.
TextSound == TextTypeOK /\ ResultsAreOwn /\ FirstCodeStays /\ RunsOnYes /\ OneAtATime /\ HistoryWhole
             /\ FrontLeavesNothing

\* Not so: a Run that raised exits like one that completed (exitcodes.py: 5 if the agent failed).
FailureIsTold ==
  (front = "gone" /\ Prints /\ \E c \in 1..Current : turn[c].at = "over" /\ ~turn[c].ok) => exit # "ok"
\* Not so: a question that expired, an end of input or a Run that broke early end the wait.
WaitCanEnd ==
  front = "waiting" =>
    \/ done[Current] \/ turn[Current].at \in Working \ {"asking"}
    \/ turn[Current].at = "asking" /\ (tty => ~turn[Current].late /\ readers # {})
=============================================================================
