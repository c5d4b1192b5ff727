---------------------------- MODULE WireCommands ----------------------------
(***************************************************************************)
(* The command loop of the wire process and the life of its runners         *)
(* (app/wire.py, app/repl.py, app/clean.py, ithread/local.py): which thread *)
(* is active, which runner objects are open and for whom, what the thread   *)
(* directories hold, and who closes or removes what.  How a Run reads its   *)
(* inputs and how its session ends is in Wire; here a Run is what may still *)
(* use a runner and a directory.                                            *)
(***************************************************************************)
EXTENDS Naturals, FiniteSets, Sequences

CONSTANTS Threads,     \* thread ids in the order the clock hands them out: 1..N
          Objects,     \* runner objects: 1..M
          StartedWith,     \* the execution backend the process was started with
          MaxWaiting,  \* inputs that wait in the queue of one thread
          MaxCommands  \* commands the user gives

Backends == {"local", "container"}
NoThreadId == 99                \* state["thread_id"] is None

ASSUME CommandConstants ==
  /\ Threads \subseteq Nat \ {0} /\ Objects \subseteq Nat \ {0}
  /\ 1 \in Threads /\ NoThreadId \notin Threads
  /\ StartedWith \in Backends /\ {MaxWaiting, MaxCommands} \subseteq Nat

Default == 0                    \* the id of inputs sent while no thread is active
Ids     == Threads \cup {Default}
NoObject   == 0

\* A thread directory: thread.toml with its frozen backend, whether it holds messages or
\* files, whether metainfo.json says it is deleted.
Dirs  == [there : BOOLEAN, backend : Backends, content : BOOLEAN, deleted : BOOLEAN]
NoDirectory == [there |-> FALSE, backend |-> "local", content |-> FALSE, deleted |-> FALSE]

\* A runner: whose it is, the backend its configuration resolved to and the one its sandbox
\* has, the mode its sandbox works in, and how often close was called on it; "closed" says
\* that it was, whether or not that call raised.
RunnerObjects == [state : {"unborn", "open", "closed"}, thread : Ids \cup {NoThreadId},
         asked : Backends, backend : Backends, writes : BOOLEAN, closes : 0..2]
Unborn == [state |-> "unborn", thread |-> NoThreadId, asked |-> "local",
           backend |-> "local", writes |-> TRUE, closes |-> 0]

\* The task of a Run: its runner, whether it holds the write lease of the one workspace,
\* whether its snapshot lets it write.  A cancelled task unwinds, no longer registered.
TaskStates == [pc : {"none", "running", "unwinding"}, object : Objects \cup {NoObject},
               holds : BOOLEAN, writes : BOOLEAN]
NoTurn == [pc |-> "none", object |-> NoObject, holds |-> FALSE, writes |-> FALSE]

\* What the loop waits for while a sandbox opens: for which command, which thread.
NoOpening == [kind |-> "none", thread |-> NoThreadId, backend |-> "local", writes |-> FALSE]

VARIABLES
  disk,      \* the thread directories
  objects,   \* the runner objects
  current,   \* the loop's runner
  activeId,  \* state["thread_id"]
  registry,  \* state["_runners"]
  pending,   \* state["pending_config"]: its backend, "none" without one
  turns,     \* the Run of each thread
  legacy,    \* the thread whose task is in state["turn"]
  last,      \* session.runner
  waiting,    \* inputs waiting in each session: do they write?
  parked,    \* the workspace's waiters, first come first
  opening, phase, stopping, clock,
  commands,  \* commands given
  plain, choice, failed, dropped, broken  \* history, see CommandInit

threadVars  == <<disk, waiting>>
runnerVars  == <<objects, current, activeId, registry, pending, opening>>
turnVars    == <<turns, legacy, last, parked>>
loopVars    == <<phase, stopping, clock, commands>>
commandHistory == <<plain, choice, failed, dropped, broken>>
commandVars == <<threadVars, runnerVars, turnVars, loopVars, commandHistory>>

CommandInit ==
  /\ disk = [t \in Ids |-> NoDirectory]
  /\ objects = [x \in Objects |-> Unborn]
  /\ current = NoObject /\ activeId = NoThreadId
  /\ registry = [t \in Ids |-> NoObject] /\ pending = "none"
  /\ turns = [t \in Ids |-> NoTurn] /\ legacy = NoThreadId
  /\ last = [t \in Ids |-> NoObject]
  /\ waiting = [t \in Ids |-> <<>>] /\ parked = <<>>
  /\ opening = NoOpening /\ phase = "ready" /\ stopping = {} /\ clock = 1 /\ commands = 0
  /\ plain = TRUE      \* the user keeps to one conversation at a time
  /\ choice = "none"   \* the backend of the last reset
  /\ failed = FALSE    \* that reset failed and no fresh runner was opened since
  /\ dropped = FALSE   \* a "user" command ended without a Run and without a queue entry
  /\ broken = FALSE    \* a command raised out of the loop

Free == phase = "ready" /\ opening = NoOpening
Command == Free /\ commands < MaxCommands /\ commands' = commands + 1
HasTurn(t) == turns[t].pc # "none"

-----------------------------------------------------------------------------
(* Thread directories *)

\* Thread.open: the directory keeps its frozen settings; a missing one is created with the
\* settings it is given, by default a local backend.
OpenedDir(d, t, backend) ==
  IF d[t].there THEN d
  ELSE [d EXCEPT ![t] = [@ EXCEPT !.there = TRUE, !.backend = backend, !.deleted = FALSE]]

\* _persist_thread_state and soft_delete_thread open the thread with no settings at all.
Touched0(d, t) == OpenedDir(d, t, "local")

\* Messages and files reach the disk; the directory is made anew where it is gone.
WithContent(d, t) == [Touched0(d, t) EXCEPT ![t].content = TRUE]

\* thread_is_useless, clean_electromind
Useless(d, t) == d[t].there /\ ~d[t].content
Cleaned(d, keep) == [t \in Ids |-> IF Useless(d, t) /\ t \notin keep THEN NoDirectory ELSE d[t]]

-----------------------------------------------------------------------------
(* Opening and closing runners *)

ClosedRunner(obs, x) ==
  IF x = NoObject THEN obs
  ELSE [obs EXCEPT ![x].state = "closed", ![x].closes = IF @ < 2 THEN @ + 1 ELSE @]

Fresh == {x \in Objects : /\ objects[x].state = "unborn"
                          /\ \A y \in Objects : objects[y].state = "unborn" => x <= y}

\* ensure_runner: the active thread with the settings of the process, else a new thread with
\* what a failed reset kept.
EnsureTarget ==
  IF activeId # NoThreadId
  THEN [thread |-> activeId, backend |-> StartedWith]
  ELSE [thread |-> clock, backend |-> IF pending = "none" THEN StartedWith ELSE pending]

BeginOpen(kind, target, writes) ==
  opening' = [kind |-> kind, thread |-> target.thread, backend |-> target.backend,
              writes |-> writes]

\* resolve_execution: a backend that is not there is an error, never another backend.
Resolved(backend, there) == IF there THEN {backend} ELSE {}

\* open_runner compares the sandbox that came up with the backend it resolved.
Agrees(x) == x.backend = x.asked

\* Runner.create: the sandbox follows the thread's frozen settings.
Created(backend) ==
  [state |-> "open", thread |-> opening.thread, asked |-> backend,
   backend |-> OpenedDir(disk, opening.thread, backend)[opening.thread].backend,
   writes |-> TRUE, closes |-> 0]

-----------------------------------------------------------------------------
(* Starting Runs.  The creation flow changes several tables at once; it is   *)
(* written on a record of them.                                              *)

Tables == [disk |-> disk, objects |-> objects, turns |-> turns, legacy |-> legacy,
           last |-> last, waiting |-> waiting, parked |-> parked]
Become(s) ==
  /\ disk' = s.disk /\ objects' = s.objects /\ turns' = s.turns /\ legacy' = s.legacy
  /\ last' = s.last /\ waiting' = s.waiting /\ parked' = s.parked

Held(s) == \E u \in Ids : s.turns[u].holds

\* _build_run_snapshot: the Run may write exactly when the input it consumed asks for that.
Snapshot(s, t) == Head(s.waiting[t])

\* _apply_requested_sandbox_mode
InMode(s, x, writes) == [s EXCEPT !.objects[x].writes = writes]

\* start_run, set_run_snapshot, the marker on disk, the task and its place in the tables.
StartTurn(s, t, x, holds, act) ==
  LET w == Snapshot(s, t)
      started == [s EXCEPT !.turns[t] = [pc |-> "running", object |-> x, holds |-> holds,
                                         writes |-> w],
                           !.waiting[t] = Tail(@), !.last[t] = x,
                           !.legacy = IF t = act THEN t ELSE @,
                           !.disk = Touched0(@, t)]
  IN  InMode(started, x, w)

\* register_workspace_waiter
Parked(s, t) ==
  IF \E i \in DOMAIN s.parked : s.parked[i] = t THEN s ELSE [s EXCEPT !.parked = Append(@, t)]

\* _auto_start_next
AutoStartNext(s, t, x) ==
  IF s.waiting[t] = <<>> THEN s
  ELSE IF Head(s.waiting[t]) /\ Held(s) THEN Parked(s, t)
  ELSE IF s.turns[t].pc # "none" THEN s
  ELSE StartTurn(s, t, x, Head(s.waiting[t]), activeId)

\* _wire_after_finish: a waiter without a runner is registered again.
WakeOne(s, w) ==
  LET x == IF registry[w] # NoObject THEN registry[w] ELSE s.last[w]
  IN  IF x = NoObject THEN Parked(s, w)
      ELSE IF s.turns[w].pc = "running" THEN s
      ELSE AutoStartNext(s, w, x)

\* The waiters of a lease that is released, first come first; thread t itself is not woken.
Woken(s, ws, t) ==
  LET wake[i \in 0..Len(ws)] ==
        IF i = 0 THEN s ELSE IF ws[i] = t THEN wake[i - 1] ELSE WakeOne(wake[i - 1], ws[i])
  IN  wake[Len(ws)]

\* restore_sandbox_mode in the finally block
RestoredMode(s, x) == InMode(s, x, TRUE)

\* The end of thread t's Run: messages on disk, lease released, the list of waiters taken.
RunGone(t, outcome) ==
  [Tables EXCEPT !.turns[t] = NoTurn, !.parked = <<>>,
                 !.disk = IF outcome = "failed" THEN Touched0(@, t) ELSE WithContent(@, t)]

\* The finally block restores the mode; _set_turn also empties the slot of old clients when t is
\* the active thread, whoever is in it.
Cleared(s, x, t) ==
  [RestoredMode(s, x) EXCEPT !.legacy = IF @ = t \/ t = activeId THEN NoThreadId ELSE @]

\* The whole end: waiters woken, mode restored, turn cleared, next input started unless the
\* Run failed.
TurnOver(t, outcome) ==
  LET x == turns[t].object
      over == Cleared(Woken(RunGone(t, outcome), parked, t), x, t)
  IN  IF outcome = "failed" THEN over ELSE AutoStartNext(over, t, x)

\* The rest of the "user" branch once runner x of thread t is there: the text of an
\* input/send waits in the queue already, that of a "user" command does not.
UserBranch(s, t, x, writes, act) ==
  IF s.turns[t].pc = "running" THEN s
  ELSE IF writes /\ Held(s) THEN Parked(s, t)
  ELSE IF s.waiting[t] = <<>> \/ s.turns[t].pc # "none" THEN s
  ELSE StartTurn(s, t, x, writes, act)

\* The text of a "user" command waits only while a Run of its thread does not end.
Queued(s, t, w) == [s EXCEPT !.waiting[t] = Append(@, w)]
UserServed(s, t, x, act) ==
  IF s.turns[t].pc = "running" THEN Queued(s, t, TRUE) ELSE UserBranch(s, t, x, TRUE, act)

\* A runner whose Run must wait for the workspace is registered for the wake-up.
Kept(s, t, x, writes) ==
  IF s.turns[t].pc # "running" /\ writes /\ Held(s)
  THEN [registry EXCEPT ![t] = x] ELSE registry

-----------------------------------------------------------------------------
(* The commands *)

\* The second passes: new threads get the next id.
ClockTicks ==
  /\ phase = "ready" /\ clock + 1 \in Threads /\ clock' = clock + 1
  /\ UNCHANGED <<threadVars, runnerVars, turnVars, phase, stopping, commands, commandHistory>>

\* The ids a front end may name: those it was given and those it finds listed.
Known == {t \in Ids : (t # Default /\ t <= clock) \/ disk[t].there}

\* resume: a registered runner is taken out again; without one the next command opens one.
Resume(t) ==
  /\ Command /\ ~disk[t].deleted
  /\ LET kept == IF current # NoObject /\ activeId \notin {NoThreadId, t}
                 THEN [registry EXCEPT ![activeId] = current] ELSE registry
     IN  /\ current' = kept[t]
         /\ registry' = [kept EXCEPT ![t] = NoObject]
  /\ activeId' = t
  /\ disk' = Touched0(disk, t)
  /\ plain' = FALSE
  /\ UNCHANGED <<objects, pending, opening, waiting, turnVars, phase, stopping, clock, choice, failed, dropped, broken>>

\* delete_thread: a mark in metainfo.json; the runner of the active thread is closed.
Delete(t) ==
  /\ Command /\ disk[t].there /\ ~disk[t].deleted
  /\ disk' = [disk EXCEPT ![t].deleted = TRUE]
  /\ LET mine == current # NoObject /\ objects[current].thread = t
     IN  /\ objects' = IF mine THEN ClosedRunner(objects, current) ELSE objects
         /\ current' = IF mine THEN NoObject ELSE current
  /\ activeId' = IF activeId = t THEN NoThreadId ELSE activeId
  /\ plain' = (plain /\ ~HasTurn(t))
  /\ UNCHANGED <<registry, pending, opening, waiting, turnVars, phase, stopping, clock, choice, failed, dropped, broken>>

\* thread_meta opens the thread it is asked about.
Meta(t) ==
  /\ Command /\ ~disk[t].there
  /\ disk' = Touched0(disk, t)
  /\ UNCHANGED <<waiting, runnerVars, turnVars, phase, stopping, clock, commandHistory>>

\* Mutant: a running turn does not stop a reset.
ResetUnasked == TRUE

\* turn_active looks at the one slot of old clients.
ResetAllowed == legacy = NoThreadId

\* reset: close, clean, open a new thread with the chosen backend.
Reset(b) ==
  /\ Command /\ ResetAllowed
  /\ objects' = ClosedRunner(objects, current) /\ current' = NoObject
  /\ disk' = IF current # NoObject \/ activeId # NoThreadId THEN Cleaned(disk, {}) ELSE disk
  /\ BeginOpen("reset", [thread |-> clock, backend |-> b], FALSE)
  /\ choice' = b
  /\ plain' = (plain /\ \A t \in Ids : turns[t].pc # "unwinding")
  /\ UNCHANGED <<activeId, registry, pending, waiting, turnVars, phase, stopping, clock, failed, dropped, broken>>

\* What the handler of a command raises ends the loop; run_wire still has its runner then, and
\* the end of the process closes it again.
Raises ==
  /\ broken' = TRUE /\ phase' = "exiting" /\ stopping' = {t \in Ids : turns[t].pc = "running"}
  /\ UNCHANGED <<current, activeId, registry, pending, opening, waiting, turnVars, clock, choice, failed, dropped>>

\* The runner of a deleted thread does not close; the mark is on disk by then.
DeleteBreaks(t) ==
  /\ Command /\ disk[t].there /\ ~disk[t].deleted
  /\ current # NoObject /\ objects[current].thread = t
  /\ disk' = [disk EXCEPT ![t].deleted = TRUE]
  /\ objects' = ClosedRunner(objects, current)
  /\ plain' = (plain /\ ~HasTurn(t))
  /\ Raises

\* A reset whose runner does not close (no directory is removed yet), or that fails to remove
\* one of the empty directories.
ResetBreaks ==
  /\ Command /\ ResetAllowed
  /\ current # NoObject \/ activeId # NoThreadId
  /\ objects' = ClosedRunner(objects, current)
  /\ \E keep \in SUBSET Ids : disk' = Cleaned(disk, keep)
  /\ plain' = (plain /\ \A t \in Ids : turns[t].pc # "unwinding")
  /\ Raises

\* A command that is not handled before ensure_runner: permit, deny, skills/changed, an
\* unknown one.
OtherCommand ==
  /\ Command /\ current = NoObject
  /\ BeginOpen("other", EnsureTarget, FALSE)
  /\ UNCHANGED <<objects, current, activeId, registry, pending, threadVars, turnVars, phase, stopping, clock,
                 commandHistory>>

\* cancel: the task leaves the turn tables and unwinds.
CancelTurn ==
  /\ Command /\ current # NoObject /\ activeId # NoThreadId /\ turns[activeId].pc = "running"
  /\ turns' = [turns EXCEPT ![activeId].pc = "unwinding"]
  /\ legacy' = NoThreadId
  /\ UNCHANGED <<threadVars, runnerVars, last, parked, phase, stopping, clock, commandHistory>>

\* A user who keeps to one conversation also lets a cancelled Run unwind.
Waits == activeId = NoThreadId \/ turns[activeId].pc # "unwinding"

Receiver == IF activeId = NoThreadId THEN Default ELSE activeId
Enqueue(s, t, w) == [s EXCEPT !.waiting[t] = Append(@, w), !.disk = Touched0(@, t)]

\* input/send: the input waits in a session, on disk and acknowledged, before anything else.
Input(w) ==
  /\ Command /\ Len(waiting[Receiver]) < MaxWaiting
  /\ LET s == Enqueue(Tables, Receiver, w)
     IN  IF current = NoObject
         THEN /\ Become(s) /\ BeginOpen("input", EnsureTarget, w) /\ registry' = registry
         ELSE LET r == UserBranch(s, activeId, current, w, activeId)
              IN  /\ Become(r) /\ opening' = opening
                  /\ registry' = Kept(s, activeId, current, w)
  /\ plain' = (plain /\ Waits)
  /\ UNCHANGED <<current, activeId, pending, phase, stopping, clock, choice, failed, dropped, broken>>

\* The "user" command of old clients: enqueued while a turn runs, else it starts what waits.
UserCommand ==
  /\ Command
  /\ IF current = NoObject
     THEN /\ BeginOpen("user", EnsureTarget, TRUE) /\ Become(Tables)
          /\ UNCHANGED <<registry, dropped>>
     ELSE LET running == turns[activeId].pc = "running"
          IN  /\ Len(waiting[activeId]) < MaxWaiting \/ ~running
              /\ Become(UserServed(Tables, activeId, current, activeId))
              /\ opening' = opening /\ dropped' = (dropped \/ ~running)
              /\ registry' = Kept(Tables, activeId, current, TRUE)
  /\ plain' = (plain /\ Waits)
  /\ UNCHANGED <<current, activeId, pending, phase, stopping, clock, choice, failed, broken>>

-----------------------------------------------------------------------------
(* The end of an open *)

OpensFresh == opening.kind = "reset" \/ activeId = NoThreadId

\* A reset that fails keeps its configuration and sweeps up; another command just ends.
OpenFailed(d) ==
  IF opening.kind = "reset"
  THEN /\ activeId' = NoThreadId /\ pending' = opening.backend /\ failed' = TRUE
       /\ disk' = Cleaned(d, {})
  ELSE disk' = d /\ UNCHANGED <<activeId, pending, failed>>

\* No key or no container runtime, or a sandbox that does not come up.
OpenRefused ==
  /\ opening.kind # "none"
  /\ \E d \in {disk, OpenedDir(disk, opening.thread, opening.backend)} : OpenFailed(d)
  /\ opening' = NoOpening
  /\ UNCHANGED <<objects, current, registry, waiting, turnVars, loopVars, plain, choice, dropped, broken>>

\* A runner that comes up: kept if its sandbox is the one resolved, else closed again.
OpenDone(there) ==
  /\ opening.kind # "none" /\ Fresh # {}
  /\ \E b \in Resolved(opening.backend, there), x \in Fresh :
       LET t    == opening.thread
           made == Created(b)
           s    == [Tables EXCEPT !.objects[x] = made, !.disk = OpenedDir(@, t, b)]
           runs == turns[t].pc = "running"
           r    == IF opening.kind = "input" THEN UserBranch(s, t, x, opening.writes, t)
                   ELSE IF opening.kind = "user" THEN UserServed(s, t, x, t) ELSE s
       IN  \/ /\ Agrees(made)
              /\ opening.kind = "user" /\ runs => Len(waiting[t]) < MaxWaiting
              /\ Become(r) /\ current' = x /\ activeId' = t
              /\ registry' = IF opening.kind \in {"input", "user"}
                             THEN Kept(s, t, x, opening.writes) ELSE registry
              /\ pending' = IF OpensFresh THEN "none" ELSE pending
              /\ failed' = (failed /\ ~OpensFresh)
              /\ dropped' = (dropped \/ (opening.kind = "user" /\ ~runs))
           \/ /\ ~Agrees(made)
              /\ OpenFailed(s.disk)
              /\ objects' = ClosedRunner(s.objects, x)
              /\ UNCHANGED <<current, registry, waiting, turnVars, dropped>>
  /\ opening' = NoOpening
  /\ UNCHANGED <<loopVars, plain, choice, broken>>

\* The sandbox came up and what follows failed (an unknown tool in thread.toml): nobody
\* has the runner, nobody closes it.
OpenLeaks ==
  /\ opening.kind # "none"
  /\ \E x \in Fresh : objects' = [objects EXCEPT ![x] = [Created(opening.backend) EXCEPT
                                                           !.thread = NoThreadId]]
  /\ Created(opening.backend).backend = opening.backend
  /\ OpenFailed(OpenedDir(disk, opening.thread, opening.backend))
  /\ opening' = NoOpening
  /\ UNCHANGED <<current, registry, waiting, turnVars, loopVars, plain, choice, dropped, broken>>

-----------------------------------------------------------------------------
(* Runs, and the end of the process *)

\* after_continuing: the first batch of a Run puts its messages on disk.
TurnSaves(t) ==
  /\ HasTurn(t) /\ phase # "gone" /\ ~disk[t].content
  /\ disk' = [disk EXCEPT ![t].content = TRUE]
  /\ UNCHANGED <<waiting, runnerVars, turnVars, loopVars, commandHistory>>

TurnEnds(t, outcome) ==
  /\ phase # "gone" /\ HasTurn(t)
  /\ turns[t].pc = "unwinding" => outcome = "cancelled"
  /\ turns[t].pc = "running" => outcome # "cancelled"
  /\ Become(TurnOver(t, outcome))
  /\ stopping' = stopping \ {t}
  /\ UNCHANGED <<current, activeId, registry, pending, opening, phase, clock, commands, commandHistory>>

\* stdin ends: the registered tasks are cancelled and awaited one after the other.
Eof ==
  /\ Free /\ phase' = "exiting" /\ stopping' = {t \in Ids : turns[t].pc = "running"}
  /\ UNCHANGED <<threadVars, runnerVars, turnVars, clock, commands, commandHistory>>

ExitCancels(t) ==
  /\ phase = "exiting" /\ t \in stopping /\ Become(TurnOver(t, "cancelled"))
  /\ stopping' = stopping \ {t}
  /\ UNCHANGED <<current, activeId, registry, pending, opening, phase, clock, commands, commandHistory>>

\* The slot of old clients: a Run the chain has started meanwhile for the active thread.
ExitLegacy ==
  /\ phase = "exiting" /\ stopping = {}
  /\ Become(IF legacy = NoThreadId THEN Tables ELSE TurnOver(legacy, "cancelled"))
  /\ phase' = "closing"
  /\ UNCHANGED <<current, activeId, registry, pending, opening, stopping, clock, commands, commandHistory>>

\* The loop's runner first, then the registered ones.
ClosedAtExit ==
  LET first == ClosedRunner(objects, current)
  IN  [x \in Objects |-> IF \E t \in Ids : registry[t] = x THEN ClosedRunner(first, x)[x] ELSE first[x]]

ExitCloses ==
  /\ phase = "closing" /\ phase' = "gone"
  /\ objects' = ClosedAtExit
  /\ \E keep \in {{}, {activeId}} : disk' = IF current = NoObject THEN disk ELSE Cleaned(disk, keep)
  /\ UNCHANGED <<waiting, current, activeId, registry, pending, opening, turnVars, stopping, clock,
                 commands, commandHistory>>

\* The loop's runner does not close, or an empty directory is not removed: the registered runners
\* stay open.
ExitBreaks ==
  /\ phase = "closing" /\ current # NoObject /\ phase' = "gone"
  /\ objects' = ClosedRunner(objects, current)
  /\ \E keep \in SUBSET Ids : disk' = Cleaned(disk, keep)
  /\ UNCHANGED <<waiting, current, activeId, registry, pending, opening, turnVars, stopping, clock,
                 commands, commandHistory>>

CommandNext ==
  \/ ClockTicks
  \/ \E t \in Known : Resume(t) \/ Delete(t) \/ DeleteBreaks(t) \/ Meta(t)
  \/ ResetBreaks \/ \E b \in Backends : Reset(b)
  \/ OtherCommand \/ CancelTurn \/ UserCommand
  \/ \E w \in BOOLEAN : Input(w)
  \/ OpenRefused \/ OpenLeaks
  \/ \E there \in BOOLEAN : OpenDone(there)
  \/ \E t \in Ids : TurnSaves(t) \/ (\E o \in {"completed", "failed", "cancelled"} : TurnEnds(t, o))
  \/ Eof \/ (\E t \in Ids : ExitCancels(t)) \/ ExitLegacy \/ ExitCloses \/ ExitBreaks

CommandSpec == CommandInit /\ [][CommandNext]_commandVars

-----------------------------------------------------------------------------
\* The tables have their types and the queues their bound.
CommandTypeOK ==
  /\ disk \in [Ids -> Dirs] /\ objects \in [Objects -> RunnerObjects]
  /\ current \in Objects \cup {NoObject} /\ activeId \in Ids \cup {NoThreadId}
  /\ registry \in [Ids -> Objects \cup {NoObject}] /\ last \in [Ids -> Objects \cup {NoObject}]
  /\ turns \in [Ids -> TaskStates] /\ legacy \in Ids \cup {NoThreadId}
  /\ \A t \in Ids : Len(waiting[t]) <= MaxWaiting
  /\ phase \in {"ready", "exiting", "closing", "gone"} /\ stopping \subseteq Ids

\* A runner serves the thread it was opened for: as the loop's runner, in the registry, in a
\* Run, in the session.
RunnersOwned ==
  /\ current # NoObject => /\ activeId = objects[current].thread
                           /\ objects[current].state # "unborn"
  /\ \A t \in Ids : \A x \in {registry[t], last[t], turns[t].object} \ {NoObject} :
       objects[x].thread = t

\* No command runs on another backend than the configuration resolved to: an open runner has
\* the sandbox that was asked for.
NeverFallsBack == \A x \in Objects : objects[x].state = "open" => objects[x].backend = objects[x].asked

\* The choice of a reset that failed is what the next new thread is opened with, however
\* often that fails too.
FailedChoiceKept == (failed /\ opening.kind # "reset") => pending = choice

\* A Run's sandbox is in the mode its snapshot states, an idle runner's is the write mode.
ModeHeld ==
  \A x \in Objects : LET on == {t \in Ids : HasTurn(t) /\ turns[t].object = x}
                     IN  /\ \A t \in on : objects[x].writes = turns[t].writes
                         /\ on = {} => objects[x].writes

\* A runner of a failed assembly, which nobody has and nobody closes.
Leaked(x) == objects[x].state = "open" /\ objects[x].thread = NoThreadId

\* With one conversation at a time a Run has its runner open and its directory with the
\* settings the runner was made with, one sandbox is open, and none is closed twice.  This says
\* nothing of two things that go wrong however the user works: a sandbox whose assembly failed
\* stays open beside the others for good, and a command that raised out of the loop has already
\* closed the runner that the end of the process closes.
PlainUseSound ==
  plain =>
    /\ Cardinality({x \in Objects : objects[x].state = "open" /\ ~Leaked(x)}) <= 1
    /\ \A x \in Objects : objects[x].closes <= 1 \/ (broken /\ x = current)
    /\ phase = "ready" => \A t \in Ids : turns[t].pc = "running" =>
         /\ turns[t].object = current /\ objects[current].state = "open"
         /\ disk[t].there /\ disk[t].backend = objects[current].backend
    /\ phase = "gone" => \A x \in Objects : objects[x].state = "open" => Leaked(x)

\* What the command loop promises about runners and thread directories.
CommandsSound ==
  CommandTypeOK /\ RunnersOwned /\ NeverFallsBack /\ FailedChoiceKept /\ ModeHeld /\ PlainUseSound

\* Not so: every "user" command leads to a Run or a queue entry (wire.py:14).
UserCommandRuns == ~dropped
\* Not so: an acknowledged input waits in the session of a thread.
AcknowledgedHasThread == waiting[Default] = <<>>
\* Not so: the runner of a Run stays open and its directory in place.
RunKeepsRunner == phase = "ready" => \A t \in Ids : HasTurn(t) => objects[turns[t].object].state = "open"
RunKeepsDirectory == \A t \in Ids : HasTurn(t) => disk[t].there
\* Not so: every sandbox that came up is in somebody's hands.
NothingLeaks == \A x \in Objects : ~Leaked(x)
\* Not so: the settings of a thread stay those its runner was made with.
SettingsFrozen ==
  \A x \in Objects : (objects[x].state = "open" /\ objects[x].thread # NoThreadId) =>
    disk[objects[x].thread].backend = objects[x].backend
\* Not so: the end of the process closes every runner, and each once.
ExitClosesAll == phase = "gone" => \A x \in Objects : objects[x].state # "open"
ClosedOnce == \A x \in Objects : objects[x].closes <= 1
\* Not so: the end of the process starts no Run and keeps what waits on disk.
ExitStartsNothing == phase = "gone" => \A t \in Ids : ~HasTurn(t)
WaitingSurvives == phase = "gone" => \A t \in Ids : waiting[t] # <<>> => disk[t].there
=============================================================================
