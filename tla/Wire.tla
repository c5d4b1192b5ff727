--------------------------------- MODULE Wire ---------------------------------
(***************************************************************************)
(* The wire process (app/wire.py): one command loop that serves the active  *)
(* thread, one background task per Run (RunEngine.run_loop), and the state  *)
(* they share -- sessions, workspace leases with their waiters, the runner  *)
(* registries, the turn table and each runner's inbound checkpoint.         *)
(*                                                                          *)
(* asyncio runs one piece of code at a time up to its next real suspension. *)
(* A command runs without suspending except while ensure_runner opens a     *)
(* sandbox; a Run suspends before its first event, in the model stream, in  *)
(* its tools and while it unwinds.  The end of a Run (settle, terminal      *)
(* transition, wake the waiters, clear the turn, chain the next input) does *)
(* not suspend: its steps are separate actions here, and while one is under *)
(* way nothing else is enabled.                                             *)
(***************************************************************************)
EXTENDS SessionOps

CONSTANTS Thread, NoThread,
          Key,         \* workspaces
          KeyOf,       \* workspace of each thread (_workspace_key_for)
          Owner,       \* thread of each runner object (runner.thread.id)
          NoMessage,
          ReadInput,   \* inputs sent in a read-only mode (ask, plan)
          Inputs,      \* the inputs the user of each thread may send
          MaxTurns,    \* agent.max_turns: tool batches before the synthesis turn
          Features     \* what the environment does, see below

\* cancel: the user cancels Runs.  fail: a Run may fail.  early: a Run may end
\* before its first event.  reopen: the user resumes the thread that is active
\* already.  return: the user resumes a thread that waits for its workspace.
Feature == {"cancel", "fail", "early", "reopen", "return"}

ASSUME WireConstants ==
  /\ NoThread \notin Thread /\ NoMessage \notin Message
  /\ Run \subseteq Nat /\ MaxTurns \in Nat
  /\ KeyOf \in [Thread -> Key] /\ Owner \in [Runner -> Thread]
  /\ ReadInput \subseteq Message /\ Inputs \in [Thread -> SUBSET Message]
  /\ Features \subseteq Feature

Delivery == {"auto", "immediate", "enqueue"}

\* Where a Run's task is: created (no step taken yet), opening (before the first
\* event), in the model stream, in a tool batch, unwinding from task.cancel(),
\* in the finally blocks, done.
TaskPc == {"none", "created", "opening", "model", "tool", "unwinding", "ending", "done"}

Task == [pc     : TaskPc,
         thread : Thread \cup {NoThread},
         runner : Runner \cup {NoRunner},
         seen   : Run \cup {NoRun},   \* run_loop's run_id: session's run at the last event
         batches : 0..MaxTurns,       \* tool batches done
         write  : BOOLEAN]            \* the sandbox mode the consumed input asked for

NoTask == [pc |-> "none", thread |-> NoThread, runner |-> NoRunner,
           seen |-> NoRun, batches |-> 0, write |-> FALSE]

Ending == [run : Run \cup {NoRun}, todo : Seq(Thread), chain : BOOLEAN,
           stage : {"idle", "wake", "chain"}]
NotEnding == [run |-> NoRun, todo |-> <<>>, chain |-> FALSE, stage |-> "idle"]

VARIABLES
  sess,      \* session record of each thread
  lease,     \* holder run of each workspace's write lease
  waiters,   \* threads waiting for each workspace
  active,    \* state["thread_id"]
  cur,       \* the command loop's runner
  saved,     \* state["_runners"]
  engine,    \* RunEngine._runners
  turn,      \* state["_turns"]: the run whose task is registered
  command,   \* input whose command is still being handled
  opened,    \* runner objects created so far
  flag,      \* inbound_checkpoint.cancelled of each runner
  box,       \* inbound_checkpoint._pending_immediate of each runner
  task,      \* the task of each run
  fin,       \* the end of a Run that is under way
  sent, given, applied, asked, outcome  \* history, see Init

shared  == <<sess, lease, waiters, turn, task>>
client  == <<active, cur, saved, command, opened>>
inbound == <<engine, flag, box>>
history == <<sent, given, applied, asked, outcome>>
vars == <<shared, client, inbound, history, fin>>

Init ==
  /\ sess = [t \in Thread |-> NewSession]
  /\ lease = [k \in Key |-> NoRun]
  /\ waiters = [k \in Key |-> <<>>]
  /\ active \in Thread /\ cur = NoRunner
  /\ saved = [t \in Thread |-> NoRunner]
  /\ engine = [t \in Thread |-> NoRunner]
  /\ turn = [t \in Thread |-> NoRun]
  /\ command = NoMessage /\ opened = {}
  /\ flag = [x \in Runner |-> FALSE]
  /\ box = [x \in Runner |-> <<>>]
  /\ task = [r \in Run |-> NoTask]
  /\ fin = NotEnding
  /\ sent = {}       \* inputs the user sent
  /\ given = <<>>    \* inputs a Run got: it started with them or read them
  /\ applied = {}    \* inputs acknowledged as "applied"
  /\ asked = {}      \* runs that were the session's when the user cancelled
  /\ outcome = [r \in Run |-> "none"]

-----------------------------------------------------------------------------
(* Who may run *)

\* A command is past ensure_runner: it will not suspend before it returns.
CommandBusy == command # NoMessage /\ cur # NoRunner

\* The event loop is free to run a task or to read the next command.
Quiet       == fin.stage = "idle" /\ ~CommandBusy
NextCommand == Quiet /\ command = NoMessage

TurnActive(t) == turn[t] # NoRun

\* Fresh run ids are numbered in the order they are handed out.
NewRunIds == {r \in Run : /\ task[r].pc = "none"
                          /\ \A q \in Run : task[q].pc = "none" => r <= q}

-----------------------------------------------------------------------------
(* Starting a Run: the creation flow shared by the user command, the chain   *)
(* after a Run and the wake-up of a waiter.                                  *)

\* The mode decides whether a Run needs the lease: ask and plan only read.
Writes(m) == m \notin ReadInput

\* register_workspace_waiter
AddedWaiter(q, t) == IF t \in ToSet(q) THEN q ELSE Append(q, t)

\* Mutant: a lease blocks only while the turn of its holder is registered.
LeaseBlocksByTurn(t, write) ==
  write /\ lease[KeyOf[t]] # NoRun
        /\ turn[task[lease[KeyOf[t]]].thread] = lease[KeyOf[t]]

\* try_acquire_workspace; a read-only mode never blocks and holds nothing.
LeaseBlocks(t, write) == write /\ lease[KeyOf[t]] # NoRun

Park(t) ==
  /\ waiters' = [waiters EXCEPT ![KeyOf[t]] = AddedWaiter(@, t)]
  /\ UNCHANGED <<sess, lease, turn, task, given, applied>>

Launch(t, rn, write, pc) ==
  \E r \in NewRunIds :
    LET m == Head(sess[t].queue)
    IN  /\ sess' = [sess EXCEPT ![t] = Frozen(Started(@, r, rn), r)]
        /\ lease' = IF write THEN [lease EXCEPT ![KeyOf[t]] = r] ELSE lease
        /\ turn' = [turn EXCEPT ![t] = r]
        /\ task' = [task EXCEPT ![r] =
                      [pc |-> pc, thread |-> t, runner |-> rn, seen |-> NoRun,
                       batches |-> 0, write |-> Writes(m)]]
        /\ given' = Append(given, m)
        /\ applied' = applied \cup {m}
        /\ UNCHANGED waiters

\* Lease first, then start_run; a refused start gives the lease back.
TryStart(t, rn, write, pc) ==
  IF LeaseBlocks(t, write) THEN Park(t)
  ELSE IF CanStart(sess[t]) THEN Launch(t, rn, write, pc)
  ELSE UNCHANGED <<shared, given, applied>>

\* _auto_start_next: the mode is that of the input at the head of the queue.
AutoStartNext(t, rn) ==
  IF sess[t].queue = <<>>
    THEN UNCHANGED <<shared, given, applied>>
    ELSE TryStart(t, rn, Writes(Head(sess[t].queue)), "created")

-----------------------------------------------------------------------------
(* Commands of the client *)

\* input/send: route the input and, if it became an immediate of the active
\* Run, put it into the runner's checkpoint mailbox (RunEngine.steer).
InputSend(m, d) ==
  LET s  == sess[active]
      en == IF cur # NoRunner THEN cur ELSE engine[active]
      rn == IF en # NoRunner THEN en ELSE s.runner
  IN  /\ NextCommand /\ m \in Inputs[active] \ sent
      /\ sess' = [sess EXCEPT ![active] = Routed(s, m, d)]
      /\ IF RoutedToPending(s, d)
           THEN /\ engine' = [engine EXCEPT ![active] = en]
                /\ box' = IF rn = NoRunner THEN box ELSE [box EXCEPT ![rn] = Append(@, m)]
           ELSE UNCHANGED <<engine, box>>
      /\ command' = m
      /\ sent' = sent \cup {m}
      /\ UNCHANGED <<lease, waiters, turn, task, active, cur, saved, opened, flag,
                     given, applied, asked, outcome, fin>>

\* ensure_runner opens a sandbox for the active thread, or fails.
OpenRunner(rn) ==
  /\ fin.stage = "idle" /\ command # NoMessage /\ cur = NoRunner
  /\ rn \in Runner \ opened /\ Owner[rn] = active
  /\ cur' = rn
  /\ opened' = opened \cup {rn}
  /\ UNCHANGED <<shared, active, saved, command, inbound, history, fin>>

OpenFails ==
  /\ "fail" \in Features
  /\ fin.stage = "idle" /\ command # NoMessage /\ cur = NoRunner
  /\ command' = NoMessage
  /\ UNCHANGED <<shared, active, cur, saved, opened, inbound, history, fin>>

\* The rest of the user command: start a Run unless a turn is active.  The lease
\* is decided by the mode of the input just sent.
UserStart ==
  /\ fin.stage = "idle" /\ CommandBusy
  /\ command' = NoMessage
  /\ IF TurnActive(active)
       THEN UNCHANGED <<shared, saved, given, applied>>
       ELSE /\ TryStart(active, cur, Writes(command), "opening")
            /\ saved' = IF LeaseBlocks(active, Writes(command))
                          THEN [saved EXCEPT ![active] = cur] ELSE saved
  /\ engine' = IF turn'[active] # turn[active] THEN [engine EXCEPT ![active] = cur] ELSE engine
  /\ UNCHANGED <<active, cur, opened, flag, box, sent, asked, outcome, fin>>

\* Mutant: the runner of the thread that is left is used when none is cached.
ResumeKeepingRunner(t) ==
  /\ NextCommand
  /\ active' = t
  /\ cur' = IF saved[t] = NoRunner THEN cur ELSE saved[t]
  /\ saved' = [saved EXCEPT ![t] = NoRunner, ![active] = cur]
  /\ UNCHANGED <<shared, command, opened, inbound, history, fin>>

\* resume: keep the runner of the thread that is left, take the one of the
\* thread that is entered out of the registry.
Resume(t) ==
  /\ NextCommand
  /\ t = active => "reopen" \in Features /\ cur # NoRunner
  /\ t \in ToSet(waiters[KeyOf[t]]) => "return" \in Features
  /\ active' = t
  /\ cur' = saved[t]
  /\ saved' = [u \in Thread |->
                 IF u = t THEN NoRunner
                 ELSE IF u = active /\ cur # NoRunner THEN cur ELSE saved[u]]
  /\ UNCHANGED <<shared, command, opened, inbound, history, fin>>

\* A task that has not taken its first step never runs; any other is thrown
\* CancelledError at its suspension point and unwinds.
CancelledPc(pc) == IF pc = "created" THEN "done" ELSE "unwinding"

\* Mutant: cancel gives the lease back at once.
CancelReleasing ==
  /\ "cancel" \in Features /\ NextCommand
  /\ cur # NoRunner /\ TurnActive(active)
  /\ flag' = [flag EXCEPT ![cur] = TRUE]
  /\ task' = [task EXCEPT ![turn[active]].pc = CancelledPc(@)]
  /\ lease' = [k \in Key |-> IF lease[k] = turn[active] THEN NoRun ELSE lease[k]]
  /\ turn' = [turn EXCEPT ![active] = NoRun]
  /\ asked' = asked \cup {turn[active]}
  /\ UNCHANGED <<sess, engine, waiters, client, box, sent, given, applied, outcome, fin>>

\* cancel: set the flag on the runner and cancel the registered task.
Cancel ==
  /\ "cancel" \in Features /\ NextCommand
  /\ cur # NoRunner /\ TurnActive(active)
  /\ task[turn[active]].pc \in {"created", "opening"} => "early" \in Features
  /\ engine' = [engine EXCEPT ![active] = cur]
  /\ flag' = [flag EXCEPT ![cur] = TRUE]
  /\ task' = [task EXCEPT ![turn[active]].pc = CancelledPc(@)]
  /\ turn' = [turn EXCEPT ![active] = NoRun]
  /\ asked' = asked \cup {turn[active]}
  /\ UNCHANGED <<sess, lease, waiters, client, box, sent, given, applied, outcome, fin>>

-----------------------------------------------------------------------------
(* The end of a Run: RunEngine.run_loop's finally and run_user_turn's *)

\* Mutant: what was not read is dropped.
FinishedDropping(s, unread, id, o) ==
  LET settled == [s EXCEPT !.pending = <<>>]
  IN  IF CanEnd(settled, id, o) THEN Ended(settled, o) ELSE settled

\* before_finish settles the pending immediates: those still in the runner's
\* mailbox go back to the queue, the others are acknowledged as applied.  Then
\* _finish_run: only if the session's run is the one the loop has seen.
FinishedSession(s, unread, id, o) ==
  LET settled == [AtHead(s, UnreadOf(s, unread)) EXCEPT !.pending = <<>>]
  IN  IF CanEnd(settled, id, o) THEN Ended(settled, o) ELSE settled

\* Mutants: the lease is not given back; a failed Run wakes nobody.
ReleasedNever(id)        == lease
WakesUnlessFailed(mine, o) == mine /\ o # "failed"

\* release_workspace: only the holder's id releases.
Released(id) == [k \in Key |-> IF lease[k] = id THEN NoRun ELSE lease[k]]

\* on_finish takes the waiters after every terminal transition.
Wakes(mine, o) == mine

EndLoop(r, id, s, o, mail) ==
  LET t    == task[r].thread
      mine == id # NoRun /\ s.run = id
      k    == KeyOf[t]
  IN  /\ sess' = [sess EXCEPT ![t] = FinishedSession(s, ToSet(mail), id, o)]
      /\ lease' = IF mine THEN Released(id) ELSE lease
      /\ waiters' = IF Wakes(mine, o) THEN [waiters EXCEPT ![k] = <<>>] ELSE waiters
      /\ task' = [task EXCEPT ![r].pc = "ending", ![r].seen = id]
      /\ fin' = [run |-> r, chain |-> o # "failed", stage |-> "wake",
                 todo |-> IF Wakes(mine, o) THEN waiters[k] ELSE <<>>]
      /\ box' = [box EXCEPT ![task[r].runner] = <<>>]
      /\ applied' = applied \cup ToSet(ReadOf(s, ToSet(mail)))
      /\ outcome' = [outcome EXCEPT ![r] = o]
      /\ UNCHANGED <<turn, client, engine, flag, sent, asked>>

\* _wire_after_finish, one waiter: skip itself, keep one that cannot be started
\* yet, skip one whose turn is active, start any other.
WakeNext ==
  /\ fin.stage = "wake" /\ fin.todo # <<>>
  /\ fin' = [fin EXCEPT !.todo = Tail(@)]
  /\ LET t  == task[fin.run].thread
         w  == Head(fin.todo)
         wr == IF saved[w] # NoRunner THEN saved[w] ELSE sess[w].runner
     IN  IF w = t \/ (wr # NoRunner /\ TurnActive(w))
           THEN UNCHANGED <<shared, given, applied>>
           ELSE IF wr = NoRunner
             THEN /\ waiters' = [waiters EXCEPT ![KeyOf[t]] = AddedWaiter(@, w)]
                  /\ UNCHANGED <<sess, lease, turn, task, given, applied>>
             ELSE AutoStartNext(w, wr)
  /\ UNCHANGED <<client, inbound, sent, asked, outcome>>

\* _set_turn(None) and unregister_runner, whatever is registered by now.
EndTurn ==
  /\ fin.stage = "wake" /\ fin.todo = <<>>
  /\ turn' = [turn EXCEPT ![task[fin.run].thread] = NoRun]
  /\ engine' = [engine EXCEPT ![task[fin.run].thread] = NoRunner]
  /\ task' = [task EXCEPT ![fin.run].pc = "done"]
  /\ fin' = IF fin.chain THEN [fin EXCEPT !.stage = "chain"] ELSE NotEnding
  /\ UNCHANGED <<sess, lease, waiters, client, flag, box, history>>

\* A completed or cancelled Run chains the next queued input.
Chain ==
  /\ fin.stage = "chain"
  /\ AutoStartNext(task[fin.run].thread, task[fin.run].runner)
  /\ fin' = NotEnding
  /\ UNCHANGED <<client, inbound, sent, asked, outcome>>

-----------------------------------------------------------------------------
(* The task of a Run between its suspension points *)

SessionOf(r) == sess[task[r].thread]
Cancelled(r) == flag[task[r].runner]
Mail(r)      == box[task[r].runner]

\* _declare_phase: silently refused when it is not a legal transition or the
\* session has another run.
Phased(s, id, p) == IF CanDeclare(s, id, p) THEN Declared(s, p) ELSE s

\* A checkpoint that admits immediates (before_model, after_tool_batch).
ReadMail(r) ==
  /\ given' = given \o Mail(r)
  /\ box' = [box EXCEPT ![task[r].runner] = <<>>]

Continue(r, s, pc, batches) ==
  /\ sess' = [sess EXCEPT ![task[r].thread] = s]
  /\ task' = [task EXCEPT ![r].pc = pc, ![r].seen = s.run, ![r].batches = batches]
  /\ UNCHANGED <<lease, waiters, turn, client, engine, flag, sent, applied, asked,
                 outcome, fin>>

\* RunCancelled ends the stream with a RunEnd event.
StopAtCheckpoint(r, mail) ==
  LET s == SessionOf(r)
  IN  EndLoop(r, s.run, Phased(s, s.run, "running"), "cancelled", mail)

\* The first step of a task the chain or a wake-up created.
Begin(r) ==
  /\ Quiet /\ task[r].pc = "created"
  /\ task' = [task EXCEPT ![r].pc = "opening"]
  /\ engine' = [engine EXCEPT ![task[r].thread] = task[r].runner]
  /\ UNCHANGED <<sess, lease, waiters, turn, client, flag, box, history, fin>>

\* RunBegin is the first event; run_started admits a cancel, before_model both.
FirstEvent(r) ==
  /\ Quiet /\ task[r].pc = "opening"
  /\ IF Cancelled(r)
       THEN StopAtCheckpoint(r, Mail(r)) /\ UNCHANGED given
       ELSE ReadMail(r) /\ Continue(r, SessionOf(r), "model", 0)

\* The model answered: after_model admits a cancel only, then TurnResult.
\* Without tool calls RunEnd follows, else before_tool_batch and the tools; the
\* synthesis turn after the last batch runs no tools.
ModelReturns(r, tools) ==
  LET s  == SessionOf(r)
      st == Phased(s, s.run, "running_tool")
  IN  /\ Quiet /\ task[r].pc = "model"
      /\ IF Cancelled(r) THEN StopAtCheckpoint(r, Mail(r)) /\ UNCHANGED given
         ELSE IF tools
           THEN /\ task[r].batches < MaxTurns
                /\ Continue(r, st, "tool", task[r].batches) /\ UNCHANGED <<given, box>>
         ELSE EndLoop(r, s.run, Phased(st, s.run, "running"), "completed", Mail(r))
              /\ UNCHANGED given

\* Mutant: the turn counter is never advanced.
ToolsReturnUncounted(r) ==
  /\ Quiet /\ task[r].pc = "tool"
  /\ ReadMail(r) /\ Continue(r, SessionOf(r), "model", 0)

\* The tool batch is over: after_tool_batch applies the immediates even when the
\* Run is cancelled at the same checkpoint.
ToolsReturn(r) ==
  /\ Quiet /\ task[r].pc = "tool"
  /\ IF Cancelled(r)
       THEN StopAtCheckpoint(r, <<>>) /\ given' = given \o Mail(r)
       ELSE ReadMail(r) /\ Continue(r, SessionOf(r), "model", task[r].batches + 1)

\* An exception: no further event, the id is the one of the last event.
Fail(r) ==
  /\ "fail" \in Features
  /\ Quiet
  /\ \/ task[r].pc \in {"model", "tool"}
     \/ task[r].pc = "opening" /\ "early" \in Features
  /\ EndLoop(r, task[r].seen, SessionOf(r), "failed", Mail(r))
  /\ UNCHANGED given

\* The cancelled task has unwound its awaits.
Unwound(r) ==
  /\ Quiet /\ task[r].pc = "unwinding"
  /\ EndLoop(r, task[r].seen, SessionOf(r), "cancelled", Mail(r))
  /\ UNCHANGED given

Step(r) ==
  \/ Begin(r) \/ FirstEvent(r)
  \/ \E tools \in BOOLEAN : ModelReturns(r, tools)
  \/ ToolsReturn(r) \/ Fail(r) \/ Unwound(r)

EventLoop == WakeNext \/ EndTurn \/ Chain \/ UserStart

Next ==
  \/ \E m \in Message, d \in Delivery : InputSend(m, d)
  \/ \E t \in Thread : Resume(t)
  \/ Cancel \/ OpenFails
  \/ \E rn \in Runner : OpenRunner(rn)
  \/ \E r \in Run : Step(r)
  \/ EventLoop

Spec == Init /\ [][Next]_vars

-----------------------------------------------------------------------------
(* Properties *)

LivePc  == {"created", "opening", "model", "tool", "unwinding"}
Live(r) == task[r].pc \in LivePc
Writing(r) == Live(r) /\ task[r].write

\* Every variable has its type; a Run does at most MaxTurns tool batches.
TypeOK ==
  /\ sess \in [Thread -> Session]
  /\ lease \in [Key -> Run \cup {NoRun}]
  /\ waiters \in [Key -> Seq(Thread)]
  /\ active \in Thread /\ cur \in Runner \cup {NoRunner}
  /\ saved \in [Thread -> Runner \cup {NoRunner}]
  /\ engine \in [Thread -> Runner \cup {NoRunner}]
  /\ turn \in [Thread -> Run \cup {NoRun}]
  /\ command \in Message \cup {NoMessage} /\ opened \subseteq Runner
  /\ flag \in [Runner -> BOOLEAN] /\ box \in [Runner -> Seq(Message)]
  /\ task \in [Run -> Task] /\ fin \in Ending
  /\ sent \subseteq Message /\ given \in Seq(Message) /\ applied \subseteq Message
  /\ asked \subseteq Run
  /\ outcome \in [Run -> {"none", "completed", "cancelled", "failed"}]

\* At most one live Run writes to a workspace.
WriteExclusion ==
  \A r, q \in Run :
    Writing(r) /\ Writing(q) /\ KeyOf[task[r].thread] = KeyOf[task[q].thread] => r = q

\* A lease is held by a Run that is still live: it is never leaked.
LeaseOfLiveRun == \A k \in Key : lease[k] # NoRun => Live(lease[k])

\* At most one run loop works for a thread (and with its runner).
OneLoopPerThread ==
  \A r, q \in Run : Live(r) /\ Live(q) /\ task[r].thread = task[q].thread => r = q

\* Whenever the event loop is free, a thread that waits for a workspace waits
\* for a release that is still to come.
WaitersHaveHolder ==
  fin.stage = "idle" => \A k \in Key : waiters[k] # <<>> => lease[k] # NoRun

\* Every input the user sent waits in its thread or was given to a Run.
NoInputLost ==
  sent = ToSet(given) \cup
           UNION {ToSet(sess[t].queue) \cup ToSet(sess[t].pending) : t \in Thread}

\* No input is given twice.
GivenOnce == IsInjective(given)

\* Every input the user sent waits in its thread or was given to a Run, and
\* none is given twice, whatever is cancelled, fails or ends early meanwhile
\* (InputQueue: "No silent loss").  Not so with the feature reopen: a Run reads
\* the mailbox of a runner the client's inputs no longer go to.
InputsAccounted == NoInputLost /\ GivenOnce

\* The "applied" acknowledgement is only sent for what a Run really got.  Not so
\* with the feature reopen, for the same reason.
AppliedWasGiven == applied \subseteq ToSet(given)

\* "Any exit path goes through the terminal transition": a Run whose task is
\* over is not the active run of its session.
EveryExitEnds ==
  \A r \in Run : task[r].pc = "done" => ~(HasActiveRun(SessionOf(r)) /\ SessionOf(r).run = r)

\* Whichever way a Run ends: it lets go of its workspace and of its session.
ExitsReleaseAll == LeaseOfLiveRun /\ EveryExitEnds

\* "cancel only cancels the CURRENT Run".
CancelOnlyCurrent == \A r \in Run : outcome[r] = "cancelled" => r \in asked

\* A Run is only ever cancelled because the user cancelled a Run of its thread.
CancelStaysInThread ==
  \A r \in Run : outcome[r] = "cancelled" =>
    \E q \in asked : task[q].thread = task[r].thread

-----------------------------------------------------------------------------
(* Fairness: a task that is runnable is run, and what a Run awaits (the model, *)
(* a tool, the unwinding of a cancelled await) comes to an end.                 *)

Fairness ==
  /\ WF_vars(EventLoop)
  /\ \A r \in Run : WF_vars(Step(r))
  /\ WF_vars(OpenFails \/ \E rn \in Runner : OpenRunner(rn))

FairSpec == Spec /\ Fairness

\* "A released lease must never leave a queued waiter waiting forever."
Waits(t) == t \in ToSet(waiters[KeyOf[t]])
WaiterServed ==
  \A t \in Thread : Waits(t) ~> \E r \in Run : Live(r) /\ task[r].thread = t

\* Every Run that was started comes to its end and clears its turn.
RunsEnd == \A r \in Run : Live(r) ~> task[r].pc = "done"

=============================================================================
