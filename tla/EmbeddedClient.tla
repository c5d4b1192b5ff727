--------------------------- MODULE EmbeddedClient ---------------------------
(***************************************************************************)
(* EmbeddedAgentClient (app/client.py): the client the terminal front ends  *)
(* use inside their own process.  It keeps one runner per thread for the    *)
(* life of the process, starts Runs for queued inputs and drives each Run   *)
(* with RunEngine.run_loop.                                                 *)
(*                                                                          *)
(* The methods of the session manager never suspend, so a start suspends    *)
(* only while the factory opens the thread's first runner; the end of a Run *)
(* (terminal transition, lease, waiters, chain) is one step.                *)
(***************************************************************************)
EXTENDS SessionOps

CONSTANTS Thread, NoThread,
          Key,          \* workspaces
          KeyOf,        \* workspace of each thread (_workspace_key)
          Inputs,       \* the inputs the user of each thread may send
          ReadInput     \* inputs sent in a read-only mode (ask, plan)

ASSUME ClientConstants ==
  /\ NoThread \notin Thread /\ Run \subseteq Nat
  /\ KeyOf \in [Thread -> Key] /\ ReadInput \subseteq Message
  /\ Inputs \in [Thread -> SUBSET Message]

Loop == [pc     : {"none", "drawn", "created", "opening", "model", "tool", "unwinding", "done"},
         thread : Thread \cup {NoThread},
         runner : Runner \cup {NoRunner},  \* the runner its loop drives
         seen   : Run \cup {NoRun},        \* run_loop's run_id: session's run at the last event
         writes : BOOLEAN]                 \* mode of the input it consumed
NoLoop == [pc |-> "none", thread |-> NoThread, runner |-> NoRunner, seen |-> NoRun,
           writes |-> FALSE]

VARIABLES
  sess, lease, waiters,  \* ThreadSessionManager, as in Wire
  runners,    \* _runners: the cached runner of each thread
  opened,     \* runners the factory made
  starting,   \* start_run calls waiting for the factory: <<thread, input peeked, run>>
  loop,       \* the task of each run
  tasks,      \* _run_tasks: registered run of each thread
  flag, box,  \* inbound_checkpoint of each runner: cancelled, _pending_immediate
  life,       \* "open", "closing", "closed"
  sent, given, told, asked, ended, overlapped   \* history, see ClientInit

clientVars == <<sess, lease, waiters, runners, opened, starting, loop, tasks, flag, box,
                life, sent, given, told, asked, ended, overlapped>>
runVars == <<sess, lease, waiters, loop, tasks, given>>

ClientInit ==
  /\ sess = [t \in Thread |-> NewSession]
  /\ lease = [k \in Key |-> NoRun]
  /\ waiters = [k \in Key |-> <<>>]
  /\ runners = [t \in Thread |-> NoRunner] /\ opened = {} /\ starting = {}
  /\ loop = [r \in Run |-> NoLoop] /\ tasks = [t \in Thread |-> NoRun]
  /\ flag = [x \in Runner |-> FALSE] /\ box = [x \in Runner |-> <<>>]
  /\ life = "open"
  /\ sent = {}        \* inputs the user sent
  /\ given = [m \in Message |-> <<>>]  \* runs that started with it or read it
  /\ told = {}        \* inputs acknowledged as "applied" by a steer
  /\ asked = {}       \* runs the user cancelled
  /\ ended = [r \in Run |-> "no"]  \* how the loop of each run ended
  /\ overlapped = {}  \* threads whose starts waited for the factory together

-----------------------------------------------------------------------------
(* Starting a Run.  A step that starts several Runs threads the part of the *)
(* state it changes, a record of runVars, through them.                     *)

Here == [sess |-> sess, lease |-> lease, waiters |-> waiters, loop |-> loop,
         tasks |-> tasks, given |-> given]

Becomes(v) ==
  /\ sess' = v.sess /\ lease' = v.lease /\ waiters' = v.waiters
  /\ loop' = v.loop /\ tasks' = v.tasks /\ given' = v.given

Undrawn(v)  == {r \in Run : v.loop[r].pc = "none"}
DrawnRun(v) == CHOOSE r \in Undrawn(v) : \A q \in Undrawn(v) : r <= q

\* The rest of start_run once the runner is there.  The mode is that of the input
\* peeked before, the input consumed is the queue's head now.
StartedRun(v, t, x, peek, r) ==
  LET k == KeyOf[t]
      s == v.sess[t]
      w == peek \notin ReadInput
  IN  IF w /\ v.lease[k] # NoRun
        THEN [v EXCEPT !.waiters[k] = IF t \in ToSet(@) THEN @ ELSE Append(@, t),
                       !.loop[r].pc = "done"]
      ELSE IF ~CanStart(s) THEN [v EXCEPT !.loop[r].pc = "done"]
      ELSE [v EXCEPT !.sess[t] = Started(s, r, x),
                     !.lease[k] = IF w THEN r ELSE @,
                     !.loop[r] = [NoLoop EXCEPT !.pc = "created", !.thread = t,
                                                !.writes = Head(s.queue) \notin ReadInput],
                     !.tasks[t] = r,
                     !.given[Head(s.queue)] = Append(@, r)]

MayStart(v, t) == v.sess[t].queue # <<>> /\ ~HasActiveRun(v.sess[t])

\* start_run of a thread whose runner is cached: it does not suspend.
StartNow(v, t) ==
  IF ~MayStart(v, t) THEN v
  ELSE StartedRun(v, t, runners[t], Head(v.sess[t].queue), DrawnRun(v))

\* send_input: route, and start a Run when the input was queued and none is active.
SendInput(t, m, delivery) ==
  /\ life = "open" /\ m \in Inputs[t] \ sent /\ Undrawn(Here) # {}
  /\ sent' = sent \cup {m}
  /\ LET s == Routed(sess[t], m, delivery)
         v == [Here EXCEPT !.sess[t] = s]
     IN  IF m \in ToSet(s.queue) /\ MayStart(v, t) /\ runners[t] = NoRunner
           THEN /\ starting' = starting \cup {<<t, Head(s.queue), DrawnRun(v)>>}
                /\ overlapped' = IF \E c \in starting : c[1] = t
                                   THEN overlapped \cup {t} ELSE overlapped
                /\ Becomes([v EXCEPT !.loop[DrawnRun(v)].pc = "drawn"])
           ELSE /\ Becomes(IF m \in ToSet(s.queue) THEN StartNow(v, t) ELSE v)
                /\ UNCHANGED <<starting, overlapped>>
  /\ UNCHANGED <<runners, opened, flag, box, life, told, asked, ended>>

\* The factory returns a new runner: it replaces whatever is cached by now.
FactoryDone(c) ==
  /\ life # "closed" /\ c \in starting /\ Runner \ opened # {}
  /\ LET x == CHOOSE x \in Runner : x \notin opened
     IN  /\ opened' = opened \cup {x}
         /\ runners' = [runners EXCEPT ![c[1]] = x]
         /\ Becomes(StartedRun(Here, c[1], x, c[2], c[3]))
  /\ starting' = starting \ {c}
  /\ UNCHANGED <<flag, box, life, sent, told, asked, ended, overlapped>>

\* The factory fails: send_input raises, the input stays queued.
FactoryFails(c) ==
  /\ life # "closed" /\ c \in starting
  /\ starting' = starting \ {c}
  /\ loop' = [loop EXCEPT ![c[3]].pc = "done"]
  /\ UNCHANGED <<sess, lease, waiters, runners, opened, tasks, flag, box, life, sent, given,
                 told, asked, ended, overlapped>>

-----------------------------------------------------------------------------
(* The loop of a Run *)

SessionOf(r) == sess[loop[r].thread]

\* One event of a loop: the loop adopts the session's run, declares a phase, and
\* _drain_immediate hands what is pending to the session's runner.
Drained(s, p) == PendingTaken(IF CanDeclare(s, s.run, p) THEN Declared(s, p) ELSE s)
Boxed(s)      == [box EXCEPT ![s.runner] = @ \o s.pending]

Event(r, p, pc, boxes) ==
  LET s == SessionOf(r)
  IN  /\ sess' = [sess EXCEPT ![loop[r].thread] = Drained(s, p)]
      /\ told' = told \cup ToSet(s.pending)
      /\ loop' = [loop EXCEPT ![r].pc = pc, ![r].seen = s.run]
      /\ box' = boxes
      /\ UNCHANGED <<lease, waiters, runners, opened, starting, tasks, flag, life, sent, asked,
                     ended, overlapped>>

\* A checkpoint that admits immediates: the loop reads the mailbox of its own runner.
GivenTo(r, boxes) == [m \in Message |-> IF m \in ToSet(boxes[loop[r].runner])
                                           THEN Append(given[m], r) ELSE given[m]]
Emptied(r, boxes) == [boxes EXCEPT ![loop[r].runner] = <<>>]

\* The first step of the task: the runner is the one cached by now, and without
\* one the task dies.
Begin(r) ==
  /\ life # "closed" /\ loop[r].pc = "created"
  /\ LET t == loop[r].thread
     IN  /\ loop' = [loop EXCEPT ![r].runner = runners[t],
                                 ![r].pc = IF runners[t] = NoRunner THEN "done" ELSE "opening"]
         /\ sess' = [sess EXCEPT ![t] = IF CanFreeze(@, r) THEN Frozen(@, r) ELSE @]
  /\ UNCHANGED <<lease, waiters, runners, opened, starting, tasks, flag, box, life, sent,
                 given, told, asked, ended, overlapped>>

\* The end of a loop.  before_finish puts what is pending back at the queue's head;
\* RunEngine._finish_run ends the session's run if the loop has seen it; the
\* waiters of its workspace are started, and after a success the next input.
Finished(v, r, id, o) ==
  LET t    == v.loop[r].thread
      s    == AtHead(PendingTaken(v.sess[t]), v.sess[t].pending)
      k    == KeyOf[t]
      mine == v.lease[k] = id
      wake == IF mine THEN SelectSeq(v.waiters[k], LAMBDA w : w # t) ELSE <<>>
      v1   == [v EXCEPT !.loop[r].pc = "done",
                        !.sess[t] = IF CanEnd(s, id, o) THEN [Ended(s, o) EXCEPT !.expired = {}] ELSE s,
                        !.lease[k] = IF mine THEN NoRun ELSE @,
                        !.waiters[k] = IF mine THEN <<>> ELSE @]
      v2   == FoldLeft(StartNow, v1, wake)
      v3   == [v2 EXCEPT !.tasks[t] = NoRun]
  IN  IF id = NoRun \/ v.sess[t].run # id THEN [v EXCEPT !.loop[r].pc = "done"]
      ELSE IF o = "completed" THEN StartNow(v3, t) ELSE v3

\* Enough run identities are left for every Run the end may start.
RoomToEnd(r) == Cardinality(Undrawn(Here)) > Len(waiters[KeyOf[loop[r].thread]])

\* A RunEnd event (it declares the running phase and drains like any other), then
\* the end; what the Run read before it is given.
EndsWith(r, o, boxes, read) ==
  LET t == loop[r].thread
      s == SessionOf(r)
      v == [Here EXCEPT !.sess[t] = Drained(s, "running"), !.loop[r].seen = s.run,
                        !.given = read]
  IN  /\ RoomToEnd(r)
      /\ Becomes(Finished(v, r, s.run, o))
      /\ told' = told \cup ToSet(s.pending)
      /\ box' = boxes
      /\ ended' = [ended EXCEPT ![r] = o]
      /\ UNCHANGED <<runners, opened, starting, flag, life, sent, asked, overlapped>>

\* RunBegin, run_started (cancel), before_model (immediates).
FirstEvent(r) ==
  /\ life # "closed" /\ loop[r].pc = "opening"
  /\ LET boxes == Boxed(SessionOf(r))
     IN  IF flag[loop[r].runner] THEN EndsWith(r, "cancelled", boxes, given)
         ELSE /\ given' = GivenTo(r, boxes)
              /\ Event(r, "running", "model", Emptied(r, boxes))

\* A delta of the model's stream.
Delta(r) ==
  /\ life # "closed" /\ loop[r].pc = "model" /\ SessionOf(r).pending # <<>>
  /\ Event(r, SessionOf(r).phase, "model", Boxed(SessionOf(r)))
  /\ UNCHANGED given

\* after_model (cancel), TurnResult; without tool calls RunEnd follows.
ModelReturns(r, tools, ask) ==
  /\ life # "closed" /\ loop[r].pc = "model"
  /\ LET boxes == Boxed(SessionOf(r))
     IN  IF flag[loop[r].runner] THEN EndsWith(r, "cancelled", boxes, given)
         ELSE IF ~tools THEN EndsWith(r, "completed", boxes, given)
         ELSE /\ Event(r, IF ask THEN "waiting_approval" ELSE "running_tool", "tool", boxes)
              /\ UNCHANGED given

\* ToolResult, after_tool_batch: the mailbox is read first, and then the flag, so a Run
\* that is cancelled has read it all the same.
ToolsReturn(r) ==
  /\ life # "closed" /\ loop[r].pc = "tool"
  /\ LET boxes == Boxed(SessionOf(r))
     IN  IF flag[loop[r].runner]
           THEN EndsWith(r, "cancelled", Emptied(r, boxes), GivenTo(r, boxes))
         ELSE /\ given' = GivenTo(r, boxes)
              /\ Event(r, SessionOf(r).phase, "model", Emptied(r, boxes))

\* An exception, or CancelledError while the client closes: no further event, the
\* id is the one of the last event.  Before the first event there is none.
Breaks(r) ==
  /\ life # "closed" /\ loop[r].pc \in {"opening", "model", "tool", "unwinding"}
  /\ RoomToEnd(r)
  /\ LET o == IF loop[r].pc = "unwinding" THEN "cancelled" ELSE "failed"
     IN  /\ Becomes(Finished(Here, r, loop[r].seen, o))
         /\ ended' = [ended EXCEPT ![r] = IF loop[r].seen = NoRun THEN "early" ELSE o]
  /\ UNCHANGED <<runners, opened, starting, flag, box, life, sent, told, asked, overlapped>>

-----------------------------------------------------------------------------
(* Cancelling and closing *)

\* Mutant: the run id is not compared with the session's.
CancelAnyRun(t, u, r) ==
  /\ life = "open" /\ sess[u].run = r /\ loop[r].pc # "created"
  /\ asked' = IF t = u THEN asked \cup {r} ELSE asked
  /\ flag' = IF sess[t].runner # NoRunner THEN [flag EXCEPT ![sess[t].runner] = TRUE] ELSE flag
  /\ UNCHANGED <<runVars, runners, opened, starting, box, life, sent, told, ended, overlapped>>

\* cancel_run(t, r), where r is a run the user saw, in thread u: refused unless it
\* is the session's run, whatever its phase; it goes to the session's runner.
CancelRun(t, u, r) ==
  /\ life = "open" /\ sess[u].run = r /\ loop[r].pc # "created"
  /\ asked' = IF t = u THEN asked \cup {r} ELSE asked
  /\ flag' = IF sess[t].run = r THEN [flag EXCEPT ![sess[t].runner] = TRUE] ELSE flag
  /\ UNCHANGED <<runVars, runners, opened, starting, box, life, sent, told, ended, overlapped>>

\* close: cancel every registered task; one that took no step never runs.
Close ==
  /\ life = "open" /\ sent # {}
  /\ life' = "closing"
  /\ loop' = [r \in Run |->
       IF \E t \in Thread : tasks[t] = r
         THEN [loop[r] EXCEPT !.pc = CASE @ = "created" -> "done"
                                       [] @ \in {"opening", "model", "tool"} -> "unwinding"
                                       [] OTHER -> @]
         ELSE loop[r]]
  /\ UNCHANGED <<sess, lease, waiters, runners, opened, starting, tasks, flag, box, sent,
                 given, told, asked, ended, overlapped>>

\* The gathered tasks are over: close the runners and forget them; the process ends.
Closed ==
  /\ life = "closing" /\ \A r \in Run : loop[r].pc # "unwinding"
  /\ life' = "closed"
  /\ runners' = [t \in Thread |-> NoRunner] /\ tasks' = [t \in Thread |-> NoRun]
  /\ UNCHANGED <<sess, lease, waiters, opened, starting, loop, flag, box, sent, given, told,
                 asked, ended, overlapped>>

ClientNext ==
  \/ \E t \in Thread : \E m \in Inputs[t], d \in {"auto", "enqueue"} : SendInput(t, m, d)
  \/ \E c \in starting : FactoryDone(c) \/ FactoryFails(c)
  \/ \E r \in Run : Begin(r) \/ FirstEvent(r) \/ Delta(r) \/ ToolsReturn(r) \/ Breaks(r)
                    \/ \E tools, ask \in BOOLEAN : ModelReturns(r, tools, ask)
  \/ \E t, u \in Thread, r \in Run : CancelRun(t, u, r)
  \/ Close \/ Closed

ClientSpec == ClientInit /\ [][ClientNext]_clientVars

-----------------------------------------------------------------------------
(* Properties *)

ClientTypeOK ==
  /\ sess \in [Thread -> Session] /\ lease \in [Key -> Run \cup {NoRun}]
  /\ \A k \in Key : ToSet(waiters[k]) \subseteq Thread
  /\ runners \in [Thread -> Runner \cup {NoRunner}] /\ opened \subseteq Runner
  /\ starting \subseteq Thread \X Message \X Run
  /\ loop \in [Run -> Loop] /\ tasks \in [Thread -> Run \cup {NoRun}]
  /\ flag \in [Runner -> BOOLEAN] /\ box \in [Runner -> Seq(Message)]
  /\ life \in {"open", "closing", "closed"}
  /\ told \cup sent \subseteq Message /\ given \in [Message -> Seq(Run)]
  /\ asked \subseteq Run /\ overlapped \subseteq Thread
  /\ ended \in [Run -> {"no", "completed", "cancelled", "failed", "early"}]

\* In how many places of thread t an input is: waiting, in a mailbox, or given.
Places(t, m) ==
  Cardinality({i \in DOMAIN sess[t].queue : sess[t].queue[i] = m})
  + Cardinality({i \in DOMAIN sess[t].pending : sess[t].pending[i] = m})
  + Cardinality({at \in Runner \X (1..Cardinality(Message)) :
                   /\ at[2] \in DOMAIN box[at[1]] /\ box[at[1]][at[2]] = m})
  + Len(SelectSeq(given[m], LAMBDA r : loop[r].thread = t))

\* Whatever overlaps, fails, is cancelled or closed, an input the user sent is in
\* exactly one place of its thread: none is lost, none is given to two Runs.
InputsConserved == \A t \in Thread : \A m \in Inputs[t] :
                     Places(t, m) = IF m \in sent THEN 1 ELSE 0

\* A Run ends as cancelled only in a thread whose user cancelled a Run, or because
\* the client closes (cancel_run is bound to its thread and run).
CancelStaysInside == \A r \in Run : ended[r] = "cancelled" =>
  life # "open" \/ \E q \in asked : loop[q].thread = loop[r].thread

Clean(t) == /\ t \notin overlapped
            /\ \A r \in Run : ended[r] = "early" => loop[r].thread # t
            /\ life = "open"

\* As long as no two starts of a thread waited for the factory together and no Run
\* broke before its first event: a lease belongs to its thread's live Run, a live
\* Run that writes has the lease, and who waits for a workspace waits for a holder.
LeasesFollowRuns ==
  /\ \A k \in Key : lease[k] # NoRun /\ Clean(loop[lease[k]].thread) =>
       LET s == sess[loop[lease[k]].thread] IN s.run = lease[k] /\ HasActiveRun(s)
  /\ \A t \in Thread : Clean(t) /\ HasActiveRun(sess[t]) /\ loop[sess[t].run].writes =>
       lease[KeyOf[t]] = sess[t].run
  /\ \A k \in Key : waiters[k] # <<>> => lease[k] # NoRun

\* An input that stays queued in an idle thread has a reason: the thread waits for
\* its workspace, its runner is being opened or could not be, or its last Run did
\* not complete (only a success starts the next input).
QueuedHasReason ==
  \A t \in Thread : Clean(t) /\ sess[t].queue # <<>> /\ ~HasActiveRun(sess[t]) =>
    \/ t \in ToSet(waiters[KeyOf[t]])
    \/ runners[t] = NoRunner
    \/ sess[t].run # NoRun /\ sess[t].phase # "completed"

\* What the embedded client promises about inputs, cancels and workspaces.
ClientSound == ClientTypeOK /\ InputsConserved /\ CancelStaysInside /\ LeasesFollowRuns /\ QueuedHasReason

\* Not so: the docstring of close() says it cancels every Run that is not over; a
\* waiter woken by a cancelled Run is started while the client closes.
ClosedIsQuiet == life = "closed" => \A r \in Run : loop[r].pc \in {"none", "drawn", "done"}

\* Not so: the flag of the cancel outlives the Run it was meant for, because the
\* runner is kept and nothing resets inbound_checkpoint.cancelled.
CancelIsPerRun == \A r \in Run : ended[r] = "cancelled" => r \in asked \/ life # "open"

\* Not so: a steer is acknowledged when it is put in the mailbox; when the Run ends
\* before a checkpoint reads it, it waits there for a Run that may never come.
AppliedWasGiven == \A m \in told : \/ given[m] # <<>>
                                   \/ \E r \in Run : loop[r].pc \in {"opening", "model", "tool"}
=============================================================================
