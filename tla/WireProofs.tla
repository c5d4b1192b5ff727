------------------------------ MODULE WireProofs ------------------------------
(***************************************************************************)
(* The wire process, for any number of threads, workspaces, runners, inputs *)
(* and Runs, and whatever the environment does.                             *)
(*                                                                          *)
(* The first half is about mutual exclusion, when every Run is in a write   *)
(* mode.  It rests on the lease: a Run that works holds the lease of its    *)
(* workspace, from before start_run until its terminal transition.          *)
(*                                                                          *)
(* The second half is about what happens to the inputs: none is lost, none  *)
(* is given to two Runs, "applied" is only said of what a Run got -- as     *)
(* long as nobody resumes the thread that is active already -- and a cancel *)
(* stays in its thread.  It rests on the runner objects: every place that   *)
(* keeps one keeps a runner of its own thread, and the client's loop and    *)
(* its registry keep every runner there is, so the mailbox an immediate     *)
(* input is put into is the mailbox the thread's Run reads.                 *)
(***************************************************************************)
EXTENDS Wire, SessionOpsProofs

\* Every Run writes, so every start asks for the lease.
AllWrite == ReadInput = {}

-----------------------------------------------------------------------------
(* The invariant *)

\* A session record, a task record: which fields there are.
IsSession(s) == DOMAIN s = {"run", "phase", "queue", "pending", "receipts", "approvals",
                            "expired", "snap", "runner", "status"}
IsTask(k)    == DOMAIN k = {"pc", "thread", "runner", "seen", "batches", "write"}
IsEnding(f)  == DOMAIN f = {"run", "todo", "chain", "stage"}

Shape ==
  /\ DOMAIN sess = Thread /\ \A t \in Thread : IsSession(sess[t])
  /\ DOMAIN task = Run /\ \A r \in Run : IsTask(task[r])
  /\ lease \in [Key -> Run \cup {NoRun}]
  /\ turn \in [Thread -> Run \cup {NoRun}]
  /\ waiters \in [Key -> Seq(Thread)]

\* A live Run holds the lease of its workspace and is its session's run, and the
\* id its loop has seen is its own or none.
Holding(r) ==
  /\ task[r].thread \in Thread
  /\ lease[KeyOf[task[r].thread]] = r
  /\ sess[task[r].thread].run = r
  /\ task[r].seen \in {NoRun, r}

\* A registered turn belongs to a task that is live or in its final steps.
TurnOf(t) == turn[t] \in Run =>
  /\ task[turn[t]].thread = t
  /\ Live(turn[t]) \/ task[turn[t]].pc = "ending"

HoldShared ==
  /\ Shape
  /\ \A r \in Run : Live(r) => Holding(r)
  /\ \A t \in Thread : TurnOf(t)

\* The Run whose end is under way is the only one that is ending.
EndingOf ==
  /\ IsEnding(fin) /\ fin.todo \in Seq(Thread)
  /\ \A r \in Run : task[r].pc = "ending" => fin.stage = "wake" /\ fin.run = r
  /\ fin.stage \in {"wake", "chain"} =>
       /\ fin.run \in Run /\ task[fin.run].thread \in Thread
       /\ task[fin.run].pc = IF fin.stage = "wake" THEN "ending" ELSE "done"

HoldInv == HoldShared /\ EndingOf /\ active \in Thread

-----------------------------------------------------------------------------
(* What the operators leave alone *)

LEMMA LaunchedSession ==
  ASSUME NEW s, IsSession(s), NEW r, NEW rn
  PROVE  /\ IsSession(Frozen(Started(s, r, rn), r))
         /\ Frozen(Started(s, r, rn), r).run = r
BY DEF IsSession, Frozen, Started

LEMMA RoutedSession ==
  ASSUME NEW s, IsSession(s), NEW m, NEW d
  PROVE  /\ IsSession(Routed(s, m, d))
         /\ Routed(s, m, d).run = s.run /\ Routed(s, m, d).phase = s.phase
BY DEF IsSession, Routed, Enqueued, MadePending

LEMMA PhasedSession ==
  ASSUME NEW s, IsSession(s), NEW id, NEW p
  PROVE  IsSession(Phased(s, id, p)) /\ Phased(s, id, p).run = s.run
BY DEF IsSession, Phased, Declared

LEMMA EndedSession ==
  ASSUME NEW s, IsSession(s), NEW p
  PROVE  IsSession(Ended(s, p)) /\ Ended(s, p).run = s.run /\ Ended(s, p).phase = p
BY DEF IsSession, Ended, ApprovalsExpired, Deferred, AtHead

LEMMA SettledSession ==
  ASSUME NEW s, IsSession(s), NEW q
  PROVE  /\ IsSession([AtHead(s, q) EXCEPT !.pending = <<>>])
         /\ [AtHead(s, q) EXCEPT !.pending = <<>>].run = s.run
         /\ [AtHead(s, q) EXCEPT !.pending = <<>>].phase = s.phase
BY DEF IsSession, AtHead

LEMMA FinishedSessionShape ==
  ASSUME NEW s, IsSession(s), NEW unread, NEW id, NEW o
  PROVE  /\ IsSession(FinishedSession(s, unread, id, o))
         /\ FinishedSession(s, unread, id, o).run = s.run
<1> DEFINE b == [AtHead(s, UnreadOf(s, unread)) EXCEPT !.pending = <<>>]
<1>1. IsSession(b) /\ b.run = s.run
  BY SettledSession
<1> HIDE DEF b
<1>2. IsSession(Ended(b, o)) /\ Ended(b, o).run = s.run
  BY <1>1, EndedSession
<1>3. FinishedSession(s, unread, id, o) = IF CanEnd(b, id, o) THEN Ended(b, o) ELSE b
  BY DEF FinishedSession, b
<1> QED BY <1>1, <1>2, <1>3

-----------------------------------------------------------------------------
(* Starting a Run *)

\* What a start may change of the tasks: a new one, none that there was.
OldTasksKept ==
  /\ \A r \in Run : task'[r].pc = "ending" => task[r].pc = "ending"
  /\ \A r \in Run : task[r].pc # "none" => task'[r] = task[r]

\* A start that finds the workspace free makes the one live Run of it.
LEMMA LaunchHolds ==
  ASSUME HoldShared, NEW t \in Thread, NEW rn, NEW pc \in {"created", "opening"},
         lease[KeyOf[t]] = NoRun, Launch(t, rn, TRUE, pc)
  PROVE  HoldShared' /\ OldTasksKept
<1> USE DEF HoldShared, Shape
<1>1. PICK r \in NewRunIds :
        /\ sess' = [sess EXCEPT ![t] = Frozen(Started(@, r, rn), r)]
        /\ lease' = [lease EXCEPT ![KeyOf[t]] = r]
        /\ turn' = [turn EXCEPT ![t] = r]
        /\ task' = [task EXCEPT ![r] =
                      [pc |-> pc, thread |-> t, runner |-> rn, seen |-> NoRun,
                       batches |-> 0, write |-> Writes(Head(sess[t].queue))]]
        /\ waiters' = waiters
  BY DEF Launch
<1>2. r \in Run /\ task[r].pc = "none" /\ KeyOf[t] \in Key /\ NoRun \notin Run
  BY WireConstants, SessionConstants DEF NewRunIds
<1>3. /\ DOMAIN sess' = Thread
      /\ \A u \in Thread : IsSession(sess'[u]) /\ (u # t => sess'[u] = sess[u])
      /\ sess'[t].run = r
  BY <1>1, LaunchedSession
<1>4. /\ DOMAIN task' = Run
      /\ \A q \in Run : q # r => task'[q] = task[q]
      /\ IsTask(task'[r]) /\ task'[r].pc = pc /\ task'[r].thread = t /\ task'[r].seen = NoRun
  BY <1>1, <1>2 DEF IsTask
<1>5. lease'[KeyOf[t]] = r /\ \A k \in Key : k # KeyOf[t] => lease'[k] = lease[k]
  BY <1>1, <1>2
<1>6. Live(r)'
  BY <1>4 DEF Live, LivePc
<1>7. ASSUME NEW q \in Run, Live(q)' PROVE Holding(q)'
  <2>1. CASE q = r
    BY <1>3, <1>4, <1>5, <2>1 DEF Holding
  <2>2. CASE q # r
    <3>1. task'[q] = task[q] /\ Live(q) /\ Holding(q)
      BY <1>4, <1>7, <2>2 DEF Live
    <3>2. KeyOf[task[q].thread] # KeyOf[t] /\ KeyOf[task[q].thread] \in Key
      BY <1>2, <3>1, WireConstants DEF Holding
    <3>3. task[q].thread \in Thread /\ task[q].thread # t
      BY <3>1, <3>2 DEF Holding
    <3>4. sess'[task[q].thread].run = q /\ lease'[KeyOf[task[q].thread]] = q
      BY <1>3, <1>5, <3>1, <3>2, <3>3 DEF Holding
    <3> QED BY <3>1, <3>3, <3>4 DEF Holding
  <2> QED BY <2>1, <2>2
<1>8. ASSUME NEW u \in Thread PROVE TurnOf(u)'
  <2>1. CASE u = t
    BY <1>1, <1>4, <1>6, <2>1 DEF TurnOf
  <2>2. CASE u # t
    <3>1. turn'[u] = turn[u] /\ TurnOf(u)
      BY <1>1, <2>2
    <3>2. turn[u] \in Run => turn[u] # r
      BY <1>2, <3>1 DEF TurnOf, Live, LivePc
    <3> QED BY <1>4, <3>1, <3>2 DEF TurnOf, Live
  <2> QED BY <2>1, <2>2
<1>9. OldTasksKept
  BY <1>2, <1>4 DEF OldTasksKept
<1>10. lease' \in [Key -> Run \cup {NoRun}] /\ turn' \in [Thread -> Run \cup {NoRun}]
  BY <1>1, <1>2
<1>11. Shape'
  BY <1>1, <1>3, <1>4, <1>10
<1> QED BY <1>7, <1>8, <1>9, <1>11

LEMMA SharedKept ==
  ASSUME HoldShared, UNCHANGED shared
  PROVE  HoldShared' /\ OldTasksKept
BY DEF HoldShared, Shape, Holding, TurnOf, Live, shared, OldTasksKept

LEMMA ParkHolds ==
  ASSUME HoldShared, NEW t \in Thread, Park(t)
  PROVE  HoldShared' /\ OldTasksKept
<1>1. \A q \in Seq(Thread) : AddedWaiter(q, t) \in Seq(Thread)
  BY AppendProperties DEF AddedWaiter
<1>2. waiters' \in [Key -> Seq(Thread)]
  BY <1>1 DEF Park, HoldShared, Shape
<1> QED BY <1>2 DEF Park, HoldShared, Shape, Holding, TurnOf, Live, OldTasksKept

LEMMA TryStartHolds ==
  ASSUME AllWrite, HoldShared, NEW t \in Thread, NEW rn, NEW m,
         NEW pc \in {"created", "opening"}, TryStart(t, rn, Writes(m), pc)
  PROVE  HoldShared' /\ OldTasksKept
<1>1. Writes(m) = TRUE
  BY DEF AllWrite, Writes
<1>2. CASE LeaseBlocks(t, Writes(m))
  BY <1>2, ParkHolds DEF TryStart
<1>3. CASE ~LeaseBlocks(t, Writes(m)) /\ CanStart(sess[t])
  BY <1>1, <1>3, LaunchHolds DEF TryStart, LeaseBlocks
<1>4. CASE ~LeaseBlocks(t, Writes(m)) /\ ~CanStart(sess[t])
  BY <1>4, SharedKept DEF TryStart
<1> QED BY <1>2, <1>3, <1>4

LEMMA AutoStartHolds ==
  ASSUME AllWrite, HoldShared, NEW t \in Thread, NEW rn, AutoStartNext(t, rn)
  PROVE  HoldShared' /\ OldTasksKept
BY TryStartHolds, SharedKept DEF AutoStartNext

-----------------------------------------------------------------------------
(* A Run at work, and its end *)

LEMMA ContinueHolds ==
  ASSUME HoldInv, NEW r \in Run, Live(r), fin.stage = "idle", NEW s, IsSession(s),
         s.run = SessionOf(r).run, NEW pc \in {"model", "tool"}, NEW n,
         Continue(r, s, pc, n)
  PROVE  HoldInv'
<1> USE DEF HoldInv, HoldShared, Shape
<1> DEFINE t == task[r].thread
<1>1. Holding(r) /\ s.run = r
  BY DEF Holding, SessionOf
<1>2. /\ DOMAIN sess' = Thread /\ sess'[t] = s
      /\ \A u \in Thread : u # t => sess'[u] = sess[u]
  BY <1>1 DEF Continue, Holding
<1>3. /\ DOMAIN task' = Run /\ IsTask(task'[r]) /\ task'[r].pc = pc /\ task'[r].thread = t
      /\ task'[r].seen = r /\ \A q \in Run : q # r => task'[q] = task[q]
  BY <1>1 DEF Continue, IsTask
<1>4. UNCHANGED <<lease, waiters, turn, active, fin>>
  BY DEF Continue, client
<1>5. Shape'
  BY <1>1, <1>2, <1>3, <1>4
<1>6. ASSUME NEW q \in Run, Live(q)' PROVE Holding(q)'
  <2>1. CASE q = r
    BY <1>1, <1>2, <1>3, <1>4, <2>1 DEF Holding
  <2>2. CASE q # r
    <3>1. task'[q] = task[q] /\ Holding(q)
      BY <1>3, <1>6, <2>2 DEF Live
    <3>2. task[q].thread \in Thread /\ sess'[task[q].thread].run = sess[task[q].thread].run
      BY <1>1, <1>2, <3>1 DEF Holding
    <3> QED BY <1>4, <3>1, <3>2 DEF Holding
  <2> QED BY <2>1, <2>2
<1>7. Live(r)' /\ \A q \in Run : Live(q)' <=> Live(q)
  BY <1>3 DEF Live, LivePc
<1>8. \A u \in Thread : TurnOf(u)'
  BY <1>3, <1>4, <1>7 DEF TurnOf
<1>9. EndingOf'
  BY <1>3, <1>4 DEF EndingOf
<1> QED BY <1>4, <1>5, <1>6, <1>8, <1>9

LEMMA EndLoopHolds ==
  ASSUME HoldInv, NEW r \in Run, Live(r), fin.stage = "idle", NEW s, IsSession(s),
         s.run = SessionOf(r).run, NEW id \in {NoRun, r}, NEW o, NEW mail,
         EndLoop(r, id, s, o, mail)
  PROVE  HoldInv'
<1> USE DEF HoldInv, HoldShared, Shape
<1> DEFINE t == task[r].thread
           e == FinishedSession(s, ToSet(mail), id, o)
<1>1. Holding(r) /\ s.run = r /\ NoRun \notin Run
  BY SessionConstants DEF Holding, SessionOf
<1>2. IsSession(e) /\ e.run = s.run
  BY FinishedSessionShape
<1>3. /\ DOMAIN sess' = Thread /\ \A u \in Thread : u # t => sess'[u] = sess[u]
      /\ sess'[t] = e
  BY <1>1 DEF EndLoop, Holding
<1> HIDE DEF e
<1>4. /\ DOMAIN task' = Run /\ IsTask(task'[r]) /\ task'[r].pc = "ending"
      /\ task'[r].thread = t /\ \A q \in Run : q # r => task'[q] = task[q]
  BY <1>1 DEF EndLoop, IsTask
<1>5. /\ lease' \in [Key -> Run \cup {NoRun}]
      /\ \A k \in Key : lease[k] # r => lease'[k] = lease[k]
  BY <1>1 DEF EndLoop, Released
<1>6. waiters' \in [Key -> Seq(Thread)] /\ KeyOf[t] \in Key
  BY <1>1, EmptySeq, WireConstants DEF EndLoop, Holding
<1>7. UNCHANGED <<turn, active>>
  BY DEF EndLoop, client
<1>8. Shape'
  BY <1>2, <1>3, <1>4, <1>5, <1>6, <1>7
<1>9. ASSUME NEW q \in Run, Live(q)' PROVE Holding(q)'
  <2>1. q # r
    BY <1>4, <1>9 DEF Live, LivePc
  <2>2. task'[q] = task[q] /\ Holding(q)
    BY <1>4, <1>9, <2>1 DEF Live
  <2>3. KeyOf[task[q].thread] \in Key /\ task[q].thread # t
    BY <1>1, <2>1, <2>2, WireConstants DEF Holding
  <2>4. lease'[KeyOf[task[q].thread]] = q
    BY <1>5, <2>1, <2>2, <2>3 DEF Holding
  <2>5. task[q].thread \in Thread /\ sess'[task[q].thread] = sess[task[q].thread]
    BY <1>3, <2>2, <2>3 DEF Holding
  <2> QED BY <2>2, <2>4, <2>5 DEF Holding
<1>10. \A u \in Thread : TurnOf(u)'
  BY <1>4, <1>7 DEF TurnOf, Live
<1>11. EndingOf'
  <2>1. IsEnding(fin') /\ fin'.stage = "wake" /\ fin'.run = r
    BY DEF EndLoop, IsEnding
  <2>2. fin'.todo \in Seq(Thread)
    BY <1>6, EmptySeq DEF EndLoop
  <2>3. \A q \in Run : q # r => task'[q].pc # "ending"
    BY <1>4 DEF EndingOf
  <2> QED BY <1>1, <1>4, <2>1, <2>2, <2>3 DEF EndingOf, Holding
<1> QED BY <1>7, <1>8, <1>9, <1>10, <1>11

LEMMA StepHolds ==
  ASSUME HoldInv, NEW r \in Run, Step(r)
  PROVE  HoldInv'
<1> DEFINE s == SessionOf(r)
           e == Phased(s, s.run, "running")
           b == Phased(s, s.run, "running_tool")
<1>0. Live(r) => /\ Holding(r) /\ IsSession(s) /\ s.run = r
  BY DEF HoldInv, HoldShared, Shape, Holding, SessionOf
<1>1. Live(r) => /\ IsSession(e) /\ e.run = r
                 /\ IsSession(b) /\ b.run = r
                 /\ IsSession(Phased(b, s.run, "running"))
                 /\ Phased(b, s.run, "running").run = r
  BY <1>0, PhasedSession
<1>2. ASSUME Live(r), fin.stage = "idle", NEW mail, StopAtCheckpoint(r, mail)
      PROVE HoldInv'
  <2>1. EndLoop(r, s.run, e, "cancelled", mail)
    BY <1>2 DEF StopAtCheckpoint
  <2> HIDE DEF s, e, b
  <2> QED BY <1>0, <1>1, <1>2, <2>1, EndLoopHolds DEF s
<1>3. CASE Begin(r)
  <2>1. Live(r) /\ task' = [task EXCEPT ![r].pc = "opening"] /\ fin.stage = "idle"
    BY <1>3 DEF Begin, Live, LivePc, Quiet
  <2>2. /\ DOMAIN task' = Run /\ IsTask(task'[r]) /\ task'[r].pc = "opening"
        /\ task'[r].thread = task[r].thread /\ task'[r].seen = task[r].seen
        /\ \A q \in Run : q # r => task'[q] = task[q]
    BY <2>1 DEF HoldInv, HoldShared, Shape, IsTask
  <2>3. UNCHANGED <<sess, lease, waiters, turn, active, fin>>
    BY <1>3 DEF Begin, client
  <2>4. \A q \in Run : (Live(q)' <=> Live(q)) /\ task'[q].thread = task[q].thread
                       /\ task'[q].seen = task[q].seen
    BY <2>1, <2>2 DEF Live, LivePc
  <2>5. \A q \in Run : task'[q].pc = "ending" => task[q].pc = "ending"
    BY <2>2
  <2>6. Shape'
    BY <2>2, <2>3 DEF HoldInv, HoldShared, Shape
  <2>7. \A q \in Run : Live(q)' => Holding(q)'
    BY <2>3, <2>4 DEF HoldInv, HoldShared, Holding
  <2>8. \A t \in Thread : TurnOf(t)'
    BY <2>1, <2>2, <2>3, <2>4 DEF HoldInv, HoldShared, TurnOf
  <2>9. EndingOf'
    BY <2>1, <2>3, <2>5 DEF HoldInv, EndingOf
  <2> QED BY <2>3, <2>6, <2>7, <2>8, <2>9 DEF HoldInv, HoldShared
<1>4. CASE FirstEvent(r)
  <2>1. Live(r) /\ fin.stage = "idle"
    BY <1>4 DEF FirstEvent, Live, LivePc, Quiet
  <2>2. CASE Cancelled(r)
    BY <1>2, <1>4, <2>1, <2>2 DEF FirstEvent
  <2>3. CASE ~Cancelled(r)
    BY <1>0, <1>4, <2>1, <2>3, ContinueHolds DEF FirstEvent
  <2> QED BY <2>2, <2>3
<1>5. ASSUME NEW tools \in BOOLEAN, ModelReturns(r, tools) PROVE HoldInv'
  <2>1. Live(r) /\ fin.stage = "idle"
    BY <1>5 DEF ModelReturns, Live, LivePc, Quiet
  <2>2. CASE Cancelled(r)
    BY <1>2, <1>5, <2>1, <2>2 DEF ModelReturns
  <2>3. CASE ~Cancelled(r) /\ tools
    <3>1. Continue(r, b, "tool", task[r].batches)
      BY <1>5, <2>3 DEF ModelReturns
    <3> HIDE DEF s, e, b
    <3> QED BY <1>0, <1>1, <2>1, <3>1, ContinueHolds DEF s
  <2>4. CASE ~Cancelled(r) /\ ~tools
    <3>1. EndLoop(r, s.run, Phased(b, s.run, "running"), "completed", Mail(r))
      BY <1>5, <2>4 DEF ModelReturns
    <3> HIDE DEF s, e, b
    <3> QED BY <1>0, <1>1, <2>1, <3>1, EndLoopHolds DEF s
  <2> QED BY <2>2, <2>3, <2>4
<1>6. CASE ToolsReturn(r)
  <2>1. Live(r) /\ fin.stage = "idle"
    BY <1>6 DEF ToolsReturn, Live, LivePc, Quiet
  <2>2. CASE Cancelled(r)
    BY <1>2, <1>6, <2>1, <2>2 DEF ToolsReturn
  <2>3. CASE ~Cancelled(r)
    BY <1>0, <1>6, <2>1, <2>3, ContinueHolds DEF ToolsReturn
  <2> QED BY <2>2, <2>3
<1>7. ASSUME Live(r), fin.stage = "idle", NEW o, EndLoop(r, task[r].seen, s, o, Mail(r))
      PROVE HoldInv'
  <2>1. task[r].seen \in {NoRun, r}
    BY <1>0, <1>7 DEF Holding
  <2> QED BY <1>0, <1>7, <2>1, EndLoopHolds
<1>8. CASE Fail(r)
  BY <1>7, <1>8 DEF Fail, Live, LivePc, Quiet
<1>9. CASE Unwound(r)
  BY <1>7, <1>9 DEF Unwound, Live, LivePc, Quiet
<1> QED BY <1>3, <1>4, <1>5, <1>6, <1>8, <1>9 DEF Step

-----------------------------------------------------------------------------
(* Commands and the end of a Run *)

LEMMA CancelHolds ==
  ASSUME HoldInv, Cancel
  PROVE  HoldInv'
<1> USE DEF HoldInv, HoldShared, Shape
<1> DEFINE c == turn[active]
<1>1. /\ c \in Run /\ turn' = [turn EXCEPT ![active] = NoRun]
      /\ task' = [task EXCEPT ![c].pc = CancelledPc(@)]
      /\ fin.stage = "idle" /\ UNCHANGED <<sess, lease, waiters, active, fin>>
  BY DEF Cancel, TurnActive, NextCommand, Quiet, client
<1>2. /\ DOMAIN task' = Run /\ IsTask(task'[c]) /\ task'[c].thread = task[c].thread
      /\ task'[c].seen = task[c].seen /\ task'[c].pc \in {"done", "unwinding"}
      /\ \A q \in Run : q # c => task'[q] = task[q]
  BY <1>1 DEF IsTask, CancelledPc
<1>3. TurnOf(active) /\ task[c].pc # "ending"
  BY <1>1 DEF EndingOf
<1>4. Live(c) /\ task[c].thread = active
  BY <1>1, <1>3 DEF TurnOf
<1>5. Shape'
  BY <1>1, <1>2, SessionConstants
<1>6. \A q \in Run : Live(q)' => Holding(q)'
  BY <1>1, <1>2, <1>4 DEF Holding, Live
<1>7. ASSUME NEW u \in Thread PROVE TurnOf(u)'
  <2>1. CASE u = active
    BY <1>1, <2>1, SessionConstants DEF TurnOf
  <2>2. CASE u # active
    <3>1. turn'[u] = turn[u] /\ TurnOf(u)
      BY <1>1, <2>2
    <3>2. turn[u] \in Run => turn[u] # c
      BY <1>4, <2>2, <3>1 DEF TurnOf
    <3> QED BY <1>2, <3>1, <3>2 DEF TurnOf, Live
  <2> QED BY <2>1, <2>2
<1>8. EndingOf'
  BY <1>1, <1>2 DEF EndingOf
<1> QED BY <1>1, <1>5, <1>6, <1>7, <1>8

LEMMA SendHolds ==
  ASSUME HoldInv, NEW m \in Message, NEW d \in Delivery, InputSend(m, d)
  PROVE  HoldInv'
<1> USE DEF HoldInv, HoldShared, Shape
<1>1. /\ DOMAIN sess' = Thread
      /\ \A t \in Thread : IsSession(sess'[t]) /\ sess'[t].run = sess[t].run
  BY RoutedSession DEF InputSend
<1>2. UNCHANGED <<lease, waiters, turn, task, active, fin>>
  BY DEF InputSend
<1> QED BY <1>1, <1>2 DEF Holding, TurnOf, EndingOf, Live

\* A wake-up and the chain keep the Run whose end is under way.
LEMMA EndingKept ==
  ASSUME HoldInv, HoldShared', OldTasksKept, fin.stage \in {"wake", "chain"}, active' = active,
         \/ fin' = [fin EXCEPT !.todo = Tail(@)] /\ fin.todo # <<>>
         \/ fin' = NotEnding /\ fin.stage = "chain"
  PROVE  HoldInv'
<1> USE DEF HoldInv, EndingOf
<1>1. task[fin.run].pc # "none" /\ task'[fin.run] = task[fin.run]
  BY DEF OldTasksKept
<1>2. CASE fin' = [fin EXCEPT !.todo = Tail(@)] /\ fin.todo # <<>>
  <2>1. /\ IsEnding(fin') /\ fin'.stage = fin.stage /\ fin'.run = fin.run
        /\ fin'.todo \in Seq(Thread)
    BY <1>2, HeadTailProperties DEF IsEnding
  <2> QED BY <1>1, <2>1 DEF OldTasksKept
<1>3. CASE fin' = NotEnding /\ fin.stage = "chain"
  <2>1. /\ IsEnding(fin') /\ fin'.stage = "idle" /\ fin'.todo \in Seq(Thread)
    BY <1>3, EmptySeq DEF IsEnding, NotEnding
  <2> QED BY <1>3, <2>1 DEF OldTasksKept
<1> QED BY <1>2, <1>3

LEMMA WakeHolds ==
  ASSUME AllWrite, HoldInv, WakeNext
  PROVE  HoldInv'
<1> DEFINE t  == task[fin.run].thread
           w  == Head(fin.todo)
           wr == IF saved[w] # NoRunner THEN saved[w] ELSE sess[w].runner
<1>1. /\ fin.stage = "wake" /\ fin.todo # <<>> /\ fin' = [fin EXCEPT !.todo = Tail(@)]
      /\ active' = active
  BY DEF WakeNext, client
<1>2. w \in Thread /\ t \in Thread
  BY <1>1, HeadTailProperties DEF HoldInv, EndingOf
<1>3. \/ UNCHANGED shared
      \/ /\ waiters' = [waiters EXCEPT ![KeyOf[t]] = AddedWaiter(@, w)]
         /\ UNCHANGED <<sess, lease, turn, task>>
      \/ AutoStartNext(w, wr)
  BY DEF WakeNext
<1>5. fin.stage \in {"wake", "chain"}
  BY <1>1
<1> HIDE DEF t, w, wr
<1>4. HoldShared' /\ OldTasksKept
  <2>1. CASE UNCHANGED shared
    BY <2>1, SharedKept DEF HoldInv
  <2>2. CASE /\ waiters' = [waiters EXCEPT ![KeyOf[t]] = AddedWaiter(@, w)]
             /\ UNCHANGED <<sess, lease, turn, task>>
    <3>1. \A q \in Seq(Thread) : AddedWaiter(q, w) \in Seq(Thread)
      BY <1>2, AppendProperties DEF AddedWaiter
    <3>2. waiters' \in [Key -> Seq(Thread)]
      BY <2>2, <3>1 DEF HoldInv, HoldShared, Shape
    <3> QED BY <2>2, <3>2 DEF HoldInv, HoldShared, Shape, Holding, TurnOf, Live, OldTasksKept
  <2>3. CASE AutoStartNext(w, wr)
    BY <1>2, <2>3, AutoStartHolds DEF HoldInv
  <2> QED BY <1>3, <2>1, <2>2, <2>3
<1> QED BY <1>1, <1>4, <1>5, EndingKept

LEMMA ChainHolds ==
  ASSUME AllWrite, HoldInv, Chain
  PROVE  HoldInv'
<1>1. /\ fin.stage = "chain" /\ fin' = NotEnding /\ active' = active
      /\ AutoStartNext(task[fin.run].thread, task[fin.run].runner)
      /\ task[fin.run].thread \in Thread
  BY DEF Chain, client, HoldInv, EndingOf
<1>2. HoldShared' /\ OldTasksKept
  BY <1>1, AutoStartHolds DEF HoldInv
<1> QED BY <1>1, <1>2, EndingKept

LEMMA EndTurnHolds ==
  ASSUME HoldInv, EndTurn
  PROVE  HoldInv'
<1> USE DEF HoldInv, HoldShared, Shape
<1> DEFINE r == fin.run
           t == task[r].thread
<1>1. /\ r \in Run /\ t \in Thread /\ task[r].pc = "ending" /\ NoRun \notin Run
      /\ turn' = [turn EXCEPT ![t] = NoRun]
      /\ task' = [task EXCEPT ![r].pc = "done"]
      /\ UNCHANGED <<sess, lease, waiters, active>>
  BY SessionConstants DEF EndTurn, EndingOf, client
<1>2. /\ DOMAIN task' = Run /\ IsTask(task'[r]) /\ task'[r].pc = "done"
      /\ task'[r].thread = t /\ \A q \in Run : q # r => task'[q] = task[q]
  BY <1>1 DEF IsTask
<1>3. /\ IsEnding(fin') /\ fin'.todo \in Seq(Thread)
      /\ fin'.stage \in {"idle", "chain"} /\ (fin'.stage = "chain" => fin'.run = r)
  <2>1. CASE fin' = NotEnding
    BY <2>1, EmptySeq DEF NotEnding, IsEnding
  <2>2. CASE fin' = [fin EXCEPT !.stage = "chain"]
    BY <2>2 DEF EndingOf, IsEnding
  <2> QED BY <2>1, <2>2 DEF EndTurn
<1>4. Shape'
  BY <1>1, <1>2
<1>5. \A q \in Run : Live(q)' => Holding(q)'
  BY <1>1, <1>2 DEF Live, LivePc, Holding
<1>6. ASSUME NEW u \in Thread PROVE TurnOf(u)'
  <2>1. CASE u = t
    BY <1>1, <2>1 DEF TurnOf
  <2>2. CASE u # t
    <3>1. turn'[u] = turn[u] /\ TurnOf(u)
      BY <1>1, <2>2
    <3>2. turn[u] \in Run => turn[u] # r
      BY <2>2, <3>1 DEF TurnOf
    <3> QED BY <1>2, <3>1, <3>2 DEF TurnOf, Live
  <2> QED BY <2>1, <2>2
<1>7. EndingOf'
  BY <1>1, <1>2, <1>3 DEF EndingOf
<1> QED BY <1>1, <1>4, <1>5, <1>6, <1>7

LEMMA UserStartHolds ==
  ASSUME AllWrite, HoldInv, UserStart
  PROVE  HoldInv'
<1>1. fin.stage = "idle" /\ active' = active /\ fin' = fin /\ active \in Thread
  BY DEF UserStart, HoldInv
<1>2. UNCHANGED shared \/ TryStart(active, cur, Writes(command), "opening")
  BY DEF UserStart
<1>3. HoldShared' /\ OldTasksKept
  BY <1>1, <1>2, SharedKept, TryStartHolds DEF HoldInv
<1> QED BY <1>1, <1>3 DEF HoldInv, EndingOf, OldTasksKept

-----------------------------------------------------------------------------
(* The theorems *)

LEMMA InitHolds == Init => HoldInv
<1> SUFFICES ASSUME Init PROVE HoldInv
  OBVIOUS
<1>1. IsSession(NewSession) /\ IsTask(NoTask) /\ IsEnding(NotEnding) /\ <<>> \in Seq(Thread)
  BY EmptySeq DEF IsSession, NewSession, IsTask, NoTask, IsEnding, NotEnding
<1>2. Shape /\ active \in Thread
  BY <1>1 DEF Init, Shape
<1>3. \A r \in Run : ~Live(r) /\ task[r].pc = "none"
  BY DEF Init, Live, LivePc, NoTask
<1>4. \A t \in Thread : TurnOf(t)
  BY SessionConstants DEF Init, TurnOf
<1>5. EndingOf
  BY <1>1, <1>3 DEF Init, EndingOf, NotEnding
<1> QED BY <1>2, <1>3, <1>4, <1>5 DEF HoldInv, HoldShared

LEMMA NextHolds ==
  ASSUME AllWrite, HoldInv, [Next]_vars
  PROVE  HoldInv'
<1>1. ASSUME NEW t \in Thread, Resume(t) PROVE HoldInv'
  <2>1. UNCHANGED shared /\ fin' = fin /\ active' \in Thread
    BY <1>1 DEF Resume
  <2> QED BY <2>1, SharedKept DEF HoldInv, EndingOf, shared
<1>2. CASE OpenFails \/ \E rn \in Runner : OpenRunner(rn)
  <2>1. UNCHANGED shared /\ fin' = fin /\ active' = active
    BY <1>2 DEF OpenFails, OpenRunner
  <2> QED BY <2>1, SharedKept DEF HoldInv, EndingOf, shared
<1>3. CASE UNCHANGED vars
  <2>1. UNCHANGED shared /\ fin' = fin /\ active' = active
    BY <1>3 DEF vars, client
  <2> QED BY <2>1, SharedKept DEF HoldInv, EndingOf, shared
<1> QED BY <1>1, <1>2, <1>3, SendHolds, CancelHolds, StepHolds, WakeHolds, EndTurnHolds,
           ChainHolds, UserStartHolds DEF Next, EventLoop

LEMMA Holds == ASSUME AllWrite PROVE Spec => []HoldInv
<1>1. HoldInv /\ [Next]_vars => HoldInv'
  BY NextHolds
<1> QED BY <1>1, InitHolds, PTL DEF Spec

\* When every Run writes, at most one live Run works in a workspace, whatever
\* is cancelled, fails, is resumed or is chained (HarnessSessionManager's lease).
THEOREM OneWriter == ASSUME AllWrite PROVE Spec => []WriteExclusion
<1>1. HoldInv => WriteExclusion
  BY DEF HoldInv, HoldShared, Holding, WriteExclusion, Writing
<1> QED BY <1>1, Holds, PTL

\* When every Run writes, at most one run loop works for a thread: not even in
\* the window between a cancel and the end of the cancelled Run is there a second.
THEOREM OneLoop == ASSUME AllWrite PROVE Spec => []OneLoopPerThread
<1>1. HoldInv => OneLoopPerThread
  BY DEF HoldInv, HoldShared, Holding, OneLoopPerThread
<1> QED BY <1>1, Holds, PTL

-----------------------------------------------------------------------------
(* Runs that do not end before their first event                             *)

NoEarlyEnd == "early" \notin Features

WorkPhase == {"running", "running_tool"}

\* What a Run's exit rests on: the loop knows its run id as soon as there was an
\* event, and the session's phase is one that may move to every outcome.
Exiting(r) ==
  /\ task[r].pc \in {"model", "tool", "unwinding"} => task[r].seen = r
  /\ Live(r) => SessionOf(r).phase \in WorkPhase
  /\ task[r].pc \in {"ending", "done"} =>
       task[r].thread \in Thread /\ ~(HasActiveRun(SessionOf(r)) /\ SessionOf(r).run = r)

ExitInv == LeaseOfLiveRun /\ \A r \in Run : Exiting(r)

\* The terminal transition of a Run at work is never refused.
LEMMA FinishedEnds ==
  ASSUME NEW s, IsSession(s), NEW unread, NEW id, s.run = id, s.phase \in WorkPhase,
         NEW o \in {"completed", "cancelled", "failed"}, o = "completed" => s.phase = "running"
  PROVE  FinishedSession(s, unread, id, o).phase = o
<1> DEFINE b == [AtHead(s, UnreadOf(s, unread)) EXCEPT !.pending = <<>>]
<1>1. IsSession(b) /\ b.run = s.run /\ b.phase = s.phase
  BY SettledSession
<1> HIDE DEF b
<1>2. o \in {"cancelled", "failed"} => CanMove(s.phase, o)
  BY DEF WorkPhase, CanMove, Transitions, Phase, LoopExit
<1>3. CanEnd(b, id, o)
  BY <1>1, <1>2 DEF CanEnd, CompletablePhase
<1>4. FinishedSession(s, unread, id, o) = Ended(b, o)
  BY <1>3 DEF FinishedSession, b
<1> QED BY <1>1, <1>4, EndedSession

\* RunEnd declares the running phase: granted, or refused because it is running.
LEMMA PhasedRunning ==
  ASSUME NEW s, IsSession(s), s.phase \in WorkPhase
  PROVE  /\ Phased(s, s.run, "running").phase = "running"
         /\ Phased(s, s.run, "running_tool").phase \in WorkPhase
<1>1. /\ CanMove("running_tool", "running") /\ CanMove("running", "running_tool")
      /\ ~CanMove("running", "running") /\ ~CanMove("running_tool", "running_tool")
  BY DEF CanMove, Transitions, Phase, LoopExit
<1>2. CASE s.phase = "running"
  BY <1>1, <1>2 DEF Phased, CanDeclare, Declared, IsSession, WorkPhase
<1>3. CASE s.phase = "running_tool"
  BY <1>1, <1>3 DEF Phased, CanDeclare, Declared, IsSession, WorkPhase
<1> QED BY <1>2, <1>3 DEF WorkPhase

LEMMA LaunchExits ==
  ASSUME HoldShared, ExitInv, NEW t \in Thread, NEW rn, NEW pc \in {"created", "opening"},
         lease[KeyOf[t]] = NoRun, Launch(t, rn, TRUE, pc)
  PROVE  ExitInv'
<1> USE DEF HoldShared, Shape, ExitInv
<1>1. PICK r \in NewRunIds :
        /\ sess' = [sess EXCEPT ![t] = Frozen(Started(@, r, rn), r)]
        /\ lease' = [lease EXCEPT ![KeyOf[t]] = r]
        /\ task' = [task EXCEPT ![r] =
                      [pc |-> pc, thread |-> t, runner |-> rn, seen |-> NoRun,
                       batches |-> 0, write |-> Writes(Head(sess[t].queue))]]
  BY DEF Launch
<1>2. r \in Run /\ task[r].pc = "none" /\ KeyOf[t] \in Key /\ NoRun \notin Run
  BY WireConstants, SessionConstants DEF NewRunIds
<1>3. /\ \A u \in Thread : u # t => sess'[u] = sess[u]
      /\ sess'[t].run = r /\ sess'[t].phase = "running"
  <2>1. IsSession(sess[t])
    OBVIOUS
  <2>2. LET s == Frozen(Started(sess[t], r, rn), r) IN s.run = r /\ s.phase = "running"
    BY <2>1 DEF IsSession, Frozen, Started
  <2> QED BY <1>1, <2>2
<1>4. /\ \A q \in Run : q # r => task'[q] = task[q]
      /\ task'[r].pc = pc /\ task'[r].thread = t
  BY <1>1, <1>2
<1>5. LeaseOfLiveRun'
  <2>1. Live(r)'
    BY <1>4 DEF Live, LivePc
  <2>2. ASSUME NEW k \in Key, lease'[k] # NoRun PROVE Live(lease[k])'
    <3>1. CASE k = KeyOf[t]
      BY <1>1, <1>2, <2>1, <3>1
    <3>2. CASE k # KeyOf[t]
      <4>1. lease'[k] = lease[k] /\ lease[k] \in Run /\ Live(lease[k])
        BY <1>1, <1>2, <2>2, <3>2 DEF LeaseOfLiveRun
      <4>2. lease[k] # r
        BY <1>2, <4>1 DEF Live, LivePc
      <4> QED BY <1>4, <4>1, <4>2 DEF Live
    <3> QED BY <3>1, <3>2
  <2> QED BY <2>2 DEF LeaseOfLiveRun
<1>6. ASSUME NEW q \in Run PROVE Exiting(q)'
  <2>1. CASE q = r
    BY <1>3, <1>4, <2>1 DEF Exiting, SessionOf, WorkPhase
  <2>2. CASE q # r
    <3>1. task'[q] = task[q] /\ Exiting(q)
      BY <1>4, <2>2
    <3>2. CASE task[q].thread = t
      <4>1. ~Live(q)
        BY <1>2, <3>2 DEF Holding
      <4> QED BY <1>3, <2>2, <3>1, <3>2, <4>1 DEF Exiting, SessionOf, Live, LivePc
    <3>3. CASE task[q].thread # t
      <4>1. Live(q) => task[q].thread \in Thread
        BY DEF Holding
      <4> QED BY <1>3, <3>1, <3>3, <4>1 DEF Exiting, SessionOf, Live, HasActiveRun
    <3> QED BY <3>2, <3>3
  <2> QED BY <2>1, <2>2
<1> QED BY <1>5, <1>6

LEMMA ExitKept ==
  ASSUME ExitInv, UNCHANGED <<sess, lease, task>>
  PROVE  ExitInv'
BY DEF ExitInv, LeaseOfLiveRun, Exiting, Live, SessionOf, HasActiveRun

LEMMA TryStartExits ==
  ASSUME AllWrite, HoldShared, ExitInv, NEW t \in Thread, NEW rn, NEW m,
         NEW pc \in {"created", "opening"}, TryStart(t, rn, Writes(m), pc)
  PROVE  ExitInv'
<1>1. Writes(m) = TRUE
  BY DEF AllWrite, Writes
<1>2. CASE LeaseBlocks(t, Writes(m))
  BY <1>2, ExitKept DEF TryStart, Park
<1>3. CASE ~LeaseBlocks(t, Writes(m)) /\ CanStart(sess[t])
  BY <1>1, <1>3, LaunchExits DEF TryStart, LeaseBlocks
<1>4. CASE ~LeaseBlocks(t, Writes(m)) /\ ~CanStart(sess[t])
  BY <1>4, ExitKept DEF TryStart, shared
<1> QED BY <1>2, <1>3, <1>4

LEMMA AutoStartExits ==
  ASSUME AllWrite, HoldShared, ExitInv, NEW t \in Thread, NEW rn, AutoStartNext(t, rn)
  PROVE  ExitInv'
BY TryStartExits, ExitKept DEF AutoStartNext, shared

LEMMA ContinueExits ==
  ASSUME HoldInv, ExitInv, NEW r \in Run, Live(r), NEW s, s.phase \in WorkPhase,
         s.run = SessionOf(r).run, NEW pc \in {"model", "tool"}, NEW n,
         Continue(r, s, pc, n)
  PROVE  ExitInv'
<1> USE DEF HoldInv, HoldShared, Shape, ExitInv
<1> DEFINE t == task[r].thread
<1>1. Holding(r) /\ s.run = r
  BY DEF Holding, SessionOf
<1>2. sess'[t] = s /\ lease' = lease /\ \A u \in Thread : u # t => sess'[u] = sess[u]
  BY <1>1 DEF Continue, Holding
<1>3. /\ task'[r].pc = pc /\ task'[r].thread = t /\ task'[r].seen = r
      /\ \A q \in Run : q # r => task'[q] = task[q]
  BY <1>1 DEF Continue, IsTask
<1>4. LeaseOfLiveRun'
  BY <1>2, <1>3 DEF LeaseOfLiveRun, Live, LivePc
<1>5. ASSUME NEW q \in Run PROVE Exiting(q)'
  <2>1. CASE q = r
    BY <1>2, <1>3, <2>1 DEF Exiting, SessionOf
  <2>2. CASE q # r
    <3>1. task'[q] = task[q] /\ Exiting(q)
      BY <1>3, <2>2
    <3>2. CASE task[q].thread = t
      <4>1. ~Live(q)
        BY <1>1, <2>2, <3>2 DEF Holding
      <4> QED BY <1>1, <1>2, <2>2, <3>1, <3>2, <4>1 DEF Exiting, SessionOf, Live, LivePc
    <3>3. CASE task[q].thread # t
      <4>1. Live(q) => task[q].thread \in Thread
        BY DEF Holding
      <4> QED BY <1>2, <3>1, <3>3, <4>1 DEF Exiting, SessionOf, Live, HasActiveRun
    <3> QED BY <3>2, <3>3
  <2> QED BY <2>1, <2>2
<1> QED BY <1>4, <1>5

LEMMA EndLoopExits ==
  ASSUME HoldInv, ExitInv, NEW r \in Run, Live(r), NEW s, IsSession(s),
         s.run = SessionOf(r).run, s.phase \in WorkPhase,
         NEW o \in {"completed", "cancelled", "failed"}, o = "completed" => s.phase = "running",
         NEW mail, EndLoop(r, r, s, o, mail)
  PROVE  ExitInv'
<1> USE DEF HoldInv, HoldShared, Shape, ExitInv
<1> DEFINE t == task[r].thread
           e == FinishedSession(s, ToSet(mail), r, o)
<1>1. Holding(r) /\ s.run = r /\ NoRun \notin Run
  BY SessionConstants DEF Holding, SessionOf
<1>2. e.run = r /\ e.phase = o
  <2>1. e.run = s.run
    BY FinishedSessionShape
  <2>2. e.phase = o
    BY <1>1, FinishedEnds
  <2> QED BY <1>1, <2>1, <2>2
<1>3. sess'[t] = e /\ \A u \in Thread : u # t => sess'[u] = sess[u]
  BY <1>1 DEF EndLoop, Holding
<1> HIDE DEF e
<1>4. /\ task'[r].pc = "ending" /\ task'[r].thread = t
      /\ \A q \in Run : q # r => task'[q] = task[q]
  BY <1>1 DEF EndLoop, IsTask
<1>5. lease' = [k \in Key |-> IF lease[k] = r THEN NoRun ELSE lease[k]]
  BY <1>1 DEF EndLoop, Released
<1>6. LeaseOfLiveRun'
  BY <1>4, <1>5 DEF LeaseOfLiveRun, Live, LivePc
<1>7. ASSUME NEW q \in Run PROVE Exiting(q)'
  <2>1. CASE q = r
    <3>1. o \in EndPhase
      BY DEF EndPhase
    <3> QED BY <1>1, <1>2, <1>3, <1>4, <2>1, <3>1
            DEF Exiting, SessionOf, HasActiveRun, Holding, Live, LivePc
  <2>2. CASE q # r
    <3>1. task'[q] = task[q] /\ Exiting(q)
      BY <1>4, <2>2
    <3>2. CASE task[q].thread = t
      <4>1. ~Live(q)
        BY <1>1, <2>2, <3>2 DEF Holding
      <4> QED BY <1>1, <1>2, <1>3, <2>2, <3>1, <3>2, <4>1 DEF Exiting, SessionOf, Live, LivePc
    <3>3. CASE task[q].thread # t
      <4>1. Live(q) => task[q].thread \in Thread
        BY DEF Holding
      <4> QED BY <1>3, <3>1, <3>3, <4>1 DEF Exiting, SessionOf, Live, HasActiveRun
    <3> QED BY <3>2, <3>3
  <2> QED BY <2>1, <2>2
<1> QED BY <1>6, <1>7

LEMMA StepExits ==
  ASSUME NoEarlyEnd, HoldInv, ExitInv, NEW r \in Run, Step(r)
  PROVE  ExitInv'
<1> DEFINE s == SessionOf(r)
           e == Phased(s, s.run, "running")
           b == Phased(s, s.run, "running_tool")
           c == Phased(b, s.run, "running")
<1>0. Live(r) => /\ Holding(r) /\ Exiting(r) /\ IsSession(s) /\ s.run = r
                 /\ s.phase \in WorkPhase
  BY DEF HoldInv, HoldShared, Shape, Holding, SessionOf, ExitInv, Exiting
<1>1. Live(r) => /\ IsSession(e) /\ e.run = r /\ e.phase = "running"
                 /\ IsSession(b) /\ b.run = r /\ b.phase \in WorkPhase
                 /\ IsSession(c) /\ c.run = r /\ c.phase = "running"
  <2> SUFFICES ASSUME Live(r)
               PROVE  /\ IsSession(e) /\ e.run = r /\ e.phase = "running"
                      /\ IsSession(b) /\ b.run = r /\ b.phase \in WorkPhase
                      /\ IsSession(c) /\ c.run = r /\ c.phase = "running"
    OBVIOUS
  <2> HIDE DEF s
  <2>1. /\ IsSession(e) /\ e.run = r /\ e.phase = "running"
        /\ IsSession(b) /\ b.run = r /\ b.phase \in WorkPhase
    BY <1>0, PhasedSession, PhasedRunning
  <2> HIDE DEF b
  <2>2. IsSession(c) /\ c.run = r /\ c.phase = "running"
    BY <1>0, <2>1, PhasedSession, PhasedRunning
  <2> QED BY <2>1, <2>2
<1> HIDE DEF e, b, c
<1>2. WorkPhase = {"running", "running_tool"}
  BY DEF WorkPhase
<1>3. ASSUME Live(r), NEW mail, StopAtCheckpoint(r, mail)
      PROVE ExitInv'
  <2>1. EndLoop(r, r, e, "cancelled", mail)
    BY <1>0, <1>3 DEF StopAtCheckpoint, e
  <2> QED BY <1>0, <1>1, <1>2, <1>3, <2>1, EndLoopExits
<1>4. CASE Begin(r)
  <2>1. Live(r) /\ task' = [task EXCEPT ![r].pc = "opening"] /\ UNCHANGED <<sess, lease>>
    BY <1>4 DEF Begin, Live, LivePc
  <2>2. /\ task'[r].pc = "opening" /\ task'[r].thread = task[r].thread
        /\ \A q \in Run : q # r => task'[q] = task[q]
    BY <2>1 DEF HoldInv, HoldShared, Shape, IsTask
  <2>3. \A q \in Run : (Live(q)' <=> Live(q)) /\ task'[q].thread = task[q].thread
    BY <2>1, <2>2 DEF Live, LivePc
  <2>4. LeaseOfLiveRun'
    BY <2>1, <2>2 DEF ExitInv, LeaseOfLiveRun, Live, LivePc
  <2>5. ASSUME NEW q \in Run PROVE Exiting(q)'
    <3>1. CASE q = r
      BY <1>0, <2>1, <2>2, <3>1 DEF Exiting, SessionOf
    <3>2. CASE q # r
      BY <2>1, <2>2, <3>2 DEF ExitInv, Exiting, SessionOf, Live, HasActiveRun
    <3> QED BY <3>1, <3>2
  <2> QED BY <2>4, <2>5 DEF ExitInv
<1>5. CASE FirstEvent(r)
  <2>1. Live(r)
    BY <1>5 DEF FirstEvent, Live, LivePc
  <2>2. StopAtCheckpoint(r, Mail(r)) \/ Continue(r, s, "model", 0)
    BY <1>5 DEF FirstEvent
  <2> QED BY <1>0, <1>3, <2>1, <2>2, ContinueExits
<1>6. ASSUME NEW tools \in BOOLEAN, ModelReturns(r, tools) PROVE ExitInv'
  <2>1. Live(r)
    BY <1>6 DEF ModelReturns, Live, LivePc
  <2>2. \/ StopAtCheckpoint(r, Mail(r))
        \/ Continue(r, b, "tool", task[r].batches)
        \/ EndLoop(r, s.run, c, "completed", Mail(r))
    BY <1>6 DEF ModelReturns, b, c
  <2> QED BY <1>0, <1>1, <1>2, <1>3, <2>1, <2>2, ContinueExits, EndLoopExits
<1>7. CASE ToolsReturn(r)
  <2>1. Live(r)
    BY <1>7 DEF ToolsReturn, Live, LivePc
  <2>2. StopAtCheckpoint(r, <<>>) \/ Continue(r, s, "model", task[r].batches + 1)
    BY <1>7 DEF ToolsReturn
  <2> QED BY <1>0, <1>3, <2>1, <2>2, ContinueExits
<1>8. CASE Fail(r) \/ Unwound(r)
  <2>1. task[r].pc \in {"model", "tool", "unwinding"} /\ Live(r)
    BY <1>8 DEF Fail, Unwound, NoEarlyEnd, Live, LivePc
  <2>2. task[r].seen = r
    BY <1>0, <2>1 DEF Exiting
  <2>3. \E o \in {"failed", "cancelled"} : EndLoop(r, r, s, o, Mail(r))
    BY <1>8, <2>2 DEF Fail, Unwound
  <2> QED BY <1>0, <2>1, <2>3, EndLoopExits
<1> QED BY <1>4, <1>5, <1>6, <1>7, <1>8 DEF Step

LEMMA CancelExits ==
  ASSUME NoEarlyEnd, HoldInv, ExitInv, Cancel
  PROVE  ExitInv'
<1> USE DEF HoldInv, HoldShared, Shape, ExitInv
<1> DEFINE c == turn[active]
<1>1. /\ c \in Run /\ task' = [task EXCEPT ![c].pc = CancelledPc(@)]
      /\ fin.stage = "idle" /\ UNCHANGED <<sess, lease>>
      /\ task[c].pc \notin {"created", "opening"}
  BY DEF Cancel, TurnActive, NextCommand, Quiet, NoEarlyEnd
<1>2. Live(c) /\ task[c].seen = c
  BY <1>1 DEF EndingOf, TurnOf, Live, LivePc, Exiting
<1>3. /\ task'[c].thread = task[c].thread /\ task'[c].seen = c /\ task'[c].pc = "unwinding"
      /\ \A q \in Run : q # c => task'[q] = task[q]
  BY <1>1, <1>2 DEF IsTask, CancelledPc
<1>4. LeaseOfLiveRun'
  BY <1>1, <1>2, <1>3 DEF LeaseOfLiveRun, Live, LivePc
<1>5. ASSUME NEW q \in Run PROVE Exiting(q)'
  <2>1. CASE q = c
    BY <1>1, <1>2, <1>3, <2>1 DEF Exiting, SessionOf
  <2>2. CASE q # c
    BY <1>1, <1>3, <2>2 DEF Exiting, SessionOf, Live, HasActiveRun
  <2> QED BY <2>1, <2>2
<1> QED BY <1>4, <1>5

LEMMA SendExits ==
  ASSUME HoldInv, ExitInv, NEW m \in Message, NEW d \in Delivery, InputSend(m, d)
  PROVE  ExitInv'
<1> USE DEF HoldInv, HoldShared, Shape, ExitInv
<1>1. \A t \in Thread : sess'[t].run = sess[t].run /\ sess'[t].phase = sess[t].phase
  BY RoutedSession DEF InputSend
<1>2. UNCHANGED <<lease, task>>
  BY DEF InputSend
<1>3. ASSUME NEW q \in Run PROVE Exiting(q)'
  <2>1. Live(q) => task[q].thread \in Thread
    BY DEF Holding
  <2> QED BY <1>1, <1>2, <2>1 DEF Exiting, SessionOf, HasActiveRun, Live
<1> QED BY <1>2, <1>3 DEF LeaseOfLiveRun, Live

LEMMA EndTurnExits ==
  ASSUME HoldInv, ExitInv, EndTurn
  PROVE  ExitInv'
<1> USE DEF HoldInv, HoldShared, Shape, ExitInv
<1> DEFINE r == fin.run
<1>1. /\ r \in Run /\ task[r].pc = "ending" /\ task' = [task EXCEPT ![r].pc = "done"]
      /\ UNCHANGED <<sess, lease>>
  BY DEF EndTurn, EndingOf
<1>2. /\ task'[r].pc = "done" /\ task'[r].thread = task[r].thread
      /\ \A q \in Run : q # r => task'[q] = task[q]
  BY <1>1 DEF IsTask
<1>3. LeaseOfLiveRun'
  BY <1>1, <1>2 DEF LeaseOfLiveRun, Live, LivePc
<1>4. ASSUME NEW q \in Run PROVE Exiting(q)'
  <2>1. CASE q = r
    BY <1>1, <1>2, <2>1 DEF Exiting, SessionOf, HasActiveRun, Live, LivePc
  <2>2. CASE q # r
    BY <1>1, <1>2, <2>2 DEF Exiting, SessionOf, HasActiveRun, Live
  <2> QED BY <2>1, <2>2
<1> QED BY <1>3, <1>4

LEMMA NextExits ==
  ASSUME NoEarlyEnd, AllWrite, HoldInv, ExitInv, [Next]_vars
  PROVE  ExitInv'
<1>1. CASE \/ UNCHANGED vars \/ OpenFails \/ \E t \in Thread : Resume(t)
           \/ \E rn \in Runner : OpenRunner(rn)
  BY <1>1, ExitKept DEF vars, OpenFails, Resume, OpenRunner, shared
<1>2. CASE UserStart
  <2>1. active \in Thread /\ HoldShared
    BY DEF HoldInv
  <2>2. UNCHANGED shared \/ TryStart(active, cur, Writes(command), "opening")
    BY <1>2 DEF UserStart
  <2> QED BY <2>1, <2>2, TryStartExits, ExitKept DEF shared
<1>3. CASE WakeNext
  <2> DEFINE w  == Head(fin.todo)
             wr == IF saved[w] # NoRunner THEN saved[w] ELSE sess[w].runner
  <2>1. w \in Thread /\ HoldShared
    BY <1>3, HeadTailProperties DEF WakeNext, HoldInv, EndingOf
  <2>2. UNCHANGED <<sess, lease, task>> \/ AutoStartNext(w, wr)
    BY <1>3 DEF WakeNext, shared
  <2> HIDE DEF w, wr
  <2> QED BY <2>1, <2>2, AutoStartExits, ExitKept
<1>4. CASE Chain
  <2>1. /\ AutoStartNext(task[fin.run].thread, task[fin.run].runner)
        /\ task[fin.run].thread \in Thread /\ HoldShared
    BY <1>4 DEF Chain, HoldInv, EndingOf
  <2> QED BY <2>1, AutoStartExits
<1> QED BY <1>1, <1>2, <1>3, <1>4, SendExits, CancelExits, StepExits, EndTurnExits
        DEF Next, EventLoop

LEMMA Exits == ASSUME NoEarlyEnd, AllWrite PROVE Spec => []ExitInv
<1>1. Init => ExitInv
  BY SessionConstants DEF Init, ExitInv, LeaseOfLiveRun, Exiting, Live, LivePc, NoTask
<1>2. HoldInv /\ ExitInv /\ [Next]_vars => ExitInv'
  BY NextExits
<1> QED BY <1>1, <1>2, Holds, PTL DEF Spec

\* When every Run writes and none ends before its first event, a workspace is
\* held by a Run that still works: every exit path gives the lease back.
THEOREM LeaseNeverLeaks == ASSUME NoEarlyEnd, AllWrite PROVE Spec => []LeaseOfLiveRun
<1>1. ExitInv => LeaseOfLiveRun
  BY DEF ExitInv
<1> QED BY <1>1, Exits, PTL

\* When every Run writes and none ends before its first event, a Run whose task
\* is over is not the active Run of its session: completion, cancellation and
\* failure all go through a terminal transition that the table admits.
THEOREM EveryRunExits == ASSUME NoEarlyEnd, AllWrite PROVE Spec => []EveryExitEnds
<1>1. ExitInv => EveryExitEnds
  BY DEF ExitInv, Exiting, EveryExitEnds
<1> QED BY <1>1, Exits, PTL

\* When every Run writes and none ends before its first event, every way out of a Run
\* gives back all it held: the lease of its workspace and the session's active Run.
THEOREM ExitsReleaseEverything ==
  ASSUME NoEarlyEnd, AllWrite PROVE Spec => []ExitsReleaseAll
<1>1. LeaseOfLiveRun /\ EveryExitEnds => ExitsReleaseAll
  BY DEF ExitsReleaseAll
<1> QED BY <1>1, LeaseNeverLeaks, EveryRunExits, PTL

-----------------------------------------------------------------------------
(* The second half: inputs, runners, cancels *)

\* The user never resumes the thread that is active already.
NoReopen == "reopen" \notin Features

-----------------------------------------------------------------------------
(* Types, and whose runner is kept where *)

\* A task was created for the Run.
Has(r) == task[r].pc # "none"

\* x is nothing, or a runner that was opened for t.
RunnerFor(x, t) == x # NoRunner => x \in opened /\ Owner[x] = t

SharedType ==
  /\ sess \in [Thread -> Session]
  /\ lease \in [Key -> Run \cup {NoRun}]
  /\ waiters \in [Key -> Seq(Thread)]
  /\ turn \in [Thread -> Run \cup {NoRun}]
  /\ task \in [Run -> Task]
  /\ given \in Seq(Message) /\ applied \subseteq Message

\* A task works for a thread with a runner of it; what waits for a checkpoint
\* waits for a Run.
SharedOwned ==
  /\ \A r \in Run : Has(r) => /\ task[r].thread \in Thread /\ task[r].runner \in Runner
                              /\ RunnerFor(task[r].runner, task[r].thread)
  /\ \A r \in Run : task[r].pc = "tool" => task[r].batches < MaxTurns
  /\ \A t \in Thread : turn[t] \in Run => Has(turn[t]) /\ task[turn[t]].thread = t
  /\ \A t \in Thread : /\ RunnerFor(sess[t].runner, t)
                       /\ sess[t].run # NoRun => sess[t].runner # NoRunner
                       /\ sess[t].run = NoRun => sess[t].pending = <<>>

ClientType ==
  /\ active \in Thread /\ cur \in Runner \cup {NoRunner}
  /\ saved \in [Thread -> Runner \cup {NoRunner}]
  /\ engine \in [Thread -> Runner \cup {NoRunner}]
  /\ command \in Message \cup {NoMessage} /\ opened \subseteq Runner
  /\ flag \in [Runner -> BOOLEAN] /\ box \in [Runner -> Seq(Message)]
  /\ sent \subseteq Message /\ asked \subseteq Run
  /\ outcome \in [Run -> {"none", "completed", "cancelled", "failed"}]

ClientOwned ==
  /\ RunnerFor(cur, active)
  /\ \A t \in Thread : RunnerFor(saved[t], t) /\ RunnerFor(engine[t], t)

FinType ==
  /\ fin \in Ending
  /\ fin.stage # "idle" => fin.run \in Run /\ Has(fin.run)

Owned == SharedType /\ SharedOwned /\ ClientType /\ ClientOwned /\ FinType

-----------------------------------------------------------------------------
(* The session operators, field by field *)

LEMMA RoutedFields ==
  ASSUME NEW s \in Session, NEW m \in Message, NEW d
  PROVE  /\ Routed(s, m, d) \in Session
         /\ Routed(s, m, d).run = s.run /\ Routed(s, m, d).runner = s.runner
         /\ RoutedToPending(s, d) => /\ Routed(s, m, d).queue = s.queue
                                     /\ Routed(s, m, d).pending = Append(s.pending, m)
         /\ ~RoutedToPending(s, d) => /\ Routed(s, m, d).queue = Append(s.queue, m)
                                      /\ Routed(s, m, d).pending = s.pending
<1>1. /\ Append(s.receipts, m) \in Seq(Message)
      /\ Append(s.queue, m) \in Seq(Message)
      /\ Append(s.pending, m) \in Seq(Message)
  BY AppendProperties DEF Session
<1>2. Trim(Append(s.receipts, m)) \in Seq(Message)
  BY <1>1, TrimType
<1> QED BY <1>1, <1>2 DEF Routed, Enqueued, MadePending, Session

LEMMA LaunchedFields ==
  ASSUME NEW s \in Session, NEW r \in Run, NEW rn \in Runner, s.queue # <<>>
  PROVE  /\ Frozen(Started(s, r, rn), r) \in Session
         /\ Frozen(Started(s, r, rn), r).run = r
         /\ Frozen(Started(s, r, rn), r).runner = rn
         /\ Frozen(Started(s, r, rn), r).queue = Tail(s.queue)
         /\ Frozen(Started(s, r, rn), r).pending = s.pending
<1>1. Started(s, r, rn) \in Session
  BY StartedType
<1>2. /\ Started(s, r, rn).run = r /\ Started(s, r, rn).runner = rn
      /\ Started(s, r, rn).queue = Tail(s.queue) /\ Started(s, r, rn).pending = s.pending
  BY DEF Started, Session
<1> DEFINE b == Started(s, r, rn)
<1> HIDE DEF b
<1>3. /\ Frozen(b, r) \in Session /\ Frozen(b, r).run = b.run /\ Frozen(b, r).runner = b.runner
      /\ Frozen(b, r).queue = b.queue /\ Frozen(b, r).pending = b.pending
  <2>1. b \in Session
    BY <1>1 DEF b
  <2> QED BY <2>1 DEF Frozen, Session
<1> QED BY <1>2, <1>3 DEF b

LEMMA PhasedFields ==
  ASSUME NEW s \in Session, NEW id, NEW p \in Phase
  PROVE  /\ Phased(s, id, p) \in Session
         /\ Phased(s, id, p).run = s.run /\ Phased(s, id, p).runner = s.runner
         /\ Phased(s, id, p).queue = s.queue /\ Phased(s, id, p).pending = s.pending
BY DEF Phased, Declared, Session

\* e is s after its end: what was not read is at the head of the queue.
IsFinished(e, s, unread) ==
  /\ e \in Session /\ e.run = s.run /\ e.runner = s.runner
  /\ e.pending = <<>> /\ e.queue = Only(s.pending, unread) \o s.queue

LEMMA FinishedFields ==
  ASSUME NEW s \in Session, NEW unread, NEW id, NEW o \in Phase
  PROVE  IsFinished(FinishedSession(s, unread, id, o), s, unread)
<1> DEFINE q == Only(s.pending, unread) \o s.queue
           b == [AtHead(s, UnreadOf(s, unread)) EXCEPT !.pending = <<>>]
           e == Ended(b, o)
<1>1. q \in Seq(Message) /\ <<>> \in Seq(Message)
  BY OnlyMembers, ConcatProperties, EmptySeq DEF Session
<1>2. /\ b \in Session /\ b.run = s.run /\ b.runner = s.runner
      /\ b.pending = <<>> /\ b.queue = q
  BY <1>1 DEF AtHead, UnreadOf, Session
<1> HIDE DEF b
<1>3. /\ e \in Session /\ e.run = b.run /\ e.queue = b.pending \o b.queue /\ e.pending = <<>>
  BY <1>2, EndedFields
<1>4. e.runner = b.runner
  BY <1>2 DEF Ended, ApprovalsExpired, Deferred, AtHead, Session
<1>5. <<>> \o q = q
  BY <1>1, ConcatEmptySeq
<1>6. FinishedSession(s, unread, id, o) = IF CanEnd(b, id, o) THEN e ELSE b
  BY DEF FinishedSession, b
<1> HIDE DEF e, q
<1>7. FinishedSession(s, unread, id, o) \in {b, e}
  BY <1>6
<1> QED BY <1>2, <1>3, <1>4, <1>5, <1>7 DEF q, IsFinished
-----------------------------------------------------------------------------
(* Starting a Run *)

LEMMA LaunchOwned ==
  ASSUME SharedType, SharedOwned, opened' = opened, NEW t \in Thread,
         NEW rn \in Runner, RunnerFor(rn, t), NEW write, NEW pc \in {"created", "opening"},
         CanStart(sess[t]), Launch(t, rn, write, pc)
  PROVE  SharedType' /\ SharedOwned' /\ OldTasksKept
<1> USE DEF SharedType, SharedOwned
<1> DEFINE m == Head(sess[t].queue)
<1>1. PICK r \in NewRunIds :
        /\ sess' = [sess EXCEPT ![t] = Frozen(Started(@, r, rn), r)]
        /\ lease' = IF write THEN [lease EXCEPT ![KeyOf[t]] = r] ELSE lease
        /\ turn' = [turn EXCEPT ![t] = r]
        /\ task' = [task EXCEPT ![r] =
                      [pc |-> pc, thread |-> t, runner |-> rn, seen |-> NoRun,
                       batches |-> 0, write |-> Writes(m)]]
        /\ given' = Append(given, m)
        /\ applied' = applied \cup {m}
        /\ waiters' = waiters
  BY DEF Launch
<1>2. r \in Run /\ ~Has(r) /\ NoRun \notin Run /\ MaxTurns \in Nat /\ KeyOf[t] \in Key
  BY SessionConstants, WireConstants DEF NewRunIds, Has
<1>3. sess[t] \in Session /\ sess[t].queue \in Seq(Message) /\ sess[t].queue # <<>>
  BY DEF CanStart, Session
<1>4. m \in Message
  BY <1>3, HeadTailProperties
<1> DEFINE L == Frozen(Started(sess[t], r, rn), r)
           k == [pc |-> pc, thread |-> t, runner |-> rn, seen |-> NoRun,
                 batches |-> 0, write |-> Writes(m)]
<1>5. L \in Session /\ L.run = r /\ L.runner = rn /\ L.pending = sess[t].pending
  BY <1>2, <1>3, LaunchedFields
<1>6. /\ k \in Task /\ k.pc = pc /\ k.thread = t /\ k.runner = rn
  BY <1>2 DEF Task, TaskPc, Writes
<1>7. sess' = [sess EXCEPT ![t] = L] /\ task' = [task EXCEPT ![r] = k]
  BY <1>1
<1> HIDE DEF L, k, m
<1>8. /\ sess' \in [Thread -> Session] /\ sess'[t] = L
      /\ \A u \in Thread : u # t => sess'[u] = sess[u]
  BY <1>5, <1>7
<1>9. /\ task' \in [Run -> Task] /\ task'[r] = k
      /\ \A q \in Run : q # r => task'[q] = task[q]
  BY <1>2, <1>6, <1>7
<1>10. /\ lease' \in [Key -> Run \cup {NoRun}] /\ turn' \in [Thread -> Run \cup {NoRun}]
       /\ turn'[t] = r /\ \A u \in Thread : u # t => turn'[u] = turn[u]
  BY <1>1, <1>2
<1>11. given' \in Seq(Message) /\ applied' \subseteq Message
  BY <1>1, <1>4, AppendProperties
<1>12. SharedType'
  BY <1>1, <1>8, <1>9, <1>10, <1>11
<1>13. ASSUME NEW q \in Run, Has(q)'
       PROVE  /\ task'[q].thread \in Thread /\ task'[q].runner \in Runner
              /\ RunnerFor(task[q].runner, task[q].thread)'
  <2>1. CASE q = r
    BY <1>6, <1>9, <2>1 DEF RunnerFor
  <2>2. CASE q # r
    BY <1>9, <1>13, <2>2 DEF RunnerFor, Has
  <2> QED BY <2>1, <2>2
<1>14. ASSUME NEW q \in Run, task'[q].pc = "tool" PROVE task'[q].batches < MaxTurns
  BY <1>6, <1>9, <1>14
<1>15. ASSUME NEW u \in Thread, turn'[u] \in Run
       PROVE Has(turn[u])' /\ task'[turn'[u]].thread = u
  <2>1. CASE u = t
    BY <1>6, <1>9, <1>10, <2>1 DEF Has
  <2>2. CASE u # t
    BY <1>2, <1>9, <1>10, <1>15, <2>2 DEF Has
  <2> QED BY <2>1, <2>2
<1>16. ASSUME NEW u \in Thread
       PROVE  /\ RunnerFor(sess[u].runner, u)'
              /\ sess'[u].run # NoRun => sess'[u].runner # NoRunner
              /\ sess'[u].run = NoRun => sess'[u].pending = <<>>
  <2>1. CASE u = t
    BY <1>2, <1>5, <1>8, <2>1, SessionConstants DEF RunnerFor
  <2>2. CASE u # t
    BY <1>8, <2>2 DEF RunnerFor
  <2> QED BY <2>1, <2>2
<1>17. OldTasksKept
  BY <1>2, <1>6, <1>9 DEF OldTasksKept, Has
<1> QED BY <1>12, <1>13, <1>14, <1>15, <1>16, <1>17

LEMMA SameOwned ==
  ASSUME SharedType, SharedOwned, opened \subseteq opened', UNCHANGED <<shared, given, applied>>
  PROVE  SharedType' /\ SharedOwned' /\ OldTasksKept
BY DEF SharedType, SharedOwned, shared, RunnerFor, Has, OldTasksKept

LEMMA ParkOwned ==
  ASSUME SharedType, SharedOwned, opened' = opened, NEW t \in Thread, Park(t)
  PROVE  SharedType' /\ SharedOwned' /\ OldTasksKept
<1>1. \A q \in Seq(Thread) : AddedWaiter(q, t) \in Seq(Thread)
  BY AppendProperties DEF AddedWaiter
<1>2. waiters' \in [Key -> Seq(Thread)]
  BY <1>1 DEF Park, SharedType
<1>3. UNCHANGED <<sess, lease, turn, task, given, applied>>
  BY DEF Park
<1>4. SharedType'
  BY <1>2, <1>3 DEF SharedType
<1>5. SharedOwned' /\ OldTasksKept
  BY <1>3 DEF SharedOwned, RunnerFor, Has, OldTasksKept
<1> QED BY <1>4, <1>5

LEMMA TryStartOwned ==
  ASSUME SharedType, SharedOwned, opened' = opened, NEW t \in Thread,
         NEW rn \in Runner, RunnerFor(rn, t), NEW write, NEW pc \in {"created", "opening"},
         TryStart(t, rn, write, pc)
  PROVE  SharedType' /\ SharedOwned' /\ OldTasksKept
<1>1. CASE LeaseBlocks(t, write)
  BY <1>1, ParkOwned DEF TryStart
<1>2. CASE ~LeaseBlocks(t, write) /\ CanStart(sess[t])
  BY <1>2, LaunchOwned DEF TryStart
<1>3. CASE ~LeaseBlocks(t, write) /\ ~CanStart(sess[t])
  BY <1>3, SameOwned DEF TryStart
<1> QED BY <1>1, <1>2, <1>3

LEMMA AutoStartOwned ==
  ASSUME SharedType, SharedOwned, opened' = opened, NEW t \in Thread,
         NEW rn \in Runner, RunnerFor(rn, t), AutoStartNext(t, rn)
  PROVE  SharedType' /\ SharedOwned' /\ OldTasksKept
<1>1. CASE sess[t].queue = <<>>
  BY <1>1, SameOwned DEF AutoStartNext
<1>2. CASE sess[t].queue # <<>>
  BY <1>2, TryStartOwned DEF AutoStartNext
<1> QED BY <1>1, <1>2

\* The end that is under way stays that of a Run that was started.
LEMMA FinKept ==
  ASSUME FinType, OldTasksKept, fin' = fin
  PROVE  FinType'
BY DEF FinType, OldTasksKept, Has

-----------------------------------------------------------------------------
(* A Run at work, and its end *)

LEMMA ContinueOwned ==
  ASSUME SharedType, SharedOwned, FinType, opened' = opened, fin.stage = "idle",
         NEW r \in Run, Live(r), NEW s \in Session, s.run = SessionOf(r).run,
         s.runner = SessionOf(r).runner, s.pending = SessionOf(r).pending,
         NEW pc \in {"model", "tool"}, NEW n \in 0..MaxTurns, pc = "tool" => n < MaxTurns,
         Continue(r, s, pc, n), given' \in Seq(Message)
  PROVE  SharedType' /\ SharedOwned' /\ FinType'
<1> USE DEF SharedType, SharedOwned
<1> DEFINE t == task[r].thread
           k == [task[r] EXCEPT !.pc = pc, !.seen = s.run, !.batches = n]
<1>1. Has(r) /\ t \in Thread /\ task[r].runner \in Runner
  BY DEF Has, Live, LivePc
<1>2. task[r] \in Task /\ s.run \in Run \cup {NoRun}
  BY DEF Session
<1>3. /\ k \in Task /\ k.pc = pc /\ k.thread = t /\ k.runner = task[r].runner /\ k.batches = n
  BY <1>2 DEF Task, TaskPc
<1>4. /\ sess' = [sess EXCEPT ![t] = s]
      /\ task' = [task EXCEPT ![r].pc = pc, ![r].seen = s.run, ![r].batches = n]
      /\ UNCHANGED <<lease, waiters, turn, applied, fin>>
  BY DEF Continue
<1>5. task' = [task EXCEPT ![r] = k]
  BY <1>4
<1> HIDE DEF k
<1>6. /\ sess' \in [Thread -> Session] /\ sess'[t] = s
      /\ \A u \in Thread : u # t => sess'[u] = sess[u]
  BY <1>1, <1>4
<1>7. /\ task' \in [Run -> Task] /\ task'[r] = k
      /\ \A q \in Run : q # r => task'[q] = task[q]
  BY <1>3, <1>5
<1>8. SharedType'
  BY <1>4, <1>6, <1>7
<1>9. ASSUME NEW q \in Run, Has(q)'
      PROVE  /\ task'[q].thread \in Thread /\ task'[q].runner \in Runner
             /\ RunnerFor(task[q].runner, task[q].thread)'
  BY <1>1, <1>3, <1>7, <1>9 DEF RunnerFor, Has
<1>10. ASSUME NEW q \in Run, task'[q].pc = "tool" PROVE task'[q].batches < MaxTurns
  BY <1>3, <1>7, <1>10
<1>11. ASSUME NEW u \in Thread, turn'[u] \in Run
       PROVE Has(turn[u])' /\ task'[turn'[u]].thread = u
  BY <1>3, <1>4, <1>7, <1>11 DEF Has
<1>12. ASSUME NEW u \in Thread
       PROVE  /\ RunnerFor(sess[u].runner, u)'
              /\ sess'[u].run # NoRun => sess'[u].runner # NoRunner
              /\ sess'[u].run = NoRun => sess'[u].pending = <<>>
  BY <1>6 DEF RunnerFor, SessionOf
<1>13. FinType'
  BY <1>4 DEF FinType
<1> QED BY <1>8, <1>9, <1>10, <1>11, <1>12, <1>13

LEMMA EndLoopOwned ==
  ASSUME SharedType, SharedOwned, ClientType, opened' = opened, NEW r \in Run, Live(r),
         NEW s \in Session, s.run = SessionOf(r).run, s.runner = SessionOf(r).runner,
         NEW id \in Run \cup {NoRun}, NEW o \in Phase,
         NEW mail \in Seq(Message), EndLoop(r, id, s, o, mail), given' \in Seq(Message)
  PROVE  SharedType' /\ SharedOwned' /\ FinType'
<1> DEFINE t == task[r].thread
           k == [task[r] EXCEPT !.pc = "ending", !.seen = id]
           e == FinishedSession(s, ToSet(mail), id, o)
           mine == id # NoRun /\ s.run = id
           todo == IF Wakes(mine, o) THEN waiters[KeyOf[t]] ELSE <<>>
<1>1. Has(r) /\ t \in Thread /\ task[r].runner \in Runner /\ KeyOf[t] \in Key
      /\ RunnerFor(task[r].runner, t)
  BY WireConstants DEF Has, Live, LivePc, SharedOwned
<1>2. task[r] \in Task
  BY DEF SharedType
<1>3. /\ k \in Task /\ k.pc = "ending" /\ k.thread = t /\ k.runner = task[r].runner
  BY <1>2 DEF Task, TaskPc
<1>4. e \in Session /\ e.run = s.run /\ e.runner = s.runner /\ e.pending = <<>>
  <2>1. IsFinished(e, s, ToSet(mail))
    BY FinishedFields
  <2> QED BY <2>1 DEF IsFinished
<1>5. /\ sess' = [sess EXCEPT ![t] = e]
      /\ lease' \in {Released(id), lease}
      /\ waiters' \in {[waiters EXCEPT ![KeyOf[t]] = <<>>], waiters}
      /\ task' = [task EXCEPT ![r].pc = "ending", ![r].seen = id]
      /\ applied' = applied \cup ToSet(ReadOf(s, ToSet(mail)))
      /\ turn' = turn
      /\ fin' = [run |-> r, chain |-> o # "failed", stage |-> "wake", todo |-> todo]
  BY DEF EndLoop
<1>6. task' = [task EXCEPT ![r] = k]
  BY <1>5
<1>7. todo \in Seq(Thread)
  BY <1>1, EmptySeq DEF SharedType
<1> HIDE DEF k, e, todo
<1>8. /\ sess' \in [Thread -> Session] /\ sess'[t] = e
      /\ \A u \in Thread : u # t => sess'[u] = sess[u]
  BY <1>1, <1>4, <1>5 DEF SharedType
<1>9. /\ task' \in [Run -> Task] /\ task'[r] = k
      /\ \A q \in Run : q # r => task'[q] = task[q]
  BY <1>3, <1>6 DEF SharedType
<1>10. lease' \in [Key -> Run \cup {NoRun}]
  BY <1>5 DEF Released, SharedType
<1>11. waiters' \in [Key -> Seq(Thread)]
  <2>1. [waiters EXCEPT ![KeyOf[t]] = <<>>] \in [Key -> Seq(Thread)]
    BY EmptySeq DEF SharedType
  <2> QED BY <1>5, <2>1 DEF SharedType
<1>12. applied' \subseteq Message
  <2>1. s.pending \in Seq(Message)
    BY DEF Session
  <2>2. \A U : Only(s.pending, U) \in Seq(Message)
    BY <2>1, OnlyMembers
  <2>3. ReadOf(s, ToSet(mail)) \in Seq(Message)
    BY <2>2 DEF ReadOf
  <2> QED BY <1>5, <2>3, ToSetOfSeq DEF SharedType
<1>13. SharedType'
  BY <1>5, <1>8, <1>9, <1>10, <1>11, <1>12 DEF SharedType
<1>14. ASSUME NEW q \in Run, Has(q)'
       PROVE  /\ task'[q].thread \in Thread /\ task'[q].runner \in Runner
              /\ RunnerFor(task[q].runner, task[q].thread)'
  <2>1. CASE q = r
    BY <1>1, <1>3, <1>9, <2>1 DEF RunnerFor
  <2>2. CASE q # r
    BY <1>9, <1>14, <2>2 DEF SharedOwned, RunnerFor, Has
  <2> QED BY <2>1, <2>2
<1>15. ASSUME NEW q \in Run, task'[q].pc = "tool" PROVE task'[q].batches < MaxTurns
  BY <1>3, <1>9, <1>15 DEF SharedOwned
<1>16. ASSUME NEW u \in Thread, turn'[u] \in Run
       PROVE Has(turn[u])' /\ task'[turn'[u]].thread = u
  BY <1>3, <1>5, <1>9, <1>16 DEF Has, SharedOwned
<1>17. ASSUME NEW u \in Thread
       PROVE  /\ RunnerFor(sess[u].runner, u)'
              /\ sess'[u].run # NoRun => sess'[u].runner # NoRunner
              /\ sess'[u].run = NoRun => sess'[u].pending = <<>>
  <2>1. CASE u = t
    <3>1. sess'[u] = e /\ e.run = sess[u].run /\ e.runner = sess[u].runner
      BY <1>4, <1>8, <2>1 DEF SessionOf
    <3> QED BY <1>4, <3>1 DEF RunnerFor, SharedOwned
  <2>2. CASE u # t
    BY <1>8, <2>2 DEF RunnerFor, SharedOwned
  <2> QED BY <2>1, <2>2
<1>18. FinType'
  <2>1. fin'.run = r /\ fin' \in Ending
    BY <1>5, <1>7 DEF Ending
  <2> QED BY <1>3, <1>9, <2>1 DEF FinType, Has
<1>19. SharedOwned'
  BY <1>14, <1>15, <1>16, <1>17 DEF SharedOwned
<1> QED BY <1>13, <1>18, <1>19

LEMMA ClientKept ==
  ASSUME ClientType, ClientOwned, UNCHANGED <<client, engine, flag, sent, asked>>,
         box' \in [Runner -> Seq(Message)],
         outcome' \in [Run -> {"none", "completed", "cancelled", "failed"}]
  PROVE  ClientType' /\ ClientOwned'
BY DEF ClientType, ClientOwned, RunnerFor, client

LEMMA EndLoopClient ==
  ASSUME SharedType, SharedOwned, ClientType, ClientOwned, NEW r \in Run, Live(r), NEW s, NEW id,
         NEW o \in {"completed", "cancelled", "failed"}, NEW mail, EndLoop(r, id, s, o, mail)
  PROVE  ClientType' /\ ClientOwned' /\ opened' = opened
<1>1. /\ box' = [box EXCEPT ![task[r].runner] = <<>>] /\ outcome' = [outcome EXCEPT ![r] = o]
      /\ UNCHANGED <<client, engine, flag, sent, asked>>
  BY DEF EndLoop
<1>2. box' \in [Runner -> Seq(Message)]
  BY <1>1, EmptySeq DEF ClientType
<1>3. outcome' \in [Run -> {"none", "completed", "cancelled", "failed"}]
  BY <1>1 DEF ClientType
<1> QED BY <1>1, <1>2, <1>3, ClientKept DEF client

\* A Run that reads its mailbox.
LEMMA ReadMailTypes ==
  ASSUME SharedType, SharedOwned, ClientType, NEW r \in Run, Live(r)
  PROVE  /\ Mail(r) \in Seq(Message) /\ given \o Mail(r) \in Seq(Message)
         /\ [box EXCEPT ![task[r].runner] = <<>>] \in [Runner -> Seq(Message)]
<1>1. task[r].runner \in Runner
  BY DEF SharedOwned, Has, Live, LivePc
<1> QED BY <1>1, ConcatProperties, EmptySeq DEF SharedType, ClientType, Mail

LEMMA SessionTypes ==
  ASSUME SharedType, SharedOwned, NEW r \in Run, Live(r)
  PROVE  SessionOf(r) \in Session /\ SessionOf(r).run \in Run \cup {NoRun}
<1>1. SessionOf(r) \in Session
  BY DEF SharedType, SharedOwned, SessionOf, Has, Live, LivePc
<1> QED BY <1>1 DEF Session

LEMMA StopOwned ==
  ASSUME Owned, NEW r \in Run, Live(r), NEW mail \in Seq(Message), StopAtCheckpoint(r, mail),
         given' \in Seq(Message)
  PROVE  Owned'
<1> USE DEF Owned
<1> DEFINE s == SessionOf(r)
           e == Phased(s, s.run, "running")
<1>1. s \in Session /\ s.run \in Run \cup {NoRun}
  BY SessionTypes
<1>2. "running" \in Phase /\ "cancelled" \in Phase
  BY DEF Phase
<1>3. e \in Session /\ e.run = s.run /\ e.runner = s.runner
  BY <1>1, <1>2, PhasedFields
<1>4. EndLoop(r, s.run, e, "cancelled", mail)
  BY DEF StopAtCheckpoint
<1> HIDE DEF s, e
<1>5. ClientType' /\ ClientOwned' /\ opened' = opened
  BY <1>4, EndLoopClient
<1>6. SharedType' /\ SharedOwned' /\ FinType'
  BY <1>1, <1>2, <1>3, <1>4, <1>5, EndLoopOwned DEF s
<1> QED BY <1>5, <1>6

LEMMA BeginOwned == ASSUME Owned, NEW r \in Run, Begin(r) PROVE Owned'
<1> USE DEF Owned
<1>1. /\ task[r].pc = "created" /\ task' = [task EXCEPT ![r].pc = "opening"]
      /\ engine' = [engine EXCEPT ![task[r].thread] = task[r].runner]
      /\ UNCHANGED <<sess, lease, waiters, turn, client, flag, box, history, fin>>
  BY DEF Begin
<1> DEFINE k == [task[r] EXCEPT !.pc = "opening"]
<1>2. task[r] \in Task /\ Has(r)
  BY <1>1 DEF SharedType, Has
<1>3. k \in Task /\ k.pc = "opening" /\ k.thread = task[r].thread /\ k.runner = task[r].runner
  BY <1>2 DEF Task, TaskPc
<1>4. task' = [task EXCEPT ![r] = k]
  BY <1>1
<1> HIDE DEF k
<1>5. /\ task' \in [Run -> Task] /\ task'[r] = k /\ \A q \in Run : q # r => task'[q] = task[q]
  BY <1>3, <1>4 DEF SharedType
<1>6. SharedType'
  BY <1>1, <1>5 DEF SharedType, history
<1>7. SharedOwned'
  <2>1. \A q \in Run : (Has(q)' <=> Has(q)) /\ task'[q].thread = task[q].thread
                       /\ task'[q].runner = task[q].runner
                       /\ (task'[q].pc = "tool" => task[q] = task'[q])
    BY <1>2, <1>3, <1>5 DEF Has
  <2>2. UNCHANGED <<sess, turn, opened>>
    BY <1>1 DEF client
  <2>3. ASSUME NEW q \in Run, Has(q)'
        PROVE  /\ task'[q].thread \in Thread /\ task'[q].runner \in Runner
               /\ RunnerFor(task[q].runner, task[q].thread)'
    BY <2>1, <2>2, <2>3 DEF SharedOwned, RunnerFor
  <2>4. \A t \in Thread : turn'[t] \in Run => Has(turn[t])' /\ task'[turn'[t]].thread = t
    BY <2>1, <2>2 DEF SharedOwned, Has
  <2> QED BY <2>1, <2>2, <2>3, <2>4 DEF SharedOwned, RunnerFor
<1>8. task[r].thread \in Thread /\ task[r].runner \in Runner
      /\ RunnerFor(task[r].runner, task[r].thread)
  BY <1>2 DEF SharedOwned
<1>9. ClientType' /\ ClientOwned'
  BY <1>1, <1>8 DEF ClientType, ClientOwned, RunnerFor, client, history
<1>10. FinType'
  BY <1>1, <1>3, <1>5 DEF FinType, Has
<1> QED BY <1>6, <1>7, <1>9, <1>10

LEMMA FirstEventOwned == ASSUME Owned, NEW r \in Run, FirstEvent(r) PROVE Owned'
<1> USE DEF Owned
<1>1. Live(r) /\ fin.stage = "idle"
  BY DEF FirstEvent, Live, LivePc, Quiet
<1>2. /\ Mail(r) \in Seq(Message) /\ given \o Mail(r) \in Seq(Message) /\ given \in Seq(Message)
      /\ [box EXCEPT ![task[r].runner] = <<>>] \in [Runner -> Seq(Message)]
  BY <1>1, ReadMailTypes DEF SharedType
<1>3. CASE Cancelled(r)
  BY <1>1, <1>2, <1>3, StopOwned DEF FirstEvent
<1>4. CASE ~Cancelled(r)
  <2>1. ReadMail(r) /\ Continue(r, SessionOf(r), "model", 0)
    BY <1>4 DEF FirstEvent
  <2>2. ClientType' /\ ClientOwned' /\ opened' = opened
    <3>1. UNCHANGED <<client, engine, flag, sent, asked, outcome>>
      BY <2>1 DEF Continue
    <3>2. box' \in [Runner -> Seq(Message)]
      BY <1>2, <2>1 DEF ReadMail
    <3> QED BY <3>1, <3>2, ClientKept DEF ClientType, client
  <2>3. 0 \in 0..MaxTurns
    BY WireConstants
  <2>4. given' \in Seq(Message)
    BY <1>2, <2>1 DEF ReadMail
  <2>5. SessionOf(r) \in Session
    BY <1>1, SessionTypes
  <2>6. SharedType' /\ SharedOwned' /\ FinType'
    BY <1>1, <2>1, <2>2, <2>3, <2>4, <2>5, ContinueOwned
  <2> QED BY <2>2, <2>6
<1> QED BY <1>3, <1>4

LEMMA ModelReturnsOwned ==
  ASSUME Owned, NEW r \in Run, NEW tools \in BOOLEAN, ModelReturns(r, tools)
  PROVE  Owned'
<1> USE DEF Owned
<1> DEFINE s == SessionOf(r)
           st == Phased(s, s.run, "running_tool")
           e == Phased(st, s.run, "running")
<1>1. Live(r) /\ fin.stage = "idle"
  BY DEF ModelReturns, Live, LivePc, Quiet
<1>2. /\ Mail(r) \in Seq(Message) /\ given \in Seq(Message)
      /\ s \in Session /\ s.run \in Run \cup {NoRun}
  BY <1>1, ReadMailTypes, SessionTypes DEF SharedType
<1>3. "running_tool" \in Phase /\ "running" \in Phase /\ "completed" \in Phase
  BY DEF Phase
<1>4. /\ st \in Session /\ st.run = s.run /\ st.runner = s.runner /\ st.pending = s.pending
  BY <1>2, <1>3, PhasedFields
<1> HIDE DEF st
<1>5. e \in Session /\ e.run = s.run /\ e.runner = s.runner
  BY <1>3, <1>4, PhasedFields
<1>6. CASE Cancelled(r)
  BY <1>1, <1>2, <1>6, StopOwned DEF ModelReturns
<1>7. CASE ~Cancelled(r) /\ tools
  <2>1. /\ task[r].batches < MaxTurns /\ Continue(r, st, "tool", task[r].batches)
        /\ UNCHANGED <<given, box>>
    BY <1>7 DEF ModelReturns, st
  <2>2. ClientType' /\ ClientOwned' /\ opened' = opened
    BY <2>1, ClientKept DEF Continue, ClientType, client
  <2>3. task[r].batches \in 0..MaxTurns
    BY DEF SharedType, Task
  <2>4. SharedType' /\ SharedOwned' /\ FinType'
    BY <1>1, <1>2, <1>4, <2>1, <2>2, <2>3, ContinueOwned
  <2> QED BY <2>2, <2>4
<1>8. CASE ~Cancelled(r) /\ ~tools
  <2>1. EndLoop(r, s.run, e, "completed", Mail(r)) /\ given' = given
    BY <1>8 DEF ModelReturns, st
  <2> HIDE DEF e
  <2>2. ClientType' /\ ClientOwned' /\ opened' = opened
    BY <1>1, <2>1, EndLoopClient
  <2>3. SharedType' /\ SharedOwned' /\ FinType'
    BY <1>1, <1>2, <1>3, <1>5, <2>1, <2>2, EndLoopOwned
  <2> QED BY <2>2, <2>3
<1> QED BY <1>6, <1>7, <1>8

LEMMA ToolsReturnOwned == ASSUME Owned, NEW r \in Run, ToolsReturn(r) PROVE Owned'
<1> USE DEF Owned
<1>1. Live(r) /\ fin.stage = "idle" /\ task[r].pc = "tool"
  BY DEF ToolsReturn, Live, LivePc, Quiet
<1>2. /\ given \o Mail(r) \in Seq(Message) /\ <<>> \in Seq(Message)
      /\ [box EXCEPT ![task[r].runner] = <<>>] \in [Runner -> Seq(Message)]
  BY <1>1, ReadMailTypes, EmptySeq
<1>3. CASE Cancelled(r)
  BY <1>1, <1>2, <1>3, StopOwned DEF ToolsReturn
<1>4. CASE ~Cancelled(r)
  <2>1. ReadMail(r) /\ Continue(r, SessionOf(r), "model", task[r].batches + 1)
    BY <1>4 DEF ToolsReturn
  <2>2. ClientType' /\ ClientOwned' /\ opened' = opened
    <3>1. UNCHANGED <<client, engine, flag, sent, asked, outcome>>
      BY <2>1 DEF Continue
    <3>2. box' \in [Runner -> Seq(Message)]
      BY <1>2, <2>1 DEF ReadMail
    <3> QED BY <3>1, <3>2, ClientKept DEF ClientType, client
  <2>3. task[r].batches + 1 \in 0..MaxTurns
    <3>1. task[r].batches \in 0..MaxTurns /\ task[r].batches < MaxTurns
      BY <1>1 DEF SharedType, SharedOwned, Task
    <3> QED BY <3>1, WireConstants
  <2>4. given' \in Seq(Message)
    BY <1>2, <2>1 DEF ReadMail
  <2>5. SessionOf(r) \in Session
    BY <1>1, SessionTypes
  <2>6. SharedType' /\ SharedOwned' /\ FinType'
    BY <1>1, <2>1, <2>2, <2>3, <2>4, <2>5, ContinueOwned
  <2> QED BY <2>2, <2>6
<1> QED BY <1>3, <1>4

\* A Run ends with an exception, or a cancelled task has unwound.
LEMMA BrokenOwned ==
  ASSUME Owned, NEW r \in Run, Live(r), NEW o \in {"cancelled", "failed"},
         EndLoop(r, task[r].seen, SessionOf(r), o, Mail(r)), given' = given
  PROVE  Owned'
<1> USE DEF Owned
<1>1. /\ Mail(r) \in Seq(Message) /\ given \in Seq(Message) /\ SessionOf(r) \in Session
  BY ReadMailTypes, SessionTypes DEF SharedType
<1>2. task[r].seen \in Run \cup {NoRun} /\ o \in Phase
  BY DEF SharedType, Task, Phase
<1>3. ClientType' /\ ClientOwned' /\ opened' = opened
  BY EndLoopClient
<1>4. SharedType' /\ SharedOwned' /\ FinType'
  BY <1>1, <1>2, <1>3, EndLoopOwned
<1> QED BY <1>3, <1>4

LEMMA StepOwned == ASSUME Owned, NEW r \in Run, Step(r) PROVE Owned'
<1>1. CASE Begin(r)
  BY <1>1, BeginOwned
<1>2. CASE FirstEvent(r)
  BY <1>2, FirstEventOwned
<1>3. CASE \E tools \in BOOLEAN : ModelReturns(r, tools)
  BY <1>3, ModelReturnsOwned
<1>4. CASE ToolsReturn(r)
  BY <1>4, ToolsReturnOwned
<1>5. CASE Fail(r)
  <2>1. Live(r) /\ EndLoop(r, task[r].seen, SessionOf(r), "failed", Mail(r)) /\ given' = given
    BY <1>5 DEF Fail, Live, LivePc
  <2> QED BY <2>1, BrokenOwned
<1>6. CASE Unwound(r)
  <2>1. Live(r) /\ EndLoop(r, task[r].seen, SessionOf(r), "cancelled", Mail(r)) /\ given' = given
    BY <1>6 DEF Unwound, Live, LivePc
  <2> QED BY <2>1, BrokenOwned
<1> QED BY <1>1, <1>2, <1>3, <1>4, <1>5, <1>6 DEF Step

-----------------------------------------------------------------------------
(* The client, and the steps after a Run *)

LEMMA SendOwned ==
  ASSUME Owned, NEW m \in Message, NEW d \in Delivery, InputSend(m, d)
  PROVE  Owned'
<1> USE DEF Owned
<1> DEFINE s  == sess[active]
           en == IF cur # NoRunner THEN cur ELSE engine[active]
           rn == IF en # NoRunner THEN en ELSE s.runner
           n  == Routed(s, m, d)
<1>1. /\ sess' = [sess EXCEPT ![active] = n] /\ command' = m /\ sent' = sent \cup {m}
      /\ engine' \in {[engine EXCEPT ![active] = en], engine}
      /\ box' \in {[box EXCEPT ![rn] = Append(@, m)], box}
      /\ rn = NoRunner => box' = box
      /\ UNCHANGED <<lease, waiters, turn, task, active, cur, saved, opened, flag,
                     given, applied, asked, outcome, fin>>
  BY DEF InputSend
<1>2. active \in Thread /\ s \in Session
  BY DEF ClientType, SharedType
<1>3. n \in Session /\ n.run = s.run /\ n.runner = s.runner
  BY <1>2, RoutedFields
<1>4. n.run = NoRun => n.pending = s.pending
  BY <1>2, <1>3, RoutedFields DEF RoutedToPending, HasActiveRun
<1>5. en \in Runner \cup {NoRunner} /\ RunnerFor(en, active)
  BY <1>2 DEF ClientType, ClientOwned
<1>6. rn \in Runner \cup {NoRunner}
  BY <1>2, <1>5 DEF Session
<1> HIDE DEF en, rn, n
<1>7. /\ sess' \in [Thread -> Session] /\ sess'[active] = n
      /\ \A u \in Thread : u # active => sess'[u] = sess[u]
  BY <1>1, <1>2, <1>3 DEF SharedType
<1>8. SharedType'
  BY <1>1, <1>7 DEF SharedType
<1>9. SharedOwned'
  <2>1. ASSUME NEW u \in Thread
        PROVE  /\ RunnerFor(sess[u].runner, u)'
               /\ sess'[u].run # NoRun => sess'[u].runner # NoRunner
               /\ sess'[u].run = NoRun => sess'[u].pending = <<>>
    <3>1. CASE u = active
      BY <1>1, <1>3, <1>4, <1>7, <3>1 DEF SharedOwned, RunnerFor
    <3>2. CASE u # active
      BY <1>1, <1>7, <3>2 DEF SharedOwned, RunnerFor
    <3> QED BY <3>1, <3>2
  <2> QED BY <1>1, <2>1 DEF SharedOwned, RunnerFor, Has
<1>10. box' \in [Runner -> Seq(Message)]
  <2>1. CASE box' = box
    BY <2>1 DEF ClientType
  <2>2. CASE box' # box
    <3>1. rn \in Runner /\ box' = [box EXCEPT ![rn] = Append(@, m)]
      BY <1>1, <1>6, <2>2
    <3>2. Append(box[rn], m) \in Seq(Message)
      BY <3>1, AppendProperties DEF ClientType
    <3> QED BY <3>1, <3>2 DEF ClientType
  <2> QED BY <2>1, <2>2
<1>11. engine' \in [Thread -> Runner \cup {NoRunner}] /\ \A u \in Thread : RunnerFor(engine'[u], u)
  <2>1. CASE engine' = engine
    BY <2>1 DEF ClientType, ClientOwned
  <2>2. CASE engine' = [engine EXCEPT ![active] = en]
    BY <1>5, <2>2 DEF ClientType, ClientOwned
  <2> QED BY <1>1, <2>1, <2>2
<1>12. ClientType'
  BY <1>1, <1>10, <1>11 DEF ClientType
<1>13. ClientOwned'
  BY <1>1, <1>11 DEF ClientOwned, RunnerFor
<1>14. FinType'
  BY <1>1 DEF FinType, Has
<1> QED BY <1>8, <1>9, <1>12, <1>13, <1>14

LEMMA OpenOwned == ASSUME Owned, NEW rn \in Runner, OpenRunner(rn) PROVE Owned'
<1> USE DEF Owned
<1>1. /\ cur' = rn /\ opened' = opened \cup {rn} /\ Owner[rn] = active
      /\ UNCHANGED <<shared, active, saved, command, inbound, history, fin>>
  BY DEF OpenRunner
<1>2. SharedType' /\ SharedOwned' /\ OldTasksKept
  BY <1>1, SameOwned DEF history
<1>3. ClientType'
  BY <1>1 DEF ClientType, inbound, history
<1>4. ClientOwned'
  BY <1>1 DEF ClientOwned, RunnerFor, inbound
<1>5. FinType'
  BY <1>1, <1>2, FinKept
<1> QED BY <1>2, <1>3, <1>4, <1>5

LEMMA OpenFailsOwned == ASSUME Owned, OpenFails PROVE Owned'
<1> USE DEF Owned
<1>1. /\ command' = NoMessage
      /\ UNCHANGED <<shared, active, cur, saved, opened, inbound, history, fin>>
  BY DEF OpenFails
<1>2. SharedType' /\ SharedOwned' /\ OldTasksKept
  BY <1>1, SameOwned DEF history
<1>3. ClientType' /\ ClientOwned'
  BY <1>1 DEF ClientType, ClientOwned, RunnerFor, inbound, history
<1> QED BY <1>1, <1>2, <1>3, FinKept

LEMMA ResumeOwned == ASSUME Owned, NEW t \in Thread, Resume(t) PROVE Owned'
<1> USE DEF Owned
<1>1. /\ active' = t /\ cur' = saved[t]
      /\ saved' = [u \in Thread |->
                     IF u = t THEN NoRunner
                     ELSE IF u = active /\ cur # NoRunner THEN cur ELSE saved[u]]
      /\ UNCHANGED <<shared, command, opened, inbound, history, fin>>
  BY DEF Resume
<1>2. SharedType' /\ SharedOwned' /\ OldTasksKept
  BY <1>1, SameOwned DEF history
<1>3. ClientType'
  BY <1>1 DEF ClientType, inbound, history
<1>4. ASSUME NEW u \in Thread PROVE RunnerFor(saved[u], u)'
  BY <1>1 DEF ClientOwned, RunnerFor
<1>5. ClientOwned'
  BY <1>1, <1>4 DEF ClientOwned, RunnerFor, inbound
<1> QED BY <1>1, <1>2, <1>3, <1>5, FinKept

LEMMA CancelOwned == ASSUME Owned, Cancel PROVE Owned'
<1> USE DEF Owned
<1> DEFINE r == turn[active]
           k == [task[r] EXCEPT !.pc = CancelledPc(@)]
<1>1. /\ cur # NoRunner /\ r # NoRun
      /\ engine' = [engine EXCEPT ![active] = cur] /\ flag' = [flag EXCEPT ![cur] = TRUE]
      /\ task' = [task EXCEPT ![r].pc = CancelledPc(@)]
      /\ turn' = [turn EXCEPT ![active] = NoRun] /\ asked' = asked \cup {r}
      /\ UNCHANGED <<sess, lease, waiters, client, box, sent, given, applied, outcome, fin>>
  BY DEF Cancel, TurnActive
<1>2. active \in Thread /\ cur \in Runner /\ r \in Run /\ NoRun \notin Run
  BY <1>1, SessionConstants DEF ClientType, SharedType
<1>3. task[r] \in Task /\ Has(r)
  BY <1>2 DEF SharedType, SharedOwned
<1>4. /\ k \in Task /\ k.pc \in {"done", "unwinding"} /\ k.thread = task[r].thread
      /\ k.runner = task[r].runner
  BY <1>3 DEF Task, TaskPc, CancelledPc
<1>5. task' = [task EXCEPT ![r] = k]
  BY <1>1
<1> HIDE DEF k
<1>6. /\ task' \in [Run -> Task] /\ task'[r] = k /\ \A q \in Run : q # r => task'[q] = task[q]
  BY <1>2, <1>4, <1>5 DEF SharedType
<1>7. SharedType'
  BY <1>1, <1>2, <1>6 DEF SharedType
<1>8. SharedOwned'
  <2>1. \A q \in Run : (Has(q)' <=> Has(q)) /\ task'[q].thread = task[q].thread
                       /\ task'[q].runner = task[q].runner
                       /\ (task'[q].pc = "tool" => task[q] = task'[q])
    BY <1>3, <1>4, <1>6 DEF Has
  <2>2. sess' = sess /\ opened' = opened
    BY <1>1 DEF client
  <2>3. \A t \in Thread : turn'[t] \in Run => turn'[t] = turn[t]
    BY <1>1, <1>2 DEF SharedType
  <2> QED BY <2>1, <2>2, <2>3 DEF SharedOwned, RunnerFor, Has, SharedType
<1>9. ClientType' /\ ClientOwned'
  BY <1>1, <1>2 DEF ClientType, ClientOwned, RunnerFor, client
<1>10. FinType'
  BY <1>1, <1>3, <1>4, <1>6 DEF FinType, Has
<1> QED BY <1>7, <1>8, <1>9, <1>10

LEMMA WakeOwned == ASSUME Owned, WakeNext PROVE Owned'
<1> USE DEF Owned
<1> DEFINE t  == task[fin.run].thread
           w  == Head(fin.todo)
           wr == IF saved[w] # NoRunner THEN saved[w] ELSE sess[w].runner
<1>1. /\ fin.todo # <<>> /\ fin' = [fin EXCEPT !.todo = Tail(@)]
      /\ UNCHANGED <<client, inbound, sent, asked, outcome>>
      /\ IF w = t \/ (wr # NoRunner /\ TurnActive(w))
           THEN UNCHANGED <<shared, given, applied>>
           ELSE IF wr = NoRunner
             THEN /\ waiters' = [waiters EXCEPT ![KeyOf[t]] = AddedWaiter(@, w)]
                  /\ UNCHANGED <<sess, lease, turn, task, given, applied>>
             ELSE AutoStartNext(w, wr)
  BY DEF WakeNext
<1>2. /\ fin.todo \in Seq(Thread) /\ w \in Thread /\ Tail(fin.todo) \in Seq(Thread)
  BY <1>1, HeadTailProperties DEF FinType, Ending
<1>3. wr \in Runner \cup {NoRunner} /\ RunnerFor(wr, w)
  BY <1>2 DEF SharedType, SharedOwned, ClientType, ClientOwned, Session
<1> HIDE DEF t, w, wr
<1>4. ClientType' /\ ClientOwned' /\ opened' = opened
  BY <1>1 DEF ClientType, ClientOwned, RunnerFor, client, inbound
<1>5. SharedType' /\ SharedOwned' /\ OldTasksKept
  <2>1. CASE UNCHANGED <<shared, given, applied>>
    BY <1>4, <2>1, SameOwned
  <2>2. CASE /\ waiters' = [waiters EXCEPT ![KeyOf[t]] = AddedWaiter(@, w)]
             /\ UNCHANGED <<sess, lease, turn, task, given, applied>>
    <3>1. \A q \in Seq(Thread) : AddedWaiter(q, w) \in Seq(Thread)
      BY <1>2, AppendProperties DEF AddedWaiter
    <3>2. waiters' \in [Key -> Seq(Thread)]
      BY <2>2, <3>1 DEF SharedType
    <3>3. SharedType'
      BY <2>2, <3>2 DEF SharedType
    <3>4. SharedOwned' /\ OldTasksKept
      BY <1>4, <2>2 DEF SharedOwned, RunnerFor, Has, OldTasksKept
    <3> QED BY <3>3, <3>4
  <2>3. CASE wr # NoRunner /\ AutoStartNext(w, wr)
    BY <1>2, <1>3, <1>4, <2>3, AutoStartOwned
  <2> QED BY <1>1, <2>1, <2>2, <2>3
<1>6. FinType'
  <2>1. fin' \in Ending /\ fin'.run = fin.run /\ fin'.stage = fin.stage
    BY <1>1, <1>2 DEF FinType, Ending
  <2> QED BY <1>5, <2>1 DEF FinType, OldTasksKept, Has
<1> QED BY <1>4, <1>5, <1>6

LEMMA EndTurnOwned == ASSUME Owned, EndTurn PROVE Owned'
<1> USE DEF Owned
<1> DEFINE r == fin.run
           k == [task[r] EXCEPT !.pc = "done"]
<1>1. /\ fin.stage = "wake"
      /\ turn' = [turn EXCEPT ![task[r].thread] = NoRun]
      /\ engine' = [engine EXCEPT ![task[r].thread] = NoRunner]
      /\ task' = [task EXCEPT ![r].pc = "done"]
      /\ fin' \in {[fin EXCEPT !.stage = "chain"], NotEnding}
      /\ UNCHANGED <<sess, lease, waiters, client, flag, box, history>>
  BY DEF EndTurn
<1>2. r \in Run /\ Has(r) /\ task[r] \in Task /\ NoRun \notin Run
  BY <1>1, SessionConstants DEF FinType, SharedType
<1>3. /\ k \in Task /\ k.pc = "done" /\ k.thread = task[r].thread /\ k.runner = task[r].runner
  BY <1>2 DEF Task, TaskPc
<1>4. task' = [task EXCEPT ![r] = k]
  BY <1>1
<1> HIDE DEF k
<1>5. /\ task' \in [Run -> Task] /\ task'[r] = k /\ \A q \in Run : q # r => task'[q] = task[q]
  BY <1>2, <1>3, <1>4 DEF SharedType
<1>6. SharedType'
  BY <1>1, <1>5 DEF SharedType, history
<1>7. SharedOwned'
  <2>1. \A q \in Run : (Has(q)' <=> Has(q)) /\ task'[q].thread = task[q].thread
                       /\ task'[q].runner = task[q].runner
                       /\ (task'[q].pc = "tool" => task[q] = task'[q])
    BY <1>2, <1>3, <1>5 DEF Has
  <2>2. sess' = sess /\ opened' = opened
    BY <1>1 DEF client
  <2>3. \A t \in Thread : turn'[t] \in Run => turn'[t] = turn[t]
    BY <1>1, <1>2 DEF SharedType
  <2> QED BY <2>1, <2>2, <2>3 DEF SharedOwned, RunnerFor, Has, SharedType
<1>8. ClientType' /\ ClientOwned'
  BY <1>1 DEF ClientType, ClientOwned, RunnerFor, client, history
<1>9. FinType'
  <2>1. NotEnding \in Ending /\ NotEnding.stage = "idle"
    BY EmptySeq DEF NotEnding, Ending
  <2>2. [fin EXCEPT !.stage = "chain"] \in Ending /\ [fin EXCEPT !.stage = "chain"].run = r
    BY DEF FinType, Ending
  <2> QED BY <1>1, <1>2, <1>3, <1>5, <2>1, <2>2 DEF FinType, Has
<1> QED BY <1>6, <1>7, <1>8, <1>9

LEMMA ChainOwned == ASSUME Owned, Chain PROVE Owned'
<1> USE DEF Owned
<1> DEFINE t == task[fin.run].thread
           x == task[fin.run].runner
<1>1. /\ fin.stage = "chain" /\ AutoStartNext(t, x) /\ fin' = NotEnding
      /\ UNCHANGED <<client, inbound, sent, asked, outcome>>
  BY DEF Chain
<1>2. t \in Thread /\ x \in Runner /\ RunnerFor(x, t)
  BY <1>1 DEF FinType, SharedOwned
<1>3. ClientType' /\ ClientOwned' /\ opened' = opened
  BY <1>1 DEF ClientType, ClientOwned, RunnerFor, client, inbound
<1>4. SharedType' /\ SharedOwned'
  BY <1>1, <1>2, <1>3, AutoStartOwned
<1>5. FinType'
  BY <1>1, EmptySeq DEF FinType, NotEnding, Ending
<1> QED BY <1>3, <1>4, <1>5

LEMMA UserStartOwned == ASSUME Owned, UserStart PROVE Owned'
<1> USE DEF Owned
<1>1. /\ cur # NoRunner /\ command' = NoMessage
      /\ saved' \in {[saved EXCEPT ![active] = cur], saved}
      /\ engine' \in {[engine EXCEPT ![active] = cur], engine}
      /\ UNCHANGED <<active, cur, opened, flag, box, sent, asked, outcome, fin>>
      /\ \/ UNCHANGED <<shared, given, applied>>
         \/ TryStart(active, cur, Writes(command), "opening")
  BY DEF UserStart, CommandBusy
<1>2. active \in Thread /\ cur \in Runner /\ RunnerFor(cur, active)
  BY <1>1 DEF ClientType, ClientOwned
<1>3. SharedType' /\ SharedOwned' /\ OldTasksKept
  <2>1. CASE UNCHANGED <<shared, given, applied>>
    BY <1>1, <2>1, SameOwned
  <2>2. CASE TryStart(active, cur, Writes(command), "opening")
    BY <1>1, <1>2, <2>2, TryStartOwned
  <2> QED BY <1>1, <2>1, <2>2
<1>4. /\ saved' \in [Thread -> Runner \cup {NoRunner}]
      /\ engine' \in [Thread -> Runner \cup {NoRunner}]
      /\ \A u \in Thread : RunnerFor(saved'[u], u) /\ RunnerFor(engine'[u], u)
  BY <1>1, <1>2 DEF ClientType, ClientOwned
<1>5. ClientType'
  BY <1>1, <1>4 DEF ClientType
<1>6. ClientOwned'
  BY <1>1, <1>4 DEF ClientOwned, RunnerFor
<1> QED BY <1>1, <1>3, <1>5, <1>6, FinKept

LEMMA InitOwned == Init => Owned
<1> SUFFICES ASSUME Init PROVE Owned
  OBVIOUS
<1> USE DEF Init
<1>1. NewSession \in Session /\ NewSession.runner = NoRunner /\ NewSession.pending = <<>>
      /\ NewSession.run = NoRun
  BY EmptySeq DEF NewSession, Session, Phase
<1>2. NoTask \in Task /\ NoTask.pc = "none"
  BY WireConstants DEF NoTask, Task, TaskPc
<1>3. SharedType
  BY <1>1, <1>2, EmptySeq DEF SharedType
<1>4. SharedOwned
  BY <1>1, <1>2, SessionConstants DEF SharedOwned, RunnerFor, Has
<1>5. ClientType /\ ClientOwned
  BY EmptySeq DEF ClientType, ClientOwned, RunnerFor
<1>6. FinType
  BY EmptySeq DEF FinType, NotEnding, Ending
<1> QED BY <1>3, <1>4, <1>5, <1>6 DEF Owned

LEMMA NextOwned == ASSUME Owned, [Next]_vars PROVE Owned'
<1>1. CASE \E m \in Message, d \in Delivery : InputSend(m, d)
  BY <1>1, SendOwned
<1>2. CASE \E t \in Thread : Resume(t)
  BY <1>2, ResumeOwned
<1>3. CASE Cancel
  BY <1>3, CancelOwned
<1>4. CASE OpenFails
  BY <1>4, OpenFailsOwned
<1>5. CASE \E rn \in Runner : OpenRunner(rn)
  BY <1>5, OpenOwned
<1>6. CASE \E r \in Run : Step(r)
  BY <1>6, StepOwned
<1>7. CASE WakeNext
  BY <1>7, WakeOwned
<1>8. CASE EndTurn
  BY <1>8, EndTurnOwned
<1>9. CASE Chain
  BY <1>9, ChainOwned
<1>10. CASE UserStart
  BY <1>10, UserStartOwned
<1>11. CASE UNCHANGED vars
  BY <1>11 DEF vars, shared, client, inbound, history, Owned, SharedType, SharedOwned,
               ClientType, ClientOwned, FinType, RunnerFor, Has
<1> QED BY <1>1, <1>2, <1>3, <1>4, <1>5, <1>6, <1>7, <1>8, <1>9, <1>10, <1>11 DEF Next, EventLoop

LEMMA AlwaysOwned == Spec => []Owned
<1>1. Owned /\ [Next]_vars => Owned'
  BY NextOwned
<1> QED BY <1>1, InitOwned, PTL DEF Spec

\* Every variable of the wire process has its type, and a Run does at most
\* max_turns tool batches (loop_core.run_event_loop).
THEOREM WireTypeCorrect == Spec => []TypeOK
<1>1. Owned => TypeOK
  BY DEF Owned, SharedType, ClientType, FinType, TypeOK
<1> QED BY <1>1, AlwaysOwned, PTL

-----------------------------------------------------------------------------
(* Every runner there is stays within reach of the client *)

\* Every runner there is is kept by the client's loop or by its registry, so a
\* thread has one at most.
RunnersKept ==
  \A x \in opened : x = IF Owner[x] = active THEN cur ELSE saved[Owner[x]]

LEMMA OneRunner ==
  ASSUME RunnersKept, NEW x \in opened, NEW y \in opened, Owner[x] = Owner[y]
  PROVE  x = y
BY DEF RunnersKept

LEMMA ClientSame ==
  ASSUME RunnersKept, UNCHANGED <<active, cur, saved, opened>>
  PROVE  RunnersKept'
BY DEF RunnersKept

LEMMA ResumeKept ==
  ASSUME NoReopen, Owned, RunnersKept, NEW t \in Thread, Resume(t)
  PROVE  RunnersKept'
<1>1. /\ t # active /\ active' = t /\ cur' = saved[t] /\ opened' = opened
      /\ saved' = [u \in Thread |->
                     IF u = t THEN NoRunner
                     ELSE IF u = active /\ cur # NoRunner THEN cur ELSE saved[u]]
  BY DEF Resume, NoReopen
<1>2. ASSUME NEW x \in opened
      PROVE  x = IF Owner[x] = active' THEN cur' ELSE saved'[Owner[x]]
  <2>1. Owner[x] \in Thread /\ x # NoRunner
    BY SessionConstants, WireConstants DEF Owned, ClientType
  <2>2. CASE Owner[x] = active
    BY <1>1, <2>1, <2>2 DEF RunnersKept
  <2>3. CASE Owner[x] # active
    BY <1>1, <2>1, <2>3 DEF RunnersKept
  <2> QED BY <2>2, <2>3
<1> QED BY <1>1, <1>2 DEF RunnersKept

LEMMA OpenKept ==
  ASSUME Owned, RunnersKept, NEW rn \in Runner, OpenRunner(rn)
  PROVE  RunnersKept'
<1>1. /\ cur = NoRunner /\ rn \notin opened /\ Owner[rn] = active
      /\ cur' = rn /\ opened' = opened \cup {rn} /\ UNCHANGED <<active, saved>>
  BY DEF OpenRunner
<1>2. \A x \in opened : Owner[x] # active
  BY <1>1, SessionConstants DEF RunnersKept, Owned, ClientType
<1> QED BY <1>1, <1>2 DEF RunnersKept

LEMMA UserStartKept ==
  ASSUME Owned, RunnersKept, UserStart
  PROVE  RunnersKept'
<1>1. /\ saved' \in {[saved EXCEPT ![active] = cur], saved}
      /\ UNCHANGED <<active, cur, opened>>
  BY DEF UserStart
<1>2. ASSUME NEW x \in opened, Owner[x] # active PROVE saved'[Owner[x]] = saved[Owner[x]]
  BY <1>1, <1>2, WireConstants DEF Owned, ClientType
<1> QED BY <1>1, <1>2 DEF RunnersKept

LEMMA StepKept ==
  ASSUME RunnersKept, NEW r \in Run, Step(r)
  PROVE  RunnersKept'
<1>1. CASE Begin(r) \/ FirstEvent(r)
  BY <1>1, ClientSame DEF Begin, FirstEvent, StopAtCheckpoint, EndLoop, Continue, client
<1>2. ASSUME NEW tools \in BOOLEAN, ModelReturns(r, tools) PROVE RunnersKept'
  BY <1>2, ClientSame DEF ModelReturns, StopAtCheckpoint, EndLoop, Continue, client
<1>3. CASE ToolsReturn(r)
  BY <1>3, ClientSame DEF ToolsReturn, StopAtCheckpoint, EndLoop, Continue, client
<1>4. CASE Fail(r) \/ Unwound(r)
  BY <1>4, ClientSame DEF Fail, Unwound, EndLoop, client
<1> QED BY <1>1, <1>2, <1>3, <1>4 DEF Step

LEMMA NextKept ==
  ASSUME NoReopen, Owned, RunnersKept, [Next]_vars
  PROVE  RunnersKept'
<1>1. ASSUME NEW m \in Message, NEW d \in Delivery, InputSend(m, d) PROVE RunnersKept'
  BY <1>1, ClientSame DEF InputSend
<1>2. CASE Cancel \/ WakeNext \/ EndTurn \/ Chain
  BY <1>2, ClientSame DEF Cancel, WakeNext, EndTurn, Chain, client
<1>3. CASE OpenFails
  BY <1>3, ClientSame DEF OpenFails
<1>4. CASE UNCHANGED vars
  BY <1>4, ClientSame DEF vars, client
<1> QED BY <1>1, <1>2, <1>3, <1>4, ResumeKept, OpenKept, UserStartKept, StepKept DEF Next, EventLoop

-----------------------------------------------------------------------------
(* An input is in one place *)

\* The inputs that wait in thread t.
Held(t) == ToSet(sess[t].queue) \cup ToSet(sess[t].pending)

\* The inputs that wait in a session are apart from each other, and no queued
\* one is among those the Runs got.
SessionPlaced(s, got) ==
  /\ IsInjective(s.queue) /\ IsInjective(s.pending)
  /\ ToSet(s.queue) \cap ToSet(s.pending) = {}
  /\ ToSet(s.queue) \cap got = {}

\* The mailbox of a runner holds the pending inputs that were not read yet.
BoxPlaced(x) ==
  /\ IsInjective(box[x])
  /\ x \in opened => ToSet(box[x]) = ToSet(sess[Owner[x]].pending) \ ToSet(given)
  /\ x \notin opened => box[x] = <<>>

InputsPlaced ==
  /\ NoInputLost /\ GivenOnce /\ AppliedWasGiven
  /\ \A t \in Thread : SessionPlaced(sess[t], ToSet(given))
  /\ \A t, u \in Thread : t # u => Held(t) \cap Held(u) = {}
  /\ \A x \in Runner : BoxPlaced(x)

Apart == Owned /\ RunnersKept /\ InputsPlaced

\* What waits in a thread, or was given, was sent.
LEMMA HeldWasSent ==
  ASSUME NoInputLost, NEW t \in Thread
  PROVE  Held(t) \subseteq sent /\ ToSet(given) \subseteq sent
BY DEF NoInputLost, Held

\* A step of one thread, in which the inputs N are new.
ThreadStep(t, N) ==
  /\ N \cap sent = {} /\ sent' = sent \cup N
  /\ opened' = opened /\ \A u \in Thread : u # t => sess'[u] = sess[u]
  /\ ToSet(given) \subseteq ToSet(given') /\ ToSet(given') \subseteq ToSet(given) \cup Held(t)
  /\ IsInjective(given') /\ applied' \subseteq ToSet(given')
  /\ SessionPlaced(sess'[t], ToSet(given'))
  /\ Held(t)' \subseteq Held(t) \cup N
  /\ Held(t)' \cup ToSet(given') = Held(t) \cup N \cup ToSet(given)
  /\ \A x \in Runner : x \in opened /\ Owner[x] = t => BoxPlaced(x)'
  /\ \A x \in Runner : ~(x \in opened /\ Owner[x] = t) => box'[x] = box[x]

LEMMA ThreadStepPlaced ==
  ASSUME InputsPlaced, NEW t \in Thread, NEW N, ThreadStep(t, N)
  PROVE  InputsPlaced'
<1> USE DEF InputsPlaced, ThreadStep
<1> DEFINE G == ToSet(given)
           H == ToSet(given')
<1>1. /\ sent = G \cup UNION {Held(u) : u \in Thread}
      /\ G \subseteq H /\ H \subseteq G \cup Held(t)
  BY DEF NoInputLost, Held
<1>2. \A u \in Thread : u # t => Held(u)' = Held(u) /\ Held(u) \cap Held(t) = {}
  BY DEF Held
<1>3. \A u \in Thread : Held(u) \subseteq sent
  BY HeldWasSent
<1>4. NoInputLost'
  <2>1. sent' = H \cup UNION {Held(u)' : u \in Thread}
    <3>1. \A m : m \in sent' <=> m \in G \/ m \in N \/ \E u \in Thread : m \in Held(u)
      BY <1>1
    <3>2. \A m : (\E u \in Thread : m \in Held(u)) <=>
                   m \in Held(t) \/ \E u \in Thread : u # t /\ m \in Held(u)
      OBVIOUS
    <3>3. \A m : (\E u \in Thread : m \in Held(u)') <=>
                   m \in Held(t)' \/ \E u \in Thread : u # t /\ m \in Held(u)
      BY <1>2
    <3>4. \A m : m \in Held(t)' \/ m \in H <=> m \in Held(t) \/ m \in N \/ m \in G
      OBVIOUS
    <3>5. \A m : m \in sent' <=> m \in H \/ \E u \in Thread : m \in Held(u)'
      BY <3>1, <3>2, <3>3, <3>4
    <3> QED BY <3>5
  <2> QED BY <2>1 DEF NoInputLost, Held
<1>5. GivenOnce' /\ AppliedWasGiven'
  BY DEF GivenOnce, AppliedWasGiven
<1>6. ASSUME NEW u \in Thread PROVE SessionPlaced(sess'[u], H)
  <2>1. CASE u = t
    BY <2>1
  <2>2. CASE u # t
    <3>1. sess'[u] = sess[u] /\ SessionPlaced(sess[u], G)
      BY <2>2
    <3>2. ToSet(sess[u].queue) \cap H = {}
      BY <1>1, <1>2, <2>2, <3>1 DEF SessionPlaced, Held
    <3> QED BY <3>1, <3>2 DEF SessionPlaced
  <2> QED BY <2>1, <2>2
<1>7. ASSUME NEW u \in Thread, NEW v \in Thread, u # v PROVE Held(u)' \cap Held(v)' = {}
  <2>1. \A w \in Thread : w # t => Held(w)' \cap Held(t)' = {}
    BY <1>2, <1>3
  <2> QED BY <1>2, <1>7, <2>1
<1>8. ASSUME NEW x \in Runner PROVE BoxPlaced(x)'
  <2>1. CASE x \in opened /\ Owner[x] = t
    BY <2>1
  <2>2. CASE x \in opened /\ Owner[x] # t
    <3>1. Owner[x] \in Thread /\ box'[x] = box[x] /\ sess'[Owner[x]] = sess[Owner[x]]
      BY <2>2, WireConstants
    <3>2. IsInjective(box[x]) /\ ToSet(box[x]) = ToSet(sess[Owner[x]].pending) \ G
      BY <2>2 DEF BoxPlaced
    <3>3. ToSet(sess[Owner[x]].pending) \ G = ToSet(sess[Owner[x]].pending) \ H
      BY <1>1, <1>2, <2>2, <3>1 DEF Held
    <3> QED BY <2>2, <3>1, <3>2, <3>3 DEF BoxPlaced
  <2>3. CASE x \notin opened
    BY <2>3 DEF BoxPlaced
  <2> QED BY <2>1, <2>2, <2>3
<1> QED BY <1>4, <1>5, <1>6, <1>7, <1>8

\* No input moves.
LEMMA NothingMoves ==
  ASSUME InputsPlaced, UNCHANGED <<sess, given, applied, sent, box, opened>>
  PROVE  InputsPlaced'
BY DEF InputsPlaced, NoInputLost, GivenOnce, AppliedWasGiven, BoxPlaced, Held

\* A Run starts with the first queued input of its thread.
LEMMA LaunchPlaced ==
  ASSUME Apart, UNCHANGED <<opened, sent, box>>, NEW t \in Thread, NEW rn \in Runner, NEW write,
         NEW pc, CanStart(sess[t]), Launch(t, rn, write, pc)
  PROVE  InputsPlaced'
<1> USE DEF Apart
<1> DEFINE s == sess[t]
           m == Head(s.queue)
           G == ToSet(given)
           H == ToSet(given')
<1>1. PICK r \in NewRunIds :
        /\ sess' = [sess EXCEPT ![t] = Frozen(Started(@, r, rn), r)]
        /\ given' = Append(given, m) /\ applied' = applied \cup {m}
  BY DEF Launch
<1>2. /\ s \in Session /\ s.queue \in Seq(Message) /\ s.queue # <<>> /\ r \in Run
      /\ given \in Seq(Message) /\ sess \in [Thread -> Session]
  BY DEF CanStart, Session, Owned, SharedType, NewRunIds
<1> DEFINE e == Frozen(Started(s, r, rn), r)
<1>3. e.queue = Tail(s.queue) /\ e.pending = s.pending
  BY <1>2, LaunchedFields
<1>4. sess'[t] = e /\ \A u \in Thread : u # t => sess'[u] = sess[u]
  BY <1>1, <1>2
<1> HIDE DEF e
<1>5. /\ m \in Message /\ ToSet(s.queue) = {m} \cup ToSet(Tail(s.queue))
      /\ H = G \cup {m}
  <2>1. m \in Message
    BY <1>2, HeadTailProperties
  <2> QED BY <1>1, <1>2, <2>1, ToSetOfTail, ToSetOfAppend
<1>6. /\ SessionPlaced(s, G) /\ IsInjective(given) /\ applied \subseteq G
  BY DEF InputsPlaced, GivenOnce, AppliedWasGiven
<1>7. m \notin G /\ m \notin ToSet(s.pending) /\ m \notin ToSet(Tail(s.queue))
      /\ IsInjective(Tail(s.queue))
  BY <1>2, <1>5, <1>6, HeadNotInTail, InjectiveTail DEF SessionPlaced
<1>8. IsInjective(given')
  BY <1>1, <1>2, <1>5, <1>6, <1>7, InjectiveAppend DEF InputsPlaced, GivenOnce
<1> HIDE DEF m, s, G, H
<1>9. Held(t) = ToSet(s.queue) \cup ToSet(s.pending)
  BY DEF Held, s
<1>10. Held(t)' = ToSet(Tail(s.queue)) \cup ToSet(s.pending)
  BY <1>3, <1>4 DEF Held
<1>11. SessionPlaced(sess'[t], H)
  BY <1>3, <1>4, <1>5, <1>6, <1>7 DEF SessionPlaced
<1>12. ASSUME NEW x \in Runner, x \in opened, Owner[x] = t PROVE BoxPlaced(x)'
  <2>1. IsInjective(box[x]) /\ ToSet(box[x]) = ToSet(s.pending) \ G
    BY <1>12 DEF BoxPlaced, InputsPlaced, s, G
  <2>2. ToSet(s.pending) \ G = ToSet(s.pending) \ H
    BY <1>5, <1>7
  <2>3. sess'[t].pending = s.pending
    BY <1>3, <1>4
  <2> QED BY <1>12, <2>1, <2>2, <2>3 DEF BoxPlaced, H
<1>13. /\ G \subseteq H /\ H \subseteq G \cup Held(t) /\ applied' \subseteq H
       /\ Held(t)' \subseteq Held(t) /\ Held(t)' \cup H = Held(t) \cup G
  BY <1>1, <1>5, <1>6, <1>9, <1>10
<1>14. ThreadStep(t, {})
  BY <1>4, <1>8, <1>11, <1>12, <1>13 DEF ThreadStep, G, H
<1> QED BY <1>14, ThreadStepPlaced

LEMMA TryStartPlaced ==
  ASSUME Apart, UNCHANGED <<opened, sent, box>>, NEW t \in Thread, NEW rn \in Runner, NEW write,
         NEW pc, TryStart(t, rn, write, pc)
  PROVE  InputsPlaced'
<1>1. CASE LeaseBlocks(t, write)
  BY <1>1, NothingMoves DEF TryStart, Park, Apart
<1>2. CASE ~LeaseBlocks(t, write) /\ CanStart(sess[t])
  BY <1>2, LaunchPlaced DEF TryStart
<1>3. CASE ~LeaseBlocks(t, write) /\ ~CanStart(sess[t])
  BY <1>3, NothingMoves DEF TryStart, shared, Apart
<1> QED BY <1>1, <1>2, <1>3

LEMMA AutoStartPlaced ==
  ASSUME Apart, UNCHANGED <<opened, sent, box>>, NEW t \in Thread, NEW rn \in Runner,
         AutoStartNext(t, rn)
  PROVE  InputsPlaced'
<1>1. CASE sess[t].queue = <<>>
  BY <1>1, NothingMoves DEF AutoStartNext, shared, Apart
<1>2. CASE sess[t].queue # <<>>
  BY <1>2, TryStartPlaced DEF AutoStartNext
<1> QED BY <1>1, <1>2

\* An input is routed: an immediate one also goes to the mailbox of the runner.
LEMMA SendPlaced ==
  ASSUME Apart, NEW m \in Message, NEW d \in Delivery, InputSend(m, d)
  PROVE  InputsPlaced'
<1> USE DEF Apart
<1> DEFINE s  == sess[active]
           en == IF cur # NoRunner THEN cur ELSE engine[active]
           rn == IF en # NoRunner THEN en ELSE s.runner
           n  == Routed(s, m, d)
           G  == ToSet(given)
           P  == ToSet(s.pending)
<1>1. /\ m \notin sent /\ sess' = [sess EXCEPT ![active] = n] /\ sent' = sent \cup {m}
      /\ RoutedToPending(s, d) =>
           box' = IF rn = NoRunner THEN box ELSE [box EXCEPT ![rn] = Append(@, m)]
      /\ ~RoutedToPending(s, d) => box' = box
      /\ UNCHANGED <<opened, given, applied>>
  BY DEF InputSend
<1>2. /\ active \in Thread /\ s \in Session /\ s.queue \in Seq(Message)
      /\ s.pending \in Seq(Message) /\ box \in [Runner -> Seq(Message)]
      /\ sess \in [Thread -> Session]
  BY DEF Owned, ClientType, SharedType, Session
<1>3. /\ SessionPlaced(s, G) /\ IsInjective(given) /\ applied \subseteq G
  BY <1>2 DEF InputsPlaced, GivenOnce, AppliedWasGiven
<1>4. /\ RoutedToPending(s, d) => n.queue = s.queue /\ n.pending = Append(s.pending, m)
      /\ ~RoutedToPending(s, d) => n.queue = Append(s.queue, m) /\ n.pending = s.pending
  BY <1>2, RoutedFields
<1>5. sess'[active] = n /\ \A u \in Thread : u # active => sess'[u] = sess[u]
  BY <1>1, <1>2
<1>6. RoutedToPending(s, d) => rn \in Runner /\ rn \in opened /\ Owner[rn] = active
  <2>1. RoutedToPending(s, d) => s.runner # NoRunner
    BY <1>2 DEF RoutedToPending, HasActiveRun, Owned, SharedOwned
  <2>2. RunnerFor(cur, active) /\ RunnerFor(engine[active], active) /\ RunnerFor(s.runner, active)
    BY <1>2 DEF Owned, SharedOwned, ClientOwned
  <2>3. /\ cur \in Runner \cup {NoRunner} /\ engine[active] \in Runner \cup {NoRunner}
        /\ s.runner \in Runner \cup {NoRunner}
    BY <1>2 DEF Owned, ClientType, Session
  <2> QED BY <2>1, <2>2, <2>3 DEF RunnerFor
<1>7. Held(active) = ToSet(s.queue) \cup P /\ m \notin Held(active) /\ m \notin G
  <2>1. NoInputLost
    BY DEF InputsPlaced
  <2> QED BY <1>1, <1>2, <2>1, HeldWasSent DEF Held
<1>8. /\ ToSet(Append(s.queue, m)) = ToSet(s.queue) \cup {m} /\ IsInjective(Append(s.queue, m))
      /\ ToSet(Append(s.pending, m)) = P \cup {m} /\ IsInjective(Append(s.pending, m))
  BY <1>2, <1>3, <1>7, ToSetOfAppend, InjectiveAppend DEF SessionPlaced
<1> HIDE DEF n, rn, G
<1>9. Held(active)' = Held(active) \cup {m} /\ SessionPlaced(sess'[active], G)
  <2>1. Held(active)' = ToSet(n.queue) \cup ToSet(n.pending)
    <3>1. active' = active
      BY DEF InputSend
    <3>2. Held(active)' = ToSet(sess'[active].queue) \cup ToSet(sess'[active].pending)
      BY <3>1 DEF Held
    <3> QED BY <1>5, <3>2
  <2>2. CASE RoutedToPending(s, d)
    <3>1. n.queue = s.queue /\ ToSet(n.pending) = P \cup {m} /\ IsInjective(n.pending)
      BY <1>4, <1>8, <2>2
    <3> QED BY <1>3, <1>5, <1>7, <2>1, <3>1 DEF SessionPlaced
  <2>3. CASE ~RoutedToPending(s, d)
    <3>1. n.pending = s.pending /\ ToSet(n.queue) = ToSet(s.queue) \cup {m} /\ IsInjective(n.queue)
      BY <1>4, <1>8, <2>3
    <3> QED BY <1>3, <1>5, <1>7, <2>1, <3>1 DEF SessionPlaced
  <2> QED BY <2>2, <2>3
<1>10. ASSUME NEW x \in Runner, x \in opened, Owner[x] = active PROVE BoxPlaced(x)'
  <2>1. IsInjective(box[x]) /\ ToSet(box[x]) = P \ G /\ box[x] \in Seq(Message)
    BY <1>2, <1>10 DEF BoxPlaced, InputsPlaced, G
  <2>2. CASE RoutedToPending(s, d)
    <3>1. rn = x
      BY <1>6, <1>10, <2>2, OneRunner
    <3>2. box'[x] = Append(box[x], m)
      BY <1>1, <1>2, <1>6, <1>10, <2>2, <3>1, SessionConstants
    <3>3. IsInjective(box'[x]) /\ ToSet(box'[x]) = (P \cup {m}) \ G
      BY <1>7, <2>1, <3>2, ToSetOfAppend, InjectiveAppend
    <3>4. sess'[active].pending = Append(s.pending, m)
      BY <1>4, <1>5, <2>2
    <3>5. ToSet(sess'[active].pending) = P \cup {m}
      BY <1>8, <3>4
    <3> QED BY <1>1, <1>10, <3>3, <3>5 DEF BoxPlaced, G
  <2>3. CASE ~RoutedToPending(s, d)
    <3>1. box'[x] = box[x] /\ sess'[active].pending = s.pending
      BY <1>1, <1>4, <1>5, <2>3
    <3> QED BY <1>1, <1>10, <2>1, <3>1 DEF BoxPlaced, G
  <2> QED BY <2>2, <2>3
<1>11. \A x \in Runner : ~(x \in opened /\ Owner[x] = active) => box'[x] = box[x]
  BY <1>1, <1>2, <1>6
<1>12. ThreadStep(active, {m})
  BY <1>1, <1>3, <1>5, <1>7, <1>9, <1>10, <1>11 DEF ThreadStep, G
<1> QED BY <1>2, <1>12, ThreadStepPlaced

\* What a Run finds in its mailbox.
LEMMA MailPlaced ==
  ASSUME Apart, NEW r \in Run, Live(r)
  PROVE  /\ task[r].thread \in Thread /\ task[r].runner \in opened
         /\ Owner[task[r].runner] = task[r].thread
         /\ Mail(r) \in Seq(Message) /\ given \in Seq(Message)
         /\ ToSet(Mail(r)) = ToSet(SessionOf(r).pending) \ ToSet(given)
         /\ IsInjective(given \o Mail(r))
         /\ ToSet(given \o Mail(r)) = ToSet(given) \cup ToSet(SessionOf(r).pending)
<1> USE DEF Apart
<1> DEFINE x == task[r].runner
           P == ToSet(SessionOf(r).pending)
<1>1. task[r].thread \in Thread /\ x \in Runner /\ RunnerFor(x, task[r].thread)
  BY DEF Owned, SharedOwned, Has, Live, LivePc
<1>2. x \in opened /\ Owner[x] = task[r].thread
  BY <1>1, SessionConstants DEF RunnerFor
<1>3. Mail(r) \in Seq(Message) /\ given \in Seq(Message)
  BY ReadMailTypes DEF Owned, SharedType
<1>4. IsInjective(Mail(r)) /\ ToSet(Mail(r)) = P \ ToSet(given)
  BY <1>1, <1>2 DEF InputsPlaced, BoxPlaced, Mail, SessionOf
<1>5. IsInjective(given)
  BY DEF InputsPlaced, GivenOnce
<1>6. IsInjective(given \o Mail(r))
  BY <1>3, <1>4, <1>5, InjectiveConcat
<1>7. ToSet(given \o Mail(r)) = ToSet(given) \cup P
  BY <1>3, <1>4, ToSetOfConcat
<1> QED BY <1>1, <1>2, <1>3, <1>4, <1>6, <1>7

\* A Run ends: the pending inputs it did not read go back to the queue.
LEMMA EndPlaced ==
  ASSUME Apart, NEW r \in Run, Live(r), NEW s \in Session, s.queue = SessionOf(r).queue,
         s.pending = SessionOf(r).pending, NEW id, NEW o \in Phase, NEW mail \in Seq(Message),
         EndLoop(r, id, s, o, mail), IsInjective(given'), ToSet(given) \subseteq ToSet(given'),
         ToSet(given') \subseteq ToSet(given) \cup ToSet(s.pending),
         ToSet(mail) = ToSet(s.pending) \ ToSet(given')
  PROVE  InputsPlaced'
<1> USE DEF Apart
<1>0. PICK t \in Thread : t = task[r].thread
  BY MailPlaced
<1> DEFINE x == task[r].runner
           G == ToSet(given)
           H == ToSet(given')
           P == ToSet(s.pending)
           Q == ToSet(s.queue)
           U == ToSet(mail)
           back == Only(s.pending, U)
           e == FinishedSession(s, U, id, o)
<1>1. /\ sess' = [sess EXCEPT ![t] = e] /\ box' = [box EXCEPT ![x] = <<>>]
      /\ applied' = applied \cup ToSet(Only(s.pending, P \ U))
      /\ opened' = opened /\ sent' = sent
  BY <1>0 DEF EndLoop, ReadOf, client
<1>2. x \in opened /\ Owner[x] = t
  BY <1>0, MailPlaced
<1>3. /\ sess \in [Thread -> Session] /\ box \in [Runner -> Seq(Message)]
      /\ x \in Runner /\ s.queue \in Seq(Message) /\ s.pending \in Seq(Message)
  BY <1>2 DEF Owned, SharedType, ClientType, Session
<1>4. sess'[t] = e /\ \A u \in Thread : u # t => sess'[u] = sess[u]
  BY <1>1, <1>2, <1>3
<1>5. e.pending = <<>> /\ e.queue = back \o s.queue
  <2>1. IsFinished(e, s, U)
    BY FinishedFields
  <2> QED BY <2>1 DEF IsFinished
<1>6. /\ SessionPlaced(sess[t], G) /\ applied \subseteq G
  BY DEF InputsPlaced, AppliedWasGiven
<1>7. /\ IsInjective(s.queue) /\ IsInjective(s.pending) /\ Q \cap P = {} /\ Q \cap G = {}
  BY <1>0, <1>6 DEF SessionPlaced, SessionOf
<1>8. /\ back \in Seq(Message) /\ ToSet(back) = P \cap U /\ IsInjective(back)
      /\ ToSet(Only(s.pending, P \ U)) = P \cap (P \ U)
  BY <1>3, <1>7, OnlyMembers
<1>9. /\ ToSet(back \o s.queue) = (P \cap U) \cup Q
      /\ IsInjective(back \o s.queue)
  <2>1. ToSet(back \o s.queue) = (P \cap U) \cup Q
    <3>1. ToSet(back \o s.queue) = ToSet(back) \cup ToSet(s.queue)
      BY <1>3, <1>8, ToSetOfConcat
    <3> QED BY <1>8, <3>1
  <2>2. ToSet(back) \cap ToSet(s.queue) = {}
    BY <1>7, <1>8
  <2>3. IsInjective(back \o s.queue)
    BY <1>3, <1>7, <1>8, <2>2, InjectiveConcat
  <2> QED BY <2>1, <2>3
<1>10. IsInjective(<<>>)
  BY DEF IsInjective
<1> HIDE DEF e, back, x
<1>11. Held(t) = Q \cup P /\ Held(t)' = (P \cap U) \cup Q
  <2>1. Held(t) = Q \cup P
    BY <1>0 DEF Held, SessionOf
  <2>2. Held(t)' = ToSet(e.queue) \cup ToSet(e.pending)
    BY <1>4 DEF Held
  <2> QED BY <1>5, <1>9, <2>1, <2>2, ToSetOfEmpty
<1>12. SessionPlaced(sess'[t], H)
  BY <1>4, <1>5, <1>7, <1>9, <1>10, ToSetOfEmpty DEF SessionPlaced
<1>13. ASSUME NEW y \in Runner, y \in opened, Owner[y] = t PROVE BoxPlaced(y)'
  <2>1. y = x
    BY <1>2, <1>13, OneRunner
  <2>2. box'[y] = <<>> /\ sess'[Owner[y]].pending = <<>>
    BY <1>1, <1>3, <1>4, <1>5, <1>13, <2>1
  <2> QED BY <1>1, <1>10, <1>13, <2>2, ToSetOfEmpty DEF BoxPlaced
<1>14. \A y \in Runner : ~(y \in opened /\ Owner[y] = t) => box'[y] = box[y]
  BY <1>1, <1>2, <1>3
<1>15. applied' \subseteq H
  BY <1>1, <1>6, <1>8
<1>16. ThreadStep(t, {})
  BY <1>1, <1>4, <1>11, <1>12, <1>13, <1>14, <1>15 DEF ThreadStep
<1> QED BY <1>16, ThreadStepPlaced

\* A Run goes on, and may have read its mailbox.
LEMMA ContinuePlaced ==
  ASSUME Apart, NEW r \in Run, Live(r), NEW s \in Session, s.queue = SessionOf(r).queue,
         s.pending = SessionOf(r).pending, NEW pc, NEW n, Continue(r, s, pc, n),
         ReadMail(r) \/ UNCHANGED <<given, box>>
  PROVE  InputsPlaced'
<1> USE DEF Apart
<1>0. PICK t \in Thread : t = task[r].thread
  BY MailPlaced
<1> DEFINE x == task[r].runner
           G == ToSet(given)
           H == ToSet(given')
           P == ToSet(s.pending)
<1>1. /\ sess' = [sess EXCEPT ![t] = s] /\ UNCHANGED <<applied, opened, sent>>
  BY <1>0 DEF Continue, client
<1>2. x \in opened /\ Owner[x] = t
  BY <1>0, MailPlaced
<1>3. /\ sess \in [Thread -> Session] /\ box \in [Runner -> Seq(Message)] /\ x \in Runner
  BY <1>2 DEF Owned, SharedType, ClientType
<1>4. sess'[t] = s /\ \A u \in Thread : u # t => sess'[u] = sess[u]
  BY <1>1, <1>2, <1>3
<1>5. SessionPlaced(sess[t], G) /\ applied \subseteq G /\ IsInjective(given)
  BY DEF InputsPlaced, AppliedWasGiven, GivenOnce
<1>6. IsInjective(given') /\ G \subseteq H /\ H \subseteq G \cup P
  <2>1. CASE UNCHANGED <<given, box>>
    BY <1>5, <2>1
  <2>2. CASE ReadMail(r)
    BY <2>2, MailPlaced DEF ReadMail
  <2> QED BY <2>1, <2>2
<1> HIDE DEF x
<1>7. Held(t) = ToSet(s.queue) \cup P /\ Held(t)' = Held(t)
  BY <1>0, <1>4 DEF Held, SessionOf
<1>8. SessionPlaced(sess'[t], H)
  BY <1>0, <1>4, <1>5, <1>6 DEF SessionPlaced, SessionOf
<1>9. ASSUME NEW y \in Runner, y \in opened, Owner[y] = t PROVE BoxPlaced(y)'
  <2>1. y = x
    BY <1>2, <1>9, OneRunner
  <2>2. sess'[Owner[y]].pending = s.pending
    BY <1>4, <1>9
  <2>3. IsInjective(box'[y]) /\ ToSet(box'[y]) = P \ H
    <3>1. CASE UNCHANGED <<given, box>>
      BY <1>0, <1>3, <1>9, <2>1, <3>1 DEF InputsPlaced, BoxPlaced, SessionOf
    <3>2. CASE ReadMail(r)
      <4>1. box'[y] = <<>> /\ H = G \cup P
        BY <1>3, <2>1, <3>2, MailPlaced DEF ReadMail, x
      <4> QED BY <4>1, ToSetOfEmpty DEF IsInjective
    <3> QED BY <3>1, <3>2
  <2> QED BY <1>1, <1>9, <2>2, <2>3 DEF BoxPlaced
<1>10. \A y \in Runner : ~(y \in opened /\ Owner[y] = t) => box'[y] = box[y]
  BY <1>2, <1>3 DEF ReadMail, x
<1>11. ThreadStep(t, {})
  BY <1>1, <1>4, <1>5, <1>6, <1>7, <1>8, <1>9, <1>10 DEF ThreadStep
<1> QED BY <1>11, ThreadStepPlaced

\* A Run reads, goes on or ends.
LEMMA StepPlaced ==
  ASSUME Apart, NEW r \in Run, Step(r)
  PROVE  InputsPlaced'
<1> USE DEF Apart
<1> DEFINE s == SessionOf(r)
           st == Phased(s, s.run, "running_tool")
           P == ToSet(s.pending)
           G == ToSet(given)
<1>1. CASE Begin(r)
  BY <1>1, NothingMoves DEF Begin, history, client
<1>2. ASSUME Live(r)
      PROVE  /\ s \in Session /\ Mail(r) \in Seq(Message) /\ ToSet(Mail(r)) = P \ G
             /\ IsInjective(given) /\ IsInjective(given \o Mail(r))
             /\ ToSet(given \o Mail(r)) = G \cup P
             /\ <<>> \in Seq(Message) /\ ToSet(<<>>) = {}
  <2>1. s \in Session
    BY <1>2, SessionTypes DEF Owned
  <2> QED BY <1>2, <2>1, MailPlaced, EmptySeq, ToSetOfEmpty DEF InputsPlaced, GivenOnce
<1>3. /\ "running" \in Phase /\ "running_tool" \in Phase
      /\ \A o \in {"completed", "cancelled", "failed"} : o \in Phase
  BY DEF Phase
<1>4. ASSUME Live(r), NEW z \in Session
      PROVE  /\ Phased(z, s.run, "running") \in Session /\ Phased(z, s.run, "running_tool") \in Session
             /\ Phased(z, s.run, "running").queue = z.queue
             /\ Phased(z, s.run, "running").pending = z.pending
             /\ Phased(z, s.run, "running_tool").queue = z.queue
             /\ Phased(z, s.run, "running_tool").pending = z.pending
  BY <1>3, <1>4, PhasedFields
<1>5. ASSUME Live(r), NEW z \in Session, z.queue = s.queue, z.pending = s.pending, NEW id,
             NEW o \in {"completed", "cancelled", "failed"},
             EndLoop(r, id, z, o, Mail(r)), given' = given
      PROVE  InputsPlaced'
  BY <1>2, <1>3, <1>5, EndPlaced
<1>6. ASSUME Live(r), EndLoop(r, s.run, Phased(s, s.run, "running"), "cancelled", <<>>),
             given' = given \o Mail(r)
      PROVE  InputsPlaced'
  <2> DEFINE z == Phased(s, s.run, "running")
  <2>1. z \in Session /\ z.queue = s.queue /\ z.pending = s.pending
    BY <1>2, <1>4, <1>6
  <2> HIDE DEF z
  <2>2. EndLoop(r, s.run, z, "cancelled", <<>>)
    BY <1>6 DEF z
  <2> QED BY <1>2, <1>3, <1>6, <2>1, <2>2, EndPlaced
<1>7. ASSUME Live(r), StopAtCheckpoint(r, Mail(r)), given' = given PROVE InputsPlaced'
  BY <1>2, <1>4, <1>5, <1>7 DEF StopAtCheckpoint
<1>8. CASE FirstEvent(r)
  <2>1. Live(r)
    BY <1>8 DEF FirstEvent, Live, LivePc
  <2>2. CASE Cancelled(r)
    BY <1>7, <1>8, <2>1, <2>2 DEF FirstEvent
  <2>3. CASE ~Cancelled(r)
    BY <1>2, <1>8, <2>1, <2>3, ContinuePlaced DEF FirstEvent
  <2> QED BY <2>2, <2>3
<1>9. ASSUME NEW tools \in BOOLEAN, ModelReturns(r, tools) PROVE InputsPlaced'
  <2>1. Live(r)
    BY <1>9 DEF ModelReturns, Live, LivePc
  <2>2. s \in Session /\ st \in Session /\ st.queue = s.queue /\ st.pending = s.pending
    BY <1>2, <1>4, <2>1
  <2>3. CASE Cancelled(r)
    BY <1>7, <1>9, <2>1, <2>3 DEF ModelReturns
  <2>4. CASE ~Cancelled(r) /\ tools
    <3>1. Continue(r, st, "tool", task[r].batches) /\ UNCHANGED <<given, box>>
      BY <1>9, <2>4 DEF ModelReturns
    <3> HIDE DEF s, st
    <3> QED BY <2>1, <2>2, <3>1, ContinuePlaced DEF s
  <2>5. CASE ~Cancelled(r) /\ ~tools
    <3> DEFINE z == Phased(st, s.run, "running")
    <3>1. EndLoop(r, s.run, z, "completed", Mail(r)) /\ given' = given
      BY <1>9, <2>5 DEF ModelReturns
    <3> HIDE DEF st
    <3>2. z \in Session /\ z.queue = s.queue /\ z.pending = s.pending
      BY <1>4, <2>1, <2>2
    <3> HIDE DEF z
    <3> QED BY <1>5, <2>1, <3>1, <3>2
  <2> QED BY <2>3, <2>4, <2>5
<1>10. CASE ToolsReturn(r)
  <2>1. Live(r)
    BY <1>10 DEF ToolsReturn, Live, LivePc
  <2>2. CASE Cancelled(r)
    BY <1>6, <1>10, <2>1, <2>2 DEF ToolsReturn, StopAtCheckpoint
  <2>3. CASE ~Cancelled(r)
    BY <1>2, <1>10, <2>1, <2>3, ContinuePlaced DEF ToolsReturn
  <2> QED BY <2>2, <2>3
<1>11. CASE Fail(r)
  <2>1. Live(r) /\ EndLoop(r, task[r].seen, s, "failed", Mail(r)) /\ given' = given
    BY <1>11 DEF Fail, Live, LivePc
  <2> QED BY <1>2, <1>5, <2>1
<1>12. CASE Unwound(r)
  <2>1. Live(r) /\ EndLoop(r, task[r].seen, s, "cancelled", Mail(r)) /\ given' = given
    BY <1>12 DEF Unwound, Live, LivePc
  <2> QED BY <1>2, <1>5, <2>1
<1> QED BY <1>1, <1>8, <1>9, <1>10, <1>11, <1>12 DEF Step

\* A new runner finds no pending input in its thread: there was no runner, so
\* there was no Run.
LEMMA OpenPlaced ==
  ASSUME Apart, NEW rn \in Runner, OpenRunner(rn)
  PROVE  InputsPlaced'
<1> USE DEF Apart
<1>1. /\ cur = NoRunner /\ rn \notin opened /\ Owner[rn] = active
      /\ opened' = opened \cup {rn} /\ UNCHANGED <<sess, given, applied, sent, box>>
  BY DEF OpenRunner, shared, inbound, history
<1>2. active \in Thread /\ opened \subseteq Runner
  BY DEF Owned, ClientType
<1>3. sess[active].pending = <<>>
  <2>1. \A x \in opened : Owner[x] # active
    BY <1>1, <1>2, SessionConstants DEF RunnersKept
  <2> QED BY <1>2, <2>1 DEF Owned, SharedOwned, RunnerFor
<1>4. BoxPlaced(rn)'
  <2>1. box[rn] = <<>>
    BY <1>1 DEF InputsPlaced, BoxPlaced
  <2> QED BY <1>1, <1>3, <2>1, ToSetOfEmpty DEF BoxPlaced, IsInjective
<1>5. ASSUME NEW x \in Runner, x # rn PROVE BoxPlaced(x)'
  BY <1>1, <1>5 DEF InputsPlaced, BoxPlaced
<1>6. NoInputLost' /\ GivenOnce' /\ AppliedWasGiven'
  BY <1>1 DEF InputsPlaced, NoInputLost, GivenOnce, AppliedWasGiven
<1> QED BY <1>1, <1>4, <1>5, <1>6 DEF InputsPlaced, Held

LEMMA WakePlaced ==
  ASSUME Apart, WakeNext
  PROVE  InputsPlaced'
<1> USE DEF Apart
<1> DEFINE w  == Head(fin.todo)
           wr == IF saved[w] # NoRunner THEN saved[w] ELSE sess[w].runner
<1>1. /\ fin.todo # <<>> /\ UNCHANGED <<opened, sent, box>>
      /\ \/ UNCHANGED <<sess, given, applied>>
         \/ wr # NoRunner /\ AutoStartNext(w, wr)
  BY DEF WakeNext, client, inbound, shared
<1>2. w \in Thread
  BY <1>1, HeadTailProperties DEF Owned, FinType, Ending
<1>3. wr \in Runner \cup {NoRunner}
  BY <1>2 DEF Owned, SharedType, ClientType, Session
<1> HIDE DEF w, wr
<1>4. CASE UNCHANGED <<sess, given, applied>>
  BY <1>1, <1>4, NothingMoves
<1>5. CASE wr # NoRunner /\ AutoStartNext(w, wr)
  BY <1>1, <1>2, <1>3, <1>5, AutoStartPlaced
<1> QED BY <1>1, <1>4, <1>5

LEMMA ChainPlaced ==
  ASSUME Apart, Chain
  PROVE  InputsPlaced'
<1> USE DEF Apart
<1> DEFINE t == task[fin.run].thread
           x == task[fin.run].runner
<1>1. fin.stage = "chain" /\ AutoStartNext(t, x) /\ UNCHANGED <<opened, sent, box>>
  BY DEF Chain, client, inbound
<1>2. t \in Thread /\ x \in Runner
  BY <1>1 DEF Owned, FinType, SharedOwned
<1> QED BY <1>1, <1>2, AutoStartPlaced

LEMMA UserStartPlaced ==
  ASSUME Apart, UserStart
  PROVE  InputsPlaced'
<1>1. /\ cur # NoRunner /\ UNCHANGED <<opened, sent, box>>
      /\ \/ UNCHANGED <<sess, given, applied>>
         \/ TryStart(active, cur, Writes(command), "opening")
  BY DEF UserStart, CommandBusy, shared
<1>2. active \in Thread /\ cur \in Runner
  BY <1>1 DEF Apart, Owned, ClientType
<1>3. CASE UNCHANGED <<sess, given, applied>>
  BY <1>1, <1>3, NothingMoves DEF Apart
<1>4. CASE TryStart(active, cur, Writes(command), "opening")
  BY <1>1, <1>2, <1>4, TryStartPlaced
<1> QED BY <1>1, <1>3, <1>4

LEMMA InitApart == Init => Apart
<1> SUFFICES ASSUME Init PROVE Apart
  OBVIOUS
<1>1. Owned
  BY InitOwned
<1>2. RunnersKept
  BY DEF Init, RunnersKept
<1>3. NewSession.queue = <<>> /\ NewSession.pending = <<>> /\ IsInjective(<<>>)
  BY DEF NewSession, IsInjective
<1>4. \A t \in Thread : sess[t].queue = <<>> /\ sess[t].pending = <<>>
  BY <1>3 DEF Init
<1>5. given = <<>> /\ sent = {} /\ applied = {} /\ opened = {} /\ \A x \in Runner : box[x] = <<>>
  BY DEF Init
<1>6. \A t \in Thread : Held(t) = {}
  BY <1>4, ToSetOfEmpty DEF Held
<1>7. NoInputLost /\ GivenOnce /\ AppliedWasGiven
  BY <1>3, <1>5, <1>6, ToSetOfEmpty DEF NoInputLost, GivenOnce, AppliedWasGiven, Held
<1>8. \A t \in Thread : SessionPlaced(sess[t], ToSet(given))
  BY <1>3, <1>4, ToSetOfEmpty DEF SessionPlaced
<1>9. \A x \in Runner : BoxPlaced(x)
  BY <1>3, <1>5 DEF BoxPlaced
<1> QED BY <1>1, <1>2, <1>6, <1>7, <1>8, <1>9 DEF Apart, InputsPlaced

LEMMA NextApart ==
  ASSUME NoReopen, Apart, [Next]_vars
  PROVE  Apart'
<1>1. Owned' /\ RunnersKept'
  BY NextOwned, NextKept DEF Apart
<1>2. ASSUME NEW t \in Thread, Resume(t) PROVE InputsPlaced'
  BY <1>2, NothingMoves DEF Apart, Resume, shared, inbound, history
<1>3. ASSUME Cancel \/ OpenFails \/ EndTurn \/ UNCHANGED vars PROVE InputsPlaced'
  <2>1. UNCHANGED <<sess, given, applied, sent, box, opened>>
    BY <1>3 DEF Cancel, OpenFails, EndTurn, vars, shared, client, inbound, history
  <2> QED BY <2>1, NothingMoves DEF Apart
<1>4. ASSUME NEW m \in Message, NEW d \in Delivery, InputSend(m, d) PROVE InputsPlaced'
  BY <1>4, SendPlaced
<1>5. InputsPlaced'
  <2>1. CASE \E rn \in Runner : OpenRunner(rn)
    BY <2>1, OpenPlaced
  <2>2. CASE \E r \in Run : Step(r)
    BY <2>2, StepPlaced
  <2>3. CASE WakeNext \/ Chain \/ UserStart
    BY <2>3, WakePlaced, ChainPlaced, UserStartPlaced
  <2> QED BY <1>2, <1>3, <1>4, <2>1, <2>2, <2>3 DEF Next, EventLoop
<1> QED BY <1>1, <1>5 DEF Apart

LEMMA AlwaysApart == ASSUME NoReopen PROVE Spec => []Apart
<1>1. Apart /\ [Next]_vars => Apart'
  BY NextApart
<1> QED BY <1>1, InitApart, PTL DEF Spec

\* As long as nobody resumes the thread that is active already: every input the
\* user sent waits in its thread or was given to a Run, and none is given twice,
\* for any number of threads and whatever is cancelled, fails or ends early
\* (_route_input, RunEngine.steer, settle_pending_immediate).
THEOREM InputsAreAccounted == ASSUME NoReopen PROVE Spec => []InputsAccounted
<1>1. Apart => InputsAccounted
  BY DEF Apart, InputsPlaced, InputsAccounted
<1> QED BY <1>1, AlwaysApart, PTL

\* Under the same assumption: an input is acknowledged as "applied" only when a
\* Run really got it (settle_pending_immediate).
THEOREM AppliedIsGiven == ASSUME NoReopen PROVE Spec => []AppliedWasGiven
<1>1. Apart => AppliedWasGiven
  BY DEF Apart, InputsPlaced
<1> QED BY <1>1, AlwaysApart, PTL

-----------------------------------------------------------------------------
(* A cancel stays in its thread *)

\* The user cancelled a Run of thread t.
AskedIn(t) == \E q \in asked : task[q].thread = t

\* The flag of a runner, an unwinding task and a cancelled Run go back to a
\* cancel in their thread.
CancelsAsked ==
  /\ \A r \in asked : Has(r)
  /\ \A x \in Runner : flag[x] => AskedIn(Owner[x])
  /\ \A r \in Run : task[r].pc = "unwinding" => r \in asked
  /\ \A r \in Run : outcome[r] # "none" => Has(r)
  /\ CancelStaysInThread

\* Tasks stay those of their thread, and none begins to unwind.
ThreadsKept ==
  \A r \in Run : /\ Has(r) => Has(r)' /\ task'[r].thread = task[r].thread
                 /\ task'[r].pc = "unwinding" => task[r].pc = "unwinding"

LEMMA AskedStays ==
  ASSUME Owned, CancelsAsked, ThreadsKept, asked \subseteq asked', NEW t, AskedIn(t)
  PROVE  AskedIn(t)'
BY DEF CancelsAsked, ThreadsKept, AskedIn, Owned, ClientType

LEMMA CancelsKept ==
  ASSUME Owned, CancelsAsked, ThreadsKept, UNCHANGED <<asked, flag, outcome>>
  PROVE  CancelsAsked'
<1> USE DEF CancelsAsked
<1>1. \A r \in asked : Has(r)'
  BY DEF ThreadsKept, Owned, ClientType
<1>2. \A t : AskedIn(t) => AskedIn(t)'
  BY AskedStays
<1>3. ASSUME NEW r \in Run, outcome[r] = "cancelled"
      PROVE  \E q \in asked : task'[q].thread = task'[r].thread
  <2>1. PICK q \in asked : task[q].thread = task[r].thread
    BY <1>3 DEF CancelStaysInThread
  <2> QED BY <1>3, <2>1 DEF ThreadsKept, Owned, ClientType
<1>4. CancelStaysInThread'
  BY <1>3 DEF CancelStaysInThread
<1> QED BY <1>1, <1>2, <1>4 DEF ThreadsKept, Has

\* A Run ends: it is called cancelled only after a cancel in its thread.
LEMMA EndLoopAsked ==
  ASSUME Owned, CancelsAsked, NEW r \in Run, Live(r), NEW s, NEW id, NEW o, NEW mail,
         EndLoop(r, id, s, o, mail), o = "cancelled" => AskedIn(task[r].thread)
  PROVE  CancelsAsked'
<1> USE DEF CancelsAsked
<1>1. /\ task' = [task EXCEPT ![r].pc = "ending", ![r].seen = id]
      /\ outcome' = [outcome EXCEPT ![r] = o] /\ UNCHANGED <<flag, asked>>
  BY DEF EndLoop
<1>2. Has(r) /\ task \in [Run -> Task] /\ outcome \in [Run -> {"none", "completed", "cancelled", "failed"}]
  BY DEF Has, Live, LivePc, Owned, SharedType, ClientType
<1>3. /\ ThreadsKept /\ Has(r)' /\ \A q \in Run : q # r => outcome'[q] = outcome[q]
      /\ outcome'[r] = o
  <2>1. task[r] \in Task
    BY <1>2
  <2> QED BY <1>1, <1>2, <2>1 DEF ThreadsKept, Has, Task
<1>4. \A t : AskedIn(t) => AskedIn(t)'
  BY <1>1, <1>3, AskedStays
<1>5. ASSUME NEW q \in Run, outcome'[q] = "cancelled"
      PROVE  \E p \in asked : task'[p].thread = task'[q].thread
  <2>1. Has(q)
    BY <1>2, <1>3, <1>5
  <2>2. PICK p \in asked : task[p].thread = task[q].thread
    BY <1>3, <1>5 DEF CancelStaysInThread, AskedIn
  <2> QED BY <2>1, <2>2, <1>3 DEF ThreadsKept, Owned, ClientType
<1>6. CancelStaysInThread'
  BY <1>1, <1>5 DEF CancelStaysInThread
<1>7. \A q \in asked : Has(q)'
  BY <1>3 DEF ThreadsKept, Owned, ClientType
<1> QED BY <1>1, <1>3, <1>4, <1>6, <1>7 DEF ThreadsKept, Has

LEMMA StepAsked ==
  ASSUME Owned, CancelsAsked, NEW r \in Run, Step(r)
  PROVE  CancelsAsked'
<1>1. task[r].pc # "none" => Has(r) /\ task \in [Run -> Task] /\ task[r] \in Task
  BY DEF Has, Owned, SharedType
<1>2. CASE Begin(r)
  BY <1>1, <1>2, CancelsKept DEF Begin, ThreadsKept, Has, Task, history
<1>3. ASSUME NEW s, NEW pc \in {"model", "tool"}, NEW n, Continue(r, s, pc, n), Live(r)
      PROVE  CancelsAsked'
  <2>1. /\ task' = [task EXCEPT ![r].pc = pc, ![r].seen = s.run, ![r].batches = n]
        /\ UNCHANGED <<asked, flag, outcome>>
    BY <1>3 DEF Continue
  <2>2. ThreadsKept
    BY <1>1, <1>3, <2>1 DEF ThreadsKept, Has, Live, LivePc, Task
  <2> QED BY <2>1, <2>2, CancelsKept
<1>4. ASSUME NEW s, NEW id, NEW mail, EndLoop(r, id, s, "cancelled", mail), Live(r),
             Cancelled(r) \/ task[r].pc = "unwinding"
      PROVE  CancelsAsked'
  <2>1. /\ task[r].runner \in Runner /\ RunnerFor(task[r].runner, task[r].thread)
    BY <1>4 DEF Owned, SharedOwned, Has, Live, LivePc
  <2>2. Owner[task[r].runner] = task[r].thread
    BY <2>1, SessionConstants DEF RunnerFor
  <2>3. AskedIn(task[r].thread)
    BY <1>4, <2>1, <2>2 DEF CancelsAsked, Cancelled, AskedIn
  <2> QED BY <1>4, <2>3, EndLoopAsked
<1>5. ASSUME NEW s, NEW id, NEW mail, NEW o \in {"completed", "failed"},
             EndLoop(r, id, s, o, mail), Live(r)
      PROVE  CancelsAsked'
  BY <1>5, EndLoopAsked
<1>6. CASE FirstEvent(r)
  BY <1>3, <1>4, <1>6 DEF FirstEvent, StopAtCheckpoint, Live, LivePc
<1>7. ASSUME NEW tools \in BOOLEAN, ModelReturns(r, tools) PROVE CancelsAsked'
  BY <1>3, <1>4, <1>5, <1>7 DEF ModelReturns, StopAtCheckpoint, Live, LivePc
<1>8. CASE ToolsReturn(r)
  BY <1>3, <1>4, <1>8 DEF ToolsReturn, StopAtCheckpoint, Live, LivePc
<1>9. CASE Fail(r)
  BY <1>5, <1>9 DEF Fail, Live, LivePc
<1>10. CASE Unwound(r)
  BY <1>4, <1>10 DEF Unwound, Live, LivePc
<1> QED BY <1>2, <1>6, <1>7, <1>8, <1>9, <1>10 DEF Step

\* Starting a Run makes a task that does not unwind.
LEMMA StartThreads ==
  ASSUME Owned, NEW t, NEW rn, NEW write, NEW pc \in {"created", "opening"},
         TryStart(t, rn, write, pc)
  PROVE  ThreadsKept
<1>1. CASE task' = task
  BY <1>1 DEF ThreadsKept, Has
<1>2. CASE task' # task
  <2>1. Launch(t, rn, write, pc)
    BY <1>2 DEF TryStart, Park, shared
  <2>2. PICK r \in NewRunIds :
          task' = [task EXCEPT ![r] =
                     [pc |-> pc, thread |-> t, runner |-> rn, seen |-> NoRun,
                      batches |-> 0, write |-> Writes(Head(sess[t].queue))]]
    BY <2>1 DEF Launch
  <2>3. r \in Run /\ ~Has(r) /\ task \in [Run -> Task]
    BY DEF NewRunIds, Has, Owned, SharedType
  <2> QED BY <2>2, <2>3 DEF ThreadsKept, Has
<1> QED BY <1>1, <1>2

LEMMA AutoStartThreads ==
  ASSUME Owned, NEW t, NEW rn, AutoStartNext(t, rn)
  PROVE  ThreadsKept
<1>1. CASE UNCHANGED task
  BY <1>1 DEF ThreadsKept, Has
<1>2. CASE ~UNCHANGED task
  BY <1>2, StartThreads DEF AutoStartNext, shared
<1> QED BY <1>1, <1>2

LEMMA CancelAsked ==
  ASSUME Owned, CancelsAsked, Cancel
  PROVE  CancelsAsked'
<1> USE DEF CancelsAsked
<1> DEFINE r == turn[active]
<1>1. /\ cur # NoRunner /\ r # NoRun /\ flag' = [flag EXCEPT ![cur] = TRUE]
      /\ task' = [task EXCEPT ![r].pc = CancelledPc(@)] /\ asked' = asked \cup {r}
      /\ outcome' = outcome
  BY DEF Cancel, TurnActive
<1>2. /\ active \in Thread /\ cur \in Runner /\ Owner[cur] = active /\ r \in Run
      /\ flag \in [Runner -> BOOLEAN] /\ asked \subseteq Run /\ task \in [Run -> Task]
  BY <1>1 DEF Owned, ClientType, ClientOwned, SharedType, RunnerFor
<1>3. Has(r) /\ task[r].thread = active /\ task[r] \in Task
  BY <1>2 DEF Owned, SharedOwned
<1> HIDE DEF r
<1>4. \A q \in Run : /\ Has(q) => Has(q)' /\ task'[q].thread = task[q].thread
                     /\ task'[q].pc = "unwinding" => q = r \/ task[q].pc = "unwinding"
  BY <1>1, <1>2, <1>3 DEF Has, Task, CancelledPc
<1>5. ASSUME NEW t, AskedIn(t) \/ t = active PROVE AskedIn(t)'
  <2>1. PICK q \in asked' : q \in Run /\ Has(q) /\ task[q].thread = t
    BY <1>1, <1>2, <1>3, <1>5 DEF AskedIn
  <2> QED BY <1>4, <2>1 DEF AskedIn
<1>6. ASSUME NEW q \in Run, outcome[q] = "cancelled"
      PROVE  \E p \in asked' : task'[p].thread = task'[q].thread
  <2>1. PICK p \in asked : task[p].thread = task[q].thread
    BY <1>6 DEF CancelStaysInThread
  <2> QED BY <1>1, <1>2, <1>4, <1>6, <2>1
<1>7. CancelStaysInThread'
  BY <1>1, <1>6 DEF CancelStaysInThread
<1>8. \A x \in Runner : flag'[x] => AskedIn(Owner[x])'
  BY <1>1, <1>2, <1>5
<1>9. \A q \in asked' : Has(q)'
  BY <1>1, <1>2, <1>3, <1>4
<1>10. \A q \in Run : (task'[q].pc = "unwinding" => q \in asked') /\ (outcome'[q] # "none" => Has(q)')
  BY <1>1, <1>4
<1> QED BY <1>7, <1>8, <1>9, <1>10

LEMMA NextAsked ==
  ASSUME Owned, CancelsAsked, [Next]_vars
  PROVE  CancelsAsked'
<1>1. ASSUME UNCHANGED <<task, asked, flag, outcome>> PROVE CancelsAsked'
  <2>1. ThreadsKept
    BY <1>1 DEF ThreadsKept, Has
  <2> QED BY <1>1, <2>1, CancelsKept
<1>2. ASSUME NEW m \in Message, NEW d \in Delivery, InputSend(m, d) PROVE CancelsAsked'
  BY <1>1, <1>2 DEF InputSend
<1>3. ASSUME NEW t \in Thread, Resume(t) PROVE CancelsAsked'
  BY <1>1, <1>3 DEF Resume, shared, inbound, history
<1>4. ASSUME NEW rn \in Runner, OpenRunner(rn) PROVE CancelsAsked'
  BY <1>1, <1>4 DEF OpenRunner, shared, inbound, history
<1>5. CASE OpenFails
  BY <1>1, <1>5 DEF OpenFails, shared, inbound, history
<1>6. CASE WakeNext
  <2>1. /\ UNCHANGED <<asked, flag, outcome>>
        /\ task' = task \/ \E w, wr : AutoStartNext(w, wr)
    BY <1>6 DEF WakeNext, shared, inbound
  <2>2. ThreadsKept
    BY <2>1, AutoStartThreads DEF ThreadsKept, Has
  <2> QED BY <2>1, <2>2, CancelsKept
<1>7. CASE EndTurn
  <2>1. /\ task' = [task EXCEPT ![fin.run].pc = "done"] /\ UNCHANGED <<asked, flag, outcome>>
        /\ fin.run \in Run /\ Has(fin.run) /\ task \in [Run -> Task]
    BY <1>7 DEF EndTurn, history, Owned, FinType, SharedType
  <2>2. ThreadsKept
    BY <2>1 DEF ThreadsKept, Has, Task
  <2> QED BY <2>1, <2>2, CancelsKept
<1>8. CASE Chain
  BY <1>8, AutoStartThreads, CancelsKept DEF Chain, inbound
<1>9. CASE UserStart
  <2>1. /\ UNCHANGED <<asked, flag, outcome>>
        /\ task' = task \/ TryStart(active, cur, Writes(command), "opening")
    BY <1>9 DEF UserStart, shared
  <2>2. ThreadsKept
    BY <2>1, StartThreads DEF ThreadsKept, Has
  <2> QED BY <2>1, <2>2, CancelsKept
<1>10. CASE UNCHANGED vars
  BY <1>1, <1>10 DEF vars, shared, inbound, history
<1> QED BY <1>2, <1>3, <1>4, <1>5, <1>6, <1>7, <1>8, <1>9, <1>10, CancelAsked, StepAsked
        DEF Next, EventLoop

LEMMA InitAsked == Init => CancelsAsked
<1> SUFFICES ASSUME Init PROVE CancelsAsked
  OBVIOUS
<1>1. \A r \in Run : task[r].pc = "none"
  BY DEF Init, NoTask
<1> QED BY <1>1 DEF Init, CancelsAsked, CancelStaysInThread

\* A Run is only ever cancelled because the user cancelled a Run of its thread
\* ("cancel"; RunEngine.cancel): for any number of threads, and whatever is
\* resumed, fails or ends early.
THEOREM CancelsStayInThread == Spec => []CancelStaysInThread
<1>1. Owned /\ CancelsAsked /\ [Next]_vars => CancelsAsked'
  BY NextAsked
<1>2. CancelsAsked => CancelStaysInThread
  BY DEF CancelsAsked
<1> QED BY <1>1, <1>2, AlwaysOwned, InitAsked, PTL DEF Spec

=============================================================================
