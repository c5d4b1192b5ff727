------------------------------ MODULE ToolRun ------------------------------
(***************************************************************************)
(* One runner at work (runtime/runner.py, loop_core.py): the rounds of     *)
(* model answer and tool batches of its Runs, the permit a risky tool      *)
(* waits for (runtime/inbound.py), the intent and idempotency records of   *)
(* side effects (execution/), the conversation in memory and on disk, and  *)
(* cancels, failures and crashes between any two of these steps.           *)
(***************************************************************************)
EXTENDS ToolCalls

CONSTANTS
    Sides,      \* tools with a side effect: an intent is logged
    Submits,    \* side effects that submit a job outside
    Risky,      \* tools that ask the user (needs_tool_permit)
    MaxIds,     \* bound: tool calls; a provider never uses an id again
    Slots,      \* concurrency_limit of execute_batch
    MaxTurns,   \* max_turns of the agent
    MaxCalls,   \* bound: calls in one answer
    MaxRuns,    \* bound: Runs
    MaxCrashes  \* bound: crashes

None == "none"

ASSUME RunnerConstants ==
    /\ None \notin Tools
    /\ Submits \subseteq Sides
    /\ Sides \subseteq Tools \ Reads
    /\ Risky \subseteq Tools
    /\ MaxIds \in Nat
    /\ Slots \in Nat \ {0}
    /\ MaxTurns \in Nat \ {0}
    /\ MaxCalls \in Nat \ {0}
    /\ MaxRuns \in Nat
    /\ MaxCrashes \in Nat

VARIABLES
    hist,     \* runner.messages
    disk,     \* the conversation store
    run,      \* number of the Run; current_run_id
    pc,       \* "idle", "begun", "model", "batch", "down"
    turn,     \* turns of the Run so far
    todo,     \* batches not finished, each a set of calls; the first is at work
    job,      \* where each call of the first batch stands
    mail,     \* InboundMailbox: answers [id, ok]
    held,     \* answers a waiting call took that are not its own
    asked,    \* calls with a pending approval of the live Run
    granted,  \* approved_arguments: id -> tool, or None
    flag,     \* InboundCheckpoint.cancelled
    made,     \* number of calls the provider has made, the last id it gave
    intents,  \* IntentLog, as on disk
    done,     \* IdempotencyStore, as on disk: completed <<run, tool>>
    crashes

\* History: what reached the outside, what the user permitted, whether a task
\* was cancelled inside a batch.
VARIABLES world, permits, torn

memory == <<hist, pc, turn, todo, job, mail, held, asked, granted, flag>>
vars == <<memory, disk, run, made, intents, done, crashes, world, permits, torn>>

Ids == 1 .. MaxIds
Calls == [id : Ids, tool : Tools]
Ended == {"ok", "fail", "denied"}
JobStates == {None, "new", "waiting", "running", "acted", "committed"} \cup Ended

\* Answers of a model: the tools it calls, in order.
ToolLists == UNION {[1 .. n -> Tools] : n \in 1 .. MaxCalls}

Batch == IF todo = <<>> THEN {} ELSE Head(todo)
ToolOf(id) == (CHOOSE c \in Batch : c.id = id).tool
Working == {id \in Ids : job[id] \in {"running", "acted", "committed"}}
NoJobs == [id \in Ids |-> None]
NothingHeld == [id \in Ids |-> <<>>]

Init ==
    /\ hist = <<>> /\ disk = <<>>
    /\ run = 0 /\ pc = "idle" /\ turn = 0
    /\ todo = <<>> /\ job = NoJobs
    /\ mail = <<>> /\ held = NothingHeld
    /\ asked = {} /\ granted = [id \in Ids |-> None] /\ flag = FALSE
    /\ made = 0 /\ intents = {} /\ done = {} /\ crashes = 0
    /\ world = {} /\ permits = {} /\ torn = FALSE

-----------------------------------------------------------------------------
(* The loop *)

\* A Run ends with its conversation h saved: orphans completed, approvals gone.
EndSaved(h) ==
    /\ hist' = CompleteOrphans(h)
    /\ disk' = hist'
    /\ pc' = "idle"
    /\ todo' = <<>> /\ job' = NoJobs
    /\ asked' = {}
    /\ UNCHANGED turn

\* The first batch of bs begins: ToolCallBegin of each call, which asks the
\* user about the risky ones.
BeginBatch(bs) ==
    LET first == Head(bs)
    IN  /\ todo' = bs
        /\ job' = [id \in Ids |-> IF \E c \in first : c.id = id
                                  THEN "new" ELSE None]
        /\ asked' = asked \cup {c \in first : c.tool \in Risky}

\* run: the user's message is appended before the first suspension.
StartRun ==
    /\ pc = "idle" /\ run < MaxRuns
    /\ run' = run + 1
    /\ hist' = Append(hist, User)
    /\ pc' = "begun" /\ turn' = 0
    /\ UNCHANGED <<disk, todo, job, mail, held, asked, granted, flag, intents,
                   done, made, crashes, world, permits, torn>>

\* Checkpoints RUN_STARTED and BEFORE_MODEL, then the request goes out.
AskModel ==
    /\ pc = "begun"
    /\ \/ /\ flag
          /\ EndSaved(hist)
       \/ /\ ~flag
          /\ pc' = "model"
          /\ UNCHANGED <<hist, disk, turn, todo, job, asked>>
    /\ UNCHANGED <<run, mail, held, granted, flag, intents, done, made, crashes,
                   world, permits, torn>>

\* An answer without calls ends the Run (after_run_end), cancelled or not.
ModelSays ==
    /\ pc = "model"
    /\ EndSaved(Append(hist, Assistant(<<>>)))
    /\ UNCHANGED <<run, mail, held, granted, flag, intents, done, made, crashes,
                   world, permits, torn>>

\* An answer with calls: AFTER_MODEL and BEFORE_TOOL_BATCH may cancel; the
\* synthesis turn after max_turns does not execute them.
ModelCalls(tools) ==
    /\ pc = "model"
    /\ made + Len(tools) \in Ids
    /\ made' = made + Len(tools)
    /\ LET calls == [n \in DOMAIN tools |-> [id |-> made + n, tool |-> tools[n]]]
           h == Append(hist, Assistant(calls))
       IN  \/ /\ flag \/ turn = MaxTurns
              /\ EndSaved(h)
           \/ /\ ~flag /\ turn < MaxTurns
              /\ hist' = h
              /\ pc' = "batch"
              /\ \E plan \in PlanBatches(calls) : BeginBatch(plan)
              /\ UNCHANGED <<disk, turn>>
    /\ UNCHANGED <<run, mail, held, granted, flag, intents, done, crashes,
                   world, permits, torn>>

\* The provider raises: the Run ends, nothing is completed or saved.
ModelFails ==
    /\ pc = "model"
    /\ pc' = "idle"
    /\ asked' = {}
    /\ UNCHANGED <<hist, disk, run, turn, todo, job, mail, held, granted, flag,
                   intents, done, made, crashes, world, permits, torn>>

\* All calls of the batch are back: their results are appended in its order.
\* After the last batch AFTER_TOOL_BATCH may cancel, a turn that goes on saves.
FinishBatch ==
    /\ pc = "batch"
    /\ \A c \in Batch : job[c.id] \in Ended
    /\ LET h == hist \o At([id \in Ids |-> Result(id, job[id])], {c.id : c \in Batch})
       IN  \/ /\ Len(todo) > 1
              /\ hist' = h
              /\ BeginBatch(Tail(todo))
              /\ UNCHANGED <<disk, pc, turn>>
           \/ /\ Len(todo) = 1 /\ flag
              /\ EndSaved(h)
           \/ /\ Len(todo) = 1 /\ ~flag
              /\ hist' = h
              /\ turn' = turn + 1
              /\ disk' = IF turn' < MaxTurns THEN h ELSE disk
              /\ pc' = "model"
              /\ todo' = <<>> /\ job' = NoJobs
              /\ UNCHANGED asked
    /\ UNCHANGED <<run, mail, held, granted, flag, intents, done, made, crashes,
                   world, permits, torn>>

-----------------------------------------------------------------------------
(* One call of the batch: _execute_with_intent *)

StartCallUnasked(id) ==
    /\ pc = "batch" /\ job[id] = "new"
    /\ intents' = IF ToolOf(id) \in Sides
                  THEN intents \cup {[run |-> run, id |-> id, tool |-> ToolOf(id),
                                      status |-> "intent"]}
                  ELSE intents
    /\ job' = [job EXCEPT ![id] =
                 IF [id |-> id, tool |-> ToolOf(id)] \in asked THEN "waiting"
                                                               ELSE "running"]
    /\ UNCHANGED <<hist, disk, run, pc, turn, todo, mail, held, asked, granted,
                   flag, done, made, crashes, world, permits, torn>>

\* Mutant: what is recorded of a submission is not looked up.
StartCallAgain(id) ==
    /\ pc = "batch" /\ job[id] = "new"
    /\ Cardinality({i \in Ids : job[i] = "waiting"} \cup Working) < Slots
    /\ intents' = IF ToolOf(id) \in Sides
                  THEN intents \cup {[run |-> run, id |-> id, tool |-> ToolOf(id),
                                      status |-> "intent"]}
                  ELSE intents
    /\ job' = [job EXCEPT ![id] = IF ToolOf(id) \in Risky THEN "waiting" ELSE "running"]
    /\ UNCHANGED <<hist, disk, run, pc, turn, todo, mail, held, asked, granted,
                   flag, done, made, crashes, world, permits, torn>>

\* A submission that is already recorded is replayed; another side effect gets
\* its intent; the hook of a risky tool waits for the permit.
StartCall(id) ==
    /\ pc = "batch" /\ job[id] = "new"
    /\ Cardinality({i \in Ids : job[i] = "waiting"} \cup Working) < Slots
    /\ LET t == ToolOf(id)
       IN  \/ /\ t \in Submits /\ <<run, t>> \in done
              /\ job' = [job EXCEPT ![id] = "ok"]
              /\ UNCHANGED intents
           \/ /\ ~(t \in Submits /\ <<run, t>> \in done)
              /\ intents' = IF t \in Sides
                            THEN intents \cup {[run |-> run, id |-> id, tool |-> t,
                                                status |-> "intent"]}
                            ELSE intents
              /\ job' = [job EXCEPT ![id] = IF t \in Risky THEN "waiting"
                                                           ELSE "running"]
    /\ UNCHANGED <<hist, disk, run, pc, turn, todo, mail, held, asked, granted,
                   flag, done, made, crashes, world, permits, torn>>

\* The intents of the calls S of this Run that are still open change to s.
Mark(S, s) ==
    intents' = {IF i.run = run /\ i.id \in S /\ i.status = "intent"
                THEN [i EXCEPT !.status = s] ELSE i : i \in intents}

\* wait_tool_permit takes the next answer. Its own ends the wait: what it held
\* back goes to the end of the mailbox. After a permit the digest of the
\* arguments must be the one that was approved.
TakeAnswer(id) ==
    /\ pc = "batch" /\ job[id] = "waiting" /\ mail # <<>>
    /\ LET answer == Head(mail)
       IN  \/ /\ answer.id # id
              /\ held' = [held EXCEPT ![id] = Append(@, answer)]
              /\ mail' = Tail(mail)
              /\ UNCHANGED <<job, intents>>
           \/ /\ answer.id = id
              /\ mail' = Tail(mail) \o held[id]
              /\ held' = [held EXCEPT ![id] = <<>>]
              /\ \/ /\ answer.ok /\ granted[id] = ToolOf(id)
                    /\ job' = [job EXCEPT ![id] = "running"]
                    /\ UNCHANGED intents
                 \/ /\ ~(answer.ok /\ granted[id] = ToolOf(id))
                    /\ job' = [job EXCEPT ![id] = "denied"]
                    /\ Mark({id}, "reconciling")
    /\ UNCHANGED <<hist, disk, run, pc, turn, todo, asked, granted, flag, done,
                   made, crashes, world, permits, torn>>

\* The tool reaches the outside some time while it runs.
Act(id) ==
    /\ pc = "batch" /\ job[id] = "running"
    /\ job' = [job EXCEPT ![id] = "acted"]
    /\ world' = IF ToolOf(id) \in Reads THEN world
                ELSE world \cup {[run |-> run, id |-> id, tool |-> ToolOf(id)]}
    /\ UNCHANGED <<hist, disk, run, pc, turn, todo, mail, held, asked, granted,
                   flag, intents, done, made, crashes, permits, torn>>

\* It returns ok: the intent is committed first, the result recorded after.
Commit(id) ==
    /\ pc = "batch" /\ job[id] = "acted"
    /\ job' = [job EXCEPT ![id] = "committed"]
    /\ Mark({id}, "committed")
    /\ UNCHANGED <<hist, disk, run, pc, turn, todo, mail, held, asked, granted,
                   flag, done, made, crashes, world, permits, torn>>

Record(id) ==
    /\ pc = "batch" /\ job[id] = "committed"
    /\ job' = [job EXCEPT ![id] = "ok"]
    /\ done' = IF ToolOf(id) \in Submits THEN done \cup {<<run, ToolOf(id)>>}
                                         ELSE done
    /\ UNCHANGED <<hist, disk, run, pc, turn, todo, mail, held, asked, granted,
                   flag, intents, made, crashes, world, permits, torn>>

\* It fails, before or after it had an effect.
Fail(id) ==
    /\ pc = "batch" /\ job[id] \in {"running", "acted"}
    /\ job' = [job EXCEPT ![id] = "fail"]
    /\ Mark({id}, "reconciling")
    /\ UNCHANGED <<hist, disk, run, pc, turn, todo, mail, held, asked, granted,
                   flag, done, made, crashes, world, permits, torn>>

-----------------------------------------------------------------------------
(* The user and the machine *)

\* permit / deny of a pending approval: it is consumed, the answer goes to the
\* mailbox and a permit notes the arguments it was given for.
Answer(call, ok) ==
    /\ call \in asked
    /\ asked' = asked \ {call}
    /\ mail' = Append(mail, [id |-> call.id, ok |-> ok])
    /\ granted' = IF ok THEN [granted EXCEPT ![call.id] = call.tool] ELSE granted
    /\ permits' = IF ok THEN permits \cup {[run |-> run, id |-> call.id,
                                            tool |-> call.tool]}
                  ELSE permits
    /\ UNCHANGED <<hist, disk, run, pc, turn, todo, job, held, flag, intents,
                   done, made, crashes, world, torn>>

\* The approval outlives its TTL: no answer is accepted any more.
Expire(call) ==
    /\ call \in asked
    /\ asked' = asked \ {call}
    /\ UNCHANGED <<hist, disk, run, pc, turn, todo, job, mail, held, granted,
                   flag, intents, done, made, crashes, world, permits, torn>>

\* cancel_run alone: a request for the next checkpoint.
RequestCancel ==
    /\ pc \in {"begun", "model", "batch"} /\ ~flag
    /\ flag' = TRUE
    /\ UNCHANGED <<hist, disk, run, pc, turn, todo, job, mail, held, asked,
                   granted, intents, done, made, crashes, world, permits, torn>>

\* The task is cancelled too: CancelledError where the Run is suspended. Every
\* call at work marks its intent and hands back what it held; the conversation
\* stays as it is, in memory only. Between commit and record nothing suspends.
CancelTask ==
    /\ pc \in {"begun", "model", "batch"}
    /\ \A id \in Ids : job[id] # "committed"
    /\ flag' = TRUE
    /\ pc' = "idle"
    /\ Mark({id \in Ids : job[id] \in {"waiting", "running", "acted"}},
            "reconciling")
    /\ mail' = mail \o FlattenSeq([n \in 1 .. Cardinality(Ids) |->
                                     held[SetToSortSeq(Ids, <)[n]]])
    /\ held' = NothingHeld
    /\ todo' = <<>> /\ job' = NoJobs /\ asked' = {}
    /\ torn' = (torn \/ pc = "batch")
    /\ UNCHANGED <<hist, disk, run, turn, granted, done, made, crashes, world, permits>>

\* The process dies at any point.
Crash ==
    /\ pc # "down" /\ crashes < MaxCrashes
    /\ crashes' = crashes + 1
    /\ pc' = "down"
    /\ hist' = <<>> /\ turn' = 0 /\ todo' = <<>> /\ job' = NoJobs
    /\ mail' = <<>> /\ held' = NothingHeld /\ asked' = {}
    /\ granted' = [id \in Ids |-> None] /\ flag' = FALSE
    /\ UNCHANGED <<disk, run, intents, done, made, world, permits, torn>>

\* A new runner loads the conversation; a replay to the client before that
\* completes the orphans on disk.
Restart ==
    /\ pc = "down"
    /\ pc' = "idle"
    /\ disk' \in {disk, CompleteOrphans(disk)}
    /\ hist' = disk'
    /\ UNCHANGED <<run, turn, todo, job, mail, held, asked, granted, flag,
                   intents, done, made, crashes, world, permits, torn>>

Next ==
    \/ StartRun \/ AskModel \/ ModelSays \/ ModelFails \/ FinishBatch
    \/ \E tools \in ToolLists : ModelCalls(tools)
    \/ \E id \in Ids :
         \/ StartCall(id) \/ TakeAnswer(id) \/ Act(id)
         \/ Commit(id) \/ Record(id) \/ Fail(id)
    \/ \E call \in Calls : Answer(call, TRUE) \/ Answer(call, FALSE) \/ Expire(call)
    \/ RequestCancel \/ CancelTask \/ Crash \/ Restart

Spec == Init /\ [][Next]_vars

\* A ready task goes on, a tool returns, the model answers: these happen.
\* Nothing is assumed of the user.
FairSpec ==
    /\ Spec
    /\ WF_vars(AskModel) /\ WF_vars(FinishBatch)
    /\ WF_vars(ModelSays \/ ModelFails \/ \E tools \in ToolLists : ModelCalls(tools))
    /\ \A id \in Ids :
          /\ WF_vars(StartCall(id)) /\ WF_vars(TakeAnswer(id))
          /\ WF_vars(Act(id) \/ Fail(id)) /\ WF_vars(Commit(id) \/ Fail(id))
          /\ WF_vars(Record(id))

-----------------------------------------------------------------------------
(* Properties *)

Message == [role : {"user", "assistant", "tool"}, calls : Seq(Calls),
            id : Ids \cup {0}, out : Ended \cup {"", "none"}]
AnswerEvent == [id : Ids, ok : BOOLEAN]
Execution == [run : Nat, id : Ids, tool : Tools]
Intent == [run : Nat, id : Ids, tool : Tools,
           status : {"intent", "committed", "reconciling"}]

\* Every variable keeps its type.
TypeOK ==
    /\ hist \in Seq(Message) /\ disk \in Seq(Message)
    /\ run \in 0 .. MaxRuns /\ turn \in 0 .. MaxTurns /\ crashes \in 0 .. MaxCrashes
    /\ pc \in {"idle", "begun", "model", "batch", "down"}
    /\ todo \in Seq(SUBSET Calls) /\ job \in [Ids -> JobStates]
    /\ mail \in Seq(AnswerEvent) /\ held \in [Ids -> Seq(AnswerEvent)]
    /\ asked \subseteq Calls /\ granted \in [Ids -> Tools \cup {None}]
    /\ flag \in BOOLEAN /\ torn \in BOOLEAN /\ made \in Nat
    /\ intents \subseteq Intent /\ done \subseteq Nat \X Tools
    /\ world \subseteq Execution /\ permits \subseteq Execution

\* Whatever was cancelled, lost or completed late before, the provider is
\* never sent a call without its result or a result without its call
\* (repair_openai_tool_sequence, message.py).
RequestWellFormed == pc = "model" => WellFormed(Repair(hist))

\* As long as no task was cancelled inside a batch, no result that a tool
\* really gave disappears from what the model is sent: what is dropped by the
\* repair are placeholders only, also after a crash and a reload.
ResultsStayVisible ==
    (pc = "model" /\ ~torn) =>
        \A i \in DOMAIN hist :
            (hist[i].role = "tool" /\ hist[i].out # "none") => i \in Kept(hist)

\* The conversation the provider is sent is well formed and complete.
HistoryRepaired == RequestWellFormed /\ ResultsStayVisible

\* The execution an intent stands for.
Of(i) == [run |-> i.run, id |-> i.id, tool |-> i.tool]

\* Whenever the process dies: a side effect that reached the outside has its
\* intent on disk, and an intent on disk is committed only if its effect
\* happened (_execute_with_intent).
IntentsTellTruth ==
    /\ {w \in world : w.tool \in Sides} \subseteq {Of(i) : i \in intents}
    /\ {Of(i) : i \in {j \in intents : j.status = "committed"}} \subseteq world

\* Every execution of a risky tool has the user's permit, given in the same
\* Run for the same call and the same arguments: no answer that is left in the
\* mailbox, held by another call or late lets a different call through.
EveryExecutionPermitted == {w \in world : w.tool \in Risky} \subseteq permits

\* What was done outside is what the user allowed and what the disk says.
ExecutionsAccounted == IntentsTellTruth /\ EveryExecutionPermitted

\* A submission whose success is recorded is not submitted a second time in
\* its Run, however its calls are batched (IdempotencyStore).
RecordedNotRepeated ==
    [][\A w \in world' \ world : <<w.run, w.tool>> \notin done]_vars

\* A call that was answered does not wait for ever: the answer is not taken
\* away by another call that waits (wait_tool_permit).
AnswerReachesCall ==
    \A id \in Ids :
        (job[id] = "waiting" /\ \E a \in ToSet(mail) : a.id = id)
            ~> job[id] # "waiting"

\* Not so, from three calls in one answer: calls that conflict reach the outside in the
\* order the model made them ("Events and results keep the model's original order",
\* runner.py).
ConflictsInOrder ==
    LET later == UNION {todo[k] : k \in 2 .. Len(todo)}
    IN  \A i \in DOMAIN hist :
          \A a, b \in DOMAIN hist[i].calls :
            LET first == hist[i].calls[a]
                next  == hist[i].calls[b]
            IN  (a < b /\ Conflict(first, next) /\ first \in later)
                   => job[next.id] \notin {"running", "acted", "committed", "ok"}
=============================================================================
