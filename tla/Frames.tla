------------------------------- MODULE Frames -------------------------------
(***************************************************************************)
(* Sub-agents (tools/delegate.py, runtime/frame.py): a delegate call of    *)
(* the main agent pushes a frame on the same runner, the sub-agent runs to *)
(* its end there, the frame is popped and its result is the call's result. *)
(* Checkpoints, immediate inputs and the cancel flag belong to the runner, *)
(* not to a frame.  Sub-agents have no delegate tool of their own.         *)
(*                                                                         *)
(* A frame that is being built stands on the stack from the time its       *)
(* sandbox is open, with pc "build"; the runner gets it only when it is    *)
(* complete, and no error or cancel before that closes the sandbox.        *)
(***************************************************************************)
EXTENDS Naturals, Sequences

CONSTANTS
    Steers,         \* immediate inputs
    MaxSubs,        \* bound: sub-agents
    MaxMainRuns,    \* bound: Runs of the main agent
    CallLimit,      \* max_tool_calls of a sub-agent
    TokenLimit,     \* max_tokens of a sub-agent, in model calls
    BatchMax,       \* bound: calls of one answer
    MaxAnswers      \* model calls of a Run: max_turns and the synthesis turn

Statuses == {"completed", "timeout", "budget_exceeded", "error"}

ASSUME FrameAssumption ==
    /\ {MaxSubs, MaxMainRuns} \subseteq Nat
    /\ {CallLimit, TokenLimit, BatchMax, MaxAnswers} \subseteq Nat \ {0}
    /\ \A s \in Steers : s \notin [sub : Nat, status : Statuses]    \* no result of a sub-agent

Subs == 1 .. MaxSubs
Boxes == {"none", "borrowed", "owned"}

VARIABLES
    frames,     \* runner.frames: the base frame, and at most one sub-agent's
    inbox,      \* InboundCheckpoint._pending_immediate
    stop,       \* InboundCheckpoint.cancelled
    heard,      \* the messages of the main agent (0) and of each sub-agent: inputs, results
    boxes,      \* sub-agents whose own sandbox is open
    cut,        \* history: those of which the building or the closing was cut short
    executed,   \* ghost: calls of each sub-agent that reached a tool
    spent,      \* RunBudget of each sub-agent, in model calls
    subs,       \* sub-agents so far
    runs        \* Runs of the main agent so far

frameVars == <<frames, inbox, stop, heard, boxes, cut, executed, spent, subs, runs>>

\* A frame: whose it is, where its Run stands, calls of the batch not yet started and at
\* work, calls counted, model calls made, its sandbox.
Frame(who, pc, box) == [who |-> who, pc |-> pc, left |-> 0, working |-> 0, counted |-> 0,
                        answers |-> 0, box |-> box]
Base == Frame(0, "idle", "none")

Top == frames[Len(frames)]
WithTop(f) == [frames EXCEPT ![Len(frames)] = f]
SubResult(n, status) == [sub |-> n, status |-> status]

FrameStates == [who : {0} \cup Subs, pc : {"idle", "build", "ask", "model", "tools"},
                left : 0 .. BatchMax, working : 0 .. BatchMax, counted : Nat,
                answers : 0 .. MaxAnswers, box : Boxes]
Heard == Steers \cup [sub : Subs, status : Statuses]

FrameTypeOK ==
    /\ frames \in Seq(FrameStates) /\ Len(frames) \in 1 .. 2
    /\ inbox \in Seq(Steers) /\ stop \in BOOLEAN
    /\ heard \in [0 .. MaxSubs -> Seq(Heard)]
    /\ boxes \subseteq Subs /\ cut \subseteq Subs /\ subs \in 0 .. MaxSubs /\ runs \in 0 .. MaxMainRuns
    /\ executed \in [Subs -> Nat] /\ spent \in [Subs -> Nat]

FrameInit ==
    /\ frames = <<Base>>
    /\ inbox = <<>> /\ stop = FALSE
    /\ heard = [n \in 0 .. MaxSubs |-> <<>>]
    /\ boxes = {} /\ cut = {} /\ subs = 0 /\ runs = 0
    /\ executed = [n \in Subs |-> 0] /\ spent = [n \in Subs |-> 0]

-----------------------------------------------------------------------------
(* How a frame ends *)

\* A delegate call is over: the main agent goes on after the last call of the batch.
MainGoesOn ==
    frames' = <<[frames[1] EXCEPT !.working = 0, !.pc = IF frames[1].left = 0 THEN "ask" ELSE @]>>

\* The main agent hears a sub-agent's result, in the conversations h.
WithResult(h, status) == [h EXCEPT ![0] = Append(@, SubResult(Top.who, status))]

\* An error or a cancel came before the sandbox of the frame on top was closed.
CutShort ==
    /\ Top.who \in boxes
    /\ cut' = cut \cup {Top.who} /\ UNCHANGED boxes

\* The Run of the main agent ends.
MainEnds(h) == Len(frames) = 1 /\ frames' = <<Base>> /\ heard' = h /\ UNCHANGED <<boxes, cut>>

\* Mutant: the frame is popped, the sandbox it opened is not closed.
EndsLeaving(h, status) ==
    \/ MainEnds(h)
    \/ Len(frames) = 2 /\ MainGoesOn /\ heard' = WithResult(h, status) /\ UNCHANGED <<boxes, cut>>

\* The Run on top ends: the main agent's, or a sub-agent's, whose frame is popped and whose
\* own sandbox is closed. If closing it raises, the call fails: its result is not told.
Ends(h, status) ==
    \/ MainEnds(h)
    \/ Len(frames) = 2 /\ MainGoesOn /\ heard' = WithResult(h, status)
                       /\ boxes' = boxes \ {Top.who} /\ UNCHANGED cut
    \/ Len(frames) = 2 /\ MainGoesOn /\ heard' = h /\ CutShort

-----------------------------------------------------------------------------
(* The Run of the frame on top *)

\* A message of the user starts a Run of the main agent; what the last one left in the
\* inbox has gone back to the queue of the thread.
StartMain ==
    /\ frames = <<Base>> /\ runs < MaxMainRuns
    /\ frames' = <<[Base EXCEPT !.pc = "ask"]>>
    /\ inbox' = <<>>
    /\ runs' = runs + 1
    /\ UNCHANGED <<stop, heard, boxes, cut, executed, spent, subs>>

OverBudget(who) == who # 0 /\ spent[who] > TokenLimit

\* Checkpoints AFTER_TOOL_BATCH and BEFORE_MODEL: the inputs go to the frame on top, a
\* cancel ends its Run as an ordinary end ("completed" for a sub-agent); then the budget
\* of a sub-agent is looked at and the request goes out.
Checkpoint ==
    LET taken == [heard EXCEPT ![Top.who] = @ \o inbox]
    IN  /\ Top.pc = "ask"
        /\ inbox' = <<>>
        /\ \/ stop /\ Ends(taken, "completed")
           \/ ~stop /\ OverBudget(Top.who) /\ Ends(taken, "budget_exceeded")
           \/ /\ ~stop /\ ~OverBudget(Top.who)
              /\ frames' = WithTop([Top EXCEPT !.pc = "model", !.answers = @ + 1])
              /\ heard' = taken
              /\ UNCHANGED <<boxes, cut>>
        /\ UNCHANGED <<stop, executed, spent, subs, runs>>

\* The stream is over: the call is on the sub-agent's account.
Accounted == spent' = IF Top.who = 0 THEN spent ELSE [spent EXCEPT ![Top.who] = @ + 1]

\* A reply without calls ends the Run.
Replies ==
    /\ Top.pc = "model" /\ Accounted
    /\ Ends(heard, "completed")
    /\ UNCHANGED <<inbox, stop, executed, subs, runs>>

\* A reply with k calls: a cancel at AFTER_MODEL or BEFORE_TOOL_BATCH ends the Run first,
\* the synthesis turn does not execute them.
Calls(k) ==
    /\ Top.pc = "model" /\ Accounted
    /\ \/ (stop \/ Top.answers = MaxAnswers) /\ Ends(heard, "completed")
       \/ /\ ~stop /\ Top.answers < MaxAnswers
          /\ frames' = WithTop([Top EXCEPT !.pc = "tools", !.left = k])
          /\ UNCHANGED <<heard, boxes, cut>>
    /\ UNCHANGED <<inbox, stop, executed, subs, runs>>

\* The provider raises: nothing is accounted.
ProviderFails ==
    /\ Top.pc = "model"
    /\ Ends(heard, "error")
    /\ UNCHANGED <<inbox, stop, executed, spent, subs, runs>>

\* A call is over; the last one lets the Run go on.
CallOver(f) == [f EXCEPT !.pc = IF f.left = 0 /\ f.working = 0 THEN "ask" ELSE @]

\* Runner.execute_tool: a call is counted before it runs, calls of one batch may run side
\* by side; beyond a sub-agent's limit it is refused.
StartTool ==
    LET f == [Top EXCEPT !.left = @ - 1]
        refused == f.who # 0 /\ f.counted >= CallLimit
    IN  /\ Top.pc = "tools" /\ Top.left > 0
        /\ frames' = WithTop(IF refused THEN CallOver(f)
                             ELSE [f EXCEPT !.working = @ + 1, !.counted = @ + 1])
        /\ executed' = IF refused \/ f.who = 0 THEN executed
                       ELSE [executed EXCEPT ![f.who] = @ + 1]
        /\ UNCHANGED <<inbox, stop, heard, boxes, cut, spent, subs, runs>>

ToolReturns ==
    /\ Top.pc = "tools" /\ Top.working > 0
    /\ frames' = WithTop(CallOver([Top EXCEPT !.working = @ - 1]))
    /\ UNCHANGED <<inbox, stop, heard, boxes, cut, executed, spent, subs, runs>>

-----------------------------------------------------------------------------
(* Delegation *)

\* A delegate call of the main agent runs alone in its batch. build_sub_frame has opened the
\* sandbox and asks it what it is. (A call whose sandbox does not open is one that fails.)
Delegate(box) ==
    LET f == frames[1] IN
    /\ Len(frames) = 1 /\ f.pc = "tools" /\ f.left > 0 /\ f.working = 0
    /\ subs < MaxSubs
    /\ subs' = subs + 1
    /\ frames' = <<[f EXCEPT !.left = @ - 1, !.working = 1],
                   Frame(subs', "build", box)>>
    /\ boxes' = IF box = "owned" THEN boxes \cup {subs'} ELSE boxes
    /\ UNCHANGED <<inbox, stop, heard, cut, executed, spent, runs>>

\* push_frame: from here on the finally of the call pops the frame and closes its sandbox.
FramePushed ==
    /\ Top.pc = "build"
    /\ frames' = WithTop([Top EXCEPT !.pc = "ask"])
    /\ UNCHANGED <<inbox, stop, heard, boxes, cut, executed, spent, subs, runs>>

\* describe() or the store of the conversations raises: the call fails, nobody closes the
\* sandbox.
BuildFails ==
    /\ Top.pc = "build"
    /\ MainGoesOn
    /\ IF Top.who \in boxes THEN CutShort ELSE UNCHANGED <<boxes, cut>>
    /\ UNCHANGED <<inbox, stop, heard, executed, spent, subs, runs>>

\* wait_for ends the sub-agent's Run wherever it is suspended.
TimesOut ==
    /\ Len(frames) = 2 /\ Top.pc # "build"
    /\ Ends(heard, "timeout")
    /\ UNCHANGED <<inbox, stop, executed, spent, subs, runs>>

\* The Run's task is cancelled: a frame above the base is popped on the way and its sandbox
\* closed, if it was pushed and nothing cuts the closing short.
TaskCancelled ==
    /\ frames[1].pc # "idle"
    /\ frames' = <<Base>> /\ stop' = TRUE
    /\ \/ /\ Top.pc = "build" => Top.who \notin boxes
          /\ boxes' = boxes \ {Top.who} /\ UNCHANGED cut
       \/ CutShort
    /\ UNCHANGED <<inbox, heard, executed, spent, subs, runs>>

\* The user, while a Run is live.
Steer(s) ==
    /\ frames[1].pc # "idle"
    /\ \A n \in 0 .. MaxSubs : \A i \in DOMAIN heard[n] : heard[n][i] # s
    /\ \A i \in DOMAIN inbox : inbox[i] # s
    /\ inbox' = Append(inbox, s)
    /\ UNCHANGED <<frames, stop, heard, boxes, cut, executed, spent, subs, runs>>

Cancel ==
    /\ frames[1].pc # "idle" /\ ~stop
    /\ stop' = TRUE
    /\ UNCHANGED <<frames, inbox, heard, boxes, cut, executed, spent, subs, runs>>

FrameNext ==
    \/ StartMain \/ Checkpoint \/ Replies \/ ProviderFails \/ StartTool \/ ToolReturns
    \/ \E k \in 1 .. BatchMax : Calls(k)
    \/ \E box \in Boxes : Delegate(box)
    \/ FramePushed \/ BuildFails \/ TimesOut \/ TaskCancelled \/ Cancel
    \/ \E s \in Steers : Steer(s)

FrameSpec == FrameInit /\ [][FrameNext]_frameVars

-----------------------------------------------------------------------------
\* No immediate input is in two places of the conversations h and the inbox box.
Once(h, box) ==
    /\ \A n, m \in 0 .. MaxSubs : \A i \in DOMAIN h[n], j \in DOMAIN h[m] :
          h[n][i] \in Steers /\ h[n][i] = h[m][j] => n = m /\ i = j
    /\ \A i, j \in DOMAIN box : box[i] = box[j] => i = j
    /\ \A n \in 0 .. MaxSubs : \A i \in DOMAIN h[n], j \in DOMAIN box : h[n][i] # box[j]

\* However a sub-agent ends, by its reply, a limit, its time, an error or a cancel of the
\* Run: its frame is gone and its own sandbox closed before the main agent goes on, unless
\* an error or a cancel cut the building of the frame or the closing short; every
\* immediate input is in one conversation at most, a sub-agent has not executed more calls
\* than its limit and asked its model at most once beyond its budget.
FramesSound ==
    /\ FrameTypeOK
    /\ boxes \ cut = {frames[i].who : i \in {j \in DOMAIN frames : frames[j].box = "owned"}}
    /\ Top.who # 0 => frames[1].pc = "tools" /\ frames[1].working = 1
    /\ Once(heard, inbox)
    /\ \A n \in Subs : executed[n] <= CallLimit /\ spent[n] <= TokenLimit + 1

\* Not so: an immediate input may end in a sub-agent's conversation, which the main agent
\* never sees.
SteersReachMain == \A n \in Subs : \A i \in DOMAIN heard[n] : heard[n][i] \notin Steers

\* Not so: an error or a cancel between the opening of the sandbox and push_frame, which
\* stands outside the try, leaves it open with no frame that could close it.
NoSandboxLeft == boxes = {frames[i].who : i \in {j \in DOMAIN frames : frames[j].box = "owned"}}

\* Not so: a sub-agent that a cancel cut short is reported as "completed".
CancelledIsNotCompleted ==
    \A i \in DOMAIN heard[0] :
        heard[0][i] \notin Steers /\ heard[0][i].status = "completed"
            => spent[heard[0][i].sub] > 0
=============================================================================
