----------------------------- MODULE SessionOps -----------------------------
(***************************************************************************)
(* The methods of ThreadSessionManager (harness/session_manager.py) as      *)
(* operators on the session record of one thread.  Every method holds the   *)
(* session's lifecycle_lock and awaits nothing while it holds it, so each   *)
(* is one atomic step on one record; a caller that makes several calls      *)
(* without suspending composes the operators in one action.                 *)
(***************************************************************************)
EXTENDS SequencesExt

CONSTANTS Message,       \* identities of user inputs (message_id)
          Run,           \* run identities handed out by new_run_id()
          NoRun,         \* active_run_id is None
          Runner,        \* runner objects
          NoRunner,      \* no runner (None)
          Approval,      \* approval identities
          Call,          \* tool-call identities
          ReceiptLimit   \* RECEIPT_HISTORY_LIMIT

ASSUME SessionConstants == /\ NoRun \notin Run
                           /\ NoRunner \notin Runner
                           /\ ReceiptLimit \in Nat

-----------------------------------------------------------------------------
(* The life cycle of one Run: the phases and the single transition table every phase change is *)
(* checked against (harness/state.py).                                                         *)

Phase == {"dormant", "queued", "preparing", "initializing", "running",
          "running_model", "running_tool", "waiting_approval", "finalizing",
          "completed", "cancelled", "failed", "interrupted"}

\* The ways a phase inside the agent loop can be left other than by finalizing.
LoopExit == {"cancelled", "failed", "interrupted"}

\* _PHASE_TRANSITIONS: the legal next phases of each phase.
Transitions ==
  [p \in Phase |->
     CASE p = "dormant"          -> {"queued", "preparing", "cancelled"}
       [] p = "queued"           -> {"initializing", "cancelled", "failed"}
       [] p = "preparing"        -> {"running", "initializing", "failed", "cancelled"}
       [] p = "initializing"     -> {"running", "running_model", "failed", "cancelled"}
       [] p = "running"          -> {"running_model", "running_tool",
                                     "waiting_approval", "finalizing"} \cup LoopExit
       [] p = "running_model"    -> {"running_tool", "waiting_approval",
                                     "running", "finalizing"} \cup LoopExit
       [] p = "running_tool"     -> {"running_model", "waiting_approval",
                                     "running", "finalizing"} \cup LoopExit
       [] p = "waiting_approval" -> {"running_tool", "running_model",
                                     "running"} \cup LoopExit
       [] p = "finalizing"       -> {"completed", "failed", "interrupted"}
       [] OTHER                  -> {}]

\* allowed_run_transitions(phase)
CanMove(from, to) == to \in Transitions[from]

\* is_terminal_run_phase(phase): no way out of it.
TerminalPhase(p) == Transitions[p] = {}

\* The four phases has_active_run lists by name; the table above must agree.
EndPhase == {"completed", "cancelled", "failed", "interrupted"}

-----------------------------------------------------------------------------
(* The record of a session *)

\* An ApprovalRequest: bound to the run and the tool call that raised it.
Request == [id : Approval, run : Run, call : Call]

Session == [run       : Run \cup {NoRun},
            phase     : Phase,
            queue     : Seq(Message),     \* queued_inputs
            pending   : Seq(Message),     \* pending_immediate
            receipts  : Seq(Message),     \* receipt_history, oldest first
            approvals : SUBSET Request,   \* pending_approvals
            expired   : SUBSET Request,   \* _expired_approvals
            snap      : Run \cup {NoRun}, \* run the RunSnapshot was frozen for
            runner    : Runner \cup {NoRunner},
            status    : {"dormant", "running", "idle"}]

NewSession == [run |-> NoRun, phase |-> "dormant", queue |-> <<>>,
               pending |-> <<>>, receipts |-> <<>>, approvals |-> {},
               expired |-> {}, snap |-> NoRun, runner |-> NoRunner,
               status |-> "dormant"]

HasActiveRun(s) == s.run # NoRun /\ s.phase \notin EndPhase

-----------------------------------------------------------------------------
(* Input routing *)

\* Mutants: only the history is searched; only the waiting messages are.
AccountedByReceipt(s, m) == m \in ToSet(s.receipts)
AccountedByWaiting(s, m) == m \in ToSet(s.queue) \cup ToSet(s.pending)

\* _find_existing_receipt: the receipt history first, then the messages that
\* are still waiting (their receipt may have been evicted).
Accounted(s, m) == m \in ToSet(s.receipts) \cup ToSet(s.queue) \cup ToSet(s.pending)

\* Mutant: the history is cut only when it is one above the limit.
TrimLate(q) == IF Len(q) > ReceiptLimit + 1 THEN SubSeq(q, 2, Len(q)) ELSE q

\* _trim_receipt_history: the newest ReceiptLimit entries stay.
Trim(q) == IF Len(q) > ReceiptLimit
             THEN SubSeq(q, Len(q) - ReceiptLimit + 1, Len(q))
             ELSE q

\* Mutant: a finished run still attracts immediate inputs.
RoutedToPendingOfAnyRun(s, delivery) == s.run # NoRun /\ delivery # "enqueue"

\* Where _route_input puts a message: an immediate input waits for a
\* checkpoint of the active run, every other input waits for a run.
RoutedToPending(s, delivery) == HasActiveRun(s) /\ delivery # "enqueue"

Enqueued(s, m) ==
  [s EXCEPT !.queue    = Append(@, m),
            !.receipts = Trim(Append(@, m)),
            !.status   = IF HasActiveRun(s) THEN @ ELSE "running"]

MadePending(s, m) ==
  [s EXCEPT !.pending  = Append(@, m),
            !.receipts = Trim(Append(@, m))]

\* _route_input for a message that is not accounted for yet.
Routed(s, m, delivery) ==
  IF RoutedToPending(s, delivery) THEN MadePending(s, m) ELSE Enqueued(s, m)

\* Mutants: prepending one by one in forward order; the terminal transition
\* clears the pending list without saving it.
AtHeadForward(s, msgs) == [s EXCEPT !.queue = Reverse(msgs) \o @]
DeferredLost(s)        == [s EXCEPT !.pending = <<>>]

\* restore_queued_at_head / _defer_pending_immediate: prepending in reverse
\* order keeps the order of the messages.
AtHead(s, msgs) == [s EXCEPT !.queue = msgs \o @]

Deferred(s) == [AtHead(s, s.pending) EXCEPT !.pending = <<>>]

-----------------------------------------------------------------------------
(* Run life cycle *)

\* start_run accepts: no run yet, a finished run, or a live run whose phase may
\* move to "running"; and an input is queued.
CanStart(s) ==
  /\ \/ s.run = NoRun
     \/ TerminalPhase(s.phase)
     \/ CanMove(s.phase, "running")
  /\ s.queue # <<>>

Started(s, r, rn) ==
  [s EXCEPT !.queue = Tail(@), !.run = r, !.runner = rn,
            !.phase = "running", !.status = "running"]

\* update_run_phase; a refused declaration changes nothing.
CanDeclare(s, r, p) == s.run = r /\ CanMove(s.phase, p)
Declared(s, p)      == [s EXCEPT !.phase = p]

\* Mutant: the approvals are reported as expired but stay pending.
ApprovalsExpiredKept(s) == [s EXCEPT !.expired = @ \cup s.approvals]

\* _expire_all_approvals
ApprovalsExpired(s) ==
  [s EXCEPT !.expired = @ \cup s.approvals, !.approvals = {}]

\* Mutant: a terminal transition that forgets the approvals.
EndedKeepingApprovals(s, p) == [Deferred(s) EXCEPT !.phase = p, !.status = "idle"]

\* The terminal transition shared by complete/cancel/fail/mark_interrupted.
Ended(s, p) ==
  ApprovalsExpired([Deferred(s) EXCEPT !.phase = p, !.status = "idle"])

\* complete_run walks running -> finalizing -> completed in one call.
CompletablePhase(p) == p = "running" \/ CanMove(p, "completed")

CanEnd(s, r, p) ==
  /\ s.run = r
  /\ CASE p = "completed"   -> CompletablePhase(s.phase)
       [] p = "interrupted" -> TRUE
       [] OTHER             -> CanMove(s.phase, p)

-----------------------------------------------------------------------------
(* Live steering, approvals, snapshot, idle runner *)

\* take_pending_immediate: everything pending is handed to the caller.
PendingTaken(s) == [s EXCEPT !.pending = <<>>]

\* Mutant: every pending message counts as applied.
ReadOfAll(s, unread) == s.pending

\* The elements of q that are in U, in the order they have in q.
Only(q, U) ==
  LET kept[i \in 0..Len(q)] ==
        IF i = 0 THEN <<>>
        ELSE IF q[i] \in U THEN Append(kept[i - 1], q[i]) ELSE kept[i - 1]
  IN  kept[Len(q)]

\* settle_pending_immediate: of the pending messages the unread ones are the
\* caller's to requeue, the others count as applied.
UnreadOf(s, unread) == Only(s.pending, unread)
ReadOf(s, unread)   == Only(s.pending, ToSet(s.pending) \ unread)

ApprovalAdded(s, a) == [s EXCEPT !.approvals = @ \cup {a}]

\* resolve_approval: validate first, consume only when everything matches.
Resolvable(s, r, id, call, timedOut) ==
  /\ s.run = r
  /\ ~TerminalPhase(s.phase)
  /\ \E a \in s.approvals : a.id = id /\ a.run = r /\ a.call = call
  /\ id \notin timedOut

ApprovalConsumed(s, id) == [s EXCEPT !.approvals = {a \in @ : a.id # id}]

\* set_run_snapshot: only for the active run, and only once.
CanFreeze(s, r) == s.run = r /\ s.snap # r
Frozen(s, r)    == [s EXCEPT !.snap = r]

\* close_idle_runner: INTERRUPTED is not among the phases it closes.
CanCloseIdle(s) ==
  s.runner # NoRunner /\ s.phase \in {"completed", "cancelled", "failed", "dormant"}
IdleClosed(s) == [s EXCEPT !.runner = NoRunner, !.status = "dormant"]

=============================================================================
