---------------------------- MODULE ThreadSession ----------------------------
(***************************************************************************)
(* One thread's session under arbitrary interleavings of the manager's      *)
(* callers: clients sending and retrying inputs, the code that starts Runs, *)
(* the run loop that declares phases, raises approvals and ends the Run,    *)
(* users answering approvals, and the idle sweep.                           *)
(***************************************************************************)
EXTENDS SessionOps

CONSTANTS CallersCheck,  \* callers ask has_active_run before start_run
          MaxAccepts     \* bound: inputs the thread routes in one behaviour

ASSUME CallerConstants == CallersCheck \in BOOLEAN /\ MaxAccepts \in Nat

Delivery       == {"auto", "immediate", "enqueue"}
DeclaredPhase  == {"running_tool", "running", "waiting_approval"}
Outcome        == {"completed", "cancelled", "failed"}
Fate           == {"none", "pending", "granted", "denied", "expired"}

VARIABLES
  sess,       \* the session record
  used,       \* runs that start_run has begun
  loops,      \* runs whose run loop has not come to its end
  ended,      \* runs that reached a terminal transition
  delivered,  \* messages a run or its conversation received, in order
  evicted,    \* messages whose receipt left the bounded history
  rank,       \* acceptance number of each message (0: never accepted)
  lane,       \* run whose pending list the message joined (NoRun: the queue)
  timedOut,   \* approvals past their expires_at
  fate        \* what became of each approval

vars == <<sess, used, loops, ended, delivered, evicted, rank, lane, timedOut, fate>>
history == <<used, loops, ended, delivered, evicted, rank, lane, timedOut, fate>>

Init ==
  /\ sess = NewSession
  /\ used = {} /\ loops = {} /\ ended = {} /\ delivered = <<>> /\ evicted = {}
  /\ rank = [m \in Message |-> 0]
  /\ lane = [m \in Message |-> NoRun]
  /\ timedOut = {}
  /\ fate = [a \in Approval |-> "none"]

-----------------------------------------------------------------------------

NextRank == 1 + Len(delivered) + Len(sess.queue) + Len(sess.pending)

\* send_input of a message whose id is not accounted for: it is routed and its
\* receipt remembered, which may push the oldest receipt out.
SendNew(m, d) ==
  /\ ~Accounted(sess, m)
  /\ NextRank <= MaxAccepts
  /\ sess' = Routed(sess, m, d)
  /\ rank' = [rank EXCEPT ![m] = NextRank]
  /\ lane' = [lane EXCEPT ![m] = IF RoutedToPending(sess, d) THEN sess.run ELSE NoRun]
  /\ evicted' = evicted \cup (ToSet(Append(sess.receipts, m)) \ ToSet(sess'.receipts))
  /\ UNCHANGED <<used, loops, ended, delivered, timedOut, fate>>

\* send_input of a message id that is accounted for: the receipt is replayed.
SendRetry(m) == Accounted(sess, m) /\ UNCHANGED vars

\* start_run with a fresh run id.
StartRun(r, rn) ==
  /\ r \notin used
  /\ CallersCheck => ~HasActiveRun(sess)
  /\ CanStart(sess)
  /\ sess' = Started(sess, r, rn)
  /\ used' = used \cup {r}
  /\ loops' = loops \cup {r}
  /\ delivered' = Append(delivered, Head(sess.queue))
  /\ UNCHANGED <<ended, evicted, rank, lane, timedOut, fate>>

\* update_run_phase: the phases RunEngine declares around each event.
UpdateRunPhase(r, p) ==
  /\ loops # {}
  /\ CanDeclare(sess, r, p)
  /\ sess' = Declared(sess, p)
  /\ UNCHANGED history

\* take_pending_immediate: the pending inputs become steering of the run.
TakePendingImmediate ==
  /\ sess.pending # <<>>
  /\ sess' = PendingTaken(sess)
  /\ delivered' = delivered \o sess.pending
  /\ UNCHANGED <<used, loops, ended, evicted, rank, lane, timedOut, fate>>

\* The end of run_loop: before_finish settles the pending inputs, then the
\* terminal transition is tried.  A checkpoint drains everything that is
\* pending, so the first n were read and the unread ones are a suffix.  A loop
\* completes right after the RunEnd event, which declares the running phase.
Settled(n) ==
  [AtHead(sess, SubSeq(sess.pending, n + 1, Len(sess.pending)))
     EXCEPT !.pending = <<>>]

Finish(r, p, base) ==
  /\ r \in loops
  /\ p = "completed" /\ sess.run = r => sess.phase = "running"
  /\ loops' = loops \ {r}
  /\ IF CanEnd(base, r, p)
       THEN /\ sess' = Ended(base, p)
            /\ ended' = ended \cup {r}
            /\ fate' = [a \in Approval |->
                          IF \E q \in sess.approvals : q.id = a THEN "expired" ELSE fate[a]]
       ELSE /\ sess' = base
            /\ UNCHANGED <<ended, fate>>
  /\ UNCHANGED <<used, evicted, rank, lane, timedOut>>

EndRun(r, p, n) ==
  /\ Finish(r, p, Settled(n))
  /\ delivered' = delivered \o SubSeq(sess.pending, 1, n)

\* The end of a loop that was given no before_finish hook.
EndRunUnsettled(r, p) == Finish(r, p, sess) /\ UNCHANGED delivered

\* add_approval: run_loop raises it with the run id it reads from the session.
AddApproval(a, c) ==
  /\ loops # {} /\ HasActiveRun(sess)
  /\ fate[a] = "none"
  /\ sess' = ApprovalAdded(sess, [id |-> a, run |-> sess.run, call |-> c])
  /\ fate' = [fate EXCEPT ![a] = "pending"]
  /\ UNCHANGED <<used, loops, ended, delivered, evicted, rank, lane, timedOut>>

\* resolve_approval with whatever scope the client sends.
ResolveApproval(r, a, c, ok) ==
  /\ Resolvable(sess, r, a, c, timedOut)
  /\ sess' = ApprovalConsumed(sess, a)
  /\ fate' = [fate EXCEPT ![a] = IF ok THEN "granted" ELSE "denied"]
  /\ UNCHANGED <<used, loops, ended, delivered, evicted, rank, lane, timedOut>>

\* The clock passes an approval's expires_at.
ApprovalTimesOut(a) ==
  /\ fate[a] = "pending"
  /\ timedOut' = timedOut \cup {a}
  /\ UNCHANGED <<sess, used, loops, ended, delivered, evicted, rank, lane, fate>>

\* take_expired_approvals: the front end reports and forgets them.
TakeExpired ==
  /\ sess.expired # {}
  /\ sess' = [sess EXCEPT !.expired = {}]
  /\ UNCHANGED history

\* set_run_snapshot
SetRunSnapshot(r) ==
  /\ CanFreeze(sess, r)
  /\ sess' = Frozen(sess, r)
  /\ UNCHANGED history

\* close_idle_runner once the idle TTL has passed.
CloseIdleRunner ==
  /\ CanCloseIdle(sess)
  /\ sess' = IdleClosed(sess)
  /\ UNCHANGED history

Next ==
  \/ \E m \in Message : SendRetry(m) \/ \E d \in Delivery : SendNew(m, d)
  \/ \E r \in Run : SetRunSnapshot(r) \/ \E rn \in Runner : StartRun(r, rn)
  \/ \E r \in Run, p \in DeclaredPhase : UpdateRunPhase(r, p)
  \/ \E r \in Run, p \in Outcome, n \in 0..Len(sess.pending) : EndRun(r, p, n)
  \/ \E r \in Run, p \in Outcome : EndRunUnsettled(r, p)
  \/ TakePendingImmediate \/ TakeExpired \/ CloseIdleRunner
  \/ \E a \in Approval, c \in Call : AddApproval(a, c)
  \/ \E r \in Run, a \in Approval, c \in Call, ok \in BOOLEAN : ResolveApproval(r, a, c, ok)
  \/ \E a \in Approval : ApprovalTimesOut(a)

Spec == Init /\ [][Next]_vars

-----------------------------------------------------------------------------
\* Every session keeps its type, and its receipt history its limit.
TypeOK ==
  /\ sess \in Session /\ Len(sess.receipts) <= ReceiptLimit
  /\ used \subseteq Run /\ loops \subseteq used /\ ended \subseteq used
  /\ delivered \in Seq(Message) /\ evicted \subseteq Message
  /\ rank \in [Message -> Nat]
  /\ lane \in [Message -> Run \cup {NoRun}]
  /\ timedOut \subseteq Approval
  /\ fate \in [Approval -> Fate]

\* "The input is always accounted for -- no silent loss": an accepted message
\* is waiting in the queue, pending for a checkpoint, or was delivered.
NoSilentLoss ==
  {m \in Message : rank[m] > 0}
     = ToSet(sess.queue) \cup ToSet(sess.pending) \cup ToSet(delivered)

\* However often a client retries, and even after the bounded history forgot
\* the receipt, a message waits at most once (queue and pending together).
WaitsOnce ==
  /\ IsInjective(sess.queue)
  /\ IsInjective(sess.pending)
  /\ ToSet(sess.queue) \cap ToSet(sess.pending) = {}

\* A message is delivered a second time only if its receipt had been evicted.
DeliveredOnce ==
  /\ \A i, j \in DOMAIN delivered :
        i # j /\ delivered[i] = delivered[j] => delivered[i] \in evicted
  /\ ToSet(delivered) \cap (ToSet(sess.queue) \cup ToSet(sess.pending)) \subseteq evicted

\* Nothing waits for a checkpoint of a run that is over (or was never begun):
\* every terminal transition moves the pending inputs to the queue.
NoStrandedImmediate == ~HasActiveRun(sess) => sess.pending = <<>>

\* Inputs of one lane (the queue, or one run's immediates) keep their order.
InLaneOrder(q) ==
  \A i, j \in DOMAIN q : i < j /\ lane[q[i]] = lane[q[j]] => rank[q[i]] < rank[q[j]]
LanesInOrder == InLaneOrder(sess.queue) /\ InLaneOrder(sess.pending)

\* Each raised approval has exactly one fate and waits exactly while pending.
ApprovalsAccounted ==
  /\ \A a \in Approval : fate[a] = "pending" <=> \E q \in sess.approvals : q.id = a
  /\ \A p, q \in sess.approvals : p.id = q.id => p = q

\* An approval is granted only to the live run that raised it, in time.
GrantedInScope ==
  [][\A a \in Approval :
       fate[a] # "granted" /\ fate'[a] = "granted" =>
         /\ HasActiveRun(sess) /\ a \notin timedOut
         /\ \E q \in sess.approvals : q.id = a /\ q.run = sess.run]_vars

\* Approvals never outlive their run: what is pending belongs to the live run.
ApprovalsOfLiveRun ==
  \A q \in sess.approvals : HasActiveRun(sess) /\ q.run = sess.run

\* Every run that was begun is either the session's or has ended, and only the
\* session's own run still has a loop at work.
NoRunAbandoned == used \subseteq ended \cup {sess.run} /\ loops \subseteq {sess.run}

\* A Run that is over has left nothing behind: no approval and no loop.
RunsLeaveNothing == ApprovalsOfLiveRun /\ NoRunAbandoned

=============================================================================
