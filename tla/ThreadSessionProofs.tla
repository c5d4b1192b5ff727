-------------------------- MODULE ThreadSessionProofs --------------------------
(***************************************************************************)
(* What holds of one thread's session for every set of messages, runs and   *)
(* approvals, every length of the receipt history and every bound.          *)
(***************************************************************************)
EXTENDS ThreadSession, SessionOpsProofs

-----------------------------------------------------------------------------
(* Type correctness *)

LEMMA InitType == Init => TypeOK
<1> SUFFICES ASSUME Init PROVE TypeOK
  OBVIOUS
<1>1. NewSession \in Session
  BY EmptySeq DEF NewSession, Session, Phase
<1> QED BY <1>1, EmptySeq, SessionConstants
           DEF Init, TypeOK, NewSession, Fate

\* The waiting inputs, cut or moved by the end of a loop, are still inputs.
LEMMA SettledType ==
  ASSUME TypeOK, NEW n \in 0..Len(sess.pending)
  PROVE  /\ Settled(n) \in Session
         /\ SubSeq(sess.pending, 1, n) \in Seq(Message)
         /\ Settled(n) = [sess EXCEPT
              !.queue = SubSeq(sess.pending, n + 1, Len(sess.pending)) \o sess.queue,
              !.pending = <<>>]
<1> DEFINE u == SubSeq(sess.pending, n + 1, Len(sess.pending))
<1>1. sess \in Session /\ sess.pending \in Seq(Message) /\ <<>> \in Seq(Message)
  BY EmptySeq DEF TypeOK, Session
<1>2. SubSeq(sess.pending, 1, n) \in Seq(Message) /\ u \in Seq(Message)
  BY <1>1, ToSetOfCut
<1>3. u \o sess.queue \in Seq(Message)
  BY <1>1, <1>2, ConcatProperties DEF Session
<1>4. Settled(n) = [sess EXCEPT !.queue = u \o sess.queue, !.pending = <<>>]
  BY <1>1 DEF Settled, AtHead, Session
<1>5. Settled(n) \in Session
  BY <1>1, <1>3 DEF Settled, AtHead, Session
<1> QED BY <1>2, <1>4, <1>5

LEMMA SettledFields ==
  ASSUME TypeOK, NEW n \in 0..Len(sess.pending)
  PROVE  /\ Settled(n) \in Session /\ Settled(n).pending = <<>>
         /\ Settled(n).run = sess.run /\ Settled(n).phase = sess.phase
         /\ Settled(n).approvals = sess.approvals /\ Settled(n).expired = sess.expired
         /\ Settled(n).receipts = sess.receipts
<1>1. sess \in Session
  BY DEF TypeOK
<1> QED BY <1>1, SettledType DEF Session

\* Steps that leave the run and its phase alone.
LEMMA RunUntouched ==
  ASSUME sess \in Session,
         \/ TakeExpired \/ TakePendingImmediate \/ CloseIdleRunner
         \/ \E r \in Run : SetRunSnapshot(r)
         \/ \E m \in Message, d \in Delivery : SendNew(m, d)
         \/ \E a \in Approval, c \in Call : AddApproval(a, c)
         \/ \E r \in Run, a \in Approval, c \in Call, ok \in BOOLEAN : ResolveApproval(r, a, c, ok)
  PROVE  sess'.run = sess.run /\ sess'.phase = sess.phase
<1>1. CASE TakeExpired \/ TakePendingImmediate \/ CloseIdleRunner
  BY <1>1 DEF TakeExpired, TakePendingImmediate, PendingTaken, CloseIdleRunner, IdleClosed, Session
<1>2. CASE \E r \in Run : SetRunSnapshot(r)
  BY <1>2 DEF SetRunSnapshot, Frozen, Session
<1>3. CASE \E m \in Message, d \in Delivery : SendNew(m, d)
  BY ZenonT(40), <1>3 DEF SendNew, Routed, Enqueued, MadePending, Session
<1>4. CASE \E a \in Approval, c \in Call : AddApproval(a, c)
  BY <1>4 DEF AddApproval, ApprovalAdded, Session
<1>5. CASE \E r \in Run, a \in Approval, c \in Call, ok \in BOOLEAN : ResolveApproval(r, a, c, ok)
  BY <1>5 DEF ResolveApproval, ApprovalConsumed, Session
<1> QED BY <1>1, <1>2, <1>3, <1>4, <1>5

\* Finish leaves a session, whatever the settled session it starts from.
LEMMA FinishType ==
  ASSUME TypeOK, NEW r \in Run, NEW p \in Outcome, NEW base \in Session,
         base.receipts = sess.receipts, Finish(r, p, base)
  PROVE  /\ sess' \in Session /\ Len(sess'.receipts) <= ReceiptLimit
         /\ fate' \in [Approval -> Fate]
         /\ loops' \subseteq used' /\ ended' \subseteq used'
         /\ UNCHANGED <<used, evicted, rank, lane, timedOut>>
<1>1. p \in Phase
  BY DEF Outcome, Phase
<1>2. Ended(base, p) \in Session /\ Ended(base, p).receipts = base.receipts
  BY <1>1, EndedFields
<1> QED BY <1>2 DEF Finish, TypeOK, Fate

LEMMA NextType == TypeOK /\ [Next]_vars => TypeOK'
<1> SUFFICES ASSUME TypeOK, [Next]_vars PROVE TypeOK'
  OBVIOUS
<1> USE DEF TypeOK
<1>0. sess.queue \in Seq(Message) /\ sess.pending \in Seq(Message)
      /\ sess.receipts \in Seq(Message)
  BY DEF Session
<1>1. ASSUME NEW m \in Message, NEW d \in Delivery, SendNew(m, d)
      PROVE TypeOK'
  <2>1. sess' \in Session /\ Len(sess'.receipts) <= ReceiptLimit
    BY <1>1, RoutedType DEF SendNew
  <2>2. NextRank \in Nat
    <3>1. Len(delivered) \in Nat /\ Len(sess.queue) \in Nat /\ Len(sess.pending) \in Nat
      BY <1>0, LenProperties
    <3>2. \A a, b, c \in Nat : 1 + a + b + c \in Nat
      OBVIOUS
    <3> QED BY <3>1, <3>2 DEF NextRank
  <2>3. ToSet(Append(sess.receipts, m)) \subseteq Message
    BY <1>0, AppendProperties, ToSetOfSeq
  <2>4. sess.run \in Run \cup {NoRun}
    BY DEF Session
  <2>5. rank' \in [Message -> Nat]
    BY <1>1, <2>2 DEF SendNew
  <2>6. lane' \in [Message -> Run \cup {NoRun}]
    BY <1>1, <2>4 DEF SendNew
  <2>7. evicted' \subseteq Message
    BY <1>1, <2>3 DEF SendNew
  <2> QED BY <1>1, <2>1, <2>5, <2>6, <2>7 DEF SendNew
<1>2. ASSUME NEW m \in Message, SendRetry(m) PROVE TypeOK'
  BY <1>2 DEF SendRetry, vars
<1>3. ASSUME NEW r \in Run, NEW rn \in Runner, StartRun(r, rn) PROVE TypeOK'
  <2>1. sess.queue # <<>>
    BY <1>3 DEF StartRun, CanStart
  <2>2. sess' \in Session
    BY <1>3, <2>1, StartedType DEF StartRun
  <2>4. sess'.receipts = sess.receipts
    BY <1>3 DEF StartRun, Started, Session
  <2>3. Append(delivered, Head(sess.queue)) \in Seq(Message)
    BY <1>0, <2>1, HeadTailProperties, AppendProperties
  <2> QED BY <1>3, <2>2, <2>3, <2>4 DEF StartRun
<1>4. ASSUME NEW r \in Run, NEW p \in DeclaredPhase, UpdateRunPhase(r, p) PROVE TypeOK'
  <2>1. p \in Phase
    BY DEF DeclaredPhase, Phase
  <2> QED BY <1>4, <2>1 DEF UpdateRunPhase, Declared, history, Session
<1>5. ASSUME NEW r \in Run, NEW p \in Outcome, NEW n \in 0..Len(sess.pending), EndRun(r, p, n)
      PROVE TypeOK'
  <2>1. Settled(n) \in Session /\ Settled(n).receipts = sess.receipts
        /\ SubSeq(sess.pending, 1, n) \in Seq(Message)
    BY SettledFields, SettledType
  <2>2. delivered' \in Seq(Message)
    BY <1>5, <2>1, ConcatProperties DEF EndRun
  <2> QED BY <1>5, <2>1, <2>2, FinishType DEF EndRun
<1>6. ASSUME NEW r \in Run, NEW p \in Outcome, EndRunUnsettled(r, p) PROVE TypeOK'
  BY <1>6, FinishType DEF EndRunUnsettled
<1>7. ASSUME TakePendingImmediate PROVE TypeOK'
  BY <1>7, <1>0, EmptySeq, ConcatProperties DEF TakePendingImmediate, PendingTaken, Session
<1>8. ASSUME TakeExpired PROVE TypeOK'
  BY <1>8 DEF TakeExpired, history, Session
<1>9. ASSUME CloseIdleRunner PROVE TypeOK'
  BY <1>9 DEF CloseIdleRunner, IdleClosed, history, Session
<1>10. ASSUME NEW r \in Run, SetRunSnapshot(r) PROVE TypeOK'
  BY <1>10 DEF SetRunSnapshot, Frozen, history, Session
<1>11. ASSUME NEW a \in Approval, NEW c \in Call, AddApproval(a, c) PROVE TypeOK'
  <2>1. sess.run \in Run
    BY <1>11 DEF AddApproval, HasActiveRun, Session
  <2>2. [id |-> a, run |-> sess.run, call |-> c] \in Request
    BY <2>1 DEF Request
  <2> QED BY <1>11, <2>2 DEF AddApproval, ApprovalAdded, Session, Fate
<1>12. ASSUME NEW r \in Run, NEW a \in Approval, NEW c \in Call, NEW ok \in BOOLEAN,
              ResolveApproval(r, a, c, ok)
       PROVE TypeOK'
  BY <1>12 DEF ResolveApproval, ApprovalConsumed, Session, Fate
<1>13. ASSUME NEW a \in Approval, ApprovalTimesOut(a) PROVE TypeOK'
  BY <1>13 DEF ApprovalTimesOut
<1>14. CASE UNCHANGED vars
  BY <1>14 DEF vars
<1> QED BY <1>1, <1>2, <1>3, <1>4, <1>5, <1>6, <1>7, <1>8, <1>9, <1>10, <1>11, <1>12,
           <1>13, <1>14 DEF Next

\* The session stays a session: in particular the receipt history never holds
\* more than ReceiptLimit entries (_trim_receipt_history on every path).
THEOREM TypeCorrect == Spec => []TypeOK
<1> QED BY InitType, NextType, PTL DEF Spec

-----------------------------------------------------------------------------
(* Inputs that wait for a checkpoint *)

LEMMA ActiveAfter ==
  ASSUME NEW s, NEW r \in Run, NEW p \in DeclaredPhase \cup {"running"},
         s.run = r, s.phase = p
  PROVE  HasActiveRun(s)
BY SessionConstants DEF HasActiveRun, DeclaredPhase, EndPhase

\* What the steps that are not the end of a loop do to the waiting immediates.
LEMMA StrandedStep ==
  ASSUME TypeOK, TypeOK', NoStrandedImmediate, [Next]_vars
  PROVE  NoStrandedImmediate'
<1> USE DEF NoStrandedImmediate
<1>0. sess \in Session
  BY DEF TypeOK
<1>1. ASSUME NEW m \in Message, NEW d \in Delivery, SendNew(m, d)
      PROVE NoStrandedImmediate'
  <2>1. sess'.run = sess.run /\ sess'.phase = sess.phase
    BY <1>0, <1>1 DEF SendNew, Routed, Enqueued, MadePending, Session
  <2>2. ~HasActiveRun(sess) => sess'.pending = sess.pending
    BY <1>0, <1>1 DEF SendNew, Routed, RoutedToPending, Enqueued, Session
  <2> QED BY <2>1, <2>2 DEF HasActiveRun
<1>2. ASSUME NEW r \in Run, NEW rn \in Runner, StartRun(r, rn)
      PROVE NoStrandedImmediate'
  <2>1. sess'.run = r /\ sess'.phase = "running"
    BY <1>0, <1>2 DEF StartRun, Started, Session
  <2> QED BY <2>1, ActiveAfter
<1>3. ASSUME NEW r \in Run, NEW p \in DeclaredPhase, UpdateRunPhase(r, p)
      PROVE NoStrandedImmediate'
  <2>1. sess'.run = r /\ sess'.phase = p
    BY <1>0, <1>3 DEF UpdateRunPhase, CanDeclare, Declared, Session
  <2> QED BY <2>1, ActiveAfter
<1>4. ASSUME NEW r \in Run, NEW p \in Outcome, NEW n \in 0..Len(sess.pending), EndRun(r, p, n)
      PROVE NoStrandedImmediate'
  <2>1. p \in Phase
    BY DEF Outcome, Phase
  <2>2. Settled(n) \in Session /\ Settled(n).pending = <<>>
    BY SettledFields
  <2>3. Ended(Settled(n), p).pending = <<>>
    BY <2>1, <2>2, EndedFields
  <2> QED BY <1>4, <2>2, <2>3 DEF EndRun, Finish
<1>5. ASSUME NEW r \in Run, NEW p \in Outcome, EndRunUnsettled(r, p)
      PROVE NoStrandedImmediate'
  <2>1. p \in Phase
    BY DEF Outcome, Phase
  <2>2. Ended(sess, p).pending = <<>>
    BY <1>0, <2>1, EndedFields
  <2> QED BY <1>5, <2>2 DEF EndRunUnsettled, Finish, HasActiveRun
<1>6. CASE TakePendingImmediate
  BY <1>0, <1>6 DEF TakePendingImmediate, PendingTaken, Session
<1>7. ASSUME \/ TakeExpired \/ CloseIdleRunner \/ \E r \in Run : SetRunSnapshot(r)
             \/ \E a \in Approval, c \in Call : AddApproval(a, c)
             \/ \E r \in Run, a \in Approval, c \in Call, ok \in BOOLEAN :
                   ResolveApproval(r, a, c, ok)
      PROVE NoStrandedImmediate'
  <2>1. sess'.run = sess.run /\ sess'.phase = sess.phase /\ sess'.pending = sess.pending
    BY <1>0, <1>7 DEF TakeExpired, CloseIdleRunner, IdleClosed, SetRunSnapshot, Frozen,
                      AddApproval, ApprovalAdded, ResolveApproval, ApprovalConsumed, Session
  <2> QED BY <2>1 DEF HasActiveRun
<1>8. CASE \/ UNCHANGED vars \/ \E m \in Message : SendRetry(m)
           \/ \E a \in Approval : ApprovalTimesOut(a)
  BY <1>8 DEF SendRetry, ApprovalTimesOut, vars, HasActiveRun
<1> QED BY <1>1, <1>2, <1>3, <1>4, <1>5, <1>6, <1>7, <1>8 DEF Next

\* No input is left waiting for a checkpoint of a run that is over: every
\* terminal transition defers the pending immediates to the queue.
THEOREM NothingStranded == Spec => []NoStrandedImmediate
<1>1. Init => NoStrandedImmediate
  BY DEF Init, NoStrandedImmediate, NewSession
<1> QED BY <1>1, TypeCorrect, StrandedStep, PTL DEF Spec

-----------------------------------------------------------------------------
(* No input is lost, none waits twice *)

\* The end of a loop moves the pending inputs in front of the queue, or nothing.
LEMMA FinishMoves ==
  ASSUME NEW r \in Run, NEW p \in Outcome, NEW base \in Session, Finish(r, p, base)
  PROVE  \/ sess'.queue = base.pending \o base.queue /\ sess'.pending = <<>>
         \/ sess'.queue = base.queue /\ sess'.pending = base.pending
<1>1. p \in Phase
  BY DEF Outcome, Phase
<1>2. Ended(base, p).queue = base.pending \o base.queue /\ Ended(base, p).pending = <<>>
  BY <1>1, EndedFields
<1> QED BY <1>2 DEF Finish

\* The end of a loop forgets no receipt.
LEMMA FinishReceipts ==
  ASSUME NEW r \in Run, NEW p \in Outcome, NEW base \in Session, Finish(r, p, base)
  PROVE  sess'.receipts = base.receipts
<1>1. p \in Phase
  BY DEF Outcome, Phase
<1>2. Ended(base, p).receipts = base.receipts
  BY <1>1, EndedFields
<1> QED BY <1>2 DEF Finish

\* A settled loop leaves the unread suffix in front of the queue, either way.
LEMMA EndRunMoves ==
  ASSUME TypeOK, NEW r \in Run, NEW p \in Outcome, NEW n \in 0..Len(sess.pending),
         EndRun(r, p, n)
  PROVE  /\ sess'.queue = SubSeq(sess.pending, n + 1, Len(sess.pending)) \o sess.queue
         /\ sess'.pending = <<>>
<1> DEFINE q == SubSeq(sess.pending, n + 1, Len(sess.pending)) \o sess.queue
<1>1. Settled(n) \in Session
  BY SettledType
<1>2. Settled(n).queue = q /\ Settled(n).pending = <<>>
  BY DEF Settled, AtHead, TypeOK, Session
<1>3. <<>> \o q = q
  BY <1>1, <1>2, ConcatEmptySeq DEF Session
<1> QED BY <1>1, <1>2, <1>3, FinishMoves DEF EndRun

\* The inputs the thread ever routed, and where they are now.
AllRouted == {m \in Message : rank[m] > 0}
Held      == ToSet(sess.queue) \cup ToSet(sess.pending) \cup ToSet(delivered)

LEMMA LossStep ==
  ASSUME TypeOK, NoSilentLoss, [Next]_vars
  PROVE  NoSilentLoss'
<1>0. /\ sess \in Session /\ sess.queue \in Seq(Message) /\ sess.pending \in Seq(Message)
      /\ delivered \in Seq(Message) /\ rank \in [Message -> Nat]
  BY DEF TypeOK, Session
<1>1. AllRouted = Held
  BY DEF NoSilentLoss, AllRouted, Held
<1> SUFFICES AllRouted' = Held'
  BY DEF NoSilentLoss, AllRouted, Held
<1>2. ASSUME NEW m \in Message, NEW d \in Delivery, SendNew(m, d)
      PROVE AllRouted' = Held'
  <2>1. NextRank \in Nat /\ NextRank > 0
    <3>1. Len(delivered) \in Nat /\ Len(sess.queue) \in Nat /\ Len(sess.pending) \in Nat
      BY <1>0, LenProperties
    <3>2. \A a, b, c \in Nat : 1 + a + b + c \in Nat /\ 1 + a + b + c > 0
      OBVIOUS
    <3> QED BY <3>1, <3>2 DEF NextRank
  <2>2. AllRouted' = AllRouted \cup {m}
    BY <1>0, <1>2, <2>1 DEF SendNew, AllRouted
  <2>3. \/ sess'.queue = Append(sess.queue, m) /\ sess'.pending = sess.pending
        \/ sess'.queue = sess.queue /\ sess'.pending = Append(sess.pending, m)
    BY <1>0, <1>2 DEF SendNew, Routed, Enqueued, MadePending, Session
  <2>4. /\ ToSet(Append(sess.queue, m)) = ToSet(sess.queue) \cup {m}
        /\ ToSet(Append(sess.pending, m)) = ToSet(sess.pending) \cup {m}
    BY <1>0, ToSetOfAppend
  <2>5. delivered' = delivered
    BY <1>2 DEF SendNew
  <2>6. Held' = Held \cup {m}
    BY <2>3, <2>4, <2>5 DEF Held
  <2> QED BY <1>1, <2>2, <2>6
<1>3. ASSUME NEW r \in Run, NEW rn \in Runner, StartRun(r, rn)
      PROVE AllRouted' = Held'
  <2>1. sess.queue # <<>> /\ sess'.queue = Tail(sess.queue) /\ sess'.pending = sess.pending
    BY <1>0, <1>3 DEF StartRun, CanStart, Started, Session
  <2>2. /\ delivered' = Append(delivered, Head(sess.queue))
        /\ Head(sess.queue) \in Message
    BY <1>0, <1>3, <2>1, HeadTailProperties DEF StartRun
  <2>3. /\ ToSet(delivered') = ToSet(delivered) \cup {Head(sess.queue)}
        /\ ToSet(sess.queue) = {Head(sess.queue)} \cup ToSet(sess'.queue)
    BY <1>0, <2>1, <2>2, ToSetOfAppend, ToSetOfTail
  <2>4. AllRouted' = AllRouted
    BY <1>3 DEF StartRun, AllRouted
  <2> QED BY <1>1, <2>1, <2>3, <2>4 DEF Held
<1>4. ASSUME NEW r \in Run, NEW p \in Outcome, NEW n \in 0..Len(sess.pending), EndRun(r, p, n)
      PROVE AllRouted' = Held'
  <2> DEFINE a == SubSeq(sess.pending, 1, n)
             u == SubSeq(sess.pending, n + 1, Len(sess.pending))
  <2>1. a \in Seq(Message) /\ u \in Seq(Message) /\ ToSet(sess.pending) = ToSet(a) \cup ToSet(u)
    BY <1>0, ToSetOfCut
  <2>2. sess'.queue = u \o sess.queue /\ sess'.pending = <<>>
    BY <1>4, EndRunMoves
  <2>3. delivered' = delivered \o a /\ rank' = rank
    BY <1>4 DEF EndRun, Finish
  <2> HIDE DEF a, u
  <2>4. /\ ToSet(sess'.queue) = ToSet(u) \cup ToSet(sess.queue)
        /\ ToSet(delivered') = ToSet(delivered) \cup ToSet(a)
        /\ ToSet(sess'.pending) = {}
    BY <1>0, <2>1, <2>2, <2>3, ToSetOfConcat, ToSetOfEmpty
  <2> QED BY <1>1, <2>1, <2>3, <2>4 DEF Held, AllRouted
<1>5. ASSUME NEW r \in Run, NEW p \in Outcome, EndRunUnsettled(r, p)
      PROVE AllRouted' = Held'
  <2>1. \/ sess'.queue = sess.pending \o sess.queue /\ sess'.pending = <<>>
        \/ sess'.queue = sess.queue /\ sess'.pending = sess.pending
    BY <1>0, <1>5, FinishMoves DEF EndRunUnsettled
  <2>2. ToSet(sess'.queue) \cup ToSet(sess'.pending) = ToSet(sess.queue) \cup ToSet(sess.pending)
    <3>1. ToSet(sess.pending \o sess.queue) = ToSet(sess.pending) \cup ToSet(sess.queue)
      BY <1>0, ToSetOfConcat
    <3> QED BY <2>1, <3>1, ToSetOfEmpty
  <2>3. delivered' = delivered /\ rank' = rank
    BY <1>5 DEF EndRunUnsettled, Finish
  <2> QED BY <1>1, <2>2, <2>3 DEF Held, AllRouted
<1>6. CASE TakePendingImmediate
  <2>1. sess'.queue = sess.queue /\ sess'.pending = <<>>
    BY <1>0, <1>6 DEF TakePendingImmediate, PendingTaken, Session
  <2>2. delivered' = delivered \o sess.pending /\ rank' = rank
    BY <1>6 DEF TakePendingImmediate
  <2>3. ToSet(delivered') = ToSet(delivered) \cup ToSet(sess.pending)
        /\ ToSet(sess'.pending) = {}
    BY <1>0, <2>1, <2>2, ToSetOfConcat, ToSetOfEmpty
  <2> QED BY <1>1, <2>1, <2>2, <2>3 DEF Held, AllRouted
<1>7. ASSUME \/ TakeExpired \/ CloseIdleRunner \/ \E r \in Run : SetRunSnapshot(r)
             \/ \E r \in Run, p \in DeclaredPhase : UpdateRunPhase(r, p)
             \/ \E a \in Approval, c \in Call : AddApproval(a, c)
             \/ \E r \in Run, a \in Approval, c \in Call, ok \in BOOLEAN :
                   ResolveApproval(r, a, c, ok)
      PROVE AllRouted' = Held'
  <2>1. /\ sess'.queue = sess.queue /\ sess'.pending = sess.pending
        /\ delivered' = delivered /\ rank' = rank
    BY <1>0, <1>7 DEF TakeExpired, CloseIdleRunner, IdleClosed, SetRunSnapshot, Frozen,
                      UpdateRunPhase, Declared, AddApproval, ApprovalAdded, ResolveApproval,
                      ApprovalConsumed, history, Session
  <2> QED BY <1>1, <2>1 DEF Held, AllRouted
<1>8. CASE \/ UNCHANGED vars \/ \E m \in Message : SendRetry(m)
           \/ \E a \in Approval : ApprovalTimesOut(a)
  BY <1>1, <1>8 DEF SendRetry, ApprovalTimesOut, vars, Held, AllRouted
<1> QED BY <1>2, <1>3, <1>4, <1>5, <1>6, <1>7, <1>8 DEF Next

\* "The input is always accounted for -- no silent loss" (session_manager.py):
\* every input the thread accepted waits, or was delivered; nothing else is.
THEOREM NoInputLostSilently == Spec => []NoSilentLoss
<1>1. Init => NoSilentLoss
  BY ToSetOfEmpty DEF Init, NoSilentLoss, NewSession
<1> QED BY <1>1, TypeCorrect, LossStep, PTL DEF Spec

LEMMA OnceStep ==
  ASSUME TypeOK, WaitsOnce, [Next]_vars
  PROVE  WaitsOnce'
<1>0. /\ sess \in Session /\ sess.queue \in Seq(Message) /\ sess.pending \in Seq(Message)
      /\ IsInjective(sess.queue) /\ IsInjective(sess.pending)
      /\ ToSet(sess.queue) \cap ToSet(sess.pending) = {}
  BY DEF TypeOK, Session, WaitsOnce
<1>e. IsInjective(<<>>) /\ ToSet(<<>>) = {}
  BY ToSetOfEmpty DEF IsInjective
<1>1. ASSUME NEW m \in Message, NEW d \in Delivery, SendNew(m, d)
      PROVE WaitsOnce'
  <2>1. \/ sess'.queue = Append(sess.queue, m) /\ sess'.pending = sess.pending
        \/ sess'.queue = sess.queue /\ sess'.pending = Append(sess.pending, m)
    BY <1>0, <1>1 DEF SendNew, Routed, Enqueued, MadePending, Session
  <2>2. m \notin ToSet(sess.queue) /\ m \notin ToSet(sess.pending)
    BY <1>1 DEF SendNew, Accounted
  <2>3. /\ ToSet(Append(sess.queue, m)) = ToSet(sess.queue) \cup {m}
        /\ ToSet(Append(sess.pending, m)) = ToSet(sess.pending) \cup {m}
    BY <1>0, ToSetOfAppend
  <2>4. IsInjective(Append(sess.queue, m)) /\ IsInjective(Append(sess.pending, m))
    BY <1>0, <2>2, InjectiveAppend
  <2> QED BY <1>0, <2>1, <2>2, <2>3, <2>4 DEF WaitsOnce
<1>2. ASSUME NEW r \in Run, NEW rn \in Runner, StartRun(r, rn)
      PROVE WaitsOnce'
  <2>1. sess.queue # <<>> /\ sess'.queue = Tail(sess.queue) /\ sess'.pending = sess.pending
    BY <1>0, <1>2 DEF StartRun, CanStart, Started, Session
  <2>2. IsInjective(Tail(sess.queue))
    BY <1>0, <2>1, InjectiveTail
  <2>3. ToSet(sess.queue) = {Head(sess.queue)} \cup ToSet(Tail(sess.queue))
    BY <1>0, <2>1, ToSetOfTail
  <2> QED BY <1>0, <2>1, <2>2, <2>3 DEF WaitsOnce
<1>3. ASSUME NEW r \in Run, NEW p \in Outcome, NEW n \in 0..Len(sess.pending), EndRun(r, p, n)
      PROVE WaitsOnce'
  <2> DEFINE u == SubSeq(sess.pending, n + 1, Len(sess.pending))
  <2>1. u \in Seq(Message) /\ ToSet(u) \subseteq ToSet(sess.pending)
    <3>1. u \in Seq(Message) /\ ToSet(sess.pending) = ToSet(SubSeq(sess.pending, 1, n)) \cup ToSet(u)
      BY <1>0, ToSetOfCut
    <3> HIDE DEF u
    <3> QED BY <3>1
  <2>2. IsInjective(u)
    BY <1>0, InjectiveSuffix
  <2>3. sess'.queue = u \o sess.queue /\ sess'.pending = <<>>
    BY <1>3, EndRunMoves
  <2> HIDE DEF u
  <2>4. IsInjective(u \o sess.queue)
    BY <1>0, <2>1, <2>2, InjectiveConcat
  <2> QED BY <1>e, <2>3, <2>4 DEF WaitsOnce
<1>4. ASSUME NEW r \in Run, NEW p \in Outcome, EndRunUnsettled(r, p)
      PROVE WaitsOnce'
  <2>1. \/ sess'.queue = sess.pending \o sess.queue /\ sess'.pending = <<>>
        \/ sess'.queue = sess.queue /\ sess'.pending = sess.pending
    BY <1>0, <1>4, FinishMoves DEF EndRunUnsettled
  <2>2. IsInjective(sess.pending \o sess.queue)
    BY <1>0, InjectiveConcat
  <2> QED BY <1>0, <1>e, <2>1, <2>2 DEF WaitsOnce
<1>5. CASE TakePendingImmediate
  <2>1. sess'.queue = sess.queue /\ sess'.pending = <<>>
    BY <1>0, <1>5 DEF TakePendingImmediate, PendingTaken, Session
  <2> QED BY <1>0, <1>e, <2>1 DEF WaitsOnce
<1>6. ASSUME \/ TakeExpired \/ CloseIdleRunner \/ \E r \in Run : SetRunSnapshot(r)
             \/ \E r \in Run, p \in DeclaredPhase : UpdateRunPhase(r, p)
             \/ \E a \in Approval, c \in Call : AddApproval(a, c)
             \/ \E r \in Run, a \in Approval, c \in Call, ok \in BOOLEAN :
                   ResolveApproval(r, a, c, ok)
      PROVE WaitsOnce'
  <2>1. sess'.queue = sess.queue /\ sess'.pending = sess.pending
    BY <1>0, <1>6 DEF TakeExpired, CloseIdleRunner, IdleClosed, SetRunSnapshot, Frozen,
                      UpdateRunPhase, Declared, AddApproval, ApprovalAdded, ResolveApproval,
                      ApprovalConsumed, history, Session
  <2> QED BY <1>0, <2>1 DEF WaitsOnce
<1>7. CASE \/ UNCHANGED vars \/ \E m \in Message : SendRetry(m)
           \/ \E a \in Approval : ApprovalTimesOut(a)
  BY <1>7 DEF SendRetry, ApprovalTimesOut, vars, WaitsOnce
<1> QED BY <1>1, <1>2, <1>3, <1>4, <1>5, <1>6, <1>7 DEF Next

\* However often a message is sent again, it never waits twice: neither twice in
\* the queue, nor twice for a checkpoint, nor in both.
THEOREM InputsWaitOnce == Spec => []WaitsOnce
<1>1. Init => WaitsOnce
  BY ToSetOfEmpty DEF Init, WaitsOnce, NewSession, IsInjective
<1> QED BY <1>1, TypeCorrect, OnceStep, PTL DEF Spec

-----------------------------------------------------------------------------
(* No input reaches a Run twice, unless the history forgot it *)

\* DeliveredOnce needs to know that a message is recognised as long as it was
\* not evicted: what the thread holds is in the history, or has left it.
Recognised == Held \subseteq ToSet(sess.receipts) \cup evicted
NoRepeat   == /\ RepeatsIn(delivered, evicted)
              /\ ToSet(delivered) \cap (ToSet(sess.queue) \cup ToSet(sess.pending)) \subseteq evicted
OnceInv    == WaitsOnce /\ Recognised /\ NoRepeat

\* A step that moves waiting inputs and forgets no receipt.
LEMMA MovesRecognised ==
  ASSUME Recognised, Held' = Held, sess'.receipts = sess.receipts, evicted' = evicted
  PROVE  Recognised'
BY DEF Recognised

LEMMA DeliveredStep ==
  ASSUME TypeOK, OnceInv, [Next]_vars
  PROVE  OnceInv'
<1>0. /\ sess \in Session /\ sess.queue \in Seq(Message) /\ sess.pending \in Seq(Message)
      /\ sess.receipts \in Seq(Message) /\ delivered \in Seq(Message)
      /\ IsInjective(sess.queue) /\ IsInjective(sess.pending)
      /\ ToSet(sess.queue) \cap ToSet(sess.pending) = {}
  BY DEF TypeOK, Session, OnceInv, WaitsOnce
<1>1. WaitsOnce'
  BY OnceStep DEF OnceInv
<1>2. Recognised /\ NoRepeat
  BY DEF OnceInv
<1> SUFFICES Recognised' /\ NoRepeat'
  BY <1>1 DEF OnceInv
<1>3. ASSUME NEW m \in Message, NEW d \in Delivery, SendNew(m, d)
      PROVE Recognised' /\ NoRepeat'
  <2>1. /\ m \notin ToSet(sess.receipts) /\ delivered' = delivered
        /\ evicted' = evicted \cup (ToSet(Append(sess.receipts, m)) \ ToSet(sess'.receipts))
    BY <1>3 DEF SendNew, Accounted
  <2>2. \/ sess'.queue = Append(sess.queue, m) /\ sess'.pending = sess.pending
        \/ sess'.queue = sess.queue /\ sess'.pending = Append(sess.pending, m)
    BY <1>0, <1>3 DEF SendNew, Routed, Enqueued, MadePending, Session
  <2>3. /\ ToSet(Append(sess.queue, m)) = ToSet(sess.queue) \cup {m}
        /\ ToSet(Append(sess.pending, m)) = ToSet(sess.pending) \cup {m}
        /\ ToSet(Append(sess.receipts, m)) = ToSet(sess.receipts) \cup {m}
    BY <1>0, ToSetOfAppend
  <2>4. Held' = Held \cup {m}
    BY <2>1, <2>2, <2>3 DEF Held
  <2>5. Recognised'
    BY <1>2, <2>1, <2>3, <2>4 DEF Recognised
  <2>6. m \in ToSet(delivered) => m \in evicted
    BY <1>2, <2>1 DEF Recognised, Held
  <2>7. evicted \subseteq evicted'
    BY <2>1
  <2>8. RepeatsIn(delivered', evicted')
    BY <1>2, <2>1, <2>7 DEF NoRepeat, RepeatsIn
  <2>9. ToSet(delivered') \cap (ToSet(sess'.queue) \cup ToSet(sess'.pending)) \subseteq evicted'
    BY <1>2, <2>1, <2>2, <2>3, <2>6, <2>7 DEF NoRepeat
  <2> QED BY <2>5, <2>8, <2>9 DEF NoRepeat
<1>4. ASSUME NEW r \in Run, NEW rn \in Runner, StartRun(r, rn)
      PROVE Recognised' /\ NoRepeat'
  <2> DEFINE h == Head(sess.queue)
  <2>1. /\ sess.queue # <<>> /\ sess'.queue = Tail(sess.queue) /\ sess'.pending = sess.pending
        /\ sess'.receipts = sess.receipts
    BY <1>0, <1>4 DEF StartRun, CanStart, Started, Session
  <2>2. /\ delivered' = Append(delivered, h) /\ evicted' = evicted /\ h \in Message
    BY <1>0, <1>4, <2>1, HeadTailProperties DEF StartRun
  <2>3. /\ ToSet(delivered') = ToSet(delivered) \cup {h}
        /\ ToSet(sess.queue) = {h} \cup ToSet(sess'.queue)
    BY <1>0, <2>1, <2>2, ToSetOfAppend, ToSetOfTail
  <2>4. Held' = Held
    BY <2>1, <2>3 DEF Held
  <2>5. h \notin ToSet(sess'.queue) /\ h \notin ToSet(sess'.pending)
    <3>1. h \notin ToSet(Tail(sess.queue))
      BY <1>0, <2>1, HeadNotInTail
    <3> QED BY <1>0, <2>1, <2>3, <3>1
  <2>6. RepeatsIn(delivered', evicted')
    BY <1>0, <1>2, <2>2, <2>3, RepeatsAppend DEF NoRepeat
  <2>7. ToSet(delivered') \cap (ToSet(sess'.queue) \cup ToSet(sess'.pending)) \subseteq evicted'
    BY <1>2, <2>1, <2>2, <2>3, <2>5 DEF NoRepeat
  <2> QED BY <1>2, <2>1, <2>2, <2>4, <2>6, <2>7, MovesRecognised DEF NoRepeat
<1>5. ASSUME NEW a \in Seq(Message), NEW u \in Seq(Message), sess.pending = a \o u,
             delivered' = delivered \o a, evicted' = evicted, sess'.receipts = sess.receipts,
             \/ sess'.queue = u \o sess.queue /\ sess'.pending = <<>>
             \/ sess'.queue = sess.queue /\ sess'.pending = u
      PROVE Recognised' /\ NoRepeat'
  <2>1. IsInjective(a) /\ IsInjective(u) /\ ToSet(a) \cap ToSet(u) = {}
    BY <1>0, <1>5, InjectiveParts
  <2>2. ToSet(sess.pending) = ToSet(a) \cup ToSet(u)
    BY <1>5, ToSetOfConcat
  <2>3. /\ ToSet(delivered') = ToSet(delivered) \cup ToSet(a)
        /\ ToSet(u \o sess.queue) = ToSet(u) \cup ToSet(sess.queue)
    BY <1>0, <1>5, ToSetOfConcat
  <2>4. ToSet(sess'.queue) \cup ToSet(sess'.pending) = ToSet(sess.queue) \cup ToSet(u)
    BY <1>5, <2>3, ToSetOfEmpty
  <2>5. Held' = Held
    BY <2>2, <2>3, <2>4 DEF Held
  <2>6. RepeatsIn(delivered', evicted')
    BY <1>0, <1>2, <1>5, <2>1, <2>2, RepeatsConcat DEF NoRepeat
  <2>7. ToSet(delivered') \cap (ToSet(sess'.queue) \cup ToSet(sess'.pending)) \subseteq evicted'
    BY <1>0, <1>2, <1>5, <2>1, <2>2, <2>3, <2>4 DEF NoRepeat
  <2> QED BY <1>2, <1>5, <2>5, <2>6, <2>7, MovesRecognised DEF NoRepeat
<1>6. ASSUME NEW r \in Run, NEW p \in Outcome, NEW n \in 0..Len(sess.pending), EndRun(r, p, n)
      PROVE Recognised' /\ NoRepeat'
  <2> DEFINE a == SubSeq(sess.pending, 1, n)
             u == SubSeq(sess.pending, n + 1, Len(sess.pending))
  <2>1. a \in Seq(Message) /\ u \in Seq(Message) /\ a \o u = sess.pending
    BY <1>0, ToSetOfCut
  <2>2. sess'.queue = u \o sess.queue /\ sess'.pending = <<>> /\ delivered' = delivered \o a
    BY <1>6, EndRunMoves DEF EndRun
  <2>3. evicted' = evicted /\ sess'.receipts = sess.receipts
    <3>1. Settled(n) \in Session /\ Settled(n).receipts = sess.receipts
      BY SettledFields
    <3>2. Finish(r, p, Settled(n))
      BY <1>6 DEF EndRun
    <3> QED BY <3>1, <3>2, FinishReceipts DEF Finish
  <2> HIDE DEF a, u
  <2> QED BY <1>5, <2>1, <2>2, <2>3
<1>7. ASSUME NEW r \in Run, NEW p \in Outcome, EndRunUnsettled(r, p)
      PROVE Recognised' /\ NoRepeat'
  <2>1. \/ sess'.queue = sess.pending \o sess.queue /\ sess'.pending = <<>>
        \/ sess'.queue = sess.queue /\ sess'.pending = sess.pending
    BY <1>0, <1>7, FinishMoves DEF EndRunUnsettled
  <2>2. evicted' = evicted /\ sess'.receipts = sess.receipts
    BY <1>0, <1>7, FinishReceipts DEF EndRunUnsettled, Finish
  <2>3. delivered' = delivered \o <<>> /\ sess.pending = <<>> \o sess.pending
        /\ <<>> \in Seq(Message)
    BY <1>0, <1>7, ConcatEmptySeq, EmptySeq DEF EndRunUnsettled
  <2> QED BY <1>0, <1>5, <2>1, <2>2, <2>3
<1>8. CASE TakePendingImmediate
  <2>1. /\ sess'.queue = sess.queue /\ sess'.pending = <<>> /\ sess'.receipts = sess.receipts
        /\ delivered' = delivered \o sess.pending /\ evicted' = evicted
    BY <1>0, <1>8 DEF TakePendingImmediate, PendingTaken, Session
  <2>2. sess.pending = sess.pending \o <<>> /\ <<>> \in Seq(Message)
    BY <1>0, ConcatEmptySeq, EmptySeq
  <2> QED BY <1>0, <1>5, <2>1, <2>2
<1>9. ASSUME \/ TakeExpired \/ CloseIdleRunner \/ \E r \in Run : SetRunSnapshot(r)
             \/ \E r \in Run, p \in DeclaredPhase : UpdateRunPhase(r, p)
             \/ \E a \in Approval, c \in Call : AddApproval(a, c)
             \/ \E r \in Run, a \in Approval, c \in Call, ok \in BOOLEAN :
                   ResolveApproval(r, a, c, ok)
      PROVE Recognised' /\ NoRepeat'
  <2>1. /\ sess'.queue = sess.queue /\ sess'.pending = sess.pending
        /\ sess'.receipts = sess.receipts
    BY <1>0, <1>9 DEF TakeExpired, CloseIdleRunner, IdleClosed, SetRunSnapshot, Frozen,
                      UpdateRunPhase, Declared, AddApproval, ApprovalAdded, ResolveApproval,
                      ApprovalConsumed, history, Session
  <2>2. UNCHANGED <<delivered, evicted>>
    BY <1>9 DEF TakeExpired, CloseIdleRunner, SetRunSnapshot, UpdateRunPhase, AddApproval,
                ResolveApproval, history
  <2> QED BY <1>2, <2>1, <2>2 DEF Recognised, Held, NoRepeat
<1>10. CASE \/ UNCHANGED vars \/ \E m \in Message : SendRetry(m)
            \/ \E a \in Approval : ApprovalTimesOut(a)
  BY <1>2, <1>10 DEF SendRetry, ApprovalTimesOut, vars, Recognised, Held, NoRepeat
<1> QED BY <1>3, <1>4, <1>6, <1>7, <1>8, <1>9, <1>10 DEF Next

\* A message reaches a Run a second time only if its receipt had left the
\* bounded history (_find_existing_receipt, _trim_receipt_history), whatever the
\* clients retry and however Runs start and end.
THEOREM NothingDeliveredTwice == Spec => []DeliveredOnce
<1>1. Init => OnceInv
  <2> SUFFICES ASSUME Init PROVE OnceInv
    OBVIOUS
  <2>1. /\ sess.queue = <<>> /\ sess.pending = <<>> /\ delivered = <<>>
    BY DEF Init, NewSession
  <2>2. Recognised /\ NoRepeat
    BY <2>1, ToSetOfEmpty DEF Recognised, Held, NoRepeat, RepeatsIn
  <2>3. WaitsOnce
    BY <2>1, ToSetOfEmpty DEF WaitsOnce, IsInjective
  <2> QED BY <2>2, <2>3 DEF OnceInv
<1>2. OnceInv => DeliveredOnce
  BY DEF OnceInv, NoRepeat, RepeatsIn, DeliveredOnce
<1> QED BY <1>1, <1>2, TypeCorrect, DeliveredStep, PTL DEF Spec

-----------------------------------------------------------------------------
(* Approvals *)

\* A step that leaves the session's approvals and their fates alone.
LEMMA ApprovalsUntouched ==
  ASSUME ApprovalsAccounted, sess'.approvals = sess.approvals, fate' = fate
  PROVE  ApprovalsAccounted'
BY DEF ApprovalsAccounted

\* The end of a loop: nothing changes, or everything that waits expires.
LEMMA ApprovalsAtFinish ==
  ASSUME TypeOK, ApprovalsAccounted,
         NEW r \in Run, NEW p \in Outcome, NEW base \in Session,
         base.approvals = sess.approvals, Finish(r, p, base)
  PROVE  ApprovalsAccounted'
<1>1. p \in Phase
  BY DEF Outcome, Phase
<1>2. CASE CanEnd(base, r, p)
  <2>1. sess'.approvals = {}
    BY <1>1, <1>2, EndedFields DEF Finish
  <2>2. \A a \in Approval : fate'[a] # "pending"
    BY <1>2 DEF Finish, ApprovalsAccounted
  <2> QED BY <2>1, <2>2 DEF ApprovalsAccounted
<1>3. CASE ~CanEnd(base, r, p)
  BY <1>3, ApprovalsUntouched DEF Finish
<1> QED BY <1>2, <1>3

LEMMA ApprovalsStep ==
  ASSUME TypeOK, ApprovalsAccounted, [Next]_vars
  PROVE  ApprovalsAccounted'
<1>0. sess \in Session /\ fate \in [Approval -> Fate]
  BY DEF TypeOK
<1>1. ASSUME NEW a \in Approval, NEW c \in Call, AddApproval(a, c)
      PROVE ApprovalsAccounted'
  <2> DEFINE q == [id |-> a, run |-> sess.run, call |-> c]
  <2>1. sess'.approvals = sess.approvals \cup {q} /\ q.id = a
    BY <1>0, <1>1 DEF AddApproval, ApprovalAdded, Session
  <2>2. fate' = [fate EXCEPT ![a] = "pending"]
    BY <1>1 DEF AddApproval
  <2>3. \A o \in sess.approvals : o.id # a
    BY <1>1 DEF AddApproval, ApprovalsAccounted
  <2> HIDE DEF q
  <2> QED BY <1>0, <2>1, <2>2, <2>3 DEF ApprovalsAccounted
<1>2. ASSUME NEW r \in Run, NEW a \in Approval, NEW c \in Call, NEW ok \in BOOLEAN,
             ResolveApproval(r, a, c, ok)
      PROVE ApprovalsAccounted'
  <2>1. sess'.approvals = {q \in sess.approvals : q.id # a}
    BY <1>0, <1>2 DEF ResolveApproval, ApprovalConsumed, Session
  <2>2. fate' = [fate EXCEPT ![a] = IF ok THEN "granted" ELSE "denied"]
    BY <1>2 DEF ResolveApproval
  <2> QED BY <1>0, <2>1, <2>2 DEF ApprovalsAccounted
<1>3. ASSUME NEW r \in Run, NEW p \in Outcome, NEW n \in 0..Len(sess.pending), EndRun(r, p, n)
      PROVE ApprovalsAccounted'
  <2>1. Settled(n) \in Session /\ Settled(n).approvals = sess.approvals
    BY SettledFields
  <2> QED BY <1>3, <2>1, ApprovalsAtFinish DEF EndRun
<1>4. ASSUME NEW r \in Run, NEW p \in Outcome, EndRunUnsettled(r, p)
      PROVE ApprovalsAccounted'
  BY <1>0, <1>4, ApprovalsAtFinish DEF EndRunUnsettled
<1>5. ASSUME NEW m \in Message, NEW d \in Delivery, SendNew(m, d)
      PROVE ApprovalsAccounted'
  BY <1>0, <1>5, ApprovalsUntouched
     DEF SendNew, Routed, Enqueued, MadePending, Session
<1>6. ASSUME NEW r \in Run, NEW rn \in Runner, StartRun(r, rn)
      PROVE ApprovalsAccounted'
  BY <1>0, <1>6, ApprovalsUntouched DEF StartRun, Started, Session
<1>7. ASSUME NEW r \in Run, NEW p \in DeclaredPhase, UpdateRunPhase(r, p)
      PROVE ApprovalsAccounted'
  BY <1>0, <1>7, ApprovalsUntouched DEF UpdateRunPhase, Declared, history, Session
<1>8. CASE \/ TakePendingImmediate \/ TakeExpired \/ CloseIdleRunner
           \/ \E r \in Run : SetRunSnapshot(r)
  BY <1>0, <1>8, ApprovalsUntouched
     DEF TakePendingImmediate, PendingTaken, TakeExpired, CloseIdleRunner, IdleClosed,
         SetRunSnapshot, Frozen, history, Session
<1>9. CASE \/ UNCHANGED vars \/ \E m \in Message : SendRetry(m)
           \/ \E a \in Approval : ApprovalTimesOut(a)
  BY <1>9, ApprovalsUntouched DEF SendRetry, ApprovalTimesOut, vars
<1> QED BY <1>1, <1>2, <1>3, <1>4, <1>5, <1>6, <1>7, <1>8, <1>9 DEF Next

\* Every approval that was raised waits in the session exactly until it is
\* granted, denied or expired, and never twice.
THEOREM ApprovalsHaveOneFate == Spec => []ApprovalsAccounted
<1>1. Init => ApprovalsAccounted
  BY DEF Init, ApprovalsAccounted, NewSession
<1> QED BY <1>1, TypeCorrect, ApprovalsStep, PTL DEF Spec

\* An approval is granted only while the run that raised it is the session's
\* live run, and only in time (resolve_approval checks before it consumes).
THEOREM GrantsInScope == Spec => GrantedInScope
<1> DEFINE Scoped == \A a \in Approval :
             fate[a] # "granted" /\ fate'[a] = "granted" =>
               /\ HasActiveRun(sess) /\ a \notin timedOut
               /\ \E q \in sess.approvals : q.id = a /\ q.run = sess.run
<1>1. TypeOK /\ [Next]_vars => [Scoped]_vars
  <2> SUFFICES ASSUME TypeOK, Next, NEW b \in Approval,
                      fate[b] # "granted", fate'[b] = "granted"
               PROVE  /\ HasActiveRun(sess) /\ b \notin timedOut
                      /\ \E q \in sess.approvals : q.id = b /\ q.run = sess.run
    OBVIOUS
  <2>1. fate \in [Approval -> Fate] /\ sess \in Session
    BY DEF TypeOK
  <2>2. ASSUME NEW r \in Run, NEW a \in Approval, NEW c \in Call, NEW ok \in BOOLEAN,
               ResolveApproval(r, a, c, ok)
        PROVE  /\ HasActiveRun(sess) /\ b \notin timedOut
               /\ \E q \in sess.approvals : q.id = b /\ q.run = sess.run
    <3>1. b = a
      BY <2>1, <2>2 DEF ResolveApproval
    <3>2. sess.run = r /\ ~TerminalPhase(sess.phase) /\ a \notin timedOut
          /\ \E q \in sess.approvals : q.id = a /\ q.run = r
      BY <2>2 DEF ResolveApproval, Resolvable
    <3>3. sess.phase \in Phase
      BY <2>1 DEF Session
    <3> QED BY <3>1, <3>2, <3>3, EndPhaseIsTerminal, SessionConstants DEF HasActiveRun
  <2>3. ASSUME NEW r \in Run, NEW p \in Outcome, NEW base, Finish(r, p, base) PROVE FALSE
    BY <2>1, <2>3 DEF Finish
  <2>4. ASSUME NEW a \in Approval, NEW c \in Call, AddApproval(a, c) PROVE FALSE
    BY <2>1, <2>4 DEF AddApproval
  <2>5. fate' = fate => FALSE
    OBVIOUS
  <2> QED BY <2>2, <2>3, <2>4, <2>5
          DEF Next, SendRetry, SendNew, SetRunSnapshot, StartRun, UpdateRunPhase, EndRun,
              EndRunUnsettled, TakePendingImmediate, TakeExpired, CloseIdleRunner,
              ApprovalTimesOut, history, vars
<1> QED BY <1>1, TypeCorrect, PTL DEF Spec, GrantedInScope

-----------------------------------------------------------------------------
(* Callers that ask has_active_run before start_run *)

LEMMA LiveApprovalsStep ==
  ASSUME CallersCheck, TypeOK, ApprovalsOfLiveRun, [Next]_vars
  PROVE  ApprovalsOfLiveRun'
<1> USE DEF ApprovalsOfLiveRun
<1>0. sess \in Session
  BY DEF TypeOK
<1>1. ASSUME NEW r \in Run, NEW rn \in Runner, StartRun(r, rn)
      PROVE ApprovalsOfLiveRun'
  <2>1. sess.approvals = {}
    BY <1>1 DEF StartRun
  <2>2. sess'.approvals = sess.approvals
    BY <1>0, <1>1 DEF StartRun, Started, Session
  <2> QED BY <2>1, <2>2
<1>2. ASSUME NEW r \in Run, NEW p \in DeclaredPhase, UpdateRunPhase(r, p)
      PROVE ApprovalsOfLiveRun'
  <2>1. sess'.run = r /\ sess.run = r /\ sess'.phase = p /\ sess'.approvals = sess.approvals
    BY <1>0, <1>2 DEF UpdateRunPhase, CanDeclare, Declared, Session
  <2>2. HasActiveRun(sess')
    BY <2>1, ActiveAfter
  <2> QED BY <2>1, <2>2
<1>3. ASSUME NEW r \in Run, NEW p \in Outcome, NEW base \in Session, Finish(r, p, base),
             base.approvals = sess.approvals, base.run = sess.run, base.phase = sess.phase
      PROVE ApprovalsOfLiveRun'
  <2>1. p \in Phase
    BY DEF Outcome, Phase
  <2>2. Ended(base, p).approvals = {}
    BY <2>1, EndedFields
  <2> QED BY <1>3, <2>2 DEF Finish, HasActiveRun
<1>4. ASSUME NEW r \in Run, NEW p \in Outcome, NEW n \in 0..Len(sess.pending), EndRun(r, p, n)
      PROVE ApprovalsOfLiveRun'
  <2>1. /\ Settled(n) \in Session /\ Settled(n).approvals = sess.approvals
        /\ Settled(n).run = sess.run /\ Settled(n).phase = sess.phase
    BY SettledFields
  <2> QED BY <1>3, <1>4, <2>1 DEF EndRun
<1>5. ASSUME NEW r \in Run, NEW p \in Outcome, EndRunUnsettled(r, p)
      PROVE ApprovalsOfLiveRun'
  BY <1>0, <1>3, <1>5 DEF EndRunUnsettled
<1>6. ASSUME NEW a \in Approval, NEW c \in Call, AddApproval(a, c)
      PROVE ApprovalsOfLiveRun'
  <2> DEFINE q == [id |-> a, run |-> sess.run, call |-> c]
  <2>1. /\ sess'.approvals = sess.approvals \cup {q} /\ q.run = sess.run
        /\ sess'.run = sess.run /\ sess'.phase = sess.phase
    BY <1>0, <1>6 DEF AddApproval, ApprovalAdded, Session
  <2>2. HasActiveRun(sess)
    BY <1>6 DEF AddApproval
  <2> HIDE DEF q
  <2> QED BY <2>1, <2>2 DEF HasActiveRun
<1>7. ASSUME \/ TakeExpired \/ TakePendingImmediate \/ CloseIdleRunner
             \/ \E r \in Run : SetRunSnapshot(r)
             \/ \E m \in Message, d \in Delivery : SendNew(m, d)
             \/ \E r \in Run, a \in Approval, c \in Call, ok \in BOOLEAN :
                   ResolveApproval(r, a, c, ok)
      PROVE ApprovalsOfLiveRun'
  <2>1. sess'.run = sess.run /\ sess'.phase = sess.phase
    BY <1>0, <1>7, RunUntouched
  <2>2. sess'.approvals \subseteq sess.approvals
    <3>1. CASE \E r \in Run, a \in Approval, c \in Call, ok \in BOOLEAN :
                  ResolveApproval(r, a, c, ok)
      BY <1>0, <3>1 DEF ResolveApproval, ApprovalConsumed, Session
    <3>2. CASE TakeExpired \/ TakePendingImmediate \/ CloseIdleRunner
      BY <1>0, <3>2
         DEF TakeExpired, TakePendingImmediate, PendingTaken, CloseIdleRunner, IdleClosed, Session
    <3>3. CASE \E r \in Run : SetRunSnapshot(r)
      BY <1>0, <3>3 DEF SetRunSnapshot, Frozen, Session
    <3>4. CASE \E m \in Message, d \in Delivery : SendNew(m, d)
      BY <1>0, <3>4 DEF SendNew, Routed, Enqueued, MadePending, Session
    <3> QED BY <1>7, <3>1, <3>2, <3>3, <3>4
  <2> QED BY <2>1, <2>2 DEF HasActiveRun
<1>8. CASE \/ UNCHANGED vars \/ \E m \in Message : SendRetry(m)
           \/ \E a \in Approval : ApprovalTimesOut(a)
  BY <1>8 DEF SendRetry, ApprovalTimesOut, vars, HasActiveRun
<1> QED BY <1>1, <1>2, <1>4, <1>5, <1>6, <1>7, <1>8 DEF Next

\* As long as no caller starts a Run over a live one, every approval that waits
\* belongs to the session's live run: no card can be answered after its run.
THEOREM ApprovalsDieWithRun ==
  ASSUME CallersCheck PROVE Spec => []ApprovalsOfLiveRun
<1>1. Init => ApprovalsOfLiveRun
  BY DEF Init, ApprovalsOfLiveRun, NewSession
<1>2. TypeOK /\ ApprovalsOfLiveRun /\ [Next]_vars => ApprovalsOfLiveRun'
  BY LiveApprovalsStep
<1> QED BY <1>1, <1>2, TypeCorrect, PTL DEF Spec

\* NoRunAbandoned needs to know which phases a run of this model is in, and that
\* a session whose run is over has no loop at work and has recorded the end.
LiveRunInv ==
  /\ NoRunAbandoned
  /\ sess.run # NoRun => sess.phase \in DeclaredPhase \cup Outcome
  /\ ~HasActiveRun(sess) => loops = {} /\ (sess.run # NoRun => sess.run \in ended)

\* Only the session's Run has a loop at work, and its end is recorded.
LEMMA LiveFinish ==
  ASSUME TypeOK, LiveRunInv, NEW r \in Run, NEW p \in Outcome, NEW base \in Session,
         Finish(r, p, base), base.run = sess.run, base.phase = sess.phase
  PROVE  /\ sess.run = r /\ HasActiveRun(sess) /\ ~HasActiveRun(sess')
         /\ sess'.run = r /\ sess'.phase = p /\ loops' = {} /\ ended' = ended \cup {r}
         /\ sess'.queue = base.pending \o base.queue /\ sess'.pending = <<>>
         /\ UNCHANGED <<used, rank, lane>>
<1>1. r \in loops /\ sess.run = r /\ loops' = {} /\ UNCHANGED <<used, rank, lane>>
  BY DEF Finish, LiveRunInv, NoRunAbandoned
<1>2. HasActiveRun(sess)
  BY <1>1 DEF LiveRunInv
<1>3. sess.phase \in DeclaredPhase
  BY <1>1, <1>2 DEF LiveRunInv, HasActiveRun, Outcome, EndPhase
<1>4. CanEnd(base, r, p)
  <2>1. p = "completed" => sess.phase = "running"
    BY <1>1 DEF Finish
  <2>2. p \in {"cancelled", "failed"} => CanMove(sess.phase, p)
    BY <1>3 DEF CanMove, Transitions, Phase, DeclaredPhase, LoopExit
  <2> QED BY <1>1, <2>1, <2>2 DEF CanEnd, CompletablePhase, Outcome
<1>5. p \in Phase
  BY DEF Outcome, Phase
<1>6. sess' = Ended(base, p) /\ ended' = ended \cup {r}
  BY <1>4 DEF Finish
<1>7. /\ sess'.run = r /\ sess'.phase = p
      /\ sess'.queue = base.pending \o base.queue /\ sess'.pending = <<>>
  BY <1>1, <1>5, <1>6, EndedFields
<1>8. ~HasActiveRun(sess')
  BY <1>7 DEF HasActiveRun, Outcome, EndPhase
<1> QED BY <1>1, <1>2, <1>6, <1>7, <1>8

LEMMA LiveRunStep ==
  ASSUME CallersCheck, TypeOK, LiveRunInv, [Next]_vars
  PROVE  LiveRunInv'
<1>0. sess \in Session /\ NoRun \notin Run /\ used \subseteq Run /\ loops \subseteq used
  BY SessionConstants DEF TypeOK
<1>1. ASSUME NEW r \in Run, NEW rn \in Runner, StartRun(r, rn)
      PROVE LiveRunInv'
  <2>1. ~HasActiveRun(sess)
    BY <1>1 DEF StartRun
  <2>2. sess'.run = r /\ sess'.phase = "running"
    BY <1>0, <1>1 DEF StartRun, Started, Session
  <2>3. HasActiveRun(sess')
    BY <2>2, ActiveAfter
  <2> QED BY <1>0, <1>1, <2>1, <2>2, <2>3
          DEF StartRun, LiveRunInv, NoRunAbandoned, DeclaredPhase
<1>2. ASSUME NEW r \in Run, NEW p \in DeclaredPhase, UpdateRunPhase(r, p)
      PROVE LiveRunInv'
  <2>1. sess'.run = r /\ sess.run = r /\ sess'.phase = p
    BY <1>0, <1>2 DEF UpdateRunPhase, CanDeclare, Declared, Session
  <2>2. HasActiveRun(sess')
    BY <2>1, ActiveAfter
  <2> QED BY <1>2, <2>1, <2>2 DEF UpdateRunPhase, history, LiveRunInv, NoRunAbandoned
<1>3. ASSUME NEW r \in Run, NEW p \in Outcome, NEW base \in Session, Finish(r, p, base),
             base.run = sess.run, base.phase = sess.phase
      PROVE LiveRunInv'
  <2>1. /\ sess'.run = r /\ sess'.phase = p /\ loops' = {} /\ used' = used
        /\ ended' = ended \cup {r} /\ sess.run = r
    BY <1>3, LiveFinish
  <2> QED BY <2>1 DEF LiveRunInv, NoRunAbandoned
<1>4. ASSUME NEW r \in Run, NEW p \in Outcome, NEW n \in 0..Len(sess.pending), EndRun(r, p, n)
      PROVE LiveRunInv'
  <2>1. Settled(n) \in Session /\ Settled(n).run = sess.run /\ Settled(n).phase = sess.phase
    BY SettledFields
  <2> QED BY <1>3, <1>4, <2>1 DEF EndRun
<1>5. ASSUME NEW r \in Run, NEW p \in Outcome, EndRunUnsettled(r, p)
      PROVE LiveRunInv'
  BY <1>0, <1>3, <1>5 DEF EndRunUnsettled
<1>6. ASSUME \/ TakeExpired \/ TakePendingImmediate \/ CloseIdleRunner
             \/ \E r \in Run : SetRunSnapshot(r)
             \/ \E m \in Message, d \in Delivery : SendNew(m, d)
             \/ \E a \in Approval, c \in Call : AddApproval(a, c)
             \/ \E r \in Run, a \in Approval, c \in Call, ok \in BOOLEAN :
                   ResolveApproval(r, a, c, ok)
      PROVE LiveRunInv'
  <2>1. sess'.run = sess.run /\ sess'.phase = sess.phase
    BY <1>0, <1>6, RunUntouched
  <2>2. UNCHANGED <<used, loops, ended>>
    BY <1>6 DEF TakeExpired, TakePendingImmediate, CloseIdleRunner, SetRunSnapshot, SendNew,
                AddApproval, ResolveApproval, history
  <2> QED BY <2>1, <2>2 DEF LiveRunInv, NoRunAbandoned, HasActiveRun
<1>7. CASE \/ UNCHANGED vars \/ \E m \in Message : SendRetry(m)
           \/ \E a \in Approval : ApprovalTimesOut(a)
  BY <1>7 DEF SendRetry, ApprovalTimesOut, vars, LiveRunInv, NoRunAbandoned, HasActiveRun
<1> QED BY <1>1, <1>2, <1>4, <1>5, <1>6, <1>7 DEF Next

\* As long as no caller starts a Run over a live one, every run that was begun is
\* the session's or has ended, and no loop works for a run that is not.
THEOREM RunsAreEnded ==
  ASSUME CallersCheck PROVE Spec => []NoRunAbandoned
<1>1. Init => LiveRunInv
  BY DEF Init, LiveRunInv, NoRunAbandoned, NewSession
<1>2. TypeOK /\ LiveRunInv /\ [Next]_vars => LiveRunInv'
  BY LiveRunStep
<1>3. LiveRunInv => NoRunAbandoned
  BY DEF LiveRunInv
<1> QED BY <1>1, <1>2, <1>3, TypeCorrect, PTL DEF Spec

\* As long as no caller starts a Run over a live one, a Run that is over leaves nothing
\* behind: no approval that could still be answered, no loop that works for it.
THEOREM NothingLeftBehind ==
  ASSUME CallersCheck PROVE Spec => []RunsLeaveNothing
<1>1. ApprovalsOfLiveRun /\ NoRunAbandoned => RunsLeaveNothing
  BY DEF RunsLeaveNothing
<1> QED BY <1>1, ApprovalsDieWithRun, RunsAreEnded, PTL

-----------------------------------------------------------------------------
(* The order of the inputs of one lane *)

\* LanesInOrder rests on where each input joined: what waits for a checkpoint
\* joined the session's run, what is queued joined the queue or a run that is
\* over, and every rank was given before the next one.
LaneInv ==
  /\ InOrder(sess.queue, lane, rank) /\ InOrder(sess.pending, lane, rank)
  /\ \A m \in Message : rank[m] < NextRank
  /\ sess.run \in used \cup {NoRun}
  /\ \A m \in ToSet(sess.pending) : lane[m] = sess.run
  /\ \A m \in ToSet(sess.queue) : /\ lane[m] \in used \cup {NoRun}
                                  /\ HasActiveRun(sess) => lane[m] # sess.run

\* A step that moves waiting inputs gives no rank.
LEMMA SameCount ==
  ASSUME UNCHANGED rank, NextRank' = NextRank, \A m \in Message : rank[m] < NextRank
  PROVE  \A m \in Message : rank'[m] < NextRank'
OBVIOUS

LEMMA CountsAreNat ==
  ASSUME TypeOK
  PROVE  /\ Len(delivered) \in Nat /\ Len(sess.queue) \in Nat /\ Len(sess.pending) \in Nat
         /\ sess \in Session /\ sess.queue \in Seq(Message) /\ sess.pending \in Seq(Message)
         /\ delivered \in Seq(Message) /\ rank \in [Message -> Nat]
         /\ lane \in [Message -> Run \cup {NoRun}] /\ used \subseteq Run
         /\ sess.run \in Run \cup {NoRun} /\ NextRank \in Nat
<1>1. /\ sess \in Session /\ sess.queue \in Seq(Message) /\ sess.pending \in Seq(Message)
      /\ delivered \in Seq(Message) /\ rank \in [Message -> Nat]
      /\ lane \in [Message -> Run \cup {NoRun}] /\ used \subseteq Run
      /\ sess.run \in Run \cup {NoRun}
  BY DEF TypeOK, Session
<1>2. Len(delivered) \in Nat /\ Len(sess.queue) \in Nat /\ Len(sess.pending) \in Nat
  BY <1>1, LenProperties
<1>3. \A a, b, c \in Nat : 1 + a + b + c \in Nat
  OBVIOUS
<1> QED BY <1>1, <1>2, <1>3 DEF NextRank

\* The next rank counts what was delivered and what waits.
RankOf(d, q, p) == 1 + Len(d) + Len(q) + Len(p)

LEMMA NextRankOf ==
  /\ NextRank  = RankOf(delivered, sess.queue, sess.pending)
  /\ NextRank' = RankOf(delivered', sess'.queue, sess'.pending)
BY Zenon DEF NextRank, RankOf

LEMMA RankGrows ==
  ASSUME NEW d \in Seq(Message), NEW q \in Seq(Message), NEW p \in Seq(Message), NEW m \in Message
  PROVE  /\ RankOf(d, Append(q, m), p) = RankOf(d, q, p) + 1
         /\ RankOf(d, q, Append(p, m)) = RankOf(d, q, p) + 1
<1>1. Len(d) \in Nat /\ Len(q) \in Nat /\ Len(p) \in Nat
  BY LenProperties
<1>2. Len(Append(q, m)) = Len(q) + 1 /\ Len(Append(p, m)) = Len(p) + 1
  BY AppendProperties
<1> QED BY <1>1, <1>2 DEF RankOf

LEMMA RankMoved ==
  ASSUME NEW d \in Seq(Message), NEW q \in Seq(Message), NEW a \in Seq(Message),
         NEW u \in Seq(Message)
  PROVE  RankOf(d \o a, u \o q, <<>>) = RankOf(d, q, a \o u)
<1>1. Len(d) \in Nat /\ Len(q) \in Nat /\ Len(a) \in Nat /\ Len(u) \in Nat /\ Len(<<>>) = 0
  BY LenProperties, EmptySeq
<1>2. /\ Len(d \o a) = Len(d) + Len(a) /\ Len(u \o q) = Len(u) + Len(q)
      /\ Len(a \o u) = Len(a) + Len(u)
  BY ConcatProperties
<1> QED BY <1>1, <1>2 DEF RankOf

LEMMA RankTaken ==
  ASSUME NEW d \in Seq(Message), NEW q \in Seq(Message), NEW p \in Seq(Message)
  PROVE  RankOf(d \o p, q, <<>>) = RankOf(d, q, p)
<1>1. Len(d) \in Nat /\ Len(q) \in Nat /\ Len(p) \in Nat /\ Len(<<>>) = 0
  BY LenProperties, EmptySeq
<1>2. Len(d \o p) = Len(d) + Len(p)
  BY ConcatProperties
<1> QED BY <1>1, <1>2 DEF RankOf

LEMMA RankStarted ==
  ASSUME NEW d \in Seq(Message), NEW q \in Seq(Message), q # <<>>
  PROVE  RankOf(Append(d, Head(q)), Tail(q), <<>>) = RankOf(d, q, <<>>)
<1>1. Len(d) \in Nat /\ Len(q) \in Nat /\ Len(<<>>) = 0
  BY LenProperties, EmptySeq
<1>2. Len(Append(d, Head(q))) = Len(d) + 1 /\ Len(Tail(q)) = Len(q) - 1
  BY HeadTailProperties, AppendProperties
<1> QED BY <1>1, <1>2 DEF RankOf

\* A function bounded by a number is below the next one.
LEMMA BelowNext ==
  ASSUME NEW f, NEW n \in Nat, NEW n1, n1 = n + 1,
         \A x \in Message : f[x] \in Nat /\ (f[x] < n \/ f[x] = n)
  PROVE  \A x \in Message : f[x] < n1
OBVIOUS

\* Inputs leave the pending list from its head, the rest goes before the queue.
LEMMA LanesMove ==
  ASSUME TypeOK, LaneInv, UNCHANGED <<rank, lane, used>>, sess'.run = sess.run,
         HasActiveRun(sess), ~HasActiveRun(sess'),
         NEW a \in Seq(Message), NEW u \in Seq(Message), sess.pending = a \o u,
         delivered' = delivered \o a, sess'.queue = u \o sess.queue, sess'.pending = <<>>
  PROVE  LaneInv'
<1> USE DEF LaneInv
<1>1. /\ Len(delivered) \in Nat /\ Len(sess.queue) \in Nat /\ sess.queue \in Seq(Message)
      /\ delivered \in Seq(Message) /\ Len(a) \in Nat /\ Len(u) \in Nat
  BY CountsAreNat, LenProperties
<1>2. NextRank' = NextRank
  <2>1. RankOf(delivered \o a, u \o sess.queue, <<>>) = RankOf(delivered, sess.queue, a \o u)
    BY <1>1, RankMoved
  <2> QED BY <2>1, NextRankOf, Zenon
<1>3. /\ ToSet(sess.pending) = ToSet(a) \cup ToSet(u)
      /\ ToSet(sess'.queue) = ToSet(u) \cup ToSet(sess.queue)
  BY <1>1, ToSetOfConcat
<1>4. InOrder(u, lane, rank)
  BY OrderSuffix
<1>5. \A x \in ToSet(u), y \in ToSet(sess.queue) : lane[x] # lane[y]
  BY <1>3
<1>6. InOrder(u \o sess.queue, lane, rank)
  BY <1>1, <1>4, <1>5, OrderConcat
<1>7. InOrder(sess'.queue, lane', rank') /\ InOrder(sess'.pending, lane', rank')
  <2>1. InOrder(<<>>, lane, rank)
    BY DEF InOrder
  <2> QED BY <1>6, <2>1
<1>8. \A m \in ToSet(sess'.queue) : lane[m] \in used \cup {NoRun}
  BY <1>3
<1> QED BY <1>2, <1>3, <1>7, <1>8, SameCount, ToSetOfEmpty

LEMMA LaneStep ==
  ASSUME CallersCheck, TypeOK, LiveRunInv, NoStrandedImmediate, WaitsOnce, LaneInv, [Next]_vars
  PROVE  LaneInv'
<1>0. /\ sess \in Session /\ sess.queue \in Seq(Message) /\ sess.pending \in Seq(Message)
      /\ delivered \in Seq(Message) /\ used \subseteq Run /\ NoRun \notin Run
      /\ rank \in [Message -> Nat] /\ lane \in [Message -> Run \cup {NoRun}]
      /\ Len(delivered) \in Nat /\ Len(sess.queue) \in Nat /\ Len(sess.pending) \in Nat
      /\ sess.run \in Run \cup {NoRun} /\ NextRank \in Nat
  BY CountsAreNat, SessionConstants
<1>1. /\ InOrder(sess.queue, lane, rank) /\ InOrder(sess.pending, lane, rank)
      /\ \A m \in Message : rank[m] < NextRank
      /\ sess.run \in used \cup {NoRun}
      /\ \A m \in ToSet(sess.pending) : lane[m] = sess.run
      /\ \A m \in ToSet(sess.queue) : /\ lane[m] \in used \cup {NoRun}
                                      /\ HasActiveRun(sess) => lane[m] # sess.run
  BY DEF LaneInv
<1>2. ToSet(sess.queue) \subseteq Message /\ ToSet(sess.pending) \subseteq Message
  BY <1>0, ToSetOfSeq
<1>3. ASSUME NEW m \in Message, NEW d \in Delivery, SendNew(m, d) PROVE LaneInv'
  <2>1. /\ rank' = [rank EXCEPT ![m] = NextRank]
        /\ lane' = [lane EXCEPT ![m] = IF RoutedToPending(sess, d) THEN sess.run ELSE NoRun]
        /\ UNCHANGED <<used, delivered>>
        /\ m \notin ToSet(sess.queue) /\ m \notin ToSet(sess.pending)
    BY <1>3 DEF SendNew, Accounted
  <2>2. /\ sess'.run = sess.run /\ sess'.phase = sess.phase
        /\ RoutedToPending(sess, d) => /\ sess'.queue = sess.queue
                                       /\ sess'.pending = Append(sess.pending, m)
        /\ ~RoutedToPending(sess, d) => /\ sess'.queue = Append(sess.queue, m)
                                        /\ sess'.pending = sess.pending
    BY <1>0, <1>3 DEF SendNew, Routed, Enqueued, MadePending, Session
  <2>3. /\ lane' \in [Message -> Run \cup {NoRun}] /\ rank' \in [Message -> Nat]
        /\ lane'[m] = (IF RoutedToPending(sess, d) THEN sess.run ELSE NoRun)
        /\ rank'[m] = NextRank
        /\ \A x \in Message : x # m => lane'[x] = lane[x] /\ rank'[x] = rank[x]
    BY <1>0, <2>1
  <2>4. NextRank' = NextRank + 1
    <3>1. /\ RankOf(delivered, Append(sess.queue, m), sess.pending)
               = RankOf(delivered, sess.queue, sess.pending) + 1
          /\ RankOf(delivered, sess.queue, Append(sess.pending, m))
               = RankOf(delivered, sess.queue, sess.pending) + 1
      BY <1>0, RankGrows
    <3>2. CASE RoutedToPending(sess, d)
      BY <2>1, <2>2, <3>1, <3>2, NextRankOf, Zenon
    <3>3. CASE ~RoutedToPending(sess, d)
      BY <2>1, <2>2, <3>1, <3>3, NextRankOf, Zenon
    <3> QED BY <3>2, <3>3
  <2>5. \A x \in Message : rank'[x] < NextRank'
    <3>1. \A x \in Message : rank'[x] \in Nat /\ (rank'[x] < NextRank \/ rank'[x] = NextRank)
      BY <1>1, <2>3
    <3> QED BY <1>0, <2>4, <3>1, BelowNext
  <2>6. /\ InOrder(sess.queue, lane', rank') /\ InOrder(sess.pending, lane', rank')
        /\ \A x \in ToSet(sess.queue) \cup ToSet(sess.pending) : rank'[x] < rank'[m]
    <3>1. \A x \in ToSet(sess.queue) \cup ToSet(sess.pending) :
             lane'[x] = lane[x] /\ rank'[x] = rank[x]
      BY <1>2, <2>1, <2>3
    <3>2. \A x \in ToSet(sess.queue) \cup ToSet(sess.pending) : rank'[x] < rank'[m]
      BY <1>1, <1>2, <2>3, <3>1
    <3>3. InOrder(sess.queue, lane', rank')
      <4>1. sess.queue \in Seq(Message) /\ InOrder(sess.queue, lane, rank)
        BY <1>0 DEF LaneInv
      <4>2. \A x \in ToSet(sess.queue) : lane'[x] = lane[x] /\ rank'[x] = rank[x]
        BY <3>1, Zenon
      <4> QED BY <4>1, <4>2, OrderSame, Zenon
    <3>4. InOrder(sess.pending, lane', rank')
      <4>1. sess.pending \in Seq(Message) /\ InOrder(sess.pending, lane, rank)
        BY <1>0 DEF LaneInv
      <4>2. \A x \in ToSet(sess.pending) : lane'[x] = lane[x] /\ rank'[x] = rank[x]
        BY <3>1, Zenon
      <4> QED BY <4>1, <4>2, OrderSame, Zenon
    <3> QED BY <3>2, <3>3, <3>4
  <2>7. InOrder(Append(sess.queue, m), lane', rank') /\ InOrder(Append(sess.pending, m), lane', rank')
    BY <1>0, <2>6, OrderAppend
  <2>8. InOrder(sess'.queue, lane', rank') /\ InOrder(sess'.pending, lane', rank')
    BY <2>2, <2>6, <2>7
  <2>9. /\ ToSet(Append(sess.queue, m)) = ToSet(sess.queue) \cup {m}
        /\ ToSet(Append(sess.pending, m)) = ToSet(sess.pending) \cup {m}
    BY <1>0, ToSetOfAppend
  <2>10. HasActiveRun(sess') <=> HasActiveRun(sess)
    BY <2>2 DEF HasActiveRun
  <2>11. \A x \in ToSet(sess'.pending) : lane'[x] = sess'.run
    <3>1. CASE RoutedToPending(sess, d)
      BY <1>1, <1>2, <2>2, <2>3, <2>9, <3>1
    <3>2. CASE ~RoutedToPending(sess, d)
      BY <1>1, <1>2, <2>1, <2>2, <2>3, <3>2
    <3> QED BY <3>1, <3>2
  <2>12. \A x \in ToSet(sess'.queue) : /\ lane'[x] \in used' \cup {NoRun}
                                       /\ HasActiveRun(sess') => lane'[x] # sess'.run
    <3>1. HasActiveRun(sess) => sess.run # NoRun
      BY DEF HasActiveRun
    <3>2. HasActiveRun(sess') <=> HasActiveRun(sess)
      BY <2>2 DEF HasActiveRun
    <3>3. CASE RoutedToPending(sess, d)
      BY <1>1, <1>2, <2>1, <2>2, <2>3, <3>2, <3>3
    <3>4. CASE ~RoutedToPending(sess, d)
      <4>1. ASSUME NEW x \in ToSet(sess.queue)
            PROVE  lane'[x] = lane[x]
        BY <1>2, <2>1, <2>3
      <4> QED BY <1>1, <2>1, <2>2, <2>3, <2>9, <2>10, <3>1, <3>2, <3>4, <4>1
    <3> QED BY <3>3, <3>4
  <2> QED BY <1>1, <2>1, <2>2, <2>5, <2>8, <2>11, <2>12 DEF LaneInv
<1>4. ASSUME NEW r \in Run, NEW rn \in Runner, StartRun(r, rn) PROVE LaneInv'
  <2>1. /\ r \notin used /\ used' = used \cup {r} /\ ~HasActiveRun(sess) /\ sess.queue # <<>>
        /\ delivered' = Append(delivered, Head(sess.queue))
        /\ UNCHANGED <<rank, lane>>
    BY <1>4 DEF StartRun, CanStart
  <2>2. sess'.run = r /\ sess'.queue = Tail(sess.queue) /\ sess'.pending = <<>>
    BY <1>0, <1>4, <2>1 DEF StartRun, Started, Session, NoStrandedImmediate
  <2>3. sess.pending = <<>>
    BY <2>1 DEF NoStrandedImmediate
  <2>4. NextRank' = NextRank
    <3>1. RankOf(Append(delivered, Head(sess.queue)), Tail(sess.queue), <<>>)
            = RankOf(delivered, sess.queue, <<>>)
      BY <1>0, <2>1, RankStarted
    <3> QED BY <2>1, <2>2, <2>3, <3>1, NextRankOf, Zenon
  <2>5. InOrder(sess'.queue, lane', rank')
    BY <1>0, <1>1, <2>1, <2>2, OrderTail
  <2>6. InOrder(sess'.pending, lane', rank')
    BY <2>2 DEF InOrder
  <2>7. ToSet(sess'.queue) \subseteq ToSet(sess.queue) /\ ToSet(sess'.pending) = {}
    BY <1>0, <2>1, <2>2, ToSetOfTail, ToSetOfEmpty
  <2>8. \A x \in ToSet(sess'.queue) : /\ lane'[x] \in used' \cup {NoRun}
                                      /\ HasActiveRun(sess') => lane'[x] # sess'.run
    BY <1>0, <1>1, <2>1, <2>2, <2>7
  <2> QED BY <1>1, <2>1, <2>2, <2>4, <2>5, <2>6, <2>7, <2>8 DEF LaneInv
<1>5. ASSUME NEW r \in Run, NEW p \in Outcome, NEW n \in 0..Len(sess.pending), EndRun(r, p, n)
      PROVE LaneInv'
  <2> DEFINE a == SubSeq(sess.pending, 1, n)
             u == SubSeq(sess.pending, n + 1, Len(sess.pending))
  <2>1. a \in Seq(Message) /\ u \in Seq(Message) /\ a \o u = sess.pending
    BY <1>0, ToSetOfCut
  <2>2. sess'.queue = u \o sess.queue /\ sess'.pending = <<>> /\ delivered' = delivered \o a
    BY <1>5, EndRunMoves DEF EndRun
  <2>3. Settled(n) \in Session /\ Settled(n).run = sess.run /\ Settled(n).phase = sess.phase
    BY SettledFields
  <2>4. Finish(r, p, Settled(n))
    BY <1>5 DEF EndRun
  <2>5. sess'.run = sess.run /\ HasActiveRun(sess) /\ ~HasActiveRun(sess')
        /\ UNCHANGED <<rank, lane, used>>
    BY <2>3, <2>4, LiveFinish
  <2> HIDE DEF a, u
  <2> QED BY <2>1, <2>2, <2>5, LanesMove
<1>6. ASSUME NEW r \in Run, NEW p \in Outcome, EndRunUnsettled(r, p) PROVE LaneInv'
  <2>1. Finish(r, p, sess) /\ delivered' = delivered
    BY <1>6 DEF EndRunUnsettled
  <2>2. /\ sess'.run = sess.run /\ HasActiveRun(sess) /\ ~HasActiveRun(sess')
        /\ sess'.queue = sess.pending \o sess.queue /\ sess'.pending = <<>>
        /\ UNCHANGED <<rank, lane, used>>
    BY <1>0, <2>1, LiveFinish
  <2>3. delivered' = delivered \o <<>> /\ sess.pending = <<>> \o sess.pending
        /\ <<>> \in Seq(Message)
    BY <1>0, <2>1, ConcatEmptySeq, EmptySeq
  <2> QED BY <1>0, <2>2, <2>3, LanesMove
<1>7. CASE TakePendingImmediate
  <2>1. /\ sess'.queue = sess.queue /\ sess'.pending = <<>> /\ sess'.run = sess.run
        /\ sess'.phase = sess.phase
        /\ delivered' = delivered \o sess.pending /\ UNCHANGED <<rank, lane, used>>
    BY <1>0, <1>7 DEF TakePendingImmediate, PendingTaken, Session
  <2>2. NextRank' = NextRank
    <3>1. RankOf(delivered \o sess.pending, sess.queue, <<>>)
            = RankOf(delivered, sess.queue, sess.pending)
      BY <1>0, RankTaken
    <3> QED BY <2>1, <3>1, NextRankOf, Zenon
  <2>3. InOrder(sess'.pending, lane', rank')
    BY <2>1 DEF InOrder
  <2> QED BY <1>1, <2>1, <2>2, <2>3, ToSetOfEmpty DEF LaneInv, HasActiveRun
<1>8. ASSUME NEW r \in Run, NEW p \in DeclaredPhase, UpdateRunPhase(r, p) PROVE LaneInv'
  <2>1. /\ sess'.queue = sess.queue /\ sess'.pending = sess.pending /\ sess'.run = sess.run
        /\ loops # {} /\ UNCHANGED <<rank, lane, used, delivered>>
    BY <1>0, <1>8 DEF UpdateRunPhase, Declared, history, Session
  <2>2. HasActiveRun(sess)
    BY <2>1 DEF LiveRunInv
  <2>3. NextRank' = NextRank
    BY <2>1 DEF NextRank
  <2> QED BY <1>1, <2>1, <2>2, <2>3 DEF LaneInv
<1>9. ASSUME \/ TakeExpired \/ CloseIdleRunner \/ \E r \in Run : SetRunSnapshot(r)
             \/ \E a \in Approval, c \in Call : AddApproval(a, c)
             \/ \E r \in Run, a \in Approval, c \in Call, ok \in BOOLEAN :
                   ResolveApproval(r, a, c, ok)
      PROVE LaneInv'
  <2>0. sess'.run = sess.run /\ sess'.phase = sess.phase
    BY <1>0, <1>9, RunUntouched
  <2>1. sess'.queue = sess.queue /\ sess'.pending = sess.pending
    <3>1. CASE TakeExpired \/ CloseIdleRunner \/ \E r \in Run : SetRunSnapshot(r)
      BY <1>0, <3>1 DEF TakeExpired, CloseIdleRunner, IdleClosed, SetRunSnapshot, Frozen, Session
    <3>2. CASE \E a \in Approval, c \in Call : AddApproval(a, c)
      BY <1>0, <3>2 DEF AddApproval, ApprovalAdded, Session
    <3>3. CASE \E r \in Run, a \in Approval, c \in Call, ok \in BOOLEAN : ResolveApproval(r, a, c, ok)
      BY <1>0, <3>3 DEF ResolveApproval, ApprovalConsumed, Session
    <3> QED BY <1>9, <3>1, <3>2, <3>3
  <2>2. UNCHANGED <<rank, lane, used, delivered>>
    BY <1>9 DEF TakeExpired, CloseIdleRunner, SetRunSnapshot, AddApproval, ResolveApproval,
                history
  <2>3. NextRank' = NextRank
    BY <2>1, <2>2 DEF NextRank
  <2> QED BY <1>1, <2>0, <2>1, <2>2, <2>3 DEF LaneInv, HasActiveRun
<1>10. CASE \/ UNCHANGED vars \/ \E m \in Message : SendRetry(m)
            \/ \E a \in Approval : ApprovalTimesOut(a)
  <2>1. UNCHANGED <<sess, rank, lane, used, delivered>>
    BY <1>10 DEF SendRetry, ApprovalTimesOut, vars
  <2>2. NextRank' = NextRank
    BY <2>1 DEF NextRank
  <2> QED BY <1>1, <2>1, <2>2 DEF LaneInv, HasActiveRun
<1> QED BY <1>3, <1>4, <1>5, <1>6, <1>7, <1>8, <1>9, <1>10 DEF Next

\* As long as no caller starts a Run over a live one, the inputs of one lane, the
\* queue or the immediates of one Run, are read in the order in which they were
\* accepted, through every deferral to the head of the queue (_defer_pending_immediate).
THEOREM LanesKeepOrder ==
  ASSUME CallersCheck PROVE Spec => []LanesInOrder
<1>1. Init => LiveRunInv /\ NoStrandedImmediate /\ WaitsOnce /\ LaneInv
  <2> SUFFICES ASSUME Init PROVE LiveRunInv /\ NoStrandedImmediate /\ WaitsOnce /\ LaneInv
    OBVIOUS
  <2>1. /\ sess.queue = <<>> /\ sess.pending = <<>> /\ sess.run = NoRun /\ delivered = <<>>
        /\ used = {} /\ loops = {} /\ rank = [m \in Message |-> 0]
    BY DEF Init, NewSession
  <2>2. LiveRunInv /\ NoStrandedImmediate
    BY <2>1 DEF LiveRunInv, NoRunAbandoned, NoStrandedImmediate, HasActiveRun
  <2>3. WaitsOnce
    BY <2>1, ToSetOfEmpty DEF WaitsOnce, IsInjective
  <2>4. NextRank = 1
    <3>1. Len(<<>>) = 0
      BY EmptySeq
    <3> QED BY <2>1, <3>1 DEF NextRank
  <2>5. LaneInv
    BY <2>1, <2>4, ToSetOfEmpty DEF LaneInv, InOrder
  <2> QED BY <2>2, <2>3, <2>5
<1>2. TypeOK /\ TypeOK' /\ LiveRunInv /\ NoStrandedImmediate /\ WaitsOnce /\ LaneInv /\ [Next]_vars
        => LiveRunInv' /\ NoStrandedImmediate' /\ WaitsOnce' /\ LaneInv'
  BY LiveRunStep, StrandedStep, OnceStep, LaneStep
<1>3. LaneInv => LanesInOrder
  BY DEF LaneInv, LanesInOrder, InOrder, InLaneOrder
<1> QED BY <1>1, <1>2, <1>3, TypeCorrect, PTL DEF Spec
=============================================================================
