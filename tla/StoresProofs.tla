---------------------------- MODULE StoresProofs ----------------------------
(***************************************************************************)
(* What the stores on disk keep, for any contents, keys and entries and     *)
(* any order of commands, refused saves, kills and restarts: the session    *)
(* and the state file of a thread (Recovery), its plan (Plans), the records *)
(* of HPC submissions (Submissions), a state file and its .bak              *)
(* (AtomicFile), the artifacts (Artifacts), and the leases of research      *)
(* tasks (TaskLeases), for any number of agents whose scripts do not        *)
(* overlap.                                                                 *)
(***************************************************************************)
EXTENDS Recovery, Submissions, Plans, AtomicFile, Artifacts, TaskLeases, SessionOpsProofs

-----------------------------------------------------------------------------
(* The session record and the state file, field by field *)

\* The receipts of distinct inputs: trimming keeps them distinct, and takes none
\* as long as the inputs are no more than the history holds.
LEMMA TrimReceipts ==
  ASSUME NEW q \in Seq(Message), IsInjective(q)
  PROVE  /\ Trim(q) \in Seq(Message) /\ IsInjective(Trim(q))
         /\ ToSet(Trim(q)) \subseteq ToSet(q)
         /\ Len(q) <= ReceiptLimit => Trim(q) = q
<1>1. Len(q) \in Nat /\ ReceiptLimit \in Nat
  BY LenProperties, SessionConstants
<1>2. CASE Len(q) > ReceiptLimit
  <2> DEFINE n == Len(q) - ReceiptLimit
  <2>1. n \in 0..Len(q)
    BY <1>1, <1>2
  <2>2. Trim(q) = SubSeq(q, n + 1, Len(q)) /\ ~(Len(q) <= ReceiptLimit)
    BY <1>1, <1>2 DEF Trim
  <2> HIDE DEF n
  <2>3. IsInjective(SubSeq(q, n + 1, Len(q)))
    BY <2>1, InjectiveSuffix
  <2>4. SubSeq(q, n + 1, Len(q)) \in Seq(Message)
    BY <2>1, ToSetOfCut
  <2>5. ToSet(q) = ToSet(SubSeq(q, 1, n)) \cup ToSet(SubSeq(q, n + 1, Len(q)))
    BY <2>1, ToSetOfCut
  <2>6. ToSet(SubSeq(q, n + 1, Len(q))) \subseteq ToSet(q)
    BY <2>5
  <2> QED BY <2>2, <2>3, <2>4, <2>6
<1>3. CASE ~(Len(q) > ReceiptLimit)
  BY <1>3 DEF Trim
<1> QED BY <1>2, <1>3

LEMMA TrimTakesNone ==
  ASSUME NEW q \in Seq(Message), IsInjective(q), NEW A, IsFiniteSet(A),
         ToSet(q) \subseteq A, Cardinality(A) <= ReceiptLimit
  PROVE  Trim(q) = q
<1>1. IsFiniteSet(ToSet(q)) /\ Cardinality(ToSet(q)) = Len(q)
  BY InjectiveLength
<1>2. Cardinality(ToSet(q)) <= Cardinality(A) /\ Cardinality(A) \in Nat
  BY FS_Subset, FS_CardinalityType
<1>3. Len(q) \in Nat /\ ReceiptLimit \in Nat
  BY LenProperties, SessionConstants
<1>4. Len(q) <= ReceiptLimit
  BY <1>1, <1>2, <1>3
<1> QED BY <1>4, TrimReceipts

LEMMA RoutedFields ==
  ASSUME NEW s \in Session, NEW m \in Message, NEW d
  PROVE  /\ Routed(s, m, d).queue =
              IF RoutedToPending(s, d) THEN s.queue ELSE Append(s.queue, m)
         /\ Routed(s, m, d).pending =
              IF RoutedToPending(s, d) THEN Append(s.pending, m) ELSE s.pending
         /\ Routed(s, m, d).receipts = Trim(Append(s.receipts, m))
         /\ Routed(s, m, d).run = s.run /\ Routed(s, m, d).phase = s.phase
BY DEF Routed, Enqueued, MadePending, Session

LEMMA EnqueuedFields ==
  ASSUME NEW s \in Session, NEW m \in Message, Len(s.receipts) <= ReceiptLimit
  PROVE  /\ Enqueued(s, m) \in Session /\ Len(Enqueued(s, m).receipts) <= ReceiptLimit
         /\ Enqueued(s, m).queue = Append(s.queue, m)
         /\ Enqueued(s, m).pending = s.pending
         /\ Enqueued(s, m).receipts = Trim(Append(s.receipts, m))
         /\ Enqueued(s, m).run = s.run /\ Enqueued(s, m).phase = s.phase
<1>1. Append(s.receipts, m) \in Seq(Message) /\ Append(s.queue, m) \in Seq(Message)
  BY AppendProperties DEF Session
<1>2. /\ Trim(Append(s.receipts, m)) \in Seq(Message)
      /\ Len(Trim(Append(s.receipts, m))) <= ReceiptLimit
  BY <1>1, TrimType
<1> QED BY <1>1, <1>2 DEF Enqueued, Session

LEMMA StartedFields ==
  ASSUME NEW s \in Session, NEW r \in Run, NEW rn
  PROVE  /\ Started(s, r, rn).queue = Tail(s.queue)
         /\ Started(s, r, rn).pending = s.pending
         /\ Started(s, r, rn).receipts = s.receipts
         /\ HasActiveRun(Started(s, r, rn))
<1>1. Started(s, r, rn).run = r /\ Started(s, r, rn).phase = "running"
  BY DEF Started, Session
<1>2. r # NoRun
  BY SessionConstants
<1> QED BY <1>1, <1>2 DEF Started, Session, HasActiveRun, EndPhase

\* The end of a Run: what it has not read goes before what waits.
LEMMA EndRunFields ==
  ASSUME NEW s \in Session, NEW U, NEW o \in Outcome, NEW e,
         e = Ended([AtHead(s, UnreadOf(s, U)) EXCEPT !.pending = <<>>], o)
  PROVE  /\ e \in Session /\ ~HasActiveRun(e)
         /\ e.queue = UnreadOf(s, U) \o s.queue
         /\ e.pending = <<>> /\ e.receipts = s.receipts
<1> DEFINE u == UnreadOf(s, U)
           b == [AtHead(s, u) EXCEPT !.pending = <<>>]
<1>1. s.pending \in Seq(Message) /\ s.queue \in Seq(Message)
  BY DEF Session
<1>2. u \in Seq(Message)
  BY <1>1, OnlyMembers DEF UnreadOf
<1>3. u \o s.queue \in Seq(Message) /\ <<>> \in Seq(Message)
  BY <1>1, <1>2, ConcatProperties, EmptySeq
<1> HIDE DEF u
<1>4. /\ b \in Session /\ b.queue = u \o s.queue /\ b.pending = <<>>
      /\ b.receipts = s.receipts
  BY <1>3 DEF AtHead, Session
<1>5. o \in Phase /\ o \in EndPhase
  BY DEF Outcome, Phase, EndPhase
<1>6. e = Ended(b, o)
  BY DEF u
<1> HIDE DEF b
<1>7. /\ Ended(b, o) \in Session /\ Ended(b, o).phase = o
      /\ Ended(b, o).queue = b.pending \o b.queue
      /\ Ended(b, o).pending = <<>> /\ Ended(b, o).receipts = b.receipts
  BY <1>4, <1>5, EndedFields
<1>8. /\ e \in Session /\ e.phase = o /\ e.queue = b.pending \o b.queue
      /\ e.pending = <<>> /\ e.receipts = b.receipts
  BY <1>6, <1>7
<1>9. <<>> \o (u \o s.queue) = u \o s.queue
  BY <1>3, ConcatEmptySeq
<1> QED BY <1>4, <1>5, <1>8, <1>9 DEF HasActiveRun, u

LEMMA ImageFields ==
  ASSUME NEW s \in Session
  PROVE  /\ ImageOf(s) \in Image
         /\ ImageOf(s).queue = s.queue /\ ImageOf(s).pending = s.pending
         /\ ImageOf(s).receipts = s.receipts
         /\ ImageOf(s).marker = IF HasActiveRun(s) THEN s.run ELSE NoRun
<1>1. s.phase \in Phase
  BY DEF Session
<1>2. TerminalPhase(s.phase) <=> s.phase \in EndPhase
  BY <1>1, EndPhaseIsTerminal
<1> QED BY <1>2 DEF ImageOf, Image, Session, HasActiveRun

\* What the recovery scan puts into a session.
LEMMA RestoredFields ==
  ASSUME NEW d \in Image
  PROVE  /\ Restored(d) \in Session /\ Len(Restored(d).receipts) <= ReceiptLimit
         /\ Restored(d).queue = d.pending \o d.queue
         /\ Restored(d).pending = <<>>
         /\ Restored(d).receipts = Trim(d.receipts)
         /\ ~HasActiveRun(Restored(d))
<1>1. /\ d.queue \in Seq(Message) /\ d.pending \in Seq(Message)
      /\ d.receipts \in Seq(Message) /\ d.marker \in Run \cup {NoRun}
  BY DEF Image
<1>2. d.pending \o d.queue \in Seq(Message) /\ <<>> \in Seq(Message)
  BY <1>1, ConcatProperties, EmptySeq
<1>3. Trim(d.receipts) \in Seq(Message) /\ Len(Trim(d.receipts)) <= ReceiptLimit
  BY <1>1, TrimType
<1>4. Restored(d) = [NewSession EXCEPT
                       !.queue    = d.pending \o d.queue,
                       !.run      = d.marker,
                       !.phase    = IF d.marker = NoRun THEN "dormant" ELSE "interrupted",
                       !.status   = IF d.marker = NoRun THEN "dormant" ELSE "idle",
                       !.receipts = Trim(d.receipts)]
  BY ZenonT(40) DEF Restored, AtHead, NewSession
<1>5. /\ Restored(d).queue = d.pending \o d.queue /\ Restored(d).pending = <<>>
      /\ Restored(d).receipts = Trim(d.receipts)
      /\ Restored(d).run = d.marker
      /\ Restored(d).phase = IF d.marker = NoRun THEN "dormant" ELSE "interrupted"
  BY <1>4 DEF NewSession
<1>6. Restored(d) \in Session
  BY ZenonT(40), <1>1, <1>2, <1>3, <1>4 DEF NewSession, Session, Phase
<1>7. ~HasActiveRun(Restored(d))
  BY <1>5 DEF HasActiveRun, EndPhase
<1>8. Len(Restored(d).receipts) <= ReceiptLimit
  BY <1>3, <1>5
<1> QED BY <1>5, <1>6, <1>7, <1>8

-----------------------------------------------------------------------------
(* Type correctness *)

LEMMA NewSessionType ==
  NewSession \in Session /\ ~HasActiveRun(NewSession) /\ Waiting(NewSession) = {}
<1>1. NewSession \in Session
  BY EmptySeq DEF NewSession, Session, Phase
<1> QED BY <1>1, ToSetOfEmpty DEF NewSession, HasActiveRun, Waiting

LEMMA InitType == Init => TypeOK
<1> SUFFICES ASSUME Init PROVE TypeOK
  OBVIOUS
<1>1. sess \in Session /\ disk \in Image
  BY NewSessionType, ImageFields DEF Init
<1>2. sess.receipts = <<>>
  BY DEF Init, NewSession
<1>3. Len(sess.receipts) <= ReceiptLimit
  BY <1>2, EmptySeq, SessionConstants
<1>4. mail \in Seq(Message) /\ given \in Seq(Message)
  BY EmptySeq DEF Init
<1>5. crashes \in 0..MaxCrashes
  BY RecoveryConstants DEF Init
<1> QED BY <1>1, <1>3, <1>4, <1>5 DEF Init, TypeOK

LEMMA NextType == TypeOK /\ [Next]_vars => TypeOK'
<1> SUFFICES ASSUME TypeOK, [Next]_vars PROVE TypeOK'
  OBVIOUS
<1> USE DEF TypeOK
<1>0. /\ sess.queue \in Seq(Message) /\ sess.pending \in Seq(Message)
      /\ sess.receipts \in Seq(Message)
  BY DEF Session
<1>1. ASSUME NEW m \in Message, NEW d \in Delivery, Send(m, d) \/ Retry(m, d)
      PROVE TypeOK'
  <2>1. sess' \in Session /\ Len(sess'.receipts) <= ReceiptLimit
    <3>1. sess' = Routed(sess, m, d)
      BY <1>1 DEF Send, Retry
    <3> QED BY <3>1, RoutedType
  <2>2. mail' \in Seq(Message)
    <3>1. mail' = mail \/ mail' = Append(mail, m)
      BY <1>1 DEF Send, Retry
    <3>2. Append(mail, m) \in Seq(Message)
      BY AppendProperties, Zenon
    <3> QED BY <3>1, <3>2
  <2>3. CASE Send(m, d)
    BY <2>1, <2>2, <2>3 DEF Send
  <2>4. CASE Retry(m, d)
    BY <2>1, <2>2, <2>4 DEF Retry
  <2> QED BY <1>1, <2>3, <2>4
<1>2. ASSUME NEW m \in Message, SendLegacy(m) PROVE TypeOK'
  BY <1>2, EnqueuedFields DEF SendLegacy
<1>3. ASSUME NEW r \in Run, NEW rn \in Runner, Start(r, rn) PROVE TypeOK'
  <2>1. sess.queue # <<>>
    BY <1>3 DEF Start, CanStart
  <2>2. sess' \in Session /\ sess'.receipts = sess.receipts
    BY <1>3, <2>1, StartedType, StartedFields DEF Start
  <2>3. Append(given, Head(sess.queue)) \in Seq(Message)
    BY <1>0, <2>1, HeadTailProperties, AppendProperties
  <2> QED BY <1>3, <2>2, <2>3 DEF Start
<1>4. ASSUME NEW o \in Outcome, EndRun(o) PROVE TypeOK'
  <2>1. sess' \in Session /\ sess'.receipts = sess.receipts
    BY <1>4, EndRunFields DEF EndRun
  <2>2. outcome' \in [Run -> Outcome \cup {"none", "interrupted"}]
    BY <1>4 DEF EndRun
  <2> QED BY <1>4, <2>1, <2>2, EmptySeq DEF EndRun
<1>5. CASE ReadMail
  BY <1>5, EmptySeq, ConcatProperties DEF ReadMail
<1>6. CASE Save
  BY <1>6, ImageFields DEF Save
<1>7. CASE Crash
  <2>1. crashes' \in 0..MaxCrashes
    BY <1>7, RecoveryConstants DEF Crash
  <2>2. Waiting(sess) \subseteq Message
    BY <1>0, ToSetOfSeq DEF Waiting
  <2>3. ToSet(given) \subseteq Message
    BY ToSetOfSeq
  <2>4. lost' \subseteq Message /\ repeated' \subseteq Message
    BY <1>7, <2>2, <2>3 DEF Crash
  <2>5. sess' \in Session /\ Len(sess'.receipts) <= ReceiptLimit
    BY <1>7, NewSessionType, EmptySeq, SessionConstants DEF Crash, NewSession
  <2> QED BY <1>7, <2>1, <2>4, <2>5, EmptySeq DEF Crash
<1>8. CASE Recover
  <2>1. sess' \in Session /\ Len(sess'.receipts) <= ReceiptLimit
    BY <1>8, RestoredFields DEF Recover
  <2>2. outcome' \in [Run -> Outcome \cup {"none", "interrupted"}]
    BY <1>8 DEF Recover
  <2> QED BY <1>8, <2>1, <2>2 DEF Recover
<1>9. CASE Handoff
  <2>1. disk' \in Image
    BY <1>9, ImageFields DEF Handoff, Image
  <2> QED BY <1>9, <2>1 DEF Handoff
<1>10. CASE UNCHANGED vars
  BY <1>10 DEF vars
<1> QED BY <1>1, <1>2, <1>3, <1>4, <1>5, <1>6, <1>7, <1>8, <1>9, <1>10 DEF Next

-----------------------------------------------------------------------------
(* The inductive invariant *)

\* What stands in memory in each state of the process.
MemoryOfProcess ==
  /\ proc # "up" => ~dirty /\ mail = <<>>
  /\ proc = "down" => sess = NewSession
  /\ proc = "recovering" => ~HasActiveRun(sess)

\* The mailbox is the part of the pending inputs no Run has got.
MailIsPending ==
  /\ ToSet(mail) \subseteq ToSet(sess.pending)
  /\ ToSet(sess.pending) \ ToSet(mail) \subseteq ToSet(given)

\* Nothing was delivered that still waits, but for what a crash brought back.
DeliveredDoesNotWait ==
  /\ (ToSet(sess.queue) \cup ToSet(mail)) \cap ToSet(given) \subseteq repeated
  /\ proc = "down" => Waiting(disk) \cap ToSet(given) \subseteq repeated

\* What a crash took is not to be found anywhere.
LostIsGone ==
  /\ Waiting(disk) \subseteq accepted
  /\ lost \cap (ToSet(given) \cup Waiting(sess) \cup Waiting(disk)) = {}

ReceiptsOfAccepted ==
  /\ IsFiniteSet(accepted)
  /\ IsInjective(sess.receipts) /\ ToSet(sess.receipts) \subseteq accepted
  /\ IsInjective(disk.receipts) /\ ToSet(disk.receipts) \subseteq accepted

\* As long as the history holds them all, no receipt is missing in memory, and
\* none of those the state file must know.
ReceiptsComplete ==
  Cardinality(accepted) <= ReceiptLimit =>
    /\ proc # "down" => accepted \ lost \subseteq ToSet(sess.receipts)
    /\ Waiting(disk) \cup ToSet(given) \subseteq ToSet(disk.receipts)

\* A Run starts from a state file that has every receipt.
ReceiptsSaved ==
  proc = "up" /\ ~dirty /\ ~HasActiveRun(sess) => disk.receipts = sess.receipts

RecoveryInv ==
  /\ TypeOK /\ MemoryOfProcess /\ AcceptedAccounted /\ WaitsOnce
  /\ MailIsPending /\ DeliveredDoesNotWait /\ LostIsGone
  /\ StateFileCurrent
  /\ ReceiptsOfAccepted /\ ReceiptsComplete /\ ReceiptsSaved

\* The sequences of the invariant, with the types the lemmas ask for.
LEMMA SequenceTypes ==
  ASSUME TypeOK
  PROVE  /\ sess \in Session /\ disk \in Image
         /\ sess.queue \in Seq(Message) /\ sess.pending \in Seq(Message)
         /\ sess.receipts \in Seq(Message)
         /\ disk.queue \in Seq(Message) /\ disk.pending \in Seq(Message)
         /\ disk.receipts \in Seq(Message)
         /\ mail \in Seq(Message) /\ given \in Seq(Message)
BY DEF TypeOK, Session, Image

\* An input may be added to either of two sequences in which it does not wait.
LEMMA ApartAfterArrival ==
  ASSUME NEW q \in Seq(Message), NEW p \in Seq(Message), NEW m \in Message,
         IsInjective(q \o p), m \notin ToSet(q) \cup ToSet(p)
  PROVE  IsInjective(Append(q, m) \o p) /\ IsInjective(q \o Append(p, m))
<1>1. IsInjective(q) /\ IsInjective(p) /\ ToSet(q) \cap ToSet(p) = {}
  BY InjectiveParts
<1>2. /\ Append(q, m) \in Seq(Message) /\ Append(p, m) \in Seq(Message)
      /\ ToSet(Append(q, m)) = ToSet(q) \cup {m} /\ ToSet(Append(p, m)) = ToSet(p) \cup {m}
  BY AppendProperties, ToSetOfAppend
<1>3. IsInjective(Append(q, m)) /\ IsInjective(Append(p, m))
  BY <1>1, InjectiveAppend
<1>4. /\ ToSet(Append(q, m)) \cap ToSet(p) = {}
      /\ ToSet(q) \cap ToSet(Append(p, m)) = {}
  BY <1>1, <1>2
<1>5. IsInjective(Append(q, m) \o p)
  BY <1>1, <1>2, <1>3, <1>4, InjectiveConcat
<1>6. IsInjective(q \o Append(p, m))
  BY <1>1, <1>2, <1>3, <1>4, InjectiveConcat
<1> QED BY <1>5, <1>6

\* The receipt of an input that has none yet.
LEMMA ReceiptAdded ==
  ASSUME NEW q \in Seq(Message), NEW m \in Message, IsInjective(q), m \notin ToSet(q),
         NEW A, IsFiniteSet(A), ToSet(q) \subseteq A
  PROVE  /\ IsFiniteSet(A \cup {m})
         /\ IsInjective(Trim(Append(q, m))) /\ ToSet(Trim(Append(q, m))) \subseteq A \cup {m}
         /\ Cardinality(A \cup {m}) <= ReceiptLimit =>
              /\ Cardinality(A) <= ReceiptLimit
              /\ ToSet(Trim(Append(q, m))) = ToSet(q) \cup {m}
<1>1. /\ Append(q, m) \in Seq(Message) /\ IsInjective(Append(q, m))
      /\ ToSet(Append(q, m)) = ToSet(q) \cup {m}
  BY AppendProperties, InjectiveAppend, ToSetOfAppend
<1>2. IsFiniteSet(A \cup {m})
  BY FS_AddElement
<1>3. IsInjective(Trim(Append(q, m))) /\ ToSet(Trim(Append(q, m))) \subseteq ToSet(Append(q, m))
  BY <1>1, TrimReceipts
<1>4. ASSUME Cardinality(A \cup {m}) <= ReceiptLimit
      PROVE  /\ Cardinality(A) <= ReceiptLimit
             /\ ToSet(Trim(Append(q, m))) = ToSet(q) \cup {m}
  <2>1. ToSet(Append(q, m)) \subseteq A \cup {m}
    BY <1>1
  <2>2. Trim(Append(q, m)) = Append(q, m)
    BY <1>1, <1>2, <1>4, <2>1, TrimTakesNone
  <2>3. /\ Cardinality(A) <= Cardinality(A \cup {m})
        /\ Cardinality(A) \in Nat /\ Cardinality(A \cup {m}) \in Nat
    <3>1. A \subseteq A \cup {m}
      OBVIOUS
    <3> QED BY <1>2, <3>1, FS_Subset, FS_CardinalityType
  <2>4. Cardinality(A) <= ReceiptLimit
    BY <1>4, <2>3, SessionConstants
  <2> QED BY <1>1, <2>2, <2>4
<1> QED BY <1>1, <1>2, <1>3, <1>4

-----------------------------------------------------------------------------
(* Every step keeps the invariant *)

\* A new input or a retried one, routed to the queue or to the mailbox: what is
\* common to Send and Retry.
Arrival(m, d) ==
  /\ Free /\ ~Accounted(sess, m)
  /\ sess' = Routed(sess, m, d)
  /\ mail' = IF RoutedToPending(sess, d) THEN Append(mail, m) ELSE mail
  /\ accepted' = accepted \cup {m} /\ lost' = lost \ {m}
  /\ repeated' = repeated \cup (ToSet(given) \cap {m})
  /\ dirty' = TRUE
  /\ UNCHANGED <<proc, disk, given>>

LEMMA IsArrival ==
  ASSUME RecoveryInv, NEW m \in Message, NEW d \in Delivery, Send(m, d) \/ Retry(m, d)
  PROVE  Arrival(m, d)
<1>1. ToSet(given) \subseteq accepted /\ lost \subseteq accepted
  BY DEF RecoveryInv, AcceptedAccounted
<1>2. CASE Send(m, d)
  <2>1. m \notin accepted
    BY <1>2 DEF Send
  <2>2. lost' = lost \ {m} /\ repeated' = repeated \cup (ToSet(given) \cap {m})
    <3>1. lost' = lost /\ repeated' = repeated
      BY <1>2 DEF Send
    <3> QED BY <1>1, <2>1, <3>1
  <2> QED BY <1>2, <2>2 DEF Send, Arrival
<1>3. CASE Retry(m, d)
  <2>1. accepted' = accepted \cup {m}
    BY <1>3 DEF Retry
  <2> QED BY <1>3, <2>1 DEF Retry, Arrival
<1> QED BY <1>2, <1>3

LEMMA ArrivalStep ==
  ASSUME RecoveryInv, TypeOK', NEW m \in Message, NEW d, Arrival(m, d)
  PROVE  RecoveryInv'
<1>1. /\ proc = "up" /\ proc' = "up" /\ ~dirty /\ dirty' = TRUE
      /\ disk' = disk /\ given' = given
      /\ accepted' = accepted \cup {m} /\ lost' = lost \ {m}
      /\ repeated' = repeated \cup (ToSet(given) \cap {m})
      /\ m \notin ToSet(sess.receipts) /\ m \notin ToSet(sess.queue)
      /\ m \notin ToSet(sess.pending)
  BY DEF Arrival, Free, Accounted
<1>2. /\ sess \in Session /\ sess.queue \in Seq(Message) /\ sess.pending \in Seq(Message)
      /\ sess.receipts \in Seq(Message) /\ mail \in Seq(Message)
  BY SequenceTypes DEF RecoveryInv
<1>3. /\ sess'.queue = IF RoutedToPending(sess, d) THEN sess.queue ELSE Append(sess.queue, m)
      /\ sess'.pending = IF RoutedToPending(sess, d) THEN Append(sess.pending, m) ELSE sess.pending
      /\ sess'.receipts = Trim(Append(sess.receipts, m))
      /\ mail' = IF RoutedToPending(sess, d) THEN Append(mail, m) ELSE mail
  BY <1>2, RoutedFields DEF Arrival
<1>4. /\ ToSet(Append(sess.queue, m)) = ToSet(sess.queue) \cup {m}
      /\ ToSet(Append(sess.pending, m)) = ToSet(sess.pending) \cup {m}
      /\ ToSet(Append(mail, m)) = ToSet(mail) \cup {m}
  BY <1>2, ToSetOfAppend
<1>5. Waiting(sess') = Waiting(sess) \cup {m}
  BY <1>3, <1>4 DEF Waiting
<1>6. MemoryOfProcess'
  BY <1>1 DEF MemoryOfProcess
<1>7. AcceptedAccounted'
  BY <1>1, <1>5 DEF RecoveryInv, AcceptedAccounted
<1>8. WaitsOnce'
  <2>1. IsInjective(sess.queue \o sess.pending) /\ IsInjective(disk.queue \o disk.pending)
    BY DEF RecoveryInv, WaitsOnce
  <2>2. IsInjective(sess'.queue \o sess'.pending)
    BY <1>1, <1>2, <1>3, <2>1, ApartAfterArrival
  <2> QED BY <1>1, <2>1, <2>2 DEF WaitsOnce
<1>9. MailIsPending'
  BY <1>1, <1>3, <1>4 DEF RecoveryInv, MailIsPending
<1>10. DeliveredDoesNotWait'
  BY <1>1, <1>3, <1>4 DEF RecoveryInv, DeliveredDoesNotWait
<1>11. LostIsGone'
  BY <1>1, <1>5 DEF RecoveryInv, LostIsGone
<1>12. StateFileCurrent'
  BY <1>1 DEF StateFileCurrent, AckedIsDurable, LiveRunMarked, OnlyUnsettledRepeat
<1>13. /\ IsFiniteSet(accepted') /\ IsInjective(sess'.receipts)
       /\ ToSet(sess'.receipts) \subseteq accepted'
       /\ Cardinality(accepted') <= ReceiptLimit =>
            /\ Cardinality(accepted) <= ReceiptLimit
            /\ ToSet(sess'.receipts) = ToSet(sess.receipts) \cup {m}
  <2>1. IsFiniteSet(accepted) /\ IsInjective(sess.receipts) /\ ToSet(sess.receipts) \subseteq accepted
    BY DEF RecoveryInv, ReceiptsOfAccepted
  <2> DEFINE t == Trim(Append(sess.receipts, m))
             a == accepted \cup {m}
  <2>2. /\ IsFiniteSet(a) /\ IsInjective(t) /\ ToSet(t) \subseteq a
        /\ Cardinality(a) <= ReceiptLimit =>
             /\ Cardinality(accepted) <= ReceiptLimit
             /\ ToSet(t) = ToSet(sess.receipts) \cup {m}
    BY <1>1, <1>2, <2>1, ReceiptAdded
  <2>3. sess'.receipts = t /\ accepted' = a
    BY <1>1, <1>3
  <2> HIDE DEF t, a
  <2> QED BY <2>2, <2>3
<1>14. ReceiptsOfAccepted'
  BY <1>1, <1>13 DEF RecoveryInv, ReceiptsOfAccepted
<1>15. ReceiptsComplete'
  BY <1>1, <1>13 DEF RecoveryInv, ReceiptsComplete
<1>16. ReceiptsSaved'
  BY <1>1 DEF ReceiptsSaved
<1> QED BY <1>6, <1>7, <1>8, <1>9, <1>10, <1>11, <1>12, <1>14, <1>15, <1>16 DEF RecoveryInv

\* The old "user" command: nothing is saved, and the state file still has every
\* input of the current protocol in its order.
LEMMA SendLegacyStep ==
  ASSUME RecoveryInv, TypeOK', NEW m \in Message, SendLegacy(m)
  PROVE  RecoveryInv'
<1>1. /\ proc = "up" /\ proc' = "up" /\ ~dirty /\ dirty' = dirty /\ HasActiveRun(sess)
      /\ disk' = disk /\ given' = given /\ mail' = mail /\ lost' = lost
      /\ repeated' = repeated /\ m \notin accepted
      /\ accepted' = accepted \cup {m} /\ legacy' = legacy \cup {m}
      /\ m \notin ToSet(sess.receipts) /\ m \notin ToSet(sess.queue)
      /\ m \notin ToSet(sess.pending)
  BY DEF SendLegacy, Free, Accounted
<1>2. /\ sess \in Session /\ sess.queue \in Seq(Message) /\ sess.pending \in Seq(Message)
      /\ sess.receipts \in Seq(Message) /\ disk.queue \in Seq(Message)
      /\ Len(sess.receipts) <= ReceiptLimit
  BY SequenceTypes DEF RecoveryInv, TypeOK
<1>3. /\ sess'.queue = Append(sess.queue, m) /\ sess'.pending = sess.pending
      /\ sess'.receipts = Trim(Append(sess.receipts, m))
      /\ sess'.run = sess.run /\ sess'.phase = sess.phase
  BY <1>2, EnqueuedFields DEF SendLegacy
<1>4. /\ ToSet(sess'.queue) = ToSet(sess.queue) \cup {m}
      /\ Waiting(sess') = Waiting(sess) \cup {m}
  <2>1. ToSet(Append(sess.queue, m)) = ToSet(sess.queue) \cup {m}
    BY <1>2, ToSetOfAppend
  <2> QED BY <1>3, <2>1 DEF Waiting
<1>5. /\ ToSet(given) \subseteq accepted /\ lost \subseteq accepted
      /\ accepted = lost \cup ToSet(given) \cup Waiting(sess)
  BY <1>1 DEF RecoveryInv, AcceptedAccounted
<1>6. HasActiveRun(sess')
  BY <1>1, <1>3 DEF HasActiveRun
<1>7. MemoryOfProcess'
  BY <1>1 DEF MemoryOfProcess
<1>8. AcceptedAccounted'
  BY <1>1, <1>4, <1>5 DEF AcceptedAccounted
<1>9. WaitsOnce'
  <2>1. IsInjective(sess.queue \o sess.pending) /\ IsInjective(disk.queue \o disk.pending)
    BY DEF RecoveryInv, WaitsOnce
  <2>2. IsInjective(Append(sess.queue, m) \o sess.pending)
    BY <1>1, <1>2, <2>1, ApartAfterArrival
  <2> QED BY <1>1, <1>3, <2>1, <2>2 DEF WaitsOnce
<1>10. MailIsPending'
  BY <1>1, <1>3 DEF RecoveryInv, MailIsPending
<1>11. DeliveredDoesNotWait'
  BY <1>1, <1>4, <1>5 DEF RecoveryInv, DeliveredDoesNotWait
<1>12. LostIsGone'
  BY <1>1, <1>4, <1>5 DEF RecoveryInv, LostIsGone
<1>13. AckedIsDurable'
  <2>1. Current(sess.queue) = Current(disk.queue) /\ sess.pending = disk.pending
    BY <1>1 DEF RecoveryInv, StateFileCurrent, AckedIsDurable
  <2> DEFINE U == Message \ legacy
             V == Message \ (legacy \cup {m})
  <2>2. Only(sess.queue, V) = Only(sess.queue, U)
    <3>1. ToSet(sess.queue) \cap V = ToSet(sess.queue) \cap U
      BY <1>1
    <3> HIDE DEF U, V
    <3> QED BY <1>2, <3>1, OnlyAgree
  <2>3. Only(disk.queue, V) = Only(disk.queue, U)
    <3>1. m \notin ToSet(disk.queue)
      BY <1>1 DEF RecoveryInv, LostIsGone, Waiting
    <3>2. ToSet(disk.queue) \cap V = ToSet(disk.queue) \cap U
      BY <3>1
    <3> HIDE DEF U, V
    <3> QED BY <1>2, <3>2, OnlyAgree
  <2>4. Only(Append(sess.queue, m), V) = Only(sess.queue, V)
    <3>1. m \notin V
      OBVIOUS
    <3> HIDE DEF V
    <3> QED BY <1>2, <3>1, OnlyAppendOther
  <2>5. Message \ legacy' = V
    BY <1>1
  <2>6. Only(sess.queue, U) = Only(disk.queue, U)
    BY <2>1 DEF Current
  <2>7. Only(sess'.queue, V) = Only(disk'.queue, V)
    BY <1>1, <1>3, <2>2, <2>3, <2>4, <2>6
  <2>8. (Current(sess.queue) = Current(disk.queue))'
    BY <2>5, <2>7 DEF Current
  <2> QED BY <1>1, <1>3, <2>1, <2>8 DEF AckedIsDurable
<1>14. LiveRunMarked'
  BY <1>1, <1>3, <1>6 DEF RecoveryInv, StateFileCurrent, LiveRunMarked
<1>15. OnlyUnsettledRepeat'
  BY <1>1, <1>3 DEF RecoveryInv, StateFileCurrent, OnlyUnsettledRepeat
<1>16. /\ IsFiniteSet(accepted') /\ IsInjective(sess'.receipts)
       /\ ToSet(sess'.receipts) \subseteq accepted'
       /\ Cardinality(accepted') <= ReceiptLimit =>
            /\ Cardinality(accepted) <= ReceiptLimit
            /\ ToSet(sess'.receipts) = ToSet(sess.receipts) \cup {m}
  <2>1. IsFiniteSet(accepted) /\ IsInjective(sess.receipts) /\ ToSet(sess.receipts) \subseteq accepted
    BY DEF RecoveryInv, ReceiptsOfAccepted
  <2> DEFINE t == Trim(Append(sess.receipts, m))
             a == accepted \cup {m}
  <2>2. /\ IsFiniteSet(a) /\ IsInjective(t) /\ ToSet(t) \subseteq a
        /\ Cardinality(a) <= ReceiptLimit =>
             /\ Cardinality(accepted) <= ReceiptLimit
             /\ ToSet(t) = ToSet(sess.receipts) \cup {m}
    BY <1>1, <1>2, <2>1, ReceiptAdded
  <2>3. sess'.receipts = t /\ accepted' = a
    BY <1>1, <1>3
  <2> HIDE DEF t, a
  <2> QED BY <2>2, <2>3
<1>17. ReceiptsOfAccepted'
  BY <1>1, <1>16 DEF RecoveryInv, ReceiptsOfAccepted
<1>18. ReceiptsComplete'
  BY <1>1, <1>16 DEF RecoveryInv, ReceiptsComplete
<1>19. ReceiptsSaved'
  BY <1>6 DEF ReceiptsSaved
<1> QED BY <1>7, <1>8, <1>9, <1>10, <1>11, <1>12, <1>13, <1>14, <1>15, <1>17, <1>18, <1>19
        DEF RecoveryInv, StateFileCurrent

\* A Run takes the head of the queue, whose receipt is saved.
LEMMA StartStep ==
  ASSUME RecoveryInv, TypeOK', NEW r \in Run, NEW rn \in Runner, Start(r, rn)
  PROVE  RecoveryInv'
<1>1. /\ proc = "up" /\ proc' = "up" /\ ~dirty /\ dirty' = TRUE /\ ~HasActiveRun(sess)
      /\ disk' = disk /\ given' = Append(given, Head(sess.queue)) /\ mail' = mail
      /\ lost' = lost /\ repeated' = repeated /\ accepted' = accepted
      /\ sess.queue # <<>>
  BY DEF Start, Free, CanStart
<1>2. /\ sess \in Session /\ sess.queue \in Seq(Message) /\ sess.pending \in Seq(Message)
      /\ given \in Seq(Message)
  BY SequenceTypes DEF RecoveryInv
<1>3. /\ sess'.queue = Tail(sess.queue) /\ sess'.pending = sess.pending
      /\ sess'.receipts = sess.receipts
  BY <1>2, StartedFields DEF Start
<1> DEFINE h == Head(sess.queue)
           t == Tail(sess.queue)
<1>4. /\ h \in Message /\ t \in Seq(Message) /\ ToSet(sess.queue) = {h} \cup ToSet(t)
  BY <1>1, <1>2, HeadTailProperties, ToSetOfTail
<1>5. /\ IsInjective(sess.queue) /\ IsInjective(sess.pending)
      /\ ToSet(sess.queue) \cap ToSet(sess.pending) = {}
  BY <1>2, InjectiveParts DEF RecoveryInv, WaitsOnce
<1>6. h \notin ToSet(t) /\ IsInjective(t)
  BY <1>1, <1>2, <1>5, InjectiveTail, HeadNotInTail
<1> HIDE DEF h, t
<1>7. /\ ToSet(given') = ToSet(given) \cup {h} /\ sess'.queue = t
      /\ Waiting(sess) = Waiting(sess') \cup {h}
  <2>1. ToSet(Append(given, h)) = ToSet(given) \cup {h}
    BY <1>2, <1>4, ToSetOfAppend
  <2> QED BY <1>1, <1>3, <1>4, <2>1 DEF Waiting, h, t
<1>8. h \notin ToSet(mail) /\ h \in accepted /\ h \notin lost /\ h \notin ToSet(sess.pending)
  <2>1. h \in ToSet(sess.queue)
    BY <1>4
  <2>2. h \notin ToSet(sess.pending)
    BY <1>5, <2>1
  <2>3. ToSet(mail) \subseteq ToSet(sess.pending)
    BY DEF RecoveryInv, MailIsPending
  <2>4. h \in accepted /\ h \notin lost
    BY <1>1, <1>7 DEF RecoveryInv, AcceptedAccounted, LostIsGone
  <2> QED BY <2>2, <2>3, <2>4
<1>9. MemoryOfProcess'
  BY <1>1 DEF MemoryOfProcess
<1>10. AcceptedAccounted'
  BY <1>1, <1>7 DEF RecoveryInv, AcceptedAccounted
<1>11. WaitsOnce'
  <2>1. IsInjective(t \o sess.pending)
    BY <1>2, <1>4, <1>5, <1>6, InjectiveConcat
  <2> QED BY <1>1, <1>3, <1>7, <2>1 DEF RecoveryInv, WaitsOnce
<1>12. MailIsPending'
  BY <1>1, <1>3, <1>7 DEF RecoveryInv, MailIsPending
<1>13. DeliveredDoesNotWait'
  BY <1>1, <1>4, <1>6, <1>7, <1>8 DEF RecoveryInv, DeliveredDoesNotWait
<1>14. LostIsGone'
  BY <1>1, <1>7, <1>8 DEF RecoveryInv, LostIsGone
<1>15. StateFileCurrent'
  BY <1>1 DEF StateFileCurrent, AckedIsDurable, LiveRunMarked, OnlyUnsettledRepeat
<1>16. ReceiptsOfAccepted'
  BY <1>1, <1>3 DEF RecoveryInv, ReceiptsOfAccepted
<1>17. ReceiptsComplete'
  <2>1. disk.receipts = sess.receipts
    BY <1>1 DEF RecoveryInv, ReceiptsSaved
  <2> QED BY <1>1, <1>3, <1>7, <1>8, <2>1 DEF RecoveryInv, ReceiptsComplete
<1>18. ReceiptsSaved'
  BY <1>1 DEF ReceiptsSaved
<1> QED BY <1>9, <1>10, <1>11, <1>12, <1>13, <1>14, <1>15, <1>16, <1>17, <1>18
        DEF RecoveryInv

LEMMA ReadMailStep ==
  ASSUME RecoveryInv, TypeOK', ReadMail
  PROVE  RecoveryInv'
<1>1. /\ proc = "up" /\ proc' = "up" /\ ~dirty /\ dirty' = dirty /\ HasActiveRun(sess)
      /\ disk' = disk /\ sess' = sess /\ mail' = <<>> /\ given' = given \o mail
      /\ lost' = lost /\ repeated' = repeated /\ accepted' = accepted /\ legacy' = legacy
  BY DEF ReadMail, Free
<1>2. /\ sess.queue \in Seq(Message) /\ sess.pending \in Seq(Message)
      /\ given \in Seq(Message) /\ mail \in Seq(Message)
  BY SequenceTypes DEF RecoveryInv
<1>3. ToSet(given') = ToSet(given) \cup ToSet(mail) /\ ToSet(mail') = {}
  BY <1>1, <1>2, ToSetOfConcat, ToSetOfEmpty
<1>4. ToSet(mail) \subseteq ToSet(sess.pending) /\ ToSet(mail) \subseteq Waiting(sess)
  BY DEF RecoveryInv, MailIsPending, Waiting
<1>5. ToSet(sess.queue) \cap ToSet(mail) = {}
  <2>1. ToSet(sess.queue) \cap ToSet(sess.pending) = {}
    BY <1>2, InjectiveParts DEF RecoveryInv, WaitsOnce
  <2> QED BY <1>4, <2>1
<1>6. MemoryOfProcess'
  BY <1>1 DEF MemoryOfProcess
<1>7. AcceptedAccounted'
  BY <1>1, <1>3, <1>4 DEF RecoveryInv, AcceptedAccounted
<1>8. WaitsOnce'
  BY <1>1 DEF RecoveryInv, WaitsOnce
<1>9. MailIsPending'
  BY <1>1, <1>3 DEF RecoveryInv, MailIsPending
<1>10. DeliveredDoesNotWait'
  BY <1>1, <1>3, <1>5 DEF RecoveryInv, DeliveredDoesNotWait
<1>11. LostIsGone'
  BY <1>1, <1>3, <1>4 DEF RecoveryInv, LostIsGone
<1>12. AckedIsDurable' /\ LiveRunMarked'
  BY <1>1 DEF RecoveryInv, StateFileCurrent, AckedIsDurable, LiveRunMarked, Current
<1>13. OnlyUnsettledRepeat'
  BY <1>1, <1>3, <1>4 DEF RecoveryInv, StateFileCurrent, OnlyUnsettledRepeat
<1>14. ReceiptsOfAccepted'
  BY <1>1 DEF RecoveryInv, ReceiptsOfAccepted
<1>15. ReceiptsComplete'
  <2>1. ToSet(mail) \subseteq Waiting(disk)
    BY <1>1, <1>4 DEF RecoveryInv, StateFileCurrent, AckedIsDurable, Waiting
  <2> QED BY <1>1, <1>3, <2>1 DEF RecoveryInv, ReceiptsComplete
<1>16. ReceiptsSaved'
  BY <1>1 DEF ReceiptsSaved
<1> QED BY <1>6, <1>7, <1>8, <1>9, <1>10, <1>11, <1>12, <1>13, <1>14, <1>15, <1>16
        DEF RecoveryInv, StateFileCurrent

\* The end of a Run: the unread immediates go back before the queue, the others
\* were given to the Run.
LEMMA EndRunStep ==
  ASSUME RecoveryInv, TypeOK', NEW o \in Outcome, EndRun(o)
  PROVE  RecoveryInv'
<1>1. /\ proc = "up" /\ proc' = "up" /\ ~dirty /\ dirty' = TRUE
      /\ disk' = disk /\ given' = given /\ mail' = <<>>
      /\ lost' = lost /\ repeated' = repeated /\ accepted' = accepted
  BY DEF EndRun, Free
<1>2. /\ sess \in Session /\ sess.queue \in Seq(Message) /\ sess.pending \in Seq(Message)
      /\ mail \in Seq(Message)
  BY SequenceTypes DEF RecoveryInv
<1> DEFINE u == UnreadOf(sess, ToSet(mail))
<1>3. /\ sess'.queue = u \o sess.queue /\ sess'.pending = <<>>
      /\ sess'.receipts = sess.receipts
  BY <1>2, EndRunFields DEF EndRun
<1>4. /\ IsInjective(sess.queue) /\ IsInjective(sess.pending)
      /\ ToSet(sess.queue) \cap ToSet(sess.pending) = {}
  BY <1>2, InjectiveParts DEF RecoveryInv, WaitsOnce
<1>5. ToSet(mail) \subseteq ToSet(sess.pending)
      /\ ToSet(sess.pending) \ ToSet(mail) \subseteq ToSet(given)
  BY DEF RecoveryInv, MailIsPending
<1>6. u \in Seq(Message) /\ ToSet(u) = ToSet(mail) /\ IsInjective(u)
  <2>1. u \in Seq(Message) /\ ToSet(u) = ToSet(sess.pending) \cap ToSet(mail) /\ IsInjective(u)
    BY <1>2, <1>4, OnlyMembers DEF UnreadOf
  <2> QED BY <1>5, <2>1
<1> HIDE DEF u
<1>7. /\ ToSet(sess'.queue) = ToSet(mail) \cup ToSet(sess.queue) /\ ToSet(sess'.pending) = {}
      /\ Waiting(sess') = ToSet(mail) \cup ToSet(sess.queue) /\ ToSet(mail') = {}
  <2>1. ToSet(u \o sess.queue) = ToSet(u) \cup ToSet(sess.queue)
    BY <1>2, <1>6, ToSetOfConcat
  <2> QED BY <1>1, <1>3, <1>6, <2>1, ToSetOfEmpty DEF Waiting
<1>8. MemoryOfProcess'
  BY <1>1 DEF MemoryOfProcess
<1>9. AcceptedAccounted'
  BY <1>1, <1>5, <1>7 DEF RecoveryInv, AcceptedAccounted, Waiting
<1>10. WaitsOnce'
  <2>1. IsInjective(u \o sess.queue) /\ u \o sess.queue \in Seq(Message)
    BY <1>2, <1>4, <1>5, <1>6, InjectiveConcat, ConcatProperties
  <2>2. (u \o sess.queue) \o <<>> = u \o sess.queue
    BY <2>1, ConcatEmptySeq
  <2> QED BY <1>1, <1>3, <2>1, <2>2 DEF RecoveryInv, WaitsOnce
<1>11. MailIsPending'
  BY <1>7 DEF MailIsPending
<1>12. DeliveredDoesNotWait'
  BY <1>1, <1>7 DEF RecoveryInv, DeliveredDoesNotWait
<1>13. LostIsGone'
  BY <1>1, <1>5, <1>7 DEF RecoveryInv, LostIsGone, Waiting
<1>14. StateFileCurrent'
  BY <1>1 DEF StateFileCurrent, AckedIsDurable, LiveRunMarked, OnlyUnsettledRepeat
<1>15. ReceiptsOfAccepted'
  BY <1>1, <1>3 DEF RecoveryInv, ReceiptsOfAccepted
<1>16. ReceiptsComplete'
  BY <1>1, <1>3 DEF RecoveryInv, ReceiptsComplete
<1>17. ReceiptsSaved'
  BY <1>1 DEF ReceiptsSaved
<1> QED BY <1>8, <1>9, <1>10, <1>11, <1>12, <1>13, <1>14, <1>15, <1>16, <1>17 DEF RecoveryInv

\* What is in memory goes to the state file.
LEMMA SaveStep ==
  ASSUME RecoveryInv, TypeOK', Save
  PROVE  RecoveryInv'
<1>1. /\ proc = "up" /\ proc' = "up" /\ dirty' = FALSE
      /\ sess' = sess /\ given' = given /\ mail' = mail
      /\ lost' = lost /\ repeated' = repeated /\ accepted' = accepted /\ legacy' = legacy
  BY DEF Save
<1>2. /\ disk'.queue = sess.queue /\ disk'.pending = sess.pending
      /\ disk'.receipts = sess.receipts
      /\ disk'.marker = IF HasActiveRun(sess) THEN sess.run ELSE NoRun
  BY SequenceTypes, ImageFields DEF Save, RecoveryInv
<1>3. Waiting(disk') = Waiting(sess)
  BY <1>2 DEF Waiting
<1>4. IsInjective(sess.queue \o sess.pending)
  BY DEF RecoveryInv, WaitsOnce
<1>5. MemoryOfProcess'
  BY <1>1 DEF MemoryOfProcess
<1>6. AcceptedAccounted'
  BY <1>1 DEF RecoveryInv, AcceptedAccounted
<1>7. WaitsOnce'
  BY <1>1, <1>2, <1>4 DEF WaitsOnce
<1>8. MailIsPending'
  BY <1>1 DEF RecoveryInv, MailIsPending
<1>9. DeliveredDoesNotWait'
  BY <1>1 DEF RecoveryInv, DeliveredDoesNotWait
<1>10. LostIsGone'
  BY <1>1, <1>3 DEF RecoveryInv, LostIsGone, AcceptedAccounted
<1>11. AckedIsDurable' /\ LiveRunMarked'
  BY <1>1, <1>2 DEF AckedIsDurable, LiveRunMarked, Current
<1>12. OnlyUnsettledRepeat'
  BY <1>1, <1>3 DEF RecoveryInv, DeliveredDoesNotWait, OnlyUnsettledRepeat, Waiting
<1>13. ReceiptsOfAccepted'
  BY <1>1, <1>2 DEF RecoveryInv, ReceiptsOfAccepted
<1>14. ReceiptsComplete'
  <2>1. Waiting(sess) \cup ToSet(given) \subseteq accepted \ lost
    BY <1>1 DEF RecoveryInv, AcceptedAccounted, LostIsGone
  <2> QED BY <1>1, <1>2, <1>3, <2>1 DEF RecoveryInv, ReceiptsComplete
<1>15. ReceiptsSaved'
  BY <1>1, <1>2 DEF ReceiptsSaved
<1> QED BY <1>5, <1>6, <1>7, <1>8, <1>9, <1>10, <1>11, <1>12, <1>13, <1>14, <1>15
        DEF RecoveryInv, StateFileCurrent

\* The process dies: what waits on disk is what remains.
LEMMA CrashStep ==
  ASSUME RecoveryInv, TypeOK', Crash
  PROVE  RecoveryInv'
<1>1. /\ proc # "down" /\ proc' = "down" /\ dirty' = FALSE /\ sess' = NewSession
      /\ mail' = <<>> /\ given' = given /\ disk' = disk /\ accepted' = accepted
      /\ lost' = lost \cup (Waiting(sess) \ (Waiting(disk) \cup ToSet(given)))
      /\ repeated' = repeated \cup (ToSet(given) \cap Waiting(disk))
  BY DEF Crash
<1>2. /\ sess'.queue = <<>> /\ sess'.pending = <<>> /\ sess'.receipts = <<>>
      /\ Waiting(sess') = {} /\ ToSet(sess'.receipts) = {} /\ ToSet(mail') = {}
      /\ ToSet(sess'.queue) = {}
  BY <1>1, NewSessionType, ToSetOfEmpty DEF NewSession
<1>3. IsInjective(<<>>) /\ <<>> \o <<>> = <<>>
  BY EmptySeq, ConcatEmptySeq DEF IsInjective
<1>4. MemoryOfProcess'
  BY <1>1 DEF MemoryOfProcess
<1>5. AcceptedAccounted'
  BY <1>1 DEF RecoveryInv, AcceptedAccounted, LostIsGone
<1>6. WaitsOnce'
  BY <1>1, <1>2, <1>3 DEF RecoveryInv, WaitsOnce
<1>7. MailIsPending'
  BY <1>2, ToSetOfEmpty DEF MailIsPending
<1>8. DeliveredDoesNotWait'
  BY <1>1, <1>2 DEF DeliveredDoesNotWait
<1>9. LostIsGone'
  BY <1>1, <1>2 DEF RecoveryInv, LostIsGone
<1>10. StateFileCurrent'
  BY <1>1 DEF StateFileCurrent, AckedIsDurable, LiveRunMarked, OnlyUnsettledRepeat
<1>11. ReceiptsOfAccepted'
  BY <1>1, <1>2, <1>3 DEF RecoveryInv, ReceiptsOfAccepted
<1>12. ReceiptsComplete'
  BY <1>1 DEF RecoveryInv, ReceiptsComplete
<1>13. ReceiptsSaved'
  BY <1>1 DEF ReceiptsSaved
<1> QED BY <1>4, <1>5, <1>6, <1>7, <1>8, <1>9, <1>10, <1>11, <1>12, <1>13 DEF RecoveryInv

\* The scan at startup puts into memory what waits on disk.
LEMMA RecoverStep ==
  ASSUME RecoveryInv, TypeOK', Recover
  PROVE  RecoveryInv'
<1>1. /\ proc = "down" /\ proc' = "recovering" /\ dirty' = dirty /\ mail' = mail
      /\ given' = given /\ disk' = disk /\ accepted' = accepted /\ lost' = lost
      /\ repeated' = repeated /\ ~dirty /\ mail = <<>>
  BY DEF Recover, RecoveryInv, MemoryOfProcess
<1>2. /\ disk \in Image /\ disk.queue \in Seq(Message) /\ disk.pending \in Seq(Message)
      /\ disk.receipts \in Seq(Message)
  BY SequenceTypes DEF RecoveryInv
<1>3. /\ sess'.queue = disk.pending \o disk.queue /\ sess'.pending = <<>>
      /\ sess'.receipts = Trim(disk.receipts) /\ ~HasActiveRun(sess')
  BY <1>2, RestoredFields DEF Recover
<1>4. /\ ToSet(sess'.queue) = Waiting(disk) /\ ToSet(sess'.pending) = {}
      /\ Waiting(sess') = Waiting(disk) /\ ToSet(mail) = {}
  <2>1. ToSet(disk.pending \o disk.queue) = ToSet(disk.pending) \cup ToSet(disk.queue)
    BY <1>2, ToSetOfConcat
  <2> QED BY <1>1, <1>3, <2>1, ToSetOfEmpty DEF Waiting
<1>5. MemoryOfProcess'
  BY <1>1, <1>3 DEF MemoryOfProcess
<1>6. AcceptedAccounted'
  BY <1>1, <1>4 DEF RecoveryInv, AcceptedAccounted
<1>7. WaitsOnce'
  <2>1. IsInjective(disk.queue \o disk.pending)
    BY DEF RecoveryInv, WaitsOnce
  <2>2. /\ IsInjective(disk.queue) /\ IsInjective(disk.pending)
        /\ ToSet(disk.pending) \cap ToSet(disk.queue) = {}
    BY <1>2, <2>1, InjectiveParts
  <2>3. IsInjective(disk.pending \o disk.queue) /\ disk.pending \o disk.queue \in Seq(Message)
    BY <1>2, <2>2, InjectiveConcat, ConcatProperties
  <2>4. (disk.pending \o disk.queue) \o <<>> = disk.pending \o disk.queue
    BY <2>3, ConcatEmptySeq
  <2> QED BY <1>1, <1>3, <2>1, <2>3, <2>4 DEF WaitsOnce
<1>8. MailIsPending'
  BY <1>1, <1>4 DEF MailIsPending
<1>9. DeliveredDoesNotWait'
  BY <1>1, <1>4 DEF RecoveryInv, DeliveredDoesNotWait
<1>10. LostIsGone'
  BY <1>1, <1>4 DEF RecoveryInv, LostIsGone
<1>11. StateFileCurrent'
  BY <1>1 DEF StateFileCurrent, AckedIsDurable, LiveRunMarked, OnlyUnsettledRepeat
<1>12. /\ IsFiniteSet(accepted) /\ IsInjective(disk.receipts)
       /\ ToSet(disk.receipts) \subseteq accepted
  BY DEF RecoveryInv, ReceiptsOfAccepted
<1>13. IsInjective(Trim(disk.receipts)) /\ ToSet(Trim(disk.receipts)) \subseteq accepted
  BY <1>2, <1>12, TrimReceipts
<1>14. ReceiptsOfAccepted'
  BY <1>1, <1>3, <1>12, <1>13 DEF ReceiptsOfAccepted
<1>15. ReceiptsComplete'
  <2>1. Cardinality(accepted) <= ReceiptLimit => Trim(disk.receipts) = disk.receipts
    BY <1>2, <1>12, TrimTakesNone
  <2>2. accepted \ lost \subseteq Waiting(disk) \cup ToSet(given)
    BY <1>1 DEF RecoveryInv, AcceptedAccounted
  <2> QED BY <1>1, <1>3, <2>1, <2>2 DEF RecoveryInv, ReceiptsComplete
<1>16. ReceiptsSaved'
  BY <1>1 DEF ReceiptsSaved
<1> QED BY <1>5, <1>6, <1>7, <1>8, <1>9, <1>10, <1>11, <1>14, <1>15, <1>16 DEF RecoveryInv

\* What was restored is saved before the first command.
LEMMA HandoffStep ==
  ASSUME RecoveryInv, TypeOK', Handoff
  PROVE  RecoveryInv'
<1>1. /\ proc = "recovering" /\ proc' = "up" /\ dirty' = dirty /\ ~dirty /\ mail = <<>>
      /\ ~HasActiveRun(sess)
      /\ sess' = sess /\ given' = given /\ mail' = mail /\ legacy' = legacy
      /\ lost' = lost /\ repeated' = repeated /\ accepted' = accepted
  BY DEF Handoff, RecoveryInv, MemoryOfProcess
<1>2. sess \in Session
  BY SequenceTypes DEF RecoveryInv
<1>3. /\ disk'.queue = sess.queue /\ disk'.pending = sess.pending
      /\ disk'.receipts = sess.receipts /\ disk'.marker = NoRun
  <2>1. /\ ImageOf(sess) \in Image /\ ImageOf(sess).queue = sess.queue
        /\ ImageOf(sess).pending = sess.pending /\ ImageOf(sess).receipts = sess.receipts
    BY <1>2, ImageFields
  <2> QED BY <2>1 DEF Handoff, Image
<1>4. Waiting(disk') = Waiting(sess)
  BY <1>3 DEF Waiting
<1>5. IsInjective(sess.queue \o sess.pending)
  BY DEF RecoveryInv, WaitsOnce
<1>6. MemoryOfProcess'
  BY <1>1 DEF MemoryOfProcess
<1>7. AcceptedAccounted'
  BY <1>1 DEF RecoveryInv, AcceptedAccounted
<1>8. WaitsOnce'
  BY <1>1, <1>3, <1>5 DEF WaitsOnce
<1>9. MailIsPending'
  BY <1>1 DEF RecoveryInv, MailIsPending
<1>10. DeliveredDoesNotWait'
  BY <1>1 DEF RecoveryInv, DeliveredDoesNotWait
<1>11. LostIsGone'
  BY <1>1, <1>4 DEF RecoveryInv, LostIsGone, AcceptedAccounted
<1>12. AckedIsDurable' /\ LiveRunMarked'
  BY <1>1, <1>3 DEF AckedIsDurable, LiveRunMarked, Current
<1>13. OnlyUnsettledRepeat'
  BY <1>1, <1>4 DEF RecoveryInv, DeliveredDoesNotWait, OnlyUnsettledRepeat, Waiting
<1>14. ReceiptsOfAccepted'
  BY <1>1, <1>3 DEF RecoveryInv, ReceiptsOfAccepted
<1>15. ReceiptsComplete'
  <2>1. Waiting(sess) \cup ToSet(given) \subseteq accepted \ lost
    BY <1>1 DEF RecoveryInv, AcceptedAccounted, LostIsGone
  <2> QED BY <1>1, <1>3, <1>4, <2>1 DEF RecoveryInv, ReceiptsComplete
<1>16. ReceiptsSaved'
  BY <1>1, <1>3 DEF ReceiptsSaved
<1> QED BY <1>6, <1>7, <1>8, <1>9, <1>10, <1>11, <1>12, <1>13, <1>14, <1>15, <1>16
        DEF RecoveryInv, StateFileCurrent

LEMMA RecoveryInvInit == Init => RecoveryInv
<1> SUFFICES ASSUME Init PROVE RecoveryInv
  OBVIOUS
<1>1. TypeOK
  BY InitType
<1>2. /\ proc = "up" /\ sess = NewSession /\ ~dirty /\ mail = <<>> /\ accepted = {}
      /\ given = <<>> /\ lost = {} /\ legacy = {} /\ repeated = {}
  BY DEF Init
<1>3. /\ sess \in Session /\ ~HasActiveRun(sess)
      /\ sess.queue = <<>> /\ sess.pending = <<>> /\ sess.receipts = <<>>
  BY <1>2, NewSessionType DEF NewSession
<1>4. /\ disk.queue = <<>> /\ disk.pending = <<>> /\ disk.receipts = <<>>
      /\ disk.marker = NoRun
  BY <1>2, <1>3, ImageFields DEF Init
<1>5. ToSet(<<>>) = {} /\ IsInjective(<<>>) /\ <<>> \o <<>> = <<>>
  BY ToSetOfEmpty, EmptySeq, ConcatEmptySeq DEF IsInjective
<1>6. Waiting(sess) = {} /\ Waiting(disk) = {} /\ ToSet(given) = {} /\ ToSet(mail) = {}
  BY <1>2, <1>3, <1>4, <1>5 DEF Waiting
<1>7. MemoryOfProcess /\ AcceptedAccounted /\ MailIsPending /\ DeliveredDoesNotWait /\ LostIsGone
  BY <1>2, <1>3, <1>5, <1>6 DEF MemoryOfProcess, AcceptedAccounted, MailIsPending, DeliveredDoesNotWait, LostIsGone
<1>8. WaitsOnce
  BY <1>3, <1>4, <1>5 DEF WaitsOnce
<1>9. StateFileCurrent
  BY <1>3, <1>4, <1>6
     DEF StateFileCurrent, AckedIsDurable, LiveRunMarked, OnlyUnsettledRepeat, Current
<1>10. ReceiptsOfAccepted /\ ReceiptsComplete /\ ReceiptsSaved
  BY <1>2, <1>3, <1>4, <1>5, <1>6, FS_EmptySet
     DEF ReceiptsOfAccepted, ReceiptsComplete, ReceiptsSaved
<1> QED BY <1>1, <1>7, <1>8, <1>9, <1>10 DEF RecoveryInv

LEMMA RecoveryInvStep == RecoveryInv /\ [Next]_vars => RecoveryInv'
<1> SUFFICES ASSUME RecoveryInv, [Next]_vars PROVE RecoveryInv'
  OBVIOUS
<1>1. TypeOK'
  BY NextType DEF RecoveryInv
<1>2. ASSUME NEW m \in Message, NEW d \in Delivery, Send(m, d) \/ Retry(m, d)
      PROVE RecoveryInv'
  BY <1>1, <1>2, IsArrival, ArrivalStep
<1>3. ASSUME NEW m \in Message, SendLegacy(m) PROVE RecoveryInv'
  BY <1>1, <1>3, SendLegacyStep
<1>4. ASSUME NEW r \in Run, NEW rn \in Runner, Start(r, rn) PROVE RecoveryInv'
  BY <1>1, <1>4, StartStep
<1>5. ASSUME NEW o \in Outcome, EndRun(o) PROVE RecoveryInv'
  BY <1>1, <1>5, EndRunStep
<1>6. CASE ReadMail
  BY <1>1, <1>6, ReadMailStep
<1>7. CASE Save
  BY <1>1, <1>7, SaveStep
<1>8. CASE Crash
  BY <1>1, <1>8, CrashStep
<1>9. CASE Recover
  BY <1>1, <1>9, RecoverStep
<1>10. CASE Handoff
  BY <1>1, <1>10, HandoffStep
<1>11. CASE UNCHANGED vars
  BY <1>1, <1>11
     DEF vars, RecoveryInv, MemoryOfProcess, AcceptedAccounted, WaitsOnce, MailIsPending,
         DeliveredDoesNotWait, LostIsGone, StateFileCurrent, AckedIsDurable, LiveRunMarked,
         OnlyUnsettledRepeat, Current, ReceiptsOfAccepted, ReceiptsComplete, ReceiptsSaved
<1> QED BY <1>2, <1>3, <1>4, <1>5, <1>6, <1>7, <1>8, <1>9, <1>10, <1>11 DEF Next

LEMMA RecoveryInvAlways == Spec => []RecoveryInv
BY RecoveryInvInit, RecoveryInvStep, PTL DEF Spec

-----------------------------------------------------------------------------
(* The properties of the runs *)

\* An acknowledged input waits once, was given to a Run, or is one of those a
\* crash took before the save: for every set of inputs, through any number of
\* crashes, whatever the client sends again.
THEOREM InputsSurviveCrashes == Spec => []InputsAccounted
<1>1. RecoveryInv => InputsAccounted
  BY DEF RecoveryInv, InputsAccounted
<1> QED BY <1>1, RecoveryInvAlways, PTL

\* Between two handlers the state file has the waiting inputs of the current
\* protocol in their order and the live Run, and lists nothing that was given but
\* what the live Run has not settled, however long the queues are.
THEOREM StateFileStaysCurrent == Spec => []StateFileCurrent
<1>1. RecoveryInv => StateFileCurrent
  BY DEF RecoveryInv
<1> QED BY <1>1, RecoveryInvAlways, PTL

\* As long as the history holds a receipt for every input that was acknowledged, a
\* retry is recognised, also after restarts; trimming is what ends this.
THEOREM RetriesStayRecognised == Spec => []RetriesRecognised
<1>1. RecoveryInv => RetriesRecognised
  BY DEF RecoveryInv, ReceiptsComplete, RetriesRecognised, Accounted
<1> QED BY <1>1, RecoveryInvAlways, PTL

-----------------------------------------------------------------------------
(* Plans *)

\* Every command but a restart hands one plan to the store.
LEMMA KeepAgrees ==
  ASSUME AgreementsKept, NEW p \in Plan, Keep(p),
         approvedIn' \subseteq Versions, blessed \subseteq blessed', blessed' \subseteq Contents,
         p.status = "approved" => p.content \in blessed',
         p.done /\ ~p.claimed => p.content \in blessed' /\ p.evidence,
         ~restarted /\ p.status = "ready" => \A v \in approvedIn' : v < p.version
  PROVE  AgreementsKept'
<1> USE DEF AgreementsKept
<1>1. /\ tracker' = p /\ restarted' = restarted /\ refused' = (refused \/ ~StoreTakes(p))
      /\ planDisk' = IF StoreTakes(p) THEN [planDisk EXCEPT ![p.version] = p] ELSE planDisk
  BY DEF Keep
<1>2. p.present = TRUE /\ p.version \in Versions
  BY DEF Plan
<1>3. planDisk \in [Versions -> Plan \cup {NoPlan}]
  BY DEF PlanTypeOK
<1>4. \A v \in Versions : \/ planDisk'[v] = planDisk[v]
                          \/ planDisk'[v] = p /\ v = p.version
  BY <1>1, <1>2, <1>3
<1>5. PlanTypeOK'
  <2>1. planDisk' \in [Versions -> Plan \cup {NoPlan}]
    BY <1>1, <1>2, <1>3
  <2>2. \A v \in Versions : planDisk'[v].present => planDisk'[v].version = v
    BY <1>4 DEF PlanTypeOK
  <2>3. refused' \in BOOLEAN /\ restarted' \in BOOLEAN
    BY <1>1 DEF PlanTypeOK, StoreTakes
  <2> QED BY <1>1, <2>1, <2>2, <2>3 DEF PlanTypeOK
<1>6. DoneWasApproved'
  BY <1>1, <1>4 DEF DoneWasApproved
<1>7. ApprovalIsDurable'
  BY <1>1, <1>2, <1>3 DEF ApprovalIsDurable
<1>8. OfferIsNew'
  BY <1>1 DEF OfferIsNew
<1> QED BY <1>5, <1>6, <1>7, <1>8

\* What a new process finds is a version on disk.
LEMMA RestartFinds ==
  ASSUME PlanTypeOK, RestartPlans
  PROVE  /\ \/ tracker' = NoPlan
            \/ \E v \in Versions : /\ tracker' = planDisk[v] /\ tracker'.present
                                   /\ tracker' \in Plan /\ tracker'.version = v
         /\ approvedIn' \subseteq Versions
<1> DEFINE last == {v \in Versions : planDisk[v].present /\
                      \A u \in Versions : planDisk[u].present => u <= v}
           found == IF last = {} THEN NoPlan ELSE planDisk[CHOOSE v \in last : TRUE]
<1>1. tracker' = found
      /\ approvedIn' = IF found.present /\ found.status = "approved"
                       THEN {found.version} ELSE {}
  BY DEF RestartPlans
<1>2. CASE last = {}
  BY <1>1, <1>2 DEF NoPlan
<1>3. CASE last # {}
  <2>1. PICK v \in last : found = planDisk[v]
    BY <1>3
  <2>2. planDisk[v].present /\ v \in Versions
    BY <2>1
  <2>3. planDisk[v] \in Plan /\ planDisk[v].version = v
    BY <2>2 DEF PlanTypeOK, NoPlan
  <2> QED BY <1>1, <2>1, <2>2, <2>3
<1> QED BY <1>2, <1>3

LEMMA RestartAgrees == ASSUME AgreementsKept, RestartPlans PROVE AgreementsKept'
<1> USE DEF AgreementsKept
<1>1. UNCHANGED <<planDisk, blessed, refused>> /\ restarted' = TRUE
  BY DEF RestartPlans
<1>2. PlanTypeOK'
  BY <1>1, RestartFinds DEF PlanTypeOK
<1>3. DoneWasApproved'
  BY <1>1, RestartFinds DEF DoneWasApproved, NoPlan
<1>4. ApprovalIsDurable'
  BY <1>1, RestartFinds DEF ApprovalIsDurable, NoPlan
<1>5. OfferIsNew'
  BY <1>1 DEF OfferIsNew
<1> QED BY <1>2, <1>3, <1>4, <1>5

LEMMA TrackedPlan ==
  ASSUME AgreementsKept, tracker.present
  PROVE  /\ tracker \in Plan /\ (tracker.status = "approved" => tracker.content \in blessed)
         /\ tracker.done /\ ~tracker.claimed => tracker.content \in blessed /\ tracker.evidence
BY DEF AgreementsKept, PlanTypeOK, DoneWasApproved, NoPlan

LEMMA StepAgrees == AgreementsKept /\ [PlanNext]_planVars => AgreementsKept'
<1> SUFFICES ASSUME AgreementsKept, [PlanNext]_planVars PROVE AgreementsKept'
  OBVIOUS
<1>1. approvedIn \subseteq Versions /\ blessed \subseteq Contents
  BY DEF AgreementsKept, PlanTypeOK
<1>2. ASSUME NEW v \in Versions, NEW c \in Contents, NEW fin \in BOOLEAN, NEW ev \in BOOLEAN,
             Propose(v, c, fin, ev)
      PROVE  AgreementsKept'
  <2> DEFINE p == [present |-> TRUE, version |-> v, status |-> "ready", content |-> c,
                   done |-> fin, evidence |-> ev, claimed |-> fin]
  <2>1. p \in Plan /\ Keep(p) /\ UNCHANGED <<approvedIn, blessed>>
    BY <1>2 DEF Propose, Plan, PlanStatuses
  <2>2. \A a \in approvedIn : a < v
    BY <1>1, <1>2 DEF Propose, Versions
  <2> QED BY <1>1, <2>1, <2>2, KeepAgrees
<1>3. CASE Approve
  <2> DEFINE p == [tracker EXCEPT !.status = "approved"]
  <2>1. /\ tracker.present /\ Keep(p) /\ approvedIn' = approvedIn \cup {tracker.version}
        /\ blessed' = blessed \cup {tracker.content}
    BY <1>3 DEF Approve
  <2>2. tracker \in Plan /\ (tracker.done /\ ~tracker.claimed => tracker.evidence)
    BY <2>1, TrackedPlan
  <2>3. /\ p \in Plan /\ p.status = "approved" /\ p.content = tracker.content
        /\ p.done = tracker.done /\ p.claimed = tracker.claimed /\ p.evidence = tracker.evidence
        /\ tracker.done /\ ~tracker.claimed => tracker.evidence
        /\ tracker.version \in Versions /\ tracker.content \in Contents
    BY <2>2 DEF Plan, PlanStatuses
  <2> HIDE DEF p
  <2>4. approvedIn' \subseteq Versions /\ blessed' \subseteq Contents
    BY <1>1, <2>1, <2>3
  <2> QED BY <2>1, <2>3, <2>4, KeepAgrees
<1>4. CASE Revise
  <2> DEFINE p == [tracker EXCEPT !.version = @ + 1, !.status = "revising"]
  <2>1. /\ tracker.present /\ tracker.version < MaxVersion /\ Keep(p)
        /\ UNCHANGED <<approvedIn, blessed>>
    BY <1>4 DEF Revise
  <2>2. /\ tracker \in Plan
        /\ tracker.done /\ ~tracker.claimed => tracker.content \in blessed /\ tracker.evidence
    BY <2>1, TrackedPlan
  <2>3. tracker.version + 1 \in Versions
    BY <2>1, <2>2, PlanConstants DEF Plan, Versions
  <2>4. /\ p \in Plan /\ p.status = "revising" /\ p.content = tracker.content
        /\ p.done = tracker.done /\ p.claimed = tracker.claimed /\ p.evidence = tracker.evidence
    BY <2>2, <2>3 DEF Plan, PlanStatuses
  <2> HIDE DEF p
  <2> QED BY <2>4, <1>1, <2>1, <2>2, <2>3, KeepAgrees
<1>5. CASE CancelPlan
  <2> DEFINE p == [tracker EXCEPT !.status = "cancelled"]
  <2>1. tracker.present /\ Keep(p) /\ UNCHANGED <<approvedIn, blessed>>
    BY <1>5 DEF CancelPlan
  <2>2. /\ tracker \in Plan
        /\ tracker.done /\ ~tracker.claimed => tracker.content \in blessed /\ tracker.evidence
    BY <2>1, TrackedPlan
  <2>3. /\ p \in Plan /\ p.status = "cancelled" /\ p.content = tracker.content
        /\ p.done = tracker.done /\ p.claimed = tracker.claimed /\ p.evidence = tracker.evidence
    BY <2>2 DEF Plan, PlanStatuses
  <2> HIDE DEF p
  <2> QED BY <1>1, <2>1, <2>2, <2>3, KeepAgrees
<1>6. ASSUME NEW d \in BOOLEAN, NEW e \in BOOLEAN, tracker.present,
             d => tracker.status = "approved" /\ e,
             UpdateStep(d, e)
      PROVE  AgreementsKept'
  <2> DEFINE p == [tracker EXCEPT !.done = d, !.evidence = e, !.claimed = FALSE]
  <2>1. /\ tracker \in Plan
        /\ tracker.status = "approved" => tracker.content \in blessed
    BY <1>6, TrackedPlan
  <2>2. /\ p \in Plan /\ p.status = tracker.status /\ p.content = tracker.content
        /\ p.done = d /\ p.evidence = e /\ p.version = tracker.version
    BY <2>1 DEF Plan
  <2>3. ~restarted /\ tracker.status = "ready" => \A v \in approvedIn : v < tracker.version
    BY <1>6 DEF AgreementsKept, OfferIsNew
  <2>4. Keep(p) /\ UNCHANGED <<approvedIn, blessed>>
    BY <1>6 DEF UpdateStep
  <2> HIDE DEF p
  <2> QED BY <2>4, <1>1, <1>6, <2>1, <2>2, <2>3, KeepAgrees
<1>7. ASSUME tracker.present
      PROVE  /\ tracker.done \in BOOLEAN /\ tracker.evidence \in BOOLEAN
  <2>1. tracker \in Plan
    BY <1>7, TrackedPlan
  <2> QED BY <2>1 DEF Plan
<1>8. CASE CompleteStep
  BY <1>6, <1>7, <1>8 DEF CompleteStep
<1>9. CASE MoveStep
  BY <1>6, <1>7, <1>9 DEF MoveStep
<1>10. CASE AttachEvidence
  BY <1>6, <1>7, <1>10 DEF AttachEvidence
<1>11. CASE RestartPlans
  BY <1>11, RestartAgrees
<1>12. CASE UNCHANGED planVars
  BY <1>12 DEF planVars, AgreementsKept, PlanTypeOK, DoneWasApproved, ApprovalIsDurable,
               OfferIsNew
<1> QED BY <1>2, <1>3, <1>4, <1>5, <1>8, <1>9, <1>10, <1>11, <1>12 DEF PlanNext

LEMMA InitAgrees == PlanInit => AgreementsKept
<1> SUFFICES ASSUME PlanInit PROVE AgreementsKept
  OBVIOUS
<1>1. tracker.present = FALSE /\ \A v \in Versions : planDisk[v].present = FALSE
  BY DEF PlanInit, NoPlan
<1>2. PlanTypeOK
  BY <1>1 DEF PlanInit, PlanTypeOK
<1>3. DoneWasApproved /\ ApprovalIsDurable /\ OfferIsNew
  BY <1>1 DEF DoneWasApproved, ApprovalIsDurable, OfferIsNew
<1> QED BY <1>2, <1>3 DEF AgreementsKept

\* Work is done, and a plan approved, only for contents the user approved; an approval
\* outlives the process unless the store refused a save; and within a process no
\* approved version is offered again (plan.py, the plan commands of run_engine.py).
THEOREM AgreementsOutlive == PlanSpec => []AgreementsKept
<1> QED BY InitAgrees, StepAgrees, PTL DEF PlanSpec

-----------------------------------------------------------------------------
(* The plan store implements its ledger *)

\* A save that the store takes is a write of the ledger, one it refuses is none.
LEMMA KeepWrites ==
  ASSUME PlanTypeOK, NEW p \in Plan, Keep(p)
  PROVE  \/ UNCHANGED planDisk
         \/ Ledger!Write(p.version, p.content, p.status)
<1> SUFFICES ASSUME StoreTakes(p) PROVE Ledger!Write(p.version, p.content, p.status)
  BY DEF Keep
<1>1. planDisk' = [planDisk EXCEPT ![p.version] = p] /\ p.present = TRUE
      /\ p.version \in Versions /\ planDisk \in [Versions -> Plan \cup {NoPlan}]
  BY DEF Keep, Plan, PlanTypeOK
<1>2. \A s : Ledger!Rank(s) = StatusRank(s)
  BY DEF Ledger!Rank, StatusRank
<1> DEFINE L == [v \in Versions |-> LedgerOf(planDisk[v])]
<1>3. L[p.version].present =>
         L[p.version].content = p.content /\ Ledger!Rank(L[p.version].status) <= Ledger!Rank(p.status)
  BY <1>1, <1>2 DEF StoreTakes, LedgerOf
<1>4. L' = [L EXCEPT ![p.version] = Ledger!Entry(p.content, p.status)]
  BY <1>1 DEF LedgerOf, Ledger!Entry
<1> QED BY <1>3, <1>4 DEF Ledger!Write

\* Every command hands one plan to the store; a restart writes nothing.
LEMMA CommandsKeep ==
  AgreementsKept /\ [PlanNext]_planVars => (\E p \in Plan : Keep(p)) \/ UNCHANGED planDisk
<1> SUFFICES ASSUME AgreementsKept, [PlanNext]_planVars
             PROVE  (\E p \in Plan : Keep(p)) \/ UNCHANGED planDisk
  OBVIOUS
<1>1. ASSUME NEW v \in Versions, NEW c \in Contents, NEW fin \in BOOLEAN, NEW ev \in BOOLEAN,
             Propose(v, c, fin, ev)
      PROVE  \E p \in Plan : Keep(p)
  <2> DEFINE p == [present |-> TRUE, version |-> v, status |-> "ready", content |-> c,
                   done |-> fin, evidence |-> ev, claimed |-> fin]
  <2>1. p \in Plan /\ Keep(p)
    BY <1>1 DEF Propose, Plan, PlanStatuses
  <2> QED BY <2>1
<1>2. tracker.present => tracker \in Plan
  BY TrackedPlan
<1>3. ASSUME NEW s \in PlanStatuses, tracker.present, Keep([tracker EXCEPT !.status = s])
      PROVE  \E p \in Plan : Keep(p)
  <2>1. [tracker EXCEPT !.status = s] \in Plan
    BY <1>2, <1>3 DEF Plan
  <2> QED BY <1>3, <2>1
<1>4. ASSUME NEW d \in BOOLEAN, NEW e \in BOOLEAN, tracker.present, UpdateStep(d, e)
      PROVE  \E p \in Plan : Keep(p)
  <2>1. [tracker EXCEPT !.done = d, !.evidence = e, !.claimed = FALSE] \in Plan
    BY <1>2, <1>4 DEF Plan
  <2> QED BY <1>4, <2>1 DEF UpdateStep
<1>5. CASE Approve
  BY <1>3, <1>5 DEF Approve, PlanStatuses
<1>6. CASE Revise
  <2> DEFINE p == [tracker EXCEPT !.version = @ + 1, !.status = "revising"]
  <2>1. tracker.present /\ tracker.version < MaxVersion /\ Keep(p)
    BY <1>6 DEF Revise
  <2>2. tracker.version + 1 \in Versions
    BY <1>2, <2>1, PlanConstants DEF Plan, Versions
  <2>3. p \in Plan
    BY <1>2, <2>1, <2>2 DEF Plan, PlanStatuses
  <2> HIDE DEF p
  <2> QED BY <2>1, <2>3
<1>7. CASE CancelPlan
  BY <1>3, <1>7 DEF CancelPlan, PlanStatuses
<1>8. CASE CompleteStep \/ MoveStep \/ AttachEvidence
  <2>1. tracker.present
    BY <1>8 DEF CompleteStep, MoveStep, AttachEvidence
  <2>2. tracker.done \in BOOLEAN /\ tracker.evidence \in BOOLEAN
    BY <1>2, <2>1 DEF Plan
  <2> QED BY <1>4, <1>8, <2>1, <2>2 DEF CompleteStep, MoveStep, AttachEvidence
<1>10. CASE RestartPlans \/ UNCHANGED planVars
  BY <1>10 DEF RestartPlans, planVars
<1> QED BY <1>1, <1>5, <1>6, <1>7, <1>8, <1>10 DEF PlanNext

LEMMA StepWrites ==
  AgreementsKept /\ [PlanNext]_planVars =>
      [Ledger!LedgerNext]_[v \in Versions |-> LedgerOf(planDisk[v])]
<1> DEFINE L == [v \in Versions |-> LedgerOf(planDisk[v])]
<1> SUFFICES ASSUME AgreementsKept, [PlanNext]_planVars
             PROVE  Ledger!LedgerNext \/ L' = L
  OBVIOUS
<1>1. ASSUME UNCHANGED planDisk PROVE L' = L
  BY <1>1 DEF LedgerOf
<1>2. ASSUME NEW p \in Plan, Keep(p) PROVE Ledger!LedgerNext \/ L' = L
  <2>1. p.version \in 1 .. MaxVersion /\ p.content \in Contents /\ p.status \in Ledger!Statuses
    BY DEF Plan, Versions, PlanStatuses, Ledger!Statuses
  <2>2. PlanTypeOK
    BY DEF AgreementsKept
  <2> HIDE DEF L
  <2> QED BY <1>1, <1>2, <2>1, <2>2, KeepWrites DEF Ledger!LedgerNext
<1> HIDE DEF L
<1> QED BY <1>1, <1>2, CommandsKeep

\* The tracker, whose commands change memory first and are then saved or refused,
\* implements the ledger of the plan store (PlanStore.save): a version keeps its content
\* and never moves back, for any plans, commands and restarts.
THEOREM TrackerImplementsLedger == PlanSpec => LedgerKept
<1>1. PlanInit => Ledger!LedgerInit
  BY DEF PlanInit, Ledger!LedgerInit, Ledger!Absent, LedgerOf, NoPlan, Versions
<1> QED BY <1>1, InitAgrees, StepAgrees, StepWrites, PTL
        DEF PlanSpec, LedgerKept, Ledger!LedgerSpec

\* What was approved stays approved, with its content, unless the plan is cancelled
\* (_STATUS_RANK and the fingerprint check of PlanStore.save).
THEOREM ApprovedStays == PlanSpec => Ledger!Frozen
<1> DEFINE L == [v \in Versions |-> LedgerOf(planDisk[v])]
           Stays == \A v \in 1 .. MaxVersion :
                      L[v].present /\ L[v].status \in {"approved", "cancelled"} =>
                          /\ L'[v].present /\ L'[v].content = L[v].content
                          /\ L'[v].status \in {L[v].status, "cancelled"}
<1>1. AgreementsKept /\ [PlanNext]_planVars => [Stays]_L
  <2> SUFFICES ASSUME AgreementsKept, [PlanNext]_planVars, Ledger!LedgerNext PROVE Stays
    BY StepWrites
  <2>1. PICK v \in 1 .. MaxVersion, c \in Contents, s \in Ledger!Statuses : Ledger!Write(v, c, s)
    BY DEF Ledger!LedgerNext
  <2>2. L' = [L EXCEPT ![v] = Ledger!Entry(c, s)]
        /\ (L[v].present => L[v].content = c /\ Ledger!Rank(L[v].status) <= Ledger!Rank(s))
    BY <2>1 DEF Ledger!Write
  <2>3. DOMAIN L = 1 .. MaxVersion
    BY DEF Versions
  <2> HIDE DEF L
  <2>4. ASSUME NEW u \in 1 .. MaxVersion, L[u].present,
               L[u].status \in {"approved", "cancelled"}
        PROVE  /\ L'[u].present /\ L'[u].content = L[u].content
               /\ L'[u].status \in {L[u].status, "cancelled"}
    <3>1. CASE u = v
      <4>1. L'[u] = Ledger!Entry(c, s) /\ L[u].content = c
            /\ Ledger!Rank(L[u].status) <= Ledger!Rank(s)
        BY <2>2, <2>3, <2>4, <3>1
      <4>2. s \in {L[u].status, "cancelled"}
        BY <2>4, <4>1 DEF Ledger!Rank, Ledger!Statuses
      <4> QED BY <4>1, <4>2 DEF Ledger!Entry
    <3>2. CASE u # v
      <4>1. L'[u] = L[u]
        BY <2>2, <2>3, <3>2
      <4> QED BY <2>4, <4>1
    <3> QED BY <3>1, <3>2
  <2> QED BY <2>4
<1> QED BY <1>1, InitAgrees, StepAgrees, PTL DEF PlanSpec, Ledger!Frozen

-----------------------------------------------------------------------------
(* Submissions *)

\* What a record says of the scheduler's jobs js is so.
Truthful(js, r, k) ==
    /\ r.job = NoJob => r.state = ""
    /\ r.job # NoJob =>
          /\ r.job \in DOMAIN js /\ js[r.job].key = k
          /\ r.state \in Terminal => js[r.job].state = r.state

\* Even the copies that processes still hold, of other keys too, tell the truth.
RecordsTruthful ==
    /\ \A k \in Keys : Truthful(jobs, file[k], k)
    /\ \A k, o \in Keys : Truthful(jobs, copy[k][o], o)

\* Where a process is says where its agent is.
StepsInOrder ==
    /\ \A k \in Keys : step[k] = "prepare" => agent[k] \in {"start", "bound"}
    /\ \A k \in Keys : step[k] = "bind" => agent[k] = "submitted"
    /\ \A k \in Keys : step[k] \in {"query", "answered"} => agent[k] = "bound"
    /\ \A k \in Keys : agent[k] = "submitted" => \E j \in JobIds : jobs[j].key = k

\* Processes that do not overlap: the one at work has a copy that is up to date, and
\* an agent that has not submitted yet has no job.
Alone ==
    ~raced =>
       /\ \A k, o \in Keys : k # o => step[k] = "none" \/ step[o] = "none"
       /\ \A k, o \in Keys : step[k] # "none" => copy[k][o].job = file[o].job
       /\ \A k \in Keys : agent[k] \in {"start", "prepared"} =>
                             \A j \in JobIds : jobs[j].key # k

SubInv == JobsAccounted /\ RecordsTruthful /\ StepsInOrder /\ Alone

AgentStates == {"start", "prepared", "submitted", "unsure", "bound"}

LEMMA JobsSequence ==
  ASSUME SubTypeOK
  PROVE  /\ JobIds = 1 .. Len(jobs) /\ Len(jobs) \in Nat /\ NoJob \notin JobIds
         /\ \A j \in JobIds : jobs[j] \in [key : Keys, state : States]
<1>1. jobs \in Seq([key : Keys, state : States])
  BY DEF SubTypeOK
<1>2. JobIds = 1 .. Len(jobs) /\ Len(jobs) \in Nat
  BY <1>1 DEF JobIds
<1>3. \A j \in JobIds : jobs[j] \in [key : Keys, state : States]
  BY <1>1, <1>2, ElementOfSeq
<1> QED BY <1>2, <1>3 DEF NoJob

\* The id that sbatch returned is that of a job of this key.
LEMMA ReturnedIsOwn ==
  ASSUME SubTypeOK, NEW k \in Keys, NEW i \in JobIds, jobs[i].key = k
  PROVE  Returned(k) \in JobIds /\ jobs[Returned(k)].key = k
<1> DEFINE own == {j \in JobIds : jobs[j].key = k}
           T == {Len(jobs) - j : j \in own}
<1>1. T \subseteq Nat /\ T # {}
  BY JobsSequence
<1>2. PICK x \in T : \A y \in T : ~(<<y, x>> \in OpToRel(<, Nat))
  <2> HIDE DEF T
  <2> QED BY <1>1, WFMin, NatLessThanWellFounded
<1>3. \A y \in T : ~(y < x)
  <2>1. \A a, b \in Nat : a < b => <<a, b>> \in OpToRel(<, Nat)
    BY DEF OpToRel
  <2> HIDE DEF T
  <2> QED BY <1>1, <1>2, <2>1
<1>4. PICK j \in own : x = Len(jobs) - j
  BY <1>2
<1>5. \A n \in own : n <= j
  <2>1. \A n \in own : Len(jobs) - n \in T
    OBVIOUS
  <2>2. \A n \in own : n \in Int
    BY JobsSequence
  <2>3. \A n \in own : ~(Len(jobs) - n < Len(jobs) - j)
    BY <1>3, <1>4, <2>1
  <2>4. Len(jobs) \in Int
    BY JobsSequence
  <2> HIDE DEF own, T
  <2> QED BY <2>2, <2>3, <2>4
<1>6. \E n \in JobIds : jobs[n].key = k /\ \A m \in JobIds : jobs[m].key = k => m <= n
  BY <1>5
<1> QED BY <1>6 DEF Returned

\* A process ends and leaves the records it wrote.
LEMMA DoneKeeps ==
  ASSUME SubInv, NEW k \in Keys, step[k] # "none", NEW next \in AgentStates, Done(k, next),
         file' \in [Keys -> Records], \A o \in Keys : Truthful(jobs, file'[o], o),
         next = "submitted" => agent[k] = "submitted",
         ~raced => /\ \A o \in Keys \ {k} : agent[o] = "bound" => file'[o].job # NoJob
                   /\ next = "bound" => file'[k].job # NoJob
                   /\ next \in {"start", "prepared"} => \A j \in JobIds : jobs[j].key # k
  PROVE  SubInv'
<1> USE DEF SubInv, JobsAccounted
<1>1. /\ step' = [step EXCEPT ![k] = "none"] /\ copy' = [copy EXCEPT ![k] = Empty]
      /\ agent' = [agent EXCEPT ![k] = next] /\ UNCHANGED <<jobs, raced>>
  BY DEF Done
<1>2. /\ copy \in [Keys -> [Keys -> Records]] /\ agent \in [Keys -> AgentStates]
      /\ step \in [Keys -> {"none", "prepare", "bind", "query", "answered"}]
  BY DEF SubTypeOK, AgentStates
<1>3. Empty \in [Keys -> Records] /\ \A o \in Keys : Truthful(jobs, Empty[o], o)
  BY DEF Empty, NoRecord, Records, States, Truthful, NoJob
<1>4. SubTypeOK'
  BY <1>1, <1>2, <1>3 DEF SubTypeOK, AgentStates
<1>5. /\ step'[k] = "none" /\ copy'[k] = Empty /\ agent'[k] = next
      /\ \A o \in Keys \ {k} : step'[o] = step[o] /\ copy'[o] = copy[o] /\ agent'[o] = agent[o]
  BY <1>1, <1>2
<1>6. JobIds' = JobIds
  BY <1>1 DEF JobIds
<1>7. RecordsTruthful'
  BY <1>1, <1>3, <1>5 DEF RecordsTruthful
<1>8. StepsInOrder'
  BY <1>1, <1>5, <1>6 DEF StepsInOrder
<1>9. Alone'
  BY <1>1, <1>5, <1>6 DEF Alone
<1>10. OneJobPerKey' /\ JobsOnFile'
  BY <1>1, <1>5, <1>6 DEF OneJobPerKey, JobsOnFile
<1>11. RecordsTellTruth'
  BY <1>7 DEF RecordsTruthful, Truthful, RecordsTellTruth, JobIds
<1> QED BY <1>4, <1>7, <1>8, <1>9, <1>10, <1>11

LEMMA LoadKeeps ==
  ASSUME SubInv, NEW k \in Keys, NEW what \in {"prepare", "bind", "query"}, Load(k, what),
         what = "prepare" => agent[k] \in {"start", "bound"},
         what = "bind" => agent[k] = "submitted",
         what = "query" => agent[k] = "bound"
  PROVE  SubInv'
<1> USE DEF SubInv, JobsAccounted
<1>1. /\ copy' = [copy EXCEPT ![k] = file] /\ step' = [step EXCEPT ![k] = what]
      /\ UNCHANGED <<file, agent, jobs>>
      /\ ~raced' => ~raced /\ \A o \in Keys \ {k} : step[o] = "none"
      /\ raced' \in BOOLEAN
  BY DEF Load
<1>2. /\ copy \in [Keys -> [Keys -> Records]] /\ file \in [Keys -> Records]
      /\ step \in [Keys -> {"none", "prepare", "bind", "query", "answered"}]
  BY DEF SubTypeOK
<1>3. /\ step'[k] = what /\ copy'[k] = file
      /\ \A o \in Keys \ {k} : step'[o] = step[o] /\ copy'[o] = copy[o]
  BY <1>1, <1>2
<1>4. SubTypeOK'
  BY <1>1, <1>2 DEF SubTypeOK
<1>5. JobIds' = JobIds
  BY <1>1 DEF JobIds
<1>6. RecordsTruthful'
  BY <1>1, <1>3 DEF RecordsTruthful
<1>7. StepsInOrder'
  BY <1>1, <1>3, <1>5 DEF StepsInOrder
<1>8. Alone'
  BY <1>1, <1>3, <1>5 DEF Alone
<1>9. OneJobPerKey' /\ JobsOnFile' /\ RecordsTellTruth'
  BY <1>1, <1>5 DEF OneJobPerKey, JobsOnFile, RecordsTellTruth
<1> QED BY <1>4, <1>6, <1>7, <1>8, <1>9

LEMMA PrepareKeeps == ASSUME SubInv, NEW k \in Keys, Prepare(k) PROVE SubInv'
<1> USE DEF SubInv, JobsAccounted
<1> DEFINE seen == IF copy[k][k].known THEN copy[k] ELSE file
<1>1. step[k] = "prepare" /\ step[k] # "none" /\ agent[k] \in {"start", "bound"}
  BY DEF Prepare, StepsInOrder
<1>2. \/ Done(k, agent[k]) /\ UNCHANGED file
      \/ /\ seen[k].job = NoJob /\ Done(k, "prepared")
         /\ file' = file \/ file' = [file EXCEPT ![k] = Attempt]
  BY DEF Prepare
<1>3. file \in [Keys -> Records] /\ \A o \in Keys : Truthful(jobs, file[o], o)
  BY DEF SubTypeOK, RecordsTruthful
<1>4. \A o \in Keys : ~raced /\ agent[o] = "bound" => file[o].job # NoJob
  BY DEF JobsOnFile
<1>5. CASE Done(k, agent[k]) /\ UNCHANGED file
  <2>1. agent[k] = "start" /\ ~raced => \A j \in JobIds : jobs[j].key # k
    BY DEF Alone
  <2> QED BY <1>1, <1>3, <1>4, <1>5, <2>1, DoneKeeps DEF AgentStates
<1>6. CASE /\ seen[k].job = NoJob /\ Done(k, "prepared")
           /\ file' = file \/ file' = [file EXCEPT ![k] = Attempt]
  <2>0. Attempt \in Records /\ Truthful(jobs, Attempt, k)
    BY DEF Attempt, Records, NoJob, States, Truthful
  <2>1. /\ file' \in [Keys -> Records] /\ \A o \in Keys \ {k} : file'[o] = file[o]
        /\ file'[k] \in {file[k], Attempt}
    BY <1>3, <1>6, <2>0
  <2>2. \A o \in Keys : Truthful(jobs, file'[o], o)
    BY <1>3, <2>0, <2>1
  <2>3. ~raced => file[k].job = NoJob
    BY <1>1, <1>6 DEF Alone
  <2>4. ~raced => \A j \in JobIds : jobs[j].key # k
    BY <1>1, <1>4, <2>3 DEF Alone
  <2> QED BY <1>1, <1>4, <1>6, <2>1, <2>2, <2>4, DoneKeeps DEF AgentStates
<1> QED BY <1>2, <1>5, <1>6

LEMMA BindKeeps == ASSUME SubInv, NEW k \in Keys, Bind(k) PROVE SubInv'
<1> USE DEF SubInv, JobsAccounted
<1> DEFINE seen == IF copy[k][k].known THEN copy[k]
                   ELSE [file EXCEPT ![k] = IF @.job = NoJob THEN Attempt ELSE @]
<1>1. step[k] = "bind" /\ step[k] # "none" /\ agent[k] = "submitted" /\ Done(k, "bound")
  BY DEF Bind, StepsInOrder
<1>2. \/ seen[k].job # NoJob /\ UNCHANGED file
      \/ seen[k].job = NoJob /\ file' = [seen EXCEPT ![k].job = Returned(k)]
  BY DEF Bind
<1>3. /\ file \in [Keys -> Records] /\ copy[k] \in [Keys -> Records]
      /\ \A o \in Keys : Truthful(jobs, file[o], o) /\ Truthful(jobs, copy[k][o], o)
  BY DEF SubTypeOK, RecordsTruthful
<1>4. \A o \in Keys : ~raced /\ agent[o] = "bound" => file[o].job # NoJob
  BY DEF JobsOnFile
<1>5. /\ seen \in [Keys -> Records]
      /\ \A o \in Keys : Truthful(jobs, seen[o], o)
      /\ ~raced => \A o \in Keys : seen[o].job = file[o].job
  <2>1. CASE copy[k][k].known
    BY <1>1, <1>3, <2>1 DEF Alone
  <2>2. CASE ~copy[k][k].known
    <3>1. Attempt \in Records /\ Attempt.job = NoJob /\ Truthful(jobs, Attempt, k)
      BY DEF Attempt, Records, NoJob, States, Truthful
    <3>2. seen[k] = (IF file[k].job = NoJob THEN Attempt ELSE file[k])
          /\ (\A o \in Keys \ {k} : seen[o] = file[o]) /\ seen \in [Keys -> Records]
      BY <1>3, <2>2, <3>1
    <3> HIDE DEF seen
    <3> QED BY <1>3, <3>1, <3>2
  <2> QED BY <2>1, <2>2
<1> HIDE DEF seen
<1>6. CASE seen[k].job # NoJob /\ UNCHANGED file
  BY <1>1, <1>3, <1>4, <1>5, <1>6, DoneKeeps DEF AgentStates
<1>7. CASE seen[k].job = NoJob /\ file' = [seen EXCEPT ![k].job = Returned(k)]
  <2> DEFINE job == Returned(k)
             record == [seen[k] EXCEPT !.job = job]
  <2>1. job \in JobIds /\ jobs[job].key = k
    BY <1>1, ReturnedIsOwn DEF StepsInOrder
  <2>2. job \in Nat /\ job # NoJob
    BY <2>1, JobsSequence DEF NoJob
  <2> HIDE DEF job
  <2>3. seen[k] \in Records /\ seen[k].state = ""
    BY <1>5, <1>7 DEF Truthful
  <2>4. record \in Records /\ record.job = job /\ record.state = ""
    BY <2>2, <2>3 DEF Records
  <2>5. file' = [seen EXCEPT ![k] = record]
    BY <1>7 DEF job
  <2> HIDE DEF record
  <2>6. file' \in [Keys -> Records] /\ file'[k] = record
        /\ \A o \in Keys \ {k} : file'[o] = seen[o]
    BY <1>5, <2>4, <2>5
  <2>7. Truthful(jobs, record, k)
    BY <2>1, <2>2, <2>4 DEF Truthful, Terminal, JobIds
  <2> QED BY <1>1, <1>4, <1>5, <2>2, <2>4, <2>6, <2>7, DoneKeeps DEF AgentStates
<1> QED BY <1>2, <1>6, <1>7

LEMMA QueryKeeps == ASSUME SubInv, NEW k \in Keys, Query(k) PROVE SubInv'
<1> USE DEF SubInv, JobsAccounted
<1> DEFINE job == copy[k][k].job
           record == [copy[k][k] EXCEPT !.state = jobs[job].state]
<1>1. step[k] = "query" /\ step[k] # "none" /\ agent[k] = "bound"
  BY DEF Query, StepsInOrder
<1>2. /\ UNCHANGED file
      /\ \/ /\ job # NoJob /\ copy' = [copy EXCEPT ![k][k].state = jobs[job].state]
            /\ step' = [step EXCEPT ![k] = "answered"] /\ UNCHANGED <<agent, jobs, raced>>
         \/ Done(k, agent[k])
  BY DEF Query
<1>3. /\ file \in [Keys -> Records] /\ copy \in [Keys -> [Keys -> Records]]
      /\ step \in [Keys -> {"none", "prepare", "bind", "query", "answered"}]
      /\ \A o \in Keys : Truthful(jobs, file[o], o)
      /\ \A n, o \in Keys : Truthful(jobs, copy[n][o], o)
  BY DEF SubTypeOK, RecordsTruthful
<1>4. CASE Done(k, agent[k])
  <2>1. \A o \in Keys : ~raced /\ agent[o] = "bound" => file[o].job # NoJob
    BY DEF JobsOnFile
  <2> QED BY <1>1, <1>2, <1>3, <1>4, <2>1, DoneKeeps DEF AgentStates
<1>5. CASE /\ job # NoJob /\ copy' = [copy EXCEPT ![k][k].state = jobs[job].state]
           /\ step' = [step EXCEPT ![k] = "answered"] /\ UNCHANGED <<agent, jobs, raced>>
  <2>1. job \in JobIds /\ jobs[job].key = k
    BY <1>3, <1>5 DEF Truthful, JobIds
  <2>2. jobs[job].state \in States
    BY <2>1, JobsSequence
  <2>31. copy[k][k] \in Records /\ copy[k][k].job = job
    BY <1>3
  <2>32. record \in Records /\ record.job = job /\ record.state = jobs[job].state
    BY <2>31, <2>2 DEF Records
  <2>33. Truthful(jobs, record, k)
    BY <1>5, <2>1, <2>32 DEF Truthful, JobIds
  <2>3. /\ record \in Records /\ record.job = job /\ Truthful(jobs, record, k)
        /\ copy[k][k].job = job
    BY <2>31, <2>32, <2>33
  <2>4. copy' = [copy EXCEPT ![k] = [copy[k] EXCEPT ![k] = record]]
    BY <1>3, <1>5
  <2> HIDE DEF record, job
  <2>5. /\ copy' \in [Keys -> [Keys -> Records]] /\ copy'[k][k] = record
        /\ \A n, o \in Keys : n # k \/ o # k => copy'[n][o] = copy[n][o]
    BY <1>3, <2>3, <2>4
  <2>6. step'[k] = "answered" /\ \A o \in Keys \ {k} : step'[o] = step[o]
    BY <1>3, <1>5
  <2>7. SubTypeOK'
    BY <1>2, <1>5, <2>5 DEF SubTypeOK
  <2>8. RecordsTruthful'
    BY <1>2, <1>3, <1>5, <2>3, <2>5 DEF RecordsTruthful
  <2>9. JobIds' = JobIds
    BY <1>5 DEF JobIds
  <2>10. StepsInOrder'
    BY <1>1, <1>5, <2>6, <2>9 DEF StepsInOrder
  <2>11. \A n, o \in Keys : copy'[n][o].job = copy[n][o].job
    BY <2>3, <2>5
  <2>12. Alone'
    BY <1>1, <1>2, <1>5, <2>6, <2>9, <2>11 DEF Alone
  <2>13. OneJobPerKey' /\ JobsOnFile' /\ RecordsTellTruth'
    BY <1>2, <1>5, <2>9 DEF OneJobPerKey, JobsOnFile, RecordsTellTruth
  <2> QED BY <2>7, <2>8, <2>10, <2>12, <2>13
<1> QED BY <1>2, <1>4, <1>5

LEMMA UpdateKeeps == ASSUME SubInv, NEW k \in Keys, Update(k) PROVE SubInv'
<1> USE DEF SubInv, JobsAccounted
<1>1. step[k] = "answered" /\ step[k] # "none" /\ agent[k] = "bound"
      /\ file' = copy[k] /\ Done(k, agent[k])
  BY DEF Update, StepsInOrder
<1>2. copy[k] \in [Keys -> Records] /\ \A o \in Keys : Truthful(jobs, copy[k][o], o)
  BY DEF SubTypeOK, RecordsTruthful
<1>3. ~raced => \A o \in Keys : agent[o] = "bound" => copy[k][o].job # NoJob
  BY <1>1 DEF Alone, JobsOnFile
<1> QED BY <1>1, <1>2, <1>3, DoneKeeps DEF AgentStates

LEMMA KillKeeps == ASSUME SubInv, NEW k \in Keys, Kill(k) PROVE SubInv'
<1> USE DEF SubInv, JobsAccounted
<1>1. step[k] # "none" /\ UNCHANGED file /\ Done(k, agent[k]) /\ agent[k] \in AgentStates
  BY DEF Kill, SubTypeOK, AgentStates
<1>2. file \in [Keys -> Records] /\ \A o \in Keys : Truthful(jobs, file[o], o)
  BY DEF SubTypeOK, RecordsTruthful
<1>3. ~raced => /\ \A o \in Keys : agent[o] = "bound" => file[o].job # NoJob
                /\ agent[k] \in {"start", "prepared"} => \A j \in JobIds : jobs[j].key # k
  BY DEF Alone, JobsOnFile
<1> QED BY <1>1, <1>2, <1>3, DoneKeeps

\* More jobs, and the ends of jobs, leave true what records say.
LEMMA StillTrue ==
  ASSUME NEW js, NEW r, NEW k, Truthful(jobs, r, k), JobIds \subseteq DOMAIN js,
         \A j \in JobIds : /\ js[j].key = jobs[j].key
                           /\ jobs[j].state \in Terminal => js[j].state = jobs[j].state
  PROVE  Truthful(js, r, k)
BY DEF Truthful, JobIds

LEMMA SubmitKeeps == ASSUME SubInv, NEW k \in Keys, Submit(k) PROVE SubInv'
<1> USE DEF SubInv, JobsAccounted
<1> DEFINE job == [key |-> k, state |-> "running"]
<1>1. agent[k] = "prepared" /\ step[k] = "none" /\ UNCHANGED <<file, copy, step, raced>>
  BY DEF Submit
<1>2. PICK s \in {"submitted", "unsure"} :
        /\ agent' = [agent EXCEPT ![k] = s]
        /\ \/ Len(jobs) < MaxJobs /\ jobs' = Append(jobs, job)
           \/ s = "unsure" /\ UNCHANGED jobs
  BY DEF Submit
<1>3. /\ agent \in [Keys -> {"start", "prepared", "submitted", "unsure", "bound"}]
      /\ jobs \in Seq([key : Keys, state : States]) /\ MaxJobs \in Nat
  BY SubmissionConstants DEF SubTypeOK
<1>4. agent'[k] = s /\ \A o \in Keys \ {k} : agent'[o] = agent[o]
  BY <1>2, <1>3
<1>5. /\ JobIds \subseteq JobIds' /\ \A j \in JobIds : jobs'[j] = jobs[j]
      /\ \A j \in JobIds' \ JobIds : jobs'[j] = job /\ j = Len(jobs) + 1
      /\ s = "submitted" => Len(jobs) + 1 \in JobIds' \ JobIds
  BY <1>2, <1>3 DEF JobIds
<1>6. SubTypeOK'
  <2>1. job \in [key : Keys, state : States]
    BY DEF States
  <2>2. jobs' \in Seq([key : Keys, state : States]) /\ Len(jobs') <= MaxJobs
    <3> HIDE DEF job
    <3>1. CASE Len(jobs) < MaxJobs /\ jobs' = Append(jobs, job)
      BY <1>3, <2>1, <3>1
    <3>2. CASE UNCHANGED jobs
      BY <3>2 DEF SubTypeOK
    <3> QED BY <1>2, <3>1, <3>2
  <2> QED BY <1>1, <1>2, <1>3, <2>2 DEF SubTypeOK
<1>7. RecordsTruthful'
  <2>1. \A j \in JobIds : /\ jobs'[j].key = jobs[j].key
                          /\ jobs[j].state \in Terminal => jobs'[j].state = jobs[j].state
    BY <1>5
  <2> QED BY <1>1, <1>5, <2>1, StillTrue DEF RecordsTruthful, JobIds
<1>8. StepsInOrder'
  BY <1>1, <1>4, <1>5 DEF StepsInOrder
<1>9. ~raced => \A j \in JobIds : jobs[j].key # k
  BY <1>1 DEF Alone
<1>10. Alone'
  BY <1>1, <1>4, <1>5 DEF Alone
<1>11. OneJobPerKey' /\ JobsOnFile'
  BY <1>1, <1>4, <1>5, <1>9 DEF OneJobPerKey, JobsOnFile
<1>12. RecordsTellTruth'
  BY <1>7 DEF RecordsTruthful, Truthful, RecordsTellTruth, JobIds
<1> QED BY <1>6, <1>7, <1>8, <1>10, <1>11, <1>12

LEMMA JobEndsKeeps == ASSUME SubInv, NEW i \in JobIds, JobEnds(i) PROVE SubInv'
<1> USE DEF SubInv, JobsAccounted
<1>1. jobs[i].state = "running" /\ UNCHANGED <<file, copy, step, agent, raced>>
  BY DEF JobEnds
<1>2. PICK s \in Terminal : jobs' = [jobs EXCEPT ![i].state = s]
  BY DEF JobEnds
<1>3. jobs \in Seq([key : Keys, state : States]) /\ jobs[i] \in [key : Keys, state : States]
  BY JobsSequence DEF SubTypeOK
<1> DEFINE ended == [jobs[i] EXCEPT !.state = s]
<1>4. ended \in [key : Keys, state : States] /\ ended.key = jobs[i].key
  BY <1>3 DEF States
<1>5. jobs' = [jobs EXCEPT ![i] = ended]
  BY <1>2
<1> HIDE DEF ended
<1>6. /\ jobs' \in Seq([key : Keys, state : States]) /\ Len(jobs') = Len(jobs)
      /\ JobIds' = JobIds /\ jobs'[i] = ended /\ \A j \in JobIds \ {i} : jobs'[j] = jobs[j]
  BY <1>3, <1>4, <1>5 DEF JobIds
<1>7. \A j \in JobIds : /\ jobs'[j].key = jobs[j].key
                        /\ jobs[j].state \in Terminal => jobs'[j].state = jobs[j].state
  BY <1>1, <1>4, <1>6 DEF Terminal
<1>8. SubTypeOK'
  BY <1>1, <1>6 DEF SubTypeOK
<1>9. RecordsTruthful'
  BY <1>1, <1>6, <1>7, StillTrue DEF RecordsTruthful, JobIds
<1>10. StepsInOrder' /\ Alone'
  BY <1>1, <1>6, <1>7 DEF StepsInOrder, Alone
<1>11. OneJobPerKey' /\ JobsOnFile'
  BY <1>1, <1>6, <1>7 DEF OneJobPerKey, JobsOnFile
<1>12. RecordsTellTruth'
  BY <1>9 DEF RecordsTruthful, Truthful, RecordsTellTruth, JobIds
<1> QED BY <1>8, <1>9, <1>10, <1>11, <1>12

LEMMA StepSubInv == SubInv /\ [SubNext]_subVars => SubInv'
<1> SUFFICES ASSUME SubInv, [SubNext]_subVars PROVE SubInv'
  OBVIOUS
<1>1. ASSUME NEW k \in Keys, BeginPrepare(k) \/ BeginBind(k) \/ BeginQuery(k) PROVE SubInv'
  BY <1>1, LoadKeeps DEF BeginPrepare, BeginBind, BeginQuery
<1>2. ASSUME NEW k \in Keys,
             Prepare(k) \/ Bind(k) \/ Query(k) \/ Update(k) \/ Kill(k) \/ Submit(k)
      PROVE  SubInv'
  BY <1>2, PrepareKeeps, BindKeeps, QueryKeeps, UpdateKeeps, KillKeeps, SubmitKeeps
<1>3. ASSUME NEW j \in JobIds, JobEnds(j) PROVE SubInv'
  BY <1>3, JobEndsKeeps
<1>4. CASE UNCHANGED subVars
  BY <1>4 DEF subVars, SubInv, JobsAccounted, SubTypeOK, OneJobPerKey, JobsOnFile,
              RecordsTellTruth, RecordsTruthful, StepsInOrder, Alone, JobIds
<1> QED BY <1>1, <1>2, <1>3, <1>4 DEF SubNext

LEMMA InitSubInv == SubInit => SubInv
<1> SUFFICES ASSUME SubInit PROVE SubInv
  OBVIOUS
<1>1. JobIds = {} /\ Len(jobs) = 0 /\ jobs \in Seq([key : Keys, state : States])
  BY DEF SubInit, JobIds
<1>2. NoRecord \in Records /\ NoRecord.job = NoJob /\ \A k \in Keys : Truthful(jobs, NoRecord, k)
  BY DEF NoRecord, Records, States, NoJob, Truthful
<1>3. Empty \in [Keys -> Records] /\ \A k \in Keys : Empty[k] = NoRecord
  BY <1>2 DEF Empty
<1>4. SubTypeOK
  <2>1. file \in [Keys -> Records] /\ copy \in [Keys -> [Keys -> Records]]
    BY <1>3 DEF SubInit
  <2>2. /\ step \in [Keys -> {"none", "prepare", "bind", "query", "answered"}]
        /\ agent \in [Keys -> {"start", "prepared", "submitted", "unsure", "bound"}]
    BY DEF SubInit
  <2>3. Len(jobs) <= MaxJobs /\ jobs \in Seq([key : Keys, state : States])
    BY <1>1, SubmissionConstants
  <2>4. raced \in BOOLEAN
    BY DEF SubInit
  <2> QED BY <2>1, <2>2, <2>3, <2>4, Zenon DEF SubTypeOK
<1>5. RecordsTruthful /\ StepsInOrder /\ Alone
  BY <1>1, <1>2, <1>3 DEF SubInit, RecordsTruthful, StepsInOrder, Alone
<1>6. OneJobPerKey /\ JobsOnFile /\ RecordsTellTruth
  BY <1>1, <1>2, <1>3 DEF SubInit, OneJobPerKey, JobsOnFile, RecordsTellTruth
<1> QED BY <1>4, <1>5, <1>6 DEF SubInv, JobsAccounted

\* For any Runs, kills and repetitions: records never name another Run's job nor an end
\* that did not happen, and as long as processes do not overlap a Run has one job at most
\* and a bound job stays on file (SubmissionStore, reconcile_submission).
THEOREM JobsStayAccounted == SubSpec => []JobsAccounted
<1>1. SubInv => JobsAccounted
  BY DEF SubInv
<1> QED BY <1>1, InitSubInv, StepSubInv, PTL DEF SubSpec

-----------------------------------------------------------------------------
(* A state file and its .bak *)

BakHas(X) == X \subseteq (IF bak.is = "ok" THEN bak.has ELSE {})

\* The write in progress carries all the owner has; a file is missing because it
\* was moved away or because nothing was ever saved.
FileShape ==
    /\ FileTypeOK
    /\ pen.at # "none" => pen.has = mem.has
    /\ pen.at = "copying" => pen.src.is # "missing"
    /\ moved => main.is = "missing"
    /\ main.is = "missing" /\ ~moved => saved = {}

\* Lines are skipped after a damage; if it was the only one, the file is still there.
SkippedLines ==
    skipped # {} => /\ faults # 0
                    /\ faults <= 1 => main.is = "ok" /\ reader = "none" /\ ~moved

\* As long as the disk damages nothing.
Undamaged ==
    faults = 0 =>
        /\ reader = "none" /\ ~moved /\ main.is # "bad"
        /\ main.is = "ok" => saved \subseteq main.has
        /\ mem.up => saved \subseteq mem.has

\* The provisos of OneDamageCostsOneWrite that, once broken, stay broken.
Provided == faults <= 1 /\ ~poisoned /\ ~forgot

\* The states from which the .bak may be read next.
BakNext ==
    \/ faults = 0 \/ main.is = "bad" \/ reader = "moving"
    \/ main.is = "missing" /\ moved /\ Direct

\* Where what two writes had is to be found: with the owner, in the file and, from
\* the end of a copy on, in the .bak. What the owner has beyond the file is unsaved.
KeptTwice ==
    Provided =>
        /\ mem.up => prior \ skipped \subseteq mem.has
        /\ main.is = "ok" => prior \ skipped \subseteq main.has
        /\ BakNext /\ pen.at # "copying" => BakHas(prior \ skipped)
        /\ main.is = "ok" /\ mem.up => (saved \cap mem.has) \ skipped \subseteq main.has
        /\ pen.at = "copying" /\ pen.src.is = "ok" =>
              (prior \cup (saved \cap mem.has)) \ skipped \subseteq pen.src.has
        /\ pen.at = "copied" => BakHas((saved \cap mem.has) \ skipped)
        /\ main.is = "missing" /\ reader = "moving" /\ mem.up =>
              BakHas((saved \cap mem.has) \ skipped)

FileInv == FileShape /\ Undamaged /\ SkippedLines /\ KeptTwice

LEMMA FileInvSuffices == FileInv => FileKept
<1> SUFFICES ASSUME FileInv PROVE FileKept
  OBVIOUS
<1> USE DEF FileInv
<1>1. main.is \in {"missing", "bad", "ok"} /\ faults \in Nat /\ prior \subseteq saved
  BY FileConstants DEF FileShape, FileTypeOK, File
<1>2. CrashesLoseNothing
  BY <1>1 DEF FileShape, Undamaged, CrashesLoseNothing, Readable
<1>3. OneDamageCostsOneWrite
  BY <1>1 DEF FileShape, KeptTwice, SkippedLines, Provided, BakNext, BakHas, Direct, OneDamageCostsOneWrite, Readable
<1> QED BY <1>2, <1>3 DEF FileKept, FileShape

LEMMA FileTypes ==
  /\ Missing \in File /\ Missing.is = "missing" /\ Missing.has = {}
  /\ Bad \in File /\ Bad.is = "bad" /\ Bad.has = {}
  /\ \A c \in SUBSET Entries : Good(c) \in File /\ Good(c).is = "ok" /\ Good(c).has = c
  /\ Down \in [up : BOOLEAN, has : SUBSET Entries] /\ Down.up = FALSE
  /\ NoPen \in [at : {"none", "tmp", "copying", "copied"}, has : SUBSET Entries, src : File]
  /\ NoPen.at = "none"
  /\ \A f \in File : f.is \in {"missing", "bad", "ok"} /\ f.has \subseteq Entries
BY DEF Missing, Bad, Good, Down, NoPen, File

LEMMA OpenKeeps == ASSUME FileInv, Open PROVE FileInv'
<1> USE DEF FileInv
<1>1. Open /\ mem'.up = TRUE /\ mem'.has = Readable /\ faults' = faults
  BY DEF Open
<1>2. Readable \subseteq Entries
  BY FileTypes DEF Readable, FileShape, FileTypeOK
<1>3. main.is \in {"missing", "bad", "ok"} /\ main' \in File
      /\ main'.is = (IF MovedAway THEN "missing" ELSE main.is)
  BY FileTypes DEF Open, MovedAway, FileShape, FileTypeOK
<1>4. mem' \in [up : BOOLEAN, has : SUBSET Entries] /\ pen.at = "none"
  BY <1>1, <1>2 DEF Open, FileShape, FileTypeOK
<1>7. FileShape'
  BY <1>1, <1>3, <1>4 DEF Open, FileShape, FileTypeOK
<1>8. Undamaged' /\ SkippedLines'
  BY <1>1, <1>3 DEF Open, Readable, MovedAway, FileShape, Undamaged, SkippedLines, Missing
<1>9. KeptTwice'
  BY <1>1, <1>2 DEF Open, Readable, MovedAway, FileShape, FileTypeOK, File, Undamaged, KeptTwice, SkippedLines, Provided, BakNext, BakHas, Direct,
                   Missing, Bad, Good, Down, NoPen
<1> QED BY <1>7, <1>8, <1>9

LEMMA CreateKeeps == ASSUME FileInv, Create PROVE FileInv'
<1> USE DEF FileInv
<1>1. Create
  OBVIOUS
<1> DEFINE settings == IF saved = {} THEN {1} ELSE {}
<1>2. settings \subseteq Entries
  BY FileConstants DEF Entries
<1>3. /\ mem' = [up |-> TRUE, has |-> settings] /\ main' = Good(settings)
      /\ saved' = saved \cup settings
  BY <1>1 DEF Create
<1> HIDE DEF settings
<1>4. /\ mem' \in [up : BOOLEAN, has : SUBSET Entries] /\ mem'.up = TRUE
      /\ main' \in File /\ main'.is = "ok" /\ forgot' \in BOOLEAN
  BY <1>1, <1>2, <1>3, FileTypes DEF Create, FileShape, FileTypeOK
<1>5. saved' \subseteq Entries /\ prior' \subseteq saved'
  BY <1>1, <1>2, <1>3 DEF Create, FileShape, FileTypeOK
<1>7. FileShape'
  BY <1>1, <1>4, <1>5 DEF Create, FileShape, FileTypeOK
<1>8. Undamaged' /\ SkippedLines'
  BY <1>1 DEF Create, FileShape, FileTypeOK, Undamaged, SkippedLines, Missing, Bad, Good, Down, NoPen
<1>9. KeptTwice'
  BY <1>1 DEF Create, FileShape, FileTypeOK, File, Undamaged, KeptTwice, SkippedLines, Provided, BakNext, BakHas, Direct,
                   Missing, Bad, Good, Down, NoPen
<1> QED BY <1>7, <1>8, <1>9

LEMMA OpenFailsKeeps == ASSUME FileInv, OpenFails PROVE FileInv'
<1> USE DEF FileInv
<1>1. OpenFails
  OBVIOUS
<1>7. FileShape'
  BY <1>1 DEF OpenFails, FileShape, FileTypeOK, File, Missing, Bad, Good, Down, NoPen
<1>8. Undamaged' /\ SkippedLines'
  BY <1>1 DEF OpenFails, FileShape, FileTypeOK, Undamaged, SkippedLines, Missing, Bad, Good, Down, NoPen
<1>9. KeptTwice'
  BY <1>1 DEF OpenFails, FileShape, FileTypeOK, File, Undamaged, KeptTwice, SkippedLines, Provided, BakNext, BakHas, Direct,
                   Missing, Bad, Good, Down, NoPen
<1> QED BY <1>7, <1>8, <1>9

LEMMA LookElsewhereKeeps == ASSUME FileInv, LookElsewhere PROVE FileInv'
<1> USE DEF FileInv
<1>1. LookElsewhere
  OBVIOUS
<1>7. FileShape'
  BY <1>1 DEF LookElsewhere, MovedAway, FileShape, FileTypeOK, File, Missing, Bad, Good, Down, NoPen
<1>8. Undamaged' /\ SkippedLines'
  BY <1>1 DEF LookElsewhere, MovedAway, FileShape, FileTypeOK, Undamaged, SkippedLines, Missing, Bad, Good, Down, NoPen
<1>9. KeptTwice'
  BY <1>1 DEF LookElsewhere, MovedAway, FileShape, FileTypeOK, File, Undamaged, KeptTwice, SkippedLines, Provided, BakNext, BakHas, Direct,
                   Missing, Bad, Good, Down, NoPen
<1> QED BY <1>7, <1>8, <1>9

LEMMA QuarantineKeeps == ASSUME FileInv, Quarantine PROVE FileInv'
<1> USE DEF FileInv
<1>1. Quarantine
  OBVIOUS
<1>2. moved' \in BOOLEAN /\ main' = Missing /\ (main.is # "missing" => moved' = TRUE)
  BY <1>1 DEF Quarantine, FileShape, FileTypeOK
<1>7. FileShape'
  BY <1>1, <1>2, FileTypes DEF Quarantine, FileShape, FileTypeOK
<1>8. Undamaged' /\ SkippedLines'
  BY <1>1 DEF Quarantine, FileShape, FileTypeOK, Undamaged, SkippedLines, Missing, Bad, Good, Down, NoPen
<1>9. KeptTwice'
  BY <1>1 DEF Quarantine, FileShape, FileTypeOK, File, Undamaged, KeptTwice, SkippedLines, Provided, BakNext, BakHas, Direct,
                   Missing, Bad, Good, Down, NoPen
<1> QED BY <1>7, <1>8, <1>9

LEMMA CutTypes ==
  ASSUME NEW c \in SUBSET Entries, NEW x \in Cut(c)
  PROVE  x \in File /\ x.has \subseteq c /\ x.is \in {"bad", "ok"}
BY FileTypes DEF Cut

LEMMA CopyFailsKeeps == ASSUME FileInv, CopyFails PROVE FileInv'
<1> USE DEF FileInv
<1>1. CopyFails
  OBVIOUS
<1>2. /\ pen' \in [at : {"none", "tmp", "copying", "copied"}, has : SUBSET Entries, src : File]
      /\ pen'.at = "copied" /\ pen'.has = pen.has
  BY ZenonT(40), <1>1, FileTypes DEF CopyFails, FileShape, FileTypeOK
<1>7. FileShape'
  BY <1>1, <1>2 DEF CopyFails, FileShape, FileTypeOK
<1>8. Undamaged' /\ SkippedLines' /\ KeptTwice'
  BY <1>1 DEF CopyFails, Undamaged, SkippedLines, KeptTwice, Provided
<1> QED BY <1>7, <1>8

LEMMA BeginCopyKeeps == ASSUME FileInv, BeginCopy PROVE FileInv'
<1> USE DEF FileInv
<1>1. BeginCopy
  OBVIOUS
<1>2. /\ pen' \in [at : {"none", "tmp", "copying", "copied"}, has : SUBSET Entries, src : File]
      /\ pen'.at = "copying" /\ pen'.has = pen.has
  BY ZenonT(40), <1>1, FileTypes DEF BeginCopy, FileShape, FileTypeOK
<1>3. main.has \in SUBSET Entries
  BY FileTypes DEF FileShape, FileTypeOK
<1>4. bak' \in File
  BY <1>1, <1>3, CutTypes DEF BeginCopy
<1>7. FileShape'
  BY <1>1, <1>2, <1>4 DEF BeginCopy, FileShape, FileTypeOK
<1>8. Undamaged' /\ SkippedLines'
  BY <1>1 DEF BeginCopy, FileShape, FileTypeOK, Undamaged, SkippedLines, Missing, Bad, Good, Down, NoPen
<1>9. KeptTwice'
  BY <1>1 DEF BeginCopy, FileShape, FileTypeOK, File, Undamaged, KeptTwice, SkippedLines, Provided, BakNext, BakHas, Direct,
                   Missing, Bad, Good, Down, NoPen
<1> QED BY <1>7, <1>8, <1>9

LEMMA EndCopyKeeps == ASSUME FileInv, EndCopy PROVE FileInv'
<1> USE DEF FileInv
<1>1. EndCopy
  OBVIOUS
<1>2. /\ pen' \in [at : {"none", "tmp", "copying", "copied"}, has : SUBSET Entries, src : File]
      /\ pen'.at = "copied" /\ pen'.has = pen.has
  <2>1. pen \in [at : {"none", "tmp", "copying", "copied"}, has : SUBSET Entries, src : File]
    BY DEF FileShape, FileTypeOK
  <2> QED BY ZenonT(40), <1>1, <2>1, FileTypes DEF EndCopy
<1>5. pen.src \in File /\ pen.src.has \in SUBSET Entries
  BY FileTypes DEF FileShape, FileTypeOK
<1>3. bak' \in File
  BY <1>1, <1>5, CutTypes DEF EndCopy
<1>4. poisoned' \in BOOLEAN
  BY <1>1 DEF EndCopy, FileShape, FileTypeOK
<1>7. FileShape'
  BY <1>1, <1>2, <1>3, <1>4 DEF EndCopy, FileShape, FileTypeOK
<1>8. Undamaged' /\ SkippedLines'
  BY <1>1 DEF EndCopy, FileShape, FileTypeOK, Undamaged, SkippedLines, Missing, Bad, Good, Down, NoPen
<1>9. KeptTwice'
  <2>1. CASE bak' # pen.src
    BY <1>1, <2>1 DEF EndCopy, KeptTwice, Provided
  <2>2. CASE bak' = pen.src /\ pen.src.is = "ok"
    BY <1>1, <1>2, <2>2
       DEF EndCopy, FileShape, FileTypeOK, KeptTwice, SkippedLines, Provided, BakNext, BakHas, Direct
  <2>3. CASE bak' = pen.src /\ pen.src.is # "ok"
    <3>1. pen.src.is = "bad"
      BY <1>1, <1>5, <2>3, FileTypes DEF EndCopy, FileShape
    <3> QED BY <1>1, <2>3, <3>1 DEF EndCopy, KeptTwice, Provided
  <2> QED BY <2>1, <2>2, <2>3
<1> QED BY <1>7, <1>8, <1>9

LEMMA ReplaceKeeps == ASSUME FileInv, Replace PROVE FileInv'
<1> USE DEF FileInv
<1>1. Replace
  OBVIOUS
<1>2. pen.has \subseteq Entries /\ mem.up
  BY <1>1 DEF Replace, FileShape, FileTypeOK
<1>3. main' \in File /\ main'.is = "ok" /\ pen' = NoPen
  BY <1>1, <1>2, FileTypes DEF Replace
<1>4. saved' \subseteq Entries /\ prior' \subseteq saved'
  BY <1>1, <1>2 DEF Replace, FileShape, FileTypeOK
<1>7. FileShape'
  <2>1. UNCHANGED <<kind, bak, mem, reader, faults, poisoned, forgot>> /\ moved' = FALSE
    BY <1>1 DEF Replace
  <2>2. pen' \in [at : {"none", "tmp", "copying", "copied"}, has : SUBSET Entries, src : File]
        /\ pen'.at = "none"
    BY <1>3, FileTypes
  <2>4. skipped' \subseteq Entries
    BY <1>1 DEF Replace, FileShape, FileTypeOK
  <2>3. FileTypeOK'
    BY <1>3, <1>4, <2>1, <2>2, <2>4 DEF FileShape, FileTypeOK
  <2> QED BY <1>3, <2>1, <2>2, <2>3 DEF FileShape
<1>8. Undamaged' /\ SkippedLines'
  BY <1>1 DEF Replace, FileShape, FileTypeOK, Undamaged, SkippedLines, Missing, Bad, Good, Down, NoPen
<1>9. KeptTwice'
  BY <1>1 DEF Replace, FileShape, FileTypeOK, File, Undamaged, KeptTwice, SkippedLines, Provided, BakNext, BakHas, Direct,
                   Missing, Bad, Good, Down, NoPen
<1> QED BY <1>7, <1>8, <1>9

LEMMA WriteFailsKeeps == ASSUME FileInv, WriteFails PROVE FileInv'
<1> USE DEF FileInv
<1>1. WriteFails
  OBVIOUS
<1>7. FileShape'
  BY <1>1 DEF WriteFails, FileShape, FileTypeOK, File, Missing, Bad, Good, Down, NoPen
<1>8. Undamaged' /\ SkippedLines'
  BY <1>1 DEF WriteFails, FileShape, FileTypeOK, Undamaged, SkippedLines, Missing, Bad, Good, Down, NoPen
<1>9. KeptTwice'
  BY <1>1 DEF WriteFails, FileShape, FileTypeOK, File, Undamaged, KeptTwice, SkippedLines, Provided, BakNext, BakHas, Direct,
                   Missing, Bad, Good, Down, NoPen
<1> QED BY <1>7, <1>8, <1>9

LEMMA OwnerStopsKeeps == ASSUME FileInv, OwnerStops PROVE FileInv'
<1> USE DEF FileInv
<1>1. OwnerStops
  OBVIOUS
<1>7. FileShape'
  BY <1>1 DEF OwnerStops, FileShape, FileTypeOK, File, Missing, Bad, Good, Down, NoPen
<1>8. Undamaged' /\ SkippedLines'
  BY <1>1 DEF OwnerStops, FileShape, FileTypeOK, Undamaged, SkippedLines, Missing, Bad, Good, Down, NoPen
<1>9. KeptTwice'
  BY <1>1 DEF OwnerStops, FileShape, FileTypeOK, File, Undamaged, KeptTwice, SkippedLines, Provided, BakNext, BakHas, Direct,
                   Missing, Bad, Good, Down, NoPen
<1> QED BY <1>7, <1>8, <1>9

LEMMA DamageKeeps == ASSUME FileInv, Damage PROVE FileInv'
<1> USE DEF FileInv
<1>1. Damage
  OBVIOUS
<1>2. faults' \in 0 .. MaxFaults
  BY <1>1, FileConstants DEF Damage, FileShape, FileTypeOK
<1>3. main.has \in SUBSET Entries /\ main.is = "ok"
  BY <1>1, FileTypes DEF Damage, FileShape, FileTypeOK
<1>4. main' \in File /\ main'.is \in {"bad", "ok"} /\ main'.has \subseteq main.has
  BY <1>1, <1>3, CutTypes DEF Damage
<1>5. skipped' \subseteq Entries
  BY <1>1, <1>3 DEF Damage, FileShape, FileTypeOK
<1>7. FileShape'
  BY <1>1, <1>2, <1>3, <1>4, <1>5 DEF Damage, FileShape, FileTypeOK
<1>8. Undamaged' /\ SkippedLines'
  BY <1>1 DEF Damage, FileShape, FileTypeOK, Undamaged, SkippedLines, Missing, Bad, Good, Down, NoPen
<1>9. KeptTwice'
  BY <1>1 DEF Damage, FileShape, FileTypeOK, File, Undamaged, KeptTwice, SkippedLines, Provided, BakNext, BakHas, Direct,
                   Missing, Bad, Good, Down, NoPen
<1> QED BY <1>7, <1>8, <1>9

LEMMA BeginWriteKeeps == ASSUME FileInv, NEW e \in Entries, BeginWrite(e) PROVE FileInv'
<1> USE DEF FileInv
<1>1. BeginWrite(e)
  OBVIOUS
<1>7. FileShape'
  BY <1>1 DEF BeginWrite, FileShape, FileTypeOK, File, Missing, Bad, Good, Down, NoPen
<1>8. Undamaged' /\ SkippedLines'
  BY <1>1 DEF BeginWrite, FileShape, FileTypeOK, Undamaged, SkippedLines, Missing, Bad, Good, Down, NoPen
<1>9. KeptTwice'
  BY <1>1 DEF BeginWrite, FileShape, FileTypeOK, File, Undamaged, KeptTwice, SkippedLines, Provided, BakNext, BakHas, Direct,
                   Missing, Bad, Good, Down, NoPen
<1> QED BY <1>7, <1>8, <1>9

LEMMA InitFileInv == FileInit => FileInv
<1> SUFFICES ASSUME FileInit PROVE FileInv
  OBVIOUS
<1>1. FileShape
  <2>1. faults \in 0 .. MaxFaults /\ saved = {} /\ prior = {} /\ skipped = {}
    BY FileConstants DEF FileInit
  <2>2. kind \in Kinds /\ reader = "none" /\ main = Missing /\ bak = Missing
    BY DEF FileInit
  <2>3. mem = Down /\ pen = NoPen /\ poisoned = FALSE /\ moved = FALSE /\ forgot = FALSE
    BY DEF FileInit
  <2>4. FileTypeOK
    BY <2>1, <2>2, <2>3, FileTypes DEF FileTypeOK
  <2> QED BY <2>1, <2>2, <2>3, <2>4, FileTypes DEF FileShape
<1>2. Undamaged /\ SkippedLines /\ KeptTwice
  BY FileTypes DEF FileInit, Undamaged, SkippedLines, KeptTwice, BakHas
<1> QED BY <1>1, <1>2 DEF FileInv

LEMMA StepFileInv == FileInv /\ [FileNext]_fileVars => FileInv'
<1> SUFFICES ASSUME FileInv, [FileNext]_fileVars PROVE FileInv'
  OBVIOUS
<1>1. CASE FileNext
  BY <1>1, OpenKeeps, CreateKeeps, OpenFailsKeeps, LookElsewhereKeeps, QuarantineKeeps,
     BeginWriteKeeps, BeginCopyKeeps, EndCopyKeeps, ReplaceKeeps, WriteFailsKeeps,
     OwnerStopsKeeps, DamageKeeps, CopyFailsKeeps DEF FileNext
<1>2. CASE UNCHANGED fileVars
  <2>1. FileShape'
    BY <1>2 DEF fileVars, FileInv, FileShape, FileTypeOK
  <2>2. Undamaged' /\ SkippedLines' /\ KeptTwice'
    BY <1>2 DEF fileVars, FileInv, Undamaged, KeptTwice, SkippedLines, Provided, BakNext, BakHas, Direct
  <2> QED BY <2>1, <2>2 DEF FileInv
<1> QED BY <1>1, <1>2

\* For any number of entries, writes, crashes and readers of the file: crashes alone lose
\* no entry whose write returned, and under its provisos one damage of the disk costs the
\* last write at most (atomic_write_text, recover_file in atomicfile.py).
THEOREM FileStaysKept == FileSpec => []FileKept
<1> QED BY FileInvSuffices, InitFileInv, StepFileInv, PTL DEF FileSpec

-----------------------------------------------------------------------------
(* Artifacts *)

ArtInv == ArtTypeOK /\ NothingUnvalidated

\* What one step may do to the versions that were replaced.
KeepsVersions ==
    /\ Len(oldVersions') >= Len(oldVersions)
    /\ \A i \in 1..Len(oldVersions) : oldVersions'[i] = oldVersions[i]
    /\ manifest.known /\ manifest'.sha # manifest.sha =>
         /\ Len(oldVersions') = Len(oldVersions) + 1
         /\ oldVersions'[Len(oldVersions')].sha = manifest.sha

LEMMA KnownManifest ==
  ASSUME ArtTypeOK
  PROVE  /\ manifest.known => manifest \in Manifest
         /\ oldVersions \in Seq(Manifest) /\ Len(oldVersions) \in Nat
         /\ Len(oldVersions) <= MaxVersions /\ MaxVersions \in Nat
<1>1. oldVersions \in Seq(Manifest) /\ Len(oldVersions) <= MaxVersions
      /\ manifest \in Manifest \cup {NoManifest}
  BY DEF ArtTypeOK
<1>2. NoManifest.known = FALSE
  BY DEF NoManifest
<1> QED BY <1>1, <1>2, LenProperties, ArtifactConstants

\* A manifest that is sent is one, and only its own words are said.
LEMMA SentManifest ==
  ASSUME NEW sha \in Digests, NEW valid \in Verdicts, NEW status \in Statuses_,
         NEW by \in Confirmers
  PROVE  LET m == Sent(sha, valid, status, by) IN
         /\ m \in Manifest /\ m.known /\ m.sha = sha
         /\ m.status = "accepted" => "status" \in m.said
         /\ m.valid = "validated" => "valid" \in m.said
<1>1. {f \in {"valid", "status"} : (IF f = "valid" THEN valid ELSE status) # "created"}
        \in SUBSET {"valid", "status"}
  OBVIOUS
<1> QED BY <1>1 DEF Sent, Manifest

LEMMA FreshManifest ==
  ASSUME NEW d \in Digests
  PROVE  /\ Fresh(d) \in Manifest /\ Fresh(d).known /\ Fresh(d).sha = d
         /\ Fresh(d).status = "accepted" => "status" \in Fresh(d).said
         /\ Fresh(d).valid = "validated" => "valid" \in Fresh(d).said
<1>1. "created" \in Verdicts /\ "created" \in Statuses_ /\ "nobody" \in Confirmers
  BY DEF Verdicts, Statuses_, Confirmers
<1> QED BY <1>1, SentManifest DEF Fresh

LEMMA RegisterKeeps ==
  ASSUME ArtInv, NEW m \in Manifest, m.known, Room(m), Register(m), claims' \in 0..MaxClaims,
         m.status = "accepted" => "status" \in m.said,
         m.valid = "validated" => "valid" \in m.said
  PROVE  ArtInv' /\ KeepsVersions
<1> USE DEF ArtInv
<1> DEFINE old == [manifest EXCEPT !.status = "superseded"]
<1>1. /\ manifest' = m
      /\ UNCHANGED <<artifactFile, packed, parsed, misjudged>>
      /\ \/ UNCHANGED oldVersions /\ ~(manifest.known /\ manifest.sha # m.sha)
         \/ oldVersions' = Append(oldVersions, old) /\ manifest.known /\ Len(oldVersions) < MaxVersions
  BY DEF Register, Room
<1>3. manifest.known => old \in Manifest /\ old.sha = manifest.sha
  BY KnownManifest DEF Manifest, Statuses_
<1> HIDE DEF old
<1>4. oldVersions \in Seq(Manifest) /\ Len(oldVersions) <= MaxVersions /\ MaxVersions \in Nat
  BY KnownManifest
<1>5. oldVersions' \in Seq(Manifest) /\ Len(oldVersions') <= MaxVersions
  BY <1>1, <1>3, <1>4
<1>6. ArtTypeOK'
  BY <1>1, <1>5 DEF ArtTypeOK
<1>7. NothingUnvalidated'
  BY <1>1 DEF NothingUnvalidated, AcceptedWasValidated, ValidWasParsed, TrainingDataWasParsed
<1>8. KeepsVersions
  <2>1. CASE UNCHANGED oldVersions /\ ~(manifest.known /\ manifest.sha # m.sha)
    BY <1>1, <1>4, <2>1 DEF KeepsVersions
  <2>2. CASE oldVersions' = Append(oldVersions, old) /\ manifest.known
    BY <1>3, <1>4, <2>2 DEF KeepsVersions
  <2> QED BY <1>1, <2>1, <2>2
<1> QED BY <1>6, <1>7, <1>8

LEMMA SameVersionsKept ==
  ASSUME ArtTypeOK, UNCHANGED oldVersions, manifest'.sha = manifest.sha
  PROVE  KeepsVersions
<1>1. Len(oldVersions) \in Nat
  BY KnownManifest
<1>2. oldVersions' = oldVersions /\ Len(oldVersions') = Len(oldVersions)
  OBVIOUS
<1>3. Len(oldVersions') >= Len(oldVersions)
  BY <1>1, <1>2
<1> QED BY <1>2, <1>3 DEF KeepsVersions

\* A command that changes the manifest m in place.
LEMMA InPlaceKeeps ==
  ASSUME ArtInv, manifest.known, NEW m \in Manifest, Step(m), m.sha = manifest.sha,
         parsed \subseteq parsed', parsed' \subseteq Sound, misjudged' \in {misjudged, TRUE},
         m.status = "accepted" /\ "status" \notin m.said => m.valid = "validated" /\ m.by # "nobody",
         ~misjudged' /\ m.valid = "validated" => m.sha \in parsed' \/ "valid" \in m.said
  PROVE  ArtInv' /\ KeepsVersions
<1> USE DEF ArtInv
<1>1. manifest' = m /\ UNCHANGED <<artifactFile, oldVersions, packed, claims>>
  BY DEF Step
<1>2. ArtTypeOK'
  BY <1>1 DEF ArtTypeOK
<1>3. NothingUnvalidated'
  BY <1>1 DEF NothingUnvalidated, AcceptedWasValidated, ValidWasParsed, TrainingDataWasParsed,
              ArtTypeOK
<1>4. KeepsVersions
  BY <1>1, SameVersionsKept
<1> QED BY <1>2, <1>3, <1>4

\* What a command makes of the manifest.
LEMMA ChangedManifest ==
  ASSUME manifest \in Manifest
  PROVE  /\ \A s \in Statuses_ :
              /\ WithStatus(s) \in Manifest /\ WithStatus(s).sha = manifest.sha
              /\ WithStatus(s).status = s /\ WithStatus(s).valid = manifest.valid
              /\ "valid" \in WithStatus(s).said <=> "valid" \in manifest.said
         /\ \A v \in Verdicts :
              /\ WithVerdict(v) \in Manifest /\ WithVerdict(v).sha = manifest.sha
              /\ WithVerdict(v).valid = v /\ WithVerdict(v).status = manifest.status
              /\ WithVerdict(v).by = manifest.by
              /\ "status" \in WithVerdict(v).said <=> "status" \in manifest.said
<1> USE DEF Manifest
<1>1. manifest.said \ {"status"} \in SUBSET {"valid", "status"}
      /\ manifest.said \ {"valid"} \in SUBSET {"valid", "status"}
  OBVIOUS
<1>2. ASSUME NEW s \in Statuses_
      PROVE  /\ WithStatus(s) \in Manifest /\ WithStatus(s).sha = manifest.sha
             /\ WithStatus(s).status = s /\ WithStatus(s).valid = manifest.valid
             /\ "valid" \in WithStatus(s).said <=> "valid" \in manifest.said
  BY <1>1 DEF WithStatus
<1>3. ASSUME NEW v \in Verdicts
      PROVE  /\ WithVerdict(v) \in Manifest /\ WithVerdict(v).sha = manifest.sha
             /\ WithVerdict(v).valid = v /\ WithVerdict(v).status = manifest.status
             /\ WithVerdict(v).by = manifest.by
             /\ "status" \in WithVerdict(v).said <=> "status" \in manifest.said
  BY <1>1 DEF WithVerdict
<1> QED BY <1>2, <1>3

LEMMA StepArtInv == ArtInv /\ [ArtNext]_artVars => ArtInv' /\ [KeepsVersions]_artVars
<1> SUFFICES ASSUME ArtInv, [ArtNext]_artVars
             PROVE  ArtInv' /\ (KeepsVersions \/ UNCHANGED artVars)
  OBVIOUS
<1>1. /\ manifest.known => manifest \in Manifest
      /\ parsed \subseteq Sound /\ misjudged \in BOOLEAN /\ Len(oldVersions) \in Nat
      /\ artifactFile \in Digests /\ claims \in 0..MaxClaims /\ MaxClaims \in Nat
  BY KnownManifest, ArtifactConstants DEF ArtInv, ArtTypeOK
<1>2. /\ manifest.known /\ manifest.status = "accepted" /\ "status" \notin manifest.said =>
           manifest.valid = "validated" /\ manifest.by # "nobody"
      /\ ~misjudged /\ manifest.known /\ manifest.valid = "validated" =>
           manifest.sha \in parsed \/ "valid" \in manifest.said
  BY DEF ArtInv, NothingUnvalidated, AcceptedWasValidated, ValidWasParsed
<1>3. CASE RegisterFile
  BY <1>1, <1>3, FreshManifest, RegisterKeeps DEF RegisterFile
<1>4. CASE RegisterSent
  <2>1. PICK sha \in Digests, valid \in Verdicts, status \in Statuses_, by \in Confirmers :
          Room(Sent(sha, valid, status, by)) /\ Register(Sent(sha, valid, status, by))
    BY <1>4 DEF RegisterSent
  <2>2. claims' \in 0..MaxClaims
    BY <1>1, <1>4 DEF RegisterSent
  <2> QED BY <2>1, <2>2, SentManifest, RegisterKeeps
<1>5. ASSUME NEW d \in Digests, RewriteFile(d) PROVE ArtInv' /\ KeepsVersions
  <2>1. artifactFile' \in Digests
        /\ UNCHANGED <<manifest, oldVersions, packed, parsed, misjudged, claims>>
    BY <1>5 DEF RewriteFile
  <2>2. ArtTypeOK'
    BY <2>1 DEF ArtInv, ArtTypeOK
  <2>3. NothingUnvalidated'
    BY <2>1 DEF ArtInv, NothingUnvalidated, AcceptedWasValidated, ValidWasParsed,
                TrainingDataWasParsed
  <2> QED BY <1>1, <2>1, <2>2, <2>3 DEF ArtInv, KeepsVersions
<1>6. ASSUME NEW s \in Statuses_ \ {"accepted"}, manifest.known,
             Step(WithStatus(s)), UNCHANGED <<parsed, misjudged>>
      PROVE  ArtInv' /\ KeepsVersions
  <2> DEFINE m == WithStatus(s)
  <2>1. /\ m \in Manifest /\ m.sha = manifest.sha /\ m.status = s /\ m.valid = manifest.valid
        /\ "valid" \in m.said <=> "valid" \in manifest.said
    BY <1>1, <1>6, ChangedManifest
  <2>2. Step(m)
    BY <1>6
  <2> HIDE DEF m
  <2> QED BY <1>1, <1>2, <1>6, <2>1, <2>2, InPlaceKeeps
<1>7. CASE Complete
  BY <1>6, <1>7 DEF Complete, Statuses_
<1>8. CASE Validate
  <2> DEFINE verdict == IF artifactFile \in Sound THEN "validated" ELSE "rejected"
             m == WithVerdict(verdict)
  <2>1. /\ manifest.known /\ verdict \in MayJudge(manifest.status) /\ Step(m)
        /\ parsed' = parsed \cup ({artifactFile} \cap Sound)
        /\ misjudged' = (misjudged \/ artifactFile # manifest.sha)
    BY <1>8 DEF Validate
  <2>2. verdict \in Verdicts
    BY DEF Verdicts
  <2>3. verdict = "validated" => artifactFile \in Sound
    OBVIOUS
  <2> HIDE DEF verdict
  <2>4. /\ m \in Manifest /\ m.sha = manifest.sha /\ m.status = manifest.status
        /\ m.valid = verdict
    BY <1>1, <2>1, <2>2, ChangedManifest
  <2>5. m.status # "accepted"
    BY <2>1, <2>4 DEF MayJudge
  <2> HIDE DEF m
  <2>6. ~misjudged' /\ m.valid = "validated" => m.sha \in parsed'
    BY <2>1, <2>3, <2>4
  <2>7. misjudged' \in {misjudged, TRUE} /\ parsed \subseteq parsed' /\ parsed' \subseteq Sound
    BY <1>1, <2>1
  <2> QED BY <1>1, <2>1, <2>4, <2>5, <2>6, <2>7, InPlaceKeeps
<1>9. CASE Accept
  <2>1. Step([WithStatus("accepted") EXCEPT !.by = "somebody"])
    BY <1>9 DEF Accept
  <2> DEFINE n == WithStatus("accepted")
             m == [n EXCEPT !.by = "somebody"]
  <2>2. manifest.known /\ manifest.valid = "validated" /\ UNCHANGED <<parsed, misjudged>>
    BY <1>9 DEF Accept
  <2>3. /\ n \in Manifest /\ n.sha = manifest.sha /\ n.valid = manifest.valid
        /\ "valid" \in n.said <=> "valid" \in manifest.said
    BY <1>1, <2>2, ChangedManifest DEF Statuses_
  <2>4. Step(m)
    BY <2>1
  <2> HIDE DEF n
  <2>5. m \in Manifest /\ m.sha = n.sha /\ m.valid = n.valid /\ m.said = n.said /\ m.by = "somebody"
    BY <2>3 DEF Manifest, Confirmers
  <2> HIDE DEF m
  <2> QED BY <1>1, <1>2, <2>2, <2>3, <2>4, <2>5, InPlaceKeeps
<1>10. CASE Reject
  BY <1>6, <1>10 DEF Reject, Statuses_
<1>11. CASE Pack
  <2>1. /\ manifest.known /\ manifest.status = "accepted" /\ packed' = manifest
        /\ UNCHANGED <<artifactFile, manifest, oldVersions, parsed, misjudged, claims>>
    BY <1>11 DEF Pack
  <2>2. ArtTypeOK'
    BY <1>1, <2>1 DEF ArtInv, ArtTypeOK
  <2>3. NothingUnvalidated'
    BY <1>2, <2>1 DEF ArtInv, NothingUnvalidated, AcceptedWasValidated, ValidWasParsed,
                      TrainingDataWasParsed
  <2> QED BY <1>1, <2>1, <2>2, <2>3 DEF ArtInv, KeepsVersions
<1>12. CASE UNCHANGED artVars
  BY <1>12 DEF artVars, ArtInv, ArtTypeOK, NothingUnvalidated, AcceptedWasValidated,
               ValidWasParsed, TrainingDataWasParsed
<1> QED BY <1>3, <1>4, <1>5, <1>7, <1>8, <1>9, <1>10, <1>11, <1>12 DEF ArtNext

\* For any contents of the file, any commands and any manifests of the front ends: what a
\* command accepted was validated and names its confirmer; what is packed for training was
\* found valid by the parser (run on registered contents), unless its verdict or status is
\* still a front end's word; no replaced version is lost (manifest.py, registry.py).
THEOREM ArtifactsStaySound == ArtSpec => ArtifactsSound
<1>1. ArtInit => ArtInv
  <2> SUFFICES ASSUME ArtInit PROVE ArtInv
    OBVIOUS
  <2>1. /\ manifest = NoManifest /\ manifest.known = FALSE
        /\ packed = NoManifest /\ packed.known = FALSE /\ parsed = {}
    BY DEF ArtInit, NoManifest
  <2>2. oldVersions \in Seq(Manifest) /\ Len(oldVersions) <= MaxVersions
    BY ArtifactConstants, EmptySeq DEF ArtInit
  <2>3. ArtTypeOK
    <3>1. claims = 0 /\ misjudged = FALSE /\ artifactFile \in Digests
      BY DEF ArtInit
    <3>2. claims \in 0..MaxClaims
      BY <3>1, ArtifactConstants
    <3> QED BY <2>1, <2>2, <3>1, <3>2 DEF ArtTypeOK
  <2> QED BY <2>1, <2>3 DEF ArtInv, NothingUnvalidated, AcceptedWasValidated, ValidWasParsed,
                            TrainingDataWasParsed
<1>2. ArtInv => ArtTypeOK /\ NothingUnvalidated
  BY DEF ArtInv
<1>3. KeepsVersions <=>
        /\ Len(oldVersions') >= Len(oldVersions)
        /\ \A i \in 1..Len(oldVersions) : oldVersions'[i] = oldVersions[i]
        /\ manifest.known /\ manifest'.sha # manifest.sha =>
             /\ Len(oldVersions') = Len(oldVersions) + 1
             /\ oldVersions'[Len(oldVersions')].sha = manifest.sha
  BY DEF KeepsVersions
<1> QED BY <1>1, <1>2, <1>3, StepArtInv, PTL DEF ArtSpec, ArtifactsSound, VersionsKept

-----------------------------------------------------------------------------
(* Leases of research tasks                                                *)
(*                                                                         *)
(* None of the promises is inductive: a script writes file after file, and *)
(* in between the directory is not valid. The invariant says, for every    *)
(* step a script can be at, what it has already written and what is left.  *)

Phases == {"archive", "lease", "task", "count", "append", "count2", "append2", "check"}
Jobs == {"claim", "beat", "release", "reconcile"}
Script == [at : Phases, do : Jobs, task : Tasks, old : Lease, rest : SUBSET Tasks]

\* A lease that was ever written names an agent, and so does the lease that a
\* script has read in order to change it.
Owned(t) == lease[t].owner \in Agents

WellFormed(a) ==
    /\ script[a].at = "archive" => script[a].do = "claim"
    /\ script[a].at = "task" => script[a].do # "beat"
    /\ script[a].do # "claim" => script[a].old.owner \in Agents
    /\ \A u \in script[a].rest : Owned(u)

Typed ==
    /\ dependsOn \in Projects /\ task \in [Tasks -> TaskStatuses] /\ lease \in [Tasks -> Lease]
    /\ twice \subseteq Tasks /\ idsRepeat \in BOOLEAN
    /\ script \in [Agents -> {Idle} \cup Script]
    /\ late \subseteq Agents /\ executes \in [Agents -> SUBSET Tasks]
    /\ lapsed \subseteq Agents \X Tasks
    /\ overlaps \in 0..MaxOverlaps /\ killed \in BOOLEAN
    /\ \A t \in Tasks : lease[t].status # "none" => Owned(t)
    /\ \A a \in Agents : Works(a) => WellFormed(a)

\* The lease and the status of a task agree.
Agrees(t) == lease[t].status = "active" <=> task[t] = "running"

ActiveOf(a, t) == lease[t].status = "active" /\ lease[t].owner = a

DepsAccepted(t) == \A d \in dependsOn[t] : task[d] = "accepted"

\* What the script of a has left to write, of the task it is at.
ToClaim(a) ==
    /\ Ready(script[a].task) /\ FreeToClaim(script[a].task)

ClaimHalf(a) ==
    /\ task[script[a].task] = "approved" /\ DepsAccepted(script[a].task)
    /\ ActiveOf(a, script[a].task)

ToChange(a) ==
    LET s == script[a]
    IN  /\ lease[s.task].status = "active" /\ task[s.task] = "running"
        /\ s.old.status = "active" /\ s.old.owner = lease[s.task].owner
        /\ s.do = "release" => s.task \notin executes[a]
        /\ s.do = "reconcile" => s.old.expired

ChangeHalf(a) == lease[script[a].task].status # "active" /\ task[script[a].task] = "running"

Written(a) ==
    /\ Agrees(script[a].task)
    /\ script[a].do = "claim" => ActiveOf(a, script[a].task)

\* Between the lease and the task of a release or a reconciliation.
HalfWay(s) ==
    \/ s.do = "release" /\ s.at = "task"
    \/ s.do = "reconcile" /\ s.at \in {"count", "append", "task"}

AllWritten(s) ==
    \/ s.do # "reconcile" /\ s.at \in {"count", "append"}
    \/ s.at \in {"count2", "append2", "check"}

AtWork(a) ==
    LET s == script[a]
    IN  /\ twice \subseteq {s.task} /\ (twice # {} => s.at = "lease" /\ s.do = "claim")
        /\ \A u \in Tasks : u # s.task => Agrees(u)
        /\ \A u \in s.rest : u # s.task /\ lease[u].status = "active" /\ lease[u].expired
        /\ s.rest # {} => s.do = "reconcile"
        /\ s.do = "claim" /\ s.at \in {"archive", "lease"} => ToClaim(a)
        /\ s.do = "claim" /\ s.at = "task" => ClaimHalf(a)
        /\ s.do # "claim" /\ s.at = "lease" => ToChange(a)
        /\ HalfWay(s) => ChangeHalf(a)
        /\ AllWritten(s) => Written(a)

\* No two active leases conflict, at any step.
NoClash == \A t, u \in ActiveTasks : t # u => ~Conflicting(t, u)

\* An agent works under an active lease of its own, or its lease has lapsed.
WorksUnderLease ==
    \A a \in Agents : \A t \in executes[a] : ActiveOf(a, t) \/ <<a, t>> \in lapsed

RunningHasDeps == \A t \in Tasks : task[t] = "running" => DepsAccepted(t)

Serial ==
    /\ \A a, b \in Agents : Works(a) /\ Works(b) => a = b
    /\ late = {} /\ ~idsRepeat
    /\ NoClash /\ WorksUnderLease /\ RunningHasDeps
    /\ \A a \in Agents : Works(a) => AtWork(a)
    /\ AllIdle /\ ~killed => Valid

LeaseInv == Typed /\ (overlaps = 0 => Serial)

-----------------------------------------------------------------------------
(* Types *)

LEMMA WorkingScript ==
  ASSUME Typed, NEW a \in Agents, Works(a)
  PROVE  script[a] \in Script /\ WellFormed(a) /\ lease[script[a].task] \in Lease
<1>1. script[a] \in {Idle} \cup Script
  BY DEF Typed
<1>2. script[a] # Idle
  BY DEF Works, Idle
<1>3. script[a].task \in Tasks
  BY <1>1, <1>2 DEF Script
<1> QED BY <1>1, <1>2, <1>3 DEF Typed

LEMMA IdleIsIdle == Idle.at = "idle" /\ \A s \in Script : s.at # "idle"
BY DEF Idle, Script, Phases

\* A step that writes no lease keeps the types of what it leaves alone.
LEMMA TypedUnlessLease ==
  ASSUME Typed, UNCHANGED <<dependsOn, lease, lapsed>>,
         NEW a \in Agents, NEW x \in {Idle} \cup Script,
         script' = [script EXCEPT ![a] = x],
         x.at = "idle" \/ (WellFormed(a))',
         task' \in [Tasks -> TaskStatuses], twice' \subseteq Tasks, idsRepeat' \in BOOLEAN,
         late' \subseteq Agents, executes' \in [Agents -> SUBSET Tasks],
         overlaps' \in 0..MaxOverlaps, killed' \in BOOLEAN
  PROVE  Typed'
<1>1. script' \in [Agents -> {Idle} \cup Script] /\ script'[a] = x
      /\ \A b \in Agents : b # a => script'[b] = script[b]
  BY DEF Typed
<1>2. ASSUME NEW b \in Agents, Works(b)' PROVE WellFormed(b)'
  <2>1. CASE b = a
    BY <1>1, <1>2, <2>1 DEF Works
  <2>2. CASE b # a
    BY <1>1, <1>2, <2>2 DEF Typed, Works, WellFormed, Owned
  <2> QED BY <2>1, <2>2
<1> QED BY <1>1, <1>2 DEF Typed, Owned

LEMMA BeginTyped ==
  ASSUME Typed, NEW a \in Agents, NEW s \in Script, Begin(a, s),
         s.at = "archive" => s.do = "claim", s.at # "task",
         s.do # "claim" => s.old.owner \in Agents,
         \A u \in s.rest : Owned(u),
         executes' \in [Agents -> SUBSET Tasks]
  PROVE  Typed'
<1>1. /\ script' = [script EXCEPT ![a] = s]
      /\ UNCHANGED <<dependsOn, task, lease, twice, idsRepeat, late, lapsed, killed>>
  BY DEF Begin
<1>2. overlaps' \in 0..MaxOverlaps
  BY LeaseConstants DEF Begin, Typed
<1>3. script'[a] = s
  BY <1>1 DEF Typed
<1>4. WellFormed(a)'
  BY <1>1, <1>3 DEF WellFormed, Owned
<1> QED BY <1>1, <1>2, <1>4, TypedUnlessLease DEF Typed

\* The leases a script may write.
LEMMA NewLeaseTyped ==
  ASSUME Typed, NEW a \in Agents, Works(a)
  PROVE  /\ NewLease(a) \in Lease /\ NewLease(a).owner \in Agents
         /\ script[a].do = "claim" =>
              NewLease(a) = [status |-> "active", owner |-> a, expired |-> FALSE]
         /\ script[a].do = "beat" =>
              /\ NewLease(a).status = script[a].old.status
              /\ NewLease(a).owner = script[a].old.owner
         /\ script[a].do = "release" =>
              NewLease(a).status = "released" /\ NewLease(a).owner = script[a].old.owner
         /\ script[a].do = "reconcile" =>
              NewLease(a).status = "stale" /\ NewLease(a).owner = script[a].old.owner
<1>1. /\ script[a] \in Script /\ script[a].old \in Lease /\ script[a].do \in Jobs
      /\ script[a].do # "claim" => script[a].old.owner \in Agents
  BY WorkingScript DEF Script, WellFormed
<1>2. CASE script[a].do = "claim"
  BY <1>1, <1>2 DEF NewLease, Lease
<1>3. CASE script[a].do = "beat"
  BY <1>1, <1>3 DEF NewLease, Lease
<1>4. CASE script[a].do = "release"
  BY <1>1, <1>4 DEF NewLease, Lease
<1>5. CASE script[a].do = "reconcile"
  BY <1>1, <1>5 DEF NewLease, Lease
<1> QED BY <1>1, <1>2, <1>3, <1>4, <1>5 DEF Jobs

\* A script moves on: nothing but its place changes.
LEMMA GotoScript ==
  ASSUME Typed, NEW a \in Agents, Works(a), NEW p \in Phases, Goto(a, p)
  PROVE  LET x == [script[a] EXCEPT !.at = p]
         IN  /\ x \in Script /\ script' = [script EXCEPT ![a] = x] /\ script'[a] = x
             /\ x.at = p /\ x.do = script[a].do /\ x.task = script[a].task
             /\ x.old = script[a].old /\ x.rest = script[a].rest
<1>1. script[a] \in Script
  BY WorkingScript
<1>2. script \in [Agents -> {Idle} \cup Script]
  BY DEF Typed
<1> QED BY <1>1, <1>2 DEF Goto, Script

LEMMA GotoTyped ==
  ASSUME Typed, NEW a \in Agents, Works(a), NEW p \in Phases, Goto(a, p),
         p # "archive", p = "task" => script[a].do # "beat",
         UNCHANGED <<dependsOn, lease, lapsed, executes, overlaps, killed>>,
         task' \in [Tasks -> TaskStatuses], twice' \subseteq Tasks, idsRepeat' \in BOOLEAN,
         late' \subseteq Agents
  PROVE  Typed'
<1> DEFINE x == [script[a] EXCEPT !.at = p]
<1>1. /\ x \in Script /\ script' = [script EXCEPT ![a] = x] /\ script'[a] = x
      /\ x.at = p /\ x.do = script[a].do /\ x.old = script[a].old /\ x.rest = script[a].rest
  BY GotoScript
<1> HIDE DEF x
<1>2. WellFormed(a)'
  BY <1>1, WorkingScript DEF WellFormed, Owned
<1> QED BY <1>1, <1>2, TypedUnlessLease DEF Typed

LEMMA ActiveIsOwned ==
  ASSUME Typed, NEW t \in Tasks, lease[t].status = "active"
  PROVE  Owned(t) /\ lease[t] \in Lease
BY DEF Typed

LEMMA TypedStep == Typed /\ [LeaseNext]_leaseVars => Typed'
<1> SUFFICES ASSUME Typed, [LeaseNext]_leaseVars PROVE Typed'
  OBVIOUS
<1>0. ASSUME NEW t \in Tasks PROVE lease[t] \in Lease
  BY DEF Typed
<1>1. ASSUME NEW a \in Agents, NEW t \in Tasks, BeginClaim(a, t) PROVE Typed'
  <2> DEFINE s == [at |-> "archive", do |-> "claim", task |-> t, old |-> lease[t], rest |-> {}]
  <2>1. s \in Script /\ s.at = "archive" /\ s.do = "claim" /\ s.rest = {}
    BY <1>0 DEF Script, Phases, Jobs
  <2>2. Begin(a, s) /\ executes' = executes
    BY <1>1 DEF BeginClaim
  <2> HIDE DEF s
  <2> QED BY <2>1, <2>2, BeginTyped DEF Typed
<1>2. ASSUME NEW a \in Agents, NEW t \in Tasks, NEW job \in {"beat", "release", "reconcile"},
             NEW rest \in SUBSET ActiveTasks, lease[t].status = "active",
             Begin(a, [at |-> "lease", do |-> job, task |-> t, old |-> lease[t], rest |-> rest]),
             executes' \in [Agents -> SUBSET Tasks]
      PROVE  Typed'
  <2> DEFINE s == [at |-> "lease", do |-> job, task |-> t, old |-> lease[t], rest |-> rest]
  <2>1. /\ s \in Script /\ s.at = "lease" /\ s.do = job /\ s.rest = rest /\ s.old = lease[t]
    BY <1>0, <1>2 DEF Script, Phases, Jobs, ActiveTasks
  <2>2. s.old.owner \in Agents /\ \A u \in s.rest : Owned(u)
    BY <1>2, <2>1, ActiveIsOwned DEF ActiveTasks, Owned
  <2>3. Begin(a, s)
    BY <1>2
  <2> HIDE DEF s
  <2> QED BY <1>2, <2>1, <2>2, <2>3, BeginTyped
<1>3. ASSUME NEW a \in Agents, NEW t \in Tasks, BeginHeartbeat(a, t) PROVE Typed'
  BY <1>2, <1>3 DEF BeginHeartbeat, Typed
<1>4. ASSUME NEW a \in Agents, NEW t \in Tasks, BeginRelease(a, t) PROVE Typed'
  <2>1. executes' \in [Agents -> SUBSET Tasks]
    BY <1>4 DEF BeginRelease, Typed
  <2> QED BY <1>2, <1>4, <2>1 DEF BeginRelease
<1>5. ASSUME NEW a \in Agents, BeginReconcile(a) PROVE Typed'
  <2>1. PICK t \in {u \in ActiveTasks : lease[u].expired} :
          /\ Begin(a, [at |-> "lease", do |-> "reconcile", task |-> t, old |-> lease[t],
                       rest |-> {u \in ActiveTasks : lease[u].expired} \ {t}])
          /\ UNCHANGED executes
    BY <1>5 DEF BeginReconcile
  <2>2. t \in Tasks /\ lease[t].status = "active"
        /\ {u \in ActiveTasks : lease[u].expired} \ {t} \in SUBSET ActiveTasks
    BY DEF ActiveTasks
  <2> QED BY <1>2, <2>1, <2>2 DEF Typed
<1>6. ASSUME NEW a \in Agents, Archive(a) PROVE Typed'
  <2>1. Works(a) /\ script[a].task \in Tasks
    BY <1>6, WorkingScript DEF Archive, Works, Script
  <2>2. CASE script' = [script EXCEPT ![a] = Idle] /\ UNCHANGED twice
    BY <1>6, <2>2, TypedUnlessLease, IdleIsIdle DEF Archive, Typed
  <2>3. CASE Goto(a, "lease") /\ twice' \in {twice, twice \cup {script[a].task}}
    BY <1>6, <2>1, <2>3, GotoTyped DEF Archive, Typed, Phases
  <2> QED BY <1>6, <2>2, <2>3 DEF Archive
<1>7. ASSUME NEW a \in Agents, WriteLease(a) PROVE Typed'
  <2> DEFINE t == script[a].task
             p == IF script[a].do \in {"claim", "release"} THEN "task" ELSE "count"
             x == [script[a] EXCEPT !.at = p]
  <2>1. /\ Works(a) /\ t \in Tasks /\ script[a].do \in Jobs
        /\ script[a].do # "claim" => script[a].old.owner \in Agents
        /\ \A u \in script[a].rest : Owned(u)
    BY <1>7, WorkingScript DEF WriteLease, Works, Script, WellFormed
  <2>2. /\ lease' = [lease EXCEPT ![t] = NewLease(a)] /\ twice' \in {twice, twice \ {t}}
        /\ lapsed' = lapsed \/ (script[a].do # "claim"
                                 /\ lapsed' = lapsed \cup {<<script[a].old.owner, t>>})
        /\ Goto(a, p)
        /\ UNCHANGED <<dependsOn, task, idsRepeat, late, executes, overlaps, killed>>
    BY <1>7 DEF WriteLease
  <2>3. p \in Phases /\ p # "archive" /\ (p = "task" => script[a].do # "beat")
    BY DEF Phases
  <2>4. /\ x \in Script /\ script' = [script EXCEPT ![a] = x] /\ script'[a] = x
        /\ x.at = p /\ x.do = script[a].do /\ x.old = script[a].old /\ x.rest = script[a].rest
    BY <2>1, <2>2, <2>3, GotoScript
  <2> HIDE DEF x, p, t
  <2>5. NewLease(a) \in Lease /\ NewLease(a).owner \in Agents
    BY <2>1, NewLeaseTyped
  <2>6. lease' \in [Tasks -> Lease] /\ \A u \in Tasks : Owned(u) => Owned(u)'
    BY <2>1, <2>2, <2>5 DEF Typed, Owned
  <2>7. \A u \in Tasks : lease'[u].status # "none" => Owned(u)'
    BY <2>1, <2>2, <2>5 DEF Typed, Owned
  <2>8. \A b \in Agents : Works(b)' => WellFormed(b)'
    <3> SUFFICES ASSUME NEW b \in Agents, Works(b)' PROVE WellFormed(b)'
      OBVIOUS
    <3>1. CASE b = a
      BY <2>1, <2>3, <2>4, <2>6, <3>1 DEF WellFormed, Script
    <3>2. CASE b # a
      <4>1. script'[b] = script[b] /\ Works(b)
        BY <2>4, <3>2 DEF Typed, Works
      <4>2. WellFormed(b) /\ script[b].rest \subseteq Tasks
        BY <4>1, WorkingScript DEF Script
      <4> QED BY <2>6, <4>1, <4>2 DEF WellFormed
    <3> QED BY <3>1, <3>2
  <2>9. lapsed' \subseteq Agents \X Tasks
    BY <2>1, <2>2 DEF Typed
  <2>10. script' \in [Agents -> {Idle} \cup Script] /\ twice' \subseteq Tasks
    BY <2>2, <2>4 DEF Typed
  <2> QED BY <2>2, <2>6, <2>7, <2>8, <2>9, <2>10 DEF Typed
<1>8. ASSUME NEW a \in Agents, WriteTask(a) PROVE Typed'
  <2>1. Works(a) /\ script[a].task \in Tasks /\ script[a].do \in Jobs \ {"beat"}
    BY <1>8, WorkingScript DEF WriteTask, Works, Script, WellFormed
  <2>2. PICK status \in CASE script[a].do = "claim" -> {"running"}
                           [] script[a].do = "release" -> {"completed", "blocked"}
                           [] script[a].do = "reconcile" -> {"blocked"} :
          task' = [task EXCEPT ![script[a].task] = status]
    BY <1>8 DEF WriteTask
  <2>3. status \in TaskStatuses
    BY <2>1, <2>2 DEF Jobs, TaskStatuses
  <2>4. task' \in [Tasks -> TaskStatuses]
    BY <2>1, <2>2, <2>3 DEF Typed
  <2> QED BY <1>8, <2>1, <2>4, GotoTyped DEF WriteTask, Typed, Phases
<1>9. ASSUME NEW a \in Agents, Count(a) PROVE Typed'
  <2>1. Works(a) /\ late' \subseteq Agents
    BY <1>9 DEF Count, Works, Typed
  <2> QED BY <1>9, <2>1, GotoTyped DEF Count, Typed, Phases
<1>10. ASSUME NEW a \in Agents, AppendEvent(a) PROVE Typed'
  <2>1. Works(a) /\ late' \subseteq Agents /\ idsRepeat' \in BOOLEAN
    BY <1>10 DEF AppendEvent, Works, Typed
  <2>2. PICK p \in Phases : Goto(a, p) /\ p # "archive"
                           /\ (p = "task" => script[a].do # "beat")
    BY <1>10 DEF AppendEvent, Phases
  <2> QED BY <1>10, <2>1, <2>2, GotoTyped DEF AppendEvent, Typed
<1>11. ASSUME NEW a \in Agents, Finish(a) PROVE Typed'
  <2> DEFINE s == script[a]
  <2>1. Works(a) /\ s \in Script /\ WellFormed(a) /\ s.at = "check"
    BY <1>11, WorkingScript DEF Finish, Works
  <2>2. CASE script' = [script EXCEPT ![a] = Idle]
             /\ executes' \in {executes, [executes EXCEPT ![a] = @ \cup {s.task}]}
    <3>1. executes' \in [Agents -> SUBSET Tasks]
      BY <2>1, <2>2 DEF Typed, Script
    <3> QED BY <1>11, <2>2, <3>1, TypedUnlessLease, IdleIsIdle DEF Finish, Typed
  <2>3. ASSUME NEW t \in s.rest, UNCHANGED executes,
               script' = [script EXCEPT ![a] = [s EXCEPT !.at = "lease", !.task = t,
                                                         !.old = lease[t], !.rest = @ \ {t}]]
        PROVE  Typed'
    <3> DEFINE x == [s EXCEPT !.at = "lease", !.task = t, !.old = lease[t], !.rest = @ \ {t}]
    <3>1. t \in Tasks /\ lease[t] \in Lease /\ Owned(t)
      BY <2>1, <1>0 DEF Script, WellFormed
    <3>2. x \in Script /\ x.at = "lease" /\ x.old = lease[t] /\ x.rest \subseteq s.rest
      BY <2>1, <3>1 DEF Script, Phases
    <3>3. script' = [script EXCEPT ![a] = x]
      BY <2>3
    <3> HIDE DEF x
    <3>4. script'[a] = x
      BY <3>3 DEF Typed
    <3>5. UNCHANGED lease
      BY <1>11 DEF Finish
    <3>6. WellFormed(a)'
      BY <2>1, <3>1, <3>2, <3>4, <3>5 DEF WellFormed, Owned
    <3> QED BY <1>11, <2>3, <3>2, <3>3, <3>6, TypedUnlessLease DEF Finish, Typed
  <2> QED BY <1>11, <2>2, <2>3 DEF Finish
<1>12. ASSUME NEW a \in Agents, KillScript(a) PROVE Typed'
  BY <1>12, TypedUnlessLease, IdleIsIdle DEF KillScript, Typed
<1>13. ASSUME NEW t \in Tasks, LeaseExpires(t) PROVE Typed'
  <2>1. lease' = [lease EXCEPT ![t].expired = TRUE]
        /\ UNCHANGED <<dependsOn, task, twice, idsRepeat, script, late, executes, lapsed,
                       overlaps, killed>>
    BY <1>13 DEF LeaseExpires
  <2>2. /\ lease' \in [Tasks -> Lease]
        /\ \A u \in Tasks : lease'[u].owner = lease[u].owner /\ lease'[u].status = lease[u].status
    BY <1>0, <2>1 DEF Typed, Lease
  <2>3. \A u \in Tasks : Owned(u)' <=> Owned(u)
    BY <2>2 DEF Owned
  <2>4. ASSUME NEW b \in Agents, Works(b)' PROVE WellFormed(b)'
    <3>1. Works(b) /\ WellFormed(b) /\ script[b].rest \subseteq Tasks
      BY <2>1, <2>4, WorkingScript DEF Works, Script
    <3> QED BY <2>1, <2>3, <3>1 DEF WellFormed
  <2> QED BY <2>1, <2>2, <2>3, <2>4 DEF Typed
<1>14. ASSUME NEW t \in Tasks, Decide(t) PROVE Typed'
  <2>1. task' \in [Tasks -> TaskStatuses]
    BY <1>14 DEF Decide, Typed, TaskStatuses
  <2>2. overlaps' \in 0..MaxOverlaps
    BY <1>14, LeaseConstants DEF Decide, Typed
  <2>3. UNCHANGED <<dependsOn, lease, twice, idsRepeat, script, late, executes, lapsed, killed>>
    BY <1>14 DEF Decide
  <2>4. \A b \in Agents : Works(b)' => WellFormed(b)'
    BY <2>3 DEF Typed, Works, WellFormed, Owned
  <2> QED BY <2>1, <2>2, <2>3, <2>4 DEF Typed, Owned
<1>15. CASE UNCHANGED leaseVars
  BY <1>15 DEF leaseVars, Typed, Works, WellFormed, Owned
<1> QED BY <1>1, <1>3, <1>4, <1>5, <1>6, <1>7, <1>8, <1>9, <1>10, <1>11, <1>12, <1>13,
           <1>14, <1>15 DEF LeaseNext

-----------------------------------------------------------------------------
(* Scripts that do not overlap *)

LEMMA SerialScript ==
  ASSUME Typed, Serial, NEW a \in Agents, \A b \in Agents : b # a => ~Works(b),
         NEW x \in {Idle} \cup Script, script' = [script EXCEPT ![a] = x],
         late' = {}, ~idsRepeat', NoClash', WorksUnderLease', RunningHasDeps',
         x.at # "idle" => AtWork(a)', x.at = "idle" => killed' \/ Valid'
  PROVE  Serial'
<1>1. script'[a] = x /\ \A b \in Agents : b # a => script'[b] = script[b]
  BY DEF Typed
<1>2. \A b \in Agents : Works(b)' => b = a /\ x.at # "idle"
  BY <1>1 DEF Works
<1>3. AllIdle' => x.at = "idle"
  BY <1>1 DEF AllIdle, Works
<1>4. \A b \in Agents : Works(b)' => AtWork(b)'
  BY <1>2
<1> QED BY <1>2, <1>3, <1>4 DEF Serial

LEMMA OthersIdle ==
  ASSUME Serial, NEW a \in Agents, Works(a)
  PROVE  (\A b \in Agents : b # a => ~Works(b)) /\ AtWork(a)
BY DEF Serial

\* No step takes an agent's lease away but one that marks it stale or releases it.
LEMMA FramesKeep ==
  ASSUME Serial, UNCHANGED <<dependsOn, task, lease, lapsed>>,
         \A b \in Agents : executes'[b] \subseteq executes[b]
  PROVE  NoClash' /\ WorksUnderLease' /\ RunningHasDeps'
<1>1. ActiveTasks' = ActiveTasks
  BY DEF ActiveTasks
<1>2. NoClash'
  BY <1>1 DEF Serial, NoClash, Conflicting
<1>3. WorksUnderLease'
  BY DEF Serial, WorksUnderLease, ActiveOf
<1>4. RunningHasDeps'
  BY DEF Serial, RunningHasDeps, DepsAccepted
<1> QED BY <1>2, <1>3, <1>4

LEMMA BeginSerial ==
  ASSUME Typed, Serial, NEW a \in Agents, NEW s \in Script, Begin(a, s),
         overlaps = 0, overlaps' = 0,
         \A b \in Agents : executes'[b] \subseteq executes[b],
         \A u \in s.rest : u # s.task /\ lease[u].status = "active" /\ lease[u].expired,
         s.rest # {} => s.do = "reconcile",
         \/ s.do = "claim" /\ s.at = "archive" /\ Ready(s.task) /\ FreeToClaim(s.task)
         \/ /\ s.do # "claim" /\ s.at = "lease"
            /\ lease[s.task].status = "active" /\ s.old = lease[s.task]
            /\ s.do = "release" => s.task \notin executes'[a]
            /\ s.do = "reconcile" => s.old.expired
  PROVE  Serial'
<1>1. /\ script' = [script EXCEPT ![a] = s] /\ AllIdle /\ Valid
      /\ UNCHANGED <<dependsOn, task, lease, twice, idsRepeat, late, lapsed, killed>>
  BY DEF Begin
<1>2. script'[a] = s
  BY <1>1 DEF Typed
<1>3. NoClash' /\ WorksUnderLease' /\ RunningHasDeps'
  BY <1>1, FramesKeep
<1>4. twice = {} /\ \A u \in Tasks : Agrees(u)
  BY <1>1 DEF Valid, Agrees
<1>5. s.task \in Tasks
  BY DEF Script
<1>6. AtWork(a)'
  <2>1. twice' = {} /\ \A u \in Tasks : Agrees(u)'
    BY <1>1, <1>4 DEF Agrees
  <2>2. CASE s.do = "claim" /\ s.at = "archive" /\ Ready(s.task) /\ FreeToClaim(s.task)
    <3>1. ToClaim(a)'
      BY <1>1, <1>2, <2>2 DEF ToClaim, Ready, FreeToClaim, ActiveTasks, Conflicting
    <3> QED BY <1>1, <1>2, <2>1, <2>2, <3>1 DEF AtWork, HalfWay, AllWritten
  <2>3. CASE s.do # "claim" /\ s.at = "lease"
    <3>1. ToChange(a)'
      BY <1>1, <1>2, <1>4, <1>5, <2>3 DEF ToChange, Agrees
    <3> QED BY <1>1, <1>2, <2>1, <2>3, <3>1 DEF AtWork, HalfWay, AllWritten
  <2> QED BY <2>2, <2>3
<1>7. s.at # "idle" /\ (\A b \in Agents : b # a => ~Works(b))
  BY <1>1, IdleIsIdle DEF AllIdle
<1>8. late' = {} /\ ~idsRepeat'
  BY <1>1 DEF Serial
<1> QED BY <1>1, <1>3, <1>6, <1>7, <1>8, SerialScript

LEMMA BeginsSerial ==
  ASSUME Typed, Serial, NEW a \in Agents, overlaps = 0, overlaps' = 0,
         BeginReconcile(a)
           \/ \E t \in Tasks : BeginClaim(a, t) \/ BeginHeartbeat(a, t) \/ BeginRelease(a, t)
  PROVE  Serial'
<1>0. ASSUME NEW t \in Tasks PROVE lease[t] \in Lease
  BY DEF Typed
<1>1. ASSUME NEW t \in Tasks, BeginClaim(a, t) PROVE Serial'
  <2> DEFINE s == [at |-> "archive", do |-> "claim", task |-> t, old |-> lease[t], rest |-> {}]
  <2>1. s \in Script /\ s.at = "archive" /\ s.do = "claim" /\ s.rest = {} /\ s.task = t
    BY <1>0 DEF Script, Phases, Jobs
  <2>2. Begin(a, s) /\ executes' = executes /\ Ready(t) /\ FreeToClaim(t)
    BY <1>1 DEF BeginClaim
  <2> HIDE DEF s
  <2> QED BY <2>1, <2>2, BeginSerial
<1>2. ASSUME NEW t \in Tasks, BeginHeartbeat(a, t) PROVE Serial'
  <2> DEFINE s == [at |-> "lease", do |-> "beat", task |-> t, old |-> lease[t], rest |-> {}]
  <2>1. s \in Script /\ s.at = "lease" /\ s.do = "beat" /\ s.rest = {} /\ s.task = t
        /\ s.old = lease[t]
    BY <1>0 DEF Script, Phases, Jobs
  <2>2. Begin(a, s) /\ executes' = executes /\ lease[t].status = "active"
    BY <1>2 DEF BeginHeartbeat
  <2> HIDE DEF s
  <2> QED BY <2>1, <2>2, BeginSerial
<1>3. ASSUME NEW t \in Tasks, BeginRelease(a, t) PROVE Serial'
  <2> DEFINE s == [at |-> "lease", do |-> "release", task |-> t, old |-> lease[t], rest |-> {}]
  <2>1. s \in Script /\ s.at = "lease" /\ s.do = "release" /\ s.rest = {} /\ s.task = t
        /\ s.old = lease[t]
    BY <1>0 DEF Script, Phases, Jobs
  <2>2. Begin(a, s) /\ lease[t].status = "active"
        /\ executes' = [executes EXCEPT ![a] = @ \ {t}]
    BY <1>3 DEF BeginRelease
  <2>3. t \notin executes'[a] /\ \A b \in Agents : executes'[b] \subseteq executes[b]
    BY <2>2 DEF Typed
  <2> HIDE DEF s
  <2> QED BY <2>1, <2>2, <2>3, BeginSerial
<1>4. CASE BeginReconcile(a)
  <2>1. PICK t \in {u \in ActiveTasks : lease[u].expired} :
          /\ Begin(a, [at |-> "lease", do |-> "reconcile", task |-> t, old |-> lease[t],
                       rest |-> {u \in ActiveTasks : lease[u].expired} \ {t}])
          /\ UNCHANGED executes
    BY <1>4 DEF BeginReconcile
  <2> DEFINE s == [at |-> "lease", do |-> "reconcile", task |-> t, old |-> lease[t],
                   rest |-> {u \in ActiveTasks : lease[u].expired} \ {t}]
  <2>2. t \in Tasks /\ lease[t].status = "active" /\ lease[t].expired
    BY DEF ActiveTasks
  <2>3. /\ s \in Script /\ s.at = "lease" /\ s.do = "reconcile" /\ s.task = t
        /\ s.old = lease[t]
        /\ \A u \in s.rest : u # t /\ lease[u].status = "active" /\ lease[u].expired
    BY <1>0, <2>2 DEF Script, Phases, Jobs, ActiveTasks
  <2>4. Begin(a, s)
    BY <2>1
  <2> HIDE DEF s
  <2> QED BY <2>1, <2>2, <2>3, <2>4, BeginSerial
<1> QED BY <1>1, <1>2, <1>3, <1>4

LEMMA ArchiveSerial ==
  ASSUME Typed, Serial, NEW a \in Agents, Archive(a)
  PROVE  Serial'
<1> DEFINE t == script[a].task
           x == [script[a] EXCEPT !.at = "lease"]
<1>1. /\ Works(a) /\ script[a] \in Script /\ script[a].at = "archive" /\ t \in Tasks
      /\ script[a].do = "claim"
  BY WorkingScript DEF Archive, Works, Script, WellFormed
<1>2. (\A b \in Agents : b # a => ~Works(b)) /\ AtWork(a)
  BY <1>1, OthersIdle
<1>3. ToClaim(a) /\ lease[t].status # "active"
  BY <1>1, <1>2 DEF AtWork, ToClaim, FreeToClaim, ActiveTasks
<1>4. /\ Goto(a, "lease") /\ twice' \in {twice, twice \cup {t}}
      /\ UNCHANGED <<dependsOn, task, lease, idsRepeat, late, executes, lapsed, overlaps, killed>>
  BY <1>3 DEF Archive
<1>5. /\ x \in Script /\ script' = [script EXCEPT ![a] = x] /\ script'[a] = x
      /\ x.at = "lease" /\ x.do = "claim" /\ x.task = t /\ x.rest = script[a].rest
  BY <1>1, <1>4, GotoScript DEF Phases
<1> HIDE DEF x, t
<1>6. twice \subseteq {t} /\ twice' \subseteq {t}
  BY <1>2, <1>4 DEF AtWork, t
<1>7. ToClaim(a)'
  BY <1>3, <1>4, <1>5 DEF ToClaim, Ready, FreeToClaim, ActiveTasks, Conflicting, t
<1>8. AtWork(a)'
  <2>1. /\ \A u \in Tasks : u # t => Agrees(u)
        /\ \A u \in x.rest : u # t /\ lease[u].status = "active" /\ lease[u].expired
        /\ x.rest # {} => x.do = "reconcile"
    BY <1>1, <1>2, <1>5 DEF AtWork, t
  <2>2. /\ \A u \in Tasks : u # t => Agrees(u)'
        /\ \A u \in x.rest : u # t /\ lease'[u].status = "active" /\ lease'[u].expired
    BY <1>4, <2>1 DEF Agrees
  <2> QED BY <1>5, <1>6, <1>7, <2>1, <2>2 DEF AtWork, HalfWay, AllWritten
<1>9. NoClash' /\ WorksUnderLease' /\ RunningHasDeps'
  BY <1>4, FramesKeep
<1>10. late' = {} /\ ~idsRepeat' /\ x.at # "idle"
  BY <1>4, <1>5 DEF Serial
<1> QED BY <1>2, <1>5, <1>8, <1>9, <1>10, SerialScript

LEMMA WriteLeaseSerial ==
  ASSUME Typed, Serial, NEW a \in Agents, WriteLease(a)
  PROVE  Serial'
<1> DEFINE t == script[a].task
           p == IF script[a].do \in {"claim", "release"} THEN "task" ELSE "count"
           x == [script[a] EXCEPT !.at = p]
           new == NewLease(a)
<1>1. /\ Works(a) /\ script[a] \in Script /\ script[a].at = "lease" /\ t \in Tasks
      /\ script[a].do \in Jobs
  BY WorkingScript DEF WriteLease, Works, Script
<1>2. (\A b \in Agents : b # a => ~Works(b)) /\ AtWork(a)
  BY <1>1, OthersIdle
<1>3. /\ lease' = [lease EXCEPT ![t] = new]
      /\ twice' = IF script[a].do = "claim" THEN twice \ {t} ELSE twice
      /\ lapsed' = IF \/ script[a].do = "reconcile" /\ script[a].old.expired
                      \/ script[a].do = "release" /\ script[a].old.owner # a
                   THEN lapsed \cup {<<script[a].old.owner, t>>} ELSE lapsed
      /\ Goto(a, p)
      /\ UNCHANGED <<dependsOn, task, idsRepeat, late, executes, overlaps, killed>>
  BY DEF WriteLease
<1>40. p \in Phases
  BY DEF Phases
<1>4. /\ x \in Script /\ script' = [script EXCEPT ![a] = x] /\ script'[a] = x
      /\ x.at = p /\ x.do = script[a].do /\ x.task = t /\ x.rest = script[a].rest
  BY <1>1, <1>3, <1>40, GotoScript
<1>5. /\ script[a].do = "claim" => new.status = "active" /\ new.owner = a
      /\ script[a].do = "beat" =>
           new.status = script[a].old.status /\ new.owner = script[a].old.owner
      /\ script[a].do = "release" => new.status = "released"
      /\ script[a].do = "reconcile" => new.status = "stale"
  BY <1>1, NewLeaseTyped
<1>6. lease'[t] = new /\ \A u \in Tasks : u # t => lease'[u] = lease[u]
  BY <1>1, <1>3 DEF Typed
<1>7. /\ script[a].do = "claim" => ToClaim(a)
      /\ script[a].do # "claim" => ToChange(a)
      /\ twice \subseteq {t} /\ (twice # {} => script[a].do = "claim")
      /\ \A u \in Tasks : u # t => Agrees(u)
      /\ \A u \in script[a].rest : u # t /\ lease[u].status = "active" /\ lease[u].expired
      /\ script[a].rest # {} => script[a].do = "reconcile"
  BY <1>1, <1>2 DEF AtWork
<1>8. twice' = {}
  BY <1>3, <1>7
<1>9. /\ \A u \in Tasks : u # t => Agrees(u)'
      /\ \A u \in x.rest : u # t /\ lease'[u].status = "active" /\ lease'[u].expired
  BY <1>1, <1>3, <1>4, <1>6, <1>7 DEF Agrees, Script
<1>10. RunningHasDeps'
  BY <1>3 DEF Serial, RunningHasDeps, DepsAccepted
<1>11. late' = {} /\ ~idsRepeat' /\ x.at # "idle"
  BY <1>3, <1>4 DEF Serial
<1> HIDE DEF x, new
<1>12. CASE script[a].do = "claim"
  <2>1. /\ task[t] = "approved" /\ DepsAccepted(t) /\ lease[t].status # "active"
        /\ \A u \in ActiveTasks : ~Conflicting(t, u)
    BY <1>1, <1>7, <1>12 DEF ToClaim, Ready, FreeToClaim, DepsAccepted, ActiveTasks
  <2>2. ActiveTasks' = ActiveTasks \cup {t}
    BY <1>1, <1>5, <1>6, <1>12 DEF ActiveTasks
  <2>3. NoClash'
    BY <2>1, <2>2 DEF Serial, NoClash, Conflicting
  <2>4. WorksUnderLease'
    <3> SUFFICES ASSUME NEW b \in Agents, NEW u \in executes[b]
                 PROVE  ActiveOf(b, u)' \/ <<b, u>> \in lapsed'
      BY <1>3 DEF WorksUnderLease
    <3>1. u \in Tasks /\ (ActiveOf(b, u) \/ <<b, u>> \in lapsed) /\ lapsed \subseteq lapsed'
      BY <1>3 DEF Typed, Serial, WorksUnderLease
    <3> QED BY <1>6, <2>1, <3>1 DEF ActiveOf
  <2>5. ClaimHalf(a)'
    BY <1>3, <1>4, <1>5, <1>6, <1>12, <2>1 DEF ClaimHalf, DepsAccepted, ActiveOf
  <2>6. AtWork(a)'
    BY <1>4, <1>7, <1>8, <1>9, <1>12, <2>5 DEF AtWork, HalfWay, AllWritten
  <2> QED BY <1>2, <1>4, <1>10, <1>11, <2>3, <2>4, <2>6, SerialScript
<1>13. CASE script[a].do # "claim"
  <2>1. /\ lease[t].status = "active" /\ task[t] = "running"
        /\ script[a].old.status = "active" /\ script[a].old.owner = lease[t].owner
        /\ script[a].do = "release" => t \notin executes[a]
        /\ script[a].do = "reconcile" => script[a].old.expired
    BY <1>7, <1>13 DEF ToChange
  <2>2. ActiveTasks' \subseteq ActiveTasks
    BY <1>1, <1>6, <2>1 DEF ActiveTasks
  <2>3. NoClash'
    BY <2>2 DEF Serial, NoClash, Conflicting
  <2>4. WorksUnderLease'
    <3> SUFFICES ASSUME NEW b \in Agents, NEW u \in executes[b]
                 PROVE  ActiveOf(b, u)' \/ <<b, u>> \in lapsed'
      BY <1>3 DEF WorksUnderLease
    <3>1. u \in Tasks /\ (ActiveOf(b, u) \/ <<b, u>> \in lapsed) /\ lapsed \subseteq lapsed'
      BY <1>3 DEF Typed, Serial, WorksUnderLease
    <3>2. CASE u # t \/ <<b, u>> \in lapsed
      BY <1>6, <3>1, <3>2 DEF ActiveOf
    <3>3. CASE u = t /\ ActiveOf(b, t)
      <4>1. script[a].old.owner = b
        BY <2>1, <3>3 DEF ActiveOf
      <4>2. CASE script[a].do = "beat"
        BY <1>5, <1>6, <2>1, <3>3, <4>1, <4>2 DEF ActiveOf
      <4>3. CASE script[a].do = "release"
        <5>1. b # a
          BY <2>1, <3>3, <4>3
        <5> QED BY <1>3, <3>3, <4>1, <4>3, <5>1
      <4>4. CASE script[a].do = "reconcile"
        BY <1>3, <2>1, <3>3, <4>1, <4>4
      <4> QED BY <1>1, <1>13, <4>2, <4>3, <4>4 DEF Jobs
    <3> QED BY <3>1, <3>2, <3>3
  <2>5. CASE script[a].do = "beat"
    <3>1. Written(a)'
      BY <1>3, <1>4, <1>5, <1>6, <2>1, <2>5 DEF Written, Agrees
    <3>2. AtWork(a)'
      BY <1>4, <1>7, <1>8, <1>9, <2>5, <3>1 DEF AtWork, HalfWay, AllWritten
    <3> QED BY <1>2, <1>4, <1>10, <1>11, <2>3, <2>4, <3>2, SerialScript
  <2>6. CASE script[a].do \in {"release", "reconcile"}
    <3>1. ChangeHalf(a)'
      BY <1>3, <1>4, <1>5, <1>6, <2>1, <2>6 DEF ChangeHalf
    <3>2. AtWork(a)'
      BY <1>4, <1>7, <1>8, <1>9, <2>6, <3>1 DEF AtWork, HalfWay, AllWritten
    <3> QED BY <1>2, <1>4, <1>10, <1>11, <2>3, <2>4, <3>2, SerialScript
  <2> QED BY <1>1, <1>13, <2>5, <2>6 DEF Jobs
<1> QED BY <1>12, <1>13

LEMMA WriteTaskSerial ==
  ASSUME Typed, Serial, NEW a \in Agents, WriteTask(a)
  PROVE  Serial'
<1> DEFINE t == script[a].task
           p == IF script[a].do = "reconcile" THEN "count2" ELSE "count"
           x == [script[a] EXCEPT !.at = p]
<1>1. /\ Works(a) /\ script[a] \in Script /\ script[a].at = "task" /\ t \in Tasks
      /\ script[a].do \in Jobs \ {"beat"}
  BY WorkingScript DEF WriteTask, Works, Script, WellFormed
<1>2. (\A b \in Agents : b # a => ~Works(b)) /\ AtWork(a)
  BY <1>1, OthersIdle
<1>3. PICK status \in CASE script[a].do = "claim" -> {"running"}
                         [] script[a].do = "release" -> {"completed", "blocked"}
                         [] script[a].do = "reconcile" -> {"blocked"} :
        task' = [task EXCEPT ![t] = status]
  BY DEF WriteTask
<1>4. Goto(a, p) /\ UNCHANGED <<dependsOn, lease, twice, idsRepeat, late, executes, lapsed,
                                overlaps, killed>>
  BY DEF WriteTask
<1>5. p \in Phases
  BY DEF Phases
<1>6. /\ x \in Script /\ script' = [script EXCEPT ![a] = x] /\ script'[a] = x
      /\ x.at = p /\ x.do = script[a].do /\ x.task = t /\ x.rest = script[a].rest
  BY <1>1, <1>4, <1>5, GotoScript
<1>7. task'[t] = status /\ \A u \in Tasks : u # t => task'[u] = task[u]
  BY <1>1, <1>3 DEF Typed
<1>8. /\ script[a].do = "claim" => ClaimHalf(a)
      /\ script[a].do # "claim" => ChangeHalf(a)
      /\ twice = {}
      /\ \A u \in Tasks : u # t => Agrees(u)
      /\ \A u \in script[a].rest : u # t /\ lease[u].status = "active" /\ lease[u].expired
      /\ script[a].rest # {} => script[a].do = "reconcile"
  BY <1>1, <1>2 DEF AtWork, HalfWay, Jobs
<1>9. /\ \A u \in Tasks : u # t => Agrees(u)'
      /\ \A u \in x.rest : u # t /\ lease'[u].status = "active" /\ lease'[u].expired
  BY <1>4, <1>6, <1>7, <1>8 DEF Agrees
<1>10. NoClash' /\ WorksUnderLease'
  BY <1>4 DEF Serial, NoClash, WorksUnderLease, ActiveTasks, Conflicting, ActiveOf
<1>11. late' = {} /\ ~idsRepeat' /\ x.at # "idle" /\ twice' = {}
  BY <1>4, <1>6, <1>8 DEF Serial
<1>12. \A u \in Tasks : dependsOn'[u] = dependsOn[u] /\ dependsOn[u] \subseteq Tasks
  BY <1>4, LeaseConstants DEF Typed
<1> HIDE DEF x
<1>13. CASE script[a].do = "claim"
  <2>1. status = "running" /\ task[t] = "approved" /\ DepsAccepted(t) /\ ActiveOf(a, t)
    BY <1>3, <1>8, <1>13 DEF ClaimHalf
  <2>2. \A u \in Tasks : DepsAccepted(u) => DepsAccepted(u)'
    BY <1>7, <1>12, <2>1 DEF DepsAccepted
  <2>3. RunningHasDeps'
    BY <1>7, <2>1, <2>2 DEF RunningHasDeps, Serial
  <2>4. Written(a)'
    BY <1>4, <1>6, <1>7, <2>1 DEF Written, Agrees, ActiveOf
  <2>5. AtWork(a)'
    BY <1>6, <1>8, <1>9, <1>11, <1>13, <2>4 DEF AtWork, HalfWay, AllWritten
  <2> QED BY <1>2, <1>6, <1>10, <1>11, <2>3, <2>5, SerialScript
<1>14. CASE script[a].do \in {"release", "reconcile"}
  <2>1. status # "running" /\ status # "accepted" /\ task[t] = "running"
        /\ lease[t].status # "active"
    BY <1>3, <1>8, <1>14 DEF ChangeHalf
  <2>2. \A u \in Tasks : DepsAccepted(u) => DepsAccepted(u)'
    BY <1>7, <1>12, <2>1 DEF DepsAccepted
  <2>3. RunningHasDeps'
    BY <1>7, <2>1, <2>2 DEF RunningHasDeps, Serial
  <2>4. Written(a)'
    BY <1>4, <1>6, <1>7, <1>14, <2>1 DEF Written, Agrees
  <2>5. AtWork(a)'
    BY <1>6, <1>8, <1>9, <1>11, <1>14, <2>4 DEF AtWork, HalfWay, AllWritten
  <2> QED BY <1>2, <1>6, <1>10, <1>11, <2>3, <2>5, SerialScript
<1> QED BY <1>1, <1>13, <1>14 DEF Jobs

\* A script that records an event moves on; what it has written does not change.
LEMMA RecordSerial ==
  ASSUME Typed, Serial, NEW a \in Agents, Works(a), NEW p \in Phases, Goto(a, p),
         UNCHANGED <<dependsOn, task, lease, twice, executes, lapsed>>,
         late' = {}, ~idsRepeat',
         script[a].at \in {"count", "append", "count2", "append2"},
         \/ HalfWay(script[a]) /\ script[a].do = "reconcile" /\ p \in {"append", "task"}
         \/ AllWritten(script[a]) /\ p \in {"count2", "append2", "check"}
         \/ AllWritten(script[a]) /\ script[a].do # "reconcile" /\ p = "append"
  PROVE  Serial'
<1> DEFINE x == [script[a] EXCEPT !.at = p]
<1>1. /\ x \in Script /\ script' = [script EXCEPT ![a] = x] /\ script'[a] = x
      /\ x.at = p /\ x.do = script[a].do /\ x.task = script[a].task /\ x.rest = script[a].rest
  BY GotoScript
<1> HIDE DEF x
<1>2. (\A b \in Agents : b # a => ~Works(b)) /\ AtWork(a)
  BY OthersIdle
<1>3. x.at # "idle"
  BY <1>1 DEF Phases
<1>4. NoClash' /\ WorksUnderLease' /\ RunningHasDeps'
  BY FramesKeep
<1>5. /\ twice' = {}
      /\ \A u \in Tasks : u # x.task => Agrees(u)'
      /\ \A u \in x.rest : u # x.task /\ lease'[u].status = "active" /\ lease'[u].expired
      /\ x.rest # {} => x.do = "reconcile"
  BY <1>1, <1>2 DEF AtWork, Agrees
<1>6. HalfWay(script[a]) => ChangeHalf(a)'
  BY <1>1, <1>2 DEF AtWork, ChangeHalf
<1>7. AllWritten(script[a]) => Written(a)'
  BY <1>1, <1>2 DEF AtWork, Written, Agrees, ActiveOf
<1>8. AtWork(a)'
  BY <1>1, <1>5, <1>6, <1>7 DEF AtWork, HalfWay, AllWritten
<1> QED BY <1>1, <1>2, <1>3, <1>4, <1>8, SerialScript

LEMMA CountSerial ==
  ASSUME Typed, Serial, NEW a \in Agents, Count(a)
  PROVE  Serial'
<1>1. Works(a) /\ script[a].at \in {"count", "count2"}
  BY DEF Count, Works
<1>2. /\ late' = {} /\ ~idsRepeat' /\ UNCHANGED <<dependsOn, task, lease, twice, executes, lapsed>>
  BY DEF Count, Serial
<1>3. CASE script[a].at = "count"
  <2>1. Goto(a, "append") /\ "append" \in Phases
    BY <1>3 DEF Count, Phases
  <2> QED BY <1>1, <1>2, <1>3, <2>1, RecordSerial DEF HalfWay, AllWritten
<1>4. CASE script[a].at = "count2"
  <2>1. Goto(a, "append2") /\ "append2" \in Phases
    BY <1>4 DEF Count, Phases
  <2> QED BY <1>1, <1>2, <1>4, <2>1, RecordSerial DEF AllWritten
<1> QED BY <1>1, <1>3, <1>4

LEMMA AppendSerial ==
  ASSUME Typed, Serial, NEW a \in Agents, AppendEvent(a)
  PROVE  Serial'
<1>1. /\ Works(a) /\ script[a].at \in {"append", "append2"}
      /\ UNCHANGED <<dependsOn, task, lease, twice, executes, lapsed>>
  BY DEF AppendEvent, Works
<1>2. late' = {} /\ ~idsRepeat'
  <2>1. \A b \in Agents \ {a} : ~Works(b)
    BY <1>1, OthersIdle
  <2> QED BY <2>1 DEF AppendEvent, Serial
<1>3. "check" \in Phases /\ "task" \in Phases /\ "count2" \in Phases
  BY DEF Phases
<1>4. CASE script[a].at = "append2" \/ script[a].do = "beat"
  <2>1. Goto(a, "check")
    BY <1>4 DEF AppendEvent
  <2> QED BY <1>1, <1>2, <1>3, <1>4, <2>1, RecordSerial DEF AllWritten
<1>5. CASE script[a].at = "append" /\ script[a].do = "reconcile"
  <2>1. Goto(a, "task")
    BY <1>5 DEF AppendEvent
  <2> QED BY <1>1, <1>2, <1>3, <1>5, <2>1, RecordSerial DEF HalfWay
<1>6. CASE script[a].at = "append" /\ script[a].do \notin {"beat", "reconcile"}
  <2>1. Goto(a, "count2")
    BY <1>6 DEF AppendEvent
  <2> QED BY <1>1, <1>2, <1>3, <1>6, <2>1, RecordSerial DEF AllWritten
<1> QED BY <1>1, <1>4, <1>5, <1>6

LEMMA FinishSerial ==
  ASSUME Typed, Serial, NEW a \in Agents, Finish(a)
  PROVE  Serial'
<1> DEFINE s == script[a]
<1>1. Works(a) /\ s \in Script /\ s.at = "check" /\ s.task \in Tasks
  BY WorkingScript DEF Finish, Works, Script
<1>2. (\A b \in Agents : b # a => ~Works(b)) /\ AtWork(a)
  BY <1>1, OthersIdle
<1>3. UNCHANGED <<dependsOn, task, lease, twice, idsRepeat, late, lapsed, overlaps, killed>>
  BY DEF Finish
<1>4. /\ twice = {} /\ \A u \in Tasks : Agrees(u)
      /\ s.do = "claim" => ActiveOf(a, s.task)
      /\ \A u \in s.rest : u # s.task /\ lease[u].status = "active" /\ lease[u].expired
      /\ s.rest # {} => s.do = "reconcile"
  BY <1>1, <1>2 DEF AtWork, AllWritten, Written
<1>5. late' = {} /\ ~idsRepeat' /\ NoClash' /\ RunningHasDeps'
  BY <1>3 DEF Serial, NoClash, RunningHasDeps, ActiveTasks, Conflicting, DepsAccepted
<1>6. CASE /\ script' = [script EXCEPT ![a] = Idle]
           /\ executes' = IF s.do = "claim" /\ Valid
                          THEN [executes EXCEPT ![a] = @ \cup {s.task}] ELSE executes
  <2>1. WorksUnderLease'
    <3> SUFFICES ASSUME NEW b \in Agents, NEW u \in executes'[b]
                 PROVE  ActiveOf(b, u)' \/ <<b, u>> \in lapsed'
      BY DEF WorksUnderLease
    <3>1. u \in executes[b] \/ (b = a /\ u = s.task /\ s.do = "claim")
      BY <1>6 DEF Typed
    <3> QED BY <1>3, <1>4, <3>1 DEF Serial, WorksUnderLease, ActiveOf
  <2>2. Valid'
    <3>1. NoClash /\ ~idsRepeat
      BY DEF Serial
    <3>2. Valid
      BY <1>4, <3>1 DEF Valid, NoClash, Agrees
    <3> QED BY <1>3, <3>2 DEF Valid, ActiveTasks, Conflicting
  <2> QED BY <1>2, <1>5, <1>6, <2>1, <2>2, IdleIsIdle, SerialScript
<1>7. ASSUME NEW t \in s.rest, UNCHANGED executes,
             script' = [script EXCEPT ![a] = [s EXCEPT !.at = "lease", !.task = t,
                                                       !.old = lease[t], !.rest = @ \ {t}]]
      PROVE  Serial'
  <2> DEFINE x == [s EXCEPT !.at = "lease", !.task = t, !.old = lease[t], !.rest = @ \ {t}]
  <2>1. t \in Tasks /\ lease[t] \in Lease
    BY <1>1 DEF Script, Typed
  <2>2. x \in Script /\ x.at = "lease" /\ x.task = t /\ x.old = lease[t] /\ x.do = s.do
        /\ x.rest = s.rest \ {t}
    BY <1>1, <2>1 DEF Script, Phases
  <2>3. script' = [script EXCEPT ![a] = x]
    BY <1>7
  <2> HIDE DEF x
  <2>4. script'[a] = x
    BY <2>3 DEF Typed
  <2>5. WorksUnderLease'
    BY <1>3, <1>7 DEF Serial, WorksUnderLease, ActiveOf
  <2>6. s.do = "reconcile" /\ lease[t].status = "active" /\ lease[t].expired
        /\ task[t] = "running"
    BY <1>4, <2>1 DEF Agrees
  <2>7. ToChange(a)'
    BY <1>3, <2>2, <2>4, <2>6 DEF ToChange
  <2>8. twice' = {} /\ \A u \in Tasks : Agrees(u)'
    BY <1>3, <1>4 DEF Agrees
  <2>9. \A u \in x.rest : u # t /\ lease'[u].status = "active" /\ lease'[u].expired
    BY <1>3, <1>4, <2>2
  <2>10. AtWork(a)'
    BY <2>2, <2>4, <2>6, <2>7, <2>8, <2>9 DEF AtWork, HalfWay, AllWritten
  <2>11. x.at # "idle"
    BY <2>2
  <2> QED BY <1>2, <1>5, <2>2, <2>3, <2>5, <2>10, <2>11, SerialScript
<1> QED BY <1>6, <1>7 DEF Finish

LEMMA KillSerial ==
  ASSUME Typed, Serial, NEW a \in Agents, KillScript(a)
  PROVE  Serial'
<1>1. /\ script' = [script EXCEPT ![a] = Idle] /\ Works(a) /\ killed' = TRUE
      /\ late' = late \ {a}
      /\ UNCHANGED <<dependsOn, task, lease, twice, idsRepeat, executes, lapsed, overlaps>>
  BY DEF KillScript
<1>2. NoClash' /\ WorksUnderLease' /\ RunningHasDeps'
  BY <1>1, FramesKeep
<1>3. late' = {} /\ ~idsRepeat' /\ (\A b \in Agents : b # a => ~Works(b))
  BY <1>1, OthersIdle DEF Serial
<1> QED BY <1>1, <1>2, <1>3, IdleIsIdle, SerialScript

LEMMA ExpirySerial ==
  ASSUME Typed, Serial, NEW t \in Tasks, LeaseExpires(t)
  PROVE  Serial'
<1>1. lease' = [lease EXCEPT ![t].expired = TRUE]
      /\ UNCHANGED <<dependsOn, task, twice, idsRepeat, script, late, executes, lapsed,
                     overlaps, killed>>
  BY DEF LeaseExpires
<1>2. \A u \in Tasks : /\ lease'[u].owner = lease[u].owner
                       /\ lease'[u].status = lease[u].status
                       /\ lease[u].expired => lease'[u].expired
  <2>1. \A u \in Tasks : lease[u] \in Lease
    BY DEF Typed
  <2> QED BY <1>1, <2>1 DEF Typed, Lease
<1>3. ActiveTasks' = ActiveTasks
  BY <1>2 DEF ActiveTasks
<1>4. NoClash' /\ RunningHasDeps'
  BY <1>1, <1>3 DEF Serial, NoClash, Conflicting, RunningHasDeps, DepsAccepted
<1>5. WorksUnderLease'
  BY <1>1, <1>2 DEF Serial, WorksUnderLease, ActiveOf, Typed
<1>6. AllIdle' /\ ~killed' => Valid'
  BY <1>1, <1>2, <1>3 DEF Serial, AllIdle, Works, Valid, Conflicting
<1>7. ASSUME NEW a \in Agents, Works(a)' PROVE AtWork(a)'
  <2>1. Works(a) /\ AtWork(a) /\ script'[a] = script[a] /\ script[a].task \in Tasks
        /\ script[a].rest \subseteq Tasks
    BY <1>1, <1>7, WorkingScript DEF Serial, Works, Script
  <2>2. ToClaim(a) => ToClaim(a)'
    BY <1>1, <1>3, <2>1 DEF ToClaim, Ready, FreeToClaim, Conflicting
  <2>3. ClaimHalf(a) => ClaimHalf(a)'
    BY <1>1, <1>2, <2>1 DEF ClaimHalf, DepsAccepted, ActiveOf
  <2>4. ToChange(a) => ToChange(a)'
    BY <1>1, <1>2, <2>1 DEF ToChange
  <2>5. ChangeHalf(a) => ChangeHalf(a)'
    BY <1>1, <1>2, <2>1 DEF ChangeHalf
  <2>6. Written(a) => Written(a)'
    BY <1>1, <1>2, <2>1 DEF Written, Agrees, ActiveOf
  <2>7. /\ \A u \in Tasks : Agrees(u) => Agrees(u)'
        /\ \A u \in script[a].rest : lease[u].status = "active" /\ lease[u].expired
             => lease'[u].status = "active" /\ lease'[u].expired
    BY <1>1, <1>2, <2>1 DEF Agrees
  <2> QED BY <1>1, <2>1, <2>2, <2>3, <2>4, <2>5, <2>6, <2>7 DEF AtWork
<1>8. (\A a, b \in Agents : Works(a)' /\ Works(b)' => a = b) /\ late' = {} /\ ~idsRepeat'
  BY <1>1 DEF Serial, Works
<1> QED BY <1>4, <1>5, <1>6, <1>7, <1>8 DEF Serial

LEMMA DecideSerial ==
  ASSUME Typed, Serial, NEW t \in Tasks, Decide(t), overlaps = 0, overlaps' = 0
  PROVE  Serial'
<1>1. /\ AllIdle
      /\ UNCHANGED <<dependsOn, lease, twice, idsRepeat, script, late, executes, lapsed, killed>>
  BY DEF Decide
<1>2. PICK s \in {"accepted", "approved"} :
        task' = [task EXCEPT ![t] = s] /\ task[t] \in {"completed", "blocked"}
  BY DEF Decide
<1>3. task'[t] = s /\ \A u \in Tasks : u # t => task'[u] = task[u]
  BY <1>2 DEF Typed
<1>4. \A u \in Tasks : dependsOn'[u] = dependsOn[u] /\ dependsOn[u] \subseteq Tasks
  BY <1>1, LeaseConstants DEF Typed
<1>5. \A u \in Tasks : DepsAccepted(u) => DepsAccepted(u)'
  BY <1>2, <1>3, <1>4 DEF DepsAccepted
<1>6. RunningHasDeps'
  BY <1>2, <1>3, <1>5 DEF RunningHasDeps, Serial
<1>7. NoClash' /\ WorksUnderLease'
  BY <1>1 DEF Serial, NoClash, WorksUnderLease, ActiveTasks, Conflicting, ActiveOf
<1>8. \A u \in Tasks : (task'[u] = "running") <=> (task[u] = "running")
  BY <1>2, <1>3
<1>9. Valid => Valid'
  BY <1>1, <1>8 DEF Valid, ActiveTasks, Conflicting
<1>10. \A b \in Agents : ~Works(b)'
  BY <1>1 DEF AllIdle, Works
<1> QED BY <1>1, <1>6, <1>7, <1>9, <1>10 DEF Serial, AllIdle, Works

LEMMA SerialStep ==
  ASSUME LeaseInv, [LeaseNext]_leaseVars, overlaps' = 0
  PROVE  Serial'
<1> USE DEF LeaseInv
<1>2. overlaps = 0 /\ Serial /\ Typed
  <2>1. overlaps \in Nat
    BY LeaseConstants DEF Typed
  <2>2. overlaps' \in {overlaps, overlaps + 1}
    BY DEF LeaseNext, leaseVars, Begin, BeginClaim, BeginHeartbeat, BeginRelease,
           BeginReconcile, Archive, WriteLease, WriteTask, Count, AppendEvent, Finish,
           KillScript, LeaseExpires, Decide
  <2> QED BY <2>1, <2>2
<1>3. CASE UNCHANGED leaseVars
  <2>1. UNCHANGED <<dependsOn, task, lease, twice, idsRepeat, script, late, executes, lapsed, killed>>
    BY <1>3 DEF leaseVars
  <2>2. NoClash' /\ WorksUnderLease' /\ RunningHasDeps'
    BY <1>2, <2>1, FramesKeep
  <2>3. \A b \in Agents : Works(b)' => AtWork(b)'
    BY <1>2, <2>1 DEF Serial, Works, AtWork, ToClaim, Ready, FreeToClaim, ActiveTasks,
       Conflicting, ClaimHalf, DepsAccepted, ActiveOf, ToChange, ChangeHalf, Written, Agrees
  <2>4. AllIdle' /\ ~killed' => Valid'
    BY <1>2, <2>1 DEF Serial, AllIdle, Works, Valid, ActiveTasks, Conflicting
  <2> QED BY <1>2, <2>1, <2>2, <2>3, <2>4 DEF Serial, Works
<1>4. CASE \E a \in Agents, t \in Tasks :
              BeginClaim(a, t) \/ BeginHeartbeat(a, t) \/ BeginRelease(a, t)
  BY <1>2, <1>4, BeginsSerial
<1>5. CASE \E a \in Agents : BeginReconcile(a)
  BY <1>2, <1>5, BeginsSerial
<1>6. CASE \E a \in Agents : Archive(a) \/ WriteLease(a) \/ WriteTask(a)
  BY <1>2, <1>6, ArchiveSerial, WriteLeaseSerial, WriteTaskSerial
<1>7. CASE \E a \in Agents : Count(a) \/ AppendEvent(a) \/ Finish(a) \/ KillScript(a)
  BY <1>2, <1>7, CountSerial, AppendSerial, FinishSerial, KillSerial
<1>8. CASE \E t \in Tasks : LeaseExpires(t) \/ Decide(t)
  BY <1>2, <1>8, ExpirySerial, DecideSerial
<1> QED BY <1>3, <1>4, <1>5, <1>6, <1>7, <1>8 DEF LeaseNext

LEMMA InitLeaseInv == LeaseInit => LeaseInv
<1> SUFFICES ASSUME LeaseInit PROVE LeaseInv
  OBVIOUS
<1>1. /\ dependsOn \in Projects /\ task = [t \in Tasks |-> "approved"]
      /\ lease = [t \in Tasks |-> NoLease] /\ twice = {} /\ idsRepeat = FALSE
      /\ script = [a \in Agents |-> Idle] /\ late = {}
      /\ executes = [a \in Agents |-> {}] /\ lapsed = {} /\ overlaps = 0 /\ killed = FALSE
  BY DEF LeaseInit
<1>2. NoLease \in Lease /\ NoLease.status = "none"
  BY DEF NoLease, Lease
<1>3. \A a \in Agents : ~Works(a)
  BY <1>1 DEF Works, Idle
<1>4. Typed
  <2>1. task \in [Tasks -> TaskStatuses] /\ lease \in [Tasks -> Lease]
        /\ \A t \in Tasks : lease[t].status = "none"
    BY <1>1, <1>2 DEF TaskStatuses
  <2>2. script \in [Agents -> {Idle} \cup Script] /\ executes \in [Agents -> SUBSET Tasks]
    BY <1>1
  <2>3. overlaps \in 0..MaxOverlaps
    BY <1>1, LeaseConstants
  <2> QED BY <1>1, <1>3, <2>1, <2>2, <2>3 DEF Typed
<1>5. ActiveTasks = {}
  BY <1>1, <1>2 DEF ActiveTasks
<1>6. NoClash /\ WorksUnderLease /\ RunningHasDeps
  BY <1>1, <1>5 DEF NoClash, WorksUnderLease, RunningHasDeps
<1>7. Valid
  BY <1>1, <1>2, <1>5 DEF Valid
<1> QED BY <1>1, <1>3, <1>4, <1>6, <1>7 DEF LeaseInv, Serial

LEMMA InvGivesSound == LeaseInv => LeasesSound
<1> SUFFICES ASSUME LeaseInv PROVE LeasesSound
  OBVIOUS
<1>1. LeaseTypeOK
  <2>1. \A a \in Agents : Works(a) => script[a] \in Script
    BY WorkingScript DEF LeaseInv
  <2> QED BY <2>1 DEF LeaseInv, Typed, LeaseTypeOK, Script
<1>2. ScriptsLeaveValidState /\ DependenciesAccepted
  BY DEF LeaseInv, Serial, ScriptsLeaveValidState, DependenciesAccepted, RunningHasDeps,
         DepsAccepted
<1>3. OneOwner
  <2> SUFFICES ASSUME overlaps = 0, NEW a \in Agents, NEW b \in Agents,
                      NEW t \in executes[a], NEW u \in executes[b],
                      a # b, t = u \/ Conflicting(t, u),
                      <<a, t>> \notin lapsed, <<b, u>> \notin lapsed
               PROVE  FALSE
    BY DEF OneOwner
  <2>1. ActiveOf(a, t) /\ ActiveOf(b, u) /\ t \in Tasks /\ u \in Tasks
    BY DEF LeaseInv, Serial, WorksUnderLease, Typed
  <2>2. t # u
    BY <2>1 DEF ActiveOf
  <2>3. ~Conflicting(t, u)
    BY <2>1, <2>2 DEF LeaseInv, Serial, NoClash, ActiveOf, ActiveTasks
  <2> QED BY <2>2, <2>3
<1> QED BY <1>1, <1>2, <1>3 DEF LeasesSound

\* What lease-contract.md promises of the execution leases (lease_utils.py,
\* claim_task.py, heartbeat_task.py, release_task.py, reconcile_leases.py):
\* scripts that do not overlap leave a state the next one accepts unless one
\* was killed; even then no task and no conflicting paths have two agents at
\* work unless the expired lease of one was marked stale or another agent has
\* released it, and a running task has all its dependencies accepted.
THEOREM LeasesAreSound == LeaseSpec => []LeasesSound
<1>1. LeaseInit => LeaseInv
  BY InitLeaseInv
<1>2. LeaseInv /\ [LeaseNext]_leaseVars => LeaseInv'
  <2> SUFFICES ASSUME LeaseInv, [LeaseNext]_leaseVars PROVE LeaseInv'
    OBVIOUS
  <2>1. Typed'
    BY TypedStep DEF LeaseInv
  <2>2. overlaps' = 0 => Serial'
    BY SerialStep
  <2> QED BY <2>1, <2>2 DEF LeaseInv
<1>3. LeaseInv => LeasesSound
  BY InvGivesSound
<1> QED BY <1>1, <1>2, <1>3, PTL DEF LeaseSpec
=============================================================================
