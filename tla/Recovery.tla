------------------------------- MODULE Recovery -------------------------------
(***************************************************************************)
(* What a thread keeps across a crash of the wire process: the state file   *)
(* (harness/persistence.py), the points at which app/wire.py saves it, and  *)
(* the recovery scan at startup.  A save is atomic (temporary file, fsync,  *)
(* rename).  A handler first changes the session, then acknowledges, then   *)
(* saves, without suspending: between the change and the save nothing else  *)
(* runs, but the process can die.                                           *)
(***************************************************************************)
EXTENDS SessionOps

CONSTANT MaxCrashes   \* bound: crashes in one behaviour

ASSUME RecoveryConstants == MaxCrashes \in Nat

Delivery == {"auto", "immediate", "enqueue"}
Outcome  == {"completed", "cancelled", "failed"}

\* The persisted fields of harness_state.json that concern inputs and the Run.
Image == [marker   : Run \cup {NoRun},   \* active_run_id
          queue    : Seq(Message),
          pending  : Seq(Message),
          receipts : Seq(Message)]

VARIABLES
  proc,      \* the process: up, recovering (handoff not saved yet), down
  sess,      \* the session in memory
  disk,      \* the state file
  dirty,     \* a handler changed the session and has not saved it yet
  mail,      \* the runner's mailbox: immediates the Run has not read
  accepted,  \* inputs that were acknowledged
  given,     \* inputs a Run got, in order
  lost,      \* inputs a crash took before they were saved
  legacy,    \* inputs sent with the old "user" command
  repeated,  \* inputs a crash left on disk although a Run had got them
  used, outcome,  \* runs begun, and how each ended
  crashes

vars == <<proc, sess, disk, dirty, mail, accepted, given, lost, legacy,
          repeated, used, outcome, crashes>>

Waiting(s) == ToSet(s.queue) \cup ToSet(s.pending)

\* Mutant: the mailbox is not saved.
ImageWithoutPending(s) ==
  [marker |-> IF TerminalPhase(s.phase) THEN NoRun ELSE s.run,
   queue |-> s.queue, pending |-> <<>>, receipts |-> s.receipts]

\* _persist_thread_state: only a live run is the active-run marker.
ImageOf(s) ==
  [marker |-> IF TerminalPhase(s.phase) THEN NoRun ELSE s.run,
   queue |-> s.queue, pending |-> s.pending, receipts |-> s.receipts]

\* Mutants of the recovery scan: the immediates are dropped; the receipts are not
\* restored.
RestoredQueueOnly(d) ==
  [NewSession EXCEPT !.run = d.marker, !.queue = d.queue, !.receipts = Trim(d.receipts),
                     !.phase = IF d.marker = NoRun THEN "dormant" ELSE "interrupted"]
RestoredForgetting(d) ==
  [NewSession EXCEPT !.run = d.marker, !.queue = d.pending \o d.queue,
                     !.phase = IF d.marker = NoRun THEN "dormant" ELSE "interrupted"]

\* _recover_thread_states for one thread: the marker's run is interrupted, the
\* queued inputs come back behind the immediates, receipts are restored.
Restored(d) ==
  [AtHead([NewSession EXCEPT !.queue = d.queue], d.pending)
     EXCEPT !.run      = d.marker,
            !.phase    = IF d.marker = NoRun THEN "dormant" ELSE "interrupted",
            !.status   = IF d.marker = NoRun THEN "dormant" ELSE "idle",
            !.receipts = Trim(d.receipts)]

Init ==
  /\ proc = "up" /\ sess = NewSession /\ disk = ImageOf(NewSession) /\ dirty = FALSE
  /\ mail = <<>> /\ accepted = {} /\ given = <<>> /\ lost = {}
  /\ legacy = {} /\ repeated = {}
  /\ used = {} /\ outcome = [r \in Run |-> "none"] /\ crashes = 0

-----------------------------------------------------------------------------
Free == proc = "up" /\ ~dirty

\* input/send: route, acknowledge; the save comes next.  An id that is already
\* accounted for has its receipt replayed.
Send(m, d) ==
  /\ Free /\ ~Accounted(sess, m) /\ m \notin accepted
  /\ sess' = Routed(sess, m, d)
  /\ mail' = IF RoutedToPending(sess, d) THEN Append(mail, m) ELSE mail
  /\ accepted' = accepted \cup {m}
  /\ dirty' = TRUE
  /\ UNCHANGED <<proc, disk, given, lost, legacy, repeated, used, outcome, crashes>>

\* A client that retries an id it sent before.
Retry(m, d) ==
  /\ Free /\ m \in accepted /\ ~Accounted(sess, m)
  /\ sess' = Routed(sess, m, d)
  /\ mail' = IF RoutedToPending(sess, d) THEN Append(mail, m) ELSE mail
  /\ repeated' = repeated \cup (ToSet(given) \cap {m})
  /\ lost' = lost \ {m} /\ legacy' = legacy \ {m}
  /\ dirty' = TRUE
  /\ UNCHANGED <<proc, disk, accepted, given, used, outcome, crashes>>

\* The old "user" command during a Run: enqueued and acknowledged, never saved.
SendLegacy(m) ==
  /\ Free /\ HasActiveRun(sess)
  /\ m \notin accepted /\ ~Accounted(sess, m)
  /\ sess' = Enqueued(sess, m)
  /\ accepted' = accepted \cup {m} /\ legacy' = legacy \cup {m}
  /\ UNCHANGED <<proc, disk, dirty, mail, given, lost, repeated, used, outcome,
                 crashes>>

\* The creation flow of a Run; the marker is saved before the turn starts.
Start(r, rn) ==
  /\ Free /\ r \notin used /\ ~HasActiveRun(sess) /\ CanStart(sess)
  /\ sess' = Started(sess, r, rn)
  /\ given' = Append(given, Head(sess.queue))
  /\ used' = used \cup {r}
  /\ dirty' = TRUE
  /\ UNCHANGED <<proc, disk, mail, accepted, lost, legacy, repeated, outcome,
                 crashes>>

\* A checkpoint: the Run reads its mailbox.  Nothing is saved: the inputs stay in
\* pending_immediate until the Run ends.
ReadMail ==
  /\ Free /\ HasActiveRun(sess) /\ mail # <<>>
  /\ given' = given \o mail /\ mail' = <<>>
  /\ UNCHANGED <<proc, sess, disk, dirty, accepted, lost, legacy, repeated,
                 used, outcome, crashes>>

\* The end of the Run: settle, terminal transition; the save comes last.
EndRun(o) ==
  LET r == sess.run
      s == [AtHead(sess, UnreadOf(sess, ToSet(mail))) EXCEPT !.pending = <<>>]
  IN  /\ Free /\ HasActiveRun(sess)
      /\ sess' = Ended(s, o) /\ mail' = <<>>
      /\ outcome' = [outcome EXCEPT ![r] = o]
      /\ dirty' = TRUE
      /\ UNCHANGED <<proc, disk, accepted, given, lost, legacy, repeated, used,
                     crashes>>

\* save_thread_state
Save ==
  /\ proc = "up" /\ dirty
  /\ disk' = ImageOf(sess) /\ dirty' = FALSE
  /\ UNCHANGED <<proc, sess, mail, accepted, given, lost, legacy, repeated,
                 used, outcome, crashes>>

\* The process dies.
Crash ==
  /\ proc # "down" /\ crashes < MaxCrashes
  /\ proc' = "down" /\ dirty' = FALSE /\ mail' = <<>> /\ crashes' = crashes + 1
  /\ sess' = NewSession
  /\ lost' = lost \cup (Waiting(sess) \ (Waiting(disk) \cup ToSet(given)))
  /\ repeated' = repeated \cup (ToSet(given) \cap Waiting(disk))
  /\ UNCHANGED <<disk, accepted, given, legacy, used, outcome>>

\* Restart: the state file is loaded ...
Recover ==
  /\ proc = "down"
  /\ proc' = "recovering"
  /\ sess' = Restored(disk)
  /\ outcome' = IF disk.marker = NoRun THEN outcome
                ELSE [outcome EXCEPT ![disk.marker] = "interrupted"]
  /\ UNCHANGED <<disk, dirty, mail, accepted, given, lost, legacy, repeated,
                 used, crashes>>

\* ... and what was restored is saved back before any command is read.
Handoff ==
  /\ proc = "recovering"
  /\ proc' = "up"
  /\ disk' = [ImageOf(sess) EXCEPT !.marker = NoRun]
  /\ UNCHANGED <<sess, dirty, mail, accepted, given, lost, legacy, repeated,
                 used, outcome, crashes>>

Next ==
  \/ \E m \in Message, d \in Delivery : Send(m, d) \/ Retry(m, d)
  \/ \E m \in Message : SendLegacy(m)
  \/ \E r \in Run, rn \in Runner : Start(r, rn)
  \/ \E o \in Outcome : EndRun(o)
  \/ ReadMail \/ Save \/ Crash \/ Recover \/ Handoff

Spec == Init /\ [][Next]_vars

-----------------------------------------------------------------------------
\* Every variable has its type, and the receipt history its bound.
TypeOK ==
  /\ proc \in {"up", "recovering", "down"}
  /\ sess \in Session /\ disk \in Image /\ dirty \in BOOLEAN
  /\ mail \in Seq(Message) /\ given \in Seq(Message)
  /\ {accepted, lost, legacy, repeated} \subseteq SUBSET Message
  /\ used \subseteq Run /\ crashes \in 0..MaxCrashes
  /\ outcome \in [Run -> Outcome \cup {"none", "interrupted"}]
  /\ Len(sess.receipts) <= ReceiptLimit

\* An acknowledged input waits, was given to a Run, or is one of those a crash
\* took before the save -- whatever crashes and recoveries happen.
AcceptedAccounted ==
  accepted = lost \cup ToSet(given) \cup
               (IF proc = "down" THEN Waiting(disk) ELSE Waiting(sess))

\* Between two handlers the inputs of the current protocol that wait in memory are
\* on disk in the same order, so a crash loses only the input whose command was
\* being handled -- and inputs of the old "user" command.
Current(q) == Only(q, Message \ legacy)
AckedIsDurable ==
  proc = "up" /\ ~dirty =>
    Current(sess.queue) = Current(disk.queue) /\ sess.pending = disk.pending

\* The state file is behind in one way only: it still lists immediates that the
\* live Run has read but not settled.
OnlyUnsettledRepeat ==
  proc = "up" /\ ~dirty =>
    Waiting(disk) \cap ToSet(given) \subseteq ToSet(sess.pending) \cup repeated

\* No input waits twice, before or after a recovery.
WaitsOnce == IsInjective(sess.queue \o sess.pending) /\ IsInjective(disk.queue \o disk.pending)

\* An acknowledged input waits once, was given to a Run, or is one of those a
\* crash took before the save, through any number of crashes and recoveries.
InputsAccounted == AcceptedAccounted /\ WaitsOnce

\* Between two handlers the state file names the live Run, so that a crash marks
\* it interrupted, and names no Run that is over.
LiveRunMarked ==
  proc = "up" /\ ~dirty =>
    disk.marker = IF HasActiveRun(sess) THEN sess.run ELSE NoRun

\* Between two handlers the state file has what a crash must not take, the
\* waiting inputs in their order and the live Run, and lists nothing that was
\* given but what the live Run has not settled (_persist_thread_state).
StateFileCurrent == AckedIsDurable /\ LiveRunMarked /\ OnlyUnsettledRepeat

\* As long as the receipt history is large enough a retry is recognised, also
\* after a restart and after a Run has consumed the input.
RetriesRecognised ==
  proc = "up" /\ Cardinality(accepted) <= ReceiptLimit =>
    \A m \in accepted \ lost : Accounted(sess, m)

\* A Run that finished is not restored as one that the process died in.
FinishedStaysFinished ==
  [][\A r \in Run : outcome[r] \in Outcome => outcome'[r] = outcome[r]]_vars

=============================================================================
