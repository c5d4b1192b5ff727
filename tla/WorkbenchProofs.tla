-------------------------- MODULE WorkbenchProofs --------------------------
(***************************************************************************)
(* What holds of the parts a Run works with, for every project, every set  *)
(* of processes and commands, and every store of file contents: what a     *)
(* research project lets through (ProjectGates), what commands and starts  *)
(* leave of the settings (Settings), what a Run tells of the files it      *)
(* changed (NetChanges), what the turns of a runner make of a skill        *)
(* (SkillTurns), and what two processes that install skills leave          *)
(* (SkillPanel).  Each part has an inductive invariant of its own; the     *)
(* properties the run checks follow from it.                               *)
(***************************************************************************)
EXTENDS ProjectGates, SkillTurns, SkillPanel, Settings, NetChanges, FiniteSetTheorems,
        SequenceTheorems, TLAPS

-----------------------------------------------------------------------------
(* The changes of a Run *)

\* What the variables hold; the call in hand is one of a known file.
ChangesTypeOK ==
    /\ files \in [Paths -> Contents \cup {Absent}]
    /\ doing \in {Between, "run", "tool", "after", "raise", "flush"}
    /\ invalid \subseteq Paths
    /\ baseline \in [Paths -> Contents \cup {Absent, NoSnapshot}]
    /\ current \in [Paths -> Contents \cup {Absent, NoSnapshot}]
    /\ lastCall \in [Paths -> Nat] /\ callsOf \in [Paths -> SUBSET Nat]
    /\ first \in [Paths -> Contents \cup {Absent, NoSnapshot}]
    /\ last \in [Paths -> Contents \cup {Absent, NoSnapshot}]
    /\ made \in Nat /\ run \in Nat

InCall == doing \in {"tool", "after", "raise"}

\* A call is in hand exactly between its two snapshots.
CallInHand ==
    InCall => call \in [id : Nat, path : Paths, before : Contents \cup {Absent, Failed}, good : BOOLEAN]

\* A file the tracker has not heard of has no history either, up to the call
\* in hand; only a cancelled Run leaves a history the tracker does not have.
TrackedTogether(p) ==
    /\ baseline[p] = NoSnapshot <=> last[p] = NoSnapshot
    /\ doing = "run" \/ (InCall /\ p /= call.path) => (baseline[p] = NoSnapshot => first[p] = NoSnapshot)

\* The snapshot before the first call of a file is the file's first state.
FirstSeen ==
    InCall => /\ first[call.path] /= NoSnapshot
              /\ baseline[call.path] = NoSnapshot /\ call.before /= Failed => call.before = first[call.path]

\* A tracked file without an inexact change: both ends are what they were.
EndsTrue(p) ==
    baseline[p] /= NoSnapshot =>
       /\ p \notin invalid => baseline[p] = first[p] /\ current[p] = last[p]
       /\ lastCall[p] \in callsOf[p]

\* The reports are those of the Run that has ended, and of no other.
ReportsOfRun ==
    doing /= Between => reports = {}

ChangesInv ==
    /\ ChangesTypeOK /\ CallInHand /\ FirstSeen /\ ReportsOfRun
    /\ \A p \in Paths : TrackedTogether(p) /\ EndsTrue(p)
    /\ ChangesSound

LEMMA ChangesStart == ChangesInit => ChangesInv
<1> SUFFICES ASSUME ChangesInit PROVE ChangesInv
  OBVIOUS
<1>1. ChangesTypeOK
  BY DEF ChangesInit, ChangesTypeOK, Contents
<1>2. CallInHand /\ FirstSeen /\ ReportsOfRun
  BY DEF ChangesInit, CallInHand, FirstSeen, InCall, Between, ReportsOfRun
<1>3. \A p \in Paths : TrackedTogether(p) /\ EndsTrue(p)
  BY DEF ChangesInit, TrackedTogether, EndsTrue, InCall, Between
<1>4. ChangesSound
  BY DEF ChangesInit, ChangesSound, ExactIsTrue, ChangedIsTold, ExactIsResolvable, OwnCall, Told
<1> QED
  BY <1>1, <1>2, <1>3, <1>4 DEF ChangesInv

\* The parts of ChangesSound speak of the reports, the histories and the store only.
LEMMA SoundStays ==
    ASSUME ChangesSound, UNCHANGED <<reports, first, last, callsOf, unseen, blobs>>,
           Told' => Told
    PROVE  ChangesSound'
BY DEF ChangesSound, ExactIsTrue, ChangedIsTold, ExactIsResolvable, OwnCall, Report, Resolvable

\* Without reports and with a Run at work there is nothing to be sound about.
LEMMA SoundWithout ==
    ASSUME reports' = {}, doing' /= Between
    PROVE  ChangesSound'
BY DEF ChangesSound, ExactIsTrue, ChangedIsTold, ExactIsResolvable, OwnCall, Told

LEMMA BeginsKeeps == ChangesInv /\ RunBegins => ChangesInv'
<1> SUFFICES ASSUME ChangesInv, RunBegins PROVE ChangesInv'
  OBVIOUS
<1>1. ChangesTypeOK'
  BY DEF ChangesInv, ChangesTypeOK, RunBegins
<1>2. CallInHand' /\ FirstSeen' /\ ReportsOfRun'
  BY DEF RunBegins, CallInHand, FirstSeen, InCall, ReportsOfRun
<1>3. \A p \in Paths : TrackedTogether(p)' /\ EndsTrue(p)'
  BY DEF RunBegins, TrackedTogether, EndsTrue, InCall
<1>4. ChangesSound'
  BY SoundWithout DEF RunBegins, Between
<1> QED
  BY <1>1, <1>2, <1>3, <1>4 DEF ChangesInv

LEMMA CaptureKeeps == ChangesInv /\ (\E p \in Paths : CaptureBefore(p)) => ChangesInv'
<1> SUFFICES ASSUME ChangesInv, NEW p \in Paths, CaptureBefore(p) PROVE ChangesInv'
  OBVIOUS
<1> PICK snap \in {files[p], Failed} :
       call' = [id |-> made + 1, path |-> p, before |-> snap, good |-> TRUE]
  BY DEF CaptureBefore
<1>0. /\ files[p] \in Contents \cup {Absent} /\ files[p] /= NoSnapshot
      /\ first' = [first EXCEPT ![p] = IF @ = NoSnapshot THEN files[p] ELSE @]
      /\ doing = "run" /\ doing' = "tool" /\ reports' = reports
      /\ UNCHANGED <<baseline, current, invalid, lastCall, last, callsOf, unseen, run, files>>
  BY StoreContents DEF CaptureBefore, tracker, ChangesInv, ChangesTypeOK, NoSnapshot, Absent
<1>1. ChangesTypeOK'
  BY <1>0 DEF ChangesInv, ChangesTypeOK, CaptureBefore
<1>2. CallInHand'
  BY <1>0 DEF ChangesInv, ChangesTypeOK, CallInHand, InCall
<1>3. ReportsOfRun'
  BY <1>0 DEF ChangesInv, ReportsOfRun, Between
<1>4. FirstSeen'
  <2>1. first'[p] /= NoSnapshot
    BY <1>0 DEF ChangesInv, ChangesTypeOK
  <2>2. baseline[p] = NoSnapshot => first'[p] = files[p]
    BY <1>0 DEF ChangesInv, TrackedTogether, ChangesTypeOK
  <2> QED
    BY <1>0, <2>1, <2>2 DEF FirstSeen
<1>5. ASSUME NEW q \in Paths PROVE TrackedTogether(q)' /\ EndsTrue(q)'
  <2>1. TrackedTogether(q)'
    BY <1>0 DEF ChangesInv, TrackedTogether, ChangesTypeOK, InCall
  <2>2. EndsTrue(q)'
    BY <1>0 DEF ChangesInv, EndsTrue, ChangesTypeOK
  <2> QED
    BY <2>1, <2>2
<1>6. ChangesSound'
  BY <1>0, SoundWithout DEF ChangesInv, ReportsOfRun, Between
<1> QED
  BY <1>1, <1>2, <1>3, <1>4, <1>5, <1>6 DEF ChangesInv

\* What the tool does to the file is nothing the tracker has seen yet.
ToolDone ==
    /\ doing = "tool" /\ doing' \in {"after", "raise"}
    /\ files' \in [Paths -> Contents \cup {Absent}]
    /\ call' \in {call, [call EXCEPT !.good = FALSE]}
    /\ UNCHANGED <<run, tracker, blobs, reports, made, changeHistory>>

LEMMA ToolKeeps == ChangesInv /\ ToolDone => ChangesInv'
<1> SUFFICES ASSUME ChangesInv, ToolDone PROVE ChangesInv'
  OBVIOUS
<1> USE DEF ToolDone, tracker, changeHistory
<1>0. /\ InCall /\ InCall' /\ CallInHand' /\ call'.path = call.path /\ call'.before = call.before
  BY DEF ChangesInv, CallInHand, InCall
<1>1. ChangesTypeOK'
  BY DEF ChangesInv, ChangesTypeOK
<1>2. ReportsOfRun' /\ FirstSeen'
  BY <1>0 DEF ChangesInv, FirstSeen, ReportsOfRun, Between
<1>3. ASSUME NEW q \in Paths PROVE TrackedTogether(q)' /\ EndsTrue(q)'
  BY <1>0 DEF ChangesInv, TrackedTogether, EndsTrue, InCall
<1>4. ChangesSound'
  BY SoundWithout DEF ChangesInv, ReportsOfRun, Between
<1> QED
  BY <1>0, <1>1, <1>2, <1>3, <1>4 DEF ChangesInv

LEMMA ToolIsDone ==
    ASSUME ChangesInv,
           \/ \E c \in Contents : ToolWrites(c)
           \/ \E c \in Contents \cup {Absent} : ToolFails(c) \/ ToolCancelled(c)
    PROVE  ToolDone
BY DEF ChangesInv, ChangesTypeOK, ToolWrites, ToolFails, ToolCancelled, ToolDone, tracker, changeHistory

LEMMA AfterKeeps == ChangesInv /\ CaptureAfter => ChangesInv'
<1> SUFFICES ASSUME ChangesInv, CaptureAfter PROVE ChangesInv'
  OBVIOUS
<1> PICK snap \in {files[call.path], Failed} :
       Track(call, snap, call.good /\ call.before /= Failed /\ snap /= Failed)
  BY DEF CaptureAfter
<1> DEFINE p == call.path
           exact == call.good /\ call.before /= Failed /\ snap /= Failed
<1>0. /\ InCall /\ doing' \in {"run", "flush"} /\ reports' = reports
      /\ call \in [id : Nat, path : Paths, before : Contents \cup {Absent, Failed}, good : BOOLEAN]
      /\ p \in Paths /\ files[p] \in Contents \cup {Absent}
      /\ UNCHANGED <<files, first, unseen, run, made>>
  BY DEF CaptureAfter, InCall, ChangesInv, CallInHand, ChangesTypeOK
<1>1. /\ SnapshotOf(call.before) \in Contents \cup {Absent} /\ SnapshotOf(snap) \in Contents \cup {Absent}
      /\ exact => SnapshotOf(call.before) = call.before /\ SnapshotOf(snap) = files[p]
  BY <1>0 DEF SnapshotOf
<1>2. /\ invalid' = IF exact THEN invalid ELSE invalid \cup {p}
      /\ baseline' = [baseline EXCEPT ![p] = IF @ = NoSnapshot THEN SnapshotOf(call.before) ELSE @]
      /\ current' = [current EXCEPT ![p] = SnapshotOf(snap)]
      /\ lastCall' = [lastCall EXCEPT ![p] = call.id]
      /\ last' = [last EXCEPT ![p] = files[p]]
      /\ callsOf' = [callsOf EXCEPT ![p] = @ \cup {call.id}]
  BY DEF Track
<1>3. NoSnapshot \notin Contents \cup {Absent}
  BY StoreContents DEF NoSnapshot, Absent
<1>4. first[p] /= NoSnapshot
      /\ (baseline[p] = NoSnapshot /\ call.before /= Failed => call.before = first[p])
  BY <1>0 DEF ChangesInv, FirstSeen
<1> HIDE DEF p, exact
<1>5. ChangesTypeOK'
  <2>1. call.id \in Nat
    BY <1>0
  <2> QED
    BY <2>1, <1>0, <1>1, <1>2 DEF ChangesInv, ChangesTypeOK
<1>6. CallInHand' /\ FirstSeen' /\ ReportsOfRun'
  BY <1>0 DEF CallInHand, FirstSeen, InCall, ReportsOfRun, ChangesInv, Between
<1>7. ASSUME NEW q \in Paths PROVE TrackedTogether(q)' /\ EndsTrue(q)'
  <2> ChangesTypeOK /\ TrackedTogether(q) /\ EndsTrue(q)
    BY DEF ChangesInv
  <2>1. CASE q = p
    <3>1. baseline'[q] /= NoSnapshot /\ last'[q] /= NoSnapshot
      BY <2>1, <1>0, <1>1, <1>2, <1>3 DEF ChangesTypeOK
    <3>2. lastCall'[q] \in callsOf'[q]
      BY <2>1, <1>0, <1>2 DEF ChangesTypeOK
    <3>3. q \notin invalid' => baseline'[q] = first'[q] /\ current'[q] = last'[q]
      <4> SUFFICES ASSUME q \notin invalid' PROVE baseline'[q] = first'[q] /\ current'[q] = last'[q]
        OBVIOUS
      <4>1. exact /\ q \notin invalid
        BY <1>2, <2>1
      <4>2. current'[q] = last'[q]
        BY <4>1, <2>1, <1>0, <1>1, <1>2 DEF ChangesTypeOK
      <4>3. baseline'[q] = first[q]
        <5>1. CASE baseline[q] = NoSnapshot
          BY <5>1, <4>1, <2>1, <1>0, <1>1, <1>2, <1>4 DEF ChangesTypeOK, exact
        <5>2. CASE baseline[q] /= NoSnapshot
          BY <5>2, <4>1, <2>1, <1>0, <1>2 DEF ChangesTypeOK, EndsTrue
        <5> QED
          BY <5>1, <5>2
      <4> QED
        BY <4>2, <4>3, <1>0
    <3> QED
      BY <3>1, <3>2, <3>3 DEF TrackedTogether, EndsTrue
  <2>2. CASE q /= p
    <3>1. /\ baseline'[q] = baseline[q] /\ current'[q] = current[q] /\ last'[q] = last[q]
          /\ lastCall'[q] = lastCall[q] /\ callsOf'[q] = callsOf[q] /\ (q \in invalid' <=> q \in invalid)
      BY <2>2, <1>0, <1>2 DEF ChangesTypeOK
    <3>2. EndsTrue(q)'
      BY <3>1, <1>0 DEF EndsTrue
    <3>3. TrackedTogether(q)'
      BY <3>1, <1>0, <2>2 DEF TrackedTogether, InCall, p
    <3> QED
      BY <3>2, <3>3
  <2> QED
    BY <2>1, <2>2
<1>8. ChangesSound'
  BY <1>0, SoundWithout DEF ChangesInv, ReportsOfRun, Between, InCall
<1> QED
  BY <1>5, <1>6, <1>7, <1>8 DEF ChangesInv

\* A cancelled snapshot, the end of a Run, and what others write: the tracker stays.
LEMMA CancelledKeeps == ChangesInv /\ CaptureCancelled => ChangesInv'
<1> SUFFICES ASSUME ChangesInv, CaptureCancelled PROVE ChangesInv'
  OBVIOUS
<1>1. ChangesTypeOK'
  BY DEF ChangesInv, ChangesTypeOK, CaptureCancelled, tracker
<1>2. CallInHand' /\ FirstSeen' /\ ReportsOfRun'
  BY DEF ChangesInv, CaptureCancelled, CallInHand, FirstSeen, InCall, ReportsOfRun, Between
<1>3. \A q \in Paths : TrackedTogether(q)' /\ EndsTrue(q)'
  BY DEF ChangesInv, CaptureCancelled, TrackedTogether, EndsTrue, InCall, tracker
<1>4. ChangesSound'
  BY SoundWithout DEF ChangesInv, CaptureCancelled, ReportsOfRun, Between
<1> QED
  BY <1>1, <1>2, <1>3, <1>4 DEF ChangesInv

LEMMA EndsKeeps == ChangesInv /\ RunEnds => ChangesInv'
<1> SUFFICES ASSUME ChangesInv, RunEnds PROVE ChangesInv'
  OBVIOUS
<1> USE DEF RunEnds, tracker, changeHistory
<1>1. ChangesTypeOK'
  BY DEF ChangesInv, ChangesTypeOK
<1>2. CallInHand' /\ FirstSeen' /\ ReportsOfRun'
  BY DEF ChangesInv, CallInHand, FirstSeen, InCall, ReportsOfRun, Between
<1>3. \A q \in Paths : TrackedTogether(q)' /\ EndsTrue(q)'
  BY DEF ChangesInv, TrackedTogether, EndsTrue, InCall
<1>4. ChangesSound'
  BY SoundWithout DEF ChangesInv, ReportsOfRun, Between
<1> QED
  BY <1>1, <1>2, <1>3, <1>4 DEF ChangesInv

LEMMA OthersKeep ==
    ChangesInv /\ (\E p \in Paths, c \in Texts \cup {Absent} : ChangesUntracked(p, c)) => ChangesInv'
<1> SUFFICES ASSUME ChangesInv, NEW p \in Paths, NEW c \in Texts \cup {Absent}, ChangesUntracked(p, c)
             PROVE ChangesInv'
  OBVIOUS
<1> USE DEF ChangesUntracked, tracker, changeHistory
<1>1. ChangesTypeOK'
  BY DEF ChangesInv, ChangesTypeOK, Contents
<1>2. CallInHand' /\ FirstSeen' /\ ReportsOfRun'
  BY DEF ChangesInv, CallInHand, FirstSeen, InCall, ReportsOfRun
<1>3. \A q \in Paths : TrackedTogether(q)' /\ EndsTrue(q)'
  BY DEF ChangesInv, TrackedTogether, EndsTrue, InCall
<1>4. ChangesSound'
  BY SoundStays DEF ChangesInv, Told
<1> QED
  BY <1>1, <1>2, <1>3, <1>4 DEF ChangesInv

LEMMA FlushKeeps == ChangesInv /\ Flush => ChangesInv'
<1> SUFFICES ASSUME ChangesInv, Flush PROVE ChangesInv'
  OBVIOUS
<1> USE DEF tracker, changeHistory
<1>0. /\ doing' = Between
      /\ UNCHANGED <<files, run, call, baseline, current, invalid, lastCall, blobs, made, first, last, callsOf, unseen>>
  BY DEF Flush
<1>1. ChangesTypeOK'
  BY <1>0 DEF ChangesInv, ChangesTypeOK
<1>2. CallInHand' /\ FirstSeen' /\ ReportsOfRun'
  BY <1>0 DEF CallInHand, FirstSeen, InCall, ReportsOfRun, Between
<1>3. \A q \in Paths : TrackedTogether(q)' /\ EndsTrue(q)'
  BY <1>0 DEF ChangesInv, TrackedTogether, EndsTrue, InCall, Between
<1>4. \A r \in reports' : \E p \in Paths : r = Net(p) /\ baseline[p] /= NoSnapshot
  BY DEF Flush
<1>5. ASSUME NEW r \in reports'
      PROVE  /\ r.exact => r.before = first[r.path] /\ r.after = last[r.path]
             /\ r.exact => Resolvable(blobs, r.before) /\ Resolvable(blobs, r.after)
             /\ r.call \in callsOf[r.path]
  <2> PICK p \in Paths : r = Net(p) /\ baseline[p] /= NoSnapshot
    BY <1>4
  <2>1. EndsTrue(p)
    BY DEF ChangesInv
  <2>2. /\ r.path = p /\ r.before = baseline[p] /\ r.after = current[p] /\ r.call = lastCall[p]
        /\ r.exact => p \notin invalid /\ Resolvable(blobs, baseline[p]) /\ Resolvable(blobs, current[p])
    BY DEF Net
  <2> QED
    BY <2>1, <2>2 DEF EndsTrue
<1>6. ASSUME NEW p \in Paths, last[p] /= NoSnapshot, first[p] /= last[p]
      PROVE  \E r \in reports' : r.path = p
  <2>1. TrackedTogether(p) /\ EndsTrue(p)
    BY DEF ChangesInv
  <2>2. baseline[p] /= NoSnapshot
    BY <1>6, <2>1 DEF TrackedTogether
  <2>3. ~(Net(p).exact /\ baseline[p] = current[p])
    <3> SUFFICES ASSUME Net(p).exact, baseline[p] = current[p] PROVE FALSE
      OBVIOUS
    <3>1. p \notin invalid
      BY DEF Net
    <3> QED
      BY <3>1, <2>1, <2>2, <1>6 DEF EndsTrue
  <2>4. Net(p) \in reports'
    BY <2>2, <2>3 DEF Flush
  <2>5. Net(p).path = p
    BY DEF Net
  <2> QED
    BY <2>4, <2>5
<1>7. ChangesSound'
  BY <1>0, <1>5, <1>6 DEF ChangesSound, ExactIsTrue, ChangedIsTold, ExactIsResolvable, OwnCall, Report
<1> QED
  BY <1>1, <1>2, <1>3, <1>7 DEF ChangesInv

LEMMA ChangesStutter == ChangesInv /\ UNCHANGED changeVars => ChangesInv'
BY DEF changeVars, ChangesInv, ChangesTypeOK, CallInHand, FirstSeen, InCall, ReportsOfRun, TrackedTogether,
       EndsTrue, ChangesSound, ExactIsTrue, ChangedIsTold, ExactIsResolvable, OwnCall, Report, Told, Resolvable

\* An exact change is what happened to the file from the Run's first write to its last,
\* it is told whenever a recorded call changed the file, its contents can be had, and it
\* is put down to a call of this Run (harness/mutations.py MutationTracker).
THEOREM ChangesAreSound == ChangesSpec => []ChangesSound
<1>1. ChangesInv /\ [ChangesNext]_changeVars => ChangesInv'
  BY BeginsKeeps, CaptureKeeps, ToolKeeps, ToolIsDone, AfterKeeps, CancelledKeeps, EndsKeeps, OthersKeep,
     FlushKeeps, ChangesStutter DEF ChangesNext
<1>2. ChangesInv => ChangesSound
  BY DEF ChangesInv
<1> QED
  BY ChangesStart, <1>1, <1>2, PTL DEF ChangesSpec

-----------------------------------------------------------------------------
(* The gates of a project *)

\* A recommended task as the project made of a proposal's recommendation: the
\* number it has says which one it is.
MadeFrom(n, out, sound) ==
    LET i == n - FirstFollowUp + 1
    IN  i \in DOMAIN payload /\ out = payload[i].out /\ (sound <=> payload[i].sound)

\* What the variables hold, beyond GateTypeOK.
GateShapes ==
    /\ GateTypeOK
    /\ DOMAIN gateFile = Gates
    /\ DOMAIN followUp = Numbers
    /\ \A n \in FollowUps : followUp[n] = [status |-> followUp[n].status, out |-> followUp[n].out,
                                           sound |-> followUp[n].sound]

\* A script that rewrites the rows has a decision on file for what it writes.
RowsDecided ==
    hand.at = "rows" =>
       /\ hand.on \in Arts /\ hand.outcome \in {"none", "addresses", "needs-follow-up"}
       /\ hand.to \in {"draft", "validated", "accepted", "rejected"}
       /\ hand.to = "accepted" =>
             \/ <<"acceptance", hand.on, "accepted">> \in decisions
             \/ hand.on = "claim" /\ \E d \in decisions : d[1] = "claim-classification"

\* A script that makes tasks has at least one left to make.
TasksLeft ==
    hand.at = "tasks" =>
       /\ hand = [at |-> "tasks", todo |-> hand.todo, then |-> hand.then]
       /\ hand.todo \in Seq({hand.todo[i] : i \in 1..Len(hand.todo)}) /\ hand.todo /= <<>>
       /\ \A i \in 1..Len(hand.todo) : hand.todo[i].id \in Numbers

\* The tasks that were made and those in hand come from one recommendation each.
OnceEach ==
    Clean(payload) /\ reruns = 0 =>
       /\ \A n \in FollowUps : MadeFrom(n, followUp[n].out, followUp[n].sound)
       /\ hand.at = "tasks" => \A i \in 1..Len(hand.todo) :
                                  MadeFrom(hand.todo[i].id, hand.todo[i].out, hand.todo[i].sound)

GateInv == /\ GateShapes /\ RowsDecided /\ TasksLeft /\ OnceEach
           /\ AcceptedIsDecided /\ PassedVerdictsStand /\ ReportsSettled
LEMMA GateStart == GateInit => GateInv
<1> SUFFICES ASSUME GateInit PROVE GateInv
  OBVIOUS
<1> USE DEF GateInit
<1>1. FollowUps = {}
  BY DEF FollowUps
<1>2. GateTypeOK
  <2>1. kills \in 0..MaxKills /\ reruns \in 0..1
    BY GateConstants
  <2>2. hand.at = "idle"
    BY DEF NoScript
  <2> QED
    BY <2>1, <2>2 DEF GateTypeOK
<1>3. GateShapes
  BY <1>1, <1>2 DEF GateShapes
<1>4. RowsDecided /\ TasksLeft /\ OnceEach
  BY <1>1 DEF RowsDecided, TasksLeft, OnceEach, NoScript
<1>5. AcceptedIsDecided /\ PassedVerdictsStand /\ ReportsSettled
  BY DEF AcceptedIsDecided, PassedVerdictsStand, ReportsSettled
<1> QED
  BY <1>3, <1>4, <1>5 DEF GateInv

\* What no step changes: the project and its proposal; decisions are never taken back.
LEMMA ProjectStays == GateNext => arts' = arts /\ payload' = payload /\ decisions \subseteq decisions'
BY DEF GateNext, Register, WriteVerdict, BeginAccept, BeginClassify, Waive, FollowUpEnds, GuideChanges,
       WriteRows, Scaffold, WriteTaskFile, PreSubmit, PreReportBlocked, PreReportPasses, KillScript

\* The tasks a proposal without numbers gets are numbered on from the first free number.
LEMMA NumberedFromFirst ==
    ASSUME GateInv, Scaffoldable
    PROVE  /\ Numbered \in Seq({Numbered[i] : i \in 1..Len(Numbered)}) /\ Numbered /= <<>>
           /\ \A i \in 1..Len(Numbered) : Numbered[i].id \in Numbers
           /\ Clean(payload) /\ FollowUps = {} =>
                \A i \in 1..Len(Numbered) : MadeFrom(Numbered[i].id, Numbered[i].out, Numbered[i].sound)
<1>1. payload \in Payloads
  BY DEF GateInv, GateShapes, GateTypeOK
<1>2. payload \in Seq({payload[i] : i \in DOMAIN payload})
  BY <1>1, GateInputs
<1>3. DOMAIN payload = 1..Len(payload) /\ Len(payload) \in Nat \ {0}
  BY <1>2 DEF Scaffoldable
<1>4. DOMAIN Numbered = 1..Len(payload)
  BY <1>3 DEF Numbered
<1>5. /\ Len(Numbered) = Len(payload) /\ Numbered /= <<>>
      /\ Numbered \in Seq({Numbered[i] : i \in 1..Len(Numbered)})
  <2>1. Numbered \in Seq({Numbered[i] : i \in 1..Len(payload)})
    BY <1>3, <1>4 DEF Numbered
  <2>2. Len(Numbered) = Len(payload)
    BY <2>1, <1>3, <1>4
  <2> QED
    BY <2>1, <2>2, <1>3
<1>6. \A i \in 1..Len(payload) : Numbered[i].id \in Numbers
  BY <1>3 DEF Scaffoldable
<1>7. ASSUME Clean(payload), FollowUps = {}, NEW i \in 1..Len(payload)
      PROVE  MadeFrom(Numbered[i].id, Numbered[i].out, Numbered[i].sound)
  <2>1. i \in DOMAIN payload /\ payload[i].id = 0
    BY <1>3, <1>7 DEF Clean
  <2>2. {j \in 1..(i - 1) : payload[j].id = 0} = 1..(i - 1)
    BY <1>3, <1>7 DEF Clean
  <2>3. Cardinality(1..(i - 1)) = i - 1
    BY FS_Interval, <1>3
  <2>4. NumberOf(FollowUps, i) = FirstFollowUp + (i - 1)
    BY <2>1, <2>2, <2>3, <1>7 DEF NumberOf, NextNumber
  <2>5. Numbered[i] = [payload[i] EXCEPT !.id = NumberOf(FollowUps, i)]
    BY <1>3 DEF Numbered
  <2>6. Numbered[i].out = payload[i].out /\ (Numbered[i].sound <=> payload[i].sound)
    BY <2>5
  <2>7. Numbered[i].id = FirstFollowUp + (i - 1)
    BY <2>4, <2>5
  <2>8. Numbered[i].id - FirstFollowUp + 1 = i
    BY <2>7, GateConstants
  <2> QED
    BY <2>1, <2>6, <2>8 DEF MadeFrom
<1> QED
  BY <1>3, <1>4, <1>5, <1>6, <1>7

\* What speaks of tasks stays while no task is made and no script takes one up.
LEMMA TasksStay ==
    ASSUME GateInv, UNCHANGED <<followUp, payload>>, hand' = hand \/ hand'.at /= "tasks",
           reruns' = reruns
    PROVE  TasksLeft' /\ OnceEach'
BY DEF GateInv, TasksLeft, OnceEach, MadeFrom, FollowUps

\* What speaks of decisions stays while rows and histories do, however many are added.
LEMMA DecidedStays ==
    ASSUME GateInv, decisions \subseteq decisions'
    PROVE  /\ row' = row => AcceptedIsDecided'
           /\ hand' = hand => RowsDecided'
           /\ passed' = passed => PassedVerdictsStand'
           /\ reported' = reported => ReportsSettled'
<1>1. row' = row => AcceptedIsDecided'
  BY DEF GateInv, AcceptedIsDecided
<1>2. hand' = hand => RowsDecided'
  BY DEF GateInv, RowsDecided
<1>3. WaiverDecided => WaiverDecided'
  BY DEF WaiverDecided
<1>4. passed' = passed => PassedVerdictsStand'
  BY <1>3 DEF GateInv, PassedVerdictsStand
<1>5. reported' = reported => ReportsSettled'
  BY DEF GateInv, ReportsSettled
<1> QED
  BY <1>1, <1>2, <1>4, <1>5

\* Rows, verdicts, decisions and readings that are entered while no script needs them.
Entered ==
    \/ \E a \in arts : Register(a)
    \/ \E g \in Gates \cap arts : \E v \in Verdicts[g] : WriteVerdict(g, v)
    \/ \E d \in {<<"gate-waiver", "structure", "approved">>,
                 <<"follow-up-waiver", "proposal", "waived">>} : Waive(d)
    \/ GuideChanges

LEMMA EnteredKeeps == GateInv /\ GateNext /\ Entered => GateInv'
<1> SUFFICES ASSUME GateInv, GateNext, Entered PROVE GateInv'
  OBVIOUS
<1>1. UNCHANGED <<followUp, payload, hand, reruns, passed, reported, kills, outcome, torn, arts>>
  BY DEF Entered, Register, WriteVerdict, Waive, GuideChanges
<1>2. GateTypeOK' /\ DOMAIN gateFile' = Gates
  BY <1>1, ZenonT(30) DEF GateInv, GateShapes, GateTypeOK, Entered, Register, WriteVerdict, Waive, GuideChanges
<1>3. GateShapes'
  BY <1>1, <1>2 DEF GateInv, GateShapes, FollowUps
<1>4. AcceptedIsDecided'
  <2>1. \A a \in Arts : row'[a] = "accepted" => row[a] = "accepted"
    BY DEF GateInv, GateShapes, GateTypeOK, Entered, Register, WriteVerdict, Waive, GuideChanges
  <2> QED
    BY <2>1, ProjectStays DEF GateInv, AcceptedIsDecided
<1> QED
  BY <1>1, <1>3, <1>4, TasksStay, DecidedStays, ProjectStays DEF GateInv

LEMMA BeginsDecided ==
    GateInv /\ GateNext /\ ((\E a \in arts : \E s \in Statuses(a) : BeginAccept(a, s))
                            \/ (\E out \in {"addresses", "needs-follow-up"} : BeginClassify(out)))
       => GateInv'
<1> SUFFICES ASSUME GateInv, GateNext,
                    \/ \E a \in arts : \E s \in Statuses(a) : BeginAccept(a, s)
                    \/ \E out \in {"addresses", "needs-follow-up"} : BeginClassify(out)
             PROVE  GateInv'
  OBVIOUS
<1>1. /\ UNCHANGED <<arts, row, reviewed, outcome, torn, gateFile, guideSame, payload, followUp,
                     passed, reported, reruns, kills>>
      /\ hand'.at = "rows"
  BY DEF BeginAccept, BeginClassify
<1>2. GateShapes'
  BY <1>1 DEF GateInv, GateShapes, GateTypeOK, FollowUps
<1>3. RowsDecided'
  <2>1. CASE \E a \in arts : \E s \in Statuses(a) : BeginAccept(a, s)
    <3> PICK a \in arts : \E s \in Statuses(a) : BeginAccept(a, s)
      BY <2>1
    <3> PICK s \in Statuses(a) : BeginAccept(a, s)
      OBVIOUS
    <3>1. a \in Arts
      BY GateInputs DEF GateInv, GateShapes, GateTypeOK
    <3>2. s \in {"accepted", "rejected", "validated"}
      BY DEF Statuses
    <3>3. hand' = [at |-> "rows", on |-> a, to |-> s, outcome |-> outcome]
          /\ <<"acceptance", a, s>> \in decisions'
      BY DEF BeginAccept
    <3>4. outcome \in {"none", "addresses", "needs-follow-up"}
      BY DEF GateInv, GateShapes, GateTypeOK
    <3> QED
      BY <3>1, <3>2, <3>3, <3>4 DEF RowsDecided
  <2>2. CASE \E out \in {"addresses", "needs-follow-up"} : BeginClassify(out)
    <3> PICK out \in {"addresses", "needs-follow-up"} : BeginClassify(out)
      BY <2>2
    <3>1. PICK s \in {"accepted", "draft"} :
             hand' = [at |-> "rows", on |-> "claim", to |-> s, outcome |-> out]
      BY DEF BeginClassify
    <3>2. <<"claim-classification", "claim", out>> \in decisions'
      BY DEF BeginClassify
    <3>3. "claim" \in Arts
      BY DEF Arts, Rows
    <3> QED
      BY <3>1, <3>2, <3>3 DEF RowsDecided
  <2> QED
    BY <2>1, <2>2
<1> QED
  BY <1>1, <1>2, <1>3, TasksStay, DecidedStays, ProjectStays DEF GateInv

\* The rows a script writes, all or only the first, are accepted by decision.
LEMMA RewrittenDecided ==
    ASSUME GateInv, hand.at = "rows"
    PROVE  /\ Rewritten \in [Arts -> {"none", "draft", "validated", "accepted", "rejected"}]
           /\ hand.outcome \in {"none", "addresses", "needs-follow-up"}
           /\ \A a \in Arts : Rewritten[a] = "accepted" =>
                 \/ <<"acceptance", a, "accepted">> \in decisions
                 \/ a = "claim" /\ \E d \in decisions : d[1] = "claim-classification"
BY DEF GateInv, GateShapes, GateTypeOK, RowsDecided, AcceptedIsDecided, Rewritten

LEMMA RowsKeep == GateInv /\ GateNext /\ WriteRows => GateInv'
<1> SUFFICES ASSUME GateInv, GateNext, WriteRows PROVE GateInv'
  OBVIOUS
<1>1. /\ UNCHANGED <<arts, reviewed, torn, gateFile, guideSame, payload, decisions, followUp, passed,
                     reported, reruns, kills>>
      /\ hand' = NoScript /\ hand'.at = "idle"
  BY DEF WriteRows, NoScript
<1>2. GateShapes'
  BY <1>1, RewrittenDecided DEF GateInv, GateShapes, GateTypeOK, FollowUps, WriteRows
<1>3. AcceptedIsDecided' /\ RowsDecided'
  BY <1>1, RewrittenDecided DEF WriteRows, AcceptedIsDecided, RowsDecided
<1> QED
  BY <1>1, <1>2, <1>3, TasksStay, DecidedStays DEF GateInv

LEMMA KillKeeps == GateInv /\ GateNext /\ KillScript => GateInv'
<1> SUFFICES ASSUME GateInv, GateNext, KillScript PROVE GateInv'
  OBVIOUS
<1>1. /\ UNCHANGED <<arts, reviewed, gateFile, guideSame, payload, decisions, followUp, passed,
                     reported, reruns>>
      /\ hand' = NoScript /\ hand'.at = "idle"
  BY DEF KillScript, NoScript
<1>2. kills' \in 0..MaxKills
  BY GateConstants DEF GateInv, GateShapes, GateTypeOK, KillScript
<1>3. /\ row' \in [Arts -> {"none", "draft", "validated", "accepted", "rejected"}]
      /\ outcome' \in {"none", "addresses", "needs-follow-up"} /\ torn' \in BOOLEAN
      /\ AcceptedIsDecided'
  <2>1. CASE UNCHANGED <<row, torn, outcome>>
    BY <2>1, <1>1, DecidedStays DEF GateInv, GateShapes, GateTypeOK
  <2>2. CASE hand.at = "rows" /\ \E n \in 0..Len(Rows) :
                 /\ row' = [a \in Arts |-> IF \E i \in 1..n : Rows[i] = a
                                           THEN Rewritten[a] ELSE "none"]
                 /\ torn' \in BOOLEAN
                 /\ outcome' = IF row'["claim"] = "none" THEN "none" ELSE hand.outcome
    <3>1. \A a \in Arts : row'[a] \in {Rewritten[a], "none"}
      BY <2>2
    <3>2. row' = [a \in Arts |-> row'[a]]
      BY <2>2
    <3>3. \A a \in Arts : row'[a] \in {"none", "draft", "validated", "accepted", "rejected"}
      BY <3>1, <2>2, RewrittenDecided
    <3>4. AcceptedIsDecided'
      BY <3>1, <2>2, <1>1, RewrittenDecided DEF AcceptedIsDecided
    <3>5. outcome' \in {"none", "addresses", "needs-follow-up"} /\ torn' \in BOOLEAN
      BY <2>2, RewrittenDecided
    <3> QED
      BY <3>2, <3>3, <3>4, <3>5
  <2> QED
    BY <2>1, <2>2 DEF KillScript
<1>4. GateShapes'
  BY <1>1, <1>2, <1>3 DEF GateInv, GateShapes, GateTypeOK, FollowUps
<1>5. RowsDecided'
  BY <1>1 DEF RowsDecided
<1> QED
  BY <1>1, <1>3, <1>4, <1>5, TasksStay, DecidedStays DEF GateInv

LEMMA ScaffoldKeeps == GateInv /\ GateNext /\ (Scaffold \/ PreReportBlocked) => GateInv'
<1> SUFFICES ASSUME GateInv, GateNext, Scaffold \/ PreReportBlocked PROVE GateInv'
  OBVIOUS
<1>1. /\ UNCHANGED <<arts, row, reviewed, outcome, torn, gateFile, guideSame, payload, decisions,
                     followUp, passed, reported, kills>>
      /\ Scaffoldable /\ reruns' \in {reruns, 1} /\ (FollowUps /= {} => reruns' /= 0)
      /\ \E then \in {"done", "blocked"} : hand' = [at |-> "tasks", todo |-> Numbered, then |-> then]
  BY DEF Scaffold, PreReportBlocked, Scaffolding
<1>2. PICK then \in {"done", "blocked"} : hand' = [at |-> "tasks", todo |-> Numbered, then |-> then]
  BY <1>1
<1>3. hand'.at = "tasks" /\ hand'.todo = Numbered /\ hand'.then = then
  BY <1>2
<1>4. GateShapes'
  BY <1>1, <1>3 DEF GateInv, GateShapes, GateTypeOK, FollowUps
<1>5. TasksLeft'
  BY <1>1, <1>2, <1>3, NumberedFromFirst DEF TasksLeft
<1>6. OnceEach'
  <2>1. FollowUps' = FollowUps
    BY <1>1 DEF FollowUps
  <2>2. Clean(payload) /\ reruns' = 0 => FollowUps = {}
    BY <1>1
  <2>3. Clean(payload) /\ reruns' = 0 => \A i \in 1..Len(Numbered) :
           MadeFrom(Numbered[i].id, Numbered[i].out, Numbered[i].sound)
    BY <2>2, <1>1, NumberedFromFirst
  <2> QED
    BY <1>1, <1>3, <2>1, <2>2, <2>3 DEF OnceEach, MadeFrom
<1>7. RowsDecided'
  BY <1>3 DEF RowsDecided
<1> QED
  BY <1>1, <1>4, <1>5, <1>6, <1>7, DecidedStays, ProjectStays DEF GateInv

LEMMA OfItsOwn ==
    ASSUME NEW S, NEW s \in Seq(S)
    PROVE  s \in Seq({s[i] : i \in 1..Len(s)})
<1>1. s = [i \in 1..Len(s) |-> s[i]] /\ Len(s) \in Nat
  OBVIOUS
<1>2. s \in [1..Len(s) -> {s[i] : i \in 1..Len(s)}]
  BY <1>1
<1> QED
  BY <1>1, <1>2

LEMMA TaskFileKeeps == GateInv /\ GateNext /\ WriteTaskFile => GateInv'
<1> SUFFICES ASSUME GateInv, GateNext, WriteTaskFile PROVE GateInv'
  OBVIOUS
<1> DEFINE todo == hand.todo
           t == Head(todo)
           f == [status |-> "proposed", out |-> t.out, sound |-> t.sound]
<1>1. /\ UNCHANGED <<arts, row, reviewed, outcome, torn, gateFile, guideSame, payload, decisions,
                     passed, reported, reruns, kills>>
      /\ hand.at = "tasks"
      /\ followUp' = [followUp EXCEPT ![t.id] = f]
      /\ hand' = IF Len(todo) = 1 THEN NoScript ELSE [hand EXCEPT !.todo = Tail(@)]
  BY DEF WriteTaskFile
<1>2. /\ hand = [at |-> "tasks", todo |-> todo, then |-> hand.then]
      /\ todo \in Seq({todo[i] : i \in 1..Len(todo)}) /\ todo /= <<>>
      /\ \A i \in 1..Len(todo) : todo[i].id \in Numbers
  BY <1>1 DEF GateInv, TasksLeft
<1>3. /\ f.status = "proposed" /\ f.out = t.out /\ (f.sound <=> t.sound)
      /\ f = [status |-> f.status, out |-> f.out, sound |-> f.sound] /\ f /= NoTask
  BY DEF NoTask
<1>4. Len(todo) \in Nat \ {0} /\ t = todo[1] /\ t.id \in Numbers
  BY <1>2
<1>5. /\ hand'.at = "tasks" => /\ hand' = [at |-> "tasks", todo |-> Tail(todo), then |-> hand.then]
                               /\ hand'.todo = Tail(todo) /\ hand'.then = hand.then /\ Len(todo) /= 1
      /\ hand'.at \in {"idle", "tasks"}
  BY <1>1, <1>2 DEF NoScript
<1>6. Len(todo) /= 1 => /\ Tail(todo) \in Seq({Tail(todo)[i] : i \in 1..Len(Tail(todo))}) /\ Tail(todo) /= <<>>
                        /\ Len(Tail(todo)) = Len(todo) - 1
                        /\ \A i \in 1..Len(Tail(todo)) : Tail(todo)[i] = todo[i + 1] /\ i + 1 \in 1..Len(todo)
  <2> DEFINE S == {todo[i] : i \in 1..Len(todo)}
  <2> SUFFICES ASSUME Len(todo) /= 1
               PROVE  /\ Tail(todo) \in Seq({Tail(todo)[i] : i \in 1..Len(Tail(todo))}) /\ Tail(todo) /= <<>>
                      /\ Len(Tail(todo)) = Len(todo) - 1
                      /\ \A i \in 1..Len(Tail(todo)) : Tail(todo)[i] = todo[i + 1] /\ i + 1 \in 1..Len(todo)
    OBVIOUS
  <2>1. todo \in Seq(S) /\ todo /= <<>>
    BY <1>2
  <2> HIDE DEF S, todo
  <2>2. Tail(todo) \in Seq(S) /\ Len(Tail(todo)) = Len(todo) - 1
        /\ \A i \in 1..Len(Tail(todo)) : Tail(todo)[i] = todo[i + 1] /\ i + 1 \in 1..Len(todo)
    BY <2>1
  <2>3. Tail(todo) \in Seq({Tail(todo)[i] : i \in 1..Len(Tail(todo))})
    <3>1. \A s \in Seq(S) : s \in Seq({s[i] : i \in 1..Len(s)})
      BY OfItsOwn, Zenon
    <3>2. Tail(todo) \in Seq(S)
      BY <2>2
    <3> QED
      BY <3>1, <3>2, Zenon
  <2> QED
    BY <2>2, <2>3, <1>4
<1> HIDE DEF todo, t, f
<1>7. FollowUps' = FollowUps \cup {t.id}
      /\ \A n \in FollowUps' : followUp'[n] = IF n = t.id THEN f ELSE followUp[n]
  BY <1>1, <1>3, <1>4 DEF FollowUps, GateInv, GateShapes
<1>8. GateShapes'
  <2>1. GateTypeOK' /\ DOMAIN gateFile' = Gates /\ DOMAIN followUp' = Numbers
    BY <1>1, <1>5 DEF GateInv, GateShapes, GateTypeOK
  <2>2. \A n \in FollowUps' : followUp'[n] = [status |-> followUp'[n].status, out |-> followUp'[n].out,
                                              sound |-> followUp'[n].sound]
    BY <1>7, <1>3 DEF GateInv, GateShapes
  <2> QED
    BY <2>1, <2>2 DEF GateShapes
<1>9. TasksLeft'
  <2>1. hand'.at = "tasks" => \A i \in 1..Len(Tail(todo)) : Tail(todo)[i].id \in Numbers
    BY <1>2, <1>5, <1>6
  <2> QED
    BY <2>1, <1>5, <1>6 DEF TasksLeft
<1>10. OnceEach'
  <2> SUFFICES ASSUME Clean(payload), reruns = 0 PROVE OnceEach'
    BY <1>1 DEF OnceEach
  <2>1. \A n \in FollowUps : MadeFrom(n, followUp[n].out, followUp[n].sound)
    BY DEF GateInv, OnceEach
  <2>2. \A i \in 1..Len(todo) : MadeFrom(todo[i].id, todo[i].out, todo[i].sound)
    BY <1>1 DEF GateInv, OnceEach, todo
  <2>3. \A n \in FollowUps' : MadeFrom(n, followUp'[n].out, followUp'[n].sound)
    <3> SUFFICES ASSUME NEW n \in FollowUps' PROVE MadeFrom(n, followUp'[n].out, followUp'[n].sound)
      OBVIOUS
    <3>1. CASE n = t.id
      <4>1. MadeFrom(t.id, t.out, t.sound)
        BY <2>2, <1>4
      <4>2. followUp'[n].out = t.out /\ (followUp'[n].sound <=> t.sound)
        BY <3>1, <1>7, <1>3
      <4> QED
        BY <4>1, <4>2, <3>1 DEF MadeFrom
    <3>2. CASE n /= t.id
      BY <3>2, <1>7, <2>1
    <3> QED
      BY <3>1, <3>2
  <2>4. hand'.at = "tasks" => \A i \in 1..Len(Tail(todo)) :
           MadeFrom(Tail(todo)[i].id, Tail(todo)[i].out, Tail(todo)[i].sound)
    BY <1>5, <1>6, <2>2
  <2> QED
    BY <2>3, <2>4, <1>1, <1>5, ZenonT(30) DEF OnceEach, MadeFrom
<1>11. RowsDecided'
  BY <1>5 DEF RowsDecided
<1> QED
  BY <1>1, <1>8, <1>9, <1>10, <1>11, DecidedStays, ProjectStays DEF GateInv

LEMMA FollowUpEndKeeps == GateInv /\ GateNext /\ (\E n \in Numbers : FollowUpEnds(n)) => GateInv'
<1> SUFFICES ASSUME GateInv, GateNext, NEW n \in Numbers, FollowUpEnds(n) PROVE GateInv'
  OBVIOUS
<1>1. /\ UNCHANGED <<arts, row, reviewed, outcome, torn, gateFile, guideSame, payload, decisions, hand,
                     passed, reported, reruns, kills>>
      /\ n \in FollowUps
      /\ followUp' = [followUp EXCEPT ![n].status = "accepted"]
  BY DEF FollowUpEnds, FollowUps
<1>2. followUp[n] = [status |-> followUp[n].status, out |-> followUp[n].out, sound |-> followUp[n].sound]
  BY <1>1 DEF GateInv, GateShapes
<1>3. followUp'[n] = [status |-> "accepted", out |-> followUp[n].out, sound |-> followUp[n].sound]
  BY <1>1, <1>2 DEF GateInv, GateShapes
<1>4. DOMAIN followUp' = Numbers /\ \A m \in Numbers : m /= n => followUp'[m] = followUp[m]
  BY <1>1 DEF GateInv, GateShapes
<1>5. FollowUps' = FollowUps
  BY <1>1, <1>3, <1>4 DEF FollowUps, NoTask
<1>6. \A m \in FollowUps : /\ followUp'[m].out = followUp[m].out
                           /\ followUp'[m].sound <=> followUp[m].sound
                           /\ followUp'[m] = [status |-> followUp'[m].status, out |-> followUp'[m].out,
                                              sound |-> followUp'[m].sound]
  BY <1>3, <1>4 DEF FollowUps, GateInv, GateShapes
<1>7. GateShapes'
  BY <1>1, <1>4, <1>5, <1>6 DEF GateInv, GateShapes, GateTypeOK
<1>8. TasksLeft'
  BY <1>1 DEF GateInv, TasksLeft
<1>9. OnceEach'
  BY <1>1, <1>5, <1>6 DEF GateInv, OnceEach, MadeFrom
<1> QED
  BY <1>1, <1>7, <1>8, <1>9, DecidedStays, ProjectStays DEF GateInv

LEMMA SubmitKeeps == GateInv /\ GateNext /\ PreSubmit => GateInv'
<1> SUFFICES ASSUME GateInv, GateNext, PreSubmit PROVE GateInv'
  OBVIOUS
<1> USE DEF PreSubmit
<1>1. GateShapes'
  BY DEF GateInv, GateShapes, GateTypeOK, FollowUps
<1>2. \A c \in gateFile["structure"].checks : c.status \notin Blocking /\ (c.short => WaiverDecided)
  BY DEF GatePasses, GateValid, CheckStands
<1>3. WaiverDecided' <=> WaiverDecided
  BY DEF WaiverDecided
<1>4. PassedVerdictsStand'
  BY <1>2, <1>3 DEF GateInv, PassedVerdictsStand
<1> QED
  BY <1>1, <1>4, TasksStay, DecidedStays, ProjectStays DEF GateInv

LEMMA ReportKeeps == GateInv /\ GateNext /\ PreReportPasses => GateInv'
<1> SUFFICES ASSUME GateInv, GateNext, PreReportPasses PROVE GateInv'
  OBVIOUS
<1> USE DEF PreReportPasses
<1>1. GateShapes'
  BY DEF GateInv, GateShapes, GateTypeOK, FollowUps
<1>2. ASSUME NEW r \in reported' \ reported, r.blocks PROVE r.waived \/ r.done /= {}
  <2>1. r = [waived |-> <<"follow-up-waiver", "proposal", "waived">> \in decisions,
             blocks |-> row["proposal"] \in {"validated", "accepted"},
             done   |-> {followUp[n].out : n \in {m \in FollowUps : followUp[m].status = "accepted"}}]
    OBVIOUS
  <2>2. row["proposal"] \in {"validated", "accepted"}
    BY <2>1, <1>2
  <2>3. \/ <<"follow-up-waiver", "proposal", "waived">> \in decisions
        \/ \E n \in FollowUps : followUp[n].status = "accepted"
    BY <2>2 DEF Unresolved
  <2>4. r.waived <=> <<"follow-up-waiver", "proposal", "waived">> \in decisions
    BY <2>1
  <2>5. r.done = {followUp[n].out : n \in {m \in FollowUps : followUp[m].status = "accepted"}}
    BY <2>1
  <2>6. (\E n \in FollowUps : followUp[n].status = "accepted") => r.done /= {}
    BY <2>5, ZenonT(30)
  <2> QED
    BY <2>3, <2>4, <2>6, Zenon
<1>3. ReportsSettled'
  BY <1>2 DEF GateInv, ReportsSettled
<1> QED
  BY <1>1, <1>3, TasksStay, DecidedStays, ProjectStays DEF GateInv

LEMMA GateStutter == GateInv /\ UNCHANGED gateVars => GateInv'
BY DEF gateVars, GateInv, GateShapes, GateTypeOK, FollowUps, RowsDecided, TasksLeft, OnceEach, MadeFrom,
       AcceptedIsDecided, PassedVerdictsStand, WaiverDecided, ReportsSettled

\* One recommendation each is all it takes: recommendations that are sound and expect
\* different outputs make tasks that are valid together.
LEMMA MadeOnceIsValid == GateInv => FollowUpsMadeOnce
<1> SUFFICES ASSUME GateInv, Clean(payload), reruns = 0 PROVE TasksValid
  BY DEF FollowUpsMadeOnce
<1>1. \A n \in FollowUps : MadeFrom(n, followUp[n].out, followUp[n].sound)
  BY DEF GateInv, OnceEach
<1>2. \A n \in FollowUps : TaskSound(n)
  BY <1>1 DEF MadeFrom, TaskSound, Clean
<1>3. ASSUME NEW n \in FollowUps, NEW m \in FollowUps, n /= m PROVE followUp[n].out /= followUp[m].out
  <2>1. n \in Int /\ m \in Int
    BY GateConstants DEF FollowUps, Numbers
  <2>2. n - FirstFollowUp + 1 /= m - FirstFollowUp + 1
    BY <2>1, <1>3, GateConstants
  <2> QED
    BY <1>1, <2>2 DEF MadeFrom, Clean
<1> QED
  BY <1>2, <1>3 DEF TasksValid

\* Whatever is decided, registered, rewritten and killed in whatever order: an artifact
\* is accepted by a decision on file, a verdict that let a job go on stands, a proposal's
\* tasks are made once, and a report passes with its proposal settled
\* (research-orchestrator: accept_artifact, classify_claim, check_pre_submit,
\* check_pre_report, scaffold_follow_up_tasks).
THEOREM ProjectsAreSound == GateSpec => []ProjectSound
<1>1. GateInv /\ [GateNext]_gateVars => GateInv'
  <2> SUFFICES ASSUME GateInv, GateNext PROVE GateInv'
    BY GateStutter
  <2>1. \/ Entered
        \/ (\E a \in arts : \E s \in Statuses(a) : BeginAccept(a, s))
           \/ (\E out \in {"addresses", "needs-follow-up"} : BeginClassify(out))
        \/ \E n \in Numbers : FollowUpEnds(n)
        \/ WriteRows \/ Scaffold \/ PreReportBlocked \/ WriteTaskFile
        \/ PreSubmit \/ PreReportPasses \/ KillScript
    BY DEF GateNext, Entered
  <2> QED
    BY <2>1, EnteredKeeps, BeginsDecided, FollowUpEndKeeps, RowsKeep, ScaffoldKeeps, TaskFileKeeps,
       SubmitKeeps, ReportKeeps, KillKeeps
<1>2. GateInv => ProjectSound
  BY MadeOnceIsValid DEF GateInv, GateShapes, ProjectSound
<1> QED
  BY GateStart, <1>1, <1>2, PTL DEF GateSpec

-----------------------------------------------------------------------------
(* The settings of a process *)

Starting == {"trust", "adopt", "unlink", "publish", "user", "project"}
Rewriting == {"open tmp", "fill tmp", "rename", "truncate", "fill"}
Trusting == {"truncate trust", "fill trust"}

\* A process that is up or getting up has the options it was started with; one
\* that rewrites has a command.
JobFits(p) ==
    /\ at[p] \in {"off", "up"} \cup Starting \cup Rewriting \cup Trusting
    /\ at[p] \in {"up"} \cup Starting =>
          \E k \in {"start", "open"}, o \in Options : job[p] = [kind |-> k, options |-> o]
    /\ at[p] \in Rewriting \cup Trusting => job[p] \in Edits
    /\ at[p] \in {"truncate", "fill"} => job[p].kind = "provider" /\ job[p].file = "user"
    /\ opened[p] /= NoProvider => at[p] = "up"
    /\ config[p] /= NoSettings => at[p] = "up" \/ (at[p] \in Starting /\ job[p].kind = "open")

\* What it has read is a layer or no file.
ReadFits(p) ==
    /\ at[p] \in Starting \ {"trust"} =>
          /\ read[p] = [trusted |-> read[p].trusted, user |-> read[p].user, project |-> NoFile]
          /\ read[p].user = NoFile \/ IsLayer(read[p].user)
    /\ at[p] \in Rewriting => read[p] \in {NoFile, Unreadable} \/ IsLayer(read[p])

\* What the files hold, and where it is kept what each process does.
FilesFit ==
    /\ file = [user |-> file["user"], project |-> file["project"], old |-> file["old"]]
    /\ \A f \in {"user", "project", "old"} : file[f] \in {NoFile, Torn} \/ IsLayer(file[f])
    /\ file["old"] /= Torn
    /\ tmp \in {NoFile, Torn} \/ IsLayer(tmp)
    /\ DOMAIN config = Procs /\ DOMAIN opened = Procs /\ DOMAIN told = Procs /\ DOMAIN during = Procs
    /\ DOMAIN at = Procs /\ DOMAIN job = Procs /\ DOMAIN read = Procs

\* A file that says "auto" was made to by its user, and so was what was read of it.
SaysAuto(c) == c["perm"] = "auto"
NoAutoRead(p) ==
    ~autoEver => /\ at[p] = "project" => ~SaysAuto(read[p].user)
                 /\ at[p] \in {"truncate", "fill"} /\ job[p].file = "user" => ~SaysAuto(read[p])

\* Trust, on file or in hand, was given by a command.
NoTrustRead(p) ==
    ~trustedEver => /\ at[p] \in Trusting => "here" \notin read[p]
                    /\ at[p] \in Starting \ {"trust"} => ~read[p].trusted

\* On file they are the user's too.
GivenByUser ==
    /\ ~autoEver => ~SaysAuto(file["user"]) /\ ~SaysAuto(file["old"])
    /\ ~trustedEver => "here" \notin trust

\* What a process reads on its way up is, or was, on disk meanwhile.
Meanwhile(p) ==
    /\ at[p] \in Starting => OnDisk \in during[p]
    /\ at[p] = "project" => \E c \in during[p] : \/ read[p].user = c.user
                                                \/ (read[p].user = Nothing /\ c.user = Torn)

\* What each process does, has read and may say.
ProcFits(p) == JobFits(p) /\ ReadFits(p) /\ NoAutoRead(p) /\ NoTrustRead(p) /\ Meanwhile(p)

\* A content keeps what commands have said of the user's settings.
Keeps(c) == \A f \in Fields : said[f] /= Unset => Layer(c) /\ c[f] = said[f]
Filling(p) == at[p] = "fill" /\ job[p].file = "user"

\* Unless something was lost: the user's file keeps what was said, but while one
\* process writes it again, and then that one has it in hand.
SaidIsKept ==
    lost = {} =>
       /\ (\A p \in Procs : ~Filling(p)) => Keeps(file["user"])
       /\ \A p \in Procs : Filling(p) => /\ file["user"] = Torn /\ Keeps(read[p]) /\ read[p] /= Unreadable
                                         /\ \A q \in Procs : Filling(q) => q = p

\* Until the first command writes, nothing is said and nothing is torn; from then on starts
\* leave what is there.
Tearing(p) == at[p] = "truncate" /\ read[p] = Unreadable
Unwritten ==
    /\ \A f \in Fields : said[f] = Unset
    /\ file["user"] /= Torn
    /\ \A p \in Procs : at[p] /= "fill" /\ ~Tearing(p)
FirstKept == StartKeepsSettings /\ (wrote = NoFile => Unwritten)

SettingsInv ==
    /\ FilesFit /\ GivenByUser /\ SaidIsKept
    /\ \A p \in Procs : ProcFits(p)
    /\ FirstKept /\ OpenedIsCurrent /\ AutoWasAllowed /\ AnnouncedHonestly

\* A file with a field in it is none of the marks.
LEMMA LayerIsLayer ==
    ASSUME NEW c, IsLayer(c)
    PROVE  Layer(c) /\ c /= Unreadable
<1>1. c["key"] \notin Marks
  BY DEF IsLayer, Fields
<1>2. NoFile["key"] \in Marks /\ Torn["key"] \in Marks /\ Unreadable["key"] \in Marks
  BY DEF NoFile, Torn, Unreadable, Fields, Marks
<1> QED
  BY <1>1, <1>2 DEF Layer

LEMMA NothingIsLayer == IsLayer(Nothing)
BY DEF Nothing, IsLayer, Marks, Unset, Fields

LEMMA MarksDiffer == NoFile /= Torn /\ Nothing /= Torn /\ Nothing /= NoFile /\ NoFile /= Unreadable /\ Torn /= Unreadable
<1>1. NoFile["key"] /= Torn["key"] /\ NoFile["key"] /= Unreadable["key"] /\ Torn["key"] /= Unreadable["key"]
  BY DEF NoFile, Torn, Unreadable, Fields
<1> QED
  BY <1>1, NothingIsLayer, LayerIsLayer DEF Layer

LEMMA SettingsStart == SettingsInit => SettingsInv
<1> SUFFICES ASSUME SettingsInit PROVE SettingsInv
  OBVIOUS
<1> USE DEF SettingsInit
<1> PICK c \in OldFiles : /\ file = [user |-> NoFile, project |-> ProjectFile, old |-> c]
                          /\ autoEver = (c["perm"] = "auto")
  OBVIOUS
<1>1. \A p \in Procs : at[p] = "off" /\ opened[p] = NoProvider /\ config[p] = NoSettings
  OBVIOUS
<1>2. \A p \in Procs : ProcFits(p)
  BY ONLY <1>1 DEF ProcFits, JobFits, ReadFits, NoAutoRead, NoTrustRead, Meanwhile, Starting, Rewriting, Trusting
<1>3. FilesFit
  <2>1. ProjectFile = NoFile \/ IsLayer(ProjectFile)
    BY SettingsInputs
  <2>2. c = NoFile \/ IsLayer(c)
    BY SettingsInputs
  <2> QED
    BY <2>1, <2>2, LayerIsLayer, MarksDiffer DEF FilesFit, Layer
<1>4. GivenByUser
  <2>1. file["user"] = NoFile /\ file["old"] = c /\ (SaysAuto(c) => autoEver)
    BY DEF SaysAuto
  <2>2. ~SaysAuto(NoFile)
    BY DEF SaysAuto, NoFile, Fields
  <2>3. trust = {}
    OBVIOUS
  <2> QED
    BY ONLY <2>1, <2>2, <2>3 DEF GivenByUser
<1>5. SaidIsKept
  BY DEF SaidIsKept, Keeps, Filling, Nothing
<1>6. FirstKept /\ OpenedIsCurrent /\ AutoWasAllowed /\ AnnouncedHonestly
  <2>1. FirstKept
    BY <1>1, MarksDiffer DEF FirstKept, StartKeepsSettings, Unwritten, Tearing, Nothing
  <2> QED
    BY <2>1 DEF OpenedIsCurrent, AutoWasAllowed, AnnouncedHonestly, Silent, None
<1> QED
  BY <1>2, <1>3, <1>4, <1>5, <1>6 DEF SettingsInv

\* What a reader makes of a file is no file, or a layer, or nothing legible.
LEMMA ReadingsFit ==
    ASSUME NEW c, c \in {NoFile, Torn} \/ IsLayer(c),
           NEW r \in Readings(c), r /= Unreadable
    PROVE  /\ r = NoFile \/ IsLayer(r)
           /\ r = c \/ (r = Nothing /\ c = Torn)
           /\ ~SaysAuto(c) => ~SaysAuto(r)
BY NothingIsLayer, MarksDiffer DEF Readings, SaysAuto, Nothing, Fields, Unset

\* What was announced, opened and allowed stays while nothing of it is touched.
LEMMA UpStays ==
    ASSUME SettingsInv,
           autoEver => autoEver', trustedEver => trustedEver',
           \A p \in Procs : during[p] \subseteq during'[p] \/ opened'[p] = NoProvider
    PROVE  /\ told' = told => AnnouncedHonestly'
           /\ opened' = opened => OpenedIsCurrent'
           /\ config' = config /\ (\A p \in Procs : config[p] /= NoSettings => job'[p].options = job[p].options)
                 => AutoWasAllowed'
<1>1. told' = told => AnnouncedHonestly'
  BY DEF SettingsInv, AnnouncedHonestly
<1>2. opened' = opened => OpenedIsCurrent'
  BY DEF SettingsInv, OpenedIsCurrent
<1>3. config' = config /\ (\A p \in Procs : config[p] /= NoSettings => job'[p].options = job[p].options)
         => AutoWasAllowed'
  BY DEF SettingsInv, AutoWasAllowed
<1> QED
  BY <1>1, <1>2, <1>3

\* What the files hold, and what was said of them, stays while nothing writes.
LEMMA FilesStay ==
    ASSUME SettingsInv, UNCHANGED <<file, said, wrote, lost>>,
           \A q \in Procs : Filling(q)' <=> Filling(q),
           \A q \in Procs : Filling(q) => read'[q] = read[q],
           wrote = NoFile => \A q \in Procs : (at'[q] = "fill" => at[q] = "fill") /\ (Tearing(q)' => Tearing(q))
    PROVE  SaidIsKept' /\ FirstKept'
<1>1. SaidIsKept'
  BY DEF SettingsInv, SaidIsKept, Keeps
<1>2. FirstKept'
  BY DEF SettingsInv, FirstKept, StartKeepsSettings, Unwritten
<1> QED
  BY <1>1, <1>2

\* A step of one process: what another does and has read is as before, and what is on
\* disk is noted for those on their way up.
Alone(p) ==
    /\ \A q \in Procs \ {p} : /\ at'[q] = at[q] /\ job'[q] = job[q] /\ read'[q] = read[q]
                              /\ opened'[q] = opened[q] /\ config'[q] = config[q]
                              /\ during[q] \subseteq during'[q]
                              /\ at[q] \in Starting => OnDisk' \in during'[q]
    /\ autoEver => autoEver'
    /\ trustedEver => trustedEver'

LEMMA OthersFit ==
    ASSUME SettingsInv, NEW p \in Procs, Alone(p), ProcFits(p)'
    PROVE  \A q \in Procs : ProcFits(q)'
<1> SUFFICES ASSUME NEW q \in Procs \ {p} PROVE ProcFits(q)'
  OBVIOUS
<1>1. ProcFits(q) /\ (autoEver => autoEver') /\ (trustedEver => trustedEver')
  BY DEF SettingsInv, Alone
<1>2. /\ at'[q] = at[q] /\ job'[q] = job[q] /\ read'[q] = read[q]
      /\ opened'[q] = opened[q] /\ config'[q] = config[q]
  BY DEF Alone
<1>3. JobFits(q)' /\ ReadFits(q)'
  BY ONLY <1>1, <1>2 DEF ProcFits, JobFits, ReadFits
<1>4. NoAutoRead(q)' /\ NoTrustRead(q)'
  BY ONLY <1>1, <1>2 DEF ProcFits, NoAutoRead, NoTrustRead
<1>5. Meanwhile(q)'
  BY ONLY <1>1, <1>2, Alone(p) DEF Alone, ProcFits, Meanwhile
<1> QED
  BY <1>3, <1>4, <1>5 DEF ProcFits

\* A step of a process that neither writes nor opens nor announces anything.
Quiet(p) ==
    /\ UNCHANGED <<file, trust, config, opened, told, said, wrote, lost, trustedEver, autoEver>>
    /\ wrote = NoFile => ~Tearing(p)'
    /\ tmp' = tmp \/ tmp' = Torn \/ IsLayer(tmp')
    /\ at[p] /= "fill" /\ at'[p] /= "fill"
    /\ opened[p] /= NoProvider => during'[p] = during[p]
    /\ config[p] /= NoSettings => job'[p].options = job[p].options
    /\ DOMAIN at' = Procs /\ DOMAIN job' = Procs /\ DOMAIN read' = Procs /\ DOMAIN during' = Procs

LEMMA QuietKeeps ==
    ASSUME SettingsInv, NEW p \in Procs, Quiet(p), Alone(p), ProcFits(p)'
    PROVE  SettingsInv'
<1>1. \A q \in Procs : ProcFits(q)'
  BY OthersFit
<1>2. FilesFit' /\ GivenByUser'
  BY DEF SettingsInv, Quiet, FilesFit, GivenByUser
<1>3. SaidIsKept' /\ FirstKept'
  <2>1. \A q \in Procs : Filling(q)' <=> Filling(q)
    BY DEF Quiet, Alone, Filling
  <2>2. \A q \in Procs : Filling(q) => read'[q] = read[q]
    BY DEF Quiet, Alone, Filling
  <2>3. wrote = NoFile => \A q \in Procs : (at'[q] = "fill" => at[q] = "fill") /\ (Tearing(q)' => Tearing(q))
    BY DEF Quiet, Alone, Tearing
  <2> QED
    BY <2>1, <2>2, <2>3, FilesStay DEF Quiet
<1>4. \A q \in Procs : during[q] \subseteq during'[q] \/ opened'[q] = NoProvider
  BY DEF Quiet, Alone
<1>5. \A q \in Procs : config[q] /= NoSettings => job'[q].options = job[q].options
  BY DEF Quiet, Alone
<1>6. OpenedIsCurrent' /\ AutoWasAllowed' /\ AnnouncedHonestly'
  BY <1>4, <1>5, UpStays DEF Quiet
<1> QED
  BY <1>1, <1>2, <1>3, <1>6 DEF SettingsInv

LEMMA LaunchKeeps ==
    ASSUME SettingsInv, NEW p \in Procs, NEW o \in Options, Launch(p, o)
    PROVE  SettingsInv'
<1> USE DEF Launch, Go
<1>1. /\ at[p] = "off" /\ opened[p] = NoProvider /\ config[p] = NoSettings
      /\ at'[p] = "trust" /\ job'[p] = [kind |-> "start", options |-> o] /\ during'[p] = {OnDisk}
      /\ opened' = opened /\ config' = config /\ OnDisk' = OnDisk
  BY DEF SettingsInv, ProcFits, JobFits, FilesFit, Starting, OnDisk
<1>2. ProcFits(p)'
  BY <1>1 DEF ProcFits, JobFits, ReadFits, NoAutoRead, NoTrustRead, Meanwhile, Starting, Rewriting, Trusting
<1>3. Quiet(p)
  BY <1>1 DEF SettingsInv, FilesFit, Quiet, Tearing
<1>4. Alone(p)
  BY <1>1 DEF SettingsInv, FilesFit, ProcFits, Meanwhile, Alone
<1> QED
  BY <1>2, <1>3, <1>4, QuietKeeps

LEMMA OpenKeeps ==
    ASSUME SettingsInv, NEW p \in Procs, OpenRunner(p)
    PROVE  SettingsInv'
<1> USE DEF OpenRunner, Go
<1>1. PICK k \in {"start", "open"}, o \in Options : job[p] = [kind |-> k, options |-> o]
  BY DEF SettingsInv, ProcFits, JobFits
<1>2. /\ at[p] = "up" /\ opened[p] = NoProvider
      /\ at'[p] = "trust" /\ job'[p] = [kind |-> "open", options |-> o] /\ during'[p] = {OnDisk}
      /\ opened' = opened /\ config' = config /\ OnDisk' = OnDisk
  BY <1>1 DEF SettingsInv, FilesFit, OnDisk
<1>3. ProcFits(p)'
  <2>1. JobFits(p) /\ config'[p] = config[p]
    BY <1>2 DEF SettingsInv, ProcFits
  <2>2. JobFits(p)'
    BY ONLY <2>1, <1>2 DEF JobFits, Starting, Rewriting, Trusting
  <2>3. ReadFits(p)' /\ NoAutoRead(p)' /\ NoTrustRead(p)' /\ Meanwhile(p)'
    BY ONLY <1>2 DEF ReadFits, NoAutoRead, NoTrustRead, Meanwhile, Starting, Rewriting, Trusting
  <2> QED
    BY <2>2, <2>3 DEF ProcFits
<1>4. Quiet(p)
  BY <1>1, <1>2 DEF SettingsInv, FilesFit, Quiet, Tearing
<1>5. Alone(p)
  BY <1>2 DEF SettingsInv, FilesFit, ProcFits, Meanwhile, Alone
<1> QED
  BY <1>3, <1>4, <1>5, QuietKeeps

LEMMA LoadTrustKeeps ==
    ASSUME SettingsInv, NEW p \in Procs, LoadTrust(p)
    PROVE  SettingsInv'
<1> USE DEF LoadTrust, Go, history
<1> DEFINE t == trust /= TornTrust /\ "here" \in trust
<1>1. /\ at[p] = "trust" /\ at'[p] = "adopt"
      /\ read'[p] = [trusted |-> t, user |-> NoFile, project |-> NoFile]
      /\ UNCHANGED <<job, opened, config, during, trustedEver, autoEver>> /\ OnDisk' = OnDisk
  BY DEF SettingsInv, FilesFit, OnDisk
<1> HIDE DEF t
<1>2. /\ read'[p].trusted = t /\ read'[p].user = NoFile
      /\ read'[p] = [trusted |-> read'[p].trusted, user |-> read'[p].user, project |-> NoFile]
  BY <1>1
<1>a. JobFits(p)
  BY DEF SettingsInv, ProcFits
<1>b. JobFits(p)'
  BY ONLY <1>a, <1>1 DEF JobFits, Starting, Rewriting, Trusting
<1>c. ReadFits(p)' /\ NoAutoRead(p)'
  BY ONLY <1>2, <1>1 DEF ReadFits, NoAutoRead, Rewriting
<1>d. Meanwhile(p)'
  BY <1>1 DEF SettingsInv, ProcFits, Meanwhile, Starting
<1>3. NoTrustRead(p)'
  <2>1. ~trustedEver => ~t
    BY DEF t, SettingsInv, GivenByUser
  <2> QED
    BY ONLY <2>1, <1>2, <1>1 DEF NoTrustRead, Trusting
<1>4. Quiet(p)
  BY <1>1 DEF SettingsInv, FilesFit, Quiet, Tearing
<1>5. Alone(p)
  BY <1>1 DEF SettingsInv, FilesFit, ProcFits, Meanwhile, Alone
<1> QED
  BY <1>b, <1>c, <1>d, <1>3, <1>4, <1>5, QuietKeeps DEF ProcFits

\* A start that cannot read a file is given up; a runner is opened no more.
StartGivesUp(p) ==
    /\ at[p] \in Starting
    /\ at' = [at EXCEPT ![p] = IF job[p].kind = "start" THEN "off" ELSE "up"]
    /\ UNCHANGED <<file, tmp, trust, job, read, config, opened, told, ops, history>>

LEMMA GivesUpKeeps ==
    ASSUME SettingsInv, NEW p \in Procs, StartGivesUp(p)
    PROVE  SettingsInv'
<1> USE DEF StartGivesUp, history
<1>1. /\ at[p] \in Starting /\ at'[p] = IF job[p].kind = "start" THEN "off" ELSE "up"
      /\ UNCHANGED <<read, job, opened, config, during, trustedEver, autoEver>> /\ OnDisk' = OnDisk
  BY DEF SettingsInv, FilesFit, OnDisk
<1>2. ProcFits(p)'
  <2>1. JobFits(p)
    BY DEF SettingsInv, ProcFits
  <2>2. PICK k \in {"start", "open"}, o \in Options : job[p] = [kind |-> k, options |-> o]
    BY ONLY <2>1, <1>1 DEF JobFits
  <2>3. JobFits(p)'
    BY ONLY <2>1, <2>2, <1>1 DEF JobFits, Starting, Rewriting, Trusting
  <2>4. ReadFits(p)' /\ NoAutoRead(p)' /\ NoTrustRead(p)' /\ Meanwhile(p)'
    BY ONLY <1>1 DEF ReadFits, NoAutoRead, NoTrustRead, Meanwhile, Starting, Rewriting, Trusting
  <2> QED
    BY <2>3, <2>4 DEF ProcFits
<1>3. Quiet(p)
  BY <1>1 DEF SettingsInv, FilesFit, Quiet, Tearing, Starting
<1>4. Alone(p)
  BY <1>1 DEF SettingsInv, FilesFit, ProcFits, Meanwhile, Alone
<1> QED
  BY <1>2, <1>3, <1>4, QuietKeeps

LEMMA ReadUserKeeps ==
    ASSUME SettingsInv, NEW p \in Procs, ReadUser(p)
    PROVE  SettingsInv'
<1> PICK c \in Readings(file["user"]) :
       IF c = Unreadable \/ ~Legal(c)
       THEN Go(p, IF job[p].kind = "start" THEN "off" ELSE "up") /\ UNCHANGED read
       ELSE read' = [read EXCEPT ![p].user = c] /\ Go(p, "project")
  BY DEF ReadUser
<1>1. CASE c = Unreadable \/ ~Legal(c)
  BY <1>1, GivesUpKeeps DEF ReadUser, StartGivesUp, Starting, Go
<1>2. CASE ~(c = Unreadable \/ ~Legal(c))
  <2> USE DEF ReadUser, Go, history
  <2>1. /\ at[p] = "user" /\ at'[p] = "project"
        /\ UNCHANGED <<file, job, opened, config, during, trustedEver, autoEver>> /\ OnDisk' = OnDisk
    BY <1>2 DEF SettingsInv, FilesFit, OnDisk
  <2>2. read[p] = [trusted |-> read[p].trusted, user |-> read[p].user, project |-> NoFile]
    BY <2>1 DEF SettingsInv, ProcFits, ReadFits, Starting
  <2>3. /\ read'[p].user = c /\ (read'[p].trusted <=> read[p].trusted)
        /\ read'[p] = [trusted |-> read'[p].trusted, user |-> c, project |-> NoFile]
    BY <2>2, <1>2 DEF SettingsInv, FilesFit
  <2>4. /\ c = NoFile \/ IsLayer(c)
        /\ c = file["user"] \/ (c = Nothing /\ file["user"] = Torn)
        /\ ~SaysAuto(file["user"]) => ~SaysAuto(c)
    BY <1>2, ReadingsFit DEF SettingsInv, FilesFit
  <2>a. JobFits(p) /\ NoTrustRead(p) /\ GivenByUser
    BY DEF SettingsInv, ProcFits
  <2>b. JobFits(p)'
    BY ONLY <2>1, <2>a DEF JobFits, Starting, Rewriting, Trusting
  <2>5. ReadFits(p)'
    BY ONLY <2>1, <2>3, <2>4 DEF ReadFits, Starting, Rewriting
  <2>c. NoAutoRead(p)'
    BY ONLY <2>1, <2>3, <2>4, <2>a DEF GivenByUser, NoAutoRead
  <2>6. NoTrustRead(p)'
    BY ONLY <2>1, <2>3, <2>a DEF NoTrustRead, Starting, Trusting
  <2>7. Meanwhile(p)'
    <3>1. OnDisk \in during[p] /\ OnDisk.user = file["user"]
      BY <2>1 DEF SettingsInv, ProcFits, Meanwhile, Starting, OnDisk
    <3> QED
      BY <3>1, <2>1, <2>3, <2>4 DEF Meanwhile
  <2>8. Quiet(p)
    BY <2>1, <1>2 DEF SettingsInv, FilesFit, Quiet, Tearing
  <2>9. Alone(p)
    BY <2>1, <1>2 DEF SettingsInv, FilesFit, ProcFits, Meanwhile, Alone
  <2> QED
    BY <2>b, <2>c, <2>5, <2>6, <2>7, <2>8, <2>9, QuietKeeps DEF ProcFits
<1> QED
  BY <1>1, <1>2

LEMMA BeginKeeps ==
    ASSUME SettingsInv, NEW p \in Procs, NEW e \in Edits, Begin(p, e)
    PROVE  SettingsInv'
<1> USE DEF Begin, Go, history
<1>1. /\ at[p] = "off" /\ opened[p] = NoProvider /\ config[p] = NoSettings /\ job'[p] = e
      /\ UNCHANGED <<file, opened, config, during, trustedEver, autoEver>> /\ OnDisk' = OnDisk
  BY DEF SettingsInv, ProcFits, JobFits, FilesFit, OnDisk, Starting
<1>2. /\ e.kind \in {"set", "provider", "trust", "untrust"} /\ e.file \in {"user", "project"}
      /\ GivenByUser /\ (file[e.file] \in {NoFile, Torn} \/ IsLayer(file[e.file]))
  BY SettingsInputs DEF SettingsInv, FilesFit
<1>3. /\ at'[p] \in {"off", "truncate trust", "open tmp", "truncate"}
      /\ at'[p] = "truncate" => e.kind = "provider"
      /\ at'[p] = "truncate trust" => read'[p] = IF trust = TornTrust THEN {} ELSE trust
      /\ at'[p] \in {"open tmp", "truncate"} => read'[p] \in Readings(file[e.file])
  BY <1>1, <1>2 DEF SettingsInv, FilesFit
<1>a. e.kind = "provider" => e.file = "user"
  BY SettingsInputs
<1>4. at'[p] \in {"open tmp", "truncate"} => /\ read'[p] \in {NoFile, Unreadable} \/ IsLayer(read'[p])
                                             /\ ~SaysAuto(file[e.file]) => ~SaysAuto(read'[p])
                                             /\ read'[p] = Unreadable => file[e.file] = Torn
  <2>1. ~SaysAuto(Unreadable)
    BY DEF SaysAuto, Unreadable, Fields
  <2>2. ASSUME at'[p] \in {"open tmp", "truncate"}, read'[p] = Unreadable PROVE file[e.file] = Torn
    BY <1>2, <1>3, <2>2, MarksDiffer, LayerIsLayer DEF Readings
  <2>3. CASE read'[p] = Unreadable
    BY <2>1, <2>2, <2>3
  <2>4. CASE read'[p] /= Unreadable
    BY <1>2, <1>3, <2>4, ReadingsFit
  <2> QED
    BY <2>3, <2>4
<1>5. JobFits(p)' /\ ReadFits(p)'
  BY ONLY <1>1, <1>3, <1>4, <1>a, e \in Edits DEF JobFits, ReadFits, Starting, Rewriting, Trusting
<1>6. NoAutoRead(p)' /\ NoTrustRead(p)'
  BY ONLY <1>1, <1>2, <1>3, <1>4 DEF NoAutoRead, NoTrustRead, GivenByUser, Starting, Trusting
<1>7. Meanwhile(p)'
  BY ONLY <1>3 DEF Meanwhile, Starting
<1>8. Quiet(p)
  <2>1. wrote = NoFile => ~Tearing(p)'
    BY <1>3, <1>4, <1>a DEF SettingsInv, FirstKept, Unwritten, Tearing
  <2> QED
    BY <1>1, <1>3, <2>1 DEF SettingsInv, FilesFit, Quiet
<1>9. Alone(p)
  <2>1. \A q \in Procs \ {p} : at'[q] = at[q] /\ job'[q] = job[q] /\ read'[q] = read[q]
    <3>1. \A q \in Procs \ {p} : at'[q] = at[q]
      BY DEF SettingsInv, FilesFit
    <3>2. \A q \in Procs \ {p} : job'[q] = job[q]
      BY DEF SettingsInv, FilesFit
    <3>3. \A q \in Procs \ {p} : read'[q] = read[q]
      BY DEF SettingsInv, FilesFit
    <3> QED
      BY <3>1, <3>2, <3>3
  <2>2. \A q \in Procs : Meanwhile(q)
    BY DEF SettingsInv, ProcFits
  <2> QED
    BY ONLY <1>1, <2>1, <2>2 DEF Alone, Meanwhile
<1> QED
  BY <1>5, <1>6, <1>7, <1>8, <1>9, QuietKeeps DEF ProcFits

\* What a command writes is a layer again, and says "auto" only if it was told or read to.
LEMMA WrittenFits ==
    ASSUME SettingsInv, NEW p \in Procs, at[p] \in Rewriting
    PROVE  /\ IsLayer(Written(p)) /\ job[p] \in Edits
           /\ job[p].kind = "provider" /\ ~SaysAuto(read[p]) => ~SaysAuto(Written(p))
           /\ read[p] /= Torn
<1> DEFINE c == IF Layer(read[p]) THEN read[p] ELSE Nothing
           e == job[p]
<1>1. /\ e \in Edits /\ (read[p] \in {NoFile, Unreadable} \/ IsLayer(read[p]))
  BY DEF SettingsInv, ProcFits, JobFits, ReadFits
<1>2. IsLayer(c) /\ (~SaysAuto(read[p]) => ~SaysAuto(c)) /\ read[p] /= Torn
  BY <1>1, NothingIsLayer, LayerIsLayer, MarksDiffer DEF SaysAuto, Nothing, Fields, Unset, Layer
<1>3. e.field \in Fields /\ e.value \notin Marks
  BY <1>1, SettingsInputs
<1>4. Written(p) = IF e.kind = "provider" THEN [c EXCEPT !["key"] = e.value, !["model"] = "flash"]
                   ELSE [c EXCEPT ![e.field] = e.value]
  BY DEF Written
<1> HIDE DEF c, e
<1>5. /\ IsLayer([c EXCEPT !["key"] = e.value, !["model"] = "flash"])
      /\ ~SaysAuto(c) => ~SaysAuto([c EXCEPT !["key"] = e.value, !["model"] = "flash"])
      /\ IsLayer([c EXCEPT ![e.field] = e.value])
  BY <1>2, <1>3 DEF IsLayer, Marks, SaysAuto, Fields
<1> QED
  BY <1>1, <1>2, <1>4, <1>5 DEF e

LEMMA TmpKeeps ==
    ASSUME SettingsInv, NEW p \in Procs, OpenTmp(p) \/ FillTmp(p)
    PROVE  SettingsInv'
<1> USE DEF OpenTmp, FillTmp, Go, history
<1>1. /\ at[p] \in {"open tmp", "fill tmp"} /\ at'[p] \in {"fill tmp", "rename"}
      /\ tmp' = Torn \/ tmp' = Written(p)
      /\ UNCHANGED <<file, job, read, opened, config, during, trustedEver, autoEver>> /\ OnDisk' = OnDisk
  BY DEF SettingsInv, FilesFit, OnDisk
<1>2. JobFits(p) /\ ReadFits(p)
  BY DEF SettingsInv, ProcFits
<1>3. JobFits(p)' /\ ReadFits(p)'
  BY ONLY <1>1, <1>2 DEF JobFits, ReadFits, Starting, Rewriting, Trusting
<1>4. NoAutoRead(p)' /\ NoTrustRead(p)' /\ Meanwhile(p)'
  BY ONLY <1>1 DEF NoAutoRead, NoTrustRead, Meanwhile, Starting, Trusting
<1>5. Quiet(p)
  BY <1>1, WrittenFits DEF SettingsInv, FilesFit, Quiet, Rewriting, Tearing
<1>6. Alone(p)
  BY <1>1 DEF SettingsInv, FilesFit, ProcFits, Meanwhile, Alone
<1> QED
  BY <1>3, <1>4, <1>5, <1>6, QuietKeeps DEF ProcFits

\* A step of a process that changes a file and is not up: everybody on the way up notes
\* what is on disk now.
Writes(p) ==
    /\ UNCHANGED <<config, opened, told>>
    /\ opened[p] = NoProvider
    /\ config[p] /= NoSettings => job'[p] = job[p]
    /\ autoEver => autoEver'
    /\ trustedEver => trustedEver'
    /\ DOMAIN at' = Procs /\ \A q \in Procs \ {p} : at'[q] = at[q]
    /\ UNCHANGED <<job, read>>
    /\ NoteKeys \/ (UNCHANGED during /\ OnDisk' = OnDisk)

LEMMA WritesKeeps ==
    ASSUME SettingsInv, NEW p \in Procs, Writes(p), FilesFit', GivenByUser', ProcFits(p)',
           SaidIsKept', FirstKept'
    PROVE  SettingsInv'
<1>1. \A q \in Procs : during[q] \subseteq during'[q] /\ (at[q] \in Starting => OnDisk' \in during'[q])
  BY DEF Writes, NoteKeys, Starting, SettingsInv, ProcFits, Meanwhile
<1>2. Alone(p)
  BY <1>1 DEF Writes, Alone
<1>3. \A q \in Procs : ProcFits(q)'
  BY <1>2, OthersFit
<1>4. OpenedIsCurrent' /\ AutoWasAllowed' /\ AnnouncedHonestly'
  BY <1>1, UpStays DEF Writes
<1> QED
  BY <1>3, <1>4 DEF SettingsInv

\* Nobody has said anything of a file that is not there.
LEMMA NothingSaid ==
    ASSUME SettingsInv, UNCHANGED <<said, wrote, lost, read>>, \A q \in Procs : Filling(q)' <=> Filling(q),
           \A q \in Procs : (at'[q] = "fill" => at[q] = "fill") /\ (at'[q] = "truncate" => at[q] = "truncate"),
           file'["user"] = file["user"] \/ (file["user"] = NoFile /\ file'["user"] /= Torn)
    PROVE  SaidIsKept' /\ FirstKept'
<1>1. SaidIsKept /\ FirstKept
  BY DEF SettingsInv
<1>2. FirstKept'
  BY <1>1 DEF FirstKept, StartKeepsSettings, Unwritten, Tearing
<1>3. CASE file'["user"] = file["user"]
  BY <1>1, <1>2, <1>3 DEF SaidIsKept, Keeps
<1>4. CASE file["user"] = NoFile
  <2>1. ~Layer(file["user"]) /\ file["user"] /= Torn
    BY <1>4, MarksDiffer DEF Layer
  <2>2. lost = {} => (\A q \in Procs : ~Filling(q)) /\ \A f \in Fields : said[f] = Unset
    BY <1>1, <2>1 DEF SaidIsKept, Keeps
  <2> QED
    BY <1>2, <2>2 DEF SaidIsKept, Keeps
<1> QED
  BY <1>3, <1>4

\* A process on its way up puts what it may where no file is.
LEMMA StartWrites ==
    ASSUME SettingsInv, NEW p \in Procs, at[p] \in Starting \ {"trust", "project"},
           at'[p] \in {"unlink", "publish", "user"}, DOMAIN at' = Procs, \A q \in Procs \ {p} : at'[q] = at[q],
           UNCHANGED <<tmp, trust, job, read, config, opened, told, said, wrote, lost, trustedEver, autoEver>>,
           NoteKeys \/ (UNCHANGED during /\ OnDisk' = OnDisk), DOMAIN during' = Procs,
           file' = [user |-> file'["user"], project |-> file["project"], old |-> file'["old"]],
           file'["user"] = file["user"] \/ (file["user"] = NoFile /\ file'["user"] \in {file["old"], Default}),
           file'["old"] \in {file["old"], NoFile}
    PROVE  SettingsInv'
<1>1. IsLayer(Default) /\ ~SaysAuto(Default) /\ ~SaysAuto(NoFile)
  <2>1. Default["key"] = "unset" /\ Default["model"] = "flash" /\ Default["perm"] = "prompt"
    BY DEF Default, Unset
  <2>2. Default = [f \in Fields |-> Default[f]]
    BY DEF Default, Fields
  <2>3. IsLayer(Default)
    BY <2>1, <2>2 DEF IsLayer, Fields, Marks
  <2> QED
    BY <2>1, <2>3 DEF SaysAuto, NoFile, Fields
<1>2. ProcFits(p) /\ FilesFit /\ GivenByUser
  BY DEF SettingsInv
<1>3. FilesFit'
  BY <1>1, <1>2, MarksDiffer DEF FilesFit
<1>4. GivenByUser'
  BY <1>1, <1>2 DEF GivenByUser
<1>5. opened[p] = NoProvider
  BY <1>2 DEF ProcFits, JobFits, Starting
<1>6. JobFits(p)' /\ ReadFits(p)'
  BY <1>2 DEF ProcFits, JobFits, ReadFits, Starting, Rewriting, Trusting
<1>7. NoAutoRead(p)' /\ NoTrustRead(p)'
  BY <1>2 DEF ProcFits, NoAutoRead, NoTrustRead, Starting, Trusting
<1>8. Meanwhile(p)'
  <2>1. OnDisk' \in during'[p]
    BY <1>2 DEF ProcFits, Meanwhile, NoteKeys, Starting
  <2> QED
    BY <2>1 DEF Meanwhile
<1>9. SaidIsKept' /\ FirstKept'
  <2>1. \A q \in Procs : Filling(q)' <=> Filling(q)
    BY DEF Filling, Starting
  <2>2. file'["user"] = file["user"] \/ (file["user"] = NoFile /\ file'["user"] /= Torn)
    BY <1>1, <1>2, LayerIsLayer DEF FilesFit, Layer
  <2>3. \A q \in Procs : (at'[q] = "fill" => at[q] = "fill") /\ (at'[q] = "truncate" => at[q] = "truncate")
    OBVIOUS
  <2> QED
    BY <2>1, <2>2, <2>3, NothingSaid
<1>10. Writes(p)
  BY <1>5 DEF Writes
<1> QED
  BY <1>3, <1>4, <1>6, <1>7, <1>8, <1>9, <1>10, WritesKeeps DEF ProcFits

LEMMA AdoptKeeps ==
    ASSUME SettingsInv, NEW p \in Procs, Adopt(p) \/ DropOld(p) \/ Publish(p)
    PROVE  SettingsInv'
<1>1. /\ file = [user |-> file["user"], project |-> file["project"], old |-> file["old"]]
      /\ DOMAIN at = Procs /\ DOMAIN during = Procs
  BY DEF SettingsInv, FilesFit
<1>2. CASE Adopt(p)
  <2> USE <1>2 DEF Adopt, Go
  <2>1. /\ at[p] = "adopt" /\ at'[p] \in {"unlink", "publish", "user"}
        /\ DOMAIN at' = Procs /\ \A q \in Procs \ {p} : at'[q] = at[q]
    BY <1>1
  <2>2. /\ file' = [user |-> file'["user"], project |-> file["project"], old |-> file'["old"]]
        /\ file'["user"] = file["user"] \/ (file["user"] = NoFile /\ file'["user"] = file["old"])
        /\ file'["old"] = file["old"]
    BY <1>1
  <2>3. NoteKeys /\ DOMAIN during' = Procs
    BY DEF NoteKeys
  <2> QED
    BY <2>1, <2>2, <2>3, StartWrites DEF Starting
<1>3. CASE DropOld(p)
  <2> USE <1>3 DEF DropOld, Go, history
  <2>1. /\ at[p] = "unlink" /\ at'[p] = "user"
        /\ DOMAIN at' = Procs /\ \A q \in Procs \ {p} : at'[q] = at[q]
    BY <1>1
  <2>2. /\ file' = [user |-> file'["user"], project |-> file["project"], old |-> file'["old"]]
        /\ file'["user"] = file["user"] /\ file'["old"] = NoFile /\ OnDisk' = OnDisk
    BY <1>1 DEF OnDisk
  <2> QED
    BY <1>1, <2>1, <2>2, StartWrites DEF Starting
<1>4. CASE Publish(p)
  <2> USE <1>4 DEF Publish, Go
  <2>1. /\ at[p] = "publish" /\ at'[p] = "user"
        /\ DOMAIN at' = Procs /\ \A q \in Procs \ {p} : at'[q] = at[q]
    BY <1>1
  <2>2. /\ file' = [user |-> file'["user"], project |-> file["project"], old |-> file'["old"]]
        /\ file'["user"] = file["user"] \/ (file["user"] = NoFile /\ file'["user"] = Default)
        /\ file'["old"] = file["old"]
    BY <1>1
  <2>3. NoteKeys /\ DOMAIN during' = Procs
    BY DEF NoteKeys
  <2> QED
    BY <2>1, <2>2, <2>3, StartWrites DEF Starting
<1> QED
  BY <1>2, <1>3, <1>4

\* A field of two contents laid over each other; one that is torn counts as an empty one.
LEMMA OverField ==
    ASSUME NEW low, NEW high, NEW f \in Fields
    PROVE  Over(low, high)[f] = IF Layer(high) /\ high[f] /= Unset THEN high[f] ELSE low[f]
BY DEF Over

LEMMA TornIsNothing ==
    ASSUME NEW low, NEW c, NEW d, NEW f \in Fields, c = d \/ (c = Nothing /\ d = Torn)
    PROVE  Over(low, c)[f] = Over(low, d)[f]
BY DEF Over, Nothing, Layer

\* The key a process finds is the one of what it has read, as far as it has one.
LEMMA MergedKey ==
    ASSUME NEW r, NEW u, NEW j, r.user = u \/ (r.user = Nothing /\ u = Torn),
           r.project = j \/ (r.project = Nothing /\ j = Torn)
    PROVE  Merged(r)["key"] = KeyOf(u, j)
<1> DEFINE a == Over(Default, r.user)
           b == Over(Nothing, u)
<1>0. "key" \in Fields
  BY DEF Fields
<1>1. Default["key"] = Unset /\ Nothing["key"] = Unset
  BY DEF Default, Nothing, Fields
<1>2. a["key"] = b["key"]
  BY <1>0, <1>1, TornIsNothing, OverField
<1>3. Over(a, r.project)["key"] = Over(a, j)["key"]
  BY <1>0, TornIsNothing
<1> HIDE DEF a, b
<1>4. Over(a, j)["key"] = Over(b, j)["key"]
  BY <1>0, <1>2, OverField
<1> QED
  BY <1>3, <1>4 DEF Merged, KeyOf, a, b

LEMMA MergedPerm ==
    ASSUME NEW r, Merged(r)["perm"] = "auto"
    PROVE  SaysAuto(r.user) \/ (Layer(r.project) /\ SaysAuto(r.project))
<1> DEFINE a == Over(Default, r.user)
<1>0. "perm" \in Fields /\ Default["perm"] = "prompt"
  BY DEF Fields, Default
<1>1. a["perm"] = IF Layer(r.user) /\ r.user["perm"] /= Unset THEN r.user["perm"] ELSE "prompt"
  BY <1>0, OverField
<1> HIDE DEF a
<1>2. Over(a, r.project)["perm"] = IF Layer(r.project) /\ r.project["perm"] /= Unset
                                   THEN r.project["perm"] ELSE a["perm"]
  BY <1>0, OverField
<1> QED
  BY <1>1, <1>2 DEF Merged, SaysAuto, a

LEMMA MergedIsLayer ==
    ASSUME NEW r, r.user = NoFile \/ IsLayer(r.user), r.project = NoFile \/ IsLayer(r.project)
    PROVE  Layer(Merged(r))
<1>1. Merged(r)["key"] = KeyOf(r.user, r.project)
  BY MergedKey
<1>2. "key" \in Fields /\ Nothing["key"] = Unset
  BY DEF Fields, Nothing
<1>3. KeyOf(r.user, r.project) \notin Marks
  <2> DEFINE b == Over(Nothing, r.user)
  <2>1. Unset \notin Marks
    BY DEF Unset, Marks
  <2>2. b["key"] \in {Unset, r.user["key"]} /\ (r.user = NoFile => b["key"] = Unset)
    BY <1>2, OverField DEF Layer
  <2>3. b["key"] \notin Marks
    BY <1>2, <2>1, <2>2 DEF IsLayer
  <2> HIDE DEF b
  <2>4. /\ Over(b, r.project)["key"] \in {b["key"], r.project["key"]}
        /\ r.project = NoFile => Over(b, r.project)["key"] = b["key"]
    BY <1>2, OverField DEF Layer
  <2>5. Over(b, r.project)["key"] \notin Marks
    BY <1>2, <2>3, <2>4 DEF IsLayer
  <2> QED
    BY <2>5 DEF KeyOf, b
<1>4. NoFile["key"] \in Marks /\ Torn["key"] \in Marks /\ Unreadable["key"] \in Marks
  BY <1>2 DEF NoFile, Torn, Unreadable, Marks
<1> QED
  BY <1>1, <1>3, <1>4 DEF Layer

\* The last layer is read: a process is up, or its runner opens.
LEMMA ReadProjectKeeps ==
    ASSUME SettingsInv, NEW p \in Procs, ReadProject(p)
    PROVE  SettingsInv'
<1> PICK c \in IF read[p].trusted THEN Readings(file["project"]) ELSE {NoFile} :
       IF c = Unreadable \/ ~Legal(c)
       THEN Go(p, IF job[p].kind = "start" THEN "off" ELSE "up") /\ UNCHANGED <<config, opened, read>>
       ELSE /\ read' = [read EXCEPT ![p].project = c]
            /\ Ready(p, [read[p] EXCEPT !.project = c])
            /\ Go(p, "up")
  BY DEF ReadProject
<1>1. CASE c = Unreadable \/ ~Legal(c)
  BY <1>1, GivesUpKeeps DEF ReadProject, StartGivesUp, Starting, Go
<1>2. CASE ~(c = Unreadable \/ ~Legal(c))
  <2> DEFINE r == [read[p] EXCEPT !.project = c]
  <2>1. /\ at[p] = "project" /\ at' = [at EXCEPT ![p] = "up"] /\ Ready(p, r)
        /\ read' = [read EXCEPT ![p].project = c]
        /\ UNCHANGED <<file, tmp, trust, job, told, said, wrote, lost, during, trustedEver, autoEver>>
        /\ OnDisk' = OnDisk
    BY <1>2 DEF ReadProject, Go, history, OnDisk
  <2>2. /\ ProcFits(p) /\ FilesFit /\ GivenByUser
        /\ opened[p] = NoProvider
    BY <2>1 DEF SettingsInv, ProcFits, JobFits
  <2>3. /\ r.user = read[p].user /\ r.project = c
        /\ r.user = NoFile \/ IsLayer(r.user)
    BY <2>1, <2>2 DEF ProcFits, ReadFits, Starting
  <2>4. /\ c = NoFile \/ IsLayer(c)
        /\ c = NoFile \/ c = file["project"] \/ (c = Nothing /\ file["project"] = Torn)
        /\ Layer(c) => trustedEver
    <3>1. CASE read[p].trusted
      <4>1. c \in Readings(file["project"]) /\ c /= Unreadable
        BY <3>1, <1>2
      <4>2. trustedEver
        BY <3>1, <2>1, <2>2 DEF ProcFits, NoTrustRead, Starting
      <4> QED
        BY <4>1, <4>2, <2>2, ReadingsFit DEF FilesFit
    <3>2. CASE ~read[p].trusted
      BY <3>2, <1>2 DEF Layer
    <3> QED
      BY <3>1, <3>2
  <2> HIDE DEF r
  <2>5. Layer(Merged(r))
    BY <2>3, <2>4, MergedIsLayer
  <2>6. /\ at'[p] = "up" /\ \A q \in Procs \ {p} : at'[q] = at[q] /\ read'[q] = read[q]
    BY <2>1, <2>2 DEF FilesFit
  <2>7. ProcFits(p)'
    BY ONLY <2>1, <2>2, <2>6 DEF ProcFits, JobFits, ReadFits, NoAutoRead, NoTrustRead, Meanwhile, Starting,
            Rewriting, Trusting
  <2>8. FilesFit' /\ GivenByUser'
    BY <2>1, <2>2 DEF FilesFit, GivenByUser, Ready
  <2>9. SaidIsKept' /\ FirstKept'
    BY <2>1, <2>6, FilesStay DEF Filling, Tearing
  <2>10. AnnouncedHonestly' /\ (opened' = opened => OpenedIsCurrent')
         /\ (config' = config => AutoWasAllowed')
    BY <2>1, UpStays
  <2>11. CASE job[p].kind = "start"
    <3>1. /\ config' = [config EXCEPT ![p] = Applied(Merged(r), job[p].options)]
          /\ opened' = opened
      BY <2>11, <2>1 DEF Ready
    <3>2. Alone(p)
      BY <3>1, <2>1, <2>2, <2>6 DEF Alone, FilesFit, SettingsInv, ProcFits, Meanwhile
    <3>3. Applied(Merged(r), job[p].options)["perm"] \in {job[p].options.perm, Merged(r)["perm"]}
      BY DEF Applied, Merged, Over, Fields
    <3>4. Applied(Merged(r), job[p].options)["perm"] = "auto" =>
             job[p].options.perm = "auto" \/ autoEver \/ trustedEver
      BY <3>3, <2>1, <2>2, <2>3, <2>4, MergedPerm DEF ProcFits, NoAutoRead
    <3>5. AutoWasAllowed'
      <4>1. AutoWasAllowed /\ DOMAIN config = Procs
        BY <2>2 DEF SettingsInv, FilesFit
      <4> QED
        BY <4>1, <3>1, <3>4, <2>1 DEF AutoWasAllowed
    <3> QED
      BY <3>1, <3>2, <3>5, <2>7, <2>8, <2>9, <2>10, OthersFit DEF SettingsInv
  <2>12. CASE job[p].kind /= "start"
    <3> DEFINE fresh == Over(config[p], Merged(r))
    <3>1. /\ opened' = [opened EXCEPT ![p] = [key |-> fresh["key"], model |-> Effective(fresh["model"])]]
          /\ config' = config
      BY <2>12, <2>1 DEF Ready
    <3>2. Alone(p)
      BY <3>1, <2>1, <2>2, <2>6 DEF Alone, FilesFit, SettingsInv, ProcFits, Meanwhile
    <3>3. opened'[p].key = fresh["key"]
      BY <3>1, <2>2 DEF FilesFit
    <3>4. Merged(r)["key"] \in {Unset, fresh["key"]}
      BY <2>5, OverField DEF Fields
    <3> HIDE DEF fresh
    <3>5. \E a, d \in during'[p] : \E j \in {NoFile, d.project} : KeyOf(a.user, j) \in {Unset, opened'[p].key}
      <4>1. PICK a \in during[p] : read[p].user = a.user \/ (read[p].user = Nothing /\ a.user = Torn)
        BY <2>1, <2>2 DEF ProcFits, Meanwhile
      <4>2. OnDisk \in during[p] /\ OnDisk.project = file["project"]
        BY <2>1, <2>2 DEF ProcFits, Meanwhile, Starting, OnDisk
      <4>3. PICK j \in {NoFile, OnDisk.project} : r.project = j \/ (r.project = Nothing /\ j = Torn)
        BY <2>3, <2>4, <4>2
      <4>4. Merged(r)["key"] = KeyOf(a.user, j)
        BY <2>3, <4>1, <4>3, MergedKey
      <4> QED
        BY <4>2, <4>4, <3>3, <3>4, <2>1
    <3>6. OpenedIsCurrent'
      <4>1. OpenedIsCurrent /\ DOMAIN opened = Procs /\ during' = during
        BY <2>1, <2>2 DEF SettingsInv, FilesFit
      <4>2. \A q \in Procs \ {p} : opened'[q] = opened[q]
        BY <3>1, <4>1
      <4> QED
        BY <4>1, <4>2, <3>5 DEF OpenedIsCurrent
    <3> QED
      BY <3>1, <3>2, <3>6, <2>7, <2>8, <2>9, <2>10, OthersFit DEF SettingsInv
  <2> QED
    BY <2>11, <2>12
<1> QED
  BY <1>1, <1>2

\* Whatever a provider offers, a resolution of a policy is one of the offer, and one
\* that is not what the policy routes to says so.
LEMMA ResolvedHonestly ==
    ASSUME NEW q, NEW offer, PolicyKind(q.model) /= "named", NEW r \in Resolutions(q, offer)
    PROVE  /\ offer /= {} => r.model \in offer
           /\ r.model /= Route[ProfileOf(q)] => r.fallback = Route[ProfileOf(q)]
<1> DEFINE w == ProfileOf(q)
<1>1. PICK m \in ModelFor(w, offer) : r = [model |-> m, fallback |-> Fallback(q, m)]
  BY DEF Resolutions
<1>2. offer /= {} => m \in offer
  BY DEF ModelFor
<1>3. r.model = m /\ (m /= Route[w] => r.fallback = Route[w])
  BY <1>1 DEF Fallback
<1> QED
  BY <1>2, <1>3

LEMMA AnnounceKeeps ==
    ASSUME SettingsInv, NEW p \in Procs, NEW q \in Requests, NEW offer \in Offers, Announce(p, q, offer)
    PROVE  SettingsInv'
<1> DEFINE asked == [q EXCEPT !.model = IF @ = Unset THEN config[p]["model"] ELSE @]
<1>1. PICK r \in Resolutions(asked, offer) :
         told' = [told EXCEPT ![p] = [model |-> r.model, fallback |-> r.fallback, request |-> q, offer |-> offer]]
  BY DEF Announce
<1> USE DEF Announce, history
<1>2. /\ DOMAIN told = Procs /\ AnnouncedHonestly
      /\ UNCHANGED <<file, tmp, trust, at, job, read, config, opened, said, wrote, lost, during, trustedEver, autoEver>>
  BY DEF SettingsInv, FilesFit
<1>3. AnnouncedHonestly'
  <2>1. /\ told'[p].model = r.model /\ told'[p].fallback = r.fallback
        /\ told'[p].request = q /\ told'[p].offer = offer
    BY <1>1, <1>2
  <2>2. q.model /= Unset => asked = q
    BY SettingsInputs
  <2>3. PolicyKind(q.model) /= "named" /\ q.model /= Unset =>
           /\ offer /= {} => r.model \in offer
           /\ r.model /= Route[ProfileOf(q)] => r.fallback = Route[ProfileOf(q)]
    BY <2>2, ResolvedHonestly
  <2>4. \A s \in Procs \ {p} : told'[s] = told[s]
    BY <1>1, <1>2
  <2> QED
    BY <1>2, <2>1, <2>3, <2>4 DEF AnnouncedHonestly
<1>4. \A s \in Procs : ProcFits(s)'
  BY <1>2 DEF SettingsInv, ProcFits, JobFits, ReadFits, NoAutoRead, NoTrustRead, Meanwhile, OnDisk
<1>5. FilesFit' /\ GivenByUser'
  BY <1>1, <1>2 DEF SettingsInv, FilesFit, GivenByUser
<1>6. SaidIsKept' /\ FirstKept'
  BY <1>2, FilesStay DEF Filling, Tearing
<1>7. OpenedIsCurrent' /\ AutoWasAllowed'
  BY <1>2, UpStays
<1> QED
  BY <1>3, <1>4, <1>5, <1>6, <1>7 DEF SettingsInv

\* A process leaves, or is killed: it is down, and has nothing open.
Down(p) ==
    /\ at' = [at EXCEPT ![p] = "off"]
    /\ config' = [config EXCEPT ![p] = NoSettings]
    /\ opened' = [opened EXCEPT ![p] = NoProvider]
    /\ told' = [told EXCEPT ![p] = Silent]
    /\ UNCHANGED <<file, tmp, trust, job, read, ops, said, wrote, during, trustedEver, autoEver>>

LEMMA GoneKeeps ==
    ASSUME SettingsInv, NEW p \in Procs, Leave(p) \/ KillProcess(p)
    PROVE  SettingsInv'
<1>1. Down(p)
  BY DEF Leave, KillProcess, Down, Go, history
<1> USE DEF Down
<1>2. FilesFit /\ OnDisk' = OnDisk
  BY <1>1 DEF SettingsInv, OnDisk
<1>3. at'[p] = "off" /\ opened'[p] = NoProvider /\ config'[p] = NoSettings /\ told'[p] = Silent
      /\ \A q \in Procs \ {p} : /\ at'[q] = at[q] /\ opened'[q] = opened[q] /\ config'[q] = config[q]
                                /\ told'[q] = told[q]
  BY <1>1, <1>2 DEF FilesFit
<1>4. ProcFits(p)'
  BY ONLY <1>3 DEF ProcFits, JobFits, ReadFits, NoAutoRead, NoTrustRead, Meanwhile, Starting, Rewriting, Trusting
<1>5. Alone(p)
  BY <1>1, <1>2, <1>3 DEF Alone, SettingsInv, ProcFits, Meanwhile
<1>6. FilesFit' /\ GivenByUser'
  BY <1>1, <1>2 DEF SettingsInv, FilesFit, GivenByUser
<1>7. \A q \in Procs : (at'[q] = "fill" => at[q] = "fill") /\ (Tearing(q)' => Tearing(q))
  BY <1>1, <1>3 DEF Tearing
<1>8. FirstKept'
  BY <1>1, <1>7 DEF SettingsInv, FirstKept, StartKeepsSettings, Unwritten
<1>9. SaidIsKept'
  <2> SUFFICES ASSUME lost' = {} PROVE SaidIsKept'
    BY DEF SaidIsKept
  <2>1. lost = {} /\ at[p] /= "fill"
    BY DEF Leave, KillProcess, history
  <2>2. \A q \in Procs : Filling(q)' <=> Filling(q)
    BY <1>1, <1>3, <2>1 DEF Filling
  <2> QED
    BY <1>1, <1>7, <2>1, <2>2, FilesStay DEF Leave, KillProcess, history
<1>10. OpenedIsCurrent' /\ AutoWasAllowed' /\ AnnouncedHonestly'
  <2>1. OpenedIsCurrent'
    BY <1>1, <1>3 DEF SettingsInv, OpenedIsCurrent
  <2>2. AutoWasAllowed'
    BY <1>1, <1>3 DEF SettingsInv, AutoWasAllowed
  <2>3. AnnouncedHonestly'
    BY <1>1, <1>3 DEF SettingsInv, AnnouncedHonestly, Silent
  <2> QED
    BY <2>1, <2>2, <2>3
<1> QED
  BY <1>4, <1>5, <1>6, <1>8, <1>9, <1>10, OthersFit DEF SettingsInv

\* What a command writes keeps what was said, if what it read did, and adds its own.
LEMMA WrittenKeeps ==
    ASSUME SettingsInv, NEW p \in Procs, at[p] \in Rewriting, job[p].file = "user", Keeps(read[p])
    PROVE  \A f \in Fields : Said(p)[f] /= Unset => Layer(Written(p)) /\ Written(p)[f] = Said(p)[f]
<1> SUFFICES ASSUME NEW f \in Fields, Said(p)[f] /= Unset
             PROVE  Layer(Written(p)) /\ Written(p)[f] = Said(p)[f]
  OBVIOUS
<1> DEFINE old == IF Layer(read[p]) THEN read[p][f] ELSE Unset
<1>1. Layer(Written(p))
  BY WrittenFits, LayerIsLayer
<1>2. Said(p)[f] = IF Written(p)[f] /= old \/ f = job[p].field THEN Written(p)[f] ELSE said[f]
  BY DEF Said
<1>3. CASE Written(p)[f] /= old \/ f = job[p].field
  BY <1>1, <1>2, <1>3
<1>4. CASE ~(Written(p)[f] /= old \/ f = job[p].field)
  <2>1. said[f] /= Unset /\ Said(p)[f] = said[f]
    BY <1>2, <1>4
  <2>2. Layer(read[p]) /\ read[p][f] = said[f]
    BY <2>1 DEF Keeps
  <2> QED
    BY <1>1, <1>4, <2>1, <2>2
<1> QED
  BY <1>3, <1>4

\* A step of a command that rewrites a file of settings.
Rewrites(p, c) ==
    /\ Puts(p, c)
    /\ at[p] \in Rewriting /\ at' = [at EXCEPT ![p] = IF at[p] = "truncate" THEN "fill" ELSE "off"]
    /\ NoteKeys
    /\ UNCHANGED <<trust, job, read, config, opened, told, ops, trustedEver>>
    /\ tmp' \in {tmp, NoFile}
    /\ autoEver => autoEver'
    /\ job[p].file = "user" /\ ~autoEver' => ~SaysAuto(c)
    /\ job[p].file = "project" => said' = said

LEMMA RewritesKeeps ==
    ASSUME SettingsInv, NEW p \in Procs, NEW c, Rewrites(p, c), c = Torn \/ IsLayer(c),
           SaidIsKept'
    PROVE  SettingsInv'
<1> USE DEF Rewrites, Puts
<1>1. ProcFits(p) /\ FilesFit /\ GivenByUser /\ job[p] \in Edits /\ job[p].file \in {"user", "project"}
  BY SettingsInputs DEF SettingsInv, ProcFits, JobFits
<1>2. /\ file' = [user |-> file'["user"], project |-> file'["project"], old |-> file["old"]]
      /\ file'["user"] = IF job[p].file = "user" THEN c ELSE file["user"]
      /\ file'["project"] = IF job[p].file = "project" THEN c ELSE file["project"]
  BY <1>1 DEF FilesFit
<1>3. /\ at'[p] \in {"fill", "off"} /\ (at'[p] = "fill" => at[p] = "truncate")
      /\ DOMAIN at' = Procs /\ \A q \in Procs \ {p} : at'[q] = at[q]
  BY <1>1 DEF FilesFit
<1>4. opened[p] = NoProvider /\ config[p] = NoSettings
  BY <1>1 DEF ProcFits, JobFits, Rewriting, Starting
<1>5. FilesFit'
  BY <1>1, <1>2, <1>3 DEF FilesFit, NoteKeys
<1>a. FirstKept'
  <2>1. c /= NoFile
    BY LayerIsLayer, MarksDiffer DEF Layer
  <2>2. FirstKept
    BY DEF SettingsInv
  <2>3. CASE job[p].file = "user"
    BY <1>2, <2>1, <2>3 DEF FirstKept, StartKeepsSettings
  <2>4. CASE job[p].file = "project"
    <3>1. at[p] \notin {"truncate", "fill"} /\ at'[p] = "off"
      BY <1>1, <1>3, <2>4 DEF ProcFits, JobFits
    <3>2. file'["user"] = file["user"] /\ wrote' = wrote
      BY <1>2, <2>4
    <3>3. \A f \in Fields : said'[f] = said[f]
      BY <2>4
    <3> QED
      BY <1>3, <2>2, <3>1, <3>2, <3>3 DEF FirstKept, StartKeepsSettings, Unwritten, Tearing
  <2> QED
    BY <1>1, <2>3, <2>4
<1>6. GivenByUser'
  BY <1>1, <1>2 DEF GivenByUser
<1>7. JobFits(p)' /\ ReadFits(p)'
  BY <1>1, <1>3, <1>4 DEF ProcFits, JobFits, ReadFits, Starting, Rewriting, Trusting
<1>8. NoAutoRead(p)' /\ NoTrustRead(p)' /\ Meanwhile(p)'
  BY <1>1, <1>3 DEF ProcFits, NoAutoRead, NoTrustRead, Meanwhile, Starting, Trusting
<1>9. Writes(p)
  BY <1>3, <1>4 DEF Writes
<1> QED
  BY <1>5, <1>6, <1>7, <1>8, <1>9, <1>a, WritesKeeps DEF ProcFits

\* config set puts the temporary file in place: where it is what it wrote over what it read.
LEMMA RenameKeeps ==
    ASSUME SettingsInv, NEW p \in Procs, Rename(p)
    PROVE  SettingsInv'
<1> USE DEF Rename, Go
<1>1. /\ at[p] = "rename" /\ at' = [at EXCEPT ![p] = "off"] /\ at[p] \in Rewriting
      /\ FilesFit /\ SaidIsKept /\ FirstKept
      /\ job[p] \in Edits /\ job[p].file \in {"user", "project"} /\ job[p].kind /= "start"
  BY SettingsInputs DEF SettingsInv, ProcFits, JobFits, Rewriting
<1>2. at'[p] = "off" /\ DOMAIN at' = Procs /\ \A q \in Procs \ {p} : at'[q] = at[q]
  BY <1>1 DEF FilesFit
<1>3. \A q \in Procs : Filling(q)' <=> Filling(q)
  BY <1>1, <1>2 DEF Filling
<1>4. CASE tmp = NoFile
  <2>1. UNCHANGED <<file, tmp, trust, job, read, config, opened, told, said, wrote, lost, during, trustedEver, autoEver>>
        /\ OnDisk' = OnDisk
    BY <1>4 DEF OnDisk
  <2>2. SaidIsKept' /\ FirstKept'
    BY <1>2, <1>3, <2>1, FilesStay DEF Tearing
  <2>3. FilesFit' /\ GivenByUser'
    BY <1>1, <1>2, <2>1 DEF SettingsInv, FilesFit, GivenByUser
  <2>4. opened[p] = NoProvider /\ config[p] = NoSettings
    BY <1>1 DEF SettingsInv, ProcFits, JobFits, Starting
  <2>5. ProcFits(p)'
    BY ONLY <1>2, <2>1, <2>4 DEF ProcFits, JobFits, ReadFits, NoAutoRead, NoTrustRead, Meanwhile, Starting,
            Rewriting, Trusting
  <2>6. Writes(p)
    BY <1>2, <2>1, <2>4 DEF Writes
  <2> QED
    BY <2>2, <2>3, <2>5, <2>6, WritesKeeps
<1>5. CASE tmp /= NoFile
  <2>1. /\ Puts(p, tmp) /\ file' = [file EXCEPT ![job[p].file] = tmp] /\ tmp' = NoFile /\ said' = Said(p)
        /\ lost' = IF tmp = Written(p) THEN Overlap(p, file[job[p].file]) ELSE lost \cup {"set"}
        /\ autoEver' = (autoEver \/ (job[p].file = "user" /\ Layer(tmp) /\ tmp["perm"] = "auto"))
        /\ NoteKeys /\ UNCHANGED <<trust, job, read, config, opened, told, ops, trustedEver>>
    BY <1>5 DEF Puts
  <2>2. tmp = Torn \/ IsLayer(tmp)
    BY <1>1, <1>5 DEF FilesFit
  <2>3. /\ autoEver => autoEver'
        /\ job[p].file = "user" /\ ~autoEver' => ~SaysAuto(tmp)
    <3>1. ~SaysAuto(Torn)
      BY DEF SaysAuto, Torn, Fields
    <3>2. autoEver' <=> (autoEver \/ (job[p].file = "user" /\ Layer(tmp) /\ SaysAuto(tmp)))
      BY <2>1 DEF SaysAuto
    <3> QED
      BY <2>2, <3>1, <3>2, LayerIsLayer
  <2>4. Rewrites(p, tmp)
    BY <1>1, <2>1, <2>3 DEF Rewrites, Said
  <2>6. SaidIsKept'
    <3> SUFFICES ASSUME lost' = {} PROVE SaidIsKept'
      BY DEF SaidIsKept
    <3>1. /\ lost = {} /\ tmp = Written(p) /\ read[p] /= Torn
          /\ file[job[p].file] = read[p] \/ (job[p].file = "user" /\ wrote = NoFile)
      BY <1>1, <2>1, WrittenFits DEF Overlap
    <3>2. CASE job[p].file = "user"
      <4>1. \A q \in Procs : ~Filling(q)
        BY <1>1, <3>1, <3>2 DEF SaidIsKept, FirstKept, Unwritten, Filling
      <4>2. Keeps(read[p])
        BY <1>1, <3>1, <3>2, <4>1 DEF SaidIsKept, FirstKept, Unwritten, Keeps
      <4>3. file'["user"] = Written(p) /\ said' = Said(p)
        BY <1>1, <2>1, <3>1, <3>2 DEF FilesFit
      <4>4. Keeps(file["user"])'
        BY <1>1, <3>2, <4>2, <4>3, WrittenKeeps DEF Keeps
      <4> QED
        BY <1>3, <4>1, <4>4 DEF SaidIsKept
    <3>3. CASE job[p].file /= "user"
      <4>1. file'["user"] = file["user"] /\ said' = said /\ read' = read
        BY <1>1, <2>1, <3>3 DEF FilesFit, Said
      <4> QED
        BY <1>1, <1>3, <3>1, <4>1 DEF SaidIsKept, Keeps
    <3> QED
      BY <3>2, <3>3
  <2> QED
    BY <2>1, <2>2, <2>3, <2>4, <2>6, RewritesKeeps
<1> QED
  BY <1>4, <1>5

\* set_provider empties the file and writes it again.
LEMMA ProviderKeeps ==
    ASSUME SettingsInv, NEW p \in Procs, Truncate(p) \/ Fill(p)
    PROVE  SettingsInv'
<1>1. /\ at[p] \in {"truncate", "fill"} /\ at[p] \in Rewriting
      /\ FilesFit /\ SaidIsKept /\ FirstKept /\ ProcFits(p)
      /\ job[p] \in Edits /\ job[p].file = "user" /\ job[p].kind = "provider"
  BY SettingsInputs DEF SettingsInv, ProcFits, JobFits, Rewriting, Truncate, Fill
<1>2. ~SaysAuto(Torn)
  BY DEF SaysAuto, Torn, Fields
<1>3. CASE Truncate(p)
  <2> USE <1>3 DEF Truncate, Go
  <2>1. at[p] = "truncate" /\ at'[p] = "fill" /\ \A q \in Procs \ {p} : at'[q] = at[q]
    BY <1>1 DEF FilesFit
  <2>2. Rewrites(p, Torn)
    BY <1>1, <1>2, <2>1 DEF Rewrites
  <2>3. /\ file' = [file EXCEPT !["user"] = Torn] /\ lost' = Overlap(p, file["user"])
        /\ said' = said /\ read' = read /\ job' = job
    BY <1>1 DEF Puts
  <2>4. SaidIsKept'
    <3> SUFFICES ASSUME lost' = {} PROVE SaidIsKept'
      BY DEF SaidIsKept
    <3>1. lost = {} /\ read[p] /= Torn /\ (file["user"] = read[p] \/ wrote = NoFile)
      BY <1>1, <2>3, WrittenFits DEF Overlap
    <3>2. \A q \in Procs : ~Filling(q)
      BY <1>1, <3>1 DEF SaidIsKept, FirstKept, Unwritten, Filling
    <3>3. Keeps(read[p])
      BY <1>1, <3>1, <3>2 DEF SaidIsKept, FirstKept, Unwritten, Keeps
    <3>4. read[p] /= Unreadable
      BY <1>1, <2>1, <3>1, MarksDiffer, LayerIsLayer DEF FirstKept, Unwritten, Tearing, FilesFit
    <3>5. file'["user"] = Torn
      BY <1>1, <2>3 DEF FilesFit
    <3>6. \A q \in Procs : Filling(q)' <=> q = p
      BY <1>1, <2>1, <2>3, <3>2 DEF Filling
    <3> QED
      BY <2>3, <3>3, <3>4, <3>5, <3>6 DEF SaidIsKept, Keeps
  <2> QED
    BY <2>2, <2>4, RewritesKeeps
<1>4. CASE Fill(p)
  <2> USE <1>4 DEF Fill, Go
  <2>1. at[p] = "fill" /\ at'[p] = "off" /\ \A q \in Procs \ {p} : at'[q] = at[q]
    BY <1>1 DEF FilesFit
  <2>2. IsLayer(Written(p)) /\ (~SaysAuto(read[p]) => ~SaysAuto(Written(p)))
    BY <1>1, WrittenFits
  <2>3. PICK c : Puts(p, c) /\ (c = Written(p) \/ (read[p] = Unreadable /\ c = Torn))
    OBVIOUS
  <2>4. Rewrites(p, c)
    BY <1>1, <1>2, <2>1, <2>2, <2>3 DEF Rewrites, ProcFits, NoAutoRead
  <2>5. SaidIsKept'
    <3> SUFFICES ASSUME lost' = {} PROVE SaidIsKept'
      BY DEF SaidIsKept
    <3>1. lost = {} /\ read' = read /\ job' = job /\ said' = Said(p)
      BY <1>1
    <3>2. Filling(p) /\ Keeps(read[p]) /\ read[p] /= Unreadable /\ \A q \in Procs : Filling(q) => q = p
      BY <1>1, <2>1, <3>1 DEF SaidIsKept, Filling
    <3>3. file'["user"] = Written(p)
      BY <1>1, <2>3, <3>2 DEF FilesFit, Puts
    <3>4. Keeps(file["user"])'
      BY <1>1, <3>1, <3>2, <3>3, WrittenKeeps DEF Keeps
    <3>5. \A q \in Procs : ~Filling(q)'
      BY <2>1, <3>1, <3>2 DEF Filling
    <3> QED
      BY <3>4, <3>5 DEF SaidIsKept
  <2> QED
    BY <2>2, <2>3, <2>4, <2>5, RewritesKeeps
<1> QED
  BY <1>3, <1>4

\* The trust of a project is given and taken the same way.
LEMMA TrustKeeps ==
    ASSUME SettingsInv, NEW p \in Procs, TruncateTrust(p) \/ FillTrust(p)
    PROVE  SettingsInv'
<1> USE DEF TruncateTrust, FillTrust, Go
<1>1. /\ at[p] \in Trusting /\ at'[p] \in {"fill trust", "off"} /\ DOMAIN at' = Procs
      /\ \A q \in Procs \ {p} : at'[q] = at[q]
      /\ ProcFits(p) /\ FilesFit /\ GivenByUser /\ SaidIsKept /\ FirstKept
      /\ job[p] \in Edits /\ job[p].kind /= "start"
  BY ZenonT(40), SettingsInputs DEF SettingsInv, FilesFit, ProcFits, JobFits, Trusting
<1>2. /\ UNCHANGED <<file, tmp, job, read, config, opened, told, said, wrote, during, autoEver>>
      /\ OnDisk' = OnDisk
      /\ (trustedEver => trustedEver')
  <2>1. UNCHANGED <<file, tmp, job, read, config, opened, told, said, wrote, during, autoEver>>
    OBVIOUS
  <2>2. trustedEver => trustedEver'
    BY Zenon
  <2> QED
    BY <2>1, <2>2 DEF OnDisk
<1>3. opened[p] = NoProvider /\ config[p] = NoSettings
  BY <1>1 DEF ProcFits, JobFits, Starting, Trusting
<1>4. lost' /= {} \/ lost' = lost
  OBVIOUS
<1>5. \A q \in Procs : Filling(q)' <=> Filling(q)
  BY <1>1, <1>2 DEF Filling, Trusting
<1>6. SaidIsKept'
  BY ONLY <1>1, <1>2, <1>4, <1>5 DEF SaidIsKept, Keeps
<1>7. FirstKept'
  <2>1. \A q \in Procs : (at'[q] = "fill" => at[q] = "fill") /\ (Tearing(q)' => Tearing(q))
    BY <1>1, <1>2 DEF Tearing
  <2> QED
    BY <1>1, <1>2, <2>1 DEF FirstKept, StartKeepsSettings, Unwritten
<1>8. FilesFit'
  BY <1>1, <1>2 DEF FilesFit
<1>9. ~trustedEver' => "here" \notin trust'
  <2>1. CASE TruncateTrust(p)
    BY <2>1 DEF TornTrust
  <2>2. CASE FillTrust(p)
    <3> SUFFICES ASSUME ~trustedEver' PROVE "here" \notin trust'
      OBVIOUS
    <3>1. ~trustedEver /\ ~(job[p].kind = "trust" /\ job[p].value = "here")
      BY <2>2, Zenon
    <3>2. "here" \notin read[p]
      BY <2>2, <3>1, <1>1 DEF ProcFits, NoTrustRead, Trusting
    <3>3. trust' = IF job[p].kind = "trust" THEN read[p] \cup {job[p].value} ELSE read[p] \ {job[p].value}
      BY <2>2
    <3> QED
      BY <3>1, <3>2, <3>3
  <2> QED
    BY <2>1, <2>2
<1>10. GivenByUser'
  BY <1>1, <1>2, <1>9 DEF GivenByUser
<1>11. JobFits(p)' /\ ReadFits(p)' /\ NoAutoRead(p)' /\ Meanwhile(p)'
  BY ONLY <1>1, <1>2, <1>3 DEF JobFits, ReadFits, NoAutoRead, Meanwhile, Starting, Rewriting, Trusting
<1>12. NoTrustRead(p)'
  BY ONLY <1>1, <1>2 DEF ProcFits, NoTrustRead, Starting, Trusting
<1>13. Writes(p)
  BY <1>1, <1>2, <1>3 DEF Writes
<1> QED
  BY <1>6, <1>7, <1>8, <1>10, <1>11, <1>12, <1>13, WritesKeeps DEF ProcFits

LEMMA SettingsStutter == SettingsInv /\ UNCHANGED settingsVars => SettingsInv'
<1> SUFFICES ASSUME SettingsInv, UNCHANGED settingsVars PROVE SettingsInv'
  OBVIOUS
<1> USE DEF settingsVars
<1>1. \A p \in Procs : ProcFits(p)'
  BY DEF SettingsInv, ProcFits, JobFits, ReadFits, NoAutoRead, NoTrustRead, Meanwhile, OnDisk
<1>2. FilesFit' /\ GivenByUser'
  BY DEF SettingsInv, FilesFit, GivenByUser
<1>3. SaidIsKept' /\ FirstKept'
  BY FilesStay DEF Filling, Tearing
<1>4. OpenedIsCurrent' /\ AutoWasAllowed' /\ AnnouncedHonestly'
  BY UpStays
<1> QED
  BY <1>1, <1>2, <1>3, <1>4 DEF SettingsInv

\* However many processes start, leave and are killed while commands rewrite the files
\* they read: a start never replaces settings, what a command said stays on file unless
\* two overlapped or one was killed, a runner opens with a key that was on file, nothing
\* is allowed without asking but by the user, and the announced model is on offer or
\* says what it replaces (app/config.py, app/setup.py, electromind/model_resolver.py).
THEOREM SettingsAreSound == SettingsSpec => []SettingsSound
<1>1. SettingsInv /\ [SettingsNext]_settingsVars => SettingsInv'
  <2> SUFFICES ASSUME SettingsInv, SettingsNext PROVE SettingsInv'
    BY SettingsStutter
  <2> PICK p \in Procs : \/ \E o \in Options : Launch(p, o)
                         \/ \E e \in Edits : Begin(p, e)
                         \/ \E q \in Requests, offer \in Offers : Announce(p, q, offer)
                         \/ ProcStep(p)
    BY DEF SettingsNext
  <2>1. CASE \E o \in Options : Launch(p, o)
    BY <2>1, LaunchKeeps
  <2>2. CASE \E e \in Edits : Begin(p, e)
    BY <2>2, BeginKeeps
  <2>3. CASE \E q \in Requests, offer \in Offers : Announce(p, q, offer)
    BY <2>3, AnnounceKeeps
  <2>4. CASE ProcStep(p)
    BY <2>4, OpenKeeps, LoadTrustKeeps, AdoptKeeps, ReadUserKeeps, ReadProjectKeeps, GoneKeeps, TmpKeeps,
       RenameKeeps, ProviderKeeps, TrustKeeps DEF ProcStep
  <2> QED
    BY <2>1, <2>2, <2>3, <2>4
<1>2. SettingsInv => SettingsSound
  <2> SUFFICES ASSUME SettingsInv PROVE SaidIsOnFile
    BY DEF SettingsInv, SettingsSound, FirstKept
  <2> SUFFICES ASSUME lost = {}, ~Writing PROVE Keeps(file["user"])
    BY DEF SaidIsOnFile, Keeps
  <2>1. \A p \in Procs : ~Filling(p)
    BY DEF Writing, Filling
  <2> QED
    BY <2>1 DEF SettingsInv, SaidIsKept
<1> QED
  BY SettingsStart, <1>1, <1>2, PTL DEF SettingsSpec

-----------------------------------------------------------------------------
(* A skill in the turns of a runner *)

SkillCatalogues == [gen : Nat, ver : Versions \cup {NoVersion, Broken, Gone}, ok : BOOLEAN]

TurnStates == [at : {"closed", "wanted", "idle", "begun", "activated", "model"},
               named : BOOLEAN, tried : BOOLEAN, fresh : BOOLEAN]

TurnTyped ==
    /\ lazily \in BOOLEAN /\ allowed \in BOOLEAN /\ skillFile \in Versions \cup {Broken, Gone}
    /\ service \in SkillCatalogues /\ viewed \in SkillCatalogues
    /\ agent \in [block : SkillCatalogues, before : Seq(Versions), tool : SkillCatalogues]
    /\ turn \in TurnStates /\ waiting \in Seq(BOOLEAN)
    /\ loaded \in BOOLEAN /\ thisRun \in BOOLEAN
    /\ skillsTold \in [sent : BOOLEAN, all : BOOLEAN]

\* Until the model is asked it was given nothing; what it may be given then is what the view
\* of the turn holds.
BodyOfView ==
    /\ turn.at \notin {"model", "idle"} => given = {}
    /\ turn.at \in {"closed", "wanted"} => agent = NoAgent /\ viewed = NoCatalogue
    /\ viewed.gen = 0 => viewed = NoCatalogue /\ agent.tool.ver \notin Versions
    /\ turn.at = "model" /\ agent.tool.ver \in Versions => agent.tool = viewed

LazyUntold == lazily => ~skillsTold.sent

FaultsCounted == turnFaults \in Nat

TurnInv == TurnTyped /\ BodyOfView /\ LazyUntold /\ TurnSound

LEMMA VersionsApart ==
  /\ NoVersion \notin Versions /\ Broken \notin Versions /\ Gone \notin Versions
  /\ NoVersion # Broken /\ NoVersion # Gone
  /\ NoCatalogue \in SkillCatalogues /\ NoCatalogue.ver \notin Versions /\ NoCatalogue.gen = 0
  /\ NoCatalogue.ver = NoVersion
BY TurnConstants DEF NoVersion, Broken, Gone, NoCatalogue, SkillCatalogues

\* A reload gives a catalogue of what is on disk.
LEMMA ReloadGives ==
  ASSUME TurnTyped
  PROVE  Reloaded \in SkillCatalogues /\ Reloaded.gen > 0 /\ Reloaded.ver = skillFile
BY DEF TurnTyped, Reloaded, SkillCatalogues

\* The view after it: the catalogue, or what it was.
LEMMA ViewGives ==
  ASSUME TurnTyped, BodyOfView, NEW cat \in SkillCatalogues, cat.gen > 0, cat.ver # NoVersion
  PROVE  /\ Viewing(cat) \in SkillCatalogues
         /\ cat.ver = Broken => Viewing(cat) = viewed
         /\ cat.ver # Broken => Viewing(cat).gen > 0
         /\ Viewing(cat).gen = 0 => Viewing(cat) = NoCatalogue /\ viewed = NoCatalogue
<1>1. Viewing(cat) \in {cat, viewed} /\ viewed \in SkillCatalogues
  BY DEF Viewing, TurnTyped
<1>2. Viewing(cat) = viewed =>
        cat.ver = Broken \/ [viewed EXCEPT !.gen = cat.gen] = cat \/ viewed = cat
  BY DEF Viewing
<1>3. viewed.gen \in Nat /\ cat.gen \in Nat
  BY <1>1 DEF SkillCatalogues
<1>4. ASSUME cat.ver # Broken, Viewing(cat).gen = 0 PROVE FALSE
  <2>1. Viewing(cat) = viewed
    BY <1>1, <1>3, <1>4
  <2>2. viewed = NoCatalogue
    BY <1>4, <2>1 DEF BodyOfView
  <2>3. viewed.ver = NoVersion /\ viewed.gen = 0
    BY <2>2, VersionsApart
  <2>4. [viewed EXCEPT !.gen = cat.gen].ver = viewed.ver
    BY <1>1 DEF SkillCatalogues
  <2> QED
    BY <1>2, <1>3, <1>4, <2>1, <2>3, <2>4
<1>5. cat.ver = Broken => Viewing(cat) = viewed
  BY DEF Viewing
<1>6. Viewing(cat).gen \in Nat
  BY <1>1, <1>3
<1> QED
  BY <1>1, <1>3, <1>4, <1>5, <1>6 DEF BodyOfView

LEMMA InitTurnInv == TurnInit => TurnInv
<1> SUFFICES ASSUME TurnInit PROVE TurnInv
  OBVIOUS
<1>1. (CHOOSE v \in Versions : TRUE) \in Versions
  BY TurnConstants
<1>2. /\ NoAgent = [block |-> NoCatalogue, before |-> <<>>, tool |-> NoCatalogue]
      /\ NoCatalogue \in SkillCatalogues
  BY VersionsApart DEF NoAgent
<1>3. TurnTyped
  BY <1>1, <1>2, EmptySeq DEF TurnInit, TurnTyped, TurnStates, NotRunning, NotTold
<1>4. BodyOfView /\ LazyUntold
  BY <1>2, VersionsApart DEF TurnInit, BodyOfView, LazyUntold, NotTold, NotRunning
<1>5. TurnSound
  BY <1>2 DEF TurnInit, TurnSound, OneBodyPerRun, TrustedOnly, RecordedFirst, TextAgreesWithTool,
              LoadedIsTold, NotRunning, NotTold
<1> QED
  BY <1>3, <1>4, <1>5 DEF TurnInv

\* Steps that leave the catalogues, the agent and what the model was given alone.
LEMMA SameSkill ==
  ASSUME TurnInv, UNCHANGED <<lazily, viewed, agent, loaded, thisRun, skillsTold, given, kept, drawn>>,
         allowed' \in BOOLEAN, skillFile' \in Versions \cup {Broken, Gone}, service' \in SkillCatalogues,
         turn' \in TurnStates, waiting' \in Seq(BOOLEAN),
         \/ turn' = turn
         \/ /\ turn'.at \notin {"model", "idle"} => given = {}
            /\ turn'.at \in {"closed", "wanted"} => turn.at \in {"closed", "wanted"}
            /\ turn'.at # "model"
  PROVE  TurnInv'
<1>1. TurnTyped'
  BY DEF TurnInv, TurnTyped
<1>2. BodyOfView' /\ LazyUntold'
  BY DEF TurnInv, BodyOfView, LazyUntold
<1>3. TurnSound'
  BY DEF TurnInv, TurnSound, OneBodyPerRun, TrustedOnly, RecordedFirst, TextAgreesWithTool, LoadedIsTold
<1> QED
  BY <1>1, <1>2, <1>3 DEF TurnInv

LEMMA OpenRunnerKeeps == ASSUME TurnInv, OpenRunnerOf PROVE TurnInv'
<1>1. /\ turn.at \in {"wanted", "closed"}
      /\ UNCHANGED <<lazily, allowed, skillFile, waiting, loaded, thisRun, skillsTold, given, kept, drawn>>
      /\ service' = Reloaded /\ viewed' = Viewing(service')
      /\ agent' = [NoAgent EXCEPT !.block = service',
                                  !.tool = IF HasSkill(service') THEN service' ELSE NoCatalogue]
      /\ turn' = [turn EXCEPT !.at = IF lazily THEN "activated" ELSE "idle"]
  BY DEF OpenRunnerOf, ghosts
<1>2. TurnTyped /\ BodyOfView /\ LazyUntold /\ TurnSound
  BY DEF TurnInv
<1>3. service' \in SkillCatalogues /\ service'.gen > 0 /\ service'.ver = skillFile
      /\ service'.ver # NoVersion
  BY <1>1, <1>2, ReloadGives, VersionsApart DEF TurnTyped
<1>4. /\ viewed' \in SkillCatalogues
      /\ viewed'.gen = 0 => viewed' = NoCatalogue /\ service'.ver = Broken
  BY <1>1, <1>2, <1>3, ViewGives
<1>5. /\ agent'.block = service' /\ agent'.before = <<>>
      /\ agent'.tool = IF HasSkill(service') THEN service' ELSE NoCatalogue
      /\ agent' \in [block : SkillCatalogues, before : Seq(Versions), tool : SkillCatalogues]
  BY <1>1, <1>3, EmptySeq, VersionsApart DEF NoAgent
<1>6. turn'.at \in {"activated", "idle"} /\ given = {} /\ turn' \in TurnStates
  BY <1>1, <1>2 DEF TurnTyped, BodyOfView, TurnStates
<1>7. TurnTyped'
  BY <1>1, <1>2, <1>3, <1>4, <1>5, <1>6 DEF TurnTyped
<1>8. BodyOfView'
  <2>1. service'.ver = Broken => agent'.tool.ver \notin Versions
    BY <1>5, VersionsApart
  <2> QED
    BY <1>1, <1>4, <1>6, <2>1 DEF BodyOfView
<1>9. TurnSound'
  <2>1. TextAgreesWithTool'
    BY <1>5 DEF TextAgreesWithTool
  <2>2. RecordedFirst'
    <3>1. Len(agent'.before) = 0 /\ given' = {}
      BY <1>1, <1>5, <1>6
    <3>2. \A i \in 1 .. Len(agent'.before) : FALSE
      BY <3>1
    <3> QED
      BY <3>1, <3>2 DEF RecordedFirst
  <2>3. turn'.at # "model"
    BY <1>6
  <2> QED
    BY <1>1, <1>2, <2>1, <2>2, <2>3 DEF TurnSound, OneBodyPerRun, TrustedOnly, LoadedIsTold
<1> QED
  BY <1>1, <1>2, <1>7, <1>8, <1>9 DEF TurnInv, LazyUntold

\* A Run that begins was given nothing yet.
LEMMA TurnBegins ==
  ASSUME TurnInv,
         UNCHANGED <<lazily, skillFile, allowed, service, viewed, agent, loaded, thisRun, skillsTold,
                     kept, drawn>>,
         turn' \in TurnStates, waiting' \in Seq(BOOLEAN),
         \/ turn'.at = "begun" /\ turn.at = "idle" /\ given' = {}
         \/ turn'.at = "wanted" /\ turn.at = "closed" /\ given' = given
         \/ turn' = turn /\ given' \in {given, {}} /\ (turn.at # "begun" => given' = given)
  PROVE  TurnInv'
<1>1. TurnTyped /\ BodyOfView /\ LazyUntold /\ TurnSound
  BY DEF TurnInv
<1>2. TurnTyped' /\ LazyUntold'
  BY <1>1 DEF TurnTyped, LazyUntold
<1>3. BodyOfView'
  BY <1>1 DEF BodyOfView
<1>4. TurnSound'
  BY <1>1 DEF TurnSound, OneBodyPerRun, TrustedOnly, RecordedFirst, TextAgreesWithTool, LoadedIsTold
<1> QED
  BY <1>2, <1>3, <1>4 DEF TurnInv

LEMMA MessageKeeps == ASSUME TurnInv, NEW named \in BOOLEAN, Message(named) PROVE TurnInv'
<1>1. /\ UNCHANGED <<lazily, skillFile, allowed, service, viewed, agent, loaded, thisRun, skillsTold,
                     kept, drawn>>
      /\ \/ /\ turn.at = "idle"
            /\ turn' = [turn EXCEPT !.at = "begun", !.named = named, !.tried = FALSE]
         \/ turn.at = "closed" /\ turn' = [NotRunning EXCEPT !.at = "wanted"]
         \/ turn.at \notin {"idle", "closed"} /\ UNCHANGED turn
      /\ given' = IF turn'.at = "begun" THEN {} ELSE given
      /\ waiting' \in {waiting, Append(waiting, named)}
  BY DEF Message
<1>2. turn \in TurnStates /\ waiting \in Seq(BOOLEAN)
  BY DEF TurnInv, TurnTyped
<1>3. turn' \in TurnStates /\ waiting' \in Seq(BOOLEAN)
  <2>1. Append(waiting, named) \in Seq(BOOLEAN)
    BY <1>2, AppendProperties
  <2>2. turn' \in TurnStates
    BY <1>1, <1>2 DEF TurnStates, NotRunning
  <2> QED
    BY <1>1, <1>2, <2>1, <2>2
<1>4. \/ turn'.at = "begun" /\ turn.at = "idle" /\ given' = {}
      \/ turn'.at = "wanted" /\ turn.at = "closed" /\ given' = given
      \/ turn' = turn /\ given' \in {given, {}} /\ (turn.at # "begun" => given' = given)
  BY <1>1, <1>2 DEF TurnStates, NotRunning
<1> QED
  BY <1>1, <1>3, <1>4, TurnBegins

LEMMA NextMessageKeeps == ASSUME TurnInv, NextMessage PROVE TurnInv'
<1>1. /\ UNCHANGED <<lazily, skillFile, allowed, service, viewed, agent, loaded, thisRun, skillsTold,
                     kept, drawn>>
      /\ turn.at = "idle" /\ waiting # <<>> /\ waiting' = Tail(waiting) /\ given' = {}
      /\ turn' = [turn EXCEPT !.at = "begun", !.named = Head(waiting), !.tried = FALSE]
  BY DEF NextMessage
<1>2. turn \in TurnStates /\ waiting \in Seq(BOOLEAN)
  BY DEF TurnInv, TurnTyped
<1>3. Head(waiting) \in BOOLEAN /\ Tail(waiting) \in Seq(BOOLEAN)
  BY <1>1, <1>2
<1>4. turn' \in TurnStates /\ turn'.at = "begun"
  BY <1>1, <1>2, <1>3 DEF TurnStates
<1> QED
  BY <1>1, <1>3, <1>4, TurnBegins

LEMMA ActivateNamedKeeps == ASSUME TurnInv, ActivateNamed PROVE TurnInv'
<1>1. /\ UNCHANGED <<lazily, skillFile, allowed, service, viewed, waiting, loaded, thisRun, skillsTold,
                     given>>
      /\ turn.at = "begun" /\ turn' = [turn EXCEPT !.at = "activated", !.tried = TRUE]
      /\ \/ /\ Resolves(viewed) /\ Recorded(viewed)
            /\ agent' = [agent EXCEPT !.before = <<viewed.ver>> \o @]
         \/ UNCHANGED <<agent, kept, drawn>>
  BY DEF ActivateNamed
<1>2. TurnTyped /\ BodyOfView /\ LazyUntold /\ TurnSound
  BY DEF TurnInv
<1>3. turn' \in TurnStates /\ turn'.at = "activated" /\ given = {}
  BY <1>1, <1>2 DEF TurnTyped, TurnStates, BodyOfView
<1>4. CASE UNCHANGED <<agent, kept, drawn>>
  BY <1>1, <1>2, <1>3, <1>4, SameSkill DEF TurnTyped
<1>5. CASE Resolves(viewed) /\ Recorded(viewed) /\ agent' = [agent EXCEPT !.before = <<viewed.ver>> \o @]
  <2>1. /\ viewed.ver \in Versions /\ viewed.ok = TRUE
        /\ kept' = kept \cup {viewed.ver} /\ drawn' = drawn \cup {TRUE}
    BY <1>2, <1>5 DEF Resolves, Recorded, TurnTyped, SkillCatalogues
  <2>2. /\ agent.before \in Seq(Versions)
        /\ agent' \in [block : SkillCatalogues, before : Seq(Versions), tool : SkillCatalogues]
        /\ agent'.block = agent.block /\ agent'.tool = agent.tool
        /\ agent'.before = <<viewed.ver>> \o agent.before
    <3>1. agent \in [block : SkillCatalogues, before : Seq(Versions), tool : SkillCatalogues]
      BY <1>2 DEF TurnTyped
    <3>2. <<viewed.ver>> \in Seq(Versions)
      BY <2>1
    <3>3. <<viewed.ver>> \o agent.before \in Seq(Versions)
      BY <3>1, <3>2, ConcatProperties
    <3> QED
      BY <1>5, <3>1, <3>3
  <2>3. \A i \in 1 .. Len(agent'.before) : agent'.before[i] \in kept'
    <3> DEFINE b == agent.before
               v == viewed.ver
    <3>1. b \in Seq(Versions) /\ v \in Versions /\ \A i \in 1 .. Len(b) : b[i] \in kept
      BY <1>2, <2>1, <2>2 DEF TurnSound, RecordedFirst
    <3> HIDE DEF b, v
    <3>2. ASSUME NEW i \in 1 .. Len(<<v>> \o b)
          PROVE  (<<v>> \o b)[i] = v \/ \E j \in 1 .. Len(b) : (<<v>> \o b)[i] = b[j]
      <4>1. CASE i = 1
        BY <3>1, <4>1
      <4>2. CASE i # 1
        <5>1. i - 1 \in 1 .. Len(b) /\ (<<v>> \o b)[i] = b[i - 1]
          BY <3>1, <4>2
        <5> QED
          BY <5>1
      <4> QED
        BY <4>1, <4>2
    <3> QED
      BY <2>1, <2>2, <3>1, <3>2 DEF b, v
  <2>4. TurnTyped'
    BY <1>1, <1>2, <1>3, <2>2 DEF TurnTyped
  <2>5. BodyOfView' /\ LazyUntold'
    BY <1>1, <1>2, <1>3, <2>2 DEF BodyOfView, LazyUntold
  <2>6. TurnSound'
    BY <1>1, <1>2, <1>3, <2>1, <2>2, <2>3
       DEF TurnSound, OneBodyPerRun, TrustedOnly, RecordedFirst, TextAgreesWithTool, LoadedIsTold
  <2> QED
    BY <2>4, <2>5, <2>6 DEF TurnInv
<1> QED
  BY <1>1, <1>4, <1>5

LEMMA PrepareTurnKeeps == ASSUME TurnInv, FaultsCounted, PrepareTurn PROVE TurnInv'
<1> DEFINE refused == turnFaults' # turnFaults \/ service'.ver = Broken
<1>1. /\ UNCHANGED <<lazily, skillFile, allowed, waiting, loaded, skillsTold, given, kept, drawn>>
      /\ turn.at = "activated" /\ service' \in {service, Reloaded}
      /\ ~refused => service' = Reloaded
      /\ viewed' = IF refused THEN viewed ELSE Viewing(service')
      /\ thisRun' = (refused /\ thisRun)
      /\ turn' = [turn EXCEPT !.at = "model", !.fresh = ~refused]
      /\ agent' = IF viewed'.gen > 0 THEN Refitted(agent, viewed') ELSE agent
  <2>1. turnFaults + 1 # turnFaults
    BY DEF FaultsCounted
  <2>2. service' = Reloaded \/ (service' = service /\ turnFaults' # turnFaults)
    BY <2>1 DEF PrepareTurn
  <2>3. /\ UNCHANGED <<lazily, skillFile, allowed, waiting, loaded, skillsTold, given, kept, drawn>>
        /\ turn.at = "activated"
        /\ viewed' = IF refused THEN viewed ELSE Viewing(service')
        /\ thisRun' = (refused /\ thisRun)
        /\ turn' = [turn EXCEPT !.at = "model", !.fresh = ~refused]
        /\ agent' = IF viewed'.gen > 0 THEN Refitted(agent, viewed') ELSE agent
    BY DEF PrepareTurn, ghosts
  <2> QED
    BY <2>2, <2>3
<1>2. TurnTyped /\ BodyOfView /\ LazyUntold /\ TurnSound
  BY DEF TurnInv
<1>3. given = {}
  BY <1>1, <1>2 DEF BodyOfView
<1>4. service' \in SkillCatalogues
  BY <1>1, <1>2, ReloadGives DEF TurnTyped
<1>5. /\ viewed' \in SkillCatalogues
      /\ viewed'.gen = 0 => viewed' = NoCatalogue /\ viewed = NoCatalogue
  <2>1. CASE refused
    BY <1>1, <1>2, <2>1 DEF TurnTyped, BodyOfView
  <2>2. CASE ~refused
    <3>1. service'.gen > 0 /\ service'.ver # NoVersion
      BY <1>1, <1>2, <2>2, ReloadGives, VersionsApart DEF TurnTyped
    <3> QED
      BY <1>1, <1>2, <1>4, <2>2, <3>1, ViewGives
  <2> QED
    BY <2>1, <2>2
<1>6. viewed'.gen \in Nat
  BY <1>5 DEF SkillCatalogues
<1>7. /\ agent' \in [block : SkillCatalogues, before : Seq(Versions), tool : SkillCatalogues]
      /\ agent'.before = agent.before
      /\ agent'.tool # NoCatalogue => agent'.tool = agent'.block
      /\ viewed'.gen > 0 => agent'.tool \in {NoCatalogue, viewed'}
      /\ viewed'.gen = 0 => agent' = agent
  <2>1. CASE viewed'.gen > 0
    <3>1. agent' = [agent EXCEPT !.block = viewed',
                                 !.tool = IF agent.tool # NoCatalogue \/ HasSkill(viewed') THEN viewed' ELSE agent.tool]
      BY <1>1, <2>1 DEF Refitted
    <3>2. agent \in [block : SkillCatalogues, before : Seq(Versions), tool : SkillCatalogues]
      BY <1>2 DEF TurnTyped
    <3>3. /\ agent'.block = viewed' /\ agent'.before = agent.before
          /\ agent'.tool = IF agent.tool # NoCatalogue \/ HasSkill(viewed') THEN viewed' ELSE agent.tool
          /\ agent' = [block |-> agent'.block, before |-> agent'.before, tool |-> agent'.tool]
      BY <3>1, <3>2
    <3>4. agent'.tool \in {NoCatalogue, viewed'} /\ agent'.tool \in SkillCatalogues
      BY <1>5, <3>3, VersionsApart
    <3>5. agent' \in [block : SkillCatalogues, before : Seq(Versions), tool : SkillCatalogues]
      BY <1>5, <3>2, <3>3, <3>4
    <3> QED
      BY <2>1, <3>3, <3>4, <3>5
  <2>2. CASE ~(viewed'.gen > 0)
    BY <1>1, <1>2, <1>6, <2>2 DEF TurnTyped, TurnSound, TextAgreesWithTool
  <2> QED
    BY <2>1, <2>2
<1>8. refused \in BOOLEAN
  OBVIOUS
<1> HIDE DEF refused
<1>9. turn' \in TurnStates /\ turn'.at = "model" /\ turn'.fresh = ~refused
  BY <1>1, <1>2, <1>8 DEF TurnTyped, TurnStates
<1>10. TurnTyped'
  BY <1>1, <1>2, <1>4, <1>5, <1>7, <1>8, <1>9 DEF TurnTyped
<1>11. BodyOfView' /\ LazyUntold'
  <2>1. viewed'.gen = 0 => viewed' = NoCatalogue /\ agent'.tool.ver \notin Versions
    BY <1>2, <1>5, <1>7, VersionsApart DEF BodyOfView
  <2>2. agent'.tool.ver \in Versions => agent'.tool = viewed'
    BY <1>6, <1>7, <2>1, VersionsApart
  <2> QED
    BY <1>1, <1>2, <1>9, <2>1, <2>2 DEF BodyOfView, LazyUntold
<1>12. TurnSound'
  BY <1>1, <1>2, <1>3, <1>7, <1>9
     DEF TurnSound, OneBodyPerRun, TrustedOnly, RecordedFirst, TextAgreesWithTool, LoadedIsTold
<1> QED
  BY <1>10, <1>11, <1>12 DEF TurnInv

LEMMA UseSkillKeeps == ASSUME TurnInv, UseSkill PROVE TurnInv'
<1>1. /\ UNCHANGED <<lazily, skillFile, allowed, service, viewed, agent, turn, waiting>>
      /\ turn.at = "model" /\ Resolves(agent.tool) /\ given' = given \cup {agent.tool.ver}
      /\ kept' = kept \cup {agent.tool.ver} /\ drawn' = drawn \cup {agent.tool.ok}
      /\ loaded' = TRUE /\ thisRun' = TRUE
      /\ skillsTold' = IF lazily THEN skillsTold ELSE [sent |-> TRUE, all |-> TRUE]
  BY DEF UseSkill, Recorded, StatePayload
<1>2. TurnTyped /\ BodyOfView /\ LazyUntold /\ TurnSound
  BY DEF TurnInv
<1>3. agent.tool.ver \in Versions /\ agent.tool.ok = TRUE /\ agent.tool = viewed
  BY <1>1, <1>2 DEF Resolves, TurnTyped, SkillCatalogues, BodyOfView
<1>4. TurnTyped'
  BY <1>1, <1>2 DEF TurnTyped
<1>5. BodyOfView' /\ LazyUntold'
  BY <1>1, <1>2 DEF BodyOfView, LazyUntold
<1>6. OneBodyPerRun' /\ TrustedOnly' /\ RecordedFirst' /\ TextAgreesWithTool'
  BY <1>1, <1>2, <1>3
     DEF TurnSound, OneBodyPerRun, TrustedOnly, RecordedFirst, TextAgreesWithTool
<1>7. LoadedIsTold'
  <2>1. lazily => ~skillsTold'.sent
    BY <1>1, <1>2 DEF LazyUntold
  <2>2. ~lazily => skillsTold'.sent /\ skillsTold'.all = TRUE
    BY <1>1
  <2> QED
    BY <1>1, <2>1, <2>2 DEF LoadedIsTold
<1> QED
  BY <1>4, <1>5, <1>6, <1>7 DEF TurnInv, TurnSound

LEMMA ShowSkillsKeeps == ASSUME TurnInv, ShowSkills PROVE TurnInv'
<1>1. /\ UNCHANGED <<lazily, skillFile, allowed, service, viewed, agent, turn, waiting, loaded, thisRun,
                     given, kept, drawn>>
      /\ ~lazily /\ skillsTold' = [sent |-> TRUE, all |-> loaded]
  BY DEF ShowSkills, StatePayload, ghosts
<1>2. TurnTyped /\ BodyOfView /\ LazyUntold /\ TurnSound
  BY DEF TurnInv
<1>3. TurnTyped' /\ BodyOfView' /\ LazyUntold'
  BY <1>1, <1>2 DEF TurnTyped, BodyOfView, LazyUntold
<1>4. TurnSound'
  BY <1>1, <1>2 DEF TurnSound, OneBodyPerRun, TrustedOnly, RecordedFirst, TextAgreesWithTool, LoadedIsTold
<1> QED
  BY <1>3, <1>4 DEF TurnInv

LEMMA StepTurnInv == TurnInv /\ FaultsCounted /\ [TurnNext]_turnVars => TurnInv'
<1> SUFFICES ASSUME TurnInv, FaultsCounted, [TurnNext]_turnVars PROVE TurnInv'
  OBVIOUS
<1>1. TurnTyped /\ BodyOfView
  BY DEF TurnInv
<1>2. CASE UNCHANGED turnVars
  BY <1>1, <1>2, SameSkill DEF turnVars, ghosts, TurnTyped
<1>3. CASE EditSkillFile
  <2>1. allowed' \in BOOLEAN /\ skillFile' \in Versions \cup {Broken, Gone}
    BY <1>1, <1>3 DEF EditSkillFile, TurnTyped
  <2> QED
    BY <1>1, <1>3, <2>1, SameSkill DEF EditSkillFile, ghosts, TurnTyped
<1>4. CASE OpeningFails
  <2>1. turn.at \in {"wanted", "closed"} /\ turn' = NotRunning
    BY <1>4 DEF OpeningFails
  <2>2. turn' \in TurnStates /\ turn'.at = "closed" /\ given = {}
    BY <1>1, <2>1 DEF NotRunning, TurnStates, BodyOfView
  <2> QED
    BY <1>1, <1>4, <2>1, <2>2, SameSkill DEF OpeningFails, ghosts, TurnTyped
<1>5. CASE NothingNamed
  <2>1. turn.at = "begun" /\ turn' = [turn EXCEPT !.at = "activated"]
    BY <1>5 DEF NothingNamed
  <2>2. turn' \in TurnStates /\ turn'.at = "activated" /\ given = {}
    BY <1>1, <2>1 DEF TurnTyped, TurnStates, BodyOfView
  <2> QED
    BY <1>1, <1>5, <2>1, <2>2, SameSkill DEF NothingNamed, ghosts, TurnTyped
<1>6. CASE TurnOver
  <2>1. turn.at = "model" /\ turn' = [turn EXCEPT !.at = "idle", !.fresh = FALSE]
    BY <1>6 DEF TurnOver
  <2>2. turn' \in TurnStates /\ turn'.at = "idle"
    BY <1>1, <2>1 DEF TurnTyped, TurnStates
  <2> QED
    BY <1>1, <1>6, <2>1, <2>2, SameSkill DEF TurnOver, ghosts, TurnTyped
<1>7. CASE OpenRunnerOf
  BY <1>7, OpenRunnerKeeps
<1>8. CASE \E named \in BOOLEAN : Message(named)
  BY <1>8, MessageKeeps
<1>9. CASE NextMessage
  BY <1>9, NextMessageKeeps
<1>10. CASE ActivateNamed
  BY <1>10, ActivateNamedKeeps
<1>11. CASE PrepareTurn
  BY <1>11, PrepareTurnKeeps
<1>12. CASE UseSkill
  BY <1>12, UseSkillKeeps
<1>13. CASE ShowSkills
  BY <1>13, ShowSkillsKeeps
<1> QED
  BY <1>2, <1>3, <1>4, <1>5, <1>6, <1>7, <1>8, <1>9, <1>10, <1>11, <1>12, <1>13 DEF TurnNext

\* Whatever is edited, refused or fails between the turns of a runner, a Run is given one body
\* of the skill, a trusted and recorded one, the system text agrees with the tool and the client
\* is told what was loaded (SkillRuntime, apply_to_agent, activate).
THEOREM TurnsAreSound == TurnSpec => []TurnSound
<1>1. TurnInit => FaultsCounted
  BY DEF TurnInit, FaultsCounted
<1>2. FaultsCounted /\ [TurnNext]_turnVars => FaultsCounted'
  <2>1. [TurnNext]_turnVars => turnFaults' = turnFaults \/ turnFaults' = turnFaults + 1
    <3>1. EditSkillFile \/ OpenRunnerOf \/ OpeningFails \/ NextMessage \/ NothingNamed
             => turnFaults' = turnFaults \/ turnFaults' = turnFaults + 1
      BY DEF EditSkillFile, OpenRunnerOf, OpeningFails, NextMessage, NothingNamed
    <3>2. ActivateNamed \/ PrepareTurn \/ UseSkill \/ ShowSkills \/ TurnOver
             => turnFaults' = turnFaults \/ turnFaults' = turnFaults + 1
      BY DEF ActivateNamed, PrepareTurn, UseSkill, ShowSkills, TurnOver
    <3>3. (\E named \in BOOLEAN : Message(named)) => turnFaults' = turnFaults
      BY DEF Message
    <3> QED
      BY <3>1, <3>2, <3>3 DEF TurnNext, turnVars
  <2> QED
    BY <2>1 DEF FaultsCounted
<1>3. TurnSpec => []TurnInv
  BY <1>1, <1>2, InitTurnInv, StepTurnInv, PTL DEF TurnSpec
<1>4. TurnInv => TurnSound
  BY DEF TurnInv
<1> QED
  BY <1>3, <1>4, PTL

-----------------------------------------------------------------------------
(* Two processes that install skills *)

ShelfEntries == [from : Sources \cup {"none", "hand"}, body : SkillTexts \cup {"none"}, trusted : BOOLEAN]

PanelJobs == [at : {"idle", "identified", "checked", "refused", "placed"}, op : {"none", "add", "update", "install"},
              src : Sources \cup {"none"}, saw : SkillTexts \cup {"none"}, name : Shelves \cup {"none"},
              trust : BOOLEAN, force : BOOLEAN, blur : BOOLEAN, blind : BOOLEAN]

PanelTyped ==
    /\ upstream \in [Sources -> [name : Shelves, body : SkillTexts]]
    /\ shelf \in [Shelves -> ShelfEntries] /\ meant \in [Shelves -> ShelfEntries]
    /\ working \in [Fronts -> PanelJobs]

\* Nothing is in the way of a command.
FreeFor(p) ==
    LET e == shelf[working[p].name] IN
    IF p = "wire" THEN ~(IsManaged(e) /\ e.from # working[p].src) ELSE e = NoEntry

\* What a command that nothing changed under knows: what its source holds, that nothing is in
\* its way, what it has put in place.
JobKnows(p) ==
    LET w == working[p] IN
    /\ w.at \in {"identified", "checked", "placed"} => w.src \in Sources
    /\ w.at \in {"identified", "checked", "placed"} /\ w.op = "add" =>
          /\ w.name \in Shelves
          /\ ~w.blur => upstream[w.src] = [name |-> w.name, body |-> w.saw]
    /\ w.at = "identified" => w.op = "add"
    /\ w.at = "checked" /\ w.op # "add" => w.force
    /\ w.at = "checked" /\ ~w.force /\ ~w.blur /\ ~w.blind => FreeFor(p)
    /\ w.at = "placed" /\ w.op = "add" /\ ~w.blur =>
          shelf[w.name] = [from |-> w.src, body |-> w.saw, trusted |-> FALSE]

\* No list can be sent while an entry does not parse, and none has been since.
Unlisted == spoilt # {} => behind

PanelInv == PanelTyped /\ (\A p \in Fronts : JobKnows(p)) /\ Unlisted /\ PanelSound

LEMMA PanelNames ==
  /\ "none" \notin Sources /\ "hand" \notin Sources
  /\ NoEntry \in ShelfEntries /\ ~IsManaged(NoEntry)
  /\ \A e \in ShelfEntries : ByHand(e.body) \in ShelfEntries /\ ~IsManaged(ByHand(e.body))
  /\ NoJob \in PanelJobs /\ NoJob.at = "idle"
BY PanelConstants DEF NoEntry, ShelfEntries, IsManaged, ByHand, NoJob, PanelJobs

\* A command goes on knowing what it knew when nothing changes, and claims no more when
\* something does.
LEMMA JobStays ==
  ASSUME NEW p \in Fronts, PanelTyped, JobKnows(p),
         \/ working'[p] = working[p] /\ UNCHANGED <<upstream, shelf>>
         \/ working'[p] = [working[p] EXCEPT !.blur = TRUE]
         \/ working'[p].at \in {"idle", "refused"}
  PROVE  JobKnows(p)'
<1>1. CASE working'[p] = working[p] /\ UNCHANGED <<upstream, shelf>>
  <2>1. FreeFor(p)' <=> FreeFor(p)
    BY <1>1 DEF FreeFor
  <2> QED
    BY <1>1, <2>1 DEF JobKnows
<1>2. CASE working'[p] = [working[p] EXCEPT !.blur = TRUE]
  <2> DEFINE w == working[p]
             v == working'[p]
  <2>1. working[p] \in PanelJobs
    BY DEF PanelTyped
  <2>2. /\ v.at = w.at /\ v.src = w.src /\ v.op = w.op /\ v.name = w.name /\ v.force = w.force
        /\ v.blur = TRUE
    BY <1>2, <2>1 DEF PanelJobs
  <2> QED
    BY <2>2 DEF JobKnows
<1>3. CASE working'[p].at \in {"idle", "refused"}
  BY <1>3 DEF JobKnows
<1> QED
  BY <1>1, <1>2, <1>3

\* What the steps of one process do to the other.
LEMMA BlurOthers ==
  ASSUME PanelTyped, NEW q
  PROVE  /\ Blurred(q) \in [Fronts -> PanelJobs]
         /\ \A p \in Fronts : p # q =>
               \/ Blurred(q)[p] = [working[p] EXCEPT !.blur = TRUE]
               \/ Blurred(q)[p] = working[p] /\ working[p].at = "idle"
         /\ q \in Fronts => Blurred(q)[q] = working[q]
<1>1. working \in [Fronts -> PanelJobs]
  BY DEF PanelTyped
<1>2. ASSUME NEW j \in PanelJobs PROVE [j EXCEPT !.blur = TRUE] \in PanelJobs
  BY DEF PanelJobs
<1>3. DOMAIN working = Fronts /\ \A p \in Fronts : working[p] \in PanelJobs
  BY <1>1
<1>4. \A p \in Fronts : Blurred(q)[p] = IF p # q /\ working[p].at # "idle" THEN [working[p] EXCEPT !.blur = TRUE]
                                        ELSE working[p]
  BY <1>3 DEF Blurred
<1>5. Blurred(q) \in [Fronts -> PanelJobs]
  BY <1>2, <1>3 DEF Blurred
<1> QED
  BY <1>4, <1>5

LEMMA InitPanelInv == PanelInit => PanelInv
<1> SUFFICES ASSUME PanelInit PROVE PanelInv
  OBVIOUS
<1>1. PICK n \in Shelves, e \in Stock : shelf = [[m \in Shelves |-> NoEntry] EXCEPT ![n] = e]
  BY DEF PanelInit
<1>2. shelf \in [Shelves -> ShelfEntries]
  <2>1. e \in ShelfEntries
    BY PanelConstants DEF ShelfEntries
  <2> QED
    BY <1>1, <2>1, PanelNames
<1>3. upstream \in [Sources -> [name : Shelves, body : SkillTexts]]
  <2>1. (CHOOSE m \in Shelves : TRUE) \in Shelves /\ (CHOOSE b \in SkillTexts : TRUE) \in SkillTexts
    BY <1>1, PanelConstants
  <2> QED
    BY <2>1 DEF PanelInit
<1>4. working \in [Fronts -> PanelJobs] /\ \A p \in Fronts : working[p].at = "idle"
  BY PanelNames DEF PanelInit
<1>5. \A p \in Fronts : JobKnows(p)
  BY <1>4 DEF JobKnows
<1>6. PanelSound
  BY <1>2 DEF PanelInit, PanelSound, TrustIsMeant, ChecksProtect, PanelCurrent
<1> QED
  BY <1>2, <1>3, <1>4, <1>5, <1>6 DEF PanelInit, PanelInv, PanelTyped, Unlisted

\* A step of process p that leaves the root alone.
LEMMA RootStays ==
  ASSUME PanelInv, NEW p \in Fronts, NEW w \in PanelJobs, working' = [working EXCEPT ![p] = w],
         UNCHANGED <<upstream, shelf, spoilt, meant, murky, clobbered>>,
         \/ UNCHANGED <<panel, behind>> /\ (p = "wire" => w.at # "idle")
         \/ SendList(p),
         JobKnows(p)'
  PROVE  PanelInv'
<1>1. PanelTyped /\ PanelSound
  BY DEF PanelInv
<1>2. PanelTyped' /\ working'[p] = w /\ \A q \in Fronts : q # p => working'[q] = working[q]
  BY <1>1 DEF PanelTyped
<1>3. \A q \in Fronts : JobKnows(q)'
  BY <1>1, <1>2, JobStays DEF PanelInv
<1>4. TrustIsMeant' /\ ChecksProtect'
  BY <1>1 DEF PanelSound, TrustIsMeant, ChecksProtect
<1>5. PanelCurrent'
  <2>1. CASE UNCHANGED <<panel, behind>> /\ (p = "wire" => w.at # "idle")
    BY <1>1, <1>2, <2>1 DEF PanelSound, PanelCurrent, Fronts
  <2>2. CASE SendList(p)
    BY <1>1, <1>2, <2>2 DEF PanelInv, Unlisted, PanelSound, PanelCurrent, SendList, Fronts
  <2> QED
    BY <2>1, <2>2
<1>6. Unlisted'
  BY DEF PanelInv, Unlisted, SendList
<1> QED
  BY <1>2, <1>3, <1>4, <1>5, <1>6 DEF PanelInv, PanelSound

\* A step of the user: what is going on is no longer certain, and the list may be out of date.
LEMMA UserKeeps ==
  ASSUME PanelInv, working' = Blurred("user"), UNCHANGED <<shelf, panel, meant, murky, clobbered>>,
         upstream' \in [Sources -> [name : Shelves, body : SkillTexts]],
         (behind' = behind /\ spoilt' = spoilt) \/ behind' = TRUE
  PROVE  PanelInv'
<1>2. working' = Blurred("user") /\ UNCHANGED <<shelf, panel, meant, murky, clobbered>>
  OBVIOUS
<1>3. PanelTyped /\ PanelSound
  BY DEF PanelInv
<1>4. "user" \notin Fronts
  BY DEF Fronts
<1>5. PanelTyped'
  BY <1>2, <1>3, BlurOthers DEF PanelTyped
<1>6. ASSUME NEW p \in Fronts PROVE JobKnows(p)' /\ (working'[p].at = "idle" => working[p].at = "idle")
  <2>1. JobKnows(p) /\ working[p] \in PanelJobs
    BY <1>3 DEF PanelInv, PanelTyped
  <2>2. \/ working'[p] = [working[p] EXCEPT !.blur = TRUE]
        \/ working'[p] = working[p] /\ working[p].at = "idle"
    BY <1>2, <1>3, <1>4, BlurOthers
  <2>3. working'[p].at = working[p].at
    BY <2>1, <2>2 DEF PanelJobs
  <2> QED
    BY <1>3, <2>1, <2>2, <2>3, JobStays
<1>7. TrustIsMeant' /\ ChecksProtect'
  BY <1>2, <1>3 DEF PanelSound, TrustIsMeant, ChecksProtect
<1>8. PanelCurrent' /\ Unlisted'
  BY <1>2, <1>3, <1>6 DEF PanelInv, Unlisted, PanelSound, PanelCurrent, Fronts
<1> QED
  BY <1>5, <1>6, <1>7, <1>8 DEF PanelInv, PanelSound

LEMMA PushKeeps == ASSUME PanelInv, NEW s \in Sources, Push(s) PROVE PanelInv'
<1>1. PICK n \in Shelves, b \in SkillTexts : upstream' = [upstream EXCEPT ![s] = [name |-> n, body |-> b]]
  BY DEF Push
<1>2. upstream' \in [Sources -> [name : Shelves, body : SkillTexts]]
  BY <1>1 DEF PanelInv, PanelTyped
<1> QED
  BY <1>2, UserKeeps DEF Push

LEMMA EditsEntryKeeps == ASSUME PanelInv, NEW n \in Shelves, EditsEntry(n) PROVE PanelInv'
BY UserKeeps DEF EditsEntry, PanelInv, PanelTyped

LEMMA IdentifyKeeps == ASSUME PanelInv, NEW p \in Fronts, NEW s \in Sources, Identify(p, s) PROVE PanelInv'
<1>1. PICK f \in Flags, typed \in Shelves :
        /\ f.own <=> typed # upstream[s].name
        /\ working' = [working EXCEPT ![p] = [at |-> "identified", op |-> "add", src |-> s,
                          saw |-> upstream[s].body, name |-> typed, trust |-> f.trust,
                          force |-> f.force, blur |-> f.own, blind |-> FALSE]]
  BY DEF Identify
<1> DEFINE w == [at |-> "identified", op |-> "add", src |-> s, saw |-> upstream[s].body, name |-> typed,
                 trust |-> f.trust, force |-> f.force, blur |-> f.own, blind |-> FALSE]
<1>2. UNCHANGED <<upstream, shelf, spoilt, panel, behind, meant, murky, clobbered>>
  BY DEF Identify
<1>3. upstream[s] \in [name : Shelves, body : SkillTexts] /\ working \in [Fronts -> PanelJobs]
  BY DEF PanelInv, PanelTyped
<1>4. w \in PanelJobs /\ w.at # "idle"
  BY <1>3, PanelConstants DEF PanelJobs
<1>5. working'[p] = w
  BY <1>1, <1>3
<1>6. ~f.own => upstream[s] = [name |-> typed, body |-> upstream[s].body]
  BY <1>1, <1>3
<1>7. JobKnows(p)'
  BY <1>2, <1>5, <1>6 DEF JobKnows
<1> QED
  BY <1>1, <1>2, <1>4, <1>7, RootStays

LEMMA CheckKeeps == ASSUME PanelInv, NEW p \in Fronts, Check(p) PROVE PanelInv'
<1> DEFINE w == [working[p] EXCEPT !.at = IF Conflict(p) THEN "refused" ELSE "checked",
                                   !.blind = (p = "cli" /\ spoilt # {})]
<1>1. /\ working[p].at = "identified"
      /\ UNCHANGED <<upstream, shelf, spoilt, panel, behind, meant, murky, clobbered>>
  BY DEF Check
<1>2. working \in [Fronts -> PanelJobs] /\ working[p] \in PanelJobs /\ JobKnows(p)
  BY DEF PanelInv, PanelTyped
<1>3. w \in PanelJobs /\ w.at \in {"refused", "checked"} /\ (w.at = "checked" => ~Conflict(p))
  BY <1>2 DEF PanelJobs
<1>4. /\ w.src = working[p].src /\ w.op = working[p].op /\ w.name = working[p].name
      /\ w.saw = working[p].saw /\ w.force = working[p].force /\ w.blur = working[p].blur
  BY <1>2 DEF PanelJobs
<1>5. working' = [working EXCEPT ![p] = w] /\ working'[p] = w
  BY <1>2 DEF Check
<1>6. w.blind = (p = "cli" /\ spoilt # {})
  BY <1>2 DEF PanelJobs
<1> HIDE DEF w
<1>7. ~Conflict(p) /\ ~w.force /\ ~w.blind => FreeFor(p)
  BY <1>4, <1>6 DEF Conflict, FreeFor, Fronts
<1>8. FreeFor(p)' <=> FreeFor(p)
  BY <1>1, <1>4, <1>5 DEF FreeFor
<1>9. JobKnows(p)'
  BY <1>1, <1>2, <1>3, <1>4, <1>5, <1>7, <1>8 DEF JobKnows
<1> QED
  BY <1>1, <1>3, <1>5, <1>9, RootStays

\* A command that is not an add, before it fetches.
LEMMA UncheckedKeeps ==
  ASSUME PanelInv, NEW p \in Fronts, NEW op \in {"update", "install"}, NEW s \in Sources, NEW n \in Shelves,
         working' = [working EXCEPT ![p] = Unchecked(op, s, n)],
         UNCHANGED <<upstream, shelf, spoilt, panel, behind, meant, murky, clobbered>>
  PROVE  PanelInv'
<1> DEFINE w == Unchecked(op, s, n)
<1>1. w = [at |-> "checked", op |-> op, src |-> s, saw |-> "none", name |-> n,
           trust |-> FALSE, force |-> TRUE, blur |-> FALSE, blind |-> FALSE]
  BY DEF Unchecked
<1>2. w \in PanelJobs /\ w.at # "idle"
  BY <1>1 DEF PanelJobs
<1>3. working'[p] = w
  BY DEF PanelInv, PanelTyped
<1> HIDE DEF w
<1>4. JobKnows(p)'
  BY <1>1, <1>3 DEF JobKnows
<1> QED
  BY <1>2, <1>4, RootStays DEF w

\* A step that gives one name another entry.
LEMMA ShelfChanges ==
  ASSUME PanelInv, NEW p \in Fronts, NEW w \in PanelJobs, NEW n \in Shelves, NEW e \in ShelfEntries,
         shelf' = [shelf EXCEPT ![n] = e], UNCHANGED upstream,
         working' = [Blurred(p) EXCEPT ![p] = w], JobKnows(p)',
         meant' \in [Shelves -> ShelfEntries], \A m \in Shelves : m # n => meant'[m] = meant[m],
         \A m \in Shelves : m # n /\ m \in murky => m \in murky',
         IsManaged(e) /\ e.trusted /\ n \notin murky' => meant'[n] = e,
         ~clobbered', spoilt' \subseteq spoilt,
         \/ p = "wire" /\ w.at # "idle" /\ (behind => behind')
         \/ p # "wire" /\ behind'
         \/ SendList(p)
  PROVE  PanelInv'
<1>1. PanelTyped /\ PanelSound
  BY DEF PanelInv
<1>2. /\ Blurred(p) \in [Fronts -> PanelJobs]
      /\ \A q \in Fronts : q # p =>
               \/ Blurred(p)[q] = [working[q] EXCEPT !.blur = TRUE]
               \/ Blurred(p)[q] = working[q] /\ working[q].at = "idle"
  BY <1>1, BlurOthers
<1>3. working' \in [Fronts -> PanelJobs] /\ working'[p] = w
      /\ \A q \in Fronts : q # p => working'[q] = Blurred(p)[q]
  BY <1>2
<1>4. PanelTyped'
  BY <1>1, <1>3 DEF PanelTyped
<1>5. \A q \in Fronts : JobKnows(q)'
  BY <1>1, <1>2, <1>3, JobStays DEF PanelInv
<1>6. TrustIsMeant'
  <2>1. shelf'[n] = e /\ \A m \in Shelves : m # n => shelf'[m] = shelf[m]
    BY <1>1 DEF PanelTyped
  <2> QED
    BY <1>1, <2>1 DEF PanelSound, TrustIsMeant
<1>7. PanelCurrent'
  <2>1. CASE p = "wire" /\ w.at # "idle" /\ (behind => behind')
    BY <1>3, <2>1 DEF PanelCurrent
  <2>2. CASE p # "wire" /\ behind'
    BY <2>2 DEF PanelCurrent
  <2>3. CASE SendList(p)
    <3>1. CASE p = "wire"
      BY <2>3, <3>1 DEF SendList, PanelCurrent, PanelInv, Unlisted
    <3>2. CASE p # "wire"
      <4>1. panel' = panel /\ behind' = (behind \/ shelf' # shelf)
        BY <2>3, <3>2 DEF SendList
      <4>2. working["wire"] \in PanelJobs /\ "wire" \in Fronts
        BY <1>1 DEF PanelTyped, Fronts
      <4>3. working'["wire"].at = working["wire"].at
        BY <1>2, <1>3, <3>2, <4>2 DEF PanelJobs
      <4> QED
        BY <1>1, <4>1, <4>3 DEF PanelSound, PanelCurrent
    <3> QED
      BY <3>1, <3>2
  <2> QED
    BY <2>1, <2>2, <2>3
<1>8. Unlisted'
  BY DEF PanelInv, Unlisted, SendList
<1> QED
  BY <1>4, <1>5, <1>6, <1>7, <1>8 DEF PanelInv, PanelSound, ChecksProtect

LEMMA PlaceKeeps == ASSUME PanelInv, NEW p \in Fronts, Place(p) PROVE PanelInv'
<1> DEFINE s == working[p].src
           n == upstream[s].name
           old == shelf[n]
           e == [from |-> s, body |-> upstream[s].body, trusted |-> FALSE]
           w == [working[p] EXCEPT !.at = "placed"]
<1>1. PanelTyped /\ PanelSound /\ JobKnows(p) /\ working[p] \in PanelJobs
  BY DEF PanelInv, PanelTyped
<1>2. /\ working[p].at = "checked" /\ shelf' = [shelf EXCEPT ![n] = e]
      /\ working' = [Blurred(p) EXCEPT ![p].at = "placed"]
      /\ behind' = (behind \/ p # "wire")
      /\ spoilt' \subseteq spoilt
      /\ clobbered' = (clobbered \/ (~working[p].force /\ ~working[p].blur /\ ~working[p].blind
                                   /\ IF p = "wire" THEN IsManaged(old) /\ old.from # s ELSE old # NoEntry))
      /\ UNCHANGED <<upstream, meant, murky>>
  BY DEF Place, Fetched
<1>3. s \in Sources /\ upstream[s] \in [name : Shelves, body : SkillTexts]
  BY <1>1, <1>2 DEF JobKnows, PanelTyped
<1>4. n \in Shelves /\ e \in ShelfEntries
  BY <1>3 DEF ShelfEntries
<1>5. Blurred(p) \in [Fronts -> PanelJobs] /\ Blurred(p)[p] = working[p]
  BY <1>1, BlurOthers
<1>6. working' = [Blurred(p) EXCEPT ![p] = w]
  BY <1>2, <1>5
<1>7. /\ w \in PanelJobs /\ w.at = "placed" /\ w.src = s /\ w.op = working[p].op /\ w.name = working[p].name
      /\ w.saw = working[p].saw /\ w.force = working[p].force /\ w.blur = working[p].blur
  BY <1>1 DEF PanelJobs
<1>8. ~working[p].force /\ ~working[p].blur /\ ~working[p].blind
        => working[p].op = "add" /\ n = working[p].name /\ FreeFor(p)
  BY <1>1, <1>2 DEF JobKnows
<1>9. ~clobbered'
  BY <1>1, <1>2, <1>8 DEF FreeFor, PanelSound, ChecksProtect
<1>10. JobKnows(p)'
  <2>1. working'[p] = w /\ shelf'[n] = e
    <3>1. shelf \in [Shelves -> ShelfEntries]
      BY <1>1 DEF PanelTyped
    <3> HIDE DEF w, s, n, e
    <3> QED
      BY <1>2, <1>4, <1>5, <1>6, <3>1
  <2>2. working[p].op = "add" =>
          /\ w.name \in Shelves
          /\ ~w.blur => upstream[s] = [name |-> w.name, body |-> w.saw]
    BY <1>1, <1>2, <1>7 DEF JobKnows
  <2>3. ASSUME w.op = "add", ~w.blur
        PROVE  shelf'[w.name] = [from |-> s, body |-> w.saw, trusted |-> FALSE]
    <3>1. upstream[s] = [name |-> w.name, body |-> w.saw]
      BY <1>7, <2>2, <2>3
    <3>2. n = w.name /\ upstream[s].body = w.saw
      BY <3>1
    <3> HIDE DEF w, s, n
    <3> QED
      BY <2>1, <3>2
  <2> HIDE DEF w, s, n, e
  <2> QED
    BY <1>2, <1>3, <1>7, <2>1, <2>2, <2>3 DEF JobKnows
<1>11. meant' \in [Shelves -> ShelfEntries] /\ e.trusted = FALSE
  BY <1>1, <1>2 DEF PanelTyped
<1>12. (p = "wire" /\ w.at # "idle" /\ (behind => behind')) \/ (p # "wire" /\ behind')
  BY <1>2, <1>7
<1> HIDE DEF n, e, w, s
<1> QED
  BY <1>2, <1>4, <1>6, <1>7, <1>9, <1>10, <1>11, <1>12, ShelfChanges

LEMMA TrustedEntry ==
  ASSUME NEW x \in ShelfEntries
  PROVE  /\ [x EXCEPT !.trusted = TRUE] \in ShelfEntries
         /\ [x EXCEPT !.trusted = TRUE] = [from |-> x.from, body |-> x.body, trusted |-> TRUE]
<1>1. x \in [from : Sources \cup {"none", "hand"}, body : SkillTexts \cup {"none"}, trusted : BOOLEAN]
  BY DEF ShelfEntries
<1>2. [x EXCEPT !.trusted = TRUE] \in ShelfEntries
  BY <1>1 DEF ShelfEntries
<1>3. [x EXCEPT !.trusted = TRUE] = [from |-> x.from, body |-> x.body, trusted |-> TRUE]
  <2> DEFINE y == [x EXCEPT !.trusted = TRUE]
  <2>1. y.from = x.from /\ y.body = x.body /\ y.trusted = TRUE
    BY <1>1
  <2>2. y \in ShelfEntries
    BY <1>2
  <2> HIDE DEF y
  <2>3. y = [from |-> x.from, body |-> x.body, trusted |-> TRUE]
    BY <2>1, <2>2 DEF ShelfEntries
  <2> QED
    BY <2>3 DEF y
<1> QED
  BY <1>2, <1>3

LEMMA TrustPlacedKeeps == ASSUME PanelInv, NEW p \in Fronts, TrustPlaced(p) PROVE PanelInv'
<1> DEFINE n == working[p].name
           w == [working[p] EXCEPT !.at = "refused"]
           e == [shelf[n] EXCEPT !.trusted = TRUE]
           m == [from |-> working[p].src, body |-> working[p].saw, trusted |-> TRUE]
<1>1. PanelTyped /\ PanelSound /\ JobKnows(p) /\ working[p] \in PanelJobs
  BY DEF PanelInv, PanelTyped
<1>2. w \in PanelJobs /\ w.at = "refused"
  BY <1>1 DEF PanelJobs
<1>3. working[p].at = "placed" /\ UNCHANGED <<upstream, spoilt, panel, clobbered>>
  BY DEF TrustPlaced
<1>4. CASE working[p].op = "add" /\ working[p].trust /\ IsManaged(shelf[n])
  <2>1. /\ shelf' = [shelf EXCEPT ![n] = e] /\ behind' = (behind \/ p # "wire")
        /\ meant' = [meant EXCEPT ![n] = m]
        /\ murky' = IF working[p].blur THEN murky \cup {n} ELSE murky \ {n}
        /\ working' = [Blurred(p) EXCEPT ![p].at = "refused"]
    BY <1>4 DEF TrustPlaced, Granted
  <2>2. n \in Shelves /\ working[p].src \in Sources
    BY <1>1, <1>3, <1>4 DEF JobKnows
  <2>3. ~working[p].blur => shelf[n] = [from |-> working[p].src, body |-> working[p].saw, trusted |-> FALSE]
    BY <1>1, <1>3, <1>4 DEF JobKnows
  <2>4. shelf[n] \in ShelfEntries /\ e \in ShelfEntries /\ m \in ShelfEntries
    <3>1. shelf[n] \in ShelfEntries /\ e \in ShelfEntries
      BY <1>1, <2>2, TrustedEntry DEF PanelTyped
    <3>2. working[p].saw \in SkillTexts \cup {"none"}
      BY <1>1 DEF PanelJobs
    <3>3. m \in ShelfEntries
      BY <2>2, <3>2 DEF ShelfEntries
    <3> QED
      BY <3>1, <3>3
  <2>5. ~working[p].blur => e = m
    <3>1. e = [from |-> shelf[n].from, body |-> shelf[n].body, trusted |-> TRUE]
      BY <2>4, TrustedEntry
    <3>2. ~working[p].blur => shelf[n].from = working[p].src /\ shelf[n].body = working[p].saw
      BY <2>3
    <3> HIDE DEF e
    <3> QED
      BY <3>1, <3>2
  <2>6. /\ meant' \in [Shelves -> ShelfEntries] /\ meant'[n] = m
        /\ \A k \in Shelves : k # n => meant'[k] = meant[k]
    BY <1>1, <2>1, <2>2, <2>4 DEF PanelTyped
  <2>7. n \notin murky' => meant'[n] = e
    BY <2>1, <2>5, <2>6
  <2>8. working' = [Blurred(p) EXCEPT ![p] = w]
    BY <1>1, <2>1, BlurOthers
  <2>9. JobKnows(p)'
    <3>1. working'[p].at = "refused"
      BY <1>1, <1>2, <2>8, BlurOthers
    <3> QED
      BY <1>1, <3>1, JobStays
  <2>10. (p = "wire" /\ w.at # "idle" /\ (behind => behind')) \/ (p # "wire" /\ behind')
    BY <1>2, <2>1
  <2>11. ~clobbered' /\ \A k \in Shelves : k # n /\ k \in murky => k \in murky'
    BY <1>1, <1>3, <2>1 DEF PanelSound, ChecksProtect
  <2> HIDE DEF n, e, m, w
  <2> QED
    BY <1>2, <1>3, <2>1, <2>2, <2>4, <2>6, <2>7, <2>8, <2>9, <2>10, <2>11, ShelfChanges
<1>5. CASE ~(working[p].op = "add" /\ working[p].trust /\ IsManaged(shelf[n]))
  <2>1. UNCHANGED <<shelf, behind, meant, murky>> /\ working' = [working EXCEPT ![p] = w]
    BY <1>5 DEF TrustPlaced
  <2>2. working'[p] = w
    BY <1>1, <2>1 DEF PanelTyped
  <2>3. JobKnows(p)'
    BY <1>1, <1>2, <2>2, JobStays
  <2> HIDE DEF w
  <2> QED
    BY <1>2, <1>3, <2>1, <2>3, RootStays
<1> QED
  BY <1>4, <1>5

LEMMA PanelTrustKeeps ==
  ASSUME PanelInv, NEW p \in Fronts, NEW n \in Shelves, NEW granted \in BOOLEAN, Trust(p, n, granted)
  PROVE  PanelInv'
<1> DEFINE e == [shelf[n] EXCEPT !.trusted = granted]
           w == working[p]
<1>1. PanelTyped /\ PanelSound /\ JobKnows(p) /\ w \in PanelJobs /\ w.at = "idle"
  BY DEF PanelInv, PanelTyped, Trust, Takes
<1>2. /\ shelf' = [shelf EXCEPT ![n] = e] /\ meant' = [meant EXCEPT ![n] = shelf'[n]]
      /\ murky' = murky \ {n} /\ working' = Blurred(p) /\ SendList(p)
      /\ UNCHANGED <<upstream, spoilt, clobbered>>
  BY DEF Trust
<1>3. e \in ShelfEntries /\ shelf'[n] = e
  <2>1. shelf \in [Shelves -> ShelfEntries]
    BY <1>1 DEF PanelTyped
  <2>2. shelf[n] \in ShelfEntries
    BY <2>1
  <2>3. e \in ShelfEntries
    BY <2>2 DEF ShelfEntries
  <2> HIDE DEF e
  <2> QED
    BY <1>2, <2>1, <2>3
<1>4. /\ meant' \in [Shelves -> ShelfEntries] /\ meant'[n] = e
      /\ \A k \in Shelves : k # n => meant'[k] = meant[k]
  BY <1>1, <1>2, <1>3 DEF PanelTyped
<1>5. working' = [Blurred(p) EXCEPT ![p] = w] /\ working'[p] = w
  BY <1>1, <1>2, BlurOthers
<1>6. JobKnows(p)'
  BY <1>1, <1>5, JobStays
<1>7. ~clobbered' /\ \A k \in Shelves : k # n /\ k \in murky => k \in murky'
  BY <1>1, <1>2 DEF PanelSound, ChecksProtect
<1> HIDE DEF e, w
<1> QED
  BY <1>1, <1>2, <1>3, <1>4, <1>5, <1>6, <1>7, ShelfChanges

LEMMA UninstallsKeeps == ASSUME PanelInv, NEW p \in Fronts, NEW n \in Shelves, Uninstalls(p, n) PROVE PanelInv'
<1> DEFINE w == working[p]
<1>1. PanelTyped /\ PanelSound /\ JobKnows(p) /\ w \in PanelJobs /\ w.at = "idle"
  BY DEF PanelInv, PanelTyped, Uninstalls, Takes
<1>2. PICK e \in Remains(shelf[n]) : shelf' = [shelf EXCEPT ![n] = e]
  BY DEF Uninstalls
<1>3. working' = Blurred(p) /\ SendList(p) /\ spoilt' \subseteq spoilt /\ UNCHANGED <<upstream, meant, murky, clobbered>>
  BY DEF Uninstalls
<1>4. shelf[n] \in ShelfEntries
  BY <1>1 DEF PanelTyped
<1>5. e \in ShelfEntries /\ (IsManaged(e) => e = shelf[n])
  BY <1>2, <1>4, PanelNames DEF Remains
<1>6. meant' \in [Shelves -> ShelfEntries] /\ (IsManaged(e) /\ e.trusted /\ n \notin murky' => meant'[n] = e)
  BY <1>1, <1>3, <1>5 DEF PanelTyped, PanelSound, TrustIsMeant
<1>7. working' = [Blurred(p) EXCEPT ![p] = w] /\ working'[p] = w
  BY <1>1, <1>3, BlurOthers
<1>8. JobKnows(p)'
  BY <1>1, <1>7, JobStays
<1>9. ~clobbered'
  BY <1>1, <1>3 DEF PanelSound, ChecksProtect
<1> HIDE DEF w
<1> QED
  BY <1>1, <1>2, <1>3, <1>5, <1>6, <1>7, <1>8, <1>9, ShelfChanges

LEMMA StepPanelInv == PanelInv /\ [PanelNext]_panelVars => PanelInv'
<1> SUFFICES ASSUME PanelInv, [PanelNext]_panelVars PROVE PanelInv'
  OBVIOUS
<1>0. PanelTyped /\ \A p \in Fronts : JobKnows(p)
  BY DEF PanelInv
<1>1. CASE UNCHANGED panelVars
  <2>1. \A p \in Fronts : JobKnows(p)'
    BY <1>0, <1>1, JobStays DEF panelVars
  <2>2. PanelTyped' /\ PanelSound'
    BY <1>1 DEF panelVars, PanelInv, PanelTyped, PanelSound, TrustIsMeant, ChecksProtect, PanelCurrent
  <2>3. Unlisted'
    BY <1>1 DEF panelVars, PanelInv, Unlisted
  <2> QED
    BY <2>1, <2>2, <2>3 DEF PanelInv
<1>2. CASE Reload
  <2>1. UNCHANGED <<upstream, shelf, spoilt, working, meant, murky, clobbered>> /\ SendList("wire")
    BY <1>2 DEF Reload
  <2>2. \A p \in Fronts : JobKnows(p)'
    BY <1>0, <2>1, JobStays
  <2>3. PanelTyped' /\ PanelSound'
    BY <2>1 DEF PanelInv, PanelTyped, PanelSound, TrustIsMeant, ChecksProtect, PanelCurrent, SendList
  <2>4. Unlisted'
    BY <2>1 DEF PanelInv, Unlisted, SendList
  <2> QED
    BY <2>2, <2>3, <2>4 DEF PanelInv
<1>3. ASSUME NEW s \in Sources, InstallNow(s) PROVE PanelInv'
  <2>1. "cli" \in Fronts /\ upstream[s].name \in Shelves
    BY <1>0 DEF Fronts, PanelTyped
  <2> QED
    BY <1>3, <2>1, UncheckedKeeps DEF InstallNow
<1>4. ASSUME NEW p \in Fronts, GivesUp(p) \/ Finish(p) PROVE PanelInv'
  <2>1. PICK w \in PanelJobs :
          /\ working' = [working EXCEPT ![p] = w] /\ w.at \in {"refused", "idle"}
          /\ UNCHANGED <<upstream, shelf, spoilt, meant, murky, clobbered>>
          /\ (UNCHANGED <<panel, behind>> /\ w.at = "refused") \/ SendList(p)
    <3>1. [working[p] EXCEPT !.at = "refused"] \in PanelJobs /\ [working[p] EXCEPT !.at = "refused"].at = "refused"
      BY <1>0 DEF PanelTyped, PanelJobs
    <3>2. CASE GivesUp(p)
      BY <3>1, <3>2 DEF GivesUp
    <3>3. CASE Finish(p)
      BY <3>3, PanelNames DEF Finish
    <3> QED
      BY <1>4, <3>2, <3>3
  <2>2. working'[p] = w
    BY <1>0, <2>1 DEF PanelTyped
  <2>3. JobKnows(p)'
    BY <1>0, <2>1, <2>2, JobStays
  <2> QED
    BY <2>1, <2>3, RootStays
<1>5. ASSUME NEW p \in Fronts, NEW n \in Shelves, Refetch(p, n) PROVE PanelInv'
  BY <1>5, UncheckedKeeps DEF Refetch, IsManaged
<1>6. CASE Escapes \/ Restarts
  <2>1. UNCHANGED <<upstream, shelf, spoilt, working, panel, meant, murky, clobbered>> /\ (behind => behind')
    BY <1>6 DEF Escapes, Restarts
  <2>2. \A p \in Fronts : JobKnows(p)'
    BY <1>0, <2>1, JobStays
  <2>3. PanelTyped' /\ PanelSound' /\ Unlisted'
    BY <2>1 DEF PanelInv, PanelTyped, PanelSound, TrustIsMeant, ChecksProtect, PanelCurrent, Unlisted
  <2> QED
    BY <2>2, <2>3 DEF PanelInv
<1> QED
  BY <1>1, <1>2, <1>3, <1>4, <1>5, <1>6, PushKeeps, EditsEntryKeeps, IdentifyKeeps, CheckKeeps, PlaceKeeps, TrustPlacedKeeps,
     PanelTrustKeeps, UninstallsKeeps DEF PanelNext

\* Whoever installs, updates, trusts or removes at the same time, whatever the sources become, and
\* through skills that do not parse and restarts of the wire process, a skill is trusted as the version its user meant, a check protects what it looked at and the
\* desktop shows the root as it is (wire.py, commands/skills.py, SkillInstaller).
THEOREM PanelIsSound == PanelSpec => []PanelSound
<1>1. PanelSpec => []PanelInv
  BY InitPanelInv, StepPanelInv, PTL DEF PanelSpec
<1>2. PanelInv => PanelSound
  BY DEF PanelInv
<1> QED
  BY <1>1, <1>2, PTL

=============================================================================
