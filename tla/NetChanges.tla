----------------------------- MODULE NetChanges -----------------------------
(***************************************************************************)
(* What a Run tells of the files it changed (app/wire.py run_user_turn,    *)
(* electromind/harness/mutations.py): a snapshot before and after every    *)
(* call of a write tool, the first and the last of a file kept, large      *)
(* contents in a bounded store, one FileChange per file when the Run ends. *)
(* The calls of a Run are serial (execution/tool_scheduler.py).            *)
(***************************************************************************)
EXTENDS Integers, FiniteSets, SequencesExt

CONSTANTS
    Paths,
    Texts,      \* contents kept in the snapshot itself
    Larges,     \* contents over SNAPSHOT_CONTENT_LIMIT or not text
    Huges,      \* larges over the whole store's MAX_TOTAL_BYTES
    MaxBlobs,   \* MAX_BLOBS of the store
    MaxCalls,   \* bound: calls in all Runs
    MaxRuns     \* bound: Runs

ASSUME StoreConstants == MaxBlobs \in Nat /\ Huges \subseteq Larges

Contents == Texts \cup Larges
Absent == "absent"
Failed == "failed"      \* MutationSnapshotError
Between == "idle"

ASSUME StoreContents == Contents \cap {Absent, Failed, "none"} = {}

VARIABLES
    files,    \* the sandbox's files
    run,      \* number of the Run, 0 before the first
    doing,    \* "idle", "run", or where the call in hand stands
    call,     \* the call in hand: [id, path, before, good]
    baseline, \* MutationTracker: path -> snapshot, or NoSnapshot
    current,
    invalid,  \* paths with an inexact change
    lastCall, \* path -> the last call that changed it
    blobs,    \* MutationBlobStore, oldest first
    reports,  \* the FileChanges of the last Run
    made      \* calls begun

\* History: each file when its first tracked call began and when its last
\* ended, the calls of this Run by path, files changed by a call that was
\* never recorded.
VARIABLES first, last, callsOf, unseen

changeVars == <<files, run, doing, call, baseline, current, invalid, lastCall, blobs,
                reports, made, first, last, callsOf, unseen>>
tracker == <<baseline, current, invalid, lastCall>>
changeHistory == <<first, last, callsOf, unseen>>

NoSnapshot == "none"
NoCall == [id |-> 0, path |-> NoSnapshot, before |-> Failed, good |-> FALSE]

\* MutationBlobStore.put: the oldest go while there are too many.
Stored(b, c) ==
    IF c \notin Larges \/ c \in ToSet(b) THEN b
    ELSE IF c \in Huges THEN <<>>
    ELSE IF Len(b) < MaxBlobs THEN Append(b, c) ELSE Append(Tail(b), c)

\* _capture_snapshot: what the file holds, kept if it is large; or a failure
\* other than absence.
Captured(p, snap, b) ==
    \/ snap = files[p] /\ b = Stored(blobs, files[p])
    \/ snap = Failed /\ b = blobs

SnapshotOf(snap) == IF snap = Failed THEN Absent ELSE snap
Resolvable(b, snap) == snap \in Larges => snap \in ToSet(b)

\* MutationTracker.track.
Track(c, after, exact) ==
    /\ invalid' = IF exact THEN invalid ELSE invalid \cup {c.path}
    /\ baseline' = [baseline EXCEPT ![c.path] = IF @ = NoSnapshot THEN SnapshotOf(c.before) ELSE @]
    /\ current' = [current EXCEPT ![c.path] = SnapshotOf(after)]
    /\ lastCall' = [lastCall EXCEPT ![c.path] = c.id]
    /\ last' = [last EXCEPT ![c.path] = files[c.path]]
    /\ callsOf' = [callsOf EXCEPT ![c.path] = @ \cup {c.id}]
-----------------------------------------------------------------------------
ChangesInit ==
    /\ files \in [Paths -> {Absent} \cup Texts]
    /\ run = 0 /\ doing = Between /\ call = NoCall /\ made = 0
    /\ baseline = [p \in Paths |-> NoSnapshot] /\ current = [p \in Paths |-> NoSnapshot]
    /\ invalid = {} /\ lastCall = [p \in Paths |-> 0]
    /\ blobs = <<>> /\ reports = {}
    /\ first = [p \in Paths |-> NoSnapshot] /\ last = [p \in Paths |-> NoSnapshot]
    /\ callsOf = [p \in Paths |-> {}] /\ unseen = {}

\* run_user_turn: the thread's tracker and store are emptied; the last call
\* of each file stays (MutationTracker.clear).
RunBegins ==
    /\ doing = Between /\ run < MaxRuns
    /\ run' = run + 1 /\ doing' = "run"
    /\ baseline' = [p \in Paths |-> NoSnapshot] /\ current' = [p \in Paths |-> NoSnapshot]
    /\ invalid' = {}
    /\ blobs' = <<>> /\ reports' = {}
    /\ first' = [p \in Paths |-> NoSnapshot] /\ last' = [p \in Paths |-> NoSnapshot]
    /\ callsOf' = [p \in Paths |-> {}] /\ unseen' = {}
    /\ UNCHANGED <<files, call, lastCall, made>>

\* tracked_execute_tool, up to the tool: the snapshot before.
CaptureBefore(p) ==
    /\ doing = "run" /\ made < MaxCalls
    /\ made' = made + 1
    /\ \E snap \in {files[p], Failed} :
          /\ Captured(p, snap, blobs')
          /\ call' = [id |-> made + 1, path |-> p, before |-> snap, good |-> TRUE]
    /\ first' = [first EXCEPT ![p] = IF @ = NoSnapshot THEN files[p] ELSE @]
    /\ doing' = "tool"
    /\ UNCHANGED <<files, run, tracker, reports, last, callsOf, unseen>>

\* The tool writes the file, deletes nothing, or is refused without a change.
ToolWrites(c) ==
    /\ doing = "tool"
    /\ files' = [files EXCEPT ![call.path] = c]
    /\ doing' = "after"
    /\ UNCHANGED <<run, call, tracker, blobs, reports, made, changeHistory>>

\* It fails: the file is as it was, or left truncated or half written.
ToolFails(c) ==
    /\ doing = "tool"
    /\ files' = [files EXCEPT ![call.path] = c]
    /\ call' = [call EXCEPT !.good = FALSE]
    /\ doing' = "after"
    /\ UNCHANGED <<run, tracker, blobs, reports, made, changeHistory>>

\* The Run's task is cancelled inside the tool: recorded all the same.
ToolCancelled(c) ==
    /\ doing = "tool"
    /\ files' = [files EXCEPT ![call.path] = c]
    /\ call' = [call EXCEPT !.good = FALSE]
    /\ doing' = "raise"
    /\ UNCHANGED <<run, tracker, blobs, reports, made, changeHistory>>

\* Mutant: a change is exact whenever its tool succeeded.
CaptureAfterTrusting ==
    /\ doing \in {"after", "raise"}
    /\ \E snap \in {files[call.path], Failed} :
          /\ Captured(call.path, snap, blobs')
          /\ Track(call, snap, call.good)
    /\ doing' = IF doing = "after" THEN "run" ELSE "flush"
    /\ call' = NoCall
    /\ UNCHANGED <<files, run, reports, made, first, unseen>>

\* The snapshot after; exact if the tool succeeded and both were captured.
CaptureAfter ==
    /\ doing \in {"after", "raise"}
    /\ \E snap \in {files[call.path], Failed} :
          /\ Captured(call.path, snap, blobs')
          /\ Track(call, snap, call.good /\ call.before /= Failed /\ snap /= Failed)
    /\ doing' = IF doing = "after" THEN "run" ELSE "flush"
    /\ call' = NoCall
    /\ UNCHANGED <<files, run, reports, made, first, unseen>>

\* The task is cancelled while a snapshot is awaited: nothing is recorded.
CaptureCancelled ==
    /\ doing \in {"tool", "after", "raise"}
    /\ unseen' = IF doing = "tool" THEN unseen ELSE unseen \cup {call.path}
    /\ call' = NoCall
    /\ doing' = "flush"
    /\ UNCHANGED <<files, run, tracker, blobs, reports, made, first, last, callsOf>>

\* A command, a sub-agent or the user changes a file: no tracker sees it.
ChangesUntracked(p, c) ==
    /\ doing \in {Between, "run"}
    /\ files' = [files EXCEPT ![p] = c]
    /\ UNCHANGED <<run, doing, call, tracker, blobs, reports, made, changeHistory>>

RunEnds ==
    /\ doing = "run"
    /\ doing' = "flush"
    /\ UNCHANGED <<files, run, call, tracker, blobs, reports, made, changeHistory>>

\* MutationTracker.net_change: inexact if any change of the file was, or if a
\* content is no longer in the store.
Net(p) ==
    [path |-> p, before |-> baseline[p], after |-> current[p], call |-> lastCall[p],
     exact |-> p \notin invalid /\ Resolvable(blobs, baseline[p]) /\ Resolvable(blobs, current[p])]

\* One FileChange per file, exact ones that change nothing left out.
Flush ==
    /\ doing = "flush"
    /\ reports' = {Net(p) : p \in {p \in Paths : baseline[p] /= NoSnapshot
                                  /\ ~(Net(p).exact /\ baseline[p] = current[p])}}
    /\ doing' = Between
    /\ UNCHANGED <<files, run, call, tracker, blobs, made, changeHistory>>

ChangesNext ==
    \/ RunBegins \/ CaptureAfter \/ CaptureCancelled \/ RunEnds \/ Flush
    \/ \E p \in Paths : CaptureBefore(p)
    \/ \E c \in Contents : ToolWrites(c)
    \/ \E c \in Contents \cup {Absent} : ToolFails(c) \/ ToolCancelled(c)
    \/ \E p \in Paths, c \in Texts \cup {Absent} : ChangesUntracked(p, c)

ChangesSpec == ChangesInit /\ [][ChangesNext]_changeVars
-----------------------------------------------------------------------------
Report(p) == {r \in reports : r.path = p}
Told == doing = Between /\ run > 0

\* An exact change names what the file held when the Run's first write call
\* began and when its last one ended, whatever failed and whatever others
\* wrote in between (FileMutationDelta.exact).
ExactIsTrue ==
    \A r \in reports : r.exact => r.before = first[r.path] /\ r.after = last[r.path]

\* A file whose recorded calls changed it has a change, exact or not; only
\* a snapshot that was cancelled leaves one out.
ChangedIsTold ==
    Told => \A p \in Paths : last[p] /= NoSnapshot /\ first[p] /= last[p] => Report(p) /= {} \/ p \in unseen

\* The content an exact change refers to can still be had when it is told.
ExactIsResolvable ==
    \A r \in reports : r.exact => Resolvable(blobs, r.before) /\ Resolvable(blobs, r.after)

\* A change is put down to a call of this Run that wrote the file.
OwnCall == \A r \in reports : r.call \in callsOf[r.path]

\* All of it, as one run checks it.
ChangesSound == ExactIsTrue /\ ChangedIsTold /\ ExactIsResolvable /\ OwnCall

\* Not so: "the mutation must never be silently unrecorded" (wire.py, the
\* handler of a failed tool). A cancel that arrives while the snapshot after
\* a write is awaited leaves the write without a record.
NeverUnrecorded == unseen = {}

\* Not so: an inexact change is told with a before it never saw: a failed
\* snapshot counts as an absent file.
BeforeIsTrue == \A r \in reports : r.before = first[r.path]
=============================================================================
