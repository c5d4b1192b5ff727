----------------------------- MODULE AtomicFile -----------------------------
(***************************************************************************)
(* A state file written and recovered through atomicfile.py: thread.toml,  *)
(* metainfo.json, the .jsonl stores. A write goes to a temporary file, the *)
(* file is copied to .bak, the temporary file replaces it. A reader that   *)
(* finds the file damaged takes .bak and moves the damaged file away.      *)
(*                                                                         *)
(* The callers differ in what they do when the file is not there:          *)
(*   "spec"    thread.toml: Thread.open writes a new default one           *)
(*   "log"     registry, intent log, records: _load starts empty           *)
(*   "lines", "json"  messages and submissions, metainfo: the .bak is      *)
(*                    tried anyway                                         *)
(* A content is the set of entries (settings, records, lines) it holds. Of *)
(* a damaged file of lines ("log", "lines") a reader takes what parses, if *)
(* that is at least half of the lines there are, and never looks beyond a  *)
(* file without lines (load_jsonl_recover).                                *)
(***************************************************************************)
EXTENDS Integers

CONSTANTS
    MaxEntries,  \* bound: entries ever written
    MaxFaults    \* bound: times the disk damages the file

ASSUME FileConstants == MaxEntries \in Nat \ {0} /\ MaxFaults \in Nat

VARIABLES
    kind,      \* which callers the file has
    main, bak, \* the file and its .bak
    mem,       \* the owner's content
    pen,       \* the owner's write in progress
    reader,    \* another process that lists or examines threads
    saved,     \* history: entries whose write has returned
    prior,     \* history: entries that two such writes had
    faults,    \* history: times the file was damaged
    poisoned,  \* history: a .bak is not the whole file it was made of
    skipped,   \* history: entries of lines that damage has left unreadable
    moved,     \* the file was moved away and not written since
    forgot     \* history: the owner has taken a moved file for a new one

fileVars == <<kind, main, bak, mem, pen, reader, saved, prior, faults, poisoned, skipped, moved, forgot>>

Kinds == {"spec", "log", "lines", "json"}
Direct == kind \in {"lines", "json"}
Lines == kind \in {"log", "lines"}
Entries == 1..MaxEntries
File == [is : {"missing", "bad", "ok"}, has : SUBSET Entries]
Missing == [is |-> "missing", has |-> {}]
Bad == [is |-> "bad", has |-> {}]
Good(c) == [is |-> "ok", has |-> c]
Down == [up |-> FALSE, has |-> {}]
NoPen == [at |-> "none", has |-> {}, src |-> Missing]

FileInit ==
    /\ kind \in Kinds
    /\ main = Missing /\ bak = Missing
    /\ mem = Down /\ pen = NoPen /\ reader = "none"
    /\ saved = {} /\ prior = {} /\ faults = 0 /\ skipped = {}
    /\ poisoned = FALSE /\ moved = FALSE /\ forgot = FALSE

-----------------------------------------------------------------------------
(* Reading *)

\* What a reader of this kind would find.
Readable ==
    IF main.is = "ok" THEN main.has
    ELSE IF bak.is = "ok" /\ (main.is = "bad" \/ Direct) THEN bak.has
    ELSE {}

\* A damaged file is renamed to .corrupt, unless the reader was content with a
\* .bak that has no lines.
MovedAway == main.is = "bad" /\ ~(Lines /\ bak = Good({}))

\* Mutant: the .bak is not looked at.
OpenWithoutBackup ==
    /\ ~mem.up
    /\ kind = "spec" => main.is = "ok"
    /\ mem' = [up |-> TRUE, has |-> main.has]
    /\ main' = IF main.is = "bad" THEN Missing ELSE main
    /\ moved' = (moved \/ main.is = "bad")
    /\ forgot' = (forgot \/ (main.is = "missing" /\ moved /\ ~Direct))
    /\ UNCHANGED <<kind, bak, pen, reader, saved, prior, faults, poisoned, skipped>>

\* The owner starts and reads the file; a damaged one is moved away.
Open ==
    /\ ~mem.up
    /\ kind = "spec" => main.is = "ok" \/ (main.is = "bad" /\ bak.is = "ok")
    /\ mem' = [up |-> TRUE, has |-> Readable]
    /\ main' = IF MovedAway THEN Missing ELSE main
    /\ moved' = (moved \/ MovedAway)
    /\ forgot' = (forgot \/ (main.is = "missing" /\ moved /\ ~Direct))
    /\ UNCHANGED <<kind, bak, pen, reader, saved, prior, faults, poisoned, skipped>>

\* Thread.open without a thread.toml: a new one, with the settings given at
\* its creation. Later openings do not give them again.
Create ==
    /\ ~mem.up /\ kind = "spec" /\ main.is = "missing"
    /\ LET settings == IF saved = {} THEN {1} ELSE {}
       IN  /\ mem' = [up |-> TRUE, has |-> settings]
           /\ main' = Good(settings)
           /\ saved' = saved \cup settings
    /\ forgot' = (forgot \/ moved)
    /\ moved' = FALSE
    /\ UNCHANGED <<kind, bak, pen, reader, prior, faults, poisoned, skipped>>

\* thread.toml damaged, no .bak: moved away, and the open fails.
OpenFails ==
    /\ ~mem.up
    /\ kind = "spec" /\ main.is = "bad" /\ bak.is # "ok"
    /\ main' = Missing /\ moved' = TRUE
    /\ UNCHANGED <<kind, bak, mem, pen, reader, saved, prior, faults, poisoned, skipped, forgot>>

\* Another process reads the file, finds it damaged ...
LookElsewhere ==
    /\ reader = "none" /\ MovedAway
    /\ reader' = "moving"
    /\ UNCHANGED <<kind, main, bak, mem, pen, saved, prior, faults, poisoned, skipped, moved, forgot>>

\* ... and moves away whatever is there by then.
Quarantine ==
    /\ reader = "moving"
    /\ reader' = "none"
    /\ main' = Missing
    /\ moved' = (moved \/ main.is # "missing")
    /\ UNCHANGED <<kind, bak, mem, pen, saved, prior, faults, poisoned, skipped, forgot>>

-----------------------------------------------------------------------------
(* Writing *)

\* The owner has a new entry and writes all it has to the temporary file.
BeginWrite(e) ==
    /\ mem.up /\ pen.at = "none" /\ e \notin mem.has \cup saved
    /\ mem' = [mem EXCEPT !.has = @ \cup {e}]
    /\ pen' = [at |-> "tmp", has |-> mem.has \cup {e}, src |-> Missing]
    /\ UNCHANGED <<kind, main, bak, reader, saved, prior, faults, poisoned, skipped, moved, forgot>>

\* What can be read of the entries c of a file that was cut or damaged.
Cut(c) == {Bad} \cup {Good(h) : h \in IF Lines THEN SUBSET c ELSE {}}

\* _maybe_backup: the copy truncates the .bak first.
BeginCopy ==
    /\ pen.at = "tmp" /\ main.is # "missing"
    /\ pen' = [pen EXCEPT !.at = "copying", !.src = main]
    /\ bak' \in Cut(main.has)
    /\ UNCHANGED <<kind, main, mem, reader, saved, prior, faults, poisoned, skipped, moved, forgot>>

\* The copy ends, or fails, which is ignored.
EndCopy ==
    /\ pen.at = "copying"
    /\ pen' = [pen EXCEPT !.at = "copied", !.src = Missing]
    /\ bak' \in {pen.src} \cup Cut(pen.src.has)
    /\ poisoned' = (poisoned \/ bak' # pen.src \/ bak'.is = "bad")
    /\ UNCHANGED <<kind, main, mem, reader, saved, prior, faults, skipped, moved, forgot>>

\* The .bak cannot be opened: it stays what it was, and the write goes on.
CopyFails ==
    /\ pen.at = "tmp" /\ main.is # "missing"
    /\ pen' = [pen EXCEPT !.at = "copied"]
    /\ poisoned' = TRUE
    /\ UNCHANGED <<kind, main, bak, mem, reader, saved, prior, faults, skipped, moved, forgot>>

\* os.replace: the new file is there, whole.
Replace ==
    /\ pen.at = "copied" \/ (pen.at = "tmp" /\ main.is = "missing")
    /\ main' = Good(pen.has)
    /\ saved' = saved \cup pen.has /\ prior' = prior \cup (saved \cap pen.has)
    /\ skipped' = skipped \ pen.has
    /\ pen' = NoPen /\ moved' = FALSE
    /\ UNCHANGED <<kind, bak, mem, reader, faults, poisoned, forgot>>

\* The temporary file cannot be written: it is removed, the error raised; the
\* owner's content has the entry and the next write will carry it.
WriteFails ==
    /\ pen.at = "tmp"
    /\ pen' = NoPen
    /\ UNCHANGED <<kind, main, bak, mem, reader, saved, prior, faults, poisoned, skipped, moved, forgot>>

\* The owner ends or crashes, at any step.
OwnerStops ==
    /\ mem.up
    /\ mem' = Down /\ pen' = NoPen
    /\ poisoned' = (poisoned \/ pen.at = "copying")
    /\ UNCHANGED <<kind, main, bak, reader, saved, prior, faults, skipped, moved, forgot>>

\* The disk damages the file.
Damage ==
    /\ faults < MaxFaults /\ main.is = "ok"
    /\ main' \in Cut(main.has) \ {main} /\ faults' = faults + 1
    /\ skipped' = IF main'.is = "ok" THEN skipped \cup (main.has \ main'.has) ELSE skipped
    /\ UNCHANGED <<kind, bak, mem, pen, reader, saved, prior, poisoned, moved, forgot>>

FileNext ==
    \/ Open \/ Create \/ OpenFails \/ LookElsewhere \/ Quarantine
    \/ \E e \in Entries : BeginWrite(e)
    \/ BeginCopy \/ EndCopy \/ CopyFails \/ Replace \/ WriteFails
    \/ OwnerStops \/ Damage

FileSpec == FileInit /\ [][FileNext]_fileVars

-----------------------------------------------------------------------------
(* Properties *)

\* Every variable keeps its type; the owner has nothing while it is down.
FileTypeOK ==
    /\ kind \in Kinds /\ main \in File /\ bak \in File
    /\ mem \in [up : BOOLEAN, has : SUBSET Entries] /\ (~mem.up => mem = Down)
    /\ pen \in [at : {"none", "tmp", "copying", "copied"}, has : SUBSET Entries, src : File]
    /\ (pen.at # "none" => mem.up) /\ reader \in {"none", "moving"}
    /\ saved \subseteq Entries /\ prior \subseteq saved /\ skipped \subseteq Entries
    /\ faults \in 0..MaxFaults
    /\ poisoned \in BOOLEAN /\ moved \in BOOLEAN /\ forgot \in BOOLEAN

\* Crashes alone cost nothing: while the disk damages nothing, the file holds
\* every entry whose write has returned, at every step of a write ("only a
\* complete old or a complete new file").
CrashesLoseNothing ==
    faults = 0 => saved \subseteq Readable /\ main.is # "bad"

\* One damage costs the last write at most, and lines that no longer parse, if the
\* .bak is the whole file it was made of and no owner has taken the moved file for
\* a new one. The damaged lines are skipped in silence; they are back when an owner
\* that still has them writes.
OneDamageCostsOneWrite ==
    /\ faults <= 1 /\ ~poisoned /\ pen.at # "copying" /\ ~forgot /\ (moved => Direct)
    => prior \ skipped \subseteq Readable

\* What atomicfile.py promises its callers, with the provisos it needs.
FileKept == FileTypeOK /\ CrashesLoseNothing /\ OneDamageCostsOneWrite

\* load_thread_toml: "never silently falls back to an empty configuration,
\* that would reset the thread to the defaults". The damaged file is moved
\* away by the first reader; the next open finds none and writes the defaults.
ConfigNotReset ==
    kind = "spec" /\ mem.up /\ ~poisoned /\ saved # {} => mem.has # {}
=============================================================================
