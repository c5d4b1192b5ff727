----------------------------- MODULE TrainChain -----------------------------
(***************************************************************************)
(* The fixed DeepMD chain (skills/tools/deepmd/scripts): train, freeze,     *)
(* test, postprocess, descriptor PCA and the check of the whole package, as *)
(* one batch job that may fail, be interrupted or be killed at any step and *)
(* is then started again in the same directory.  Every file is known by the *)
(* run whose training it goes back to; 0 is a file that is not there.       *)
(***************************************************************************)
EXTENDS Naturals, Sequences

CONSTANTS Systems,  \* test systems in the order of their labels: 1..N
          MaxRuns   \* bound: starts of the chain

ASSUME ChainConstants == Systems \subseteq Nat \ {0} /\ Systems # {} /\ MaxRuns \in Nat

Kinds   == {"e", "e_peratom", "f"}      \* dp test -d: the files read later
Leaves  == {Kinds, Kinds \ {"e_peratom"}}  \* not every dp writes energies per atom
Origin  == 0..MaxRuns
PerTest == [Systems -> Origin]
Absent  == [s \in Systems |-> 0]
Trained == [run : Origin, whole : BOOLEAN]  \* a training, and whether it ran to its end
NoModel == [run |-> 0, whole |-> FALSE]
Options == <<"train", "freeze", "test", "post", "pca", "check">>  \* what --skip-* names

VARIABLES
  step,      \* where the chain is
  starts,    \* how often the chain was started: the number of the current run
  records,   \* <<command or step, status>> in the order they were made
  tested,    \* test systems done in this run
  apart,     \* --pca-plot-python: descriptors and their plot are two commands
  ckpt, curve, frozen,  \* checkpoint and lcurve.out of dp train, graph.pb
  raw, detail,          \* dp_test_details/*, and the aggregated detail files
  figs, post,           \* figures and postprocess_summary.json
  features, points, scatter, pca,  \* files of the PCA, its figure, its summary.json
  summary,   \* deepmd_chain_summary.json
  thin       \* history: a test of this run wrote fewer files than dp test can
chainVars == <<step, starts, records, tested, apart, ckpt, curve, frozen, raw, detail, figs, post,
               features, points, scatter, pca, summary, thin>>
trainFiles == <<ckpt, curve, frozen>>
testFiles  == <<raw, detail>>
postFiles  == <<figs, post>>
pcaFiles   == <<features, points, scatter, pca>>
chainFiles == <<trainFiles, testFiles, postFiles, pcaFiles>>

\* What matters later of the records in a summary.
Digest(rs) == [s \in {"skipped", "failed"} |-> \E i \in 1..Len(rs) : rs[i][2] = s]
Checked(rs) == rs # <<>> /\ rs[Len(rs)] = <<"check", "completed">>

ChainInit ==
  /\ step = "idle" /\ starts = 0 /\ records = <<>> /\ tested = {} /\ apart = FALSE
  /\ ckpt = NoModel /\ curve = 0 /\ frozen = NoModel
  /\ raw = [s \in Systems |-> [k \in Kinds |-> 0]] /\ detail = [k \in Kinds |-> Absent]
  /\ figs = [curve |-> 0, energy |-> Absent, force |-> Absent]
  /\ post = [ready |-> FALSE, curve |-> 0, energy |-> Absent, force |-> Absent]
  /\ features = 0 /\ points = 0 /\ scatter = 0 /\ pca = [ready |-> FALSE, model |-> 0]
  /\ summary = [status |-> "none", run |-> 0, has |-> Digest(<<>>), checked |-> FALSE] /\ thin = FALSE

-----------------------------------------------------------------------------
(* The chain's own bookkeeping *)

Begin ==
  /\ step = "idle" /\ starts < MaxRuns
  /\ starts' = starts + 1 /\ step' = "train"
  /\ records' = <<>> /\ tested' = {} /\ thin' = FALSE /\ apart' \in BOOLEAN
  /\ UNCHANGED <<chainFiles, summary>>

Told(status, rs) == [status |-> status, run |-> starts, has |-> Digest(rs), checked |-> Checked(rs)]

\* The finally block.
Conclude(status, rs) ==
  /\ step' = "idle" /\ records' = rs
  /\ summary' = Told(status, rs)

Noted(name, status) == Append(records, <<name, status>>)
GoesOn(next, rs) == step' = next /\ records' = rs /\ UNCHANGED summary

\* skipped_record
Skips(option, next) == step = option /\ GoesOn(next, Noted(option, "skipped"))

\* Which command starts at a step: it may end with an error before it writes anything else.
CommandAt ==
  [p \in {"train", "training", "freeze", "test", "post", "energy", "force", "report", "pca", "extract",
          "reduce", "draw", "pcasummary", "check"} |->
     CASE p = "training" -> "train" [] p \in {"energy", "force", "report"} -> "post"
       [] p \in {"extract", "reduce", "draw", "pcasummary"} -> "pca" [] OTHER -> p]

CommandFails ==
  /\ step \in DOMAIN CommandAt
  /\ Conclude("failed", Noted(CommandAt[step], "failed"))
  /\ UNCHANGED <<starts, tested, apart, chainFiles, thin>>

\* input.json, the frozen model or the test systems are missing.
InputMissing ==
  /\ step = "train" \/ (step = "test" /\ tested = {}) \/ (step = "model" /\ frozen = NoModel)
  /\ Conclude("failed", records)
  /\ UNCHANGED <<starts, tested, apart, chainFiles, thin>>

\* KeyboardInterrupt is none of the exceptions that are caught.
Interrupted ==
  /\ step # "idle" /\ Conclude("running", records)
  /\ UNCHANGED <<starts, tested, apart, chainFiles, thin>>

\* The batch system kills the job.
JobKilled ==
  /\ step # "idle" /\ step' = "idle"
  /\ UNCHANGED <<starts, records, tested, apart, chainFiles, summary, thin>>

-----------------------------------------------------------------------------
(* dp train, freeze and test *)

\* dp train writes its curve and its checkpoints anew while it starts.
TrainBegins ==
  /\ step = "train" /\ GoesOn("training", records)
  /\ curve' = starts /\ ckpt' \in {ckpt, [run |-> starts, whole |-> FALSE]}
  /\ UNCHANGED <<starts, tested, apart, frozen, testFiles, postFiles, pcaFiles, thin>>

TrainEnds ==
  /\ step = "training" /\ GoesOn("freeze", Noted("train", "completed"))
  /\ ckpt' = [run |-> starts, whole |-> TRUE]
  /\ UNCHANGED <<starts, tested, apart, curve, frozen, testFiles, postFiles, pcaFiles, thin>>

\* Mutant: a model that is already there counts as frozen.
FreezeQuietly ==
  /\ step = "freeze" /\ (frozen # NoModel \/ ckpt # NoModel)
  /\ GoesOn("model", Noted("freeze", "completed"))
  /\ frozen' = IF frozen # NoModel THEN frozen ELSE ckpt
  /\ UNCHANGED <<starts, tested, apart, ckpt, curve, testFiles, postFiles, pcaFiles, thin>>

\* An existing model is kept unless --overwrite-model says so.
Freeze ==
  /\ step = "freeze"
  /\ \/ /\ frozen # NoModel /\ GoesOn("model", Noted("freeze", "skipped")) /\ UNCHANGED frozen
     \/ /\ ckpt # NoModel /\ GoesOn("model", Noted("freeze", "completed")) /\ frozen' = ckpt
  /\ UNCHANGED <<starts, tested, apart, ckpt, curve, testFiles, postFiles, pcaFiles, thin>>

ModelThere ==
  /\ step = "model" /\ frozen # NoModel /\ GoesOn("test", records)
  /\ UNCHANGED <<starts, tested, apart, chainFiles, thin>>

NextSystem(s) == s \notin tested /\ \A u \in Systems \ tested : s <= u

\* dp test of one system; which files it leaves is dp's choice, older ones stay.
Test(s) ==
  /\ step = "test" /\ NextSystem(s)
  /\ \E written \in Leaves :
       /\ raw' = [raw EXCEPT ![s] = [k \in Kinds |-> IF k \in written THEN frozen.run ELSE @[k]]]
       /\ thin' = (thin \/ written # Kinds)
  /\ tested' = tested \cup {s}
  /\ GoesOn(IF tested' = Systems THEN "aggregate" ELSE "test", Noted("test", "completed"))
  /\ UNCHANGED <<starts, apart, trainFiles, detail, postFiles, pcaFiles>>

\* aggregate_detail_files: a kind no system has is not written, an older file of it stays.
Aggregated(k) ==
  IF \A s \in Systems : raw[s][k] = 0 THEN detail[k] ELSE [s \in Systems |-> raw[s][k]]

Aggregate ==
  /\ step = "aggregate" /\ GoesOn("post", records)
  /\ detail' = [k \in Kinds |-> Aggregated(k)]
  /\ UNCHANGED <<starts, tested, apart, trainFiles, raw, postFiles, pcaFiles, thin>>

-----------------------------------------------------------------------------
(* plot_deepmd_postprocess.py *)

Energies == IF detail["e_peratom"] # Absent THEN detail["e_peratom"] ELSE detail["e"]

PlotCurve ==
  /\ step = "post" /\ GoesOn("energy", records)
  /\ figs' = IF curve = 0 THEN figs ELSE [figs EXCEPT !.curve = curve]
  /\ UNCHANGED <<starts, tested, apart, trainFiles, testFiles, post, pcaFiles, thin>>

PlotEnergy ==
  /\ step = "energy" /\ GoesOn("force", records)
  /\ figs' = IF Energies = Absent THEN figs ELSE [figs EXCEPT !.energy = Energies]
  /\ UNCHANGED <<starts, tested, apart, trainFiles, testFiles, post, pcaFiles, thin>>

PlotForce ==
  /\ step = "force" /\ GoesOn("report", records)
  /\ figs' = IF detail["f"] = Absent THEN figs ELSE [figs EXCEPT !.force = detail["f"]]
  /\ UNCHANGED <<starts, tested, apart, trainFiles, testFiles, post, pcaFiles, thin>>

\* The summary is written either way; something missing is an error.
Report ==
  /\ step = "report"
  /\ post' = [ready |-> curve # 0 /\ Energies # Absent /\ detail["f"] # Absent,
              curve |-> curve, energy |-> Energies, force |-> detail["f"]]
  /\ IF post'.ready THEN GoesOn("pca", Noted("post", "completed"))
                    ELSE Conclude("failed", Noted("post", "failed"))
  /\ UNCHANGED <<starts, tested, apart, trainFiles, testFiles, figs, pcaFiles, thin>>

-----------------------------------------------------------------------------
(* deepmd_descriptor_pca.py *)

\* The second of two commands starts from what the first one wrote.
SecondCommand == <<"pca", "completed">> \in {records[i] : i \in 1..Len(records)}

\* The frames of all splits are found and read first; a missing split is an error.
ReadFrames ==
  /\ step = "pca" /\ GoesOn("extract", records)
  /\ UNCHANGED <<starts, tested, apart, chainFiles, thin>>

\* Descriptors are those of the model that is evaluated.
DescriptorsOf(model) == model.run

Extract ==
  /\ step = "extract" /\ GoesOn("reduce", records) /\ features' = DescriptorsOf(frozen)
  /\ UNCHANGED <<starts, tested, apart, trainFiles, testFiles, postFiles, points, scatter, pca, thin>>

Reduce ==
  /\ step = "reduce" /\ points' = features
  /\ GoesOn(IF apart THEN "pcasummary" ELSE "draw", records)
  /\ UNCHANGED <<starts, tested, apart, trainFiles, testFiles, postFiles, features, scatter, pca, thin>>

DrawScatter ==
  /\ step = "draw" /\ GoesOn("pcasummary", records) /\ scatter' = points
  /\ UNCHANGED <<starts, tested, apart, trainFiles, testFiles, postFiles, features, points, pca, thin>>

\* ready_for_review asks whether a figure is there, not which one; without a plot to make the
\* command does not fail for it.
PcaSummary ==
  /\ step = "pcasummary"
  /\ pca' = [ready |-> scatter # 0, model |-> IF SecondCommand THEN pca.model ELSE frozen.run]
  /\ GoesOn(IF apart /\ ~SecondCommand THEN "draw" ELSE "check", Noted("pca", "completed"))
  /\ UNCHANGED <<starts, tested, apart, trainFiles, testFiles, postFiles, features, points, scatter, thin>>

-----------------------------------------------------------------------------
(* check_deepmd_qa.py *)

\* Everything the check asks for is there and calls itself ready.
QaPasses ==
  /\ frozen # NoModel
  /\ post.ready /\ figs.curve # 0 /\ figs.energy # Absent /\ figs.force # Absent
  /\ pca.ready /\ points # 0 /\ features # 0 /\ scatter # 0

Check ==
  /\ step = "check"
  /\ IF QaPasses THEN Conclude("pass", Noted("check", "completed"))
                 ELSE Conclude("failed", Noted("check", "failed"))
  /\ UNCHANGED <<starts, tested, apart, chainFiles, thin>>

After == [o \in {"train", "freeze", "test", "post", "pca"} |->
            CASE o = "train" -> "freeze" [] o = "freeze" -> "model" [] o = "test" -> "post"
              [] o = "post" -> "pca" [] OTHER -> "check"]

\* --skip-*; a system that was tested is not untested.
SkipOption ==
  /\ \/ \E o \in DOMAIN After : (o = "test" => tested = {}) /\ (o = "pca" => ~SecondCommand)
                                /\ Skips(o, After[o])
     \/ step = "check" /\ Conclude("pass", Noted("check", "skipped"))
  /\ UNCHANGED <<starts, tested, apart, chainFiles, thin>>

ChainNext ==
  \/ Begin \/ SkipOption \/ CommandFails \/ InputMissing \/ Interrupted \/ JobKilled
  \/ TrainBegins \/ TrainEnds \/ Freeze \/ ModelThere \/ (\E s \in Systems : Test(s)) \/ Aggregate
  \/ PlotCurve \/ PlotEnergy \/ PlotForce \/ Report
  \/ ReadFrames \/ Extract \/ Reduce \/ DrawScatter \/ PcaSummary \/ Check

ChainSpec == ChainInit /\ [][ChainNext]_chainVars

-----------------------------------------------------------------------------
\* Every file has its type.
ChainTypeOK ==
  /\ starts \in Origin /\ tested \subseteq Systems /\ {ckpt, frozen} \subseteq Trained
  /\ curve \in Origin /\ detail \in [Kinds -> PerTest] /\ raw \in [Systems -> [Kinds -> Origin]]
  /\ {features, points, scatter, pca.model} \subseteq Origin /\ summary.run \in Origin

Latest == step = "idle" /\ summary.run = starts /\ starts > 0

\* A summary that says "pass" and names no skipped step stands for one package: the model is
\* that of this run's whole training, and curve, test results and map are that model's --
\* the test results if every dp test left all its files.
PassIsWhole ==
  (Latest /\ summary.status = "pass" /\ ~summary.has["skipped"]) =>
    /\ frozen = [run |-> starts, whole |-> TRUE]
    /\ post.curve = starts /\ figs.curve = starts /\ pca.model = starts /\ scatter = starts
    /\ ~thin => \A s \in Systems : post.energy[s] = starts /\ post.force[s] = starts
                                   /\ figs.energy[s] = starts /\ figs.force[s] = starts

\* Whatever was skipped, a "pass" with a completed check leaves a package the check accepts,
\* and a summary of the latest run says "pass" only if none of its commands failed.
PassIsChecked ==
  (Latest /\ summary.status = "pass") =>
    /\ ~summary.has["failed"]
    /\ summary.checked => QaPasses

\* Only a killed job leaves the summary of an earlier run behind, and a run that did not reach
\* its end does not leave "pass".
EndIsTold ==
  (step = "idle" /\ summary.run = starts /\ records # <<>>) =>
    /\ summary = Told(summary.status, records)
    /\ summary.status = "pass" <=> records[Len(records)][1] = "check" /\ ~summary.has["failed"]

\* What the chain's summary and the files beside it promise together.
ChainSound == ChainTypeOK /\ PassIsWhole /\ PassIsChecked /\ EndIsTold

\* Not so: a package the check accepts is the current model's.
VerdictIsCurrent ==
  (step = "idle" /\ QaPasses) => post.curve = frozen.run /\ pca.model = frozen.run
\* Not so: test results are those of the frozen model.
TestedIsCurrent ==
  (Latest /\ summary.status = "pass" /\ ~summary.has["skipped"]) =>
    \A s \in Systems : post.energy[s] = frozen.run /\ post.force[s] = frozen.run
\* Not so: the summary on disk is that of the latest run.
SummaryIsCurrent == step = "idle" => summary.run = starts
\* Not so: the figures are those the postprocess summary lists.
FiguresMatch == (step = "idle" /\ post.ready) => figs.curve = post.curve /\ figs.energy = post.energy
\* Not so: a package that calls itself ready has a map of its model.
ReadyMapDrawn == (step = "idle" /\ pca.ready) => scatter = pca.model
\* Not so: a model was frozen from a training that ran to its end.
FrozenIsWhole == frozen # NoModel => frozen.whole
=============================================================================
