------------------------------- MODULE Batch -------------------------------
(***************************************************************************)
(* The batch scripts (runner/*.py, run_task_b_scaling.py).  Each runs      *)
(* runner/run_experiment.py in one subprocess after the other, picks the   *)
(* run ids out of their standard output, then has parser/metrics_parser.py *)
(* append one row per log to a summary, and feeds the summary to a report. *)
(* The scripts differ in what they do about a failed run, in where they    *)
(* look for its log, and in the report: that is a script here.             *)
(*                                                                         *)
(* A run is a subprocess that ends in one of Outcomes; Requests is its     *)
(* inside.  The configurations of a matrix and its iterations are numbered *)
(* through: how a configuration is filled in is left out.                  *)
(***************************************************************************)
EXTENDS Naturals, Sequences, SequencesExt

CONSTANTS Scripts,        \* the scripts that are run
          RunCount,       \* the runs of a batch: matrix times iterations
          ParserCanFail   \* whether metrics_parser.py may end without a row

Runs == 1 .. RunCount

\* onFailure: skip a run with an exit code other than 0, keep it, or abort.
\* places: the directories in which the logs of the runs are looked for.
Script(name, onFailure, places, report) ==
  [name |-> name, onFailure |-> onFailure, places |-> places, report |-> report]

\* setup_run_directories.
LogPlace == "result4"

BatchRun == Script("batch_run", "skip", {LogPlace}, "charts")
BatchRunV6 == Script("batch_run_v6", "skip", {LogPlace}, "charts")
StressTest == Script("stress_test_run", "skip", {LogPlace}, "charts")
MissingFaultTolerance == Script("missing_fault_tolerance_run", "skip", {LogPlace}, "charts")
MonolithicScaling == Script("monolithic_scaling_run", "skip", {LogPlace}, "charts")
RealBatch == Script("real_batch_run", "skip", {LogPlace}, "charts")
RealBatchMono == Script("real_batch_mono", "skip", {LogPlace}, "charts")
MissingExperiments == Script("run_missing_experiments", "skip", {LogPlace}, "none")
SweepLatency == Script("sweep_latency", "keep", {LogPlace}, "charts")
TaskBScaling == Script("run_task_b_scaling", "keep", {"logs", "results", LogPlace, "result5"}, "none")
Phase2A == Script("batch_run_phase2a", "skip", {"logs", "results"}, "dataset")
Phase2C == Script("failure_run_phase2c", "keep", {"logs", "results"}, "none")
\* It discards the output of its runs and parses nothing.
AllExperiments == Script("run_all_experiments", "abort", {}, "none")

ASSUME ConstantsAssumption ==
  /\ Scripts \subseteq {BatchRun, BatchRunV6, StressTest, MissingFaultTolerance,
                        MonolithicScaling, RealBatch, RealBatchMono, MissingExperiments,
                        SweepLatency, TaskBScaling, Phase2A, Phase2C, AllExperiments}
  /\ RunCount \in Nat /\ ParserCanFail \in BOOLEAN

\* How a run ends: after all its requests; by an exception or an unknown
\* architecture after "Starting run"; by an exception before it; by a signal,
\* which loses the buffered output.
Outcomes == {"completed", "raised", "refused", "killed"}
Failed(o) == o # "completed"
Announced(o) == o \in {"completed", "raised"}

VARIABLES
  script,    \* the script
  bpc,       \* what it does
  outcome,   \* how each run ended
  found,     \* run_log_info: the runs whose log is still to be parsed
  summary,   \* the runs of the rows of the CSV file, <<>> without a file
  unparsed,  \* the runs whose parser failed
  report     \* what became of the report

vars == <<script, bpc, outcome, found, summary, unparsed, report>>

Over == {"done", "aborted", "interrupted"}

TypeOK ==
  /\ script \in Scripts
  /\ bpc \in {"runs", "parsing", "printed"} \cup Over
  /\ outcome \in [Runs -> Outcomes \cup {"none", "running"}]
  /\ found \in Seq(Runs) /\ summary \in Seq(Runs)
  /\ unparsed \subseteq Runs
  /\ report \in {"none", "written", "missing"}

Init ==
  /\ script \in Scripts
  /\ bpc = "runs"
  /\ outcome = [r \in Runs |-> "none"]
  /\ found = <<>> /\ summary = <<>> /\ unparsed = {}
  /\ report = "none"

-----------------------------------------------------------------------------
(* The runs. *)

Pending == {r \in Runs : outcome[r] \in {"none", "running"}}
NextRun(r) == r \in Pending /\ \A q \in Pending : r <= q

\* The configuration is written and the subprocess started.
StartRun(r) ==
  /\ bpc = "runs" /\ NextRun(r) /\ outcome[r] = "none"
  /\ outcome' = [outcome EXCEPT ![r] = "running"]
  /\ UNCHANGED <<script, bpc, found, summary, unparsed, report>>

\* Whether the script notes the log of a run that ended so: the exit code comes
\* first, then the run id in the output.
Notes_Unchecked(o) == Announced(o) /\ script.places # {}
Notes(o) ==
  /\ Failed(o) => script.onFailure = "keep"
  /\ Announced(o) /\ script.places # {}

\* subprocess.run returns; check=True of run_all_experiments raises.
EndRun_NeverAborts(r) ==
  /\ bpc = "runs" /\ outcome[r] = "running"
  /\ \E o \in Outcomes :
       /\ outcome' = [outcome EXCEPT ![r] = o]
       /\ found' = IF Notes(o) THEN Append(found, r) ELSE found
  /\ UNCHANGED <<script, bpc, summary, unparsed, report>>
EndRun_Again(r) ==
  /\ bpc = "runs" /\ outcome[r] = "running"
  /\ \E o \in Outcomes :
       /\ outcome' = [outcome EXCEPT ![r] = IF Failed(o) THEN "none" ELSE o]
       /\ found' = IF Notes(o) THEN Append(found, r) ELSE found
  /\ UNCHANGED <<script, bpc, summary, unparsed, report>>
EndRun(r) ==
  /\ bpc = "runs" /\ outcome[r] = "running"
  /\ \E o \in Outcomes :
       /\ outcome' = [outcome EXCEPT ![r] = o]
       /\ found' = IF Notes(o) THEN Append(found, r) ELSE found
       /\ bpc' = IF Failed(o) /\ script.onFailure = "abort" THEN "aborted" ELSE bpc
  /\ UNCHANGED <<script, summary, unparsed, report>>

\* The loop is over.
RunsOver_Early ==
  /\ bpc = "runs" /\ "none" \notin {outcome[r] : r \in Runs}
  /\ bpc' = IF script.places = {} THEN "done" ELSE "parsing"
  /\ UNCHANGED <<script, outcome, found, summary, unparsed, report>>
RunsOver ==
  /\ bpc = "runs" /\ Pending = {}
  /\ bpc' = IF script.places = {} THEN "done" ELSE "parsing"
  /\ UNCHANGED <<script, outcome, found, summary, unparsed, report>>

-----------------------------------------------------------------------------
(* The summary and the report. *)

Located == LogPlace \in script.places

\* write_csv_summary appends.
Row_Rewritten(r) == <<r>>
Row(r) == Append(summary, r)

\* One metrics_parser.py, whose end the script does not look at; none is started
\* for a log that is not where the script looks.
Parse ==
  /\ bpc = "parsing" /\ found # <<>>
  /\ found' = Tail(found)
  /\ \/ ~Located /\ UNCHANGED <<summary, unparsed>>
     \/ Located /\ summary' = Row(Head(found)) /\ UNCHANGED unparsed
     \/ /\ Located /\ ParserCanFail
        /\ unparsed' = unparsed \cup {Head(found)} /\ UNCHANGED summary
  /\ UNCHANGED <<script, bpc, outcome, report>>

\* "summary generated at".
PrintSummary ==
  /\ bpc = "parsing" /\ found = <<>>
  /\ bpc' = "printed"
  /\ UNCHANGED <<script, outcome, found, summary, unparsed, report>>

\* The report scripts return and the dataset builder raises without a summary;
\* neither changes how the batch ends.
Report ==
  /\ bpc = "printed"
  /\ report' = IF script.report = "none" THEN "none"
               ELSE IF summary = <<>> THEN "missing" ELSE "written"
  /\ bpc' = "done"
  /\ UNCHANGED <<script, outcome, found, summary, unparsed>>

ScriptStep == \/ \E r \in Runs : StartRun(r)
              \/ RunsOver \/ Parse \/ PrintSummary \/ Report

\* Ctrl-C ends the script and the subprocess it waits for.
Interrupt ==
  /\ bpc \notin Over
  /\ bpc' = "interrupted"
  /\ outcome' = [r \in Runs |-> IF outcome[r] = "running" THEN "killed" ELSE outcome[r]]
  /\ UNCHANGED <<script, found, summary, unparsed, report>>

Next == \/ ScriptStep \/ (\E r \in Runs : EndRun(r)) \/ Interrupt
        \/ (bpc \in Over /\ UNCHANGED vars)

SafeSpec == Init /\ [][Next]_vars

\* The script runs on, and a run ends, as Requests shows.
Spec == SafeSpec /\ WF_vars(ScriptStep) /\ WF_vars(\E r \in Runs : EndRun(r))

-----------------------------------------------------------------------------
(* Properties. *)

\* The rows are those of different runs in the order of the matrix, so that the
\* report sees each iteration once; a script that looks at exit codes has none
\* of a failed run, and no script one of a run that never started.  Nothing is
\* parsed while runs are to come: an interrupted or aborted loop leaves its
\* finished runs on disk and in no summary.
RowsOfRuns ==
  /\ \A i, j \in DOMAIN summary : i < j => summary[i] < summary[j]
  /\ \A i \in DOMAIN summary :
       LET o == outcome[summary[i]] IN
         Announced(o) /\ (script.onFailure = "skip" => ~Failed(o))
  /\ summary # <<>> \/ unparsed # {} => Pending = {}

\* "Parse all metrics and generate summary CSV" (batch_run_phase2a.py:128), and
\* "summary generated at" (142): every completed run has a row by then, but those
\* whose parser failed.
SummaryGenerated ==
  bpc \in {"printed", "done"} /\ script.places # {} =>
    {r \in Runs : outcome[r] = "completed"} \subseteq unparsed \cup ToSet(summary)

\* What a script says last is true: that the summary is generated, provided the
\* script looks where the logs are, and "All experiments completed successfully".
ClosingLineTrue ==
  /\ Located => SummaryGenerated
  /\ bpc = "done" /\ script.onFailure = "abort" => \A r \in Runs : outcome[r] = "completed"

\* The script ends whatever its runs and parsers do.
BatchEnds == <>(bpc \in Over)
=============================================================================
