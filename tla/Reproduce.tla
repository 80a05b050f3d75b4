------------------------------ MODULE Reproduce ------------------------------
(***************************************************************************)
(* The reproduction driver (reproduce_paper.py): a pipeline of stages that *)
(* leaves its intermediate results on the disk, skips what it finds there  *)
(* and may be run any number of times, with any choice of stages.  A run   *)
(* can end anywhere: a command fails (run raises SystemExit) or the user   *)
(* interrupts it.  Between two runs the script may be updated, which       *)
(* changes SCENARIO_PERSIST_MIN.                                           *)
(*                                                                         *)
(* A scenario file is its number of adversaries and its period; what is in *)
(* it is the version of the parameters it was made with.                   *)
(***************************************************************************)
EXTENDS Naturals, FiniteSets

CONSTANTS
  SUB,       \* keys of SOURCES
  BENIGN,    \* BENIGN_ONLY
  ADVS,      \* len(ADV_TAGS)
  TX,        \* the periods scenario_gen writes a file for
  PANEL,     \* FIG7_PANELS
  FP,        \* names in FP_CONFIGS
  PAIRS,     \* FP_PAIRS, sets of two names
  StageSets, \* values of --stages
  None,      \* no stamp, no file, no item
  MaxVersion, MaxRuns, MaxCrashes  \* bounds

ASSUME ReproduceAssumption ==
  /\ BENIGN \subseteq SUB /\ ADVS \in Nat /\ UNION PAIRS \subseteq FP
  /\ None \notin SUB \cup Nat
  /\ MaxVersion \in Nat /\ MaxRuns \in Nat /\ MaxCrashes \in Nat

VARIABLES
  version,    \* version of the parameters in the script
  runs, crashes,
  pc,         \* the stage the run is in; "idle" when there is no run
  todo,       \* items of the stage that are still to be done
  item,       \* the item that is being worked on, or None
  stages, force,  \* the options of the run
  warned,     \* detection printed a WARN in this run
  content,    \* controlled/<sub>/: its files and their version
  stamp,      \* the version in SCENARIO_STAMP, or None
  torn,       \* history: removing a current folder was interrupted
  report,     \* aircatch_folder_<sub>_eval_report: the files it covers
  multi,      \* multiscenario_results/ is there
  panelCsv,   \* .fig7_work/<panel>.csv: its version
  panelPlot,  \* walkthrough_plots/<panel>: the version plotted
  cached,     \* figure stages whose work directory is filled
  fp,         \* .fingerprint_work/<name>/
  table3,     \* Table_3: the files it counts
  summary,    \* the reports the fingerprint summary was made from
  figures     \* what Paper_Results/ holds

world == <<version, runs, crashes, torn>>
options == <<stages, force>>
folders == <<content, stamp>>
detected == <<report, multi>>
panels == <<panelCsv, panelPlot>>
results == <<table3, summary, figures>>
vars == <<world, options, pc, todo, item, warned, folders, detected, panels,
          cached, fp, results>>

\* The files of a complete folder.
Expected(s) == {<<0, None>>} \cup
               (IF s \in BENIGN THEN {} ELSE (1 .. ADVS) \X TX)

NoFiles == [files |-> {}, ver |-> None]
NoReport == [raw |-> None, out |-> None, renamed |-> FALSE]

Init ==
  /\ version = 1 /\ runs = 0 /\ crashes = 0 /\ torn = FALSE
  /\ pc = "idle" /\ todo = {} /\ item = None
  /\ stages = {} /\ force = FALSE /\ warned = FALSE
  \* controlled/ is empty or was built by hand with other parameters.
  /\ content \in {[s \in SUB |-> NoFiles],
                  [s \in SUB |-> [files |-> Expected(s), ver |-> 0]]}
  /\ stamp = [s \in SUB |-> None]
  /\ report = [s \in SUB |-> NoFiles] /\ multi = FALSE
  /\ panelCsv = [p \in PANEL |-> None] /\ panelPlot = [p \in PANEL |-> None]
  /\ cached = {} /\ fp = [c \in FP |-> NoReport]
  /\ table3 = [s \in SUB |-> NoFiles] /\ summary = {} /\ figures = {}

-----------------------------------------------------------------------------
(* main: the stages in their order, then tables, curation, manifest.       *)

Order == <<"table2", "scenarios", "detection", "figure7", "figures",
           "figure4", "fingerprint", "blocks", "table3", "fpsummary",
           "curate", "sweep", "manifest">>

Curating == {"detection", "figure7", "figures", "figure4", "fingerprint"}

Runs(stage, chosen) ==
  CASE stage = "table3" -> "detection" \in chosen
    [] stage = "fpsummary" -> "fingerprint" \in chosen
    [] stage \in {"curate", "sweep"} -> chosen \cap Curating # {}
    [] stage = "manifest" -> TRUE
    [] OTHER -> stage \in chosen

Items(stage) ==
  CASE stage \in {"scenarios", "detection"} -> SUB
    [] stage = "figure7" -> PANEL
    [] stage = "fingerprint" -> FP
    [] OTHER -> {}

\* Enter the first stage after position i that runs.
Enter(i, chosen) ==
  LET later == {j \in DOMAIN Order : j > i /\ Runs(Order[j], chosen)}
      next == Order[CHOOSE j \in later : \A k \in later : j <= k]
  IN  pc' = next /\ todo' = Items(next) /\ item' = None

Position == CHOOSE i \in DOMAIN Order : Order[i] = pc

Leave == todo = {} /\ item = None /\ Enter(Position, stages)

Start ==
  /\ pc = "idle" /\ runs < MaxRuns
  /\ runs' = runs + 1
  /\ stages' \in StageSets /\ force' \in BOOLEAN
  /\ Enter(0, stages')
  /\ warned' = FALSE
  /\ UNCHANGED <<version, crashes, torn, folders, detected, panels, cached, fp,
                 results>>

\* stage_table2, stage_blocks and write_manifest read nothing of the above;
\* the first and the last only write files of Paper_Results/.
PlainStage ==
  /\ pc \in {"table2", "blocks"}
  /\ figures' = figures \cup {<<pc, None>>}
  /\ Leave
  /\ UNCHANGED <<world, options, warned, folders, detected, panels, cached, fp,
                 table3, summary>>

StageDone ==
  /\ pc \in {"scenarios", "figure7", "fingerprint"}
  /\ Leave
  /\ UNCHANGED <<world, options, warned, folders, detected, panels, cached, fp,
                 results>>

\* What is next in the order of the code.
IsNext(s) == s = CHOOSE x \in todo : TRUE

-----------------------------------------------------------------------------
(* stage_scenarios.                                                        *)

HasContent(s) == content[s].files # {}
IsCurrent(s) == stamp[s] = version
Stale(s) == HasContent(s) /\ ~IsCurrent(s)

Idle(stage, s) == pc = stage /\ item = None /\ todo # {} /\ IsNext(s)

SkipFolder(s) ==
  /\ Idle("scenarios", s) /\ ~force /\ HasContent(s) /\ IsCurrent(s)
  /\ todo' = todo \ {s}
  /\ UNCHANGED <<world, options, pc, item, warned, folders, detected, panels,
                 cached, fp, results>>

RemoveFolder(s) ==
  /\ Idle("scenarios", s) /\ (force \/ Stale(s))
  /\ item' = s
  /\ content' = [content EXCEPT ![s] = NoFiles]
  /\ stamp' = [stamp EXCEPT ![s] = None]
  /\ UNCHANGED <<world, options, pc, todo, warned, detected, panels, cached,
                 fp, results>>

BeginFolder(s) ==
  /\ Idle("scenarios", s) /\ ~force /\ ~HasContent(s)
  /\ item' = s
  /\ UNCHANGED <<world, options, pc, todo, warned, folders, detected, panels,
                 cached, fp, results>>

\* One file of one scenario_gen run; there is a run per number of
\* adversaries, in increasing order.
Generate(f) ==
  /\ pc = "scenarios" /\ item \in SUB
  /\ f \in Expected(item) \ content[item].files
  /\ \A g \in Expected(item) \ content[item].files : f[1] <= g[1]
  /\ content' = [content EXCEPT ![item] = [files |-> @.files \cup {f},
                                           ver |-> version]]
  /\ UNCHANGED <<world, options, pc, todo, item, warned, stamp, detected,
                 panels, cached, fp, results>>

\* Faulty variant: the stamp is written before the scenarios.
StampEarly ==
  /\ pc = "scenarios" /\ item \in SUB
  /\ stamp' = [stamp EXCEPT ![item] = version]
  /\ IF content[item].files = Expected(item)
     THEN todo' = todo \ {item} /\ item' = None
     ELSE stamp[item] # version /\ UNCHANGED <<todo, item>>
  /\ UNCHANGED <<world, options, pc, warned, content, detected, panels, cached,
                 fp, results>>

Stamp ==
  /\ pc = "scenarios" /\ item \in SUB
  /\ content[item].files = Expected(item)
  /\ stamp' = [stamp EXCEPT ![item] = version]
  /\ todo' = todo \ {item} /\ item' = None
  /\ UNCHANGED <<world, options, pc, warned, content, detected, panels, cached,
                 fp, results>>

-----------------------------------------------------------------------------
(* The other stages.                                                       *)

\* stage_detection warns of what it cannot vouch for, and goes on.
Detect(s) ==
  /\ Idle("detection", s)
  /\ warned' = (warned \/ ~HasContent(s) \/ ~IsCurrent(s))
  /\ report' = IF HasContent(s) THEN [report EXCEPT ![s] = content[s]]
               ELSE report
  /\ todo' = todo \ {s}
  /\ UNCHANGED <<world, options, pc, item, folders, multi, panels, cached, fp,
                 results>>

DetectAll ==
  /\ pc = "detection" /\ multi' = TRUE
  /\ Leave
  /\ UNCHANGED <<world, options, warned, folders, report, panels, cached, fp,
                 results>>

\* stage_figure7: a panel's scenario is made once and then plotted.
Panel(p) ==
  /\ Idle("figure7", p)
  /\ panelCsv' = IF panelCsv[p] = None \/ force
                 THEN [panelCsv EXCEPT ![p] = version] ELSE panelCsv
  /\ panelPlot' = [panelPlot EXCEPT ![p] = panelCsv'[p]]
  /\ todo' = todo \ {p}
  /\ UNCHANGED <<world, options, pc, item, warned, folders, detected, cached,
                 fp, results>>

\* stage_figures, stage_figure4.
CachedFigures ==
  /\ pc \in {"figures", "figure4"}
  /\ cached' = cached \cup {pc}
  /\ Leave
  /\ UNCHANGED <<world, options, warned, folders, detected, panels, fp,
                 results>>

SkipFingerprint(c) ==
  /\ Idle("fingerprint", c) /\ fp[c].out # None /\ ~force
  /\ todo' = todo \ {c}
  /\ UNCHANGED <<world, options, pc, item, warned, folders, detected, panels,
                 cached, fp, results>>

\* The classifier opens its result file, and writes it.
Classify(c) ==
  /\ Idle("fingerprint", c) /\ (fp[c].out = None \/ force)
  /\ item' = c
  /\ fp' = [fp EXCEPT ![c].raw = "part", ![c].renamed = FALSE]
  /\ UNCHANGED <<world, options, pc, todo, warned, folders, detected, panels,
                 cached, results>>

Classified ==
  /\ pc = "fingerprint" /\ item \in FP /\ fp[item].raw = "part"
  /\ fp' = [fp EXCEPT ![item].raw = "whole"]
  /\ UNCHANGED <<world, options, pc, todo, item, warned, folders, detected,
                 panels, cached, results>>

\* Faulty variant: the results are given their name while they are written.
RenameReportEarly ==
  /\ pc = "fingerprint" /\ item \in FP /\ fp[item].raw # None
  /\ fp' = [fp EXCEPT ![item].out = fp[item].raw, ![item].raw = None]
  /\ UNCHANGED <<world, options, pc, todo, item, warned, folders, detected,
                 panels, cached, results>>

\* The report is renamed first: its new name says the run is done.
RenameReport ==
  /\ pc = "fingerprint" /\ item \in FP /\ fp[item].raw = "whole"
  /\ fp' = [fp EXCEPT ![item].out = fp[item].raw, ![item].raw = None]
  /\ UNCHANGED <<world, options, pc, todo, item, warned, folders, detected,
                 panels, cached, results>>

RenameImages ==
  /\ pc = "fingerprint" /\ item \in FP /\ fp[item].raw = None
  /\ fp' = [fp EXCEPT ![item].renamed = TRUE]
  /\ todo' = todo \ {item} /\ item' = None
  /\ UNCHANGED <<world, options, pc, warned, folders, detected, panels, cached,
                 results>>

-----------------------------------------------------------------------------
(* Tables, curation, manifest.                                             *)

\* build_table3 reads every report that lies in the root directory.
BuildTable3 ==
  /\ pc = "table3"
  /\ table3' = report
  /\ Leave
  /\ UNCHANGED <<world, options, warned, folders, detected, panels, cached, fp,
                 summary, figures>>

BuildSummary ==
  /\ pc = "fpsummary"
  /\ LET found == {q \in PAIRS : \A c \in q : fp[c].out # None}
     IN  summary' = IF found = {} THEN summary
                    ELSE {<<c, fp[c].out>> : c \in UNION found}
  /\ Leave
  /\ UNCHANGED <<world, options, warned, folders, detected, panels, cached, fp,
                 table3, figures>>

\* curate: the figures of the paper are copied ...
Curate ==
  /\ pc = "curate"
  /\ figures' =
       {f \in figures : f[1] \notin PANEL \/ panelPlot[f[1]] = None}
       \cup {<<c, None>> : c \in cached}
       \cup (IF multi THEN {<<"figure6", None>>} ELSE {})
       \cup {<<p, panelPlot[p]>> : p \in {q \in PANEL : panelPlot[q] # None}}
  /\ Leave
  /\ UNCHANGED <<world, options, warned, folders, detected, panels, cached, fp,
                 table3, summary>>

\* ... and the outputs they came from are moved to EXTRA/.
Sweep ==
  /\ pc = "sweep"
  /\ report' = [s \in SUB |-> NoFiles] /\ multi' = FALSE
  /\ panelPlot' = [p \in PANEL |-> None]
  /\ Leave
  /\ UNCHANGED <<world, options, warned, folders, panelCsv, cached, fp,
                 results>>

WriteManifest ==
  /\ pc = "manifest"
  /\ pc' = "idle"
  /\ UNCHANGED <<world, options, todo, item, warned, folders, detected, panels,
                 cached, fp, results>>

-----------------------------------------------------------------------------
(* Interruptions and updates.                                              *)

Interrupted ==
  /\ pc # "idle" /\ crashes < MaxCrashes
  /\ crashes' = crashes + 1
  /\ pc' = "idle" /\ todo' = {} /\ item' = None
  /\ UNCHANGED <<version, runs, options, warned, detected, panels, cached, fp,
                 results>>

Crash == Interrupted /\ UNCHANGED <<folders, torn>>

\* rmtree deletes one entry after the other, in the order of the directory.
CrashInRemoval(s) ==
  /\ Idle("scenarios", s) /\ (force \/ Stale(s))
  /\ Interrupted
  /\ \E left \in SUBSET content[s].files :
       content' = [content EXCEPT ![s].files = left]
  /\ stamp' \in {stamp, [stamp EXCEPT ![s] = None]}
  /\ torn' = (torn \/ IsCurrent(s))

Update ==
  /\ pc = "idle" /\ version < MaxVersion
  /\ version' = version + 1
  /\ UNCHANGED <<runs, crashes, torn, options, pc, todo, item, warned, folders,
                 detected, panels, cached, fp, results>>

Next ==
  \/ Start \/ PlainStage \/ StageDone
  \/ (\E s \in SUB : \/ SkipFolder(s) \/ RemoveFolder(s) \/ BeginFolder(s)
                     \/ Detect(s) \/ CrashInRemoval(s))
  \/ (item \in SUB /\ \E f \in Expected(item) : Generate(f)) \/ Stamp
  \/ DetectAll \/ (\E p \in PANEL : Panel(p)) \/ CachedFigures
  \/ (\E c \in FP : SkipFingerprint(c) \/ Classify(c))
  \/ Classified \/ RenameReport \/ RenameImages
  \/ BuildTable3 \/ BuildSummary \/ Curate \/ Sweep \/ WriteManifest
  \/ Crash \/ Update

Spec == Init /\ [][Next]_vars

-----------------------------------------------------------------------------
(* Properties.                                                             *)

\* A run that evaluates and prints no warning ends with a Table 3 that
\* counts every scenario of every route, all of them generated with the
\* parameters of the script as it is: "results will not match the paper" is
\* the warning otherwise (reproduce_paper.py:276).  Earlier runs may have
\* been interrupted anywhere, and left folders half generated, stale
\* folders half removed and reports of their own behind.  (The exception is
\* a current folder whose removal by --force was interrupted: its stamp may
\* outlive its files.)
TableSound ==
  pc = "manifest" /\ "detection" \in stages /\ ~warned /\ ~torn =>
    \A s \in SUB : table3[s] = [files |-> Expected(s), ver |-> version]

\* The fingerprint summary is made of whole reports only, though the stage
\* takes the existence of a report for a finished run.
SummaryWhole == \A r \in summary : r[2] = "whole"

=============================================================================
