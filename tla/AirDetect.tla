------------------------------ MODULE AirDetect ------------------------------
(***************************************************************************)
(* The detector (Aircatch.py) and its benchmark (block_benchmark.py).  A   *)
(* file of packets is cut into time blocks; a block is filtered and cut    *)
(* into segments, the segments of an ecosystem are clustered, and an alert *)
(* is raised at the end of the first block with a cluster that passes the  *)
(* strict gate.  Files are worked on by a pool of processes, each with its *)
(* own copy of the module's globals, which a task may overwrite.           *)
(*                                                                         *)
(* What scikit-learn computes is left open: any clustering into a number   *)
(* of clusters the code can ask for, and any core radius of RADII.  Times  *)
(* are integers; densities and radii are in hundredths.                    *)
(***************************************************************************)
EXTENDS TrackerPayload, FiniteSets

CONSTANTS
  Inputs,    \* what may be evaluated: sequences of folders
  Packets,   \* the rows of each file
  Name,      \* numbers of devices their path names, by kind; adv -1 for "adv?"
  Worker,    \* processes of the pool
  Defaults,  \* the globals as the module sets them
  Overrides, \* values of --density-min, among them None
  Grid,      \* settings swept over: sequence of [window, block, dens]
  START_METHOD,    \* multiprocessing's: "fork" or "spawn"
  RADII, R_MIN, CORE_MIN_PTS, UNIQUE_MACS_MIN, TOP_N,
  None

Modes == {"batch", "multi", "sweep", "grid", "bench"}

\* The globals a task may overwrite: WINDOW_S, PERIODIC_BLOCK_S,
\* PERIODIC_STEP_S, DUR_MIN and DENSITY_MIN.
Globals == [window : Nat, block : Nat, step : Nat, dur : Nat, dens : Nat]

\* A file without rows has no blocks and is left out here.  A path is listed
\* once (rglob; a scenario is named once).  Four fifths of a block size, the
\* step of a sweep, are a whole number.
ASSUME DetectAssumption ==
  /\ \A f \in DOMAIN Packets :
       /\ Len(Packets[f]) \in Nat \ {0} /\ DOMAIN Packets[f] = 1 .. Len(Packets[f])
       /\ \A i \in DOMAIN Packets[f] : Packets[f][i].t \in Nat
  /\ Inputs \subseteq Seq(Seq(DOMAIN Packets)) \ {<<>>}
  /\ \A dirs \in Inputs : \A d, e \in DOMAIN dirs :
       \A i \in DOMAIN dirs[d], j \in DOMAIN dirs[e] :
         dirs[d][i] = dirs[e][j] => d = e /\ i = j
  /\ \A f \in DOMAIN Packets : Name[f].adv \in Int
  /\ Defaults \in Globals /\ Overrides \subseteq Nat \cup {None}
  /\ Grid \in Seq([window : Nat, block : Nat \ {0}, dens : Nat]) \ {<<>>}
  /\ \A i \in DOMAIN Grid : Grid[i].block % 5 = 0
  /\ RADII \subseteq Nat /\ R_MIN \in Nat \ {0}
  /\ CORE_MIN_PTS \in Nat /\ CORE_MIN_PTS >= 3
  /\ START_METHOD \in {"fork", "spawn"}
  /\ None \notin Int \cup Modes
  /\ None \notin [file : DOMAIN Packets, setting : Int]

VARIABLES
  mode,     \* what main was asked to do, or None
  folders,  \* the folders of CSV files, in the order of the glob
  parent,   \* the globals of the parent process
  global,   \* the globals of each worker
  batches,  \* task lists still to be put into the pool
  tasks,    \* tasks of the current list that no worker has taken
  job,      \* the task a worker is at, or None
  scan,     \* how far it is in the file
  rows,     \* eval_rows of the current list
  report,   \* what has been written, or will be once the sweep is over
  ended     \* "no", "ok" or "aborted"

asked == <<mode, folders, parent>>
vars == <<asked, global, batches, tasks, job, scan, rows, report, ended>>

Times(pkts) == {p.t : p \in pkts}
Least(S) == CHOOSE x \in S : \A y \in S : x <= y
Greatest(S) == CHOOSE x \in S : \A y \in S : x >= y

-----------------------------------------------------------------------------
(* prepare_segments.                                                       *)

Tagged(p) == "adv" \in p.pay.marks

Dropped(p) == Matches(p.pay, {"aafe40", "4c00121900"})

\* The MAC, or for Samsung the private id if there is one.
DevId(p) == IF EcoOf(p.pay) # "SAMSUNG" \/ PrivOf(p.pay) = NoPriv
            THEN p.mac ELSE PrivOf(p.pay)

\* The packets of one device in one window: grouping is by window,
\* ecosystem and device.
SegKey(p, window) == <<p.t \div window, EcoOf(p.pay), DevId(p)>>

Segments(pkts, window) ==
  LET used == {p \in pkts : p.crc /\ ~Dropped(p)}
      keys == {SegKey(p, window) : p \in used}
  IN  {[eco |-> k[2], mac |-> k[3],
        pkts |-> {p \in used : SegKey(p, window) = k}] : k \in keys}

\* Segments without a CFO make the clustering raise.
NoCfo(seg) == \E p \in seg.pkts : ~p.cfo

-----------------------------------------------------------------------------
(* Clustering and the strict gate.                                         *)

\* Faulty variant: two clusters are tried as well.
ChooseKFromTwo(n) ==
  LET ks == {k \in 2 .. 15 : k < n} IN IF ks = {} THEN {3} ELSE ks

\* _choose_k_by_silhouette: at least three clusters, and fewer than n of
\* them unless n is three.
ChooseK(n) ==
  LET ks == {k \in 3 .. 15 : k < n} IN IF ks = {} THEN {3} ELSE ks

\* The clusters large enough to have a density; the remaining segments fill
\* clusters of one or two, of which there can be between half and all of
\* their number.  (Smaller clusters have density zero.)
LargeClusters(segs) ==
  LET n == Cardinality(segs)
      large == {c \in SUBSET segs : Cardinality(c) >= CORE_MIN_PTS}
      rest(cs) == Cardinality(segs \ UNION cs)
  IN  {cs \in {s \in SUBSET large : Cardinality(s) * CORE_MIN_PTS <= n} :
         /\ \A c, d \in cs : c # d => c \cap d = {}
         /\ \E k \in ChooseK(n) :
              /\ 2 * (k - Cardinality(cs)) >= rest(cs)
              /\ k - Cardinality(cs) <= rest(cs)}

Macs(cluster) == {s.mac : s \in cluster}
Span(cluster) ==
  LET ts == Times(UNION {s.pkts : s \in cluster})
  IN  [first |-> Least(ts), last |-> Greatest(ts)]

\* core_mac_density: MACs per segment over the clamped radius, compared by
\* cross-multiplication.  A cluster of one MAC has density zero.
Radius(r) == IF r < R_MIN THEN R_MIN ELSE r
Denser(c, r, d, q) ==
  Cardinality(Macs(c)) * Cardinality(d) * Radius(q)
    > Cardinality(Macs(d)) * Cardinality(c) * Radius(r)
DenseEnough(c, r, dens) ==
  10000 * Cardinality(Macs(c)) >= dens * Cardinality(c) * Radius(r)

StrictDecision(c, r, g) ==
  /\ Span(c).last - Span(c).first >= g.dur
  /\ Cardinality(Macs(c)) >= UNIQUE_MACS_MIN
  /\ DenseEnough(c, r, g.dens)
  /\ Cardinality(Macs(c)) >= 2 /\ Cardinality(c) >= CORE_MIN_PTS

\* rank_adversary_clusters: only the TOP_N densest reach the gate.
Ranked(cs, radius) ==
  {c \in cs : Cardinality({d \in cs : Denser(d, radius[d], c, radius[c])})
                < TOP_N}

\* What the clustering of one ecosystem may flag.
Flagged(segs, g) ==
  IF Cardinality(segs) < 3 THEN {{}}
  ELSE {{c \in Ranked(p[1], p[2]) : StrictDecision(c, p[2][c], g)} :
          p \in UNION {{cs} \X [cs -> RADII] : cs \in LargeClusters(segs)}}

-----------------------------------------------------------------------------
(* One file: _run_one_csv.                                                 *)

PacketsOf(f) == ToSet(Packets[f])

\* _iter_time_blocks: the packets of the block that starts at t.
BlockOf(f, t, g) ==
  {p \in PacketsOf(f) : t <= p.t /\ p.t < t + g.block}

NoAlert == [at |-> None, block |-> None, segs |-> 0, cluster |-> None]

StartOf(f) == [next |-> Least(Times(PacketsOf(f))), alert |-> NoAlert,
               skipped |-> 0, error |-> FALSE]

ScanDone(s, f) == s.error \/ s.next > Greatest(Times(PacketsOf(f)))

\* Faulty variant: the alert carries the time at which its block starts.
AlertAtStart(c, t, n, g) ==
  [at |-> t, block |-> t, segs |-> n, cluster |-> c]

\* The decision is taken when the block closes.
Alert(c, t, n, g) ==
  [at |-> t + g.block, block |-> t, segs |-> n, cluster |-> c]

OfEco(segs, eco) == {s \in segs : s.eco = eco}

\* No segment is left of a block: the file ends, or with block_benchmark's
\* guard the block is skipped.
EmptyBlock(s, moved, guarded) ==
  IF guarded THEN [moved EXCEPT !.skipped = @ + 1]
  ELSE [s EXCEPT !.error = TRUE]

\* _run_one_csv_once on one block.  The clustering raises when it meets a
\* segment without CFO.
ScanBlock(s, f, g, guarded) ==
  LET pkts == BlockOf(f, s.next, g)
      segs == Segments(pkts, g.window)
      ecos == {e \in {x.eco : x \in segs} : Cardinality(OfEco(segs, e)) >= 3}
      moved == [s EXCEPT !.next = @ + g.step]
  IN  IF pkts = {} THEN {moved}
      ELSE IF segs = {} THEN {EmptyBlock(s, moved, guarded)}
      ELSE IF \E e \in ecos : \E x \in OfEco(segs, e) : NoCfo(x)
        THEN {[s EXCEPT !.error = TRUE]}
      ELSE IF s.alert # NoAlert THEN {moved}
      ELSE LET quiet == \A e \in ecos : {} \in Flagged(OfEco(segs, e), g)
           IN  (IF quiet THEN {moved} ELSE {})
               \cup {[moved EXCEPT
                        !.alert = Alert(a[2], s.next,
                                        Cardinality(OfEco(segs, a[1])), g)] :
                     a \in UNION {{e} \X UNION Flagged(OfEco(segs, e), g) :
                                  e \in ecos}}

\* _filename_indicates_attack: the path names "apple1" and the like.  The
\* two patterns for "adv1" want a word boundary after the digit, where the
\* generator's paths have an underscore.
FilenameIndicatesAttack(f) ==
  \E e \in {"apple", "google", "samsung", "tile"} : Name[f][e] > 0

\* From the raw rows, whatever their CRC.
GtPos(f) ==
  FilenameIndicatesAttack(f) \/ \E p \in PacketsOf(f) : Tagged(p)

AdvFirst(f) == Least(Times({p \in PacketsOf(f) : Tagged(p)}))

\* _compute_ttd_seconds: a file without a tagged packet counts from its
\* start.
TimeToDetect(f, alert) ==
  LET ref == IF \E p \in PacketsOf(f) : Tagged(p) THEN AdvFirst(f)
             ELSE Least(Times(PacketsOf(f)))
  IN  IF GtPos(f) /\ alert # NoAlert /\ alert.at >= ref
      THEN alert.at - ref ELSE None

-----------------------------------------------------------------------------
(* The parent process.                                                     *)

Task(f, i) == [file |-> f, setting |-> i]

\* One task per file; setting 0 is what the globals say.
Under(files, i) == [j \in DOMAIN files |-> Task(files[j], i)]

\* _run_csv_list: all files below a directory.
BatchTasks(dirs) == <<Under(FlattenSeq(dirs), 0)>>

\* run_all_controlled_subfolders_and_plot: one folder after the other; here
\* the setting is the folder.
MultiTasks(dirs) == [d \in DOMAIN dirs |-> Under(dirs[d], d)]

\* _sweep_block_and_density: the first folder, one setting after the other.
SweepTasks(dirs) == [i \in DOMAIN Grid |-> Under(dirs[1], i)]

\* _sweep_density_and_persistence_for_adv0_adv1: all settings at once.
GridTasks(dirs) ==
  <<FlattenSeq([j \in DOMAIN dirs[1] |->
                  [i \in DOMAIN Grid |-> Task(dirs[1][j], i)]])>>

\* block_benchmark: every file under every setting.
BenchTasks(dirs) ==
  <<FlattenSeq([i \in DOMAIN Grid |-> Under(FlattenSeq(dirs), i)])>>

TaskLists(m, dirs) ==
  CASE m = "batch" -> BatchTasks(dirs) [] m = "multi" -> MultiTasks(dirs)
    [] m = "sweep" -> SweepTasks(dirs) [] m = "grid" -> GridTasks(dirs)
    [] m = "bench" -> BenchTasks(dirs)

Init ==
  /\ mode = None /\ folders = <<>> /\ parent = Defaults
  /\ global = [w \in Worker |-> Defaults]
  /\ batches = <<>> /\ tasks = <<>>
  /\ job = [w \in Worker |-> None] /\ scan = [w \in Worker |-> None]
  /\ rows = {} /\ report = {} /\ ended = "no"

\* A worker that is forked has the parent's globals, one that is spawned
\* imports the module again.  block_benchmark imports the detector only in
\* its workers.
NewWorker(m, g) ==
  IF START_METHOD = "fork" /\ m # "bench" THEN g ELSE Defaults

\* main: the option is applied in the parent.
Launch ==
  /\ mode = None
  /\ mode' \in Modes /\ folders' \in Inputs
  /\ \E dens \in Overrides :
       parent' = IF dens = None THEN parent ELSE [parent EXCEPT !.dens = dens]
  /\ global' = [w \in Worker |-> NewWorker(mode', parent')]
  /\ batches' = Tail(TaskLists(mode', folders'))
  /\ tasks' = Head(TaskLists(mode', folders'))
  /\ UNCHANGED <<job, scan, rows, report, ended>>

\* The confusion counts of a set of rows: a line of a report.
Confusion(rs) ==
  LET count(gt, pred) ==
        Cardinality({r \in rs : r.gt = gt /\ (r.alert # NoAlert) = pred})
  IN  [tp |-> count(TRUE, TRUE), fp |-> count(FALSE, TRUE),
       fn |-> count(TRUE, FALSE), tn |-> count(FALSE, FALSE)]

RowsUnder(i) == {r \in rows : r.task.setting = i}
ByAdv(rs, n) == {r \in rs : Name[r.task.file].adv = n}

Line(i, adv, rs, errors) ==
  [setting |-> i, adv |-> adv, count |-> Confusion(rs), errors |-> errors,
   used |-> {r.used : r \in rs}]

\* _write_paper_report_txt, and the rows of _sweep_block_and_density.
PlainLine(i) == {Line(i, None, RowsUnder(i), 0)}

\* _aggregate_eval_rows_by_adv_setting.
MultiLines(i) ==
  {Line(i, n, ByAdv(RowsUnder(i), n), 0) :
     n \in {Name[r.task.file].adv : r \in RowsUnder(i)}}

\* Of the settings with more adversaries nothing is counted.
GridLines(i) == {Line(i, n, ByAdv(RowsUnder(i), n), 0) : n \in {0, 1}}

\* summarize: rows with an error are left out, and counted; a block size
\* without a good row has no line.
BenchLine(i) ==
  LET good == {r \in RowsUnder(i) : ~r.error}
      failed == RowsUnder(i) \ good
  IN  IF good = {} THEN {} ELSE {Line(i, None, good, Cardinality(failed))}

LinesUnder(i) ==
  CASE mode \in {"batch", "sweep"} -> PlainLine(i)
    [] mode = "multi" -> MultiLines(i)
    [] mode = "grid" -> GridLines(i)
    [] mode = "bench" -> BenchLine(i)

AllLines == UNION {LinesUnder(i) : i \in {r.task.setting : r \in rows}}

\* Faulty variant: results that are still to come are not waited for.
ListTaken == tasks = <<>>

ListDone == tasks = <<>> /\ \A w \in Worker : job[w] = None

\* multi makes a new pool for every folder.
NextList ==
  /\ ended = "no" /\ mode # None /\ ListDone /\ batches # <<>>
  /\ report' = report \cup AllLines
  /\ rows' = {}
  /\ tasks' = Head(batches) /\ batches' = Tail(batches)
  /\ global' = IF mode = "multi"
               THEN [w \in Worker |-> NewWorker(mode, parent)] ELSE global
  /\ UNCHANGED <<asked, job, scan, ended>>

WriteReport ==
  /\ ended = "no" /\ mode # None /\ ListDone /\ batches = <<>>
  /\ report' = report \cup AllLines
  /\ ended' = "ok"
  /\ UNCHANGED <<asked, global, batches, tasks, job, scan, rows>>

-----------------------------------------------------------------------------
(* A worker.  A task sets some globals of its process; the others keep what *)
(* they had.                                                               *)

\* _worker_eval_one_csv_for_params.
SweepSettings(i, g) ==
  [g EXCEPT !.block = Grid[i].block, !.step = (4 * Grid[i].block) \div 5,
            !.dens = Grid[i].dens]

\* Faulty variant: the step keeps the value an earlier task gave it.
GridSettingsStale(i, g) ==
  [g EXCEPT !.window = Grid[i].window, !.block = Grid[i].block,
            !.step = IF @ = Defaults.step THEN Grid[i].block ELSE @,
            !.dens = Grid[i].dens]

\* _sweep_worker_eval_one_csv_for_config.
GridSettings(i, g) ==
  [g EXCEPT !.window = Grid[i].window, !.block = Grid[i].block,
            !.step = Grid[i].block, !.dens = Grid[i].dens]

\* block_benchmark's _worker: DUR_MIN is DUR_RATIO of the block (rounded
\* up: times are integers); the option comes with the task.
BenchSettings(i, g) ==
  [g EXCEPT !.block = Grid[i].block, !.step = Grid[i].block,
            !.dur = (17 * Grid[i].block + 23) \div 24, !.dens = parent.dens]

Settings(i, g) ==
  CASE mode = "sweep" -> SweepSettings(i, g)
    [] mode = "grid" -> GridSettings(i, g)
    [] mode = "bench" -> BenchSettings(i, g)
    [] OTHER -> g

Take(w) ==
  /\ ended = "no" /\ job[w] = None /\ tasks # <<>>
  /\ job' = [job EXCEPT ![w] = Head(tasks)]
  /\ tasks' = Tail(tasks)
  /\ global' = [global EXCEPT ![w] = Settings(Head(tasks).setting, @)]
  /\ scan' = [scan EXCEPT ![w] = StartOf(Head(tasks).file)]
  /\ UNCHANGED <<asked, batches, rows, report, ended>>

Block(w) ==
  /\ ended = "no" /\ job[w] # None /\ ~ScanDone(scan[w], job[w].file)
  /\ \E s \in ScanBlock(scan[w], job[w].file, global[w], mode = "bench") :
       scan' = [scan EXCEPT ![w] = s]
  /\ UNCHANGED <<asked, global, batches, tasks, job, rows, report, ended>>

Row(w) ==
  LET f == job[w].file
      alert == IF scan[w].error THEN NoAlert ELSE scan[w].alert
  IN  [task |-> job[w], used |-> global[w], error |-> scan[w].error,
       gt |-> GtPos(f), alert |-> alert, ttd |-> TimeToDetect(f, alert)]

\* batch and multi make an error a negative row, bench a row it leaves out.
Finish(w) ==
  /\ ended = "no" /\ job[w] # None /\ ScanDone(scan[w], job[w].file)
  /\ ~scan[w].error \/ mode \in {"batch", "multi", "bench"}
  /\ rows' = rows \cup {Row(w)}
  /\ job' = [job EXCEPT ![w] = None] /\ scan' = [scan EXCEPT ![w] = None]
  /\ UNCHANGED <<asked, global, batches, tasks, report, ended>>

\* The two sweeps of Aircatch.py let the error through, and write nothing.
Abort(w) ==
  /\ ended = "no" /\ job[w] # None /\ scan[w].error
  /\ mode \in {"sweep", "grid"}
  /\ ended' = "aborted" /\ report' = {}
  /\ UNCHANGED <<asked, global, batches, tasks, job, scan, rows>>

Next ==
  \/ Launch \/ NextList \/ WriteReport
  \/ \E w \in Worker : Take(w) \/ Block(w) \/ Finish(w) \/ Abort(w)

Spec == Init /\ [][Next]_vars

-----------------------------------------------------------------------------
(* Properties.                                                             *)

CountOf(l) == l.count.tp + l.count.fp + l.count.fn + l.count.tn + l.errors

\* All tasks, those under a setting, those that a line is about, those that
\* a report has a line for, and those whose clustering can raise.
Given == LET all == TaskLists(mode, folders)
         IN  UNION {{all[k][j] : j \in DOMAIN all[k]} : k \in DOMAIN all}
GivenUnder(i) == {t \in Given : t.setting = i}
Covers(l, t) == l.adv \in {None, Name[t.file].adv}
Countable(t) == mode # "grid" \/ Name[t.file].adv \in {0, 1}
MayFail(t) == \E p \in PacketsOf(t.file) : ~p.cfo

\* A report has one line about a file under every setting, and the line
\* counts each file that it is about once, whichever worker had it and in
\* whatever order the results came (the adv0/adv1 sweep leaves out the files
\* of other settings).  Only block_benchmark takes files out of the counts,
\* and says how many (unless no file is left, and the block size with them);
\* blocks whose packets are all filtered out cost it no file ("keeps the file
\* scoreable", block_benchmark.py:83), a missing CFO does.
EveryFileCounted ==
  ended = "ok" =>
    \A i \in {t.setting : t \in Given} :
      LET lines == {l \in report : l.setting = i}
      IN  \/ /\ \A t \in GivenUnder(i) : Countable(t) =>
                  \E l \in lines :
                    Covers(l, t) /\ \A m \in lines : Covers(m, t) => m = l
             /\ \A l \in lines :
                  /\ CountOf(l) = Cardinality({t \in GivenUnder(i) : Covers(l, t)})
                  /\ l.errors <= Cardinality({t \in GivenUnder(i) : MayFail(t)})
          \/ mode = "bench" /\ lines = {} /\ \A t \in GivenUnder(i) : MayFail(t)

\* The rows of a line were computed with the settings the line names, though
\* a worker keeps the globals of whatever it did before; and a report that
\* is named after a density threshold (tag = dens..., Aircatch.py:2367) was
\* made with it, as long as workers are forked.
SettingsFollowTask ==
  \A l \in report : \A g \in l.used :
    IF mode \in {"batch", "multi"}
    THEN START_METHOD = "fork" => g = parent
    ELSE /\ g.block = Grid[l.setting].block
         /\ IF mode = "sweep" THEN 5 * g.step = 4 * g.block
            ELSE g.step = g.block
         /\ mode # "bench" => g.dens = Grid[l.setting].dens
         /\ mode = "grid" => g.window = Grid[l.setting].window

\* What an alert rests on: valid packets of one block, which is over; three
\* segments or more, of two devices or more, that span DUR_MIN.  And the
\* ecosystem has at least five segments in the block: of three or four the
\* clustering always makes clusters too small to count.
AlertEvidence ==
  \A r \in rows : r.alert # NoAlert =>
    LET c == r.alert.cluster
        pkts == UNION {s.pkts : s \in c}
    IN  /\ \A p \in pkts : /\ p.crc /\ ~Dropped(p)
                            /\ r.alert.block <= p.t /\ p.t < r.alert.at
        /\ Cardinality(Macs(c)) >= 2 /\ Cardinality(c) >= 3
        /\ Span(c).last - Span(c).first >= r.used.dur
        /\ r.used.dur < r.used.block
        /\ r.alert.segs >= 5

\* Time to detect: an adversary that is detected by its own packets has been
\* there for longer than DUR_MIN ("the per-block strict gate"); there is a
\* time only for a detected positive, and a detected positive has none only
\* if the alert came before the adversary did.
TtdSound ==
  \A r \in rows :
    /\ r.ttd # None => r.gt /\ r.alert # NoAlert
    /\ r.gt /\ r.alert # NoAlert /\ r.ttd = None =>
         \A p \in PacketsOf(r.task.file) : Tagged(p) => p.t > r.alert.at
    /\ r.alert # NoAlert =>
         ((\A s \in r.alert.cluster : \A p \in s.pkts : Tagged(p)) =>
            r.ttd # None /\ r.ttd > r.used.dur)

=============================================================================
