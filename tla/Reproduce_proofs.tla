-------------------------- MODULE Reproduce_proofs --------------------------
(***************************************************************************)
(* What a run of the driver ends with can be relied on, for all routes,    *)
(* adversaries, panels and choices of stages, and however many runs were   *)
(* made before, interrupted or not, with whatever parameters.              *)
(***************************************************************************)
EXTENDS Reproduce, WellFoundedInduction, TLAPS

Folder == [files : SUBSET UNION {Expected(s) : s \in SUB}, ver : Nat \cup {None}]
Report == [raw : {None, "part", "whole"}, out : {None, "whole"}, renamed : BOOLEAN]

Types ==
  /\ version \in Nat
  /\ content \in [SUB -> Folder] /\ report \in [SUB -> Folder] /\ table3 \in [SUB -> Folder]
  /\ stamp \in [SUB -> Nat \cup {None}]
  /\ fp \in [FP -> Report] /\ summary \in SUBSET (FP \X {"whole"})

Whole(s) == [files |-> Expected(s), ver |-> version]

(* A stamp is never ahead of the script, so a folder that was stamped      *)
(* before an update is stale after it ...                                  *)
StampedBefore == \A s \in SUB : stamp[s] # None => stamp[s] <= version

(* ... and a stamp of the script as it is vouches for what is there.       *)
CurrentIsWhole == \A s \in SUB : ~torn /\ IsCurrent(s) => content[s] = Whole(s)

(* The folder that is being generated has no such stamp yet, and nothing   *)
(* in it is left from other parameters.                                    *)
InHand ==
  pc = "scenarios" /\ item \in SUB =>
    /\ ~torn => ~IsCurrent(item)
    /\ HasContent(item) => content[item].ver = version

(* Detection that did not warn has made a whole report of every route it   *)
(* is done with; nothing overwrites them before Table 3 is made, and       *)
(* nothing Table 3 before the run is over.                                 *)
Vouched == ~warned /\ ~torn
BeforeTables == {"table2", "scenarios", "detection"}
Between == {"figure7", "figures", "figure4", "fingerprint", "blocks", "table3"}
AfterTables == {"fpsummary", "curate", "sweep", "manifest"}
Detected == pc = "detection" /\ Vouched => \A s \in SUB \ todo : report[s] = Whole(s)
Reported ==
  "detection" \in stages /\ Vouched /\ pc \in Between => \A s \in SUB : report[s] = Whole(s)
Tabled ==
  "detection" \in stages /\ Vouched /\ pc \in AfterTables => \A s \in SUB : table3[s] = Whole(s)
Evaluated == Detected /\ Reported /\ Tabled

IInv == Types /\ StampedBefore /\ CurrentIsWhole /\ InHand /\ Evaluated

-----------------------------------------------------------------------------
(* The order of the stages.                                                *)

LEMMA OrderFacts ==
  /\ DOMAIN Order = 1 .. 13
  /\ Order[1] = "table2" /\ Order[2] = "scenarios" /\ Order[3] = "detection"
  /\ Order[4] = "figure7" /\ Order[5] = "figures" /\ Order[6] = "figure4"
  /\ Order[7] = "fingerprint" /\ Order[8] = "blocks" /\ Order[9] = "table3"
  /\ Order[10] = "fpsummary" /\ Order[11] = "curate" /\ Order[12] = "sweep"
  /\ Order[13] = "manifest"
  BY DEF Order

(* The position of a stage, told apart by what comes before and after the  *)
(* detection and the tables.                                               *)
LEMMA PositionFacts ==
  /\ pc \in BeforeTables \ {"detection"} => Position \in 1 .. 2
  /\ pc \in Between \ {"table3"} => Position \in 4 .. 8
  /\ pc \in AfterTables \ {"manifest"} => Position \in 10 .. 12
  /\ pc = "detection" => Position = 3
  /\ pc = "table3" => Position = 9
<1>1. ASSUME \E i \in 1 .. 13 : Order[i] = pc
      PROVE  Position \in 1 .. 13 /\ Order[Position] = pc
  BY <1>1, OrderFacts DEF Position
<1>2. pc \in BeforeTables \cup Between \cup AfterTables => \E i \in 1 .. 13 : Order[i] = pc
  BY OrderFacts DEF BeforeTables, Between, AfterTables
<1>3. ASSUME NEW i \in 1 .. 13
      PROVE  \/ i = 1 \/ i = 2 \/ i = 3 \/ i = 4 \/ i = 5 \/ i = 6 \/ i = 7
             \/ i = 8 \/ i = 9 \/ i = 10 \/ i = 11 \/ i = 12 \/ i = 13
  OBVIOUS
<1>4. CASE pc \in BeforeTables \cup Between \cup AfterTables
  <2>1. Position \in 1 .. 13 /\ Order[Position] = pc
    BY <1>1, <1>2, <1>4
  <2> DEFINE i == Position
  <2>2. i \in 1 .. 13 /\ Order[i] = pc
    BY <2>1
  <2> HIDE DEF i
  <2>3. /\ pc \in BeforeTables \ {"detection"} => i \in 1 .. 2
        /\ pc \in Between \ {"table3"} => i \in 4 .. 8
        /\ pc \in AfterTables \ {"manifest"} => i \in 10 .. 12
        /\ pc = "detection" => i = 3
        /\ pc = "table3" => i = 9
    BY <1>3, <2>2, OrderFacts DEF BeforeTables, Between, AfterTables
  <2>4. QED
    BY <2>3 DEF i
<1>5. QED
  BY <1>4 DEF BeforeTables, Between, AfterTables

LEMMA LeastNatural ==
  ASSUME NEW S, S \subseteq Nat, S # {}
  PROVE  \E b \in S : \A c \in S : b <= c
<1>1. PICK b \in S : \A c \in S : <<c, b>> \notin OpToRel(<, Nat)
  BY NatLessThanWellFounded, WFMin
<1>2. \A c \in S : ~(c < b)
  BY <1>1 DEF OpToRel
<1>3. \A c \in S : c \in Nat
  OBVIOUS
<1>4. ASSUME NEW c \in S PROVE b <= c
  BY <1>2, <1>3
<1>5. QED
  BY <1>4

(* The next stage is the first of the later ones that runs.                *)
LEMMA EnterFirst ==
  ASSUME NEW i \in 0 .. 12, NEW chosen, Enter(i, chosen)
  PROVE  \E j \in i + 1 .. 13 :
           /\ pc' = Order[j] /\ todo' = Items(pc') /\ item' = None
           /\ Runs(Order[j], chosen)
           /\ \A k \in i + 1 .. 13 : Runs(Order[k], chosen) => j <= k
<1> DEFINE later == {j \in DOMAIN Order : j > i /\ Runs(Order[j], chosen)}
           first == CHOOSE j \in later : \A k \in later : j <= k
<1>1. pc' = Order[first] /\ todo' = Items(Order[first]) /\ item' = None
  BY DEF Enter
<1>2. later \subseteq Nat /\ 13 \in later
  BY OrderFacts DEF Runs
<1>3. \E j \in later : \A k \in later : j <= k
  <2> HIDE DEF later
  <2>1. QED
    BY <1>2, LeastNatural
<1>4. first \in later /\ \A k \in later : first <= k
  <2> HIDE DEF later
  <2>1. QED
    BY <1>3
<1> HIDE DEF first
<1>5. first \in i + 1 .. 13 /\ Runs(Order[first], chosen)
  BY <1>4, OrderFacts
<1>6. \A k \in i + 1 .. 13 : Runs(Order[k], chosen) => k \in later
  BY OrderFacts
<1>7. QED
  BY <1>1, <1>4, <1>5, <1>6

(* Detection and Table 3 are not skipped by a run that evaluates.          *)
LEMMA EnterFacts ==
  ASSUME NEW i \in 0 .. 12, NEW chosen, Enter(i, chosen)
  PROVE  /\ pc' \in BeforeTables \cup Between \cup AfterTables
         /\ item' = None
         /\ pc' = "detection" => todo' = SUB
         /\ i >= 3 => pc' \notin BeforeTables
         /\ i >= 9 => pc' \in AfterTables
         /\ "detection" \in chosen => /\ i < 3 => pc' \in BeforeTables
                                      /\ i < 9 => pc' \notin AfterTables
<1>1. PICK j \in i + 1 .. 13 :
           /\ pc' = Order[j] /\ todo' = Items(pc') /\ item' = None
           /\ Runs(Order[j], chosen)
           /\ \A k \in i + 1 .. 13 : Runs(Order[k], chosen) => j <= k
  BY EnterFirst
<1>2. j \in Nat /\ i \in Nat /\ j > i /\ j <= 13
  OBVIOUS
<1>3. \/ j = 1 \/ j = 2 \/ j = 3 \/ j = 4 \/ j = 5 \/ j = 6 \/ j = 7
      \/ j = 8 \/ j = 9 \/ j = 10 \/ j = 11 \/ j = 12 \/ j = 13
  BY <1>2
<1>4. /\ j <= 3 => pc' \in BeforeTables
      /\ j > 3 => pc' \in Between \cup AfterTables
      /\ j > 9 => pc' \in AfterTables
      /\ j <= 9 => pc' \notin AfterTables
      /\ j > 3 => pc' \notin BeforeTables
  BY <1>1, <1>3, OrderFacts DEF BeforeTables, Between, AfterTables
<1>5. pc' = "detection" => todo' = SUB
  BY <1>1 DEF Items
<1>6. ASSUME "detection" \in chosen, i < 3 PROVE j <= 3
  <2>1. Runs(Order[3], chosen) /\ 3 \in i + 1 .. 13
    BY <1>2, <1>6, OrderFacts DEF Runs
  <2>2. QED
    BY <1>1, <2>1
<1>7. ASSUME "detection" \in chosen, i < 9 PROVE j <= 9
  <2>1. Runs(Order[9], chosen) /\ 9 \in i + 1 .. 13
    BY <1>2, <1>7, OrderFacts DEF Runs
  <2>2. QED
    BY <1>1, <2>1
<1>8. QED
  BY <1>1, <1>2, <1>4, <1>5, <1>6, <1>7

-----------------------------------------------------------------------------
(* Types.                                                                  *)

LEMMA FolderFacts ==
  /\ NoFiles \in Folder
  /\ \A s \in SUB : [files |-> Expected(s), ver |-> 0] \in Folder
  /\ \A s \in SUB : <<0, None>> \in Expected(s)
  BY DEF Folder, NoFiles, Expected

LEMMA InitIInv == Init => IInv
<1> SUFFICES ASSUME Init PROVE IInv
  OBVIOUS
<1>1. content \in [SUB -> Folder]
  BY FolderFacts DEF Init
<1>2. report \in [SUB -> Folder] /\ table3 \in [SUB -> Folder]
  BY FolderFacts DEF Init
<1>3. fp \in [FP -> Report]
  BY DEF Init, Report, NoReport
<1>4. version \in Nat /\ stamp \in [SUB -> Nat \cup {None}] /\ summary \in SUBSET (FP \X {"whole"})
  BY DEF Init
<1>5. \A s \in SUB : stamp[s] = None
  BY DEF Init
<1>6. StampedBefore
  BY <1>5 DEF StampedBefore
<1>7. CurrentIsWhole
  BY <1>4, <1>5, ReproduceAssumption DEF CurrentIsWhole, IsCurrent
<1>8. pc = "idle"
  BY DEF Init
<1>9. InHand /\ Evaluated
  BY <1>8 DEF InHand, Evaluated, Detected, Reported, Tabled, Between, AfterTables
<1>10. QED
  BY <1>1, <1>2, <1>3, <1>4, <1>6, <1>7, <1>9 DEF IInv, Types

\* The steps that change what the folders hold or what is current.
FolderStep ==
  \/ \E s \in SUB : RemoveFolder(s) \/ CrashInRemoval(s)
  \/ item \in SUB /\ \E f \in Expected(item) : Generate(f)
  \/ Stamp \/ Update

\* The stages that end by entering the next.
LeavingStep ==
  \/ PlainStage \/ StageDone \/ DetectAll \/ CachedFigures
  \/ BuildTable3 \/ BuildSummary \/ Curate \/ Sweep

LEMMA LeaveFacts ==
  ASSUME Leave, pc \in BeforeTables \cup Between \cup (AfterTables \ {"manifest"})
  PROVE  /\ Position \in 0 .. 12 /\ Enter(Position, stages)
         /\ pc' \in BeforeTables \cup Between \cup AfterTables
         /\ item' = None
         /\ pc' = "detection" => todo' = SUB
         /\ pc \notin BeforeTables \/ pc = "detection" => pc' \notin BeforeTables
         /\ pc \in AfterTables \/ pc = "table3" => pc' \in AfterTables
         /\ "detection" \in stages =>
              /\ pc \in BeforeTables /\ pc # "detection" => pc' \in BeforeTables
              /\ pc \in (BeforeTables \cup Between) \ {"table3"} => pc' \notin AfterTables
<1>1. Enter(Position, stages)
  BY DEF Leave
<1>2. /\ pc \in BeforeTables \ {"detection"} => Position \in 1 .. 2
      /\ pc \in Between \ {"table3"} => Position \in 4 .. 8
      /\ pc \in AfterTables \ {"manifest"} => Position \in 10 .. 12
      /\ pc = "detection" => Position = 3
      /\ pc = "table3" => Position = 9
  BY PositionFacts
<1> DEFINE i == Position
<1>3. i \in 0 .. 12 /\ Enter(i, stages)
  BY <1>1, <1>2
<1>4. /\ pc' \in BeforeTables \cup Between \cup AfterTables
      /\ item' = None
      /\ pc' = "detection" => todo' = SUB
      /\ i >= 3 => pc' \notin BeforeTables
      /\ i >= 9 => pc' \in AfterTables
      /\ "detection" \in stages => /\ i < 3 => pc' \in BeforeTables
                                   /\ i < 9 => pc' \notin AfterTables
  <2> HIDE DEF i
  <2>1. QED
    BY <1>3, EnterFacts
<1>5. /\ pc \in BeforeTables /\ pc # "detection" => i < 3
      /\ pc = "detection" => i = 3
      /\ pc \in Between /\ pc # "table3" => i > 3 /\ i < 9
      /\ pc \in AfterTables \/ pc = "table3" => i >= 9
  <2>1. pc # "manifest"
    BY DEF BeforeTables, Between
  <2>2. QED
    BY <1>2, <2>1
<1>6. "detection" \in BeforeTables /\ "table3" \in Between
  BY DEF BeforeTables, Between
<1> HIDE DEF i
<1>7. /\ i \in Nat
      /\ pc \notin BeforeTables \/ pc = "detection" => i >= 3
      /\ pc \in BeforeTables \cup Between /\ pc # "table3" => i < 9
  BY <1>3, <1>5
<1>8. QED
  BY <1>3, <1>4, <1>5, <1>7 DEF i

\* A classifier run never leaves anything but a whole report behind.
LEMMA ReportStep ==
  ASSUME Types, NEW c \in FP,
         \/ Classify(c) \/ (item = c /\ (Classified \/ RenameReport \/ RenameImages))
  PROVE  fp' \in [FP -> Report]
<1>1. fp \in [FP -> Report] /\ fp[c] \in Report
  BY DEF Types
<1>2. CASE Classify(c)
  <2>1. fp' = [fp EXCEPT ![c].raw = "part", ![c].renamed = FALSE]
    BY <1>2 DEF Classify
  <2>2. QED
    BY <1>1, <2>1 DEF Report
<1>3. CASE item = c /\ Classified
  BY <1>1, <1>3 DEF Classified, Report
<1>4. CASE item = c /\ RenameReport
  <2>1. fp[c].raw = "whole" /\ fp' = [fp EXCEPT ![c].out = fp[c].raw, ![c].raw = None]
    BY <1>4 DEF RenameReport
  <2>2. QED
    BY <1>1, <2>1 DEF Report
<1>5. CASE item = c /\ RenameImages
  BY <1>1, <1>5 DEF RenameImages, Report
<1>6. QED
  BY <1>2, <1>3, <1>4, <1>5

LEMMA SummaryStep == ASSUME Types, BuildSummary PROVE summary' \in SUBSET (FP \X {"whole"})
<1> DEFINE found == {q \in PAIRS : \A c \in q : fp[c].out # None}
<1>1. summary' = IF found = {} THEN summary ELSE {<<c, fp[c].out>> : c \in UNION found}
  BY DEF BuildSummary
<1>2. ASSUME NEW c \in UNION found PROVE c \in FP /\ fp[c].out = "whole"
  <2>1. c \in FP /\ fp[c].out # None
    BY <1>2, ReproduceAssumption
  <2>2. fp[c] \in Report
    BY <2>1 DEF Types
  <2>3. QED
    BY <2>1, <2>2 DEF Report
<1> HIDE DEF found
<1>3. {<<c, fp[c].out>> : c \in UNION found} \in SUBSET (FP \X {"whole"})
  BY <1>2
<1>4. QED
  BY <1>1, <1>3 DEF Types

LEMMA GenerateFacts ==
  ASSUME Types, item \in SUB, NEW f \in Expected(item), Generate(f)
  PROVE  /\ pc = "scenarios" /\ content' \in [SUB -> Folder]
         /\ content'[item] = [files |-> content[item].files \cup {f}, ver |-> version]
         /\ \A s \in SUB \ {item} : content'[s] = content[s]
<1> DEFINE r == [files |-> content[item].files \cup {f}, ver |-> version]
<1>1. pc = "scenarios" /\ content' = [content EXCEPT ![item] = r]
  BY DEF Generate
<1>2. content \in [SUB -> Folder] /\ content[item] \in Folder /\ version \in Nat
  BY DEF Types
<1>3. r \in Folder
  BY <1>2 DEF Folder
<1> HIDE DEF r
<1>4. content' \in [SUB -> Folder] /\ content'[item] = r /\ \A s \in SUB \ {item} : content'[s] = content[s]
  BY <1>1, <1>2, <1>3
<1>5. QED
  BY <1>1, <1>4 DEF r

LEMMA RemoveTypes ==
  ASSUME Types, NEW s \in SUB, RemoveFolder(s) \/ CrashInRemoval(s)
  PROVE  Types'
<1>1. content \in [SUB -> Folder] /\ content[s] \in Folder /\ stamp \in [SUB -> Nat \cup {None}]
  BY DEF Types
<1>2. content' \in [SUB -> Folder] /\ stamp' \in [SUB -> Nat \cup {None}]
  <2>1. CASE RemoveFolder(s)
    BY <1>1, <2>1, FolderFacts DEF RemoveFolder
  <2>2. CASE CrashInRemoval(s)
    <3>1. PICK left \in SUBSET content[s].files : content' = [content EXCEPT ![s].files = left]
      BY <2>2 DEF CrashInRemoval
    <3>2. content' \in [SUB -> Folder]
      BY <1>1, <3>1 DEF Folder
    <3>3. stamp' \in [SUB -> Nat \cup {None}]
      BY <1>1, <2>2 DEF CrashInRemoval
    <3>4. QED
      BY <3>2, <3>3
  <2>3. QED
    BY <2>1, <2>2
<1>3. UNCHANGED <<version, report, table3, fp, summary>>
  BY DEF RemoveFolder, CrashInRemoval, Interrupted, world, detected, results
<1>4. QED
  BY <1>2, <1>3 DEF Types

LEMMA TypesStep == ASSUME Types, [Next]_vars PROVE Types'
<1>1. ASSUME NEW s \in SUB, RemoveFolder(s) \/ CrashInRemoval(s) PROVE Types'
  BY <1>1, RemoveTypes
<1>2. ASSUME item \in SUB, NEW f \in Expected(item), Generate(f) PROVE Types'
  <2>1. UNCHANGED <<version, stamp, report, table3, fp, summary>>
    BY <1>2 DEF Generate, world, detected, results
  <2>2. QED
    BY <1>2, <2>1, GenerateFacts DEF Types
<1>3. CASE Stamp
  <2>1. stamp' \in [SUB -> Nat \cup {None}]
    BY <1>3 DEF Stamp, Types
  <2>2. QED
    BY <1>3, <2>1 DEF Stamp, Types, world, detected, results
<1>4. CASE Update
  BY <1>4 DEF Update, Types, folders, detected, results
<1>5. ASSUME NEW s \in SUB, Detect(s) PROVE Types'
  <2>1. content[s] \in Folder
    BY DEF Types
  <2>2. report' \in [SUB -> Folder]
    BY <1>5, <2>1 DEF Detect, Types
  <2>3. QED
    BY <1>5, <2>2 DEF Detect, Types, world, folders, results
<1>6. CASE BuildTable3
  BY <1>6 DEF BuildTable3, Types, world, folders, detected
<1>7. CASE BuildSummary
  BY <1>7, SummaryStep DEF BuildSummary, Types, world, folders, detected
<1>8. CASE Sweep
  BY <1>8, FolderFacts DEF Sweep, Types, world, folders, results
<1>9. ASSUME NEW c \in FP, Classify(c) PROVE Types'
  BY <1>9, ReportStep DEF Classify, Types, world, folders, detected, results
<1>10. CASE Classified \/ RenameReport \/ RenameImages
  <2>1. item \in FP
    BY <1>10 DEF Classified, RenameReport, RenameImages
  <2>2. fp' \in [FP -> Report]
    BY <1>10, <2>1, ReportStep
  <2>3. QED
    BY <1>10, <2>2 DEF Classified, RenameReport, RenameImages, Types, world, folders,
                       detected, results
<1>11. CASE Start \/ PlainStage \/ StageDone \/ DetectAll \/ CachedFigures \/ Curate
  BY <1>11 DEF Start, PlainStage, StageDone, DetectAll, CachedFigures, Curate, Types,
               world, folders, detected, results
<1>12. CASE WriteManifest \/ Crash \/ UNCHANGED vars
  BY <1>12 DEF WriteManifest, Crash, Interrupted, vars, Types, world, folders, detected, results
<1>13. ASSUME NEW s \in SUB, SkipFolder(s) \/ BeginFolder(s) PROVE Types'
  BY <1>13 DEF SkipFolder, BeginFolder, Types, world, folders, detected, results
<1>14. ASSUME NEW p \in PANEL, Panel(p) PROVE Types'
  BY <1>14 DEF Panel, Types, world, folders, detected, results
<1>15. ASSUME NEW c \in FP, SkipFingerprint(c) PROVE Types'
  BY <1>15 DEF SkipFingerprint, Types, world, folders, detected, results
<1>16. QED
  BY <1>1, <1>2, <1>3, <1>4, <1>5, <1>6, <1>7, <1>8, <1>9, <1>10, <1>11, <1>12, <1>13, <1>14,
     <1>15 DEF Next

(* The fingerprint summary is made of whole reports only, wherever the     *)
(* runs that made them were interrupted.                                   *)
THEOREM SummaryOfWhole == Spec => []SummaryWhole
<1>1. Init => Types
  BY InitIInv DEF IInv
<1>2. Types /\ [Next]_vars => Types'
  BY TypesStep
<1>3. Types => SummaryWhole
  BY DEF Types, SummaryWhole
<1>4. QED
  BY <1>1, <1>2, <1>3, PTL DEF Spec

-----------------------------------------------------------------------------
(* The folders and their stamps.                                           *)

FolderInv == StampedBefore /\ CurrentIsWhole /\ InHand

LEMMA StampTypes ==
  ASSUME Types
  PROVE  /\ version \in Nat /\ None \notin Nat /\ None \notin SUB /\ version # None
         /\ \A s \in SUB : stamp[s] \in Nat \cup {None} /\ content[s] \in Folder
  BY ReproduceAssumption DEF Types

\* A folder whose stamp is gone or not current constrains nothing.
LEMMA RemoveStep ==
  ASSUME Types, FolderInv, NEW s \in SUB, RemoveFolder(s)
  PROVE  FolderInv'
<1>1. /\ content' = [content EXCEPT ![s] = NoFiles]
      /\ stamp' = [stamp EXCEPT ![s] = None]
      /\ item' = s /\ pc' = pc /\ torn' = torn /\ version' = version
  BY DEF RemoveFolder, world
<1>2. /\ stamp'[s] = None /\ content'[s] = NoFiles
      /\ \A t \in SUB \ {s} : stamp'[t] = stamp[t] /\ content'[t] = content[t]
  BY <1>1 DEF Types
<1>3. version # None
  BY StampTypes
<1>4. StampedBefore'
  BY <1>1, <1>2 DEF FolderInv, StampedBefore
<1>5. CurrentIsWhole'
  BY <1>1, <1>2, <1>3 DEF FolderInv, CurrentIsWhole, IsCurrent, Whole
<1>6. InHand'
  BY <1>1, <1>2, <1>3 DEF InHand, IsCurrent, HasContent, NoFiles
<1>7. QED
  BY <1>4, <1>5, <1>6 DEF FolderInv

LEMMA CrashInRemovalStep ==
  ASSUME Types, FolderInv, NEW s \in SUB, CrashInRemoval(s)
  PROVE  FolderInv'
<1>1. PICK left \in SUBSET content[s].files : content' = [content EXCEPT ![s].files = left]
  BY DEF CrashInRemoval
<1>2. /\ stamp' \in {stamp, [stamp EXCEPT ![s] = None]} /\ version' = version
      /\ pc' = "idle" /\ torn' = (torn \/ IsCurrent(s))
  BY DEF CrashInRemoval, Interrupted
<1>3. \A t \in SUB \ {s} : stamp'[t] = stamp[t] /\ content'[t] = content[t]
  BY <1>1, <1>2 DEF Types
<1>4. stamp'[s] \in {stamp[s], None}
  BY <1>2 DEF Types
<1>5. version # None
  BY StampTypes
<1>6. StampedBefore'
  BY <1>2, <1>3, <1>4 DEF FolderInv, StampedBefore
<1>7. ASSUME NEW t \in SUB, ~torn', stamp'[t] = version' PROVE content'[t] = Whole(t)'
  <2>1. ~torn /\ ~IsCurrent(s)
    BY <1>2, <1>7
  <2>2. t # s
    BY <1>2, <1>4, <1>5, <1>7, <2>1 DEF IsCurrent
  <2>3. stamp[t] = version /\ content'[t] = content[t]
    BY <1>2, <1>3, <1>7, <2>2
  <2>4. content[t] = Whole(t)
    BY <2>1, <2>3 DEF FolderInv, CurrentIsWhole, IsCurrent
  <2>5. QED
    BY <1>2, <2>3, <2>4 DEF Whole
<1>8. CurrentIsWhole'
  BY <1>7 DEF CurrentIsWhole, IsCurrent
<1>9. InHand'
  BY <1>2 DEF InHand
<1>10. QED
  BY <1>6, <1>8, <1>9 DEF FolderInv

LEMMA BeginStep ==
  ASSUME Types, FolderInv, NEW s \in SUB, BeginFolder(s)
  PROVE  FolderInv'
<1>1. /\ UNCHANGED <<version, torn, content, stamp>> /\ item' = s /\ ~HasContent(s)
  BY DEF BeginFolder, world, folders
<1>2. StampedBefore' /\ CurrentIsWhole'
  BY <1>1 DEF FolderInv, StampedBefore, CurrentIsWhole, IsCurrent, Whole
<1>3. ASSUME ~torn, IsCurrent(s) PROVE FALSE
  <2>a. content[s] = Whole(s)
    BY <1>3 DEF FolderInv, CurrentIsWhole
  <2>1. content[s].files = Expected(s)
    BY <2>a DEF Whole
  <2>2. QED
    BY <1>1, <2>1, FolderFacts DEF HasContent
<1>4. InHand'
  BY <1>1, <1>3 DEF InHand, IsCurrent, HasContent
<1>5. QED
  BY <1>2, <1>4 DEF FolderInv

LEMMA GenerateStep ==
  ASSUME Types, FolderInv, item \in SUB, NEW f \in Expected(item), Generate(f)
  PROVE  FolderInv'
<1>1. /\ UNCHANGED <<version, torn, stamp, item, pc>>
  BY DEF Generate, world
<1>2. /\ pc = "scenarios"
      /\ content'[item] = [files |-> content[item].files \cup {f}, ver |-> version]
      /\ \A s \in SUB \ {item} : content'[s] = content[s]
  BY GenerateFacts
<1>3. ~torn => ~IsCurrent(item)
  BY <1>2 DEF FolderInv, InHand
<1>4. StampedBefore'
  BY <1>1 DEF FolderInv, StampedBefore
<1>5. CurrentIsWhole'
  BY <1>1, <1>2, <1>3 DEF FolderInv, CurrentIsWhole, IsCurrent, Whole
<1>6. InHand'
  BY <1>1, <1>2, <1>3 DEF InHand, IsCurrent, HasContent
<1>7. QED
  BY <1>4, <1>5, <1>6 DEF FolderInv

LEMMA StampStep == ASSUME Types, FolderInv, Stamp PROVE FolderInv'
<1>1. /\ UNCHANGED <<version, torn, content, pc>> /\ item' = None
      /\ pc = "scenarios" /\ item \in SUB /\ content[item].files = Expected(item)
      /\ stamp' = [stamp EXCEPT ![item] = version]
  BY DEF Stamp, world
<1>2. stamp'[item] = version /\ \A s \in SUB \ {item} : stamp'[s] = stamp[s]
  BY <1>1 DEF Types
<1>3. version \in Nat /\ None \notin SUB /\ content[item] \in Folder
  BY <1>1, StampTypes
<1>4. content[item] = Whole(item)
  <2>1. content[item].ver = version
    BY <1>1, FolderFacts DEF FolderInv, InHand, HasContent
  <2>2. QED
    BY <1>1, <1>3, <2>1 DEF Whole, Folder
<1>5. StampedBefore'
  BY <1>1, <1>2, <1>3 DEF FolderInv, StampedBefore
<1>6. ASSUME NEW s \in SUB, ~torn', stamp'[s] = version' PROVE content'[s] = Whole(s)'
  <2>1. CASE s = item
    BY <1>1, <1>4, <2>1 DEF Whole
  <2>2. CASE s # item
    BY <1>1, <1>2, <1>6, <2>2 DEF FolderInv, CurrentIsWhole, IsCurrent, Whole
  <2>3. QED
    BY <2>1, <2>2
<1>7. CurrentIsWhole'
  BY <1>6 DEF CurrentIsWhole, IsCurrent
<1>8. InHand'
  BY <1>1, <1>3 DEF InHand
<1>9. QED
  BY <1>5, <1>7, <1>8 DEF FolderInv

LEMMA UpdateStep == ASSUME Types, FolderInv, Update PROVE FolderInv'
<1>1. /\ UNCHANGED <<torn, content, stamp, pc, item>> /\ version' = version + 1 /\ pc = "idle"
  BY DEF Update, folders
<1>2. /\ version \in Nat /\ None \notin Nat
      /\ \A s \in SUB : stamp[s] \in Nat \cup {None}
  BY StampTypes
<1>3. \A s \in SUB : stamp[s] # None => stamp[s] <= version
  BY DEF FolderInv, StampedBefore
<1>4. \A s \in SUB : stamp'[s] # None => stamp'[s] <= version'
  BY <1>1, <1>2, <1>3
<1>5. \A s \in SUB : stamp'[s] # version'
  BY <1>1, <1>2, <1>3
<1>6. QED
  BY <1>1, <1>4, <1>5 DEF FolderInv, StampedBefore, CurrentIsWhole, IsCurrent, InHand

\* Every other step leaves the folders alone and takes no new one in hand.
LEMMA FoldersAlone ==
  ASSUME [Next]_vars, ~FolderStep, ~(\E s \in SUB : BeginFolder(s))
  PROVE  /\ UNCHANGED <<version, torn, content, stamp>>
         /\ pc' # "scenarios" \/ item' = None \/ UNCHANGED <<pc, item>>
<1>1. CASE Start
  BY <1>1 DEF Start, Enter, folders
<1>2. CASE LeavingStep
  BY <1>2 DEF LeavingStep, PlainStage, StageDone, DetectAll, CachedFigures, BuildTable3,
              BuildSummary, Curate, Sweep, Leave, Enter, world, folders
<1>3. ASSUME NEW s \in SUB, SkipFolder(s) \/ Detect(s)
      PROVE UNCHANGED <<version, torn, content, stamp, pc, item>>
  BY <1>3 DEF SkipFolder, Detect, world, folders
<1>4. ASSUME NEW p \in PANEL, Panel(p)
      PROVE UNCHANGED <<version, torn, content, stamp, pc, item>>
  BY <1>4 DEF Panel, Idle, world, folders
<1>5. ASSUME NEW c \in FP, SkipFingerprint(c) \/ Classify(c)
      PROVE UNCHANGED <<version, torn, content, stamp>> /\ pc' # "scenarios"
  BY <1>5 DEF SkipFingerprint, Classify, Idle, world, folders
<1>6. CASE Classified \/ RenameReport \/ RenameImages
  BY <1>6 DEF Classified, RenameReport, RenameImages, world, folders
<1>7. CASE WriteManifest \/ Crash \/ UNCHANGED vars
  BY <1>7 DEF WriteManifest, Crash, Interrupted, vars, world, folders
<1>8. QED
  BY <1>1, <1>2, <1>3, <1>4, <1>5, <1>6, <1>7 DEF Next, FolderStep, LeavingStep

LEMMA FolderInvStep == ASSUME Types, FolderInv, [Next]_vars PROVE FolderInv'
<1>1. CASE FolderStep
  BY <1>1, RemoveStep, CrashInRemovalStep, GenerateStep, StampStep, UpdateStep DEF FolderStep
<1>2. CASE \E s \in SUB : BeginFolder(s)
  BY <1>2, BeginStep
<1>3. CASE ~FolderStep /\ ~(\E s \in SUB : BeginFolder(s))
  <2>1. UNCHANGED <<version, torn, content, stamp>>
    BY <1>3, FoldersAlone
  <2>2. StampedBefore' /\ CurrentIsWhole'
    BY <2>1 DEF FolderInv, StampedBefore, CurrentIsWhole, IsCurrent, Whole
  <2>3. pc' # "scenarios" \/ item' = None \/ UNCHANGED <<pc, item>>
    BY <1>3, FoldersAlone
  <2>4. None \notin SUB
    BY StampTypes
  <2>5. InHand'
    BY <2>1, <2>3, <2>4 DEF FolderInv, InHand, IsCurrent, HasContent
  <2>6. QED
    BY <2>2, <2>5 DEF FolderInv
<1>4. QED
  BY <1>1, <1>2, <1>3

-----------------------------------------------------------------------------
(* What detection found reaches Table 3.                                   *)

LEMMA StageFacts ==
  /\ "idle" \notin BeforeTables \cup Between \cup AfterTables
  /\ BeforeTables \cap Between = {} /\ BeforeTables \cap AfterTables = {}
  /\ Between \cap AfterTables = {}
  /\ "detection" \in BeforeTables /\ "scenarios" \in BeforeTables /\ "table3" \in Between
  BY DEF BeforeTables, Between, AfterTables

\* Nothing is claimed while no run is under way.
LEMMA IdleEvaluated == pc' = "idle" => Evaluated'
  BY StageFacts DEF Evaluated, Detected, Reported, Tabled

LEMMA DetectStep ==
  ASSUME Types, FolderInv, Evaluated, NEW s \in SUB, Detect(s)
  PROVE  Evaluated'
<1>1. /\ pc = "detection" /\ pc' = pc /\ todo' = todo \ {s}
      /\ UNCHANGED <<version, torn, content, stamp>>
      /\ warned' = (warned \/ ~HasContent(s) \/ ~IsCurrent(s))
      /\ report' = IF HasContent(s) THEN [report EXCEPT ![s] = content[s]] ELSE report
  BY DEF Detect, Idle, world, folders
<1>2. ASSUME Vouched', NEW t \in SUB \ todo' PROVE report'[t] = Whole(t)'
  <2>1. Vouched /\ HasContent(s) /\ IsCurrent(s) /\ ~torn
    BY <1>1, <1>2 DEF Vouched
  <2>2. content[s] = Whole(s)
    BY <2>1 DEF FolderInv, CurrentIsWhole
  <2>3. report' = [report EXCEPT ![s] = Whole(s)]
    BY <1>1, <2>1, <2>2
  <2>4. t = s \/ report[t] = Whole(t)
    BY <1>1, <1>2, <2>1 DEF Evaluated, Detected
  <2>5. report'[t] = Whole(t)
    BY <2>3, <2>4 DEF Types
  <2>6. QED
    BY <1>1, <2>5 DEF Whole
<1>3. Detected'
  BY <1>2 DEF Detected
<1>4. pc' \notin Between /\ pc' \notin AfterTables
  BY <1>1, StageFacts
<1>5. QED
  BY <1>3, <1>4 DEF Evaluated, Reported, Tabled

LEMMA StartStep == ASSUME Start PROVE Evaluated'
<1>1. Enter(0, stages')
  BY DEF Start
<1>2. /\ pc' \in BeforeTables \cup Between \cup AfterTables
      /\ pc' = "detection" => todo' = SUB
      /\ "detection" \in stages' => pc' \in BeforeTables
  BY <1>1, EnterFacts
<1>3. QED
  BY <1>2, StageFacts DEF Evaluated, Detected, Reported, Tabled

\* Steps within a stage other than detection.
LEMMA StayStep ==
  ASSUME Evaluated, pc \in (BeforeTables \ {"detection"}) \cup Between, pc' = pc,
         UNCHANGED <<report, table3, warned, torn, version, stages>>
  PROVE  Evaluated'
  BY StageFacts DEF Evaluated, Detected, Reported, Tabled, Vouched, Whole

LEMMA LeaveStep == ASSUME Evaluated, LeavingStep PROVE Evaluated'
<1>1. /\ Leave /\ UNCHANGED <<warned, torn, version, stages>>
      /\ pc \in BeforeTables \cup Between \cup (AfterTables \ {"manifest"})
  BY DEF LeavingStep, PlainStage, StageDone, DetectAll, CachedFigures, BuildTable3,
         BuildSummary, Curate, Sweep, world, options, BeforeTables, Between, AfterTables
<1>2. /\ pc' \in BeforeTables \cup Between \cup AfterTables
      /\ pc' = "detection" => todo' = SUB
      /\ pc \notin BeforeTables \/ pc = "detection" => pc' \notin BeforeTables
      /\ pc \in AfterTables \/ pc = "table3" => pc' \in AfterTables
      /\ "detection" \in stages =>
           /\ pc \in BeforeTables /\ pc # "detection" => pc' \in BeforeTables
           /\ pc \in (BeforeTables \cup Between) \ {"table3"} => pc' \notin AfterTables
  BY <1>1, LeaveFacts
<1>3. /\ pc \notin AfterTables => report' = report
      /\ pc # "table3" => table3' = table3
      /\ pc = "table3" => table3' = report
  BY DEF LeavingStep, PlainStage, StageDone, DetectAll, CachedFigures, BuildTable3,
         BuildSummary, Curate, Sweep, detected, results, AfterTables
<1>4. \A s \in SUB : Whole(s)' = Whole(s)
  BY <1>1 DEF Whole
<1>5. Vouched' = Vouched
  BY <1>1 DEF Vouched
<1>6. Detected'
  BY <1>2 DEF Detected
<1>7. ASSUME "detection" \in stages', Vouched', pc' \in Between
      PROVE  \A s \in SUB : report'[s] = Whole(s)'
  <2>1. pc = "detection" \/ pc \in Between \ {"table3"}
    BY <1>1, <1>2, <1>7, StageFacts
  <2>2. "detection" \in stages /\ Vouched /\ report' = report
    BY <1>1, <1>3, <1>5, <1>7, <2>1, StageFacts
  <2>3. CASE pc = "detection"
    <3>1. todo = {}
      BY <1>1 DEF Leave
    <3>2. QED
      BY <1>4, <2>2, <2>3, <3>1 DEF Evaluated, Detected
  <2>4. CASE pc \in Between
    BY <1>4, <2>2, <2>4 DEF Evaluated, Reported
  <2>5. QED
    BY <2>1, <2>3, <2>4
<1>8. ASSUME "detection" \in stages', Vouched', pc' \in AfterTables
      PROVE  \A s \in SUB : table3'[s] = Whole(s)'
  <2>1. "detection" \in stages /\ Vouched
    BY <1>1, <1>5, <1>8
  <2>2. pc = "table3" \/ pc \in AfterTables
    BY <1>1, <1>2, <1>8, <2>1
  <2>3. CASE pc = "table3"
    BY <1>3, <1>4, <2>1, <2>3, StageFacts DEF Evaluated, Reported
  <2>4. CASE pc \in AfterTables
    BY <1>3, <1>4, <2>1, <2>4, StageFacts DEF Evaluated, Tabled
  <2>5. QED
    BY <2>2, <2>3, <2>4
<1>9. QED
  BY <1>6, <1>7, <1>8 DEF Evaluated, Reported, Tabled

LEMMA EvaluatedStep == ASSUME Types, FolderInv, Evaluated, [Next]_vars PROVE Evaluated'
<1>1. CASE Start
  BY <1>1, StartStep
<1>2. CASE LeavingStep
  BY <1>2, LeaveStep
<1>3. ASSUME NEW s \in SUB, Detect(s) PROVE Evaluated'
  BY <1>3, DetectStep
<1>4. CASE WriteManifest \/ Crash \/ Update
  <2>1. pc' = "idle"
    BY <1>4 DEF WriteManifest, Crash, Interrupted, Update
  <2>2. QED
    BY <2>1, IdleEvaluated
<1>5. ASSUME NEW s \in SUB, CrashInRemoval(s) PROVE Evaluated'
  <2>1. pc' = "idle"
    BY <1>5 DEF CrashInRemoval, Interrupted
  <2>2. QED
    BY <2>1, IdleEvaluated
<1>6. ASSUME NEW s \in SUB, SkipFolder(s) \/ RemoveFolder(s) \/ BeginFolder(s) PROVE Evaluated'
  <2>1. /\ pc = "scenarios" /\ pc' = pc
        /\ UNCHANGED <<report, table3, warned, torn, version, stages>>
    BY <1>6 DEF SkipFolder, RemoveFolder, BeginFolder, Idle, world, options, detected, results
  <2>2. QED
    BY <2>1, StayStep, StageFacts
<1>7. CASE Stamp \/ (item \in SUB /\ \E f \in Expected(item) : Generate(f))
  <2>1. /\ pc = "scenarios" /\ pc' = pc
        /\ UNCHANGED <<report, table3, warned, torn, version, stages>>
    BY <1>7 DEF Stamp, Generate, world, options, detected, results
  <2>2. QED
    BY <2>1, StayStep, StageFacts
<1>8. ASSUME NEW p \in PANEL, Panel(p) PROVE Evaluated'
  <2>1. /\ pc = "figure7" /\ pc' = pc
        /\ UNCHANGED <<report, table3, warned, torn, version, stages>>
    BY <1>8 DEF Panel, Idle, world, options, detected, results
  <2>2. QED
    BY <2>1, StayStep DEF Between
<1>9. ASSUME NEW c \in FP, SkipFingerprint(c) \/ Classify(c) PROVE Evaluated'
  <2>1. /\ pc = "fingerprint" /\ pc' = pc
        /\ UNCHANGED <<report, table3, warned, torn, version, stages>>
    BY <1>9 DEF SkipFingerprint, Classify, Idle, world, options, detected, results
  <2>2. QED
    BY <2>1, StayStep DEF Between
<1>10. CASE Classified \/ RenameReport \/ RenameImages
  <2>1. /\ pc = "fingerprint" /\ pc' = pc
        /\ UNCHANGED <<report, table3, warned, torn, version, stages>>
    BY <1>10 DEF Classified, RenameReport, RenameImages, world, options, detected, results
  <2>2. QED
    BY <2>1, StayStep DEF Between
<1>11. CASE UNCHANGED vars
  BY <1>11 DEF vars, world, options, detected, results, Evaluated, Detected, Reported, Tabled,
               Vouched, Whole
<1>12. QED
  BY <1>1, <1>2, <1>3, <1>4, <1>5, <1>6, <1>7, <1>8, <1>9, <1>10, <1>11 DEF Next, LeavingStep

(* A run that evaluates and does not warn ends with a Table 3 made of      *)
(* whole, current scenarios, whatever the earlier runs left behind.        *)
THEOREM TableIsSound == Spec => []TableSound
<1>1. IInv /\ [Next]_vars => IInv'
  BY TypesStep, FolderInvStep, EvaluatedStep DEF IInv, FolderInv
<1>2. IInv => TableSound
  BY DEF IInv, Evaluated, Tabled, Vouched, AfterTables, Whole, TableSound
<1>3. QED
  BY <1>1, <1>2, InitIInv, PTL DEF Spec

=============================================================================
