------------------------- MODULE ScenarioGen_proofs -------------------------
(***************************************************************************)
(* Proofs about ScenarioGen, for every capture, selection and grid: what a *)
(* scenario file holds of a selected device.                               *)
(***************************************************************************)
EXTENDS ScenarioGen, FiniteSetTheorems, TLAPS

MacTypes == Ecosystem \ {"SAMSUNG"}

\* A packet with a Samsung private id is read as a Samsung packet, and not
\* as that of another ecosystem whose structure comes first.  Nothing in the
\* code tests it: df_reintro is collected by the private id alone
\* (scenario_gen.py:1361), the background is cleaned of Samsung rows only.
OneEcosystem ==
  \A c \in Captures : \A i \in DOMAIN c :
    PrivOf(c[i].pay) \in PrivId => EcoOf(c[i].pay) = "SAMSUNG"

(* The data of the capture.                                                *)
Captured ==
  /\ raw \in Captures
  /\ DOMAIN df \subseteq DOMAIN raw
  /\ DOMAIN macCand = MacTypes

PrivsAreSamsung ==
  \A i \in DOMAIN df : df[i].priv \in PrivId => df[i].eco = "SAMSUNG"

Fresh == pc \in {"load", "baseline"}

(* The background and the candidates come out of one computation.          *)
Cleaned ==
  ~ Fresh => /\ base = Background
             /\ \A e \in MacTypes : macCand[e] = PersistentMacs(e)
             /\ privCand = PersistentPrivs
             /\ tagCand \subseteq ADV_TAGS

Writing == pc \in {"groups", "downsample", "rotate", "written"}

Reintroduced == Writing => reintro = Collected

(* Where the names of injected rows come from.                             *)
PoolDrawn ==
  pc = "rotate" =>
    /\ pool \in SetToSeqs(Pseudonyms)
    /\ poolI \in Nat
    /\ Pseudonyms # {} =>
         /\ \A w \in DOMAIN winTo : winTo[w] \in Pseudonyms
         /\ macs \in Seq(Pseudonyms)

NamesDrawn ==
  /\ Fresh => injected = NoFunction
  /\ Pseudonyms # {} =>
       \A k \in DOMAIN injected : injected[k].macs \in Seq(Pseudonyms)

Sound == Captured /\ Cleaned /\ Reintroduced /\ PoolDrawn /\ NamesDrawn

-----------------------------------------------------------------------------
(* The pool.                                                               *)

LEMMA BackgroundKnown == Cleaned /\ ~ Fresh => base \subseteq DOMAIN df
  BY DEF Cleaned, Background

\* The pool is finite: every capture is.
LEMMA FinitePool ==
  ASSUME Captured, base \subseteq DOMAIN df
  PROVE  /\ Cardinality(Pseudonyms) \in Nat
         /\ Pseudonyms # {} => Cardinality(Pseudonyms) # 0
<1> DEFINE named == [i \in base |-> df[i].mac]
<1>1. IsFiniteSet(DOMAIN raw)
  BY ScenarioAssumption DEF Captured
<1>2. IsFiniteSet(base)
  BY <1>1, FS_Subset DEF Captured
<1>3. named \in Surjection(base, Pseudonyms)
  BY DEF Surjection, Pseudonyms
<1>4. IsFiniteSet(Pseudonyms)
  BY <1>2, <1>3, FS_Surjection DEF ExistsSurjection
<1> QED
  BY <1>4, FS_CardinalityType, FS_EmptySet

\* A background that has rows has at least one pseudonym to shuffle.
LEMMA PoolNotEmpty ==
  ASSUME Captured, base \subseteq DOMAIN df, Pseudonyms # {},
         pool \in SetToSeqs(Pseudonyms)
  PROVE  /\ Len(pool) \in Nat \ {0}
         /\ DOMAIN pool = 1 .. Len(pool)
         /\ \A n \in DOMAIN pool : pool[n] \in Pseudonyms
<1>5. Cardinality(Pseudonyms) \in Nat \ {0}
  BY FinitePool
<1>6. pool \in [1 .. Cardinality(Pseudonyms) -> Pseudonyms]
  BY DEF SetToSeqs
<1>7. Len(pool) = Cardinality(Pseudonyms)
  BY <1>5, <1>6
<1> QED
  BY <1>5, <1>6, <1>7

LEMMA RoundRobin ==
  ASSUME NEW n \in Nat \ {0}, NEW i \in Nat
  PROVE  (i % n) + 1 \in 1 .. n
  OBVIOUS

-----------------------------------------------------------------------------
(* Preservation.                                                           *)

LEMMA InitSound == Init => Sound
<1> SUFFICES ASSUME Init PROVE Sound
  OBVIOUS
<1>1. DOMAIN df = {} /\ DOMAIN injected = {}
  BY DEF Init, NoFunction
<1>2. Captured
  BY <1>1 DEF Init, Captured, MacTypes
<1> QED
  BY <1>1, <1>2 DEF Init, Sound, Cleaned, Fresh, Reintroduced, Writing,
     PoolDrawn, NamesDrawn

LEMMA LoadSound == Sound /\ Load => Sound'
<1> SUFFICES ASSUME Sound, Load PROVE Sound'
  OBVIOUS
<1>1. Captured'
  BY DEF Load, Sound, Captured
<1>2. NamesDrawn'
  <2>1. injected' = NoFunction
    BY DEF Load, Sound, NamesDrawn, Fresh
  <2> QED
    BY <2>1 DEF NamesDrawn, NoFunction
<1> QED
  BY <1>1, <1>2 DEF Load, Sound, Cleaned, Fresh, Reintroduced, Writing,
     PoolDrawn

LEMMA BaselineSound == Sound /\ Baseline => Sound'
<1> SUFFICES ASSUME Sound, Baseline PROVE Sound'
  OBVIOUS
<1>1. Captured'
  BY DEF Baseline, Sound, Captured
<1>2. Cleaned'
  <2>1. /\ Background' = Background /\ PersistentPrivs' = PersistentPrivs
        /\ \A e : PersistentMacs(e)' = PersistentMacs(e)
    BY DEF Baseline, Background, AdvMask, KnownMask, PersistentMacs,
       PersistentPrivs, Persists, Sound, Captured
  <2> QED
    BY <2>1 DEF Baseline, Cleaned, Sound, Captured, PersistentMacs, Persists,
       PersistentPrivs, Background, AdvMask, KnownMask
<1>3. NamesDrawn'
  <2>1. injected' = NoFunction
    BY DEF Baseline, Sound, NamesDrawn, Fresh
  <2> QED
    BY <2>1 DEF NamesDrawn, NoFunction
<1> QED
  BY <1>1, <1>2, <1>3 DEF Baseline, Sound, Reintroduced, Writing, PoolDrawn

\* Nothing after the baseline changes what was computed from the capture.
LEMMA DataKept ==
  ASSUME Captured, Cleaned, ~ Fresh, UNCHANGED capture
  PROVE  Captured' /\ Cleaned' /\ Pseudonyms' = Pseudonyms
<1>1. /\ Background' = Background /\ PersistentPrivs' = PersistentPrivs
      /\ \A e : PersistentMacs(e)' = PersistentMacs(e)
  BY DEF capture, Background, AdvMask, KnownMask, PersistentMacs,
     PersistentPrivs, Persists
<1>2. Captured' /\ Pseudonyms' = Pseudonyms
  BY DEF capture, Captured, Pseudonyms
<1> QED
  BY <1>1, <1>2 DEF capture, Cleaned

LEMMA SelectSound == Sound /\ (SelectByCount \/ SelectExplicit) => Sound'
<1> SUFFICES ASSUME Sound, SelectByCount \/ SelectExplicit PROVE Sound'
  OBVIOUS
<1>1. ~ Fresh /\ UNCHANGED capture /\ pc' = "collect"
  BY DEF SelectByCount, SelectExplicit, Fresh
<1>2. injected' = injected
  BY DEF SelectByCount, SelectExplicit
<1> QED
  BY <1>1, <1>2, DataKept DEF Sound, Reintroduced, Writing, PoolDrawn,
     NamesDrawn, Fresh

LEMMA CollectSound == Sound /\ (Collect \/ BackgroundOnly) => Sound'
<1> SUFFICES ASSUME Sound, Collect \/ BackgroundOnly PROVE Sound'
  OBVIOUS
<1>1. ~ Fresh /\ UNCHANGED capture /\ pc' \in {"groups", "done"}
  BY DEF Collect, BackgroundOnly, Fresh
<1>2. injected' = injected /\ sel' = sel
  BY DEF Collect, BackgroundOnly
<1>3. Collected' = Collected
  BY <1>1, <1>2 DEF capture, Collected, SelectedMacs, OwnKey
<1>4. Reintroduced'
  BY <1>3 DEF Reintroduced, Collect, BackgroundOnly, Writing
<1> QED
  BY <1>1, <1>2, <1>4, DataKept DEF Sound, PoolDrawn, NamesDrawn, Fresh

\* What a step of the writing loop has to show.
LEMMA WritingStep ==
  ASSUME Sound, Writing, Writing', UNCHANGED <<capture, sel, reintro>>,
         PoolDrawn',
         Pseudonyms # {} =>
           \A k \in DOMAIN injected' : injected'[k].macs \in Seq(Pseudonyms)
  PROVE  Sound'
<1>1. ~ Fresh /\ ~ Fresh'
  BY DEF Fresh, Writing
<1>2. Captured' /\ Cleaned' /\ Pseudonyms' = Pseudonyms
  BY <1>1, DataKept DEF Sound
<1>3. Collected' = Collected
  BY DEF capture, Collected, SelectedMacs, OwnKey
<1>4. Reintroduced'
  BY <1>3 DEF Reintroduced, Sound
<1>5. NamesDrawn'
  BY <1>1, <1>2 DEF NamesDrawn
<1> QED
  BY <1>2, <1>4, <1>5 DEF Sound

\* Steps between the drawing of a pool and the next.
LEMMA LoopSound ==
  Sound /\ (StartGroup \/ Downsample \/ WriteScenario \/ NextSetting) => Sound'
<1> SUFFICES ASSUME Sound,
                    StartGroup \/ Downsample \/ WriteScenario \/ NextSetting
             PROVE  Sound'
  OBVIOUS
<1>1. Writing /\ Writing' /\ UNCHANGED <<capture, sel, reintro>>
  BY DEF StartGroup, Downsample, WriteScenario, NextSetting, Writing
<1>2. PoolDrawn'
  BY DEF StartGroup, Downsample, WriteScenario, NextSetting, PoolDrawn
<1>3. injected' = injected \/ DOMAIN injected' = {}
  BY DEF StartGroup, Downsample, WriteScenario, NextSetting, NoFunction
<1> QED
  BY <1>1, <1>2, <1>3, WritingStep DEF Sound, NamesDrawn

LEMMA ShuffleSound == Sound /\ Shuffle => Sound'
<1> SUFFICES ASSUME Sound, Shuffle PROVE Sound'
  OBVIOUS
<1>1. Writing /\ Writing' /\ UNCHANGED <<capture, sel, reintro>>
  BY DEF Shuffle, Writing
<1>2. Pseudonyms' = Pseudonyms
  BY <1>1 DEF capture, Pseudonyms
<1>3. PoolDrawn'
  <2>1. pool' \in SetToSeqs(Pseudonyms') /\ poolI' = 0 /\ macs' = <<>>
    BY <1>2 DEF Shuffle
  <2>2. DOMAIN winTo' = {}
    BY DEF Shuffle, NoFunction
  <2> QED
    BY <2>1, <2>2 DEF PoolDrawn
<1> QED
  BY <1>1, <1>3, WritingStep DEF Sound, NamesDrawn, Shuffle

LEMMA RotateSound == Sound /\ Rotate => Sound'
<1> SUFFICES ASSUME Sound, Rotate PROVE Sound'
  OBVIOUS
<1>1. Writing /\ Writing' /\ UNCHANGED <<capture, sel, reintro>>
  BY DEF Rotate, Writing
<1>2. /\ Pseudonyms' = Pseudonyms /\ pool' = pool /\ injected' = injected
      /\ pc = "rotate" /\ ~ Fresh
  BY <1>1 DEF capture, Pseudonyms, Rotate, Fresh
<1> DEFINE j == Len(macs) + 1
<1>3. pool \in SetToSeqs(Pseudonyms) /\ poolI \in Nat
  BY <1>2 DEF Sound, PoolDrawn
<1>4. poolI' \in Nat
  BY <1>3 DEF Rotate
<1>5. ASSUME Pseudonyms # {}
      PROVE  /\ \A w \in DOMAIN winTo' : winTo'[w] \in Pseudonyms
             /\ macs' \in Seq(Pseudonyms)
  <2>1. /\ \A w \in DOMAIN winTo : winTo[w] \in Pseudonyms
        /\ macs \in Seq(Pseudonyms)
    BY <1>2, <1>5 DEF Sound, PoolDrawn
  <2>2. /\ Len(pool) \in Nat \ {0} /\ DOMAIN pool = 1 .. Len(pool)
        /\ \A n \in DOMAIN pool : pool[n] \in Pseudonyms
    BY <1>2, <1>3, <1>5, BackgroundKnown, PoolNotEmpty DEF Sound
  <2>3. pool # <<>>
    BY <2>2
  <2>4. pool[(poolI % Len(pool)) + 1] \in Pseudonyms
    BY <1>3, <2>2, RoundRobin
  <2>5. /\ winTo' = IF Window(j) \in DOMAIN winTo THEN winTo
                    ELSE With(winTo, Window(j), pool[(poolI % Len(pool)) + 1])
        /\ macs' = Append(macs, winTo'[Window(j)])
    BY <2>3 DEF Rotate
  <2> HIDE DEF j
  <2>6. /\ Window(j) \in DOMAIN winTo'
        /\ \A w \in DOMAIN winTo' : winTo'[w] \in Pseudonyms
    BY <2>1, <2>4, <2>5 DEF With
  <2>7. winTo'[Window(j)] \in Pseudonyms
    BY <2>6
  <2> QED
    BY <2>1, <2>5, <2>6, <2>7
<1>6. PoolDrawn'
  BY <1>2, <1>3, <1>4, <1>5 DEF PoolDrawn
<1> QED
  BY <1>1, <1>2, <1>6, WritingStep DEF Sound, NamesDrawn

LEMMA EndGroupSound == Sound /\ EndGroup => Sound'
<1> SUFFICES ASSUME Sound, EndGroup PROVE Sound'
  OBVIOUS
<1>1. Writing /\ Writing' /\ UNCHANGED <<capture, sel, reintro>>
  BY DEF EndGroup, Writing
<1>2. PoolDrawn'
  BY DEF EndGroup, PoolDrawn
<1>3. ASSUME Pseudonyms # {}, NEW k \in DOMAIN injected'
      PROVE  injected'[k].macs \in Seq(Pseudonyms)
  <2>1. macs \in Seq(Pseudonyms)
    BY <1>3 DEF Sound, PoolDrawn, EndGroup
  <2>2. k \in DOMAIN injected => injected[k].macs \in Seq(Pseudonyms)
    BY <1>3 DEF Sound, NamesDrawn
  <2>3. /\ k = key => injected'[k].macs = macs
        /\ k # key => k \in DOMAIN injected /\ injected'[k] = injected[k]
    BY <1>3 DEF EndGroup, With
  <2> QED
    BY <2>1, <2>2, <2>3
<1> QED
  BY <1>1, <1>2, <1>3, WritingStep

\* The strengthened invariant.
THEOREM StaysSound == Spec => []Sound
<1>1. Sound /\ [Next]_vars => Sound'
  <2> SUFFICES ASSUME Sound, [Next]_vars PROVE Sound'
    OBVIOUS
  <2>1. CASE UNCHANGED vars
    BY <2>1 DEF vars, capture, group, Sound, Captured, Cleaned, Fresh,
       Background, AdvMask, KnownMask, PersistentMacs, PersistentPrivs,
       Persists, Reintroduced, Writing, Collected, SelectedMacs, OwnKey,
       PoolDrawn, NamesDrawn, Pseudonyms
  <2>2. CASE Next
    BY <2>2, LoadSound, BaselineSound, SelectSound, CollectSound, LoopSound,
       ShuffleSound, RotateSound, EndGroupSound DEF Next
  <2> QED
    BY <2>1, <2>2
<1> QED
  BY <1>1, InitSound, PTL DEF Spec

-----------------------------------------------------------------------------
(* What a scenario holds of a selected device.                             *)

\* The rows of a selected MAC are not in the background.
LEMMA MacsRemoved ==
  ASSUME Captured, Cleaned, ~ Fresh, CandidatesOnly,
         NEW i \in DOMAIN df, df[i].mac \in SelectedMacs
  PROVE  i \notin base
<1>1. PICK e \in MacTypes : df[i].mac \in macCand[e]
  BY DEF CandidatesOnly, SelectedMacs, MacTypes, Ecosystem
<1>2. df[i].mac \in PersistentMacs(e) /\ e \in DOMAIN macCand
  BY <1>1 DEF Cleaned, Captured
<1>3. i \in KnownMask
  BY <1>2 DEF KnownMask
<1> QED
  BY <1>3 DEF Cleaned, Background

\* OwnMacGone (scenario_gen.py:1387): the pool that renames the injected
\* rows is the background's MACs, the background has lost every row of a
\* selected candidate, and no row keeps its MAC when there is a pool.
THEOREM OwnMacNeverShown == Spec => []OwnMacGone
<1>1. Sound => OwnMacGone
  <2> SUFFICES ASSUME Sound, pc = "written", CandidatesOnly, Pseudonyms # {}
               PROVE  SelectedMacs \cap
                        (Pseudonyms \cup
                         UNION {ToSet(injected[k].macs) :
                                  k \in DOMAIN injected}) = {}
    BY DEF OwnMacGone, Pseudonyms
  <2>1. SelectedMacs \cap Pseudonyms = {}
    <3>1. ~ Fresh /\ base \subseteq DOMAIN df
      BY BackgroundKnown DEF Sound, Fresh
    <3> QED
      BY <3>1, MacsRemoved DEF Sound, Pseudonyms
  <2>2. \A k \in DOMAIN injected : ToSet(injected[k].macs) \subseteq Pseudonyms
    <3> SUFFICES ASSUME NEW k \in DOMAIN injected
                 PROVE  ToSet(injected[k].macs) \subseteq Pseudonyms
      OBVIOUS
    <3>1. injected[k].macs \in Seq(Pseudonyms)
      BY DEF Sound, NamesDrawn
    <3> QED
      BY <3>1 DEF ToSet
  <2> QED
    BY <2>1, <2>2
<1> QED
  BY <1>1, StaysSound, PTL

LEMMA PrivsStay ==
  ASSUME OneEcosystem
  PROVE  Spec => []PrivsAreSamsung
<1>1. Init => PrivsAreSamsung
  BY DEF Init, PrivsAreSamsung, NoFunction
<1>2. Captured /\ PrivsAreSamsung /\ [Next]_vars => PrivsAreSamsung'
  <2> SUFFICES ASSUME Captured, PrivsAreSamsung, [Next]_vars
               PROVE  PrivsAreSamsung'
    OBVIOUS
  <2>1. CASE Load
    <3> SUFFICES ASSUME NEW i \in DOMAIN df', df'[i].priv \in PrivId
                 PROVE  df'[i].eco = "SAMSUNG"
      BY DEF PrivsAreSamsung
    <3>1. /\ i \in DOMAIN raw /\ df'[i].priv = PrivOf(raw[i].pay)
          /\ df'[i].eco = EcoOf(raw[i].pay)
      BY <2>1 DEF Load
    <3> QED
      BY <3>1 DEF OneEcosystem, Captured
  <2>2. CASE ~ Load
    <3>1. df' = df
      BY <2>2 DEF Next, vars, capture, Baseline, SelectByCount, SelectExplicit,
         BackgroundOnly, Collect, StartGroup, Downsample, Shuffle, Rotate,
         EndGroup, WriteScenario, NextSetting
    <3> QED
      BY <3>1 DEF PrivsAreSamsung
  <2> QED
    BY <2>1, <2>2
<1>3. Spec => []Captured
  <2>1. Sound => Captured
    BY DEF Sound
  <2> QED
    BY <2>1, StaysSound, PTL
<1> QED
  BY <1>1, <1>2, <1>3, PTL DEF Spec

\* NoEcho (scenario_gen.py:341, :1331): the masks that clean the background
\* and those that collect the rows to be put back are computed in two places
\* by different rules, yet no row is in both, if a packet with a Samsung id
\* is always read as a Samsung packet.
THEOREM NoRowTwice ==
  ASSUME OneEcosystem
  PROVE  Spec => []NoEcho
<1>1. Sound /\ PrivsAreSamsung => NoEcho
  <2> SUFFICES ASSUME Sound, PrivsAreSamsung, pc = "written", CandidatesOnly,
                      NEW r \in reintro, r[1] \in base
               PROVE  FALSE
    BY DEF NoEcho
  <2>1. ~ Fresh /\ reintro = Collected
    BY DEF Sound, Fresh, Reintroduced, Writing
  <2>2. base = Background /\ privCand = PersistentPrivs
    BY <2>1 DEF Sound, Cleaned
  <2>3. PICK i \in DOMAIN df :
          /\ r[1] = i
          /\ \/ \E t \in sel.tags : t \in df[i].marks
             \/ df[i].mac \in SelectedMacs
             \/ df[i].priv \in sel.privs
    BY <2>1 DEF Collected
  <2>4. CASE \E t \in sel.tags : t \in df[i].marks
    <3>1. i \in AdvMask
      BY <2>1, <2>4 DEF Sound, Cleaned, CandidatesOnly, AdvMask
    <3> QED
      BY <2>2, <2>3, <3>1 DEF Background
  <2>5. CASE df[i].mac \in SelectedMacs
    BY <2>1, <2>3, <2>5, MacsRemoved DEF Sound
  <2>6. CASE df[i].priv \in sel.privs
    <3>1. df[i].priv \in PersistentPrivs
      BY <2>2, <2>6 DEF CandidatesOnly
    <3>2. df[i].eco = "SAMSUNG"
      BY <3>1 DEF PersistentPrivs, PrivsAreSamsung
    <3>3. i \in KnownMask
      BY <3>1, <3>2 DEF KnownMask
    <3> QED
      BY <2>2, <2>3, <3>3 DEF Background
  <2> QED
    BY <2>3, <2>4, <2>5, <2>6
<1> QED
  BY <1>1, PrivsStay, StaysSound, PTL

-----------------------------------------------------------------------------
(* The pace of an injected device and the change of its names.             *)

Timed == \A i \in DOMAIN df : df[i].t \in Nat

(* Rows that are kept are a period apart, whichever two one takes.         *)
Paced(rows) ==
  /\ rows \in Seq(DOMAIN df)
  /\ \A j, k \in 1 .. Len(rows) : j < k => df[rows[k]].t - df[rows[j]].t >= Period

AllMacs == {df[i].mac : i \in DOMAIN df}

Changing(names) == \A j \in 1 .. Len(names) - 1 : names[j + 1] # names[j]

Thinned ==
  /\ pc = "downsample" => todo \subseteq DOMAIN df
  /\ pc \in {"downsample", "rotate"} => Paced(kept)

(* Only windows of rows that have been named are known, and the last row   *)
(* named got the pseudonym drawn last.                                     *)
Named ==
  pc = "rotate" =>
    /\ pool \in SetToSeqs(Pseudonyms) /\ poolI \in Nat
    /\ Len(macs) \in 0 .. Len(kept) /\ macs \in Seq(AllMacs)
    /\ \A w \in DOMAIN winTo : \E j \in 1 .. Len(macs) : w = Window(j)
    /\ Cardinality(Pseudonyms) >= 2 =>
         /\ Changing(macs)
         /\ macs # <<>> =>
              /\ poolI # 0
              /\ macs[Len(macs)] = pool[((poolI - 1) % Len(pool)) + 1]

Injected ==
  \A k \in DOMAIN injected :
    /\ Paced(injected[k].rows)
    /\ Len(injected[k].macs) = Len(injected[k].rows)
    /\ Cardinality(Pseudonyms) >= 2 => Changing(injected[k].macs)

InGrid == setting \in DOMAIN PERIODS

Spaced ==
  Sound /\ Timed /\ InGrid /\ (~ Writing => injected = NoFunction)
        /\ Thinned /\ Named /\ Injected

LEMMA PeriodPositive == InGrid => Period \in Nat \ {0}
  BY ScenarioAssumption DEF InGrid, Period

\* Times a period apart are in different windows.
LEMMA NextWindow ==
  ASSUME NEW x \in Int, NEW y \in Int, NEW P \in Nat \ {0}, y - x >= P
  PROVE  x \div P < y \div P
<1>1. x \div P \in Int /\ y \div P \in Int
  OBVIOUS
<1>2. P * (x \div P) <= x
  OBVIOUS
<1>3. y < P * (y \div P) + P
  OBVIOUS
<1> SUFFICES ASSUME x \div P >= y \div P PROVE FALSE
  BY <1>1
<1>4. \A a, b \in Int : a >= b => P * a >= P * b
  OBVIOUS
<1> QED
  BY <1>1, <1>2, <1>3, <1>4

\* Two places of the pool that are drawn one after the other differ.
LEMMA NextPlace ==
  ASSUME NEW n \in Nat, n >= 2, NEW i \in Nat
  PROVE  ((i + 1) % n) # (i % n)
<1>1. i = n * (i \div n) + (i % n) /\ i \div n \in Int /\ i % n \in Int
  OBVIOUS
<1>2. /\ i + 1 = n * ((i + 1) \div n) + ((i + 1) % n)
      /\ (i + 1) \div n \in Int
  OBVIOUS
<1> SUFFICES ASSUME ((i + 1) % n) = (i % n) PROVE FALSE
  OBVIOUS
<1>3. n * ((i + 1) \div n) - n * (i \div n) = 1
  BY <1>1, <1>2
<1>4. \A a, b \in Int : n * a - n * b = n * (a - b)
  OBVIOUS
<1>5. \A k \in Int : n * k # 1
  <2> SUFFICES ASSUME NEW k \in Int PROVE n * k # 1
    OBVIOUS
  <2>1. CASE k <= 0
    BY <2>1
  <2>2. CASE k >= 1
    BY <2>2
  <2> QED
    BY <2>1, <2>2
<1> DEFINE d == ((i + 1) \div n) - (i \div n)
<1>6. d \in Int /\ n * d = 1
  BY <1>1, <1>2, <1>3, <1>4
<1> HIDE DEF d
<1> QED
  BY <1>5, <1>6

\* A row kept later is in a later window.
LEMMA LaterWindow ==
  ASSUME Timed, InGrid, Paced(kept),
         NEW j \in 1 .. Len(kept), NEW k \in 1 .. Len(kept), j < k
  PROVE  Window(j) # Window(k)
<1>1. /\ Len(kept) \in Nat
      /\ \A h \in 1 .. Len(kept) : df[kept[h]].t \in Nat
  BY DEF Paced, Timed
<1>2. df[kept[k]].t - df[kept[j]].t >= Period
  BY DEF Paced
<1> DEFINE at(h) == df[kept[h]].t - df[kept[1]].t
<1>3. at(j) \in Int /\ at(k) \in Int /\ at(k) - at(j) >= Period
  BY <1>1, <1>2, PeriodPositive
<1>4. at(j) \div Period < at(k) \div Period
  <2> HIDE DEF at
  <2> QED
    BY <1>3, NextWindow, PeriodPositive
<1>5. at(j) \div Period \in Int
  <2> HIDE DEF at
  <2> QED
    BY <1>3, PeriodPositive
<1>6. at(k) \div Period \in Int
  <2> HIDE DEF at
  <2> QED
    BY <1>3, PeriodPositive
<1>7. at(j) \div Period # at(k) \div Period
  <2> HIDE DEF at
  <2> QED
    BY <1>4, <1>5, <1>6
<1> QED
  BY <1>7 DEF Window

LEMMA InitSpaced == Init => Spaced
<1> SUFFICES ASSUME Init PROVE Spaced
  OBVIOUS
<1>1. injected = NoFunction /\ DOMAIN df = {} /\ DOMAIN injected = {}
  BY DEF Init, NoFunction
<1>2. InGrid
  BY ScenarioAssumption DEF Init, InGrid
<1> QED
  BY <1>1, <1>2, InitSound DEF Init, Spaced, Timed, Thinned, Named, Injected

\* Before the first setting is written there is nothing to show.
LEMMA PrepareSpaced ==
  ASSUME Spaced, Sound', ~ Writing, pc' \notin {"downsample", "rotate"},
         injected' = injected, setting' = setting, Timed'
  PROVE  Spaced'
<1>1. injected' = NoFunction /\ DOMAIN injected' = {}
  BY DEF Spaced, NoFunction
<1>2. InGrid'
  BY DEF Spaced, InGrid
<1> QED
  BY <1>1, <1>2 DEF Spaced, Thinned, Named, Injected

\* What stays as it is in the writing loop.
LEMMA LoopKeeps ==
  ASSUME Spaced, Writing, UNCHANGED <<capture, sel, reintro>>
  PROVE  /\ Timed' /\ Pseudonyms' = Pseudonyms /\ DOMAIN df' = DOMAIN df
         /\ AllMacs' = AllMacs /\ reintro = Collected
         /\ Pseudonyms \subseteq AllMacs
<1>1. base \subseteq DOMAIN df
  BY BackgroundKnown DEF Spaced, Sound, Writing, Fresh
<1>2. Timed'
  BY DEF Spaced, Timed, capture
<1>3. reintro = Collected
  BY DEF Spaced, Sound, Reintroduced
<1> QED
  BY <1>1, <1>2, <1>3 DEF capture, Pseudonyms, AllMacs

LEMMA PreparingSpaced ==
  ASSUME Spaced,
         Load \/ Baseline \/ SelectByCount \/ SelectExplicit \/ BackgroundOnly
           \/ Collect
  PROVE  Spaced'
<1>1. Sound'
  BY LoadSound, BaselineSound, SelectSound, CollectSound DEF Spaced
<1>2. /\ ~ Writing /\ pc' \notin {"downsample", "rotate"}
      /\ injected' = injected /\ setting' = setting
  BY DEF Load, Baseline, SelectByCount, SelectExplicit, BackgroundOnly,
     Collect, Writing
<1>3. Timed'
  <2>1. CASE Load
    <3> SUFFICES ASSUME NEW i \in DOMAIN df' PROVE df'[i].t \in Nat
      BY DEF Timed
    <3>1. i \in DOMAIN raw /\ df'[i].t = raw[i].t
      BY <2>1 DEF Load
    <3> QED
      BY <3>1, ScenarioAssumption DEF Spaced, Sound, Captured
  <2>2. CASE ~ Load
    BY <2>2 DEF Baseline, SelectByCount, SelectExplicit, BackgroundOnly,
       Collect, capture, Spaced, Timed
  <2> QED
    BY <2>1, <2>2
<1> QED
  BY <1>1, <1>2, <1>3, PrepareSpaced

LEMMA StartGroupSpaced == Spaced /\ StartGroup => Spaced'
<1> SUFFICES ASSUME Spaced, StartGroup PROVE Spaced'
  OBVIOUS
<1>1. Writing /\ Writing' /\ UNCHANGED <<capture, sel, reintro>>
  BY DEF StartGroup, Writing
<1>2. Sound'
  BY LoopSound DEF Spaced
<1>3. InGrid' /\ Period' = Period
  BY DEF StartGroup, Spaced, InGrid, Period
<1>4. RowsOf(key') \subseteq DOMAIN df
  BY <1>1, LoopKeeps DEF RowsOf, Collected
<1>5. Thinned'
  BY <1>1, <1>4, LoopKeeps DEF Thinned, StartGroup, Paced
<1>6. Named'
  BY DEF Named, StartGroup
<1>7. Injected'
  BY <1>1, <1>3, LoopKeeps DEF Injected, Spaced, StartGroup, Paced, Changing,
     capture
<1> QED
  BY <1>1, <1>2, <1>3, <1>5, <1>6, <1>7, LoopKeeps DEF Spaced

LEMMA DownsampleSpaced == Spaced /\ Downsample => Spaced'
<1> SUFFICES ASSUME Spaced, Downsample PROVE Spaced'
  OBVIOUS
<1>1. Writing /\ Writing' /\ UNCHANGED <<capture, sel, reintro>>
  BY DEF Downsample, Writing
<1>2. Sound'
  BY LoopSound DEF Spaced
<1>3. InGrid' /\ Period' = Period /\ df' = df
  BY DEF Downsample, Spaced, InGrid, Period, capture
<1>4. PICK i \in todo :
        /\ kept' = IF kept = <<>> \/ df[i].t - df[kept[Len(kept)]].t >= Period
                   THEN Append(kept, i) ELSE kept
        /\ todo' = todo \ {i}
  BY DEF Downsample
<1>5. todo \subseteq DOMAIN df /\ Paced(kept) /\ pc = "downsample"
  BY DEF Downsample, Spaced, Thinned
<1>6. Period \in Nat \ {0}
  BY PeriodPositive DEF Spaced
<1>7. ASSUME kept = <<>> \/ df[i].t - df[kept[Len(kept)]].t >= Period
      PROVE  Paced(Append(kept, i))
  <2> DEFINE more == Append(kept, i)
  <2>1. /\ kept \in Seq(DOMAIN df) /\ Len(kept) \in Nat /\ i \in DOMAIN df
        /\ \A h \in 1 .. Len(kept) : kept[h] \in DOMAIN df
    BY <1>4, <1>5 DEF Paced
  <2>2. /\ more \in Seq(DOMAIN df) /\ Len(more) = Len(kept) + 1
        /\ more[Len(kept) + 1] = i
        /\ \A h \in 1 .. Len(kept) : more[h] = kept[h]
    BY <2>1
  <2>3. /\ df[i].t \in Nat
        /\ \A h \in 1 .. Len(kept) : df[kept[h]].t \in Nat
    BY <2>1 DEF Spaced, Timed
  <2>4. \A h \in 1 .. Len(kept) : df[i].t - df[kept[h]].t >= Period
    <3> SUFFICES ASSUME NEW h \in 1 .. Len(kept)
                 PROVE  df[i].t - df[kept[h]].t >= Period
      OBVIOUS
    <3>1. df[i].t - df[kept[Len(kept)]].t >= Period /\ Len(kept) # 0
      BY <1>7, <2>1
    <3>2. CASE h = Len(kept)
      BY <3>1, <3>2
    <3>3. CASE h < Len(kept)
      <4>1. df[kept[Len(kept)]].t - df[kept[h]].t >= Period
        BY <1>5, <2>1, <3>1, <3>3 DEF Paced
      <4> QED
        BY <1>6, <2>1, <2>3, <3>1, <4>1
    <3> QED
      BY <2>1, <3>2, <3>3
  <2>5. ASSUME NEW j \in 1 .. Len(more), NEW k \in 1 .. Len(more), j < k
        PROVE  df[more[k]].t - df[more[j]].t >= Period
    <3> HIDE DEF more
    <3>1. j \in 1 .. Len(kept) /\ more[j] = kept[j]
      BY <2>1, <2>2, <2>5
    <3>2. CASE k \in 1 .. Len(kept)
      BY <1>5, <2>2, <2>5, <3>1, <3>2 DEF Paced
    <3>3. CASE k = Len(kept) + 1
      BY <2>2, <2>4, <3>1, <3>3
    <3> QED
      BY <2>1, <2>2, <3>2, <3>3
  <2> QED
    BY <2>2, <2>5 DEF Paced
<1>8. Paced(kept')
  BY <1>4, <1>5, <1>7
<1>9. Thinned'
  BY <1>3, <1>4, <1>5, <1>8 DEF Thinned, Paced
<1>10. Named'
  BY DEF Named, Downsample
<1>11. Injected'
  BY <1>1, <1>3, LoopKeeps DEF Injected, Spaced, Downsample, Paced, Changing
<1> QED
  BY <1>1, <1>2, <1>3, <1>9, <1>10, <1>11, LoopKeeps DEF Spaced

LEMMA ShuffleSpaced == Spaced /\ Shuffle => Spaced'
<1> SUFFICES ASSUME Spaced, Shuffle PROVE Spaced'
  OBVIOUS
<1>1. Writing /\ Writing' /\ UNCHANGED <<capture, sel, reintro>>
  BY DEF Shuffle, Writing
<1>2. Sound'
  BY ShuffleSound DEF Spaced
<1>3. InGrid' /\ Period' = Period /\ df' = df
  BY DEF Shuffle, Spaced, InGrid, Period, capture
<1>4. Thinned'
  BY <1>3 DEF Thinned, Spaced, Shuffle, Paced
<1>5. Named'
  <2>1. /\ pool' \in SetToSeqs(Pseudonyms') /\ poolI' = 0 /\ macs' = <<>>
        /\ DOMAIN winTo' = {} /\ kept' = kept
    BY <1>1, LoopKeeps DEF Shuffle, NoFunction
  <2>2. Len(kept) \in Nat
    BY DEF Spaced, Thinned, Shuffle, Paced
  <2> QED
    BY <2>1, <2>2 DEF Named, Changing
<1>6. Injected'
  BY <1>1, <1>3, LoopKeeps DEF Injected, Spaced, Shuffle, Paced, Changing
<1> QED
  BY <1>1, <1>2, <1>3, <1>4, <1>5, <1>6, LoopKeeps DEF Spaced

\* The pool, and the place that is drawn from it next.
LEMMA Drawn ==
  ASSUME pool \in SetToSeqs(Pseudonyms), Cardinality(Pseudonyms) \in Nat,
         poolI \in Nat
  PROVE  /\ Len(pool) = Cardinality(Pseudonyms)
         /\ Len(pool) >= 2 /\ poolI # 0 =>
              pool[(poolI % Len(pool)) + 1] # pool[((poolI - 1) % Len(pool)) + 1]
<1>1. /\ pool \in [1 .. Cardinality(Pseudonyms) -> Pseudonyms]
      /\ \A a, b \in 1 .. Cardinality(Pseudonyms) : a # b => pool[a] # pool[b]
  BY DEF SetToSeqs
<1>2. Len(pool) = Cardinality(Pseudonyms)
  BY <1>1
<1> SUFFICES ASSUME Len(pool) >= 2, poolI # 0
             PROVE  pool[(poolI % Len(pool)) + 1]
                      # pool[((poolI - 1) % Len(pool)) + 1]
  BY <1>2
<1>3. PICK i \in Nat : poolI = i + 1
  <2>1. poolI - 1 \in Nat /\ poolI = (poolI - 1) + 1
    OBVIOUS
  <2> QED
    BY <2>1
<1> DEFINE n == Len(pool)
<1>4. /\ (i + 1) % n \in Int /\ i % n \in Int
      /\ ((i + 1) % n) + 1 \in 1 .. n /\ (i % n) + 1 \in 1 .. n
  BY <1>2, RoundRobin
<1>5. (i + 1) % n # i % n
  BY <1>2, NextPlace
<1>6. ((i + 1) % n) + 1 # (i % n) + 1
  <2> HIDE DEF n
  <2> QED
    BY <1>4, <1>5
<1>7. pool[((i + 1) % n) + 1] # pool[(i % n) + 1]
  BY <1>1, <1>2, <1>4, <1>6
<1>8. poolI - 1 = i
  BY <1>3
<1> QED
  BY <1>3, <1>7, <1>8

LEMMA RotateSpaced == Spaced /\ Rotate => Spaced'
<1> SUFFICES ASSUME Spaced, Rotate PROVE Spaced'
  OBVIOUS
<1>1. Writing /\ Writing' /\ UNCHANGED <<capture, sel, reintro>>
  BY DEF Rotate, Writing
<1>2. Sound'
  BY RotateSound DEF Spaced
<1>3. InGrid' /\ Period' = Period /\ df' = df /\ injected' = injected
  BY DEF Rotate, Spaced, InGrid, Period, capture
<1>4. Thinned'
  BY <1>3 DEF Thinned, Spaced, Rotate, Paced
<1>5. Injected'
  BY <1>1, <1>3, LoopKeeps DEF Injected, Spaced, Paced, Changing
<1>6. Named'
  <2> DEFINE j == Len(macs) + 1
  <2>1. /\ pool \in SetToSeqs(Pseudonyms) /\ poolI \in Nat
        /\ Len(macs) \in 0 .. Len(kept) /\ macs \in Seq(AllMacs)
        /\ \A w \in DOMAIN winTo : \E h \in 1 .. Len(macs) : w = Window(h)
    BY DEF Spaced, Named, Rotate
  <2>2. Paced(kept) /\ Len(kept) \in Nat /\ j \in 1 .. Len(kept)
    BY <2>1 DEF Spaced, Thinned, Rotate, Paced
  <2>3. Window(j) \notin DOMAIN winTo
    <3> SUFFICES ASSUME NEW h \in 1 .. Len(macs), Window(h) = Window(j)
                 PROVE  FALSE
      BY <2>1
    <3>1. h \in 1 .. Len(kept) /\ h < j
      BY <2>1, <2>2
    <3> QED
      BY <2>2, <3>1, LaterWindow DEF Spaced
  <2>4. Cardinality(Pseudonyms) \in Nat
    <3>1. base \subseteq DOMAIN df
      BY <1>1, BackgroundKnown DEF Spaced, Sound, Writing, Fresh
    <3> QED
      BY <3>1, FinitePool DEF Spaced, Sound
  <2>5. Len(pool) = Cardinality(Pseudonyms)
    BY <2>1, <2>4, Drawn
  <2> DEFINE next == pool[(poolI % Len(pool)) + 1]
  <2>6. /\ pool' = pool /\ kept' = kept /\ Pseudonyms' = Pseudonyms
        /\ AllMacs' = AllMacs /\ \A h : Window(h)' = Window(h)
    BY <1>1, <1>3, LoopKeeps DEF Rotate, Window
  <2>7. /\ macs' \in Seq(AllMacs) /\ Len(macs') = j
        /\ \A w \in DOMAIN winTo' : w \in DOMAIN winTo \/ w = Window(j)
        /\ poolI' \in Nat
        /\ pool # <<>> => /\ poolI' = poolI + 1
                          /\ macs' = Append(macs, next)
    <3>1. CASE pool = <<>>
      <4>1. /\ macs' = Append(macs, df[kept[j]].mac)
            /\ UNCHANGED <<winTo, poolI>>
        BY <3>1 DEF Rotate
      <4>2. df[kept[j]].mac \in AllMacs
        BY <2>2 DEF Paced, AllMacs
      <4> QED
        BY <2>1, <3>1, <4>1, <4>2
    <3>2. CASE pool # <<>>
      <4>1. /\ winTo' = With(winTo, Window(j), next) /\ poolI' = poolI + 1
            /\ macs' = Append(macs, winTo'[Window(j)])
        BY <2>3, <3>2 DEF Rotate
      <4>2. /\ winTo'[Window(j)] = next
            /\ DOMAIN winTo' = DOMAIN winTo \cup {Window(j)}
        BY <4>1 DEF With
      <4>3. next \in AllMacs
        <5>1. /\ Len(pool) \in Nat \ {0}
              /\ pool \in [1 .. Len(pool) -> Pseudonyms]
          BY <2>1, <2>4, <2>5, <3>2 DEF SetToSeqs
        <5>2. next \in Pseudonyms
          BY <2>1, <5>1, RoundRobin
        <5> QED
          BY <1>1, <5>2, LoopKeeps
      <4> QED
        BY <2>1, <4>1, <4>2, <4>3
    <3> QED
      BY <3>1, <3>2
  <2>8. ASSUME Cardinality(Pseudonyms) >= 2
        PROVE  /\ Changing(macs')
               /\ poolI' # 0
               /\ macs'[Len(macs')] = pool[((poolI' - 1) % Len(pool)) + 1]
    <3>1. pool # <<>>
      BY <2>5, <2>8
    <3>2. /\ macs' = Append(macs, next) /\ poolI' = poolI + 1
          /\ poolI' - 1 = poolI
      BY <2>1, <2>7, <3>1
    <3>3. /\ Changing(macs)
          /\ macs # <<>> => /\ poolI # 0
                            /\ macs[Len(macs)] # next
      BY <2>1, <2>4, <2>5, <2>8, Drawn DEF Spaced, Named, Rotate
    <3> HIDE DEF next
    <3>4. Changing(macs')
      BY <2>1, <3>2, <3>3 DEF Changing
    <3>5. macs'[Len(macs')] = next
      BY <2>1, <3>2
    <3> QED
      BY <2>1, <3>2, <3>4, <3>5 DEF next
  <2>9. \A w \in DOMAIN winTo' : \E h \in 1 .. Len(macs') : w = Window(h)
    <3> SUFFICES ASSUME NEW w \in DOMAIN winTo'
                 PROVE  \E h \in 1 .. Len(macs') : w = Window(h)
      OBVIOUS
    <3>1. CASE w = Window(j)
      BY <2>2, <2>7, <3>1
    <3>2. CASE w \in DOMAIN winTo
      <4>1. PICK h \in 1 .. Len(macs) : w = Window(h)
        BY <2>1, <3>2
      <4>2. h \in 1 .. Len(macs')
        BY <2>1, <2>7
      <4> QED
        BY <4>1, <4>2
    <3> QED
      BY <2>7, <3>1, <3>2
  <2> HIDE DEF j
  <2>10. Len(macs') \in 0 .. Len(kept')
    BY <2>2, <2>6, <2>7
  <2> QED
    BY <2>1, <2>6, <2>7, <2>8, <2>9, <2>10 DEF Named, Changing
<1> QED
  BY <1>1, <1>2, <1>3, <1>4, <1>5, <1>6, LoopKeeps DEF Spaced

LEMMA EndGroupSpaced == Spaced /\ EndGroup => Spaced'
<1> SUFFICES ASSUME Spaced, EndGroup PROVE Spaced'
  OBVIOUS
<1>1. Writing /\ Writing' /\ UNCHANGED <<capture, sel, reintro>>
  BY DEF EndGroup, Writing
<1>2. Sound'
  BY EndGroupSound DEF Spaced
<1>3. InGrid' /\ Period' = Period /\ df' = df
  BY DEF EndGroup, Spaced, InGrid, Period, capture
<1>4. Thinned' /\ Named'
  BY DEF Thinned, Named, EndGroup
<1>5. Injected'
  <2>1. /\ Paced(kept) /\ Len(macs) = Len(kept)
        /\ Cardinality(Pseudonyms) >= 2 => Changing(macs)
    BY DEF Spaced, Thinned, Named, EndGroup
  <2>2. ASSUME NEW k \in DOMAIN injected'
        PROVE  \/ k \in DOMAIN injected /\ injected'[k] = injected[k]
               \/ injected'[k] = [rows |-> kept, macs |-> macs]
    BY <2>2 DEF EndGroup, With
  <2>3. ASSUME NEW k \in DOMAIN injected'
        PROVE  /\ Paced(injected'[k].rows)
               /\ Len(injected'[k].macs) = Len(injected'[k].rows)
               /\ Cardinality(Pseudonyms) >= 2 => Changing(injected'[k].macs)
    BY <2>1, <2>2 DEF Spaced, Injected
  <2> QED
    BY <1>1, <1>3, <2>3, LoopKeeps DEF Injected, Paced, Changing
<1> QED
  BY <1>1, <1>2, <1>3, <1>4, <1>5, LoopKeeps DEF Spaced

LEMMA SettingSpaced == Spaced /\ (WriteScenario \/ NextSetting) => Spaced'
<1> SUFFICES ASSUME Spaced, WriteScenario \/ NextSetting PROVE Spaced'
  OBVIOUS
<1>1. Writing /\ Writing' /\ UNCHANGED <<capture, sel, reintro>>
  BY DEF WriteScenario, NextSetting, Writing
<1>2. Sound'
  BY LoopSound DEF Spaced
<1>3. InGrid'
  BY ScenarioAssumption DEF WriteScenario, NextSetting, Spaced, InGrid
<1>4. Thinned' /\ Named'
  BY DEF Thinned, Named, WriteScenario, NextSetting
<1>5. Injected'
  <2>1. CASE WriteScenario
    BY <1>1, <2>1, LoopKeeps DEF WriteScenario, Spaced, Injected, Paced,
       Changing, Period, capture
  <2>2. CASE NextSetting
    BY <2>2 DEF NextSetting, Injected, NoFunction
  <2> QED
    BY <2>1, <2>2
<1> QED
  BY <1>1, <1>2, <1>3, <1>4, <1>5, LoopKeeps DEF Spaced

LEMMA StutterSpaced == Spaced /\ UNCHANGED vars => Spaced'
<1> SUFFICES ASSUME Spaced, UNCHANGED vars PROVE Spaced'
  OBVIOUS
<1>1. Sound'
  BY DEF vars, capture, group, Spaced, Sound, Captured, Cleaned, Fresh,
     Background, AdvMask, KnownMask, PersistentMacs, PersistentPrivs,
     Persists, Reintroduced, Writing, Collected, SelectedMacs, OwnKey,
     PoolDrawn, NamesDrawn, Pseudonyms
<1>2. /\ Period' = Period /\ Pseudonyms' = Pseudonyms /\ AllMacs' = AllMacs
      /\ df' = df /\ \A h : Window(h)' = Window(h)
  BY DEF vars, capture, group, Period, Pseudonyms, AllMacs, Window
<1>3. Thinned' /\ Injected'
  BY <1>2 DEF vars, capture, group, Spaced, Thinned, Injected, Paced, Changing
<1>4. Named'
  BY <1>2 DEF vars, capture, group, Spaced, Named, Changing
<1> QED
  BY <1>1, <1>2, <1>3, <1>4 DEF vars, Spaced, Timed, InGrid, Writing

\* PacedAndRenamed (scenario_gen.py:180, :195): thinning and renaming walk
\* over the rows of a device one after the other, and the windows are
\* counted from a row the thinning chose.  Rows a period apart are in
\* different windows, every window met is new, and two pseudonyms drawn one
\* after the other differ, even where the pool starts again from its head.
THEOREM AlwaysPacedAndRenamed == Spec => []PacedAndRenamed
<1>1. Spaced /\ [Next]_vars => Spaced'
  BY PreparingSpaced, StartGroupSpaced, DownsampleSpaced, ShuffleSpaced,
     RotateSpaced, EndGroupSpaced, SettingSpaced, StutterSpaced DEF Next
<1>2. Spaced => PacedAndRenamed
  <2> SUFFICES ASSUME Spaced, NEW k \in DOMAIN injected,
                      NEW j \in 1 .. Len(injected[k].rows) - 1
               PROVE  /\ df[injected[k].rows[j + 1]].t
                           - df[injected[k].rows[j]].t >= Period
                      /\ Cardinality(Pseudonyms) >= 2 =>
                           injected[k].macs[j + 1] # injected[k].macs[j]
    BY DEF PacedAndRenamed, Spaced, Injected
  <2> DEFINE rows == injected[k].rows
  <2>1. /\ Paced(rows) /\ Len(injected[k].macs) = Len(rows)
        /\ Cardinality(Pseudonyms) >= 2 => Changing(injected[k].macs)
    BY DEF Spaced, Injected
  <2>2. Len(rows) \in Nat
    BY <2>1 DEF Paced
  <2> HIDE DEF rows
  <2>3. j \in 1 .. Len(rows) - 1
    BY DEF rows
  <2>4. j \in 1 .. Len(rows) /\ j + 1 \in 1 .. Len(rows) /\ j < j + 1
    BY <2>2, <2>3
  <2>5. df[rows[j + 1]].t - df[rows[j]].t >= Period
    BY <2>1, <2>4 DEF Paced
  <2>6. Cardinality(Pseudonyms) >= 2 =>
          injected[k].macs[j + 1] # injected[k].macs[j]
    BY <2>1, <2>3 DEF Changing
  <2> QED
    BY <2>5, <2>6 DEF rows
<1> QED
  BY <1>1, <1>2, InitSpaced, PTL DEF Spec

=============================================================================
