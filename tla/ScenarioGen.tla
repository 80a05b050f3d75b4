----------------------------- MODULE ScenarioGen -----------------------------
(***************************************************************************)
(* The scenario generator (scenario_gen.py).  Out of one capture it makes  *)
(* a background without the adversary and the persistent trackers, and     *)
(* then, for every setting of its grid, a file in which the selected       *)
(* devices are put back: thinned to one packet per period and renamed, one *)
(* pseudonym per rotation window, taken from the MACs of the passers-by.   *)
(*                                                                         *)
(* A row is named by its place in the capture; df maps the rows in use to  *)
(* what is known of them.  The rng is shared by all groups and settings; a *)
(* shuffle may yield any order.                                            *)
(***************************************************************************)
EXTENDS TrackerPayload, FiniteSets

CONSTANTS
  Captures,    \* the captures to start from: sequences of rows
  Explicit,    \* selections a user may type in
  ADV_TAGS,    \* --adv-tags, a set of payload substrings
  PERSIST_S,   \* --persist-minutes, in the unit of the time stamps
  PERIODS,     \* the settings in which tx and rot are equal, in grid order
  NoKey        \* no group is being rewritten

ASSUME ScenarioAssumption ==
  /\ \A c \in Captures : IsFiniteSet(DOMAIN c)
  /\ PERIODS \in Seq(Nat \ {0}) /\ PERIODS # <<>>
  /\ PERSIST_S \in Nat
  /\ \A c \in Captures : \A i \in DOMAIN c : c[i].t \in Nat

VARIABLES
  pc,        \* where main is
  raw,       \* the input file
  df,        \* df_full
  base,      \* df_base, as a set of rows
  macCand,   \* persistent_macs_by_type
  privCand,  \* persistent_samsung_privids
  tagCand,   \* adv_tag_candidates
  sel,       \* the Selection
  reintro,   \* df_reintro: rows with their _group_key
  setting,   \* index of the setting being written
  groups,    \* groups of the setting not rewritten yet
  key,       \* the group being rewritten
  todo,      \* the set of its rows that downsample_by_period has not seen
  kept,      \* keep_idx
  pool,      \* the shuffled pseudonym pool
  winTo,     \* win_to_pseudo
  poolI,     \* pool_i
  macs,      \* new_macs
  injected   \* d_adv: by group, the rows kept and the MACs they got

capture == <<raw, df, base, macCand, privCand, tagCand>>
group == <<key, todo, kept, pool, winTo, poolI, macs>>
vars == <<pc, capture, sel, reintro, setting, groups, group, injected>>

NoSelection == [tags |-> {}, apple |-> {}, google |-> {}, tile |-> {},
                privs |-> {}]
NoFunction == [x \in {} |-> x]
With(f, x, v) == [y \in DOMAIN f \cup {x} |-> IF y = x THEN v ELSE f[y]]

Init ==
  /\ pc = "load" /\ raw \in Captures /\ df = NoFunction
  /\ base = {} /\ privCand = {} /\ tagCand = {}
  /\ macCand = [e \in Ecosystem \ {"SAMSUNG"} |-> {}]
  /\ sel = NoSelection /\ reintro = {}
  /\ setting = 1 /\ groups = {} /\ injected = NoFunction
  /\ key = NoKey /\ todo = {} /\ kept = <<>>
  /\ pool = <<>> /\ winTo = NoFunction /\ poolI = 0 /\ macs = <<>>

-----------------------------------------------------------------------------
(* The capture and the background.                                         *)

\* Keep the rows with a valid CRC and derive the tag column.
Load ==
  /\ pc = "load"
  /\ df' = [i \in {k \in DOMAIN raw : raw[k].crc} |->
              [t |-> raw[i].t, mac |-> raw[i].mac, eco |-> EcoOf(raw[i].pay),
               priv |-> PrivOf(raw[i].pay), marks |-> raw[i].pay.marks]]
  /\ pc' = "baseline"
  /\ UNCHANGED <<raw, base, macCand, privCand, tagCand, sel, reintro, setting,
                 groups, group, injected>>

\* The rows are sorted by time, those of the same time as in the file.
Before(i, j) == \/ df[i].t < df[j].t
                \/ df[i].t = df[j].t /\ i < j

\* Rows is a device's set of rows: it is persistent if they span PERSIST_S.
Persists(rows) == \E i, j \in rows : df[j].t - df[i].t >= PERSIST_S

PersistentMacs(eco) ==
  {m \in {df[i].mac : i \in DOMAIN df} :
     Persists({i \in DOMAIN df : df[i].eco = eco /\ df[i].mac = m})}

PersistentPrivs ==
  {p \in PrivId :
     Persists({i \in DOMAIN df : df[i].eco = "SAMSUNG" /\ df[i].priv = p})}

AdvMask == {i \in DOMAIN df : df[i].marks \cap ADV_TAGS # {}}

\* Faulty variant: the known trackers stay unless they are MAC devices.
KnownMaskMacOnly ==
  {i \in DOMAIN df : \E e \in DOMAIN macCand : df[i].mac \in PersistentMacs(e)}

\* Every row of a persistent MAC goes, of a private id the Samsung rows.
KnownMask ==
  {i \in DOMAIN df :
     \/ \E e \in DOMAIN macCand : df[i].mac \in PersistentMacs(e)
     \/ df[i].eco = "SAMSUNG" /\ df[i].priv \in PersistentPrivs}

Background == DOMAIN df \ (AdvMask \cup KnownMask)

Baseline ==
  /\ pc = "baseline"
  /\ macCand' = [e \in DOMAIN macCand |-> PersistentMacs(e)]
  /\ privCand' = PersistentPrivs
  /\ tagCand' = {t \in ADV_TAGS : \E i \in DOMAIN df : t \in df[i].marks}
  /\ base' = Background
  /\ pc' = "select"
  /\ UNCHANGED <<raw, df, sel, reintro, setting, groups, group, injected>>

-----------------------------------------------------------------------------
(* The selection.                                                          *)

\* By number: a sample of the candidates.
SelectByCount ==
  /\ pc = "select"
  /\ sel' \in [tags : SUBSET tagCand, apple : SUBSET macCand["APPLE"],
               google : SUBSET macCand["GOOGLE"],
               tile : SUBSET macCand["TILE"], privs : SUBSET privCand]
  /\ pc' = "collect"
  /\ UNCHANGED <<capture, reintro, setting, groups, group, injected>>

\* By name: what the user types is not compared with the candidates.
SelectExplicit ==
  /\ pc = "select"
  /\ sel' \in Explicit
  /\ pc' = "collect"
  /\ UNCHANGED <<capture, reintro, setting, groups, group, injected>>

SelectedMacs == sel.apple \cup sel.google \cup sel.tile

\* Nothing was selected: background_only.csv is written.
BackgroundOnly ==
  /\ pc = "collect" /\ sel = NoSelection
  /\ pc' = "done"
  /\ UNCHANGED <<capture, sel, reintro, setting, groups, group, injected>>

\* A row selected by a tag goes by the tag, a Samsung row by its private
\* id, any other by its MAC.
OwnKey(i) == IF df[i].eco = "SAMSUNG" THEN <<"privid", df[i].priv>>
             ELSE <<"mac", df[i].mac>>

\* Rows picked by two selections are put back twice.  (Copies that end up
\* in one group are one: the second has the time stamp of the first and is
\* thinned out.)
Collected ==
  LET tagged == {r \in (DOMAIN df) \X sel.tags : r[2] \in df[r[1]].marks}
      others == {i \in DOMAIN df : \/ df[i].mac \in SelectedMacs
                                   \/ df[i].priv \in sel.privs}
  IN  {<<r[1], <<"tag", r[2]>>>> : r \in tagged}
        \cup {<<i, OwnKey(i)>> : i \in others}

GroupKeys == {r[2] : r \in reintro}

Collect ==
  /\ pc = "collect" /\ sel # NoSelection
  /\ reintro' = Collected
  /\ groups' = {r[2] : r \in Collected}
  /\ pc' = "groups"
  /\ UNCHANGED <<capture, sel, setting, group, injected>>

-----------------------------------------------------------------------------
(* apply_behavior_grouped, for one setting.                                *)

Period == PERIODS[setting]

RowsOf(k) == {r[1] : r \in {q \in reintro : q[2] = k}}

StartGroup ==
  /\ pc = "groups" /\ groups # {}
  /\ key' = CHOOSE k \in groups : TRUE
  /\ groups' = groups \ {key'}
  /\ todo' = RowsOf(key')
  /\ kept' = <<>>
  /\ pc' = "downsample"
  /\ UNCHANGED <<capture, sel, reintro, setting, pool, winTo, poolI, macs,
                 injected>>

First(i, rows) == \A j \in rows \ {i} : Before(i, j)

\* Faulty variant: the gap is measured from the first row kept.
DownsampleFromFirst ==
  /\ pc = "downsample"
  /\ \E i \in todo :
       /\ First(i, todo)
       /\ kept' = IF kept = <<>> \/ df[i].t - df[kept[1]].t >= Period
                  THEN Append(kept, i) ELSE kept
       /\ todo' = todo \ {i}
  /\ UNCHANGED <<pc, capture, sel, reintro, setting, groups, key, pool, winTo,
                 poolI, macs, injected>>

\* downsample_by_period: the next row, kept if a period has passed.
Downsample ==
  /\ pc = "downsample"
  /\ \E i \in todo :
       /\ First(i, todo)
       /\ kept' = IF kept = <<>> \/ df[i].t - df[kept[Len(kept)]].t >= Period
                  THEN Append(kept, i) ELSE kept
       /\ todo' = todo \ {i}
  /\ UNCHANGED <<pc, capture, sel, reintro, setting, groups, key, pool, winTo,
                 poolI, macs, injected>>

\* Faulty variant: the pool is the MACs of the whole capture.
PseudonymsOfAll == {df[i].mac : i \in DOMAIN df}

Pseudonyms == {df[i].mac : i \in base}

Shuffle ==
  /\ pc = "downsample" /\ todo = {}
  /\ pool' \in SetToSeqs(Pseudonyms)
  /\ winTo' = NoFunction /\ poolI' = 0 /\ macs' = <<>>
  /\ pc' = "rotate"
  /\ UNCHANGED <<capture, sel, reintro, setting, groups, key, todo, kept,
                 injected>>

\* The rotation window of the j-th row kept; t0 is the first of them.
Window(j) == (df[kept[j]].t - df[kept[1]].t) \div Period

\* rotate_mac_pseudonyms: a window met for the first time takes the next
\* pseudonym; without a pool the row keeps its own MAC.
Rotate ==
  /\ pc = "rotate" /\ Len(macs) < Len(kept)
  /\ LET j == Len(macs) + 1
         known == Window(j) \in DOMAIN winTo
     IN  IF pool = <<>>
         THEN /\ macs' = Append(macs, df[kept[j]].mac)
              /\ UNCHANGED <<winTo, poolI>>
         ELSE /\ winTo' = IF known THEN winTo
                          ELSE With(winTo, Window(j),
                                    pool[(poolI % Len(pool)) + 1])
              /\ poolI' = IF known THEN poolI ELSE poolI + 1
              /\ macs' = Append(macs, winTo'[Window(j)])
  /\ UNCHANGED <<pc, capture, sel, reintro, setting, groups, key, todo, kept,
                 pool, injected>>

EndGroup ==
  /\ pc = "rotate" /\ Len(macs) = Len(kept)
  /\ injected' = With(injected, key, [rows |-> kept, macs |-> macs])
  /\ key' = NoKey
  /\ pc' = "groups"
  /\ UNCHANGED <<capture, sel, reintro, setting, groups, todo, kept, pool,
                 winTo, poolI, macs>>

\* All groups are done: the file of this setting is the background and the
\* injected rows.  The next setting starts from the same reintro rows.
WriteScenario ==
  /\ pc = "groups" /\ groups = {}
  /\ pc' = "written"
  /\ UNCHANGED <<capture, sel, reintro, setting, groups, group, injected>>

NextSetting ==
  /\ pc = "written" /\ setting < Len(PERIODS)
  /\ setting' = setting + 1
  /\ groups' = GroupKeys
  /\ injected' = NoFunction
  /\ pc' = "groups"
  /\ UNCHANGED <<capture, sel, reintro, group>>

Next ==
  \/ Load \/ Baseline \/ SelectByCount \/ SelectExplicit \/ BackgroundOnly
  \/ Collect \/ StartGroup \/ Downsample \/ Shuffle \/ Rotate \/ EndGroup
  \/ WriteScenario \/ NextSetting

Spec == Init /\ [][Next]_vars

-----------------------------------------------------------------------------
(* Properties.                                                             *)

\* Two packets of one injected device are at least tx seconds apart, and
\* (tx and rot being equal) never carry the same pseudonym one after the
\* other, whenever there are two to choose from: "Keep at most one row
\* every tx_period_sec", "time-windowed pseudonyms" (scenario_gen.py:181,
\* 204).  The windows count from the first row kept, not from the first
\* row of the device; that they never share a window depends on both loops.
PacedAndRenamed ==
  \A k \in DOMAIN injected :
    LET rows == injected[k].rows
        names == injected[k].macs
    IN  /\ Len(names) = Len(rows)
        /\ \A j \in 1 .. Len(rows) - 1 :
             /\ df[rows[j + 1]].t - df[rows[j]].t >= Period
             /\ Cardinality(Pseudonyms) >= 2 => names[j + 1] # names[j]

CandidatesOnly ==
  /\ sel.tags \subseteq tagCand /\ sel.privs \subseteq privCand
  /\ sel.apple \subseteq macCand["APPLE"]
  /\ sel.google \subseteq macCand["GOOGLE"]
  /\ sel.tile \subseteq macCand["TILE"]

\* A selected device is in a scenario only as injected: none of its rows is
\* left in the background (else it would be seen twice, once under its own
\* MAC).  This holds of candidates; a device that is typed in by name and
\* is no candidate was never taken out.
NoEcho ==
  pc = "written" /\ CandidatesOnly => {r[1] : r \in reintro} \cap base = {}

\* No packet of a scenario carries the MAC of a selected candidate, neither
\* in the background nor as a pseudonym of another device, as long as there
\* is a pool to take pseudonyms from.
OwnMacGone ==
  pc = "written" /\ CandidatesOnly /\ Pseudonyms # {} =>
    SelectedMacs \cap
      ({df[i].mac : i \in base}
         \cup UNION {ToSet(injected[k].macs) : k \in DOMAIN injected}) = {}

=============================================================================
