-------------------------- MODULE AirDetect_proofs --------------------------
(***************************************************************************)
(* The detector, for all files, inputs, settings and workers: the rows of  *)
(* a report were computed with the settings it names, an alert rests on    *)
(* the evidence the gate asks for, times to detect make sense, and every   *)
(* file is counted once under every setting.                               *)
(***************************************************************************)
EXTENDS AirDetect, FiniteSetTheorems, SequenceTheorems, WellFoundedInduction, TLAPS

-----------------------------------------------------------------------------
(* The least and the greatest time.                                        *)

LEMMA LeastExists ==
  ASSUME NEW S \in SUBSET Nat, S # {}
  PROVE  \E b \in S : \A c \in S : b <= c
<1>1. PICK b \in S : \A c \in S : <<c, b>> \notin OpToRel(<, Nat)
  BY NatLessThanWellFounded, WFMin
<1>2. \A c \in S : ~(c < b)
  BY <1>1 DEF OpToRel
<1>3. ASSUME NEW c \in S PROVE b <= c
  BY <1>2
<1>4. QED
  BY <1>3

LEMMA LeastFacts ==
  ASSUME NEW S \in SUBSET Nat, S # {}
  PROVE  Least(S) \in S /\ \A c \in S : Least(S) <= c
  BY LeastExists DEF Least

LEMMA GreatestFacts ==
  ASSUME NEW S \in SUBSET Nat, S # {}, NEW n \in Nat, \A c \in S : c <= n
  PROVE  Greatest(S) \in S /\ \A c \in S : Greatest(S) >= c
<1> DEFINE D == {d \in Nat : n - d \in S}
<1>1. PICK x \in S : TRUE
  OBVIOUS
<1>2. x \in Nat /\ x <= n /\ n - (n - x) = x /\ n - x \in Nat
  OBVIOUS
<1>3. n - x \in D
  BY <1>2
<1>4. PICK d \in D : \A e \in D : d <= e
  BY <1>3, LeastExists
<1>5. ASSUME NEW c \in S PROVE c <= n - d
  <2>1. c \in Nat /\ c <= n /\ n - c \in Nat /\ n - (n - c) = c
    OBVIOUS
  <2>2. n - c \in D
    BY <2>1
  <2>3. d <= n - c
    BY <1>4, <2>2
  <2>4. QED
    BY <1>4, <2>1, <2>3
<1>6. n - d \in S /\ \A c \in S : n - d >= c
  BY <1>4, <1>5
<1>7. QED
  BY <1>6 DEF Greatest

-----------------------------------------------------------------------------
(* The concatenation of lists of S is a list of S.  The induction is on    *)
(* the least number of lists for which it would fail.                      *)

Joined(ss, f, n) ==
  f = [i \in 1 .. n |-> IF i = 1 THEN ss[i] ELSE f[i - 1] \o ss[i]]

LEMMA FlattenIsJoined ==
  ASSUME NEW S, NEW ss \in Seq(Seq(S)), ss # <<>>
  PROVE  FlattenSeq(ss) = (CHOOSE f : Joined(ss, f, Len(ss)))[Len(ss)]
<1>1. Len(ss) # 0
  OBVIOUS
<1>2. QED
  BY <1>1 DEF FlattenSeq, Joined
LEMMA JoinedExists ==
  ASSUME NEW S, NEW ss \in Seq(Seq(S))
  PROVE  \A n \in 0 .. Len(ss) : \E f : Joined(ss, f, n)
<1> DEFINE E == {n \in Nat : n <= Len(ss) /\ ~(\E f : Joined(ss, f, n))}
<1>1. SUFFICES ASSUME E # {} PROVE FALSE
  OBVIOUS
<1>2. PICK n \in E : \A m \in E : n <= m
  BY <1>1, LeastExists
<1>3. n \in Nat /\ n <= Len(ss) /\ ~(\E f : Joined(ss, f, n))
  OBVIOUS
<1>4. CASE n = 0
  <2>1. Joined(ss, [i \in 1 .. 0 |-> 0], n)
    BY <1>4 DEF Joined
  <2>2. QED
    BY <1>3, <2>1
<1>5. CASE n # 0
  <2>1. n - 1 \in Nat /\ n - 1 <= Len(ss) /\ ~(n <= n - 1)
    BY <1>3, <1>5
  <2>2. n - 1 \notin E
    BY <1>2, <2>1
  <2>3. PICK f : Joined(ss, f, n - 1)
    BY <2>1, <2>2
  <2> DEFINE h == [i \in 1 .. n |->
                     IF i = 1 THEN ss[i]
                     ELSE IF i = n THEN f[n - 1] \o ss[i] ELSE f[i]]
  <2>4. \A i \in 1 .. n : i # 1 => h[i] = h[i - 1] \o ss[i]
    <3>1. TAKE i \in 1 .. n
    <3>2. HAVE i # 1
    <3>3. i - 1 \in 1 .. n /\ i - 1 # n /\ i - 1 \in 1 .. n - 1
      BY <1>3, <3>2
    <3>4. h[i - 1] = f[i - 1]
      BY <2>3, <3>3 DEF Joined
    <3>5. CASE i = n
      BY <3>2, <3>4, <3>5
    <3>6. CASE i # n
      <4>1. i \in 1 .. n - 1
        BY <1>3, <3>6
      <4>2. f[i] = f[i - 1] \o ss[i]
        BY <2>3, <3>2, <4>1 DEF Joined
      <4>3. QED
        BY <3>2, <3>4, <3>6, <4>2
    <3>7. QED
      BY <3>5, <3>6
  <2>5. \A i \in 1 .. n : i = 1 => h[i] = ss[i]
    OBVIOUS
  <2>6. DOMAIN h = 1 .. n /\ h = [i \in 1 .. n |-> h[i]]
    OBVIOUS
  <2> HIDE DEF h
  <2>7. Joined(ss, h, n)
    BY <2>4, <2>5, <2>6 DEF Joined
  <2>8. QED
    BY <1>3, <2>7
<1>6. QED
  BY <1>4, <1>5

LEMMA JoinedType ==
  ASSUME NEW S, NEW ss \in Seq(Seq(S)), NEW f, Joined(ss, f, Len(ss))
  PROVE  \A i \in 1 .. Len(ss) : f[i] \in Seq(S)
<1> DEFINE E == {i \in Nat : i \in 1 .. Len(ss) /\ f[i] \notin Seq(S)}
<1>1. SUFFICES ASSUME E # {} PROVE FALSE
  OBVIOUS
<1>2. PICK i \in E : \A j \in E : i <= j
  BY <1>1, LeastExists
<1>3. i \in 1 .. Len(ss) /\ f[i] \notin Seq(S) /\ ss[i] \in Seq(S)
  OBVIOUS
<1>4. f[i] = IF i = 1 THEN ss[i] ELSE f[i - 1] \o ss[i]
  BY <1>3 DEF Joined
<1>5. i # 1
  BY <1>3, <1>4
<1>6. i - 1 \in Nat /\ i - 1 \in 1 .. Len(ss) /\ ~(i <= i - 1)
  BY <1>3, <1>5
<1>7. f[i - 1] \in Seq(S)
  BY <1>2, <1>6
<1>8. QED
  BY <1>3, <1>4, <1>5, <1>7

LEMMA Flattened ==
  ASSUME NEW S, NEW ss \in Seq(Seq(S))
  PROVE  FlattenSeq(ss) \in Seq(S)
<1>1. CASE ss = <<>>
  BY <1>1 DEF FlattenSeq
<1>2. CASE ss # <<>>
  <2> DEFINE f == CHOOSE g : Joined(ss, g, Len(ss))
  <2>1. Len(ss) \in 1 .. Len(ss) /\ Len(ss) \in 0 .. Len(ss)
    BY <1>2
  <2>2. Joined(ss, f, Len(ss))
    BY <2>1, JoinedExists
  <2>3. f[Len(ss)] \in Seq(S)
    BY <2>1, <2>2, JoinedType
  <2>4. QED
    BY <1>2, <2>3, FlattenIsJoined
<1>3. QED
  BY <1>1, <1>2

-----------------------------------------------------------------------------
(* Files, blocks and segments.                                             *)

LEMMA FileFacts ==
  ASSUME NEW f \in DOMAIN Packets
  PROVE  /\ IsFiniteSet(PacketsOf(f)) /\ PacketsOf(f) # {}
         /\ \A p \in PacketsOf(f) : p.t \in Nat
<1>1. PICK n \in Nat \ {0} : n = Len(Packets[f]) /\ DOMAIN Packets[f] = 1 .. n
  BY DetectAssumption
<1>2. \A i \in 1 .. n : Packets[f][i].t \in Nat
  BY <1>1, DetectAssumption
<1>3. PacketsOf(f) = {Packets[f][i] : i \in 1 .. n}
  BY <1>1 DEF PacketsOf, ToSet
<1> DEFINE g == [i \in 1 .. n |-> Packets[f][i]]
<1>4. g \in Surjection(1 .. n, PacketsOf(f))
  BY <1>3 DEF Surjection
<1>5. IsFiniteSet(1 .. n)
  BY FS_Interval
<1>6. IsFiniteSet(PacketsOf(f))
  BY <1>4, <1>5, FS_Surjection
<1>7. 1 \in 1 .. n
  BY <1>1
<1>8. QED
  BY <1>2, <1>3, <1>6, <1>7

LEMMA SegmentFacts ==
  ASSUME NEW pkts, IsFiniteSet(pkts), NEW window
  PROVE  /\ IsFiniteSet(Segments(pkts, window))
         /\ \A s \in Segments(pkts, window) :
              /\ s.pkts \subseteq {p \in pkts : p.crc /\ ~Dropped(p)}
              /\ s.pkts # {}
<1> DEFINE used == {p \in pkts : p.crc /\ ~Dropped(p)}
           keys == {SegKey(p, window) : p \in used}
           seg(k) == [eco |-> k[2], mac |-> k[3],
                      pkts |-> {p \in used : SegKey(p, window) = k}]
           g == [p \in used |-> seg(SegKey(p, window))]
<1>1. Segments(pkts, window) = {seg(k) : k \in keys}
  BY DEF Segments
<1>2. used \in SUBSET pkts
  OBVIOUS
<1>3. IsFiniteSet(used)
  BY <1>2, FS_Subset
<1> HIDE DEF used
<1>4. g \in Surjection(used, Segments(pkts, window))
  <2>1. \A p \in used : g[p] \in Segments(pkts, window)
    BY <1>1
  <2>2. \A s \in Segments(pkts, window) : \E p \in used : g[p] = s
    BY <1>1
  <2> HIDE DEF g
  <2>3. DOMAIN g = used /\ g = [p \in used |-> g[p]]
    BY DEF g
  <2>4. QED
    BY <2>1, <2>2, <2>3 DEF Surjection
<1>5. IsFiniteSet(Segments(pkts, window))
  BY <1>3, <1>4, FS_Surjection
<1>6. ASSUME NEW s \in Segments(pkts, window)
      PROVE  s.pkts \subseteq used /\ s.pkts # {}
  <2>1. PICK p \in used : s = seg(SegKey(p, window))
    BY <1>1
  <2>2. s.pkts = {q \in used : SegKey(q, window) = SegKey(p, window)}
    BY <2>1
  <2>3. QED
    BY <2>2
<1>7. QED
  BY <1>5, <1>6 DEF used

(* Three or four segments are never enough: at least three clusters are    *)
(* made of them, so none of the clusters has three.                        *)
LEMMA LargeClusterFacts ==
  ASSUME NEW segs, IsFiniteSet(segs), NEW cs \in LargeClusters(segs), NEW c \in cs
  PROVE  /\ c \subseteq segs /\ Cardinality(c) \in Nat /\ Cardinality(c) >= 3
         /\ Cardinality(segs) >= 5
<1> DEFINE n == Cardinality(segs)  r == Cardinality(segs \ UNION cs)
<1>1. /\ \A d \in cs : d \in SUBSET segs /\ Cardinality(d) >= CORE_MIN_PTS
      /\ \A d, e \in cs : d # e => d \cap e = {}
      /\ \E k \in ChooseK(n) : 2 * (k - Cardinality(cs)) >= r /\ k - Cardinality(cs) <= r
  BY DEF LargeClusters
<1>2. \A d \in cs : IsFiniteSet(d) /\ Cardinality(d) \in Nat /\ Cardinality(d) >= 3
  <2>1. TAKE d \in cs
  <2>2. IsFiniteSet(d) /\ Cardinality(d) \in Nat
    BY <1>1, FS_Subset, FS_CardinalityType
  <2>3. QED
    BY <1>1, <2>2, DetectAssumption
<1>3. \A k \in ChooseK(n) : k \in Nat /\ k >= 3
  BY DEF ChooseK
<1>4. n \in Nat /\ IsFiniteSet(segs \ c) /\ IsFiniteSet(segs \ UNION cs) /\ r \in Nat
  <2>1. segs \ c \in SUBSET segs /\ segs \ UNION cs \in SUBSET segs
    OBVIOUS
  <2>2. QED
    BY <2>1, FS_Subset, FS_CardinalityType
<1>5. n = Cardinality(c) + Cardinality(segs \ c)
  <2>1. segs = c \cup (segs \ c) /\ c \cap (segs \ c) = {}
    BY <1>1
  <2>2. Cardinality(c \cap (segs \ c)) = 0
    BY <2>1, FS_EmptySet
  <2>3. Cardinality(segs \ c) \in Nat /\ Cardinality(c) \in Nat
    BY <1>2, <1>4, FS_CardinalityType
  <2>4. Cardinality(c \cup (segs \ c))
          = Cardinality(c) + Cardinality(segs \ c) - Cardinality(c \cap (segs \ c))
    BY <1>2, <1>4, FS_Union
  <2>5. n = Cardinality(c \cup (segs \ c))
    BY <2>1
  <2> HIDE DEF n
  <2>6. QED
    BY <2>2, <2>3, <2>4, <2>5
<1>6. CASE \E d \in cs : d # c
  <2>1. PICK d \in cs : d # c
    BY <1>6
  <2>2. d \in SUBSET (segs \ c)
    BY <1>1, <2>1
  <2>3. Cardinality(d) <= Cardinality(segs \ c) /\ Cardinality(segs \ c) \in Nat
    BY <1>4, <2>2, FS_Subset, FS_CardinalityType
  <2>4. Cardinality(c) \in Nat /\ Cardinality(c) >= 3 /\ Cardinality(d) \in Nat
        /\ Cardinality(d) >= 3 /\ c \subseteq segs
    BY <1>1, <1>2
  <2> HIDE DEF n
  <2>5. QED
    BY <1>5, <2>3, <2>4 DEF n
<1>7. CASE \A d \in cs : d = c
  <2>1. cs = {c} /\ UNION cs = c
    BY <1>7
  <2>2. Cardinality(cs) = 1
    BY <2>1, FS_Singleton
  <2>3. PICK k \in ChooseK(n) : k - 1 <= r
    BY <1>1, <2>2
  <2>4. k \in Nat /\ k >= 3 /\ r = Cardinality(segs \ c)
    BY <1>3, <2>1
  <2>5. Cardinality(c) \in Nat /\ Cardinality(c) >= 3 /\ c \subseteq segs
    BY <1>1, <1>2
  <2> HIDE DEF n, r
  <2>6. n >= 5
    BY <1>4, <1>5, <2>3, <2>4, <2>5
  <2>7. QED
    BY <2>5, <2>6 DEF n
<1>8. QED
  BY <1>6, <1>7

-----------------------------------------------------------------------------
(* The evidence of an alert.                                               *)

SegTimes(c) == Times(UNION {s.pkts : s \in c})

\* The packets an alert may rest on: valid ones, of its block.
Usable(f, from, to) ==
  {p \in PacketsOf(f) : p.crc /\ ~Dropped(p) /\ from <= p.t /\ p.t < to}

Gated(c, g) ==
  /\ Cardinality(Macs(c)) >= 2 /\ Cardinality(c) >= 3
  /\ Span(c).last - Span(c).first >= g.dur

Evidence(a, f, g) ==
  /\ a.block \in Nat /\ a.at = a.block + g.block /\ a.segs >= 5
  /\ a.cluster # {}
  /\ \A s \in a.cluster : s.pkts # {} /\ s.pkts \subseteq Usable(f, a.block, a.at)
  /\ Gated(a.cluster, g)

LEMMA FlaggedFacts ==
  ASSUME NEW segs, IsFiniteSet(segs), NEW g, NEW F \in Flagged(segs, g), NEW c \in F
  PROVE  c \subseteq segs /\ c # {} /\ Gated(c, g) /\ Cardinality(segs) >= 5
<1> DEFINE pairs == UNION {{cs} \X [cs -> RADII] : cs \in LargeClusters(segs)}
<1>0. Cardinality(segs) < 3 => F = {}
  BY DEF Flagged
<1>1. PICK p \in pairs : F = {d \in Ranked(p[1], p[2]) : StrictDecision(d, p[2][d], g)}
  BY <1>0 DEF Flagged
<1> DEFINE cs == p[1]  radius == p[2]
<1>8. cs \in LargeClusters(segs)
  BY <1>1
<1> HIDE DEF pairs
<1>2. c \in cs /\ StrictDecision(c, radius[c], g)
  BY <1>1 DEF Ranked
<1>3. c \subseteq segs /\ Cardinality(c) \in Nat /\ Cardinality(c) >= 3 /\ Cardinality(segs) >= 5
  BY <1>2, <1>8, LargeClusterFacts
<1>4. c # {}
  BY <1>3, FS_EmptySet
<1>5. Gated(c, g)
  BY <1>2, <1>3 DEF Gated, StrictDecision
<1>6. QED
  BY <1>3, <1>4, <1>5

(* What a worker knows of the file it is at.                               *)
Scanned(s, f, g) ==
  /\ DOMAIN s = {"next", "alert", "skipped", "error"}
  /\ s.next \in Nat
  /\ s.alert = NoAlert \/ Evidence(s.alert, f, g)

LEMMA StartScanned ==
  ASSUME NEW f \in DOMAIN Packets, NEW g
  PROVE  Scanned(StartOf(f), f, g)
<1>1. Times(PacketsOf(f)) \in SUBSET Nat /\ Times(PacketsOf(f)) # {}
  BY FileFacts DEF Times
<1>2. Least(Times(PacketsOf(f))) \in Nat
  BY <1>1, LeastFacts
<1>3. QED
  BY <1>2 DEF StartOf, Scanned

LEMMA BlockFacts ==
  ASSUME NEW f \in DOMAIN Packets, NEW g \in Globals, NEW t \in Nat, NEW window
  PROVE  /\ IsFiniteSet(Segments(BlockOf(f, t, g), window))
         /\ \A s \in Segments(BlockOf(f, t, g), window) :
              s.pkts # {} /\ s.pkts \subseteq Usable(f, t, t + g.block)
<1>1. BlockOf(f, t, g) \in SUBSET PacketsOf(f)
  BY DEF BlockOf
<1>2. IsFiniteSet(BlockOf(f, t, g))
  BY <1>1, FileFacts, FS_Subset
<1>3. \A p \in BlockOf(f, t, g) : p \in PacketsOf(f) /\ t <= p.t /\ p.t < t + g.block
  BY DEF BlockOf
<1>4. \A s \in Segments(BlockOf(f, t, g), window) :
        /\ s.pkts \subseteq {p \in BlockOf(f, t, g) : p.crc /\ ~Dropped(p)}
        /\ s.pkts # {}
  BY <1>2, SegmentFacts
<1>5. QED
  BY <1>2, <1>3, <1>4, SegmentFacts DEF Usable

LEMMA ScanStep ==
  ASSUME NEW f \in DOMAIN Packets, NEW g \in Globals, NEW guarded \in BOOLEAN,
         NEW s, Scanned(s, f, g), NEW n \in ScanBlock(s, f, g, guarded)
  PROVE  Scanned(n, f, g)
<1> DEFINE pkts == BlockOf(f, s.next, g)
           segs == Segments(pkts, g.window)
           ecos == {e \in {x.eco : x \in segs} : Cardinality(OfEco(segs, e)) >= 3}
           moved == [s EXCEPT !.next = @ + g.step]
           raised(a) == [moved EXCEPT !.alert =
                           Alert(a[2], s.next, Cardinality(OfEco(segs, a[1])), g)]
           found == UNION {{e} \X UNION Flagged(OfEco(segs, e), g) : e \in ecos}
<1>1. s.next \in Nat /\ g.step \in Nat /\ g.block \in Nat
  BY DEF Scanned, Globals
<1>2. Scanned(moved, f, g)
  BY <1>1 DEF Scanned
<1>3. Scanned([s EXCEPT !.error = TRUE], f, g)
      /\ Scanned([moved EXCEPT !.skipped = @ + 1], f, g)
  BY <1>1 DEF Scanned
<1>4. \/ n = moved \/ n = [s EXCEPT !.error = TRUE]
      \/ n = [moved EXCEPT !.skipped = @ + 1]
      \/ \E a \in found : n = raised(a)
  BY DEF ScanBlock, EmptyBlock
<1>5. ASSUME NEW a \in found, n = raised(a) PROVE Scanned(n, f, g)
  <2>1. PICK e \in ecos : a \in {e} \X UNION Flagged(OfEco(segs, e), g)
    OBVIOUS
  <2> DEFINE c == a[2]
  <2>0. a = <<e, c>> /\ c \in UNION Flagged(OfEco(segs, e), g)
    BY <2>1
  <2>2. PICK F \in Flagged(OfEco(segs, e), g) : c \in F
    BY <2>0
  <2>3. /\ IsFiniteSet(segs)
        /\ \A x \in segs : x.pkts # {} /\ x.pkts \subseteq Usable(f, s.next, s.next + g.block)
    BY <1>1, BlockFacts
  <2> HIDE DEF segs
  <2>4. OfEco(segs, e) \in SUBSET segs
    BY DEF OfEco
  <2>5. IsFiniteSet(OfEco(segs, e))
    BY <2>3, <2>4, FS_Subset
  <2>6. /\ c \subseteq OfEco(segs, e) /\ c # {} /\ Gated(c, g)
        /\ Cardinality(OfEco(segs, e)) >= 5
    BY <2>2, <2>5, FlaggedFacts
  <2> DEFINE b == Alert(c, s.next, Cardinality(OfEco(segs, e)), g)
  <2>7. /\ b.at = s.next + g.block /\ b.block = s.next /\ b.cluster = c
        /\ b.segs = Cardinality(OfEco(segs, e))
    BY DEF Alert
  <2> HIDE DEF b
  <2>8. Evidence(b, f, g)
    BY <1>1, <2>3, <2>4, <2>6, <2>7 DEF Evidence
  <2>9. n = [moved EXCEPT !.alert = b]
    <3>1. a[1] = e /\ a[2] = c
      BY <2>0
    <3>2. raised(a) = [moved EXCEPT !.alert = b]
      BY <3>1 DEF b
    <3>3. QED
      BY <1>5, <3>2
  <2>10. QED
    BY <1>2, <2>8, <2>9 DEF Scanned
<1>6. QED
  BY <1>2, <1>3, <1>4, <1>5

-----------------------------------------------------------------------------
(* The tasks of a mode.                                                    *)

SettingsOf(m) == IF m \in {"batch", "multi"} THEN Nat ELSE DOMAIN Grid
TaskOf(m) == [file : DOMAIN Packets, setting : SettingsOf(m)]

LEMMA UnderType ==
  ASSUME NEW m, NEW files \in Seq(DOMAIN Packets), NEW i \in SettingsOf(m)
  PROVE  Under(files, i) \in Seq(TaskOf(m))
<1>1. PICK n \in Nat : n = Len(files) /\ DOMAIN files = 1 .. n
  OBVIOUS
<1>2. \A j \in 1 .. n : Task(files[j], i) \in TaskOf(m)
  BY <1>1 DEF Task, TaskOf
<1>3. Under(files, i) = [j \in 1 .. n |-> Task(files[j], i)]
  BY <1>1 DEF Under
<1>4. Under(files, i) \in [1 .. n -> TaskOf(m)]
  BY <1>2, <1>3
<1>5. QED
  BY <1>4, SeqDef

LEMMA GridFacts ==
  /\ Len(Grid) \in Nat \ {0} /\ DOMAIN Grid = 1 .. Len(Grid)
  /\ \A i \in DOMAIN Grid :
       /\ Grid[i].window \in Nat /\ Grid[i].block \in Nat
       /\ Grid[i].dens \in Nat /\ Grid[i].block % 5 = 0
<1> DEFINE P == [window : Nat, block : Nat \ {0}, dens : Nat]
<1>1. Grid \in Seq(P) /\ Grid # <<>> /\ \A i \in DOMAIN Grid : Grid[i].block % 5 = 0
  BY DetectAssumption
<1> HIDE DEF P
<1>2. \A i \in DOMAIN Grid : Grid[i] \in P
  BY <1>1
<1>3. Len(Grid) \in Nat \ {0} /\ DOMAIN Grid = 1 .. Len(Grid)
  BY <1>1
<1>4. QED
  BY <1>1, <1>2, <1>3 DEF P

LEMMA PerSetting ==
  ASSUME NEW S, NEW h \in [DOMAIN Grid -> S]
  PROVE  h \in Seq(S) \ {<<>>}
<1>1. PICK n \in Nat \ {0} : DOMAIN Grid = 1 .. n
  BY GridFacts
<1>2. h \in [1 .. n -> S]
  BY <1>1
<1>3. h \in Seq(S)
  BY <1>1, <1>2, SeqDef
<1>4. 1 \in DOMAIN h
  BY <1>1, <1>2
<1>5. QED
  BY <1>3, <1>4

LEMMA TaskListType ==
  ASSUME NEW m \in Modes, NEW dirs \in Inputs
  PROVE  TaskLists(m, dirs) \in Seq(Seq(TaskOf(m))) \ {<<>>}
<1> DEFINE Files == Seq(DOMAIN Packets)
<1>1. dirs \in Seq(Files) /\ dirs # <<>> /\ Len(dirs) \in Nat \ {0}
      /\ DOMAIN dirs = 1 .. Len(dirs)
  BY DetectAssumption
<1>2. FlattenSeq(dirs) \in Files /\ dirs[1] \in Files
  BY <1>1, Flattened
<1>3. CASE m = "batch"
  <2>1. Under(FlattenSeq(dirs), 0) \in Seq(TaskOf(m))
    BY <1>2, <1>3, UnderType DEF SettingsOf
  <2>2. QED
    BY <1>3, <2>1 DEF TaskLists, BatchTasks
<1>4. CASE m = "multi"
  <2>1. \A d \in DOMAIN dirs : Under(dirs[d], d) \in Seq(TaskOf(m))
    BY <1>1, <1>4, UnderType DEF SettingsOf
  <2>2. PICK n \in Nat \ {0} : DOMAIN dirs = 1 .. n
    BY <1>1
  <2>3. MultiTasks(dirs) \in [1 .. n -> Seq(TaskOf(m))]
    BY <2>1, <2>2 DEF MultiTasks
  <2>4. MultiTasks(dirs) \in Seq(Seq(TaskOf(m)))
    BY <2>3, SeqDef
  <2>5. MultiTasks(dirs) # <<>>
    BY <2>2, <2>3
  <2>6. QED
    BY <1>4, <2>4, <2>5 DEF TaskLists
<1>5. CASE m = "sweep"
  <2>1. \A i \in DOMAIN Grid : Under(dirs[1], i) \in Seq(TaskOf(m))
    BY <1>2, <1>5, UnderType DEF SettingsOf
  <2>2. SweepTasks(dirs) \in Seq(Seq(TaskOf(m))) \ {<<>>}
    BY <2>1, PerSetting DEF SweepTasks
  <2>3. QED
    BY <1>5, <2>2 DEF TaskLists
<1>6. CASE m = "grid"
  <2> DEFINE row(j) == [i \in DOMAIN Grid |-> Task(dirs[1][j], i)]
             table == [j \in DOMAIN dirs[1] |-> row(j)]
  <2>1. ASSUME NEW j \in DOMAIN dirs[1] PROVE row(j) \in Seq(TaskOf(m))
    <3>1. \A i \in DOMAIN Grid : Task(dirs[1][j], i) \in TaskOf(m)
      BY <1>2, <1>6, <2>1 DEF Task, TaskOf, SettingsOf
    <3>2. QED
      BY <3>1, PerSetting
  <2>2. PICK n \in Nat : DOMAIN dirs[1] = 1 .. n
    BY <1>2
  <2> HIDE DEF row
  <2>3. table \in [1 .. n -> Seq(TaskOf(m))]
    BY <2>1, <2>2
  <2> HIDE DEF table
  <2>4. table \in Seq(Seq(TaskOf(m)))
    BY <2>2, <2>3, SeqDef
  <2>5. FlattenSeq(table) \in Seq(TaskOf(m))
    BY <2>4, Flattened
  <2>6. GridTasks(dirs) = <<FlattenSeq(table)>>
    BY DEF GridTasks, row, table
  <2>7. QED
    BY <1>6, <2>5, <2>6 DEF TaskLists
<1>7. CASE m = "bench"
  <2> DEFINE lists == [i \in DOMAIN Grid |-> Under(FlattenSeq(dirs), i)]
  <2>1. \A i \in DOMAIN Grid : Under(FlattenSeq(dirs), i) \in Seq(TaskOf(m))
    BY <1>2, <1>7, UnderType DEF SettingsOf
  <2>2. lists \in Seq(Seq(TaskOf(m)))
    BY <2>1, PerSetting
  <2>3. FlattenSeq(lists) \in Seq(TaskOf(m))
    BY <2>2, Flattened
  <2>4. BenchTasks(dirs) = <<FlattenSeq(lists)>>
    BY DEF BenchTasks
  <2> HIDE DEF lists
  <2>5. QED
    BY <1>7, <2>3, <2>4 DEF TaskLists
<1>8. QED
  BY <1>3, <1>4, <1>5, <1>6, <1>7 DEF Modes

-----------------------------------------------------------------------------
(* The inductive invariant.                                                *)

\* Globals that are right for setting i in mode m, when the parent's are p.
Follows(m, p, i, g) ==
  IF m \in {"batch", "multi"}
  THEN START_METHOD = "fork" => g = p
  ELSE /\ g.block = Grid[i].block
       /\ IF m = "sweep" THEN 5 * g.step = 4 * g.block ELSE g.step = g.block
       /\ m # "bench" => g.dens = Grid[i].dens
       /\ m = "grid" => g.window = Grid[i].window

\* A worker that is at a task has the right globals and a true scan.
AtTask(j, s, g, m, p) ==
  /\ j \in TaskOf(m) /\ Follows(m, p, j.setting, g) /\ Scanned(s, j.file, g)

RowOk(r, m, p) ==
  /\ r.task \in TaskOf(m) /\ r.used \in Globals /\ Follows(m, p, r.task.setting, r.used)
  /\ r.alert = NoAlert \/ Evidence(r.alert, r.task.file, r.used)
  /\ r.gt = GtPos(r.task.file) /\ r.ttd = TimeToDetect(r.task.file, r.alert)

LineOk(l, m, p) == \A g \in l.used : Follows(m, p, l.setting, g)

Idle ==
  /\ tasks = <<>> /\ rows = {} /\ report = {} /\ job = [w \in Worker |-> None]
  /\ parent = Defaults

Typed ==
  /\ mode \in Modes \cup {None} /\ parent \in Globals
  /\ global \in [Worker -> Globals] /\ DOMAIN job = Worker /\ DOMAIN scan = Worker
  /\ mode = None => Idle
  /\ mode # None => /\ tasks \in Seq(TaskOf(mode))
                    /\ batches \in Seq(Seq(TaskOf(mode)))

\* Of the globals of a forked worker nothing but its tasks changes anything.
Forked ==
  START_METHOD = "fork" /\ mode \in {"batch", "multi"} =>
    \A w \in Worker : global[w] = parent

IInv ==
  /\ Typed /\ Forked
  /\ \A w \in Worker : job[w] # None => AtTask(job[w], scan[w], global[w], mode, parent)
  /\ \A r \in rows : RowOk(r, mode, parent)
  /\ \A l \in report : LineOk(l, mode, parent)

LEMMA InitIInv == Init => IInv
<1>1. SUFFICES ASSUME Init PROVE IInv
  OBVIOUS
<1>2. Defaults \in Globals /\ None \notin Modes
  BY DetectAssumption
<1>3. Typed /\ Forked
  BY <1>1, <1>2 DEF Init, Typed, Forked, Idle, Modes
<1>4. QED
  BY <1>1, <1>3 DEF IInv, Init

(* A task sets all the globals its setting is about.                       *)
LEMMA SettingsFollow ==
  ASSUME mode \in Modes, parent \in Globals, NEW i \in SettingsOf(mode),
         NEW g \in Globals,
         START_METHOD = "fork" /\ mode \in {"batch", "multi"} => g = parent
  PROVE  Settings(i, g) \in Globals /\ Follows(mode, parent, i, Settings(i, g))
<1>1. CASE mode \in {"batch", "multi"}
  BY <1>1 DEF Settings, Follows
<1>2. CASE mode \notin {"batch", "multi"}
  <2>1. PICK b \in Nat : b = Grid[i].block /\ b % 5 = 0
    BY <1>2, GridFacts DEF SettingsOf
  <2>2. Grid[i].window \in Nat /\ Grid[i].dens \in Nat /\ parent.dens \in Nat
    BY <1>2, GridFacts DEF SettingsOf, Globals
  <2>3. (4 * b) \div 5 \in Nat /\ 5 * ((4 * b) \div 5) = 4 * b
    BY <2>1
  <2>4. (17 * b + 23) \div 24 \in Nat
    BY <2>1
  <2>5. CASE mode = "sweep"
    BY <2>1, <2>2, <2>3, <2>5 DEF Settings, SweepSettings, Follows, Globals
  <2>6. CASE mode = "grid"
    BY <2>1, <2>2, <2>6 DEF Settings, GridSettings, Follows, Globals
  <2>7. CASE mode = "bench"
    BY <2>1, <2>2, <2>4, <2>7 DEF Settings, BenchSettings, Follows, Globals
  <2>8. QED
    BY <1>2, <2>5, <2>6, <2>7 DEF Modes
<1>3. QED
  BY <1>1, <1>2

(* A report is made of the rows of the setting it names.                   *)
LEMMA LinesFollow ==
  ASSUME mode \in Modes, NEW m, NEW p, \A r \in rows : RowOk(r, m, p)
  PROVE  \A l \in AllLines : LineOk(l, m, p)
<1>1. ASSUME NEW i, NEW a, NEW e, NEW rs, rs \subseteq RowsUnder(i)
      PROVE  LineOk(Line(i, a, rs, e), m, p)
  <2>1. Line(i, a, rs, e).setting = i /\ Line(i, a, rs, e).used = {r.used : r \in rs}
    BY DEF Line
  <2>2. ASSUME NEW r \in rs PROVE Follows(m, p, i, r.used)
    BY <1>1 DEF RowsUnder, RowOk
  <2>3. QED
    BY <2>1, <2>2 DEF LineOk
<1>2. ASSUME NEW i PROVE \A l \in LinesUnder(i) : LineOk(l, m, p)
  <2>1. CASE mode \in {"batch", "sweep"}
    BY <1>1, <2>1 DEF LinesUnder, PlainLine
  <2>2. CASE mode = "multi"
    BY <1>1, <2>2 DEF LinesUnder, MultiLines, ByAdv
  <2>3. CASE mode = "grid"
    BY <1>1, <2>3 DEF LinesUnder, GridLines, ByAdv
  <2>4. CASE mode = "bench"
    BY <1>1, <2>4 DEF LinesUnder, BenchLine
  <2>5. QED
    BY <2>1, <2>2, <2>3, <2>4 DEF Modes
<1>3. QED
  BY <1>2 DEF AllLines

LEMMA LaunchIInv ==
  ASSUME IInv, Launch
  PROVE  IInv'
<1>1. mode' \in Modes /\ mode' # None /\ None \notin Modes
  BY DetectAssumption DEF Launch
<1>2. Idle /\ parent = Defaults /\ Defaults \in Globals
  BY DetectAssumption DEF Launch, IInv, Typed, Idle
<1>3. parent' \in Globals
  <2>1. PICK dens \in Overrides :
          parent' = IF dens = None THEN parent ELSE [parent EXCEPT !.dens = dens]
    BY DEF Launch
  <2>2. dens = None \/ dens \in Nat
    BY DetectAssumption
  <2>3. CASE dens = None
    BY <1>2, <2>1, <2>3
  <2>4. CASE dens # None
    BY <1>2, <2>1, <2>2, <2>4 DEF Globals
  <2>5. QED
    BY <2>3, <2>4
<1>4. global' = [w \in Worker |-> NewWorker(mode', parent')]
  BY DEF Launch
<1>5. NewWorker(mode', parent') \in Globals
      /\ (START_METHOD = "fork" /\ mode' \in {"batch", "multi"} =>
            NewWorker(mode', parent') = parent')
  BY <1>2, <1>3 DEF NewWorker
<1>6. global' \in [Worker -> Globals] /\ Forked'
  BY <1>4, <1>5 DEF Forked
<1>7. tasks' \in Seq(TaskOf(mode')) /\ batches' \in Seq(Seq(TaskOf(mode')))
  <2>1. PICK m \in Modes, d \in Inputs : m = mode' /\ d = folders'
    BY DEF Launch
  <2>2. TaskLists(m, d) \in Seq(Seq(TaskOf(m))) \ {<<>>}
    BY TaskListType
  <2>3. tasks' = Head(TaskLists(m, d)) /\ batches' = Tail(TaskLists(m, d))
    BY <2>1 DEF Launch
  <2>4. Head(TaskLists(m, d)) \in Seq(TaskOf(m))
        /\ Tail(TaskLists(m, d)) \in Seq(Seq(TaskOf(m)))
    BY <2>2, HeadTailProperties
  <2>5. QED
    BY <2>1, <2>3, <2>4
<1>8. /\ job' = [w \in Worker |-> None] /\ rows' = {} /\ report' = {}
      /\ DOMAIN scan' = Worker
  BY <1>2 DEF Launch, Idle, IInv, Typed
<1>9. Typed'
  BY <1>1, <1>3, <1>6, <1>7, <1>8 DEF Typed
<1>10. QED
  BY <1>6, <1>8, <1>9 DEF IInv

LEMMA NextListIInv ==
  ASSUME IInv, NextList
  PROVE  IInv'
<1>1. /\ mode \in Modes /\ mode # None /\ mode' = mode /\ parent' = parent
      /\ parent \in Globals
  BY DEF NextList, IInv, Typed, asked
<1>2. batches \in Seq(Seq(TaskOf(mode))) /\ batches # <<>>
  BY DEF NextList, IInv, Typed
<1>3. tasks' \in Seq(TaskOf(mode)) /\ batches' \in Seq(Seq(TaskOf(mode)))
  BY <1>2, HeadTailProperties DEF NextList
<1>4. Defaults \in Globals
  BY DetectAssumption
<1>5. \/ mode = "multi" /\ global' = [w \in Worker |-> NewWorker(mode, parent)]
      \/ global' = global
  BY DEF NextList
<1>6. global' \in [Worker -> Globals]
  <2>1. NewWorker(mode, parent) \in Globals
    BY <1>1, <1>4 DEF NewWorker
  <2>2. QED
    BY <1>5, <2>1 DEF IInv, Typed
<1>7. Forked'
  <2>1. START_METHOD = "fork" /\ mode = "multi" => NewWorker(mode, parent) = parent
    BY DEF NewWorker
  <2>2. QED
    BY <1>1, <1>5, <2>1 DEF IInv, Forked
<1>8. \A l \in report' : LineOk(l, mode, parent)
  <2>1. \A l \in AllLines : LineOk(l, mode, parent)
    BY <1>1, LinesFollow DEF IInv
  <2>2. QED
    BY <2>1 DEF NextList, IInv
<1>9. job' = job /\ scan' = scan /\ rows' = {} /\ \A w \in Worker : job[w] = None
  BY DEF NextList, ListDone
<1>10. Typed'
  BY <1>1, <1>3, <1>6, <1>9 DEF Typed, IInv
<1>11. QED
  BY <1>1, <1>7, <1>8, <1>9, <1>10 DEF IInv

LEMMA WriteReportIInv ==
  ASSUME IInv, WriteReport
  PROVE  IInv'
<1>1. /\ mode \in Modes /\ mode # None /\ mode' = mode /\ parent' = parent
  BY DEF WriteReport, IInv, Typed, asked
<1>2. \A l \in AllLines : LineOk(l, mode, parent)
  BY <1>1, LinesFollow DEF IInv
<1>3. /\ report' = report \cup AllLines
      /\ UNCHANGED <<global, batches, tasks, job, scan, rows>>
  BY DEF WriteReport
<1>4. Typed' /\ Forked'
  BY <1>1, <1>3 DEF Typed, Forked, IInv
<1>5. QED
  BY <1>1, <1>2, <1>3, <1>4 DEF IInv

(* What every action of a worker leaves alone.                             *)
LEMMA Working ==
  ASSUME IInv, NEW w \in Worker, Take(w) \/ Block(w) \/ Finish(w) \/ Abort(w)
  PROVE  /\ mode \in Modes /\ mode # None /\ mode' = mode /\ parent' = parent
         /\ parent \in Globals /\ global[w] \in Globals
<1>1. mode' = mode /\ parent' = parent
  BY DEF Take, Block, Finish, Abort, asked
<1>2. mode # None
  <2>1. SUFFICES ASSUME mode = None PROVE FALSE
    OBVIOUS
  <2>2. Idle
    BY <2>1 DEF IInv, Typed
  <2>3. QED
    BY <2>2 DEF Idle, Take, Block, Finish, Abort
<1>3. QED
  BY <1>1, <1>2 DEF IInv, Typed

LEMMA TakeIInv ==
  ASSUME IInv, NEW w \in Worker, Take(w)
  PROVE  IInv'
<1>1. /\ mode \in Modes /\ mode # None /\ mode' = mode /\ parent' = parent
      /\ parent \in Globals /\ global[w] \in Globals
  BY Working
<1>2. tasks \in Seq(TaskOf(mode)) /\ tasks # <<>>
  BY <1>1 DEF Take, IInv, Typed
<1>3. Head(tasks) \in TaskOf(mode) /\ tasks' \in Seq(TaskOf(mode))
  BY <1>2, HeadTailProperties DEF Take
<1>4. PICK j \in TaskOf(mode) : j = Head(tasks)
  BY <1>3
<1> DEFINE g == Settings(j.setting, global[w])
<1>5. j.setting \in SettingsOf(mode) /\ j.file \in DOMAIN Packets
  BY DEF TaskOf
<1>6. g \in Globals /\ Follows(mode, parent, j.setting, g)
  BY <1>1, <1>5, SettingsFollow DEF IInv, Forked
<1>7. /\ job' = [job EXCEPT ![w] = j] /\ scan' = [scan EXCEPT ![w] = StartOf(j.file)]
      /\ global' = [global EXCEPT ![w] = g]
      /\ UNCHANGED <<batches, rows, report>>
  BY <1>4 DEF Take
<1>8. Scanned(StartOf(j.file), j.file, g)
  BY <1>5, StartScanned
<1>9. AtTask(j, StartOf(j.file), g, mode, parent)
  BY <1>6, <1>8 DEF AtTask
<1>10. mode \in {"batch", "multi"} => g = global[w]
  BY DEF Settings
<1> HIDE DEF g
<1>11. Typed'
  BY <1>1, <1>3, <1>6, <1>7 DEF Typed, IInv
<1>12. Forked'
  BY <1>1, <1>7, <1>10 DEF Forked, Typed, IInv
<1>13. \A v \in Worker : job'[v] # None =>
         AtTask(job'[v], scan'[v], global'[v], mode, parent)
  BY <1>7, <1>9 DEF IInv, Typed
<1>14. QED
  BY <1>1, <1>7, <1>11, <1>12, <1>13 DEF IInv

LEMMA BlockIInv ==
  ASSUME IInv, NEW w \in Worker, Block(w)
  PROVE  IInv'
<1>1. /\ mode \in Modes /\ mode # None /\ mode' = mode /\ parent' = parent
      /\ parent \in Globals /\ global[w] \in Globals
  BY Working
<1>2. AtTask(job[w], scan[w], global[w], mode, parent) /\ job[w].file \in DOMAIN Packets
  BY DEF IInv, Block, AtTask, TaskOf
<1>3. PICK s \in ScanBlock(scan[w], job[w].file, global[w], mode = "bench") :
        scan' = [scan EXCEPT ![w] = s]
  BY DEF Block
<1>4. PICK f \in DOMAIN Packets, g \in Globals : f = job[w].file /\ g = global[w]
  BY <1>1, <1>2
<1>5. Scanned(s, f, g)
  BY <1>2, <1>3, <1>4, ScanStep DEF AtTask
<1>6. AtTask(job[w], s, global[w], mode, parent)
  BY <1>2, <1>4, <1>5 DEF AtTask
<1>7. UNCHANGED <<global, batches, tasks, job, rows, report>>
  BY DEF Block
<1>8. Typed' /\ Forked'
  BY <1>1, <1>3, <1>7 DEF Typed, Forked, IInv
<1>9. \A v \in Worker : job[v] # None =>
        AtTask(job[v], scan'[v], global[v], mode, parent)
  BY <1>3, <1>6 DEF IInv, Typed
<1>10. QED
  BY <1>1, <1>7, <1>8, <1>9 DEF IInv

LEMMA FinishIInv ==
  ASSUME IInv, NEW w \in Worker, Finish(w)
  PROVE  IInv'
<1>1. /\ mode \in Modes /\ mode # None /\ mode' = mode /\ parent' = parent
      /\ parent \in Globals /\ global[w] \in Globals
  BY Working
<1>2. AtTask(job[w], scan[w], global[w], mode, parent)
  BY DEF IInv, Finish
<1> DEFINE f == job[w].file
           alert == IF scan[w].error THEN NoAlert ELSE scan[w].alert
<1>3. /\ Row(w).task = job[w] /\ Row(w).used = global[w]
      /\ Row(w).gt = GtPos(f) /\ Row(w).alert = alert
      /\ Row(w).ttd = TimeToDetect(f, alert)
  BY DEF Row
<1>4. alert = NoAlert \/ Evidence(alert, f, global[w])
  BY <1>2 DEF AtTask, Scanned
<1>5. RowOk(Row(w), mode, parent)
  BY <1>1, <1>2, <1>3, <1>4 DEF RowOk, AtTask
<1>6. /\ rows' = rows \cup {Row(w)} /\ job' = [job EXCEPT ![w] = None]
      /\ scan' = [scan EXCEPT ![w] = None]
      /\ UNCHANGED <<global, batches, tasks, report>>
  BY DEF Finish
<1>7. Typed' /\ Forked'
  BY <1>1, <1>6 DEF Typed, Forked, IInv
<1>8. \A r \in rows' : RowOk(r, mode, parent)
  BY <1>5, <1>6 DEF IInv
<1>9. \A v \in Worker : job'[v] # None =>
        AtTask(job'[v], scan'[v], global[v], mode, parent)
  BY <1>6 DEF IInv, Typed
<1>10. QED
  BY <1>1, <1>6, <1>7, <1>8, <1>9 DEF IInv

LEMMA AbortIInv ==
  ASSUME IInv, NEW w \in Worker, Abort(w)
  PROVE  IInv'
<1>1. mode # None /\ mode' = mode /\ parent' = parent
  BY Working
<1>2. report' = {} /\ UNCHANGED <<global, batches, tasks, job, scan, rows>>
  BY DEF Abort
<1>3. Typed' /\ Forked'
  BY <1>1, <1>2 DEF Typed, Forked, IInv
<1>4. QED
  BY <1>1, <1>2, <1>3 DEF IInv

LEMMA NextIInv == IInv /\ [Next]_vars => IInv'
<1>1. SUFFICES ASSUME IInv, [Next]_vars PROVE IInv'
  OBVIOUS
<1>2. CASE UNCHANGED vars
  BY <1>1, <1>2 DEF IInv, Typed, Forked, Idle, vars, asked
<1>3. CASE Launch
  BY <1>1, <1>3, LaunchIInv
<1>4. CASE NextList
  BY <1>1, <1>4, NextListIInv
<1>5. CASE WriteReport
  BY <1>1, <1>5, WriteReportIInv
<1>6. CASE \E w \in Worker : Take(w)
  BY <1>1, <1>6, TakeIInv
<1>7. CASE \E w \in Worker : Block(w)
  BY <1>1, <1>7, BlockIInv
<1>8. CASE \E w \in Worker : Finish(w)
  BY <1>1, <1>8, FinishIInv
<1>9. CASE \E w \in Worker : Abort(w)
  BY <1>1, <1>9, AbortIInv
<1>10. QED
  BY <1>1, <1>2, <1>3, <1>4, <1>5, <1>6, <1>7, <1>8, <1>9 DEF Next

LEMMA Invariant == Spec => []IInv
<1>1. Init => IInv
  BY InitIInv
<1>2. IInv /\ [Next]_vars => IInv'
  BY NextIInv
<1>3. QED
  BY <1>1, <1>2, PTL DEF Spec

-----------------------------------------------------------------------------
(* The theorems.                                                           *)

(* Every line of a report rests on rows that were computed with the        *)
(* settings the line names, though a worker keeps the globals of its       *)
(* earlier tasks (Aircatch.py's _worker_eval_one_csv_for_params,           *)
(* _sweep_worker_eval_one_csv_for_config; block_benchmark's _worker).      *)
THEOREM SettingsOfTheirTask == Spec => []SettingsFollowTask
<1>1. ASSUME IInv, NEW l \in report, NEW g \in l.used
      PROVE  Follows(mode, parent, l.setting, g) /\ mode \in Modes
  <2>1. LineOk(l, mode, parent) /\ mode # None
    BY <1>1 DEF IInv, Typed, Idle
  <2>2. QED
    BY <1>1, <2>1 DEF LineOk, IInv, Typed
<1>2. IInv => SettingsFollowTask
  BY <1>1 DEF SettingsFollowTask, Follows
<1>3. QED
  BY <1>2, Invariant, PTL

(* The span of the evidence lies in its block, which is over at the alert. *)
LEMMA EvidenceSpan ==
  ASSUME NEW f \in DOMAIN Packets, NEW g \in Globals, NEW a, Evidence(a, f, g)
  PROVE  /\ SegTimes(a.cluster) \in SUBSET Nat
         /\ Span(a.cluster).first \in SegTimes(a.cluster)
         /\ \A t \in SegTimes(a.cluster) :
              Span(a.cluster).first <= t /\ a.block <= t /\ t < a.at
         /\ Span(a.cluster).last \in SegTimes(a.cluster)
         /\ a.block \in Nat /\ a.at \in Nat /\ g.dur \in Nat /\ g.block \in Nat
         /\ Span(a.cluster).last - Span(a.cluster).first >= g.dur
<1> DEFINE T == SegTimes(a.cluster)
<1>1. /\ a.block \in Nat /\ g.block \in Nat /\ g.dur \in Nat
      /\ a.at = a.block + g.block /\ a.cluster # {}
  BY DEF Evidence, Globals
<1>2. \A p \in UNION {s.pkts : s \in a.cluster} : p \in Usable(f, a.block, a.at)
  BY DEF Evidence
<1>3. \A t \in T : t \in Nat /\ a.block <= t /\ t < a.at
  BY <1>2, FileFacts DEF SegTimes, Times, Usable
<1>4. T # {}
  BY DEF Evidence, SegTimes, Times
<1>5. Span(a.cluster) = [first |-> Least(T), last |-> Greatest(T)]
  BY DEF Span, SegTimes
<1>6. PICK n \in Nat : n = a.at
  BY <1>1
<1> HIDE DEF T
<1>7. T \in SUBSET Nat /\ \A t \in T : t <= n
  BY <1>3, <1>6
<1>8. Least(T) \in T /\ \A t \in T : Least(T) <= t
  BY <1>4, <1>7, LeastFacts
<1>9. Greatest(T) \in T
  BY <1>4, <1>7, GreatestFacts
<1>10. Span(a.cluster).last - Span(a.cluster).first >= g.dur
  BY DEF Evidence, Gated
<1>11. QED
  BY <1>1, <1>3, <1>5, <1>6, <1>7, <1>8, <1>9, <1>10 DEF T

LEMMA RowEvidence ==
  ASSUME IInv, NEW r \in rows
  PROVE  /\ r.task.file \in DOMAIN Packets /\ r.used \in Globals
         /\ r.alert # NoAlert => Evidence(r.alert, r.task.file, r.used)
         /\ r.gt = GtPos(r.task.file) /\ r.ttd = TimeToDetect(r.task.file, r.alert)
  BY DEF IInv, RowOk, TaskOf

(* What an alert rests on, whatever the clustering and the core radius:    *)
(* valid packets of one block that is over, of two devices or more, in     *)
(* three segments or more that span DUR_MIN, of an ecosystem with five     *)
(* segments or more (_choose_k_by_silhouette, rank_adversary_clusters,     *)
(* strict_decision).                                                       *)
THEOREM AlertsHaveEvidence == Spec => []AlertEvidence
<1>1. ASSUME IInv, NEW r \in rows, r.alert # NoAlert
      PROVE  LET c == r.alert.cluster
                 pkts == UNION {s.pkts : s \in c}
             IN  /\ \A p \in pkts : /\ p.crc /\ ~Dropped(p)
                                    /\ r.alert.block <= p.t /\ p.t < r.alert.at
                 /\ Cardinality(Macs(c)) >= 2 /\ Cardinality(c) >= 3
                 /\ Span(c).last - Span(c).first >= r.used.dur
                 /\ r.used.dur < r.used.block
                 /\ r.alert.segs >= 5
  <2> DEFINE a == r.alert
  <2>1. PICK f \in DOMAIN Packets, g \in Globals :
          f = r.task.file /\ g = r.used /\ Evidence(a, f, g)
    BY <1>1, RowEvidence
  <2>2. \A p \in UNION {s.pkts : s \in a.cluster} : p \in Usable(f, a.block, a.at)
    BY <2>1 DEF Evidence
  <2>3. g.dur < g.block
    <3>1. PICK x \in Nat, y \in Nat, b \in Nat, d \in Nat, k \in Nat :
            /\ x = Span(a.cluster).first /\ y = Span(a.cluster).last
            /\ b = a.block /\ d = g.dur /\ k = g.block
      BY <2>1, EvidenceSpan
    <3>2. b <= x /\ y < a.at /\ y - x >= d
      BY <2>1, <3>1, EvidenceSpan
    <3>3. a.at = b + k
      BY <2>1, <3>1 DEF Evidence
    <3>4. QED
      BY <3>1, <3>2, <3>3
  <2>4. QED
    BY <2>1, <2>2, <2>3 DEF Evidence, Gated, Usable
<1>2. IInv => AlertEvidence
  BY <1>1 DEF AlertEvidence
<1>3. QED
  BY <1>2, Invariant, PTL

(* Times to detect: only for a detected positive; missing for one only if  *)
(* the alert came before the adversary did; and longer than DUR_MIN when   *)
(* the adversary was detected by its own packets (_compute_ttd_seconds).   *)
THEOREM TimesToDetect == Spec => []TtdSound
<1>1. ASSUME IInv, NEW r \in rows
      PROVE  r.ttd # None => r.gt /\ r.alert # NoAlert
  <2>1. r.gt = GtPos(r.task.file) /\ r.ttd = TimeToDetect(r.task.file, r.alert)
    BY <1>1, RowEvidence
  <2>2. QED
    BY <2>1 DEF TimeToDetect
<1>2. ASSUME IInv, NEW r \in rows, r.alert # NoAlert
      PROVE  /\ r.gt /\ r.ttd = None =>
                  \A p \in PacketsOf(r.task.file) : Tagged(p) => p.t > r.alert.at
             /\ (\A s \in r.alert.cluster : \A p \in s.pkts : Tagged(p)) =>
                  r.ttd # None /\ r.ttd > r.used.dur
  <2> DEFINE a == r.alert
  <2>1. PICK f \in DOMAIN Packets, g \in Globals :
          f = r.task.file /\ g = r.used /\ Evidence(a, f, g)
    BY <1>2, RowEvidence
  <2>2. r.gt = GtPos(f) /\ r.ttd = TimeToDetect(f, a) /\ a # NoAlert
    BY <1>2, <2>1, RowEvidence
  <2> DEFINE tagged == {p \in PacketsOf(f) : Tagged(p)}
  <2>3. tagged # {} => /\ AdvFirst(f) \in Nat
                       /\ \A p \in tagged : AdvFirst(f) <= p.t
    <3>1. Times(tagged) \in SUBSET Nat
      BY FileFacts DEF Times
    <3>2. tagged # {} => Times(tagged) # {}
      BY DEF Times
    <3>3. \A p \in tagged : p.t \in Times(tagged)
      BY DEF Times
    <3>4. AdvFirst(f) = Least(Times(tagged))
      BY DEF AdvFirst
    <3> HIDE DEF tagged
    <3>5. QED
      BY <3>1, <3>2, <3>3, <3>4, LeastFacts
  <2>4. tagged # {} =>
          /\ r.gt
          /\ r.ttd = IF a.at >= AdvFirst(f) THEN a.at - AdvFirst(f) ELSE None
    BY <2>2 DEF TimeToDetect, GtPos
  <2>5. a.at \in Nat /\ None \notin Int /\ \A p \in tagged : p.t \in Nat
    BY <2>1, EvidenceSpan, FileFacts, DetectAssumption
  <2>6. ASSUME r.ttd = None, NEW p \in tagged PROVE p.t > a.at
    <3>1. PICK x \in Nat, n \in Nat : x = AdvFirst(f) /\ n = a.at
      BY <2>3, <2>5
    <3>2. x <= p.t /\ r.ttd = IF n >= x THEN n - x ELSE None
      BY <2>3, <2>4, <3>1
    <3>3. ~(n >= x)
      BY <2>5, <2>6, <3>1, <3>2
    <3>4. QED
      BY <2>5, <3>1, <3>2, <3>3
  <2>7. ASSUME \A s \in a.cluster : \A p \in s.pkts : Tagged(p)
        PROVE  r.ttd # None /\ r.ttd > g.dur
    <3>1. SegTimes(a.cluster) \subseteq Times(tagged)
      BY <2>1, <2>7 DEF Evidence, SegTimes, Times, Usable
    <3>2. /\ Span(a.cluster).first \in SegTimes(a.cluster) \cap Nat
          /\ Span(a.cluster).last \in Nat /\ Span(a.cluster).last < a.at
          /\ Span(a.cluster).last - Span(a.cluster).first >= g.dur /\ g.dur \in Nat
      BY <2>1, EvidenceSpan
    <3>3. PICK p \in tagged : p.t = Span(a.cluster).first
      BY <3>1, <3>2 DEF Times
    <3>4. PICK x \in Nat, n \in Nat, y \in Nat, z \in Nat, d \in Nat :
            /\ x = AdvFirst(f) /\ n = a.at /\ y = Span(a.cluster).first
            /\ z = Span(a.cluster).last /\ d = g.dur
      BY <2>3, <2>5, <3>2, <3>3
    <3>5. x <= y /\ z < n /\ z - y >= d
      BY <2>3, <3>2, <3>3, <3>4
    <3>6. r.ttd = IF n >= x THEN n - x ELSE None
      BY <2>4, <3>3, <3>4
    <3>7. n >= x /\ n - x > d
      BY <3>4, <3>5
    <3>8. QED
      BY <2>5, <3>4, <3>6, <3>7
  <2>8. QED
    BY <2>1, <2>6, <2>7
<1>3. IInv => TtdSound
  BY <1>1, <1>2 DEF TtdSound
<1>4. QED
  BY <1>3, Invariant, PTL

-----------------------------------------------------------------------------
(* No task is on the lists of a mode twice.                                *)

Distinct(s) == \A i, j \in DOMAIN s : s[i] = s[j] => i = j

\* No two places of a list of lists hold the same.
AllDistinct(ss) ==
  \A d, e \in DOMAIN ss : \A i \in DOMAIN ss[d], j \in DOMAIN ss[e] :
    ss[d][i] = ss[e][j] => d = e /\ i = j

\* x is in one of the first n lists.
Within(ss, x, n) == \E d \in 1 .. n : d \in DOMAIN ss /\ \E j \in DOMAIN ss[d] : x = ss[d][j]

LEMMA ConcatFacts ==
  ASSUME NEW S, NEW a \in Seq(S), NEW b \in Seq(S), NEW c, c = a \o b
  PROVE  \A k \in DOMAIN c :
           \/ k \in DOMAIN a /\ c[k] = a[k]
           \/ k - Len(a) \in DOMAIN b /\ k \notin DOMAIN a /\ c[k] = b[k - Len(a)]
<1>1. PICK m \in Nat, n \in Nat : m = Len(a) /\ n = Len(b)
  OBVIOUS
<1>2. DOMAIN a = 1 .. m /\ DOMAIN b = 1 .. n /\ DOMAIN (a \o b) = 1 .. m + n
  BY <1>1
<1>3. ASSUME NEW k \in 1 .. m + n
      PROVE  \/ k \in 1 .. m /\ (a \o b)[k] = a[k]
             \/ k - m \in 1 .. n /\ k \notin 1 .. m /\ (a \o b)[k] = b[k - m]
  <2>1. CASE k <= m
    BY <1>1, <2>1
  <2>2. CASE k > m
    <3>1. k - m \in 1 .. n /\ k \notin 1 .. m
      BY <1>1, <2>2
    <3>2. (a \o b)[k] = b[k - m]
      BY <1>1, <2>2
    <3>3. QED
      BY <3>1, <3>2, Zenon
  <2>3. k <= m \/ k > m
    OBVIOUS
  <2>4. QED
    BY <2>1, <2>2, <2>3, Zenon
<1>4. QED
  BY <1>1, <1>2, <1>3, Zenon

LEMMA ConcatDistinct ==
  ASSUME NEW S, NEW a \in Seq(S), NEW b \in Seq(S), Distinct(a), Distinct(b),
         \A i \in DOMAIN a, j \in DOMAIN b : a[i] # b[j]
  PROVE  Distinct(a \o b)
<1>1. PICK m \in Nat : m = Len(a)
  OBVIOUS
<1>2. ASSUME NEW k \in DOMAIN (a \o b), NEW l \in DOMAIN (a \o b), (a \o b)[k] = (a \o b)[l]
      PROVE  k = l
  <2>1. \/ k \in DOMAIN a /\ (a \o b)[k] = a[k]
        \/ k - m \in DOMAIN b /\ k \notin DOMAIN a /\ (a \o b)[k] = b[k - m]
    BY <1>1, ConcatFacts
  <2>2. \/ l \in DOMAIN a /\ (a \o b)[l] = a[l]
        \/ l - m \in DOMAIN b /\ l \notin DOMAIN a /\ (a \o b)[l] = b[l - m]
    BY <1>1, ConcatFacts
  <2>3. k \in Int /\ l \in Int
    <3>1. a \o b \in Seq(S)
      OBVIOUS
    <3>2. DOMAIN (a \o b) \subseteq Int
      BY <3>1
    <3>3. QED
      BY <3>2
  <2>4. k - m = l - m => k = l
    BY <2>3
  <2>5. QED
    BY <1>2, <2>1, <2>2, <2>4 DEF Distinct
<1>3. QED
  BY <1>2 DEF Distinct

LEMMA JoinedDistinct ==
  ASSUME NEW S, NEW ss \in Seq(Seq(S)), NEW f, Joined(ss, f, Len(ss)), AllDistinct(ss)
  PROVE  \A i \in 1 .. Len(ss) :
           Distinct(f[i]) /\ \A k \in DOMAIN f[i] : Within(ss, f[i][k], i)
<1> DEFINE Holds(i) == Distinct(f[i]) /\ \A k \in DOMAIN f[i] : Within(ss, f[i][k], i)
           E == {i \in Nat : i \in 1 .. Len(ss) /\ ~ Holds(i)}
<1>1. SUFFICES ASSUME E # {} PROVE FALSE
  <2>1. SUFFICES ASSUME E = {} PROVE \A i \in 1 .. Len(ss) : Holds(i)
    OBVIOUS
  <2> HIDE DEF Holds
  <2>2. QED
    BY <2>1
<1>2. PICK i \in E : \A j \in E : i <= j
  BY <1>1, LeastExists
<1>3. i \in 1 .. Len(ss) /\ ~ Holds(i) /\ ss[i] \in Seq(S) /\ i \in DOMAIN ss /\ i \in Nat
  OBVIOUS
<1>4. f[i] = IF i = 1 THEN ss[i] ELSE f[i - 1] \o ss[i]
  BY <1>3 DEF Joined
<1>5. Distinct(ss[i]) /\ \A k \in DOMAIN ss[i] : Within(ss, ss[i][k], i)
  <2>1. Distinct(ss[i])
    BY <1>3 DEF Distinct, AllDistinct
  <2>2. i \in 1 .. i
    BY <1>3
  <2>3. QED
    BY <1>3, <2>1, <2>2 DEF Within
<1>6. i # 1
  BY <1>3, <1>4, <1>5
<1>7. i - 1 \in Nat /\ i - 1 \in 1 .. Len(ss) /\ ~(i <= i - 1)
  BY <1>3, <1>6
<1>8. Holds(i - 1)
  BY <1>2, <1>7
<1>9. f[i - 1] \in Seq(S)
  BY <1>7, JoinedType
<1>10. PICK a \in Seq(S), b \in Seq(S) : a = f[i - 1] /\ b = ss[i] /\ f[i] = a \o b
  BY <1>3, <1>4, <1>6, <1>9
<1>11. \A k \in DOMAIN a : Within(ss, a[k], i - 1)
  BY <1>8, <1>10
<1>12. ASSUME NEW k \in DOMAIN a, NEW j \in DOMAIN b PROVE a[k] # b[j]
  <2>1. PICK d \in 1 .. i - 1 : d \in DOMAIN ss /\ \E x \in DOMAIN ss[d] : a[k] = ss[d][x]
    BY <1>11 DEF Within
  <2>2. d # i
    BY <1>3
  <2>3. QED
    BY <1>3, <1>10, <2>1, <2>2 DEF AllDistinct
<1>13. Distinct(f[i])
  BY <1>5, <1>8, <1>10, <1>12, ConcatDistinct
<1>14. \A k \in DOMAIN f[i] : Within(ss, f[i][k], i)
  <2> DEFINE W == {x \in S : Within(ss, x, i)}
  <2>1. \A x : Within(ss, x, i - 1) => Within(ss, x, i)
    <3>1. 1 .. i - 1 \subseteq 1 .. i
      BY <1>3
    <3>2. QED
      BY <3>1 DEF Within
  <2>2. \A k \in DOMAIN a : a[k] \in W
    BY <1>11, <2>1
  <2>3. \A k \in DOMAIN b : b[k] \in W
    BY <1>5, <1>10
  <2> HIDE DEF W
  <2>4. a \in Seq(W) /\ b \in Seq(W)
    BY <2>2, <2>3
  <2>5. f[i] \in Seq(W)
    BY <1>10, <2>4
  <2>6. \A k \in DOMAIN f[i] : f[i][k] \in W
    BY <2>5
  <2>7. QED
    BY <2>6 DEF W
<1>15. QED
  BY <1>3, <1>13, <1>14

LEMMA FlatDistinct ==
  ASSUME NEW S, NEW ss \in Seq(Seq(S)), AllDistinct(ss)
  PROVE  Distinct(FlattenSeq(ss))
<1>1. CASE ss = <<>>
  BY <1>1 DEF FlattenSeq, Distinct
<1>2. CASE ss # <<>>
  <2> DEFINE f == CHOOSE g : Joined(ss, g, Len(ss))
  <2>1. Len(ss) \in 1 .. Len(ss) /\ Len(ss) \in 0 .. Len(ss)
    BY <1>2
  <2>2. Joined(ss, f, Len(ss))
    BY <2>1, JoinedExists
  <2>3. Distinct(f[Len(ss)])
    BY <2>1, <2>2, JoinedDistinct
  <2>4. QED
    BY <1>2, <2>3, FlattenIsJoined
<1>3. QED
  BY <1>1, <1>2

LEMMA UnderDistinct ==
  ASSUME NEW files, Distinct(files), NEW i
  PROVE  Distinct(Under(files, i))
  BY DEF Under, Task, Distinct

\* No task is twice on a list, and no two lists are of one setting.
SoundLists(ls) ==
  /\ \A k \in DOMAIN ls : Distinct(ls[k])
  /\ \A k, l \in DOMAIN ls : \A i \in DOMAIN ls[k], j \in DOMAIN ls[l] :
       ls[k][i].setting = ls[l][j].setting => k = l

LEMMA TaskListsSound ==
  ASSUME NEW m \in Modes, NEW dirs \in Inputs
  PROVE  SoundLists(TaskLists(m, dirs))
<1>1. /\ dirs \in Seq(Seq(DOMAIN Packets)) /\ dirs # <<>>
      /\ Len(dirs) \in Nat \ {0} /\ DOMAIN dirs = 1 .. Len(dirs)
      /\ AllDistinct(dirs)
  BY DetectAssumption DEF AllDistinct
<1>2. Distinct(FlattenSeq(dirs)) /\ \A d \in DOMAIN dirs : Distinct(dirs[d])
  <2>1. \A d \in DOMAIN dirs : Distinct(dirs[d])
    BY <1>1 DEF AllDistinct, Distinct
  <2>2. QED
    BY <1>1, <2>1, FlatDistinct
<1>3. 1 \in DOMAIN dirs
  BY <1>1
<1>4. ASSUME NEW s, Distinct(s) PROVE SoundLists(<<s>>)
  <2>1. DOMAIN <<s>> = {1} /\ <<s>>[1] = s
    OBVIOUS
  <2>2. QED
    BY <1>4, <2>1 DEF SoundLists
<1>5. CASE m = "batch"
  BY <1>2, <1>4, <1>5, UnderDistinct DEF TaskLists, BatchTasks
<1>6. CASE m = "multi"
  <2>1. \A d \in DOMAIN dirs : Distinct(Under(dirs[d], d))
    BY <1>2, UnderDistinct
  <2>2. SoundLists(MultiTasks(dirs))
    BY <2>1 DEF SoundLists, MultiTasks, Under, Task
  <2>3. QED
    BY <1>6, <2>2 DEF TaskLists
<1>7. CASE m = "sweep"
  <2>1. \A i \in DOMAIN Grid : Distinct(Under(dirs[1], i))
    BY <1>2, <1>3, UnderDistinct
  <2>2. SoundLists(SweepTasks(dirs))
    BY <2>1 DEF SoundLists, SweepTasks, Under, Task
  <2>3. QED
    BY <1>7, <2>2 DEF TaskLists
<1>8. CASE m = "grid"
  <2> DEFINE row(j) == [i \in DOMAIN Grid |-> Task(dirs[1][j], i)]
             table == [j \in DOMAIN dirs[1] |-> row(j)]
  <2>1. dirs[1] \in Seq(DOMAIN Packets) /\ Distinct(dirs[1])
    BY <1>1, <1>2, <1>3
  <2>2. ASSUME NEW j \in DOMAIN dirs[1] PROVE row(j) \in Seq(TaskOf(m))
    <3>1. \A i \in DOMAIN Grid : Task(dirs[1][j], i) \in TaskOf(m)
      BY <1>8, <2>1, <2>2 DEF Task, TaskOf, SettingsOf
    <3>2. QED
      BY <3>1, PerSetting
  <2>3. PICK n \in Nat : DOMAIN dirs[1] = 1 .. n
    BY <2>1
  <2>4. AllDistinct(table)
    BY <2>1 DEF AllDistinct, Distinct, Task
  <2> HIDE DEF row
  <2>5. table \in [1 .. n -> Seq(TaskOf(m))]
    BY <2>2, <2>3
  <2> HIDE DEF table
  <2>6. table \in Seq(Seq(TaskOf(m)))
    BY <2>3, <2>5, SeqDef
  <2>7. Distinct(FlattenSeq(table))
    BY <2>4, <2>6, FlatDistinct
  <2>8. GridTasks(dirs) = <<FlattenSeq(table)>>
    BY DEF GridTasks, row, table
  <2>9. QED
    BY <1>4, <1>8, <2>7, <2>8 DEF TaskLists
<1>9. CASE m = "bench"
  <2> DEFINE lists == [i \in DOMAIN Grid |-> Under(FlattenSeq(dirs), i)]
  <2>1. FlattenSeq(dirs) \in Seq(DOMAIN Packets)
    BY <1>1, Flattened
  <2>2. \A i \in DOMAIN Grid : Under(FlattenSeq(dirs), i) \in Seq(TaskOf(m))
    BY <1>9, <2>1, UnderType DEF SettingsOf
  <2>3. lists \in Seq(Seq(TaskOf(m)))
    BY <2>2, PerSetting
  <2>4. AllDistinct(lists)
    BY <1>2 DEF AllDistinct, Distinct, Under, Task
  <2>5. Distinct(FlattenSeq(lists))
    BY <2>3, <2>4, FlatDistinct
  <2>6. BenchTasks(dirs) = <<FlattenSeq(lists)>>
    BY DEF BenchTasks
  <2> HIDE DEF lists
  <2>7. QED
    BY <1>4, <1>9, <2>5, <2>6 DEF TaskLists
<1>10. QED
  BY <1>5, <1>6, <1>7, <1>8, <1>9 DEF Modes

-----------------------------------------------------------------------------
(* Rows and lines.                                                         *)

\* Every task of T has one row in R, and no other task has.
OneRowEach(R, T) ==
  /\ \A r \in R : r.task \in T
  /\ \A r, s \in R : r.task = s.task => r = s
  /\ \A t \in T : \E r \in R : r.task = t

LEMMA CountRows ==
  ASSUME NEW T, IsFiniteSet(T), NEW R, OneRowEach(R, T)
  PROVE  IsFiniteSet(R) /\ Cardinality(R) = Cardinality(T)
<1> DEFINE f == [r \in R |-> r.task]
<1>1. f \in Bijection(R, T)
  BY DEF OneRowEach, Bijection, Injection, Surjection, IsInjective
<1>2. f \in Injection(R, T) /\ f \in Surjection(R, T)
  BY <1>1 DEF Bijection
<1>3. QED
  BY <1>2, FS_Injection

\* As many rows as tasks, of those that something is true of.
LEMMA CountSome ==
  ASSUME NEW T, IsFiniteSet(T), NEW R, OneRowEach(R, T),
         NEW ts \in SUBSET T, NEW rs, rs = {r \in R : r.task \in ts}
  PROVE  IsFiniteSet(rs) /\ Cardinality(rs) = Cardinality(ts)
<1>1. OneRowEach(rs, ts)
  BY DEF OneRowEach
<1>2. IsFiniteSet(ts)
  BY FS_Subset
<1>3. QED
  BY <1>1, <1>2, CountRows

LEMMA CountMost ==
  ASSUME NEW T, IsFiniteSet(T), NEW R, OneRowEach(R, T),
         NEW rs \in SUBSET R, NEW ts \in SUBSET T, \A r \in rs : r.task \in ts
  PROVE  Cardinality(rs) <= Cardinality(ts)
<1> DEFINE f == [r \in rs |-> r.task]
<1>1. f \in Injection(rs, ts)
  BY DEF OneRowEach, Injection, IsInjective
<1>2. IsFiniteSet(ts)
  BY FS_Subset
<1>3. QED
  BY <1>1, <1>2, FS_Injection

LEMMA Halves ==
  ASSUME NEW S, IsFiniteSet(S), NEW A, NEW B, S = A \cup B, A \cap B = {}
  PROVE  /\ IsFiniteSet(A) /\ IsFiniteSet(B)
         /\ Cardinality(A) \in Nat /\ Cardinality(B) \in Nat
         /\ Cardinality(S) = Cardinality(A) + Cardinality(B)
<1>1. A \in SUBSET S /\ B \in SUBSET S
  OBVIOUS
<1>2. IsFiniteSet(A) /\ IsFiniteSet(B)
  BY <1>1, FS_Subset
<1>3. PICK a \in Nat, b \in Nat : a = Cardinality(A) /\ b = Cardinality(B)
  BY <1>2, FS_CardinalityType
<1>4. Cardinality(A \cap B) = 0
  BY FS_EmptySet, Zenon
<1>5. Cardinality(A \cup B)
        = Cardinality(A) + Cardinality(B) - Cardinality(A \cap B)
  BY <1>2, FS_Union, Zenon
<1>6. Cardinality(S) = a + b - 0
  BY <1>3, <1>4, <1>5, Zenon
<1>7. a + b - 0 = a + b
  OBVIOUS
<1>8. QED
  BY <1>2, <1>3, <1>6, <1>7, Zenon

\* The four numbers of a confusion matrix add up to the rows.
LEMMA ConfusionSum ==
  ASSUME NEW rs, IsFiniteSet(rs), \A r \in rs : r.gt \in BOOLEAN
  PROVE  Confusion(rs).tp + Confusion(rs).fp + Confusion(rs).fn + Confusion(rs).tn
           = Cardinality(rs)
<1> DEFINE tp == {r \in rs : r.gt = TRUE /\ (r.alert # NoAlert) = TRUE}
           fp == {r \in rs : r.gt = FALSE /\ (r.alert # NoAlert) = TRUE}
           fn == {r \in rs : r.gt = TRUE /\ (r.alert # NoAlert) = FALSE}
           tn == {r \in rs : r.gt = FALSE /\ (r.alert # NoAlert) = FALSE}
           pos == {r \in rs : r.gt = TRUE}
           neg == {r \in rs : r.gt = FALSE}
<1>1. rs = pos \cup neg /\ pos \cap neg = {}
  OBVIOUS
<1>2. pos = tp \cup fn /\ tp \cap fn = {}
  OBVIOUS
<1>3. neg = fp \cup tn /\ fp \cap tn = {}
  OBVIOUS
<1>4. /\ Confusion(rs).tp = Cardinality(tp) /\ Confusion(rs).fp = Cardinality(fp)
      /\ Confusion(rs).fn = Cardinality(fn) /\ Confusion(rs).tn = Cardinality(tn)
  BY DEF Confusion
<1> HIDE DEF tp, fp, fn, tn, pos, neg
<1>5. /\ IsFiniteSet(pos) /\ IsFiniteSet(neg)
      /\ Cardinality(rs) = Cardinality(pos) + Cardinality(neg)
  BY <1>1, Halves, Zenon
<1>6. /\ IsFiniteSet(tp) /\ IsFiniteSet(fn)
      /\ Cardinality(tp) \in Nat /\ Cardinality(fn) \in Nat
      /\ Cardinality(pos) = Cardinality(tp) + Cardinality(fn)
  <2>1. IsFiniteSet(pos)
    BY <1>5
  <2>2. QED
    BY <1>2, <2>1, Halves
<1>7. /\ IsFiniteSet(fp) /\ IsFiniteSet(tn)
      /\ Cardinality(fp) \in Nat /\ Cardinality(tn) \in Nat
      /\ Cardinality(neg) = Cardinality(fp) + Cardinality(tn)
  <2>1. IsFiniteSet(neg)
    BY <1>5
  <2>2. QED
    BY <1>3, <2>1, Halves
<1>8. PICK a \in Nat, b \in Nat, c \in Nat, d \in Nat :
        /\ a = Cardinality(tp) /\ b = Cardinality(fp)
        /\ c = Cardinality(fn) /\ d = Cardinality(tn)
  BY <1>6, <1>7
<1>9. Cardinality(rs) = (a + c) + (b + d)
  BY <1>5, <1>6, <1>7, <1>8, Zenon
<1>10. (a + c) + (b + d) = a + b + c + d
  OBVIOUS
<1>11. QED
  BY <1>4, <1>8, <1>9, <1>10, Zenon

LEMMA LineCounts ==
  ASSUME NEW i, NEW a, NEW rs, IsFiniteSet(rs), \A r \in rs : r.gt \in BOOLEAN,
         NEW e \in Nat
  PROVE  LET l == Line(i, a, rs, e)
         IN  /\ CountOf(l) = Cardinality(rs) + e /\ l.errors = e
             /\ l.adv = a /\ l.setting = i
<1> DEFINE c == Confusion(rs)
<1>1. /\ Line(i, a, rs, e).count = c /\ Line(i, a, rs, e).errors = e
      /\ Line(i, a, rs, e).adv = a /\ Line(i, a, rs, e).setting = i
  BY DEF Line
<1>2. c.tp + c.fp + c.fn + c.tn = Cardinality(rs)
  BY ConfusionSum
<1>3. QED
  BY <1>1, <1>2 DEF CountOf

\* What EveryFileCounted asks of the lines of a setting.
Settled(lines, i) ==
  \/ /\ \A t \in GivenUnder(i) : Countable(t) =>
          \E l \in lines : Covers(l, t) /\ \A m \in lines : Covers(m, t) => m = l
     /\ \A l \in lines :
          /\ CountOf(l) = Cardinality({t \in GivenUnder(i) : Covers(l, t)})
          /\ l.errors <= Cardinality({t \in GivenUnder(i) : MayFail(t)})
  \/ mode = "bench" /\ lines = {} /\ \A t \in GivenUnder(i) : MayFail(t)

\* The rows of a setting, when all of its tasks have been finished.
RowsSound(i) ==
  /\ IsFiniteSet(GivenUnder(i)) /\ OneRowEach(RowsUnder(i), GivenUnder(i))
  /\ \A t \in GivenUnder(i) : Name[t.file].adv \in Int
  /\ \A r \in RowsUnder(i) : r.gt \in BOOLEAN /\ (mode = "bench" /\ r.error => MayFail(r.task))

LEMMA Failing ==
  ASSUME NEW i, RowsSound(i)
  PROVE  Cardinality({t \in GivenUnder(i) : MayFail(t)}) \in Nat
<1>1. {t \in GivenUnder(i) : MayFail(t)} \in SUBSET GivenUnder(i)
  OBVIOUS
<1>2. IsFiniteSet({t \in GivenUnder(i) : MayFail(t)})
  BY <1>1, FS_Subset DEF RowsSound
<1>3. QED
  BY <1>2, FS_CardinalityType

LEMMA LineOfAll ==
  ASSUME NEW i, RowsSound(i)
  PROVE  LET l == Line(i, None, RowsUnder(i), 0)
         IN  /\ l.errors = 0 /\ l.setting = i
             /\ CountOf(l) = Cardinality({t \in GivenUnder(i) : Covers(l, t)})
             /\ \A t : Covers(l, t)
<1> DEFINE l == Line(i, None, RowsUnder(i), 0)
<1>1. IsFiniteSet(RowsUnder(i)) /\ Cardinality(RowsUnder(i)) = Cardinality(GivenUnder(i))
  BY CountRows DEF RowsSound
<1>2. /\ CountOf(l) = Cardinality(RowsUnder(i)) + 0 /\ l.errors = 0
      /\ l.adv = None /\ l.setting = i
  BY <1>1, LineCounts DEF RowsSound
<1>3. Cardinality(RowsUnder(i)) \in Nat
  BY <1>1, FS_CardinalityType
<1> HIDE DEF l
<1>4. \A t : Covers(l, t)
  BY <1>2 DEF Covers
<1>5. {t \in GivenUnder(i) : Covers(l, t)} = GivenUnder(i)
  BY <1>4
<1>6. CountOf(l) = Cardinality(GivenUnder(i))
  BY <1>1, <1>2, <1>3
<1>7. QED
  BY <1>2, <1>4, <1>5, <1>6 DEF l

LEMMA LineOfAdv ==
  ASSUME NEW i, RowsSound(i), NEW n \in Int
  PROVE  LET l == Line(i, n, ByAdv(RowsUnder(i), n), 0)
         IN  /\ l.errors = 0 /\ l.setting = i
             /\ CountOf(l) = Cardinality({t \in GivenUnder(i) : Covers(l, t)})
             /\ \A t \in GivenUnder(i) : Covers(l, t) <=> Name[t.file].adv = n
<1> DEFINE rs == ByAdv(RowsUnder(i), n)
           l == Line(i, n, rs, 0)
           ts == {t \in GivenUnder(i) : Name[t.file].adv = n}
<1>1. rs = {r \in RowsUnder(i) : r.task \in ts}
  BY DEF ByAdv, RowsSound, OneRowEach
<1>2. ts \in SUBSET GivenUnder(i)
  OBVIOUS
<1>3. \A r \in rs : r.gt \in BOOLEAN
  BY DEF ByAdv, RowsSound
<1> HIDE DEF rs, ts
<1>4. IsFiniteSet(rs) /\ Cardinality(rs) = Cardinality(ts)
  <2>1. IsFiniteSet(GivenUnder(i)) /\ OneRowEach(RowsUnder(i), GivenUnder(i))
    BY DEF RowsSound
  <2>2. QED
    BY <1>1, <1>2, <2>1, CountSome
<1>5. CountOf(l) = Cardinality(rs) + 0 /\ l.errors = 0 /\ l.adv = n /\ l.setting = i
  BY <1>3, <1>4, LineCounts
<1>6. Cardinality(rs) \in Nat
  BY <1>4, FS_CardinalityType
<1> HIDE DEF l
<1>7. n # None
  BY DetectAssumption
<1>8. \A t \in GivenUnder(i) : Covers(l, t) <=> Name[t.file].adv = n
  BY <1>5, <1>7 DEF Covers
<1>9. {t \in GivenUnder(i) : Covers(l, t)} = ts
  BY <1>8 DEF ts
<1>10. CountOf(l) = Cardinality(ts)
  BY <1>4, <1>5, <1>6
<1>11. QED
  BY <1>5, <1>8, <1>9, <1>10 DEF l, rs

\* One line for each number of a set that has those of all countable tasks.
LEMMA AdvLines ==
  ASSUME NEW i, RowsSound(i), NEW N \in SUBSET Int,
         \A t \in GivenUnder(i) : Countable(t) => Name[t.file].adv \in N
  PROVE  Settled({Line(i, n, ByAdv(RowsUnder(i), n), 0) : n \in N}, i)
<1> DEFINE line(n) == Line(i, n, ByAdv(RowsUnder(i), n), 0)
           lines == {line(n) : n \in N}
<1>1. \A n \in N : /\ line(n).errors = 0
                   /\ CountOf(line(n)) = Cardinality({t \in GivenUnder(i) : Covers(line(n), t)})
                   /\ \A t \in GivenUnder(i) : Covers(line(n), t) <=> Name[t.file].adv = n
  BY LineOfAdv
<1> HIDE DEF line
<1>2. ASSUME NEW t \in GivenUnder(i), Countable(t)
      PROVE  \E l \in lines : Covers(l, t) /\ \A m \in lines : Covers(m, t) => m = l
  <2>1. PICK n \in N : n = Name[t.file].adv
    BY <1>2
  <2>2. line(n) \in lines /\ Covers(line(n), t)
    BY <1>1, <2>1
  <2>3. ASSUME NEW m \in lines, Covers(m, t) PROVE m = line(n)
    <3>1. PICK k \in N : m = line(k)
      OBVIOUS
    <3>2. Name[t.file].adv = k
      BY <1>1, <2>3, <3>1
    <3>3. QED
      BY <2>1, <3>1, <3>2
  <2>4. QED
    BY <2>2, <2>3
<1>3. ASSUME NEW l \in lines
      PROVE  /\ CountOf(l) = Cardinality({t \in GivenUnder(i) : Covers(l, t)})
             /\ l.errors <= Cardinality({t \in GivenUnder(i) : MayFail(t)})
  <2>1. PICK n \in N : l = line(n)
    OBVIOUS
  <2>2. l.errors = 0
    BY <1>1, <2>1
  <2>3. CountOf(l) = Cardinality({t \in GivenUnder(i) : Covers(l, t)})
    BY <1>1, <2>1
  <2>4. QED
    BY <2>2, <2>3, Failing
<1>4. Settled(lines, i)
  BY <1>2, <1>3 DEF Settled
<1>5. QED
  BY <1>4 DEF line

LEMMA OneLine ==
  ASSUME NEW i, RowsSound(i)
  PROVE  Settled({Line(i, None, RowsUnder(i), 0)}, i)
<1> DEFINE l == Line(i, None, RowsUnder(i), 0)
<1>1. /\ l.errors = 0 /\ CountOf(l) = Cardinality({t \in GivenUnder(i) : Covers(l, t)})
      /\ \A t : Covers(l, t)
  BY LineOfAll
<1> HIDE DEF l
<1>2. 0 <= Cardinality({t \in GivenUnder(i) : MayFail(t)})
  BY Failing
<1>3. Settled({l}, i)
  BY <1>1, <1>2 DEF Settled
<1>4. QED
  BY <1>3 DEF l

LEMMA BenchSettled ==
  ASSUME NEW i, RowsSound(i), mode = "bench"
  PROVE  Settled(BenchLine(i), i)
<1> DEFINE R == RowsUnder(i)
           T == GivenUnder(i)
           good == {r \in R : ~r.error}
           failed == R \ good
           may == {t \in T : MayFail(t)}
<1>1. IsFiniteSet(T) /\ OneRowEach(R, T) /\ IsFiniteSet(R) /\ Cardinality(R) = Cardinality(T)
  BY CountRows DEF RowsSound
<1>2. \A r \in failed : MayFail(r.task) /\ r.task \in may
  BY DEF RowsSound, OneRowEach
<1>3. R = good \cup failed /\ good \cap failed = {} /\ failed \in SUBSET R /\ may \in SUBSET T
  OBVIOUS
<1>4. \A r \in good : r.gt \in BOOLEAN
  BY DEF RowsSound
<1>5. BenchLine(i) = IF good = {} THEN {} ELSE {Line(i, None, good, Cardinality(failed))}
  BY DEF BenchLine
<1>6. good = {} => \A t \in T : MayFail(t)
  BY <1>1, <1>2, <1>3 DEF OneRowEach
<1> HIDE DEF good, failed, may, R, T
<1>7. /\ IsFiniteSet(good) /\ IsFiniteSet(failed)
      /\ Cardinality(good) \in Nat /\ Cardinality(failed) \in Nat
      /\ Cardinality(R) = Cardinality(good) + Cardinality(failed)
  <2>1. IsFiniteSet(R)
    BY <1>1
  <2>2. QED
    BY <1>3, <2>1, Halves
<1>8. Cardinality(failed) <= Cardinality(may)
  <2>1. \A r \in failed : r.task \in may
    BY <1>2
  <2>2. QED
    BY <1>1, <1>3, <2>1, CountMost
<1> DEFINE l == Line(i, None, good, Cardinality(failed))
<1>9. /\ CountOf(l) = Cardinality(good) + Cardinality(failed)
      /\ l.errors = Cardinality(failed) /\ l.adv = None
  BY <1>4, <1>7, LineCounts
<1> HIDE DEF l
<1>10. \A t : Covers(l, t)
  BY <1>9 DEF Covers
<1>11. {t \in T : Covers(l, t)} = T
  BY <1>10
<1>12. CountOf(l) = Cardinality({t \in T : Covers(l, t)})
  BY <1>1, <1>7, <1>9, <1>11, Zenon
<1>13. l.errors <= Cardinality(may)
  BY <1>8, <1>9
<1>14. CASE good = {}
  BY <1>5, <1>6, <1>14 DEF Settled, T
<1>15. CASE good # {}
  <2>1. BenchLine(i) = {l}
    BY <1>5, <1>15 DEF l
  <2>2. Settled({l}, i)
    BY <1>10, <1>12, <1>13 DEF Settled, T, may
  <2>3. QED
    BY <2>1, <2>2
<1>16. QED
  BY <1>14, <1>15

LEMMA LinesSettled ==
  ASSUME mode \in Modes, NEW i, RowsSound(i)
  PROVE  Settled(LinesUnder(i), i) /\ \A l \in LinesUnder(i) : l.setting = i
<1>0. \A l \in LinesUnder(i) : l.setting = i
  BY DEF LinesUnder, PlainLine, MultiLines, GridLines, BenchLine, Line, Modes
<1>1. CASE mode \in {"batch", "sweep"}
  BY <1>0, <1>1, OneLine DEF LinesUnder, PlainLine
<1>2. CASE mode = "multi"
  <2> DEFINE N == {Name[r.task.file].adv : r \in RowsUnder(i)}
  <2>1. N \in SUBSET Int
    BY DEF RowsSound, OneRowEach
  <2>2. \A t \in GivenUnder(i) : Name[t.file].adv \in N
    BY DEF RowsSound, OneRowEach
  <2>3. LinesUnder(i) = {Line(i, n, ByAdv(RowsUnder(i), n), 0) : n \in N}
    BY <1>2 DEF LinesUnder, MultiLines
  <2> HIDE DEF N
  <2>4. QED
    BY <1>0, <2>1, <2>2, <2>3, AdvLines
<1>3. CASE mode = "grid"
  <2>1. \A t \in GivenUnder(i) : Countable(t) => Name[t.file].adv \in {0, 1}
    BY <1>3 DEF Countable
  <2>2. LinesUnder(i) = {Line(i, n, ByAdv(RowsUnder(i), n), 0) : n \in {0, 1}}
    BY <1>3 DEF LinesUnder, GridLines
  <2>3. {0, 1} \in SUBSET Int
    OBVIOUS
  <2>4. QED
    BY <1>0, <2>1, <2>2, <2>3, AdvLines
<1>4. CASE mode = "bench"
  BY <1>0, <1>4, BenchSettled DEF LinesUnder
<1>5. QED
  BY <1>1, <1>2, <1>3, <1>4 DEF Modes

-----------------------------------------------------------------------------
(* The tasks given out, those at hand, and the rows and lines made of them. *)

Lists == TaskLists(mode, folders)

\* What is left of a list of which n elements are taken.
Remaining(L, n) == [j \in 1 .. Len(L) - n |-> L[n + j]]

\* Where the lists are: the nth is being worked on, and of it g tasks have
\* been taken.
At(n, g) ==
  /\ n \in 1 .. Len(Lists) /\ g \in 0 .. Len(Lists[n])
  /\ batches = Remaining(Lists, n) /\ tasks = Remaining(Lists[n], g)

\* Each task of T is at one worker, or has one row.
InHand(T) ==
  /\ \A w \in Worker : job[w] # None => job[w] \in T
  /\ \A v, w \in Worker : job[v] # None /\ job[v] = job[w] => v = w
  /\ \A r \in rows : r.task \in T /\ \A w \in Worker : job[w] # r.task
  /\ \A r, s \in rows : r.task = s.task => r = s
  /\ \A t \in T : (\E w \in Worker : job[w] = t) \/ \E r \in rows : r.task = t

\* Only a missing CFO makes block_benchmark leave a file out.
OnlyCfoFails ==
  mode = "bench" =>
    /\ \A w \in Worker : job[w] # None /\ scan[w].error => MayFail(job[w])
    /\ \A r \in rows : r.error => MayFail(r.task)

\* The lines of a report are those of the first p lists.
Lined(rep, p) ==
  /\ \A l \in rep : \E j \in 1 .. p : \E x \in DOMAIN Lists[j] :
       l.setting = Lists[j][x].setting
  /\ \A j \in 1 .. p : \A x \in DOMAIN Lists[j] :
       LET i == Lists[j][x].setting IN Settled({l \in rep : l.setting = i}, i)

Accounted ==
  /\ mode = None => ended = "no"
  /\ mode # None => folders \in Inputs
  /\ mode # None /\ ended # "aborted" =>
       /\ OnlyCfoFails
       /\ \E n \in Nat, g \in Nat :
            /\ At(n, g) /\ InHand({Lists[n][x] : x \in 1 .. g})
            /\ Lined(report, IF ended = "ok" THEN n ELSE n - 1)
            /\ ended = "ok" => batches = <<>>

LEMMA ListFacts ==
  ASSUME mode \in Modes, folders \in Inputs
  PROVE  /\ SoundLists(Lists) /\ Len(Lists) \in Nat \ {0} /\ DOMAIN Lists = 1 .. Len(Lists)
         /\ Lists \in Seq(Seq(TaskOf(mode)))
         /\ \A j \in 1 .. Len(Lists) :
              /\ Len(Lists[j]) \in Nat /\ DOMAIN Lists[j] = 1 .. Len(Lists[j])
              /\ \A x \in 1 .. Len(Lists[j]) : /\ Lists[j][x] \in TaskOf(mode)
                                               /\ Lists[j][x] # None
<1>1. PICK L \in Seq(Seq(TaskOf(mode))) : L = Lists /\ L # <<>>
  BY TaskListType DEF Lists
<1>2. SoundLists(L)
  BY <1>1, TaskListsSound DEF Lists
<1>3. Len(L) \in Nat \ {0} /\ DOMAIN L = 1 .. Len(L)
  BY <1>1
<1>4. \A j \in 1 .. Len(L) : L[j] \in Seq(TaskOf(mode))
  BY <1>1
<1>5. None \notin TaskOf(mode)
  <2>1. SettingsOf(mode) \subseteq Int
    BY GridFacts DEF SettingsOf
  <2>2. QED
    BY <2>1, DetectAssumption DEF TaskOf
<1>6. \A j \in 1 .. Len(L) :
        /\ Len(L[j]) \in Nat /\ DOMAIN L[j] = 1 .. Len(L[j])
        /\ \A x \in 1 .. Len(L[j]) : L[j][x] \in TaskOf(mode)
  BY <1>4
<1>7. QED
  BY <1>1, <1>2, <1>3, <1>5, <1>6

LEMMA GivenFacts ==
  ASSUME mode \in Modes, folders \in Inputs,
         NEW n \in 1 .. Len(Lists), NEW y \in DOMAIN Lists[n]
  PROVE  /\ GivenUnder(Lists[n][y].setting)
              = {t \in {Lists[n][x] : x \in DOMAIN Lists[n]} :
                   t.setting = Lists[n][y].setting}
         /\ IsFiniteSet(GivenUnder(Lists[n][y].setting))
<1>1. DOMAIN Lists = 1 .. Len(Lists) /\ SoundLists(Lists)
  BY ListFacts
<1>2. Given = UNION {{Lists[k][j] : j \in DOMAIN Lists[k]} : k \in DOMAIN Lists}
  BY DEF Given, Lists
<1> DEFINE i == Lists[n][y].setting
           T == {Lists[n][x] : x \in DOMAIN Lists[n]}
<1>3. GivenUnder(i) \subseteq {t \in T : t.setting = i}
  BY <1>1, <1>2 DEF GivenUnder, SoundLists
<1>4. {t \in T : t.setting = i} \subseteq GivenUnder(i)
  BY <1>1, <1>2 DEF GivenUnder
<1>5. IsFiniteSet(T)
  <2>1. PICK m \in Nat : DOMAIN Lists[n] = 1 .. m
    BY ListFacts
  <2>2. IsFiniteSet(1 .. m)
    BY FS_Interval
  <2> DEFINE f == [x \in 1 .. m |-> Lists[n][x]]
  <2>3. f \in Surjection(1 .. m, T)
    BY <2>1 DEF Surjection
  <2>4. QED
    BY <2>2, <2>3, FS_Surjection
<1>6. {t \in T : t.setting = i} \in SUBSET T
  OBVIOUS
<1>7. IsFiniteSet({t \in T : t.setting = i})
  BY <1>5, <1>6, FS_Subset
<1>8. GivenUnder(i) = {t \in T : t.setting = i}
  BY <1>3, <1>4
<1>9. QED
  BY <1>7, <1>8

\* When a list is done, the lines that are added settle its settings, and
\* those of the lists before are as they were.
LEMMA LinesAdded ==
  ASSUME mode \in Modes, folders \in Inputs, NEW n \in 1 .. Len(Lists),
         OneRowEach(rows, {Lists[n][x] : x \in DOMAIN Lists[n]}),
         \A r \in rows : r.gt \in BOOLEAN, OnlyCfoFails, Lined(report, n - 1)
  PROVE  Lined(report \cup AllLines, n)
<1> DEFINE T == {Lists[n][x] : x \in DOMAIN Lists[n]}
           next == report \cup AllLines
<1>1. /\ SoundLists(Lists) /\ DOMAIN Lists = 1 .. Len(Lists) /\ n \in Nat
      /\ \A x \in DOMAIN Lists[n] : Lists[n][x] \in TaskOf(mode)
  BY ListFacts
<1>2. ASSUME NEW y \in DOMAIN Lists[n]
      PROVE  RowsSound(Lists[n][y].setting)
  <2> DEFINE i == Lists[n][y].setting
  <2>1. GivenUnder(i) = {t \in T : t.setting = i} /\ IsFiniteSet(GivenUnder(i))
    BY <1>2, GivenFacts
  <2>2. RowsUnder(i) = {r \in rows : r.task.setting = i}
    BY DEF RowsUnder
  <2>3. OneRowEach(RowsUnder(i), GivenUnder(i))
    BY <2>1, <2>2 DEF OneRowEach
  <2>4. \A t \in GivenUnder(i) : Name[t.file].adv \in Int
    <3>1. \A t \in GivenUnder(i) : t.file \in DOMAIN Packets
      BY <1>1, <2>1 DEF TaskOf
    <3>2. QED
      BY <3>1, DetectAssumption
  <2>5. \A r \in RowsUnder(i) : r.gt \in BOOLEAN /\ (mode = "bench" /\ r.error => MayFail(r.task))
    BY <2>2 DEF OnlyCfoFails
  <2>6. QED
    BY <2>1, <2>3, <2>4, <2>5 DEF RowsSound
<1>3. \A y \in DOMAIN Lists[n] :
        LET i == Lists[n][y].setting
        IN  Settled(LinesUnder(i), i) /\ \A l \in LinesUnder(i) : l.setting = i
  BY <1>2, LinesSettled
<1>4. \A r \in rows : \E y \in DOMAIN Lists[n] : r.task = Lists[n][y]
  BY DEF OneRowEach
<1>5. \A l \in AllLines : \E y \in DOMAIN Lists[n] :
        l.setting = Lists[n][y].setting /\ l \in LinesUnder(l.setting)
  BY <1>3, <1>4 DEF AllLines
<1>6. \A y \in DOMAIN Lists[n] : LinesUnder(Lists[n][y].setting) \subseteq AllLines
  <2>1. \A y \in DOMAIN Lists[n] : \E r \in rows : r.task = Lists[n][y]
    BY DEF OneRowEach
  <2>2. QED
    BY <2>1 DEF AllLines
<1>7. ASSUME NEW j \in 1 .. n, NEW x \in DOMAIN Lists[j]
      PROVE  Settled({l \in next : l.setting = Lists[j][x].setting}, Lists[j][x].setting)
  <2> DEFINE i == Lists[j][x].setting
  <2>1. CASE j = n
    <3>1. \A l \in report : l.setting # i
      <4>1. SUFFICES ASSUME NEW l \in report, l.setting = i PROVE FALSE
        OBVIOUS
      <4>2. PICK k \in 1 .. n - 1 : \E z \in DOMAIN Lists[k] : l.setting = Lists[k][z].setting
        BY DEF Lined
      <4>3. k \in DOMAIN Lists /\ n \in DOMAIN Lists /\ k # n
        BY <1>1
      <4>4. QED
        BY <1>1, <2>1, <4>1, <4>2, <4>3 DEF SoundLists
    <3>2. {l \in next : l.setting = i} = LinesUnder(i)
      BY <1>3, <1>5, <1>6, <2>1, <3>1
    <3>3. QED
      BY <1>3, <2>1, <3>2
  <2>2. CASE j # n
    <3>1. j \in 1 .. n - 1 /\ j \in DOMAIN Lists /\ n \in DOMAIN Lists
      BY <1>1, <2>2
    <3>2. \A l \in AllLines : l.setting # i
      BY <1>1, <1>5, <2>2, <3>1 DEF SoundLists
    <3>3. {l \in next : l.setting = i} = {l \in report : l.setting = i}
      BY <3>2
    <3>4. Settled({l \in report : l.setting = i}, i)
      BY <3>1 DEF Lined
    <3>5. QED
      BY <3>3, <3>4
  <2>3. QED
    BY <2>1, <2>2
<1>8. ASSUME NEW l \in next
      PROVE  \E j \in 1 .. n : \E x \in DOMAIN Lists[j] : l.setting = Lists[j][x].setting
  <2>1. 1 .. n - 1 \subseteq 1 .. n /\ n \in 1 .. n
    BY <1>1
  <2>2. CASE l \in report
    BY <2>1, <2>2 DEF Lined
  <2>3. CASE l \in AllLines
    BY <1>5, <2>1, <2>3
  <2>4. QED
    BY <2>2, <2>3
<1>9. QED
  BY <1>7, <1>8 DEF Lined

LEMMA LinedKept ==
  ASSUME mode' = mode, folders' = folders, NEW p, Lined(report', p)
  PROVE  Lined(report, p)'
<1>1. Lists' = Lists /\ Given' = Given
  BY DEF Lists, Given
<1>2. /\ \A i : GivenUnder(i)' = GivenUnder(i)
      /\ \A t : Countable(t)' = Countable(t) /\ MayFail(t)' = MayFail(t)
      /\ \A l, t : Covers(l, t)' = Covers(l, t)
  BY <1>1 DEF GivenUnder, Countable, MayFail, Covers
<1>3. QED
  BY <1>1, <1>2 DEF Lined, Settled

\* All tasks of a list are taken, and no worker is at one: each has its row.
LEMMA AllHaveRows ==
  ASSUME mode \in Modes, folders \in Inputs, NEW n \in Nat, NEW g \in Nat, At(n, g),
         InHand({Lists[n][x] : x \in 1 .. g}), ListDone
  PROVE  /\ g = Len(Lists[n])
         /\ OneRowEach(rows, {Lists[n][x] : x \in DOMAIN Lists[n]})
<1>1. PICK m \in Nat : /\ m = Len(Lists[n]) /\ DOMAIN Lists[n] = 1 .. m
                       /\ \A x \in 1 .. m : Lists[n][x] # None
  BY ListFacts DEF At
<1>2. g = m
  <2>1. tasks = [j \in 1 .. m - g |-> Lists[n][g + j]] /\ tasks = <<>> /\ g <= m
    BY <1>1 DEF At, Remaining, ListDone
  <2>2. SUFFICES ASSUME g # m PROVE FALSE
    OBVIOUS
  <2>3. 1 \in 1 .. m - g
    BY <2>1, <2>2
  <2>4. 1 \in DOMAIN tasks
    BY <2>1, <2>3
  <2>5. QED
    BY <2>1, <2>4
<1>3. \A t \in {Lists[n][x] : x \in 1 .. g} : \E r \in rows : r.task = t
  <2>1. ASSUME NEW x \in 1 .. g PROVE \E r \in rows : r.task = Lists[n][x]
    <3>1. Lists[n][x] # None
      BY <1>1, <1>2
    <3>2. ~ \E w \in Worker : job[w] = Lists[n][x]
      BY <3>1 DEF ListDone
    <3>3. QED
      BY <3>2 DEF InHand
  <2>2. QED
    BY <2>1
<1>4. QED
  BY <1>1, <1>2, <1>3 DEF InHand, OneRowEach

LEMMA GtBoolean ==
  ASSUME IInv
  PROVE  \A r \in rows : r.gt \in BOOLEAN
<1>1. \A f : GtPos(f) \in BOOLEAN
  BY DEF GtPos
<1>2. QED
  BY <1>1 DEF IInv, RowOk

LEMMA TailIs ==
  ASSUME NEW S, NEW L \in Seq(S), L # <<>>
  PROVE  Tail(L) = [j \in 1 .. Len(L) - 1 |-> L[1 + j]]
<1>1. PICK u \in Seq(S) : /\ u = Tail(L) /\ Len(u) = Len(L) - 1
                          /\ \A j \in 1 .. Len(u) : u[j] = L[j + 1]
  BY HeadTailProperties
<1>2. u = [j \in 1 .. Len(u) |-> u[j]]
  OBVIOUS
<1>3. \A j \in 1 .. Len(u) : u[j] = L[1 + j]
  BY <1>1
<1>4. QED
  BY <1>1, <1>2, <1>3

LEMMA LaunchAccounted ==
  ASSUME IInv, Accounted, Launch
  PROVE  Accounted'
<1>1. PICK m \in Modes, d \in Inputs : m = mode' /\ d = folders' /\ m # None
  BY DetectAssumption DEF Launch
<1>2. /\ ended = "no" /\ ended' = "no" /\ report' = {} /\ rows' = {}
      /\ job' = [w \in Worker |-> None]
  BY DEF Launch, Accounted, IInv, Typed, Idle
<1>3. PICK L \in Seq(Seq(TaskOf(m))) : L = Lists' /\ L # <<>>
  BY <1>1, TaskListType DEF Lists
<1>4. batches' = Tail(L) /\ tasks' = Head(L)
  BY <1>3 DEF Launch, Lists
<1>5. PICK k \in Nat \ {0} : k = Len(L)
  BY <1>3
<1>6. L[1] \in Seq(TaskOf(m))
  BY <1>3, <1>5
<1>7. At(1, 0)'
  <2>1. Tail(L) = [j \in 1 .. Len(L) - 1 |-> L[1 + j]]
    BY <1>3, TailIs
  <2>2. Head(L) = [j \in 1 .. Len(L[1]) - 0 |-> L[1][0 + j]]
    <3>1. PICK h \in Seq(TaskOf(m)), z \in Nat : h = L[1] /\ z = Len(h) /\ h = Head(L)
      BY <1>3, <1>6
    <3>2. h = [j \in 1 .. z |-> h[j]] /\ z - 0 = z /\ \A j \in 1 .. z : 0 + j = j
      BY <3>1
    <3>3. QED
      BY <3>1, <3>2
  <2>3. 1 \in 1 .. Len(L) /\ 0 \in 0 .. Len(L[1])
    BY <1>5, <1>6
  <2>4. QED
    BY <1>3, <1>4, <2>1, <2>2, <2>3 DEF At, Remaining
<1>8. InHand({Lists[1][x] : x \in 1 .. 0})'
  BY <1>2 DEF InHand
<1>9. Lined(report, 1 - 1)'
  BY <1>2 DEF Lined
<1>10. OnlyCfoFails'
  BY <1>2 DEF OnlyCfoFails
<1>11. \E n \in Nat, g \in Nat :
         /\ At(n, g)' /\ InHand({Lists[n][x] : x \in 1 .. g})'
         /\ Lined(report, IF ended = "ok" THEN n ELSE n - 1)'
         /\ ended' = "ok" => batches' = <<>>
  <2>1. Lined(report, IF ended = "ok" THEN 1 ELSE 1 - 1)'
    BY <1>2, <1>9
  <2>2. WITNESS 1 \in Nat, 0 \in Nat
  <2>3. QED
    BY <1>2, <1>7, <1>8, <2>1
<1>12. QED
  BY <1>1, <1>2, <1>10, <1>11 DEF Accounted

LEMMA RestIs ==
  ASSUME NEW S, NEW L \in Seq(S), NEW n \in 0 .. Len(L)
  PROVE  /\ Remaining(L, n) = <<>> => n = Len(L)
         /\ Remaining(L, n) # <<>> =>
              /\ n + 1 \in 1 .. Len(L) /\ Head(Remaining(L, n)) = L[n + 1]
              /\ Tail(Remaining(L, n)) = Remaining(L, n + 1)
<1> DEFINE c == Remaining(L, n)
<1>1. PICK k \in Nat, z \in Nat : k = Len(L) /\ z = k - n /\ n \in Nat /\ n <= k
  OBVIOUS
<1>2. \A j \in 1 .. z : n + j \in 1 .. k
  BY <1>1
<1>3. \A j \in 1 .. k : L[j] \in S
  BY <1>1
<1>4. c = [j \in 1 .. z |-> L[n + j]] /\ \A j \in 1 .. z : L[n + j] \in S
  BY <1>1, <1>2, <1>3 DEF Remaining
<1> HIDE DEF c
<1>5. c \in Seq(S) /\ Len(c) = z
  <2>1. c \in [1 .. z -> S]
    BY <1>4
  <2>2. QED
    BY <1>4, <2>1, SeqDef
<1>6. c = <<>> => z = 0
  BY <1>5
<1>7. ASSUME c # <<>>
      PROVE  /\ n + 1 \in 1 .. k /\ Head(c) = L[n + 1]
             /\ Tail(c) = Remaining(L, n + 1)
  <2>1. z # 0
    BY <1>5, <1>7
  <2>2. Head(c) = c[1] /\ 1 \in 1 .. z /\ n + 1 \in 1 .. k
    BY <1>1, <1>5, <1>7, <2>1
  <2>3. Tail(c) = [j \in 1 .. z - 1 |-> c[1 + j]]
    BY <1>5, <1>7, TailIs
  <2>4. PICK y \in Nat : y = z - 1 /\ y = k - (n + 1)
    <3>1. z - 1 \in Nat /\ z - 1 = k - (n + 1)
      BY <1>1, <2>1
    <3>2. QED
      BY <3>1
  <2>5. ASSUME NEW j \in 1 .. y PROVE c[1 + j] = L[(n + 1) + j]
    <3>1. 1 + j \in 1 .. z /\ n + (1 + j) = (n + 1) + j
      BY <1>1, <2>1, <2>4
    <3>2. QED
      BY <1>4, <3>1
  <2>6. Tail(c) = [j \in 1 .. y |-> L[(n + 1) + j]]
    BY <2>3, <2>4, <2>5
  <2>7. QED
    BY <1>1, <1>4, <2>2, <2>4, <2>6 DEF Remaining
<1>8. QED
  BY <1>1, <1>6, <1>7 DEF c

LEMMA NextListAccounted ==
  ASSUME IInv, Accounted, NextList
  PROVE  Accounted'
<1>1. /\ mode \in Modes /\ mode # None /\ mode' = mode /\ folders' = folders
      /\ folders \in Inputs /\ ended = "no" /\ ended' = "no" /\ ListDone /\ batches # <<>>
  BY DEF NextList, asked, IInv, Typed, Accounted
<1>2. PICK n \in Nat, g \in Nat : /\ At(n, g) /\ InHand({Lists[n][x] : x \in 1 .. g})
                                  /\ Lined(report, n - 1)
  BY <1>1 DEF Accounted
<1>3. OneRowEach(rows, {Lists[n][x] : x \in DOMAIN Lists[n]})
  BY <1>1, <1>2, AllHaveRows
<1>4. OnlyCfoFails
  BY <1>1 DEF Accounted
<1>5. Lined(report \cup AllLines, n)
  BY <1>1, <1>2, <1>3, <1>4, LinesAdded, GtBoolean DEF At
<1>6. Lined(report, n)'
  BY <1>1, <1>5, LinedKept DEF NextList
<1>7. PICK L \in Seq(Seq(TaskOf(mode))), k \in Nat : L = Lists /\ k = Len(L) /\ Lists' = L
  BY <1>1, ListFacts DEF Lists
<1>8. batches = Remaining(L, n) /\ n \in 1 .. k
  BY <1>2, <1>7 DEF At
<1>9. n + 1 \in 1 .. k /\ Head(batches) = L[n + 1] /\ Tail(batches) = Remaining(L, n + 1)
  <2>1. n \in 0 .. Len(L)
    BY <1>7, <1>8
  <2>2. QED
    BY <1>1, <1>7, <1>8, <2>1, RestIs
<1>10. At(n + 1, 0)'
  <2>1. L[n + 1] = Remaining(L[n + 1], 0) /\ 0 \in 0 .. Len(L[n + 1])
    <3>1. PICK h \in Seq(TaskOf(mode)), z \in Nat : h = L[n + 1] /\ z = Len(h)
      BY <1>7, <1>9
    <3>2. h = [j \in 1 .. z |-> h[j]] /\ z - 0 = z /\ \A j \in 1 .. z : 0 + j = j
      BY <3>1
    <3>3. QED
      BY <3>1, <3>2 DEF Remaining
  <2>2. batches' = Tail(batches) /\ tasks' = Head(batches)
    BY DEF NextList
  <2>3. QED
    BY <1>7, <1>9, <2>1, <2>2 DEF At
<1>11. InHand({Lists[n + 1][x] : x \in 1 .. 0})'
  <2>1. rows' = {} /\ job' = job /\ \A w \in Worker : job[w] = None
    BY <1>1 DEF NextList, ListDone
  <2>2. QED
    BY <2>1 DEF InHand
<1>12. OnlyCfoFails'
  BY <1>1, <1>4 DEF OnlyCfoFails, NextList, ListDone
<1>13. (n + 1) - 1 = n
  OBVIOUS
<1>14. \E m \in Nat, h \in Nat :
         /\ At(m, h)' /\ InHand({Lists[m][x] : x \in 1 .. h})'
         /\ Lined(report, IF ended = "ok" THEN m ELSE m - 1)'
         /\ ended' = "ok" => batches' = <<>>
  <2>1. Lined(report, IF ended = "ok" THEN n + 1 ELSE (n + 1) - 1)'
    BY <1>1, <1>6, <1>13
  <2>2. WITNESS n + 1 \in Nat, 0 \in Nat
  <2>3. QED
    BY <1>1, <1>10, <1>11, <2>1
<1>15. QED
  BY <1>1, <1>12, <1>14 DEF Accounted

LEMMA WriteReportAccounted ==
  ASSUME IInv, Accounted, WriteReport
  PROVE  Accounted'
<1>1. /\ mode \in Modes /\ mode # None /\ mode' = mode /\ folders' = folders
      /\ folders \in Inputs /\ ended = "no" /\ ended' = "ok" /\ ListDone /\ batches = <<>>
      /\ UNCHANGED <<batches, tasks, job, scan, rows>>
  BY DEF WriteReport, asked, IInv, Typed, Accounted
<1>2. PICK n \in Nat, g \in Nat : /\ At(n, g) /\ InHand({Lists[n][x] : x \in 1 .. g})
                                  /\ Lined(report, n - 1)
  BY <1>1 DEF Accounted
<1>3. OneRowEach(rows, {Lists[n][x] : x \in DOMAIN Lists[n]})
  BY <1>1, <1>2, AllHaveRows
<1>4. OnlyCfoFails
  BY <1>1 DEF Accounted
<1>5. Lined(report \cup AllLines, n)
  BY <1>1, <1>2, <1>3, <1>4, LinesAdded, GtBoolean DEF At
<1>6. Lined(report, n)'
  BY <1>1, <1>5, LinedKept DEF WriteReport
<1>7. Lists' = Lists
  BY <1>1 DEF Lists
<1>8. At(n, g)' /\ InHand({Lists[n][x] : x \in 1 .. g})'
  <2>1. At(n, g)'
    BY <1>1, <1>2, <1>7 DEF At
  <2>2. {Lists[n][x] : x \in 1 .. g}' = {Lists[n][x] : x \in 1 .. g}
    BY <1>7
  <2>3. InHand({Lists[n][x] : x \in 1 .. g})'
    BY <1>1, <1>2, <2>2 DEF InHand
  <2>4. QED
    BY <2>1, <2>3
<1>9. OnlyCfoFails'
  BY <1>1, <1>4 DEF OnlyCfoFails, MayFail
<1>10. Lined(report, IF ended = "ok" THEN n ELSE n - 1)'
  BY <1>1, <1>6
<1>11. QED
  BY <1>1, <1>8, <1>9, <1>10 DEF Accounted

\* What the actions of a worker leave alone, and what they start from.
LEMMA AtWork ==
  ASSUME IInv, Accounted, NEW w \in Worker, Take(w) \/ Block(w) \/ Finish(w)
  PROVE  /\ mode \in Modes /\ mode # None /\ mode' = mode /\ folders' = folders
         /\ folders \in Inputs /\ ended = "no" /\ ended' = "no" /\ OnlyCfoFails
         /\ batches' = batches /\ report' = report /\ Lists' = Lists
         /\ \E n \in Nat, g \in Nat : /\ At(n, g) /\ InHand({Lists[n][x] : x \in 1 .. g})
                                      /\ Lined(report, n - 1)
<1>1. mode \in Modes /\ mode # None
  BY Working
<1>2. /\ mode' = mode /\ folders' = folders /\ ended = "no" /\ ended' = "no"
      /\ batches' = batches /\ report' = report
  BY DEF Take, Block, Finish, asked
<1>3. QED
  BY <1>1, <1>2 DEF Accounted, Lists

\* It is enough to say where the lists are and what is at hand.
LEMMA StillAccounted ==
  ASSUME IInv, Accounted, NEW w \in Worker, Take(w) \/ Block(w) \/ Finish(w),
         NEW n \in Nat, NEW g \in Nat, Lined(report, n - 1), OnlyCfoFails',
         At(n, g)', InHand({Lists[n][x] : x \in 1 .. g})'
  PROVE  Accounted'
<1>1. /\ mode # None /\ mode' = mode /\ folders' = folders /\ folders \in Inputs
      /\ ended' = "no" /\ report' = report
  BY AtWork
<1>2. Lined(report, n - 1)'
  BY <1>1, LinedKept
<1>3. Lined(report, IF ended = "ok" THEN n ELSE n - 1)'
  BY <1>1, <1>2
<1>4. QED
  BY <1>1, <1>3 DEF Accounted

LEMMA TakeAccounted ==
  ASSUME IInv, Accounted, NEW w \in Worker, Take(w)
  PROVE  Accounted'
<1>1. /\ mode \in Modes /\ mode' = mode /\ folders \in Inputs /\ OnlyCfoFails
      /\ batches' = batches /\ Lists' = Lists
  BY AtWork
<1>2. PICK n \in Nat, g \in Nat : /\ At(n, g) /\ InHand({Lists[n][x] : x \in 1 .. g})
                                  /\ Lined(report, n - 1)
  BY AtWork
<1>3. PICK s \in Seq(TaskOf(mode)), m \in Nat :
        /\ s = Lists[n] /\ m = Len(s) /\ Distinct(s) /\ DOMAIN s = 1 .. m
        /\ \A x \in 1 .. m : s[x] # None
  <2>1. n \in DOMAIN Lists /\ SoundLists(Lists) /\ Lists \in Seq(Seq(TaskOf(mode)))
    BY <1>1, <1>2, ListFacts DEF At
  <2>2. \A x \in 1 .. Len(Lists[n]) : Lists[n][x] # None
    BY <1>1, <1>2, ListFacts DEF At
  <2>3. QED
    BY <2>1, <2>2 DEF SoundLists
<1>4. /\ tasks = Remaining(s, g) /\ tasks # <<>> /\ g <= m
      /\ tasks' = Tail(tasks) /\ rows' = rows
      /\ job' = [job EXCEPT ![w] = Head(tasks)] /\ job[w] = None
      /\ scan' = [scan EXCEPT ![w] = StartOf(Head(tasks).file)]
      /\ DOMAIN job = Worker /\ DOMAIN scan = Worker
  BY <1>2, <1>3 DEF Take, At, IInv, Typed
<1>5. g + 1 \in 1 .. m /\ Head(tasks) = s[g + 1] /\ Tail(tasks) = Remaining(s, g + 1)
  <2>1. g \in 0 .. Len(s)
    BY <1>3, <1>4
  <2>2. QED
    BY <1>3, <1>4, <2>1, RestIs
<1>6. At(n, g + 1)'
  <2>1. n \in 1 .. Len(Lists)' /\ batches' = Remaining(Lists', n)
    BY <1>1, <1>2 DEF At
  <2>2. g + 1 \in 0 .. m /\ tasks' = Remaining(s, g + 1)
    BY <1>4, <1>5
  <2>3. s = Lists'[n] /\ m = Len(Lists'[n])
    BY <1>1, <1>3
  <2>4. QED
    BY <2>1, <2>2, <2>3 DEF At
<1> DEFINE t == s[g + 1]
           T == {Lists[n][x] : x \in 1 .. g}
           U == {Lists[n][x] : x \in 1 .. g + 1}
<1>7. U = T \cup {t} /\ t \notin T /\ t # None
  <2>1. 1 .. g + 1 = 1 .. g \cup {g + 1} /\ g + 1 \notin 1 .. g /\ 1 .. g \subseteq 1 .. m
    BY <1>5
  <2>2. U = T \cup {t}
    BY <1>3, <2>1
  <2>3. t \notin T
    <3>1. SUFFICES ASSUME NEW x \in 1 .. g, s[x] = s[g + 1] PROVE FALSE
      BY <1>3
    <3>2. x \in DOMAIN s /\ g + 1 \in DOMAIN s /\ x # g + 1
      BY <1>3, <1>5, <2>1
    <3>3. QED
      BY <1>3, <3>1, <3>2 DEF Distinct
  <2>4. QED
    BY <1>3, <1>5, <2>2, <2>3
<1>8. \A v \in Worker : job'[v] = IF v = w THEN t ELSE job[v]
  BY <1>4, <1>5
<1> HIDE DEF t, T
<1>9. U' = T \cup {t}
  BY <1>1, <1>7
<1> HIDE DEF U
<1>10. InHand(T)
  BY <1>2 DEF T
<1>11. InHand(U)'
  <2>1. \A v \in Worker : job'[v] # None => job'[v] \in U'
    BY <1>8, <1>9, <1>10 DEF InHand
  <2>2. \A u, v \in Worker : job'[u] # None /\ job'[u] = job'[v] => u = v
    BY <1>7, <1>8, <1>10 DEF InHand
  <2>3. \A r \in rows' : r.task \in U' /\ \A v \in Worker : job'[v] # r.task
    BY <1>4, <1>7, <1>8, <1>9, <1>10 DEF InHand
  <2>4. \A q, r \in rows' : q.task = r.task => q = r
    BY <1>4, <1>10 DEF InHand
  <2>5. ASSUME NEW x \in U'
        PROVE  (\E v \in Worker : job'[v] = x) \/ \E r \in rows' : r.task = x
    <3>1. CASE x = t
      BY <1>8, <3>1
    <3>2. CASE x \in T
      <4>1. CASE \E r \in rows : r.task = x
        BY <1>4, <4>1
      <4>2. CASE \E v \in Worker : job[v] = x
        <5>1. PICK v \in Worker : job[v] = x
          BY <4>2
        <5>2. x # None
          <6>1. PICK y \in 1 .. g : x = Lists[n][y]
            BY <3>2 DEF T
          <6>2. y \in 1 .. m
            BY <1>5
          <6>3. QED
            BY <1>3, <6>1, <6>2
        <5>3. v # w
          BY <1>4, <5>1, <5>2
        <5>4. QED
          BY <1>8, <5>1, <5>3
      <4>3. QED
        BY <1>10, <3>2, <4>1, <4>2 DEF InHand
    <3>3. QED
      BY <1>9, <3>1, <3>2
  <2>6. QED
    BY <2>1, <2>2, <2>3, <2>4, <2>5 DEF InHand
<1>12. OnlyCfoFails'
  <2>1. ~ StartOf(Head(tasks).file).error
    BY DEF StartOf
  <2>2. QED
    BY <1>1, <1>4, <2>1 DEF OnlyCfoFails, MayFail
<1>13. QED
  BY <1>2, <1>5, <1>6, <1>11, <1>12, StillAccounted DEF U

\* With block_benchmark's guard, a block fails only by a missing CFO.
LEMMA GuardedError ==
  ASSUME NEW f \in DOMAIN Packets, NEW g \in Globals, NEW s, Scanned(s, f, g),
         NEW n \in ScanBlock(s, f, g, TRUE), n.error
  PROVE  s.error \/ \E p \in PacketsOf(f) : ~p.cfo
<1> DEFINE pkts == BlockOf(f, s.next, g)
           segs == Segments(pkts, g.window)
           ecos == {e \in {x.eco : x \in segs} : Cardinality(OfEco(segs, e)) >= 3}
           moved == [s EXCEPT !.next = @ + g.step]
           raised(a) == [moved EXCEPT !.alert =
                           Alert(a[2], s.next, Cardinality(OfEco(segs, a[1])), g)]
           found == UNION {{e} \X UNION Flagged(OfEco(segs, e), g) : e \in ecos}
<1>1. DOMAIN s = {"next", "alert", "skipped", "error"} /\ s.next \in Nat
  BY DEF Scanned
<1>2. \/ n = moved \/ n = [moved EXCEPT !.skipped = @ + 1]
      \/ \E e \in ecos : \E x \in OfEco(segs, e) : NoCfo(x)
      \/ \E a \in found : n = raised(a)
  BY DEF ScanBlock, EmptyBlock
<1>3. ASSUME NEW e \in ecos, NEW x \in OfEco(segs, e), NoCfo(x)
      PROVE  \E p \in PacketsOf(f) : ~p.cfo
  <2>1. x.pkts \subseteq Usable(f, s.next, s.next + g.block)
    BY <1>1, BlockFacts DEF OfEco
  <2>2. PICK p \in x.pkts : ~p.cfo
    BY <1>3 DEF NoCfo
  <2>3. p \in PacketsOf(f)
    BY <2>1 DEF Usable
  <2>4. QED
    BY <2>2, <2>3
<1>4. moved.error = s.error /\ [moved EXCEPT !.skipped = @ + 1].error = s.error
      /\ \A a \in found : raised(a).error = s.error
  BY <1>1
<1>5. QED
  BY <1>2, <1>3, <1>4

LEMMA BlockAccounted ==
  ASSUME IInv, Accounted, NEW w \in Worker, Block(w)
  PROVE  Accounted'
<1>1. /\ mode \in Modes /\ mode' = mode /\ folders \in Inputs /\ OnlyCfoFails
      /\ batches' = batches /\ Lists' = Lists
  BY AtWork
<1>2. PICK n \in Nat, g \in Nat : /\ At(n, g) /\ InHand({Lists[n][x] : x \in 1 .. g})
                                  /\ Lined(report, n - 1)
  BY AtWork
<1>3. tasks' = tasks /\ job' = job /\ rows' = rows
  BY DEF Block
<1>4. At(n, g)'
  BY <1>1, <1>2, <1>3 DEF At
<1>5. InHand({Lists[n][x] : x \in 1 .. g})'
  <2>1. {Lists[n][x] : x \in 1 .. g}' = {Lists[n][x] : x \in 1 .. g}
    BY <1>1
  <2>2. QED
    BY <1>2, <1>3, <2>1 DEF InHand
<1>6. OnlyCfoFails'
  <2>1. SUFFICES ASSUME mode = "bench"
                 PROVE  \A v \in Worker : job[v] # None /\ scan'[v].error => MayFail(job[v])
    BY <1>1, <1>3 DEF OnlyCfoFails, MayFail
  <2>2. PICK s \in ScanBlock(scan[w], job[w].file, global[w], TRUE) :
          scan' = [scan EXCEPT ![w] = s]
    BY <2>1 DEF Block
  <2>3. /\ AtTask(job[w], scan[w], global[w], mode, parent) /\ job[w] # None
        /\ global[w] \in Globals /\ DOMAIN scan = Worker
    BY Working DEF IInv, Typed, Block
  <2>4. job[w].file \in DOMAIN Packets /\ Scanned(scan[w], job[w].file, global[w])
    BY <2>3 DEF AtTask, TaskOf
  <2>5. s.error => scan[w].error \/ MayFail(job[w])
    BY <2>2, <2>3, <2>4, GuardedError DEF MayFail
  <2>6. \A v \in Worker : scan'[v] = IF v = w THEN s ELSE scan[v]
    BY <2>2, <2>3
  <2>7. QED
    BY <1>1, <2>1, <2>3, <2>5, <2>6 DEF OnlyCfoFails
<1>7. QED
  BY <1>2, <1>4, <1>5, <1>6, StillAccounted

LEMMA FinishAccounted ==
  ASSUME IInv, Accounted, NEW w \in Worker, Finish(w)
  PROVE  Accounted'
<1>1. /\ mode \in Modes /\ mode' = mode /\ folders \in Inputs /\ OnlyCfoFails
      /\ batches' = batches /\ Lists' = Lists
  BY AtWork
<1>2. PICK n \in Nat, g \in Nat : /\ At(n, g) /\ InHand({Lists[n][x] : x \in 1 .. g})
                                  /\ Lined(report, n - 1)
  BY AtWork
<1>3. /\ tasks' = tasks /\ rows' = rows \cup {Row(w)} /\ job[w] # None
      /\ job' = [job EXCEPT ![w] = None] /\ scan' = [scan EXCEPT ![w] = None]
      /\ DOMAIN job = Worker /\ DOMAIN scan = Worker
  BY DEF Finish, IInv, Typed
<1>4. Row(w).task = job[w] /\ Row(w).error = scan[w].error
  BY DEF Row
<1>5. At(n, g)'
  BY <1>1, <1>2, <1>3 DEF At
<1> DEFINE T == {Lists[n][x] : x \in 1 .. g}
<1>6. T' = T
  BY <1>1
<1>7. \A t \in T : t # None
  <2>1. 1 .. g \subseteq 1 .. Len(Lists[n])
    BY <1>1, <1>2, ListFacts DEF At
  <2>2. QED
    BY <1>1, <1>2, <2>1, ListFacts DEF At
<1>8. InHand(T)
  BY <1>2
<1> HIDE DEF T
<1>9. \A v \in Worker : job'[v] = IF v = w THEN None ELSE job[v]
  BY <1>3
<1>10. InHand(T)'
  <2>1. \A v \in Worker : job'[v] # None => job'[v] \in T'
    BY <1>6, <1>8, <1>9 DEF InHand
  <2>2. \A u, v \in Worker : job'[u] # None /\ job'[u] = job'[v] => u = v
    BY <1>8, <1>9 DEF InHand
  <2>3. ASSUME NEW r \in rows' PROVE r.task \in T' /\ \A v \in Worker : job'[v] # r.task
    <3>1. CASE r \in rows
      BY <1>6, <1>7, <1>8, <1>9, <3>1 DEF InHand
    <3>2. CASE r = Row(w)
      <4>1. r.task = job[w] /\ job[w] \in T
        BY <1>3, <1>4, <1>8, <3>2 DEF InHand
      <4>2. \A v \in Worker : job'[v] # job[w]
        BY <1>3, <1>8, <1>9 DEF InHand
      <4>3. QED
        BY <1>6, <4>1, <4>2
    <3>3. QED
      BY <1>3, <3>1, <3>2
  <2>4. \A q, r \in rows' : q.task = r.task => q = r
    <3>1. \A r \in rows : r.task # Row(w).task
      BY <1>4, <1>8 DEF InHand
    <3>2. \A q, r \in rows : q.task = r.task => q = r
      BY <1>8 DEF InHand
    <3>3. QED
      BY <1>3, <3>1, <3>2
  <2>5. ASSUME NEW x \in T'
        PROVE  (\E v \in Worker : job'[v] = x) \/ \E r \in rows' : r.task = x
    <3>1. CASE \E r \in rows : r.task = x
      BY <1>3, <3>1
    <3>2. CASE \E v \in Worker : job[v] = x
      <4>1. PICK v \in Worker : job[v] = x
        BY <3>2
      <4>2. CASE v = w
        BY <1>3, <1>4, <4>1, <4>2
      <4>3. CASE v # w
        BY <1>9, <4>1, <4>3
      <4>4. QED
        BY <4>2, <4>3
    <3>3. QED
      BY <1>6, <1>8, <3>1, <3>2 DEF InHand
  <2>6. QED
    BY <2>1, <2>2, <2>3, <2>4, <2>5 DEF InHand
<1>11. OnlyCfoFails'
  <2>1. SUFFICES ASSUME mode = "bench"
                 PROVE  /\ \A v \in Worker : job'[v] # None /\ scan'[v].error => MayFail(job'[v])
                        /\ \A r \in rows' : r.error => MayFail(r.task)
    BY <1>1 DEF OnlyCfoFails, MayFail
  <2>2. /\ \A v \in Worker : job[v] # None /\ scan[v].error => MayFail(job[v])
        /\ \A r \in rows : r.error => MayFail(r.task)
    BY <1>1, <2>1 DEF OnlyCfoFails
  <2>3. \A v \in Worker : v # w => scan'[v] = scan[v] /\ job'[v] = job[v]
    BY <1>3
  <2>4. job'[w] = None
    BY <1>9
  <2>5. QED
    BY <1>3, <1>4, <2>2, <2>3, <2>4
<1>12. QED
  BY <1>2, <1>5, <1>10, <1>11, StillAccounted DEF T

LEMMA AbortAccounted ==
  ASSUME IInv, Accounted, NEW w \in Worker, Abort(w)
  PROVE  Accounted'
<1>1. /\ mode # None /\ mode' = mode /\ folders' = folders /\ ended' = "aborted"
  BY Working DEF Abort, asked
<1>2. QED
  BY <1>1 DEF Accounted

LEMMA InitAccounted == Init => Accounted
  BY DEF Init, Accounted

LEMMA StutterAccounted ==
  ASSUME Accounted, UNCHANGED vars
  PROVE  Accounted'
<1>1. /\ mode' = mode /\ folders' = folders /\ ended' = ended /\ report' = report
      /\ UNCHANGED <<batches, tasks, job, scan, rows>>
  BY DEF vars, asked
<1>2. Lists' = Lists
  BY <1>1 DEF Lists
<1>3. CASE mode = None \/ ended = "aborted"
  BY <1>1, <1>3 DEF Accounted
<1>4. CASE mode # None /\ ended # "aborted"
  <2>1. PICK n \in Nat, g \in Nat :
          /\ At(n, g) /\ InHand({Lists[n][x] : x \in 1 .. g})
          /\ Lined(report, IF ended = "ok" THEN n ELSE n - 1)
          /\ ended = "ok" => batches = <<>>
    BY <1>4 DEF Accounted
  <2>2. At(n, g)'
    BY <1>1, <1>2, <2>1 DEF At
  <2>3. InHand({Lists[n][x] : x \in 1 .. g})'
    <3>1. {Lists[n][x] : x \in 1 .. g}' = {Lists[n][x] : x \in 1 .. g}
      BY <1>2
    <3>2. QED
      BY <1>1, <2>1, <3>1 DEF InHand
  <2>4. Lined(report, IF ended = "ok" THEN n ELSE n - 1)'
    BY <1>1, <2>1, LinedKept
  <2>5. OnlyCfoFails'
    BY <1>1, <1>4 DEF OnlyCfoFails, MayFail, Accounted
  <2>6. QED
    BY <1>1, <1>4, <2>1, <2>2, <2>3, <2>4, <2>5 DEF Accounted
<1>5. QED
  BY <1>3, <1>4

LEMMA NextAccounted == IInv /\ Accounted /\ [Next]_vars => Accounted'
<1>1. SUFFICES ASSUME IInv, Accounted, [Next]_vars PROVE Accounted'
  OBVIOUS
<1>2. CASE UNCHANGED vars
  BY <1>1, <1>2, StutterAccounted
<1>3. CASE Launch
  BY <1>1, <1>3, LaunchAccounted
<1>4. CASE NextList
  BY <1>1, <1>4, NextListAccounted
<1>5. CASE WriteReport
  BY <1>1, <1>5, WriteReportAccounted
<1>6. CASE \E w \in Worker : Take(w)
  BY <1>1, <1>6, TakeAccounted
<1>7. CASE \E w \in Worker : Block(w)
  BY <1>1, <1>7, BlockAccounted
<1>8. CASE \E w \in Worker : Finish(w)
  BY <1>1, <1>8, FinishAccounted
<1>9. CASE \E w \in Worker : Abort(w)
  BY <1>1, <1>9, AbortAccounted
<1>10. QED
  BY <1>1, <1>2, <1>3, <1>4, <1>5, <1>6, <1>7, <1>8, <1>9 DEF Next

LEMMA AlwaysAccounted == Spec => []Accounted
<1>1. Init => Accounted
  BY InitAccounted
<1>2. IInv /\ Accounted /\ [Next]_vars => Accounted'
  BY NextAccounted
<1>3. QED
  BY <1>1, <1>2, Invariant, PTL DEF Spec

(* When the report is written, every file has been counted once under      *)
(* every setting, whichever worker had it and in whatever order the        *)
(* results came: imap_unordered hands out every task once and the parent   *)
(* waits for all of them (_run_csv_list, block_benchmark's summarize).     *)
THEOREM FilesCounted == Spec => []EveryFileCounted
<1>1. ASSUME IInv, Accounted, ended = "ok", NEW i \in {t.setting : t \in Given}
      PROVE  Settled({l \in report : l.setting = i}, i)
  <2>1. mode \in Modes /\ folders \in Inputs
    BY <1>1 DEF IInv, Typed, Accounted
  <2>2. PICK n \in Nat : n \in 1 .. Len(Lists) /\ Lined(report, n)
          /\ batches = Remaining(Lists, n) /\ batches = <<>>
    BY <1>1 DEF Accounted, At
  <2>3. n = Len(Lists)
    <3>1. n \in 0 .. Len(Lists) /\ Lists \in Seq(Seq(TaskOf(mode)))
      BY <2>1, <2>2, ListFacts
    <3>2. QED
      BY <2>2, <3>1, RestIs
  <2>4. Given = UNION {{Lists[k][j] : j \in DOMAIN Lists[k]} : k \in DOMAIN Lists}
    BY DEF Given, Lists
  <2>5. PICK k \in DOMAIN Lists : \E x \in DOMAIN Lists[k] : i = Lists[k][x].setting
    BY <2>4
  <2>6. k \in 1 .. n
    BY <2>1, <2>3, ListFacts
  <2>7. QED
    BY <2>2, <2>5, <2>6 DEF Lined
<1>2. IInv /\ Accounted => EveryFileCounted
  BY <1>1 DEF EveryFileCounted, Settled
<1>3. QED
  BY <1>2, Invariant, AlwaysAccounted, PTL

=============================================================================
