----------------------------- MODULE SampleClock -----------------------------
(***************************************************************************)
(* The time of a sample (ble_sniffer.py).  A capture comes with one CSV    *)
(* row per chunk of bytes read; a sample is dated by the chunk its first   *)
(* byte falls in.  The unit of time is the duration of one byte of the     *)
(* stream, so bytes into a chunk are time into a chunk.                    *)
(***************************************************************************)
EXTENDS SequencesExt, FiniteSets, Integers

CONSTANTS
  BPS,   \* bytes per sample
  NaN

ASSUME ClockAssumption == BPS \in Nat \ {0} /\ NaN \notin Int

Legacy(row) == row.kind = "legacy" /\ row.off >= 0 /\ row.size > 0
Mobile(row) == row.kind = "mobile" /\ row.off >= 0

\* The elements of s at the positions of T, and those that pass a test, in
\* their order.  (SelectSeq, in a form that can be proved about.)
Sublist(s, T) ==
  LET found[n \in 0 .. Len(s)] ==
        IF n = 0 THEN <<>>
        ELSE IF n \in T THEN Append(found[n - 1], s[n]) ELSE found[n - 1]
  IN  found[Len(s)]

Those(s, Test(_)) == Sublist(s, {i \in DOMAIN s : Test(s[i])})

\* Rows sorted by their offset.
ByOffset(rows) ==
  LET rank == CHOOSE p \in [DOMAIN rows -> DOMAIN rows] :
                /\ \A i, j \in DOMAIN rows : p[i] = p[j] => i = j
                /\ \A i, j \in DOMAIN rows :
                     i < j => rows[p[i]].off <= rows[p[j]].off
  IN  [i \in DOMAIN rows |-> rows[rank[i]]]

Median(s) == LET k == Len(s) IN
  IF k = 0 THEN 0 ELSE (s[(k + 1) \div 2] + s[(k \div 2) + 1]) \div 2

\* A mobile row has no size: it ends where the next one starts, and the last
\* one is as long as the median gap.  Rows of no length are left out.
Derived(rows) ==
  LET sorted == ByOffset(rows)
      n == Len(sorted)
      gap == [i \in 1..(n - 1) |-> sorted[i + 1].off - sorted[i].off]
      last == Median(SortSeq(Those(gap, LAMBDA g : g > 0), <))
      size == Append(gap, last)
  IN  Those([i \in 1..n |-> [sorted[i] EXCEPT !.size = size[i]]],
            LAMBDA row : row.size > 0)

\* load_chunk_timestamp_index: legacy rows, if any, hide the mobile ones.
\* An empty index stands for None.
ChunkIndex(csv) ==
  LET legacy == Those(csv, Legacy)
  IN  IF legacy # <<>> THEN ByOffset(legacy)
      ELSE Derived(Those(csv, Mobile))

\* Faulty variant: bisect_left where the code has bisect_right.
RowAtLeft(index, byte) ==
  Cardinality({i \in DOMAIN index : index[i].off < byte})

\* bisect_right(offsets, byte_pos) - 1, counted from 1.
RowAt(index, byte) ==
  Cardinality({i \in DOMAIN index : index[i].off <= byte})

\* _sample_index_to_timestamp.
ByteTime(index, byte, zero_ref) ==
  LET i == RowAt(index, byte)
  IN  IF \/ i = 0
         \/ byte >= index[i].off + index[i].size
      THEN NaN
      ELSE index[i].epoch + (byte - index[i].off)
             - IF zero_ref THEN index[1].epoch ELSE 0

SampleTime(index, sample) == ByteTime(index, sample * BPS, TRUE)

\* The phone's clock, and its position: only a mobile index has them.
MobileTime(index, sample) == ByteTime(index, sample * BPS, FALSE)

=============================================================================
