---------------------------- MODULE CaptureDecode ----------------------------
(***************************************************************************)
(* From a capture to packets: usb_capture.py writes the bytes it reads and *)
(* a CSV row per read, then ble_sniffer.py scans the samples for access    *)
(* addresses, cuts a window around each, and decodes the windows in a pool *)
(* of processes, each given the windows one task at a time.  The code also *)
(* holds the loop the pool was made from, which --workers 1 selects; here  *)
(* that loop is the reference the pool's report is compared with.          *)
(*                                                                         *)
(* Bounds: reads return one of ReadSizes bytes at one of ReadTimes, up to  *)
(* MaxBytes; a run decodes MaxDecodes bursts.                              *)
(***************************************************************************)
EXTENDS SampleClock, BurstDecode

CONSTANTS
  BUFFER,     \* buffer_size: bytes of one read
  SPI_CHUNK,  \* SPI_CHUNK_BYTES: a capture is cut to whole ones
  MIN_SEP,    \* samples between two access addresses of different packets
  Options,    \* command lines: [kind, crc, tags, channels, max]
  Adverts,    \* packets in the air: [mac, eco, variant, priv]
  Scores,     \* AA and preamble correlation of a candidate, ordered
  Worker,     \* processes of the pool
  Key,        \* what generate_hmac_key returned in each process
  Parent,     \* the process that is not a worker
  ReadSizes, ReadTimes, MaxBytes, MaxDecodes, NoOne, None

ASSUME PoolAssumption ==
  /\ BUFFER \in Nat \ {0} /\ MIN_SEP \in Nat
  /\ SPI_CHUNK \in Nat \ {0} /\ SPI_CHUNK % BPS = 0
  /\ ReadSizes \subseteq 1..BUFFER /\ ReadTimes \subseteq Nat
  /\ Parent \notin Worker /\ Scores \subseteq Nat
  /\ MaxBytes \in Nat /\ None \notin Nat /\ NoOne \notin Nat
  /\ \A o \in Options : /\ o.kind \in {"legacy", "mobile"} /\ o.crc \in BOOLEAN
                          /\ o.channels \in Seq(Nat) /\ o.max \in Int

VARIABLES
  opts,     \* the command line
  phase,    \* "capture", "scan", "decode" or "done"
  now,      \* time, in bytes of the stream
  total,    \* total_bytes
  csv,      \* rows of the timestamps file
  windows,  \* positions of the access addresses windows were cut around
  job,      \* the window a worker is at, or NoOne
  burst,    \* per window: the packet in it and what each channel gave
  outs,     \* results of tasks, in the order they were completed
  report    \* what ble_sniffer returns and writes

capture == <<now, total, csv>>
pool == <<job, burst, outs>>
decodeVars == <<opts, phase, capture, windows, pool, report>>

DecodeInit ==
  /\ opts \in Options
  /\ phase = "capture" /\ now = 0 /\ total = 0
  /\ csv = <<>> /\ windows = <<>>
  /\ job = [k \in Worker |-> NoOne]
  /\ burst = <<>> /\ outs = <<>>
  /\ report = None

-----------------------------------------------------------------------------
(* usb_capture.py.                                                         *)

\* A read returns what has come in, at most a buffer of it; its time is
\* taken after it.  The capture ends when the user interrupts it.
ReadChunk ==
  /\ phase = "capture"
  /\ \E n \in ReadSizes, t \in ReadTimes :
       /\ now <= t /\ total + n <= t /\ total + n <= MaxBytes
       /\ now' = t /\ total' = total + n
       /\ csv' = Append(csv, [kind |-> opts.kind, off |-> total,
                              size |-> IF opts.kind = "legacy" THEN n ELSE 0,
                              epoch |-> t])
  /\ UNCHANGED <<opts, phase, windows, pool, report>>

Interrupt ==
  /\ phase = "capture"
  /\ phase' = "scan"
  /\ UNCHANGED <<opts, capture, windows, pool, report>>

-----------------------------------------------------------------------------
(* load_spi_int16_iq and find_decode_windows_continuous.                   *)

NumSamples == (total \div SPI_CHUNK) * (SPI_CHUNK \div BPS)

\* A candidate near the one kept last is the same packet in another phase or
\* polarity: the better of the two stays.
Suppressed(kept, c) ==
  IF kept = <<>> \/ c.at - Last(kept).at > MIN_SEP THEN Append(kept, c)
  ELSE IF c.sc > Last(kept).sc THEN Append(Front(kept), c)
  ELSE kept

\* The candidates are taken in the order of their positions: score has what
\* was found at each, or None.
Suppress(score) ==
  LET kept[n \in 0..NumSamples] ==
        IF n = 0 THEN <<>>
        ELSE IF score[n - 1] = None THEN kept[n - 1]
        ELSE Suppressed(kept[n - 1], [at |-> n - 1, sc |-> score[n - 1]])
  IN  kept[NumSamples]

\* An empty file is an error, and without a window nothing is reported.
Scan ==
  /\ phase = "scan" /\ NumSamples > 0
  /\ \E score \in [0..(NumSamples - 1) -> Scores \cup {None}] :
       LET kept == Suppress(score)
       IN  /\ Len(kept) * Len(opts.channels) <= MaxDecodes
           /\ windows' = [i \in DOMAIN kept |-> kept[i].at]
  /\ phase' = IF windows' = <<>> THEN "done" ELSE "decode"
  /\ burst' = [w \in DOMAIN windows' |-> None]
  /\ UNCHANGED <<opts, capture, job, outs, report>>

-----------------------------------------------------------------------------
(* One window: the channels are tried in turn, and the best is kept.       *)

\* The whole order compares the CRC last, so a window's best_any may be a
\* hypothesis that failed its CRC although another one passed.
Outranks(h, g) == \/ g = NoHyp
                  \/ h.rank > g.rank
                  \/ h.rank = g.rank /\ h.crc /\ ~ g.crc

Winner(h, g) == IF h # NoHyp /\ Outranks(h, g) THEN h ELSE g

MergeChannel(acc, d) ==
  [any |-> Winner(d.any, acc.any),
   crc |-> Winner(d.crc, acc.crc),
   both_hit |-> acc.both_hit \/ d.both_hit,
   crc_ok |-> acc.crc_ok \/ d.crc # NoHyp,
   inst |-> acc.inst \cup d.inst]

Nothing == [any |-> NoHyp, crc |-> NoHyp, both_hit |-> FALSE,
            crc_ok |-> FALSE, inst |-> {}]

WindowResult(b) ==
  LET merged[n \in 0..Len(b.decodes)] ==
        IF n = 0 THEN Nothing ELSE MergeChannel(merged[n - 1], b.decodes[n])
      acc == merged[Len(b.decodes)]
      tag == acc.any # NoHyp /\ acc.any.tag
  IN  [acc EXCEPT !.inst = IF tag THEN @ \cup {"is_tag"} ELSE @]

\* The packet that is reported, or NoHyp.
Chosen(b) == LET res == WindowResult(b)
             IN  IF opts.crc THEN res.crc ELSE res.any

Keep(h) == CASE opts.tags = "none" -> TRUE
             [] opts.tags = "only-tags" -> h.tag
             [] opts.tags = "drop-tags" -> ~ h.tag

\* detect_apple_variant_and_mask, then samsung_mac_to_privid.
MaskedMac(adv) ==
  CASE adv.eco = "APPLE" /\ adv.variant # None -> adv.variant
    [] adv.eco = "SAMSUNG" /\ adv.priv # None -> adv.priv
    [] OTHER -> adv.mac

\* hide_mac_with_hmac: the digest of an address under a key.
Hide(mac, key) == <<key, mac>>

\* No address is a digest; and None is neither a packet nor a row.
Digests == {Hide(MaskedMac(adv), Key[Parent]) : adv \in Adverts}
PacketType == [at : Nat, crc : BOOLEAN, tag : BOOLEAN, AdvA : Digests]
RowType == [AdvA : Digests, at : Nat, crc : BOOLEAN, timestamp : Int,
            mobile : Int \cup {NaN}]

ASSUME DigestAssumption ==
  /\ \A adv \in Adverts : MaskedMac(adv) \notin Digests
  /\ None \notin PacketType /\ None \notin RowType

ReportedPacket(w, b, key) ==
  [at |-> windows[w], crc |-> Chosen(b).crc, tag |-> Chosen(b).tag,
   AdvA |-> Hide(MaskedMac(b.adv), key)]

\* Both paths fall back to the position of the sample when no row covers it.
Row(p) ==
  LET index == ChunkIndex(csv)
      t == SampleTime(index, p.at)
  IN  [AdvA |-> p.AdvA, at |-> p.at, crc |-> p.crc,
       timestamp |-> IF t = NaN THEN p.at * BPS ELSE t,
       mobile |-> MobileTime(index, p.at)]

\* Faulty variant: a worker hides addresses under its own module's key.
KeyOfWorker(k) == Key[k]

\* The key travels in the task: a spawned worker's own _HMAC_KEY is None.
TaskKey(k) == Key[Parent]

\* _process_one_window_task.  The device is noted for the plots before its
\* address is masked and hidden.
TaskOut(w, b, k) ==
  LET res == WindowResult(b)
      p == ReportedPacket(w, b, TaskKey(k))
      seen == [idx |-> w, both_hit |-> res.both_hit, crc_ok |-> res.crc_ok,
               tag_any |-> res.any # NoHyp /\ res.any.tag,
               kept |-> FALSE, pkt |-> None, cfo_row |-> None,
               tag_adva |-> None, inst |-> {}]
  IN  IF Chosen(b) = NoHyp \/ ~ Keep(Chosen(b)) THEN seen
      ELSE [seen EXCEPT !.kept = TRUE, !.pkt = p, !.inst = res.inst,
                        !.cfo_row = IF p.tag THEN Row(p) ELSE None,
                        !.tag_adva = IF p.tag THEN b.adv.mac ELSE None]

-----------------------------------------------------------------------------
(* The pool.                                                               *)

Queued == (DOMAIN windows) \ ({outs[i].idx : i \in DOMAIN outs}
                                \cup {job[k] : k \in Worker})

Take(k) ==
  /\ phase = "decode" /\ job[k] = NoOne /\ Queued # {}
  /\ job' = [job EXCEPT ![k] = CHOOSE w \in Queued : \A v \in Queued : w <= v]
  /\ UNCHANGED <<opts, phase, capture, windows, burst, outs, report>>

\* What a channel can give, by: is it the one the packet was sent on, is the
\* packet a tag's, is the window long.
Decoded == [right \in BOOLEAN |-> [tag \in BOOLEAN |->
              [long \in BOOLEAN |-> Decodes(right, tag, long)]]]

DecodeWindow(k) ==
  /\ phase = "decode" /\ job[k] # NoOne
  /\ \E adv \in Adverts, ch \in Range(opts.channels), long \in BOOLEAN :
     LET dec(right) == Decoded[right][adv.eco # "UNKNOWN"][long]
     IN \E ds \in [DOMAIN opts.channels -> dec(TRUE) \cup dec(FALSE)] :
       LET b == [adv |-> adv, decodes |-> ds]
       IN  /\ \A i \in DOMAIN ds :
                ds[i] \in dec(opts.channels[i] = ch)
           /\ burst' = [burst EXCEPT ![job[k]] = b]
           /\ outs' = Append(outs, TaskOut(job[k], b, k))
  /\ job' = [job EXCEPT ![k] = NoOne]
  /\ UNCHANGED <<opts, phase, capture, windows, report>>

-----------------------------------------------------------------------------
(* The report.                                                             *)

Present(s) == Those(s, LAMBDA x : x # None)

Counted == {"both_hit", "crc_ok", "tag_any", "kept"}
Flags == Stages \cup {"ran_step", "ran_local", "ran_cfo", "is_long", "is_tag"}

\* Faulty variant: results are taken as they complete.
GatheredAsCompleted == outs

\* ex.map gives the results in the order of the tasks; sorted, they are in
\* the order of the windows.
Gathered == [w \in DOMAIN windows |-> CHOOSE r \in Range(outs) : r.idx = w]

Truncated(pkts) ==
  IF opts.max > 0 THEN SubSeq(pkts, 1, Min({opts.max, Len(pkts)})) ELSE <<>>

\* The flags of a result count only when its packet was kept.
Aggregate(rs) ==
  LET field(f) == [i \in DOMAIN rs |-> rs[i][f]]
  IN  [packets |-> Truncated(Present(field("pkt"))),
       rows |-> Present(field("cfo_row")),
       tags |-> Range(Present(field("tag_adva"))),
       stats |-> [f \in Counted |-> Cardinality({i \in DOMAIN rs : rs[i][f]})],
       inst |-> [f \in Flags |->
                   Cardinality({i \in DOMAIN rs : f \in rs[i].inst})]]

Finish ==
  /\ phase = "decode" /\ Len(outs) = Len(windows)
  /\ report' = Aggregate(Gathered)
  /\ phase' = "done"
  /\ UNCHANGED <<opts, capture, windows, pool>>

DecodeNext ==
  \/ ReadChunk
  \/ Interrupt
  \/ Scan
  \/ \E k \in Worker : Take(k) \/ DecodeWindow(k)
  \/ Finish

DecodeSpec == DecodeInit /\ [][DecodeNext]_decodeVars

-----------------------------------------------------------------------------
(* Reference: the single-process loop.  It masks and hides before it       *)
(* filters and notes the device, stores packets while there is room, and   *)
(* leaves a window early when there is nothing to report.                  *)

Window(acc, w) ==
  LET b == burst[w]
      res == WindowResult(b)
      p == ReportedPacket(w, b, Key[Parent])
      seen(f) == CASE f = "both_hit" -> res.both_hit
                   [] f = "crc_ok" -> res.crc_ok
                   [] f = "tag_any" -> res.any # NoHyp /\ res.any.tag
                   [] f = "kept" -> FALSE
      one(c) == IF c THEN 1 ELSE 0
      met == [acc EXCEPT !.stats = [f \in Counted |-> @[f] + one(seen(f))]]
  IN  IF Chosen(b) = NoHyp \/ ~ Keep(Chosen(b)) THEN met
      ELSE [packets |-> IF Len(met.packets) < opts.max
                        THEN Append(met.packets, p) ELSE met.packets,
            rows |-> IF p.tag THEN Append(met.rows, Row(p)) ELSE met.rows,
            tags |-> IF p.tag THEN met.tags \cup {p.AdvA} ELSE met.tags,
            stats |-> [met.stats EXCEPT !["kept"] = @ + 1],
            inst |-> [f \in Flags |-> met.inst[f] + one(f \in res.inst)]]

SerialReport ==
  LET loop[n \in 0..Len(windows)] ==
        IF n = 0
        THEN [packets |-> <<>>, rows |-> <<>>, tags |-> {},
              stats |-> [f \in Counted |-> 0], inst |-> [f \in Flags |-> 0]]
        ELSE Window(loop[n - 1], n)
  IN  loop[Len(windows)]

Reported == phase = "done" /\ windows # <<>>

-----------------------------------------------------------------------------
(* Properties.                                                             *)

Bursts == UNION {Range(burst[w].decodes) :
                   w \in {v \in DOMAIN burst : burst[v] # None}}

\* A decode returns the best of what its passes and stages found, although
\* a tag's CRC is cleared to force the stages and one of them leaves the
\* list unsorted (decode_one_burst_from_freq).
RefinementKeepsBest == \A d \in Bursts : ReturnsBest(d)

\* The recovery of a CRC is credited to one stage at most, also when a
\* window with a right CRC is sent through the stages again.
RecoveryCreditedOnce == \A d \in Bursts : CreditedOnce(d)

\* The pool reports the packets, the rows and the counts of the loop it was
\* made from, in whatever order its workers finish ("minimal change,
\* preserves logic", ble_sniffer.py:2813).  The set of devices is apart: see
\* TagsPlotted.
ParallelAsSerial ==
  Reported => [report EXCEPT !.tags = {}] = [SerialReport EXCEPT !.tags = {}]

\* Two packets or rows of a report have one address exactly when they are of
\* one device as far as the decoder can tell, whichever process hid them; and
\* no address is shown as it was received.
PseudonymPerDevice ==
  Reported =>
    LET device(r) == LET w == CHOOSE v \in DOMAIN windows : windows[v] = r.at
                     IN  MaskedMac(burst[w].adv)
        shown == Range(report.packets) \cup Range(report.rows)
    IN  \A q, r \in shown :
          /\ (q.AdvA = r.AdvA) <=> (device(q) = device(r))
          /\ q.AdvA # device(q)

\* Rows are in the order of the capture, one per access address, more than
\* MIN_SEP apart; and with the bridge's timestamps every one is dated, never
\* before its samples were taken, and out of order by less than one read.
RowsOrdered ==
  Reported =>
    LET rows == report.rows
        t0 == csv[1].epoch
    IN  \A i \in DOMAIN rows :
          /\ \A j \in 1..(i - 1) :
               /\ rows[j].at + MIN_SEP < rows[i].at
               /\ opts.kind = "legacy" =>
                    rows[j].timestamp < rows[i].timestamp + BUFFER
          /\ opts.kind = "legacy" =>
               rows[i].timestamp + t0 = rows[i].mobile
          /\ opts.kind = "legacy" => rows[i].mobile >= rows[i].at * BPS

\* The devices the CFO plots may show are those that have CFO rows
\* ("Tag AdvA set for plotting filter later", ble_sniffer.py:2553).
TagsPlotted ==
  Reported => {r.AdvA : r \in Range(report.rows)} \subseteq report.tags

=============================================================================
