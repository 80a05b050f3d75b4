---------------------------- MODULE MonitorStats ----------------------------
(***************************************************************************)
(* The drop accounting and the energy-threshold tuner of the EFR32         *)
(* streamer (EFR32MG24/Code/ble_packet_monitor.c).  The RAIL interrupt     *)
(* sets event bits and counts dropped bytes while the main loop, every     *)
(* five seconds, reads the counter, retunes the threshold, prints, and     *)
(* only then clears the counter.                                           *)
(*                                                                         *)
(* g_dropped_bytes is read only as zero or not, so it is a Boolean here.   *)
(* Throughput is an input: the integer megabits per second of the period.  *)
(***************************************************************************)
EXTENDS Integers

CONSTANTS
  WORD,               \* values of an unsigned int: 2^32
  ENERGY_THRESH_INIT,
  ENERGY_THRESH_MIN,
  ENERGY_THRESH_MAX,
  ENERGY_ADJUST_PCT,
  TARGET_MBPS,
  MaxMbps             \* bound: the fastest throughput considered

\* What #define lines 31-35 satisfy; a threshold and a half fits in a word.
ASSUME TunerAssumption ==
  /\ WORD \in Nat /\ ENERGY_THRESH_MIN \in Nat /\ ENERGY_THRESH_MAX \in Nat
  /\ ENERGY_THRESH_INIT \in ENERGY_THRESH_MIN .. ENERGY_THRESH_MAX
  /\ ENERGY_THRESH_MIN >= 2
  /\ 2 * ENERGY_THRESH_MAX < WORD
  /\ ENERGY_ADJUST_PCT \in Nat /\ TARGET_MBPS \in Nat /\ MaxMbps \in Nat

VARIABLES
  pending,  \* RAIL_EVENT_RX_FIFO_OVERFLOW is set in g_pending_events
  ev,       \* the main loop's copy of it
  dropped,  \* g_dropped_bytes # 0
  hadDrop,  \* had_drop of the latest tuning
  thresh,   \* g_energy_thresh
  stage     \* where the main loop is

statsVars == <<pending, ev, dropped, hadDrop, thresh, stage>>

Thresholds == ENERGY_THRESH_MIN .. ENERGY_THRESH_MAX

-----------------------------------------------------------------------------
(* The arithmetic of the tuner, on words.                                  *)

Min2(a, b) == IF a < b THEN a ELSE b
Max2(a, b) == IF a > b THEN a ELSE b

\* The product may wrap: the step is capped afterwards, and is at least 1.
Delta(t) ==
  Min2(Max2(1, ((t * ENERGY_ADJUST_PCT) % WORD) \div 100), t \div 2)

UpperTarget == (TARGET_MBPS * 11) \div 10
LowerTarget == (TARGET_MBPS * 9) \div 10

Clamp(t) == Min2(Max2(t, ENERGY_THRESH_MIN), ENERGY_THRESH_MAX)

NewThreshold(t, drop, mbps) ==
  Clamp(IF drop \/ mbps > UpperTarget THEN t + Delta(t)
        ELSE IF mbps >= LowerTarget THEN t
        ELSE IF t > Delta(t) THEN t - Delta(t)
        ELSE ENERGY_THRESH_MIN)

-----------------------------------------------------------------------------
StatsInit ==
  /\ pending = FALSE /\ ev = FALSE
  /\ dropped = FALSE /\ hadDrop = FALSE
  /\ thresh = ENERGY_THRESH_INIT
  /\ stage = "snapshot"

\* The interrupt: it remembers an overflow, and when no chunk is free and
\* more than 1000 bytes wait it throws bytes away.
Interrupt(overflow, drains) ==
  /\ pending' = (pending \/ overflow)
  /\ dropped' = (dropped \/ drains)
  /\ UNCHANGED <<ev, hadDrop, thresh, stage>>

Snapshot ==  \* critical section: copy the event bits and clear them
  /\ stage = "snapshot"
  /\ ev' = pending
  /\ pending' = FALSE
  /\ stage' = "account"
  /\ UNCHANGED <<dropped, hadDrop, thresh>>

\* Faulty variant: the event bits are cleared again once handled.
AccountClearsEvents ==
  /\ stage = "account"
  /\ dropped' = (dropped \/ ev)
  /\ pending' = FALSE
  /\ stage' = "stats"
  /\ UNCHANGED <<ev, hadDrop, thresh>>

Account ==  \* an overflow resets the FIFO and costs a chunk
  /\ stage = "account"
  /\ dropped' = (dropped \/ ev)
  /\ stage' = "stats"
  /\ UNCHANGED <<pending, ev, hadDrop, thresh>>

TooEarly ==  \* less than five seconds since the last statistics
  /\ stage = "stats"
  /\ stage' = "snapshot"
  /\ UNCHANGED <<pending, ev, dropped, hadDrop, thresh>>

\* Faulty variant: throughput alone decides.
TuneIgnoringDrops(mbps) ==
  /\ stage = "stats"
  /\ hadDrop' = dropped
  /\ thresh' = NewThreshold(thresh, FALSE, mbps)
  /\ stage' = "reset"
  /\ UNCHANGED <<pending, ev, dropped>>

Tune(mbps) ==
  /\ stage = "stats"
  /\ hadDrop' = dropped
  /\ thresh' = NewThreshold(thresh, dropped, mbps)
  /\ stage' = "reset"
  /\ UNCHANGED <<pending, ev, dropped>>

\* The counter is cleared after the report has been printed, together with
\* whatever the interrupt added meanwhile.
Reset ==
  /\ stage = "reset"
  /\ dropped' = FALSE
  /\ stage' = "snapshot"
  /\ UNCHANGED <<pending, ev, hadDrop, thresh>>

StatsLoop ==
  \/ Snapshot \/ Account \/ TooEarly \/ Reset
  \/ \E mbps \in 0 .. MaxMbps : Tune(mbps)

StatsNext ==
  \/ \E overflow, drains \in BOOLEAN : Interrupt(overflow, drains)
  \/ StatsLoop

Tuning == \E mbps \in 0 .. MaxMbps : Tune(mbps)

\* The main loop never stops and the clock keeps reaching five seconds.
StatsFairness == WF_statsVars(StatsLoop) /\ SF_statsVars(Tuning)

StatsSpec == StatsInit /\ [][StatsNext]_statsVars /\ StatsFairness

-----------------------------------------------------------------------------
(* Properties.                                                             *)

(* Every variable has its type; the threshold stays within its limits.     *)
StatsTypeOK ==
  /\ pending \in BOOLEAN /\ ev \in BOOLEAN
  /\ dropped \in BOOLEAN /\ hadDrop \in BOOLEAN
  /\ thresh \in Thresholds
  /\ stage \in {"snapshot", "account", "stats", "reset"}

(* "never move more than 50% per step": whatever the product wraps to, and *)
(* whichever limit clamps the result, one tuning moves the threshold by at *)
(* most half of it.                                                        *)
HalfStep ==
  [][thresh' - thresh <= thresh \div 2 /\ thresh - thresh' <= thresh \div 2]_statsVars

(* A tuning that saw a drop raises the threshold, or finds it at its       *)
(* maximum: the wrapped product can make the step small, never zero and    *)
(* never a step down.                                                      *)
DropRaises ==
  [][(stage = "stats" /\ stage' = "reset" /\ dropped) =>
       (thresh' > thresh \/ thresh' = ENERGY_THRESH_MAX)]_statsVars

(* An overflow the interrupt reports is counted as a drop, even when it    *)
(* arrives while the main loop is working on an earlier one.               *)
OverflowCounted == pending ~> dropped

(* If from some time on every period sees a drop, the threshold reaches    *)
(* its maximum and stays there: the tuner cannot stall or oscillate.       *)
PersistentDropsSaturate ==
  <>[](stage = "reset" => hadDrop) => <>[](thresh = ENERGY_THRESH_MAX)

=============================================================================
