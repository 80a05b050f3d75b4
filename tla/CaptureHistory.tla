--------------------------- MODULE CaptureHistory ---------------------------
(***************************************************************************)
(* ChunkMonitor with the contents of its buffers: the ISR numbers every    *)
(* chunk it fills, and history variables remember which numbers were hot,  *)
(* which were put on the wire and which were given up.  The code's own     *)
(* state and actions are those of ChunkMonitor, unchanged, so that its     *)
(* invariants and its liveness are checked here as well.                   *)
(***************************************************************************)
EXTENDS ChunkMonitor

CONSTANT MaxRx  \* bound: chunks the ISR delivers

ASSUME MaxRxAssumption == MaxRx \in Nat

VARIABLES
  rxCount,    \* chunks delivered so far
  stamp,      \* the number of the chunk whose samples each buffer holds
  hot,        \* numbers whose energy exceeded the threshold
  sent,       \* numbers in the order their transfers started
  discarded   \* numbers returned to the free queue unsent

historyVars == <<rxCount, stamp, hot, sent, discarded>>
hvars == <<vars, historyVars>>

HInit ==
  /\ Init
  /\ rxCount = 0
  /\ stamp = [c \in Index |-> 0]  \* memset(g_chunks, 0, ...)
  /\ hot = {}
  /\ sent = <<>>
  /\ discarded = {}

HRxEvent ==
  /\ rxCount < MaxRx
  /\ RxEvent
  /\ rxCount' = rxCount + 1
  /\ stamp' = [stamp EXCEPT ![FreeHead] = rxCount + 1]
  /\ UNCHANGED <<hot, sent, discarded>>

\* A transfer starts: PollNext or StartTx loads the channel.
RecordSent ==
  sent' = IF wire' # NoChunk THEN Append(sent, stamp[wire']) ELSE sent

HTrigger ==
  /\ Trigger
  /\ hot' = hot \cup {stamp[hand]}
  /\ UNCHANGED <<rxCount, stamp, sent, discarded>>

HKeepHistory ==
  /\ KeepHistory
  /\ discarded' = IF Len(hist) < PRETRIGGER_CHUNKS THEN discarded
                  ELSE discarded \cup {stamp[Head(Append(hist, hand))]}
  /\ UNCHANGED <<rxCount, stamp, hot, sent>>

HSendPost(isHot) ==
  /\ SendPost(isHot)
  /\ hot' = IF isHot THEN hot \cup {stamp[hand]} ELSE hot
  /\ UNCHANGED <<rxCount, stamp, sent, discarded>>

HLoad ==
  /\ PollNext \/ (StartTx /\ ~ldmaActive)
  /\ RecordSent
  /\ UNCHANGED <<rxCount, stamp, hot, discarded>>

HOther ==  \* the steps that start no transfer and judge no chunk
  /\ \/ TransferDone \/ PollBusy \/ PollRecycle \/ EndPolls \/ TakeReady
     \/ EndDrain \/ (StartTx /\ ldmaActive) \/ Stop
  /\ UNCHANGED historyVars

HNext ==
  \/ HRxEvent \/ HTrigger \/ HKeepHistory
  \/ (\E isHot \in BOOLEAN : HSendPost(isHot))
  \/ HLoad \/ HOther

HMainLoop ==
  \/ HTrigger \/ HKeepHistory \/ (\E isHot \in BOOLEAN : HSendPost(isHot))
  \/ HLoad \/ (HOther /\ MainLoop)

(* The fairness of ChunkMonitor: the main loop runs for ever.              *)
HFairness == WF_hvars(HMainLoop) /\ WF_hvars(HOther /\ TransferDone)

HSpec == HInit /\ [][HNext]_hvars /\ HFairness

-----------------------------------------------------------------------------
Numbers(s) == [i \in DOMAIN s |-> stamp[s[i]]]

InHand == IF hand = NoChunk THEN <<>> ELSE <<hand>>

\* Everything on its way to the wire or to a verdict, oldest first.
Pending == Numbers(tx \o hist \o InHand \o ready)

(* While no buffer has been lost (ExclusiveOwnership explains how one can  *)
(* be), chunks leave in the order they were received and none is sent      *)
(* twice: a chunk of the history never overtakes one already queued, and   *)
(* the ISR never overwrites a buffer that waits or is being sent.          *)
SentInOrder ==
  lost = NoChunk =>
    LET all == sent \o Pending IN
      \A i, j \in DOMAIN all : i < j => all[i] < all[j]

(* Capturing around a trigger ("PRE/POST trigger capture"): while no       *)
(* buffer has been lost, a chunk is given up only when no hot chunk is     *)
(* among the PRETRIGGER_CHUNKS after it or the POSTTRIGGER_CHUNKS before   *)
(* it, so every hot chunk is sent with its whole surroundings.             *)
TriggerWindowKept ==
  lost = NoChunk =>
    \A d \in discarded : \A h \in hot :
      IF h < d THEN d - h > POSTTRIGGER_CHUNKS ELSE h - d > PRETRIGGER_CHUNKS

(* While no buffer has been lost, a chunk the ISR delivered is sent,       *)
(* pending or deliberately given up; none disappears on the way.           *)
NothingVanishes ==
  lost = NoChunk =>
    LET seen(s) == {s[i] : i \in DOMAIN s} IN
      seen(sent) \cup seen(Pending) \cup discarded = 1 .. rxCount

=============================================================================
