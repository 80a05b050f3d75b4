------------------------ MODULE ChunkMonitor_proofs ------------------------
(***************************************************************************)
(* For every number of buffers, trigger window and poll count.  First what *)
(* ChunkMonitor is about: the types, the conservation of queue entries (no *)
(* ring overflows although q_push never checks), the agreement of driver   *)
(* and LDMA channel, and who owns which chunk after the first return.      *)
(* Then, from the ownership, what CaptureHistory says of the stream: the   *)
(* order of the chunks, the window round a hot one, and that none is gone. *)
(* Last the threshold tuner, which shares no state with the rest: it stays *)
(* within its limits, moves by at most half, and up when there are drops.  *)
(***************************************************************************)
EXTENDS CaptureHistory, MonitorStats, SequenceTheorems, FiniteSetTheorems, TLAPS

(* What ties the flags to the main loop's position; the three properties   *)
(* are inductive only together with it.                                    *)
LoopShape ==
  /\ hand # NoChunk <=> pc = "sort"
  /\ curTx # NoChunk <=> ldmaActive /\ pc # "next"
  /\ pc = "next" => polls < POLLS /\ ldmaActive /\ chdone
  /\ ldmaActive => pc = "next" \/ curTx # NoChunk

IInv == TypeOK /\ EntriesConserved /\ ChannelInStep /\ LoopShape

-----------------------------------------------------------------------------
(* The free queue keeps its type under a pop, and under a push that the    *)
(* conservation of entries has shown to fit.                               *)

LEMMA RingIsNat == RING_N \in Nat
  BY ConfigAssumption

LEMMA WrapInIndex == \A x \in 0 .. RING_N : (x + 1) % RING_N \in Index
  BY ConfigAssumption DEF Index

LEMMA FreePushType ==
  ASSUME NEW f \in FreeType, NEW idx \in Index, f.n < RING_N
  PROVE  FreePush(f, idx) \in FreeType /\ FreePush(f, idx).n = f.n + 1
<1> DEFINE q == IF f.t \in Index THEN [f.q EXCEPT ![f.t] = idx] ELSE f.q
<1>1. /\ f.q \in [Index -> Index] /\ f.h \in Index
      /\ f.t \in 0 .. RING_N /\ f.n \in 0 .. RING_N
  BY DEF FreeType
<1>2. q \in [Index -> Index]
  BY <1>1
<1>3. (f.t + 1) % RING_N \in Index
  BY <1>1, WrapInIndex
<1>4. f.n + 1 \in 0 .. RING_N
  BY <1>1, ConfigAssumption
<1>5. Index \subseteq 0 .. RING_N
  BY ConfigAssumption DEF Index
<1>6. QED
  BY <1>1, <1>2, <1>3, <1>4, <1>5 DEF FreeType, FreePush

LEMMA FreePopType ==
  ASSUME NEW f \in FreeType, f.n > 0
  PROVE  FreePop(f) \in FreeType /\ FreePop(f).n = f.n - 1
<1>1. f.h \in Index /\ f.n \in 0 .. RING_N
  BY DEF FreeType
<1>2. (f.h + 1) % RING_N \in Index
  BY <1>1, WrapInIndex, ConfigAssumption DEF Index
<1>3. f.n - 1 \in 0 .. RING_N
  BY <1>1, ConfigAssumption
<1>4. QED
  BY <1>2, <1>3 DEF FreePop, FreeType

LEMMA ReturnToFreeType ==
  ASSUME free \in FreeType, lost \in MaybeIndex,
         NEW idx \in Index, free.n < RING_N, ReturnToFree(idx)
  PROVE  free' \in FreeType /\ free'.n = free.n + 1 /\ lost' \in MaybeIndex
  BY FreePushType DEF ReturnToFree, MaybeIndex

-----------------------------------------------------------------------------
(* Sequences, as the queues use them.                                      *)

LEMMA PopFacts ==
  ASSUME NEW S, NEW s \in Seq(S), s # <<>>
  PROVE  /\ Head(s) \in S /\ Tail(s) \in Seq(S)
         /\ Len(s) > 0 /\ Len(Tail(s)) = Len(s) - 1
  OBVIOUS

LEMMA AppendFacts ==
  ASSUME NEW S, NEW s \in Seq(S), NEW e \in S
  PROVE  /\ Append(s, e) \in Seq(S) /\ Append(s, e) # <<>>
         /\ Len(Append(s, e)) = Len(s) + 1
<1>1. Append(s, e) \in Seq(S) /\ Len(Append(s, e)) = Len(s) + 1
  OBVIOUS
<1>2. Len(s) \in Nat /\ Len(<<>>) = 0
  OBVIOUS
<1>3. QED
  BY <1>1, <1>2

LEMMA ConcatFacts ==
  ASSUME NEW S, NEW s \in Seq(S), NEW t \in Seq(S)
  PROVE  s \o t \in Seq(S) /\ Len(s \o t) = Len(s) + Len(t)
  OBVIOUS

LEMMA IndexIsNotNoChunk == NoChunk \notin Index
  BY ConfigAssumption DEF Index, NoChunk

-----------------------------------------------------------------------------
LEMMA InitIInv == Init => IInv
<1> SUFFICES ASSUME Init PROVE IInv
  OBVIOUS
<1>1. TypeOK
  BY ConfigAssumption
  DEF Init, TypeOK, FreeType, MaybeIndex, Index, States, NoChunk
<1>2. EntriesConserved
  BY ConfigAssumption DEF Init, EntriesConserved, One
<1>3. ChannelInStep /\ LoopShape
  BY DEF Init, ChannelInStep, LoopShape
<1>4. QED
  BY <1>1, <1>2, <1>3 DEF IInv

-----------------------------------------------------------------------------
(* One lemma per action.                                                   *)

LEMMA RxEventStep == ASSUME IInv, RxEvent PROVE IInv'
<1>1. free \in FreeType /\ free.n > 0 /\ FreeHead \in Index
  BY DEF IInv, TypeOK, RxEvent, FreeHead, FreeType
<1>2. free' \in FreeType /\ free'.n = free.n - 1
  BY <1>1, FreePopType DEF RxEvent
<1>3. ready' \in Seq(Index) /\ Len(ready') = Len(ready) + 1
  BY <1>1, AppendFacts DEF RxEvent, IInv, TypeOK
<1>4. TypeOK'
  BY <1>2, <1>3 DEF IInv, TypeOK, RxEvent, ldmaVars, capVars, loopVars, MaybeIndex
<1>5. EntriesConserved'
  BY <1>1, <1>2, <1>3
  DEF IInv, TypeOK, EntriesConserved, RxEvent, One, ldmaVars, FreeType
<1>6. ChannelInStep' /\ LoopShape'
  BY DEF IInv, ChannelInStep, LoopShape, RxEvent, ldmaVars, loopVars
<1>7. QED
  BY <1>4, <1>5, <1>6 DEF IInv

LEMMA TransferDoneStep == ASSUME IInv, TransferDone PROVE IInv'
<1>1. TypeOK'
  BY DEF IInv, TypeOK, TransferDone, capVars, loopVars, MaybeIndex
<1>2. EntriesConserved'
  BY DEF IInv, EntriesConserved, TransferDone, One
<1>3. ChannelInStep' /\ LoopShape'
  BY DEF IInv, ChannelInStep, LoopShape, TransferDone, loopVars
<1>4. QED
  BY <1>1, <1>2, <1>3 DEF IInv

LEMMA PollBusyStep == ASSUME IInv, PollBusy PROVE IInv'
<1>1. TypeOK'
  BY ConfigAssumption DEF IInv, TypeOK, PollBusy, ldmaVars, capVars, MaybeIndex
<1>2. EntriesConserved'
  BY DEF IInv, EntriesConserved, PollBusy, One, ldmaVars
<1>3. ChannelInStep' /\ LoopShape'
  BY DEF IInv, ChannelInStep, LoopShape, PollBusy, ldmaVars
<1>4. QED
  BY <1>1, <1>2, <1>3 DEF IInv

(* The driver is active, so there is a current chunk, and it is the entry  *)
(* for which the free queue still has room.                                *)
LEMMA PollRecycleStep == ASSUME IInv, PollRecycle PROVE IInv'
<1>1. curTx \in Index /\ hand = NoChunk /\ ReturnToFree(curTx)
  BY DEF IInv, TypeOK, LoopShape, PollRecycle, MaybeIndex
<1>2. free \in FreeType /\ free.n \in Nat /\ lost \in MaybeIndex
  BY DEF IInv, TypeOK, FreeType
<1>3. Len(ready) \in Nat /\ Len(hist) \in Nat /\ Len(tx) \in Nat /\ leaked \in Nat
  BY DEF IInv, TypeOK
<1>4. free.n + Len(ready) + Len(hist) + Len(tx) + 1 + leaked = RING_N
  BY <1>1, <1>2, <1>3, IndexIsNotNoChunk DEF IInv, EntriesConserved, One
<1>5. free.n < RING_N
  BY <1>2, <1>3, <1>4, ConfigAssumption
<1>6. free' \in FreeType /\ free'.n = free.n + 1 /\ lost' \in MaybeIndex
  BY <1>1, <1>2, <1>5, ReturnToFreeType
<1>7. TypeOK'
  BY <1>6 DEF IInv, TypeOK, PollRecycle, capVars, MaybeIndex
<1>8. EntriesConserved'
  BY <1>1, <1>2, <1>3, <1>4, <1>6 DEF EntriesConserved, PollRecycle, One
<1>9. ChannelInStep' /\ LoopShape'
  BY <1>1 DEF IInv, ChannelInStep, LoopShape, PollRecycle
<1>10. QED
  BY <1>7, <1>8, <1>9 DEF IInv

LEMMA PollNextStep == ASSUME IInv, PollNext PROVE IInv'
<1>1. hand = NoChunk /\ curTx = NoChunk /\ polls < POLLS /\ ldmaActive
  BY DEF IInv, LoopShape, PollNext
<1>a. polls' \in 0 .. POLLS /\ pc' = "poll"
  BY <1>1, ConfigAssumption DEF IInv, TypeOK, PollNext
<1>b. UNCHANGED <<free, ready, hist, hand, csLow, capVars, iter, lost, leaked>>
  BY DEF PollNext
<1>2. CASE tx # <<>> /\ LoadNextTx /\ UNCHANGED ldmaActive
  <2>1. Head(tx) \in Index /\ tx' \in Seq(Index) /\ Len(tx') = Len(tx) - 1
    BY <1>2, PopFacts DEF IInv, TypeOK, LoadNextTx
  <2>2. TypeOK'
    BY <1>a, <1>b, <1>2, <2>1 DEF IInv, TypeOK, LoadNextTx, capVars, MaybeIndex
  <2>3. EntriesConserved'
    BY <1>1, <1>2, <2>1, IndexIsNotNoChunk
    DEF IInv, TypeOK, EntriesConserved, PollNext, LoadNextTx, One, FreeType
  <2>4. ChannelInStep' /\ LoopShape'
    BY <1>1, <1>2, <2>1, IndexIsNotNoChunk
    DEF IInv, ChannelInStep, LoopShape, PollNext, LoadNextTx
  <2>5. QED
    BY <2>2, <2>3, <2>4 DEF IInv
<1>3. CASE tx = <<>> /\ ldmaActive' = FALSE /\ UNCHANGED <<tx, curTx, wire, chdone>>
  <2>1. TypeOK'
    BY <1>a, <1>b, <1>3 DEF IInv, TypeOK, capVars, MaybeIndex
  <2>2. EntriesConserved'
    BY <1>3 DEF IInv, EntriesConserved, PollNext, One
  <2>3. ChannelInStep' /\ LoopShape'
    BY <1>1, <1>3 DEF IInv, ChannelInStep, LoopShape, PollNext
  <2>4. QED
    BY <2>1, <2>2, <2>3 DEF IInv
<1>4. QED
  BY <1>2, <1>3 DEF PollNext

LEMMA EndPollsStep == ASSUME IInv, EndPolls PROVE IInv'
<1>1. TypeOK'
  BY ConfigAssumption DEF IInv, TypeOK, EndPolls, ldmaVars, capVars, MaybeIndex
<1>2. EntriesConserved'
  BY DEF IInv, EntriesConserved, EndPolls, One, ldmaVars
<1>3. ChannelInStep' /\ LoopShape'
  BY DEF IInv, ChannelInStep, LoopShape, EndPolls, ldmaVars
<1>4. QED
  BY <1>1, <1>2, <1>3 DEF IInv

LEMMA TakeReadyStep == ASSUME IInv, TakeReady PROVE IInv'
<1>1. ready # <<>> /\ hand = NoChunk
  BY DEF IInv, TypeOK, LoopShape, TakeReady
<1>2. hand' \in Index /\ ready' \in Seq(Index) /\ Len(ready') = Len(ready) - 1
  BY <1>1, PopFacts DEF IInv, TypeOK, TakeReady
<1>3. TypeOK'
  BY <1>2 DEF IInv, TypeOK, TakeReady, ldmaVars, capVars, MaybeIndex
<1>4. EntriesConserved'
  BY <1>1, <1>2, IndexIsNotNoChunk
  DEF IInv, TypeOK, EntriesConserved, TakeReady, One, ldmaVars, FreeType
<1>5. ChannelInStep' /\ LoopShape'
  BY <1>1, <1>2, IndexIsNotNoChunk
  DEF IInv, ChannelInStep, LoopShape, TakeReady, ldmaVars
<1>6. QED
  BY <1>3, <1>4, <1>5 DEF IInv

(* The chunk in the loop's hand moves on; it is the entry that makes room  *)
(* in whichever queue receives one.                                        *)
LEMMA SortFacts ==
  ASSUME IInv, pc = "sort"
  PROVE  /\ hand \in Index /\ free \in FreeType /\ free.n < RING_N
         /\ free.n + Len(ready) + Len(hist) + Len(tx) + 1 + One(curTx) + leaked
              = RING_N
<1>1. hand \in Index /\ free \in FreeType /\ free.n \in Nat
  BY DEF IInv, TypeOK, LoopShape, MaybeIndex, FreeType
<1>2. Len(ready) \in Nat /\ Len(hist) \in Nat /\ Len(tx) \in Nat
      /\ leaked \in Nat /\ One(curTx) \in Nat
  BY DEF IInv, TypeOK, One
<1>3. One(hand) = 1
  BY <1>1, IndexIsNotNoChunk DEF One
<1>4. free.n + Len(ready) + Len(hist) + Len(tx) + 1 + One(curTx) + leaked = RING_N
  BY <1>3 DEF IInv, EntriesConserved
<1>5. QED
  BY <1>1, <1>2, <1>4, ConfigAssumption

LEMMA TriggerStep == ASSUME IInv, Trigger PROVE IInv'
<1>1. hand \in Index
      /\ free.n + Len(ready) + Len(hist) + Len(tx) + 1 + One(curTx) + leaked = RING_N
  BY SortFacts DEF Trigger
<1>2. tx' \in Seq(Index) /\ Len(tx') = Len(tx) + Len(hist) + 1
  BY <1>1, AppendFacts, ConcatFacts DEF IInv, TypeOK, Trigger
<1>3. hist' \in Seq(Index) /\ Len(hist') = 0
  BY DEF Trigger
<1>4. TypeOK'
  BY <1>2, <1>3, ConfigAssumption
  DEF IInv, TypeOK, Trigger, NextIteration, ldmaVars, MaybeIndex, States
<1>5. EntriesConserved'
  <2>1. free.n \in Nat /\ Len(ready) \in Nat /\ Len(hist) \in Nat /\ Len(tx) \in Nat
        /\ leaked \in Nat /\ One(curTx) \in Nat
    BY DEF IInv, TypeOK, FreeType, One
  <2>2. UNCHANGED <<free, ready, curTx, leaked>> /\ hand' = NoChunk
    BY DEF Trigger, NextIteration, ldmaVars
  <2>3. QED
    BY <1>1, <1>2, <1>3, <2>1, <2>2 DEF EntriesConserved, One
<1>6. ChannelInStep' /\ LoopShape'
  BY DEF IInv, ChannelInStep, LoopShape, Trigger, NextIteration, ldmaVars
<1>7. QED
  BY <1>4, <1>5, <1>6 DEF IInv

LEMMA KeepHistoryStep == ASSUME IInv, KeepHistory PROVE IInv'
<1> DEFINE h == Append(hist, hand)
<1>1. hand \in Index /\ free \in FreeType /\ free.n < RING_N
      /\ free.n + Len(ready) + Len(hist) + Len(tx) + 1 + One(curTx) + leaked = RING_N
  BY SortFacts DEF KeepHistory
<1>2. h \in Seq(Index) /\ h # <<>> /\ Len(h) = Len(hist) + 1
  BY <1>1, AppendFacts DEF IInv, TypeOK
<1>3. \/ hist' = Tail(h) /\ ReturnToFree(Head(h))
      \/ hist' = h /\ UNCHANGED <<free, lost>>
  BY DEF KeepHistory
<1> HIDE DEF h
<1>4. /\ hist' \in Seq(Index) /\ free' \in FreeType /\ lost' \in MaybeIndex
      /\ free'.n + Len(hist') = free.n + Len(hist) + 1
  <2>1. CASE hist' = Tail(h) /\ ReturnToFree(Head(h))
    <3>1. Head(h) \in Index /\ hist' \in Seq(Index) /\ Len(hist') = Len(hist)
      BY <1>2, <2>1, PopFacts DEF IInv, TypeOK
    <3>2. free' \in FreeType /\ free'.n = free.n + 1 /\ lost' \in MaybeIndex
      BY <1>1, <2>1, <3>1, ReturnToFreeType DEF IInv, TypeOK
    <3>3. free.n \in Nat /\ Len(hist) \in Nat
      BY DEF IInv, TypeOK, FreeType
    <3>4. free'.n + Len(hist') = free.n + Len(hist) + 1
      BY <3>1, <3>2, <3>3
    <3>5. QED
      BY <3>1, <3>2, <3>4
  <2>2. CASE hist' = h /\ UNCHANGED <<free, lost>>
    <3>1. free.n \in Nat /\ Len(hist) \in Nat /\ lost \in MaybeIndex
      BY DEF IInv, TypeOK, FreeType
    <3>2. free'.n + Len(hist') = free.n + Len(hist) + 1
      BY <1>2, <2>2, <3>1
    <3>3. QED
      BY <1>1, <1>2, <2>2, <3>1, <3>2
  <2>3. QED
    BY <1>3, <2>1, <2>2
<1>5. TypeOK'
  BY <1>4 DEF IInv, TypeOK, KeepHistory, NextIteration, ldmaVars, capVars, MaybeIndex
<1>6. EntriesConserved'
  <2>1. free.n \in Nat /\ free'.n \in Nat /\ Len(ready) \in Nat /\ Len(hist) \in Nat
        /\ Len(hist') \in Nat /\ Len(tx) \in Nat /\ leaked \in Nat /\ One(curTx) \in Nat
    BY <1>4 DEF IInv, TypeOK, FreeType, One
  <2>2. UNCHANGED <<tx, ready, curTx, leaked>> /\ hand' = NoChunk
    BY DEF KeepHistory, NextIteration, ldmaVars
  <2>3. One(hand') = 0 /\ One(curTx') = One(curTx)
    BY <2>2 DEF One
  <2>4. Len(ready') = Len(ready) /\ Len(tx') = Len(tx) /\ leaked' = leaked
    BY <2>2
  <2>5. free'.n + Len(ready') + Len(hist') + Len(tx') + One(hand') + One(curTx') + leaked'
          = RING_N
    <3> DEFINE f == free.n  r == Len(ready)  k == Len(hist)  t == Len(tx)
               c == One(curTx)  f2 == free'.n  k2 == Len(hist')
    <3>1. f + r + k + t + 1 + c + leaked = RING_N /\ f2 + k2 = f + k + 1
      BY <1>1, <1>4
    <3>2. /\ f \in Nat /\ r \in Nat /\ k \in Nat /\ t \in Nat /\ c \in Nat
          /\ f2 \in Nat /\ k2 \in Nat /\ leaked \in Nat
      BY <2>1
    <3> HIDE DEF f, r, k, t, c, f2, k2
    <3>3. f2 + r + k2 + t + 0 + c + leaked = RING_N
      BY <3>1, <3>2, RingIsNat
    <3>4. QED
      BY <2>3, <2>4, <3>3 DEF f2, r, k2, t, c
  <2>6. QED
    BY <2>5 DEF EntriesConserved
<1>7. ChannelInStep' /\ LoopShape'
  BY DEF IInv, ChannelInStep, LoopShape, KeepHistory, NextIteration, ldmaVars
<1>8. QED
  BY <1>5, <1>6, <1>7 DEF IInv

LEMMA SendPostStep ==
  ASSUME IInv, NEW isHot \in BOOLEAN, SendPost(isHot)
  PROVE  IInv'
<1>1. hand \in Index
      /\ free.n + Len(ready) + Len(hist) + Len(tx) + 1 + One(curTx) + leaked = RING_N
  BY SortFacts DEF SendPost
<1>2. tx' \in Seq(Index) /\ Len(tx') = Len(tx) + 1
  BY <1>1, AppendFacts DEF IInv, TypeOK, SendPost
<1>3. postRemaining' \in 0 .. POSTTRIGGER_CHUNKS /\ capState' \in States
  BY ConfigAssumption DEF IInv, TypeOK, SendPost, PostLeft, States
<1>4. TypeOK'
  BY <1>2, <1>3
  DEF IInv, TypeOK, SendPost, NextIteration, ldmaVars, MaybeIndex
<1>5. EntriesConserved'
  <2>1. free.n \in Nat /\ Len(ready) \in Nat /\ Len(hist) \in Nat /\ Len(tx) \in Nat
        /\ leaked \in Nat /\ One(curTx) \in Nat
    BY DEF IInv, TypeOK, FreeType, One
  <2>2. UNCHANGED <<free, ready, hist, curTx, leaked>> /\ hand' = NoChunk
    BY DEF SendPost, NextIteration, ldmaVars
  <2>3. One(hand') = 0 /\ One(curTx') = One(curTx)
    BY <2>2 DEF One
  <2>4. free'.n = free.n /\ Len(ready') = Len(ready) /\ Len(hist') = Len(hist) /\ leaked' = leaked
    BY <2>2
  <2>5. free'.n + Len(ready') + Len(hist') + Len(tx') + One(hand') + One(curTx') + leaked'
          = RING_N
    BY <1>1, <1>2, <2>1, <2>3, <2>4, RingIsNat
  <2>6. QED
    BY <2>5 DEF EntriesConserved
<1>6. ChannelInStep' /\ LoopShape'
  BY DEF IInv, ChannelInStep, LoopShape, SendPost, NextIteration, ldmaVars
<1>7. QED
  BY <1>4, <1>5, <1>6 DEF IInv

LEMMA EndDrainStep == ASSUME IInv, EndDrain PROVE IInv'
<1>1. TypeOK'
  BY DEF IInv, TypeOK, EndDrain, ldmaVars, capVars, MaybeIndex
<1>2. EntriesConserved'
  BY DEF IInv, EntriesConserved, EndDrain, One, ldmaVars
<1>3. ChannelInStep' /\ LoopShape'
  BY DEF IInv, ChannelInStep, LoopShape, EndDrain, ldmaVars
<1>4. QED
  BY <1>1, <1>2, <1>3 DEF IInv

LEMMA StartTxStep == ASSUME IInv, StartTx PROVE IInv'
<1>1. hand = NoChunk /\ (~ldmaActive => curTx = NoChunk) /\ pc' = "poll"
  BY DEF IInv, LoopShape, StartTx
<1>2. UNCHANGED <<free, ready, hist, hand, capVars, polls, iter, lost, leaked>>
  BY DEF StartTx
<1>3. CASE ~ldmaActive /\ tx # <<>> /\ LoadNextTx /\ csLow' = TRUE /\ ldmaActive' = TRUE
  <2>1. Head(tx) \in Index /\ tx' \in Seq(Index) /\ Len(tx') = Len(tx) - 1
    BY <1>3, PopFacts DEF IInv, TypeOK, LoadNextTx
  <2>2. TypeOK'
    BY <1>1, <1>2, <1>3, <2>1 DEF IInv, TypeOK, LoadNextTx, capVars, MaybeIndex
  <2>3. EntriesConserved'
    BY <1>1, <1>2, <1>3, <2>1, IndexIsNotNoChunk
    DEF IInv, TypeOK, EntriesConserved, LoadNextTx, One, FreeType
  <2>4. ChannelInStep' /\ LoopShape'
    BY <1>1, <1>2, <1>3, <2>1, IndexIsNotNoChunk
    DEF IInv, ChannelInStep, LoopShape, LoadNextTx
  <2>5. QED
    BY <2>2, <2>3, <2>4 DEF IInv
<1>4. CASE (ldmaActive \/ tx = <<>>) /\ UNCHANGED <<tx, ldmaVars>>
  <2>1. TypeOK'
    BY <1>1, <1>2, <1>4 DEF IInv, TypeOK, ldmaVars, capVars, MaybeIndex
  <2>2. EntriesConserved'
    BY <1>2, <1>4 DEF IInv, EntriesConserved, One, ldmaVars
  <2>3. ChannelInStep' /\ LoopShape'
    BY <1>1, <1>2, <1>4 DEF IInv, ChannelInStep, LoopShape, StartTx, ldmaVars
  <2>4. QED
    BY <2>1, <2>2, <2>3 DEF IInv
<1>5. QED
  BY <1>3, <1>4 DEF StartTx

(* Stop forgets the current chunk: what conservation loses as an owner it  *)
(* gains in leaked.                                                        *)
LEMMA StopStep == ASSUME IInv, Stop PROVE IInv'
<1>1. curTx \in Index /\ wire = NoChunk
  BY DEF IInv, TypeOK, LoopShape, ChannelInStep, Stop, MaybeIndex
<1>2. UNCHANGED <<free, ready, hist, tx, hand, lost, wire>> /\ leaked' = leaked + 1
      /\ curTx' = NoChunk
  BY DEF Stop
<1>3. /\ free.n \in Nat /\ Len(ready) \in Nat /\ Len(hist) \in Nat /\ Len(tx) \in Nat
      /\ leaked \in Nat /\ One(hand) \in Nat
      /\ free.n + Len(ready) + Len(hist) + Len(tx) + One(hand) + 1 + leaked = RING_N
  BY <1>1, IndexIsNotNoChunk DEF IInv, TypeOK, EntriesConserved, One, FreeType
<1>4. leaked' \in 0 .. RING_N
  BY SMTT(20), <1>2, <1>3, ConfigAssumption
<1>5. TypeOK'
  BY <1>2, <1>4 DEF IInv, TypeOK, Stop, capVars, loopVars, MaybeIndex
<1>6. EntriesConserved'
  <2>1. One(curTx') = 0 /\ One(hand') = One(hand)
    BY <1>2 DEF One
  <2>2. /\ free'.n = free.n /\ Len(ready') = Len(ready) /\ Len(hist') = Len(hist)
        /\ Len(tx') = Len(tx) /\ leaked' = leaked + 1
    BY <1>2
  <2>3. free'.n + Len(ready') + Len(hist') + Len(tx') + One(hand') + One(curTx') + leaked'
          = RING_N
    BY SMTT(20), <1>3, <2>1, <2>2, RingIsNat
  <2>4. QED
    BY <2>3 DEF EntriesConserved
<1>7. ChannelInStep' /\ LoopShape'
  BY <1>1 DEF IInv, ChannelInStep, LoopShape, Stop, loopVars
<1>8. QED
  BY <1>5, <1>6, <1>7 DEF IInv

-----------------------------------------------------------------------------
LEMMA NextIInv == IInv /\ [Next]_vars => IInv'
<1> SUFFICES ASSUME IInv, [Next]_vars PROVE IInv'
  OBVIOUS
<1>1. CASE RxEvent
  BY <1>1, RxEventStep
<1>2. CASE TransferDone
  BY <1>2, TransferDoneStep
<1>3. CASE MainLoop
  BY <1>3, PollBusyStep, PollRecycleStep, PollNextStep, EndPollsStep, TakeReadyStep,
     TriggerStep, KeepHistoryStep, SendPostStep, EndDrainStep, StartTxStep
  DEF MainLoop
<1>4. CASE Stop
  BY <1>4, StopStep
<1>5. CASE UNCHANGED vars
  <2>1. TypeOK'
    BY <1>5 DEF IInv, TypeOK, vars, ldmaVars, capVars, loopVars, MaybeIndex
  <2>2. EntriesConserved'
    BY <1>5 DEF IInv, EntriesConserved, One, vars, ldmaVars
  <2>3. ChannelInStep' /\ LoopShape'
    BY <1>5 DEF IInv, ChannelInStep, LoopShape, vars, ldmaVars, loopVars
  <2>4. QED
    BY <2>1, <2>2, <2>3 DEF IInv
<1>6. QED
  BY <1>1, <1>2, <1>3, <1>4, <1>5 DEF Next

(* The inductive invariant: types, entries, channel and loop together.     *)
THEOREM Invariance == Spec => []IInv
  BY InitIInv, NextIInv, PTL DEF Spec

(* Type correctness of the buffer life cycle, for every configuration.     *)
THEOREM TypeCorrect == Spec => []TypeOK
<1>1. IInv => TypeOK
  BY DEF IInv
<1>2. QED
  BY <1>1, Invariance, PTL

(* Queue entries are conserved under every interleaving of the interrupt,  *)
(* the main loop, the LDMA channel and stop.                               *)
THEOREM Conservation == Spec => []EntriesConserved
<1>1. IInv => EntriesConserved
  BY DEF IInv
<1>2. QED
  BY <1>1, Invariance, PTL

(* No ring ever holds more than RING_N entries, which is what makes        *)
(* q_push, which does not look, safe.                                      *)
NoRingOverflows ==
  free.n <= RING_N /\ Len(ready) <= RING_N /\ Len(hist) <= RING_N /\ Len(tx) <= RING_N

THEOREM RingsSuffice == Spec => []NoRingOverflows
<1>1. IInv => NoRingOverflows
  <2> SUFFICES ASSUME IInv PROVE NoRingOverflows
    OBVIOUS
  <2>1. /\ free.n \in Nat /\ Len(ready) \in Nat /\ Len(hist) \in Nat /\ Len(tx) \in Nat
        /\ leaked \in Nat /\ One(hand) \in Nat /\ One(curTx) \in Nat
    BY DEF IInv, TypeOK, One, FreeType
  <2>2. free.n + Len(ready) + Len(hist) + Len(tx) + One(hand) + One(curTx) + leaked
          = RING_N
    BY DEF IInv, EntriesConserved
  <2>3. QED
    BY SMTT(20), <2>1, <2>2, RingIsNat DEF NoRingOverflows
<1>2. QED
  BY <1>1, Invariance, PTL

(* The polled driver and the LDMA channel agree in every configuration.    *)
THEOREM DriverInStep == Spec => []ChannelInStep
<1>1. IInv => ChannelInStep
  BY DEF IInv
<1>2. QED
  BY <1>1, Invariance, PTL

-----------------------------------------------------------------------------
(* How often a chunk occurs in a sequence.                                 *)

LEMMA HeadAndTail ==
  ASSUME NEW S, NEW s \in Seq(S), s # <<>>
  PROVE  <<Head(s)>> \in Seq(S) /\ Tail(s) \in Seq(S) /\ s = <<Head(s)>> \o Tail(s)
<1>1. Head(s) \in S /\ Tail(s) \in Seq(S) /\ Len(Tail(s)) = Len(s) - 1 /\ Len(s) \in Nat \ {0}
      /\ \A i \in 1 .. Len(Tail(s)) : Tail(s)[i] = s[i + 1]
  BY HeadTailProperties, EmptySeq
<1> DEFINE h == <<Head(s)>>  t == Tail(s)
<1>2. h \in Seq(S) /\ Len(h) = 1 /\ h[1] = s[1]
  BY <1>1
<1> HIDE DEF h, t
<1>3. /\ h \o t \in Seq(S) /\ Len(h \o t) = Len(s)
      /\ \A i \in 1 .. Len(s) : (h \o t)[i] = IF i <= 1 THEN h[i] ELSE t[i - 1]
  <2>1. t \in Seq(S) /\ Len(t) = Len(s) - 1 /\ Len(s) \in Nat \ {0}
    BY <1>1 DEF t
  <2>2. /\ h \o t \in Seq(S) /\ Len(h \o t) = Len(h) + Len(t)
        /\ \A i \in 1 .. Len(h) + Len(t) :
             (h \o t)[i] = IF i <= Len(h) THEN h[i] ELSE t[i - Len(h)]
    BY <1>2, <2>1, ConcatProperties
  <2>3. Len(h) + Len(t) = Len(s)
    BY <1>2, <2>1
  <2>4. QED
    BY <1>2, <2>2, <2>3
<1>4. ASSUME NEW i \in 1 .. Len(s) PROVE (h \o t)[i] = s[i]
  <2>1. CASE i = 1
    BY <1>2, <1>3, <2>1
  <2>2. CASE i # 1
    <3>1. i - 1 \in 1 .. Len(t) /\ i > 1
      BY <1>1, <2>2 DEF t
    <3>2. t[i - 1] = s[i - 1 + 1]
      BY <1>1, <3>1 DEF t
    <3>3. QED
      BY <1>3, <3>1, <3>2
  <2>3. QED
    BY <2>1, <2>2
<1>5. s = h \o t
  BY <1>3, <1>4, SeqEqual
<1>6. QED
  BY <1>1, <1>2, <1>5 DEF h, t

LEMMA OccursFinite ==
  ASSUME NEW S, NEW s \in Seq(S), NEW c
  PROVE  /\ IsFiniteSet({i \in DOMAIN s : s[i] = c}) /\ Occurs(s, c) \in Nat
         /\ Occurs(s, c) = 0 => \A i \in DOMAIN s : s[i] # c
<1>1. DOMAIN s = 1 .. Len(s) /\ Len(s) \in Nat
  BY LenProperties
<1>2. IsFiniteSet(1 .. Len(s))
  BY <1>1, FS_Interval
<1>3. {i \in DOMAIN s : s[i] = c} \in SUBSET (1 .. Len(s))
  BY <1>1
<1>4. IsFiniteSet({i \in DOMAIN s : s[i] = c})
  BY <1>2, <1>3, FS_Subset
<1>5. QED
  BY <1>4, FS_CardinalityType, FS_EmptySet DEF Occurs

LEMMA ShiftedCount ==
  ASSUME NEW P \in SUBSET Int, IsFiniteSet(P), NEW k \in Int
  PROVE  /\ IsFiniteSet({i + k : i \in P})
         /\ Cardinality({i + k : i \in P}) = Cardinality(P)
<1> DEFINE Q == {i + k : i \in P}
           f == [i \in P |-> i + k]
<1>1. f \in [P -> Q]
  OBVIOUS
<1>2. ASSUME NEW a \in P, NEW b \in P, f[a] = f[b] PROVE a = b
  BY <1>2
<1>3. \A t \in Q : \E i \in P : f[i] = t
  OBVIOUS
<1>4. f \in Bijection(P, Q)
  BY <1>1, <1>2, <1>3 DEF Bijection, Injection, Surjection, IsInjective
<1>5. ExistsBijection(P, Q)
  BY <1>4 DEF ExistsBijection
<1>6. QED
  BY <1>5, FS_Bijection

LEMMA OccursConcat ==
  ASSUME NEW S, NEW s \in Seq(S), NEW t \in Seq(S), NEW c
  PROVE  Occurs(s \o t, c) = Occurs(s, c) + Occurs(t, c)
<1> DEFINE A == {i \in DOMAIN s : s[i] = c}
           B == {i \in DOMAIN t : t[i] = c}
           B2 == {i + Len(s) : i \in B}
           C == {i \in DOMAIN (s \o t) : (s \o t)[i] = c}
<1>1. /\ DOMAIN s = 1 .. Len(s) /\ Len(s) \in Nat /\ DOMAIN t = 1 .. Len(t) /\ Len(t) \in Nat
      /\ s \o t \in Seq(S) /\ Len(s \o t) = Len(s) + Len(t)
      /\ \A i \in 1 .. Len(s) + Len(t) :
           (s \o t)[i] = IF i <= Len(s) THEN s[i] ELSE t[i - Len(s)]
  BY LenProperties, ConcatProperties
<1>2. DOMAIN (s \o t) = 1 .. Len(s) + Len(t)
  BY <1>1, LenProperties
<1>3. ASSUME NEW i \in C PROVE i \in A \cup B2
  <2>1. i \in 1 .. Len(s) + Len(t) /\ (s \o t)[i] = c
    BY <1>2
  <2>2. CASE i <= Len(s)
    BY <1>1, <2>1, <2>2
  <2>3. CASE ~(i <= Len(s))
    <3>1. i - Len(s) \in B /\ i = (i - Len(s)) + Len(s)
      BY <1>1, <2>1, <2>3
    <3>2. QED
      BY <3>1
  <2>4. QED
    BY <2>2, <2>3
<1>4. ASSUME NEW i \in A PROVE i \in C
  BY <1>1, <1>2
<1>5. ASSUME NEW i \in B2 PROVE i \in C /\ i \notin A
  <2>1. PICK j \in B : i = j + Len(s)
    OBVIOUS
  <2>2. j \in 1 .. Len(t) /\ t[j] = c
    BY <1>1
  <2>3. i \in 1 .. Len(s) + Len(t) /\ ~(i <= Len(s)) /\ i - Len(s) = j
    BY <1>1, <2>1, <2>2
  <2>4. QED
    BY <1>1, <1>2, <2>2, <2>3
<1>6. C = A \cup B2 /\ A \cap B2 = {}
  BY <1>3, <1>4, <1>5
<1>7. IsFiniteSet(A) /\ IsFiniteSet(B) /\ B \in SUBSET Int /\ Len(s) \in Int
  <2>1. IsFiniteSet(A)
    BY OccursFinite
  <2>2. IsFiniteSet(B)
    BY OccursFinite
  <2>3. B \in SUBSET Int /\ Len(s) \in Int
    BY <1>1
  <2>4. QED
    BY <2>1, <2>2, <2>3
<1> HIDE DEF B
<1>8. IsFiniteSet(B2) /\ Cardinality(B2) = Cardinality(B)
  BY <1>7, ShiftedCount
<1> HIDE DEF A, B, B2, C
<1>9. Cardinality(A \cup B2) = Cardinality(A) + Cardinality(B2) - Cardinality(A \cap B2)
  BY <1>7, <1>8, FS_Union
<1>10. Cardinality({}) = 0 /\ Cardinality(A) \in Nat /\ Cardinality(B) \in Nat
  BY <1>7, FS_EmptySet, FS_CardinalityType
<1>11. Cardinality(C) = Cardinality(A) + Cardinality(B)
  <2>1. Cardinality(A \cap B2) = 0 /\ Cardinality(C) = Cardinality(A \cup B2)
    BY <1>6, <1>10
  <2>2. QED
    BY <1>8, <1>9, <1>10, <2>1
<1>12. QED
  BY <1>11 DEF Occurs, A, B, C

LEMMA OccursSmall ==
  ASSUME NEW e, NEW c
  PROVE  Occurs(<<>>, c) = 0 /\ Occurs(<<e>>, c) = IF e = c THEN 1 ELSE 0
<1>1. {i \in DOMAIN <<>> : <<>>[i] = c} = {}
  OBVIOUS
<1>2. {i \in DOMAIN <<e>> : <<e>>[i] = c} = IF e = c THEN {1} ELSE {}
  OBVIOUS
<1>3. QED
  BY <1>1, <1>2, FS_EmptySet, FS_Singleton DEF Occurs

LEMMA OccursAppend ==
  ASSUME NEW S, NEW s \in Seq(S), NEW e \in S, NEW c
  PROVE  Occurs(Append(s, e), c) = Occurs(s, c) + IF e = c THEN 1 ELSE 0
<1>1. Append(s, e) = s \o <<e>> /\ <<e>> \in Seq(S)
  BY AppendIsConcat
<1>2. Occurs(s \o <<e>>, c) = Occurs(s, c) + Occurs(<<e>>, c)
  BY <1>1, OccursConcat
<1>3. QED
  BY <1>1, <1>2, OccursSmall

LEMMA OccursTail ==
  ASSUME NEW S, NEW s \in Seq(S), s # <<>>, NEW c
  PROVE  Occurs(s, c) = Occurs(Tail(s), c) + IF Head(s) = c THEN 1 ELSE 0
<1> DEFINE h == <<Head(s)>>  t == Tail(s)
<1>1. h \in Seq(S) /\ t \in Seq(S) /\ s = h \o t
  BY HeadAndTail
<1>2. Occurs(h, c) = IF Head(s) = c THEN 1 ELSE 0
  BY OccursSmall
<1> HIDE DEF h, t
<1>3. Occurs(s, c) = Occurs(h, c) + Occurs(t, c) /\ Occurs(t, c) \in Nat
  BY <1>1, OccursConcat, OccursFinite
<1>4. QED
  BY <1>2, <1>3 DEF t

-----------------------------------------------------------------------------
(* The free queue as a sequence.                                           *)

LEMMA Wrap ==
  ASSUME NEW x \in Nat, x < 2 * RING_N
  PROVE  x % RING_N = IF x < RING_N THEN x ELSE x - RING_N
  BY ConfigAssumption

LEMMA RemainderInIndex == \A k \in Nat : k % RING_N \in Index
  BY ConfigAssumption DEF Index

LEMMA FreeSeqType ==
  ASSUME free \in FreeType
  PROVE  FreeSeq \in Seq(Index) /\ Len(FreeSeq) = free.n /\ DOMAIN FreeSeq = 1 .. free.n
<1>1. free.n \in Nat /\ free.h \in Nat /\ free.q \in [Index -> Index]
  BY DEF FreeType, Index
<1>2. ASSUME NEW i \in 1 .. free.n PROVE (free.h + i - 1) % RING_N \in Index
  <2>1. free.h + i - 1 \in Nat
    BY <1>1
  <2>2. QED
    BY <2>1, RemainderInIndex
<1>3. QED
  BY <1>1, <1>2 DEF FreeSeq

LEMMA FreeSeqPop ==
  ASSUME free \in FreeType, free.n > 0, free' = FreePop(free)
  PROVE  FreeSeq # <<>> /\ Head(FreeSeq) = FreeHead /\ FreeSeq' = Tail(FreeSeq)
<1>1. /\ free.n \in Nat /\ free.h \in 0 .. RING_N - 1 /\ free.n <= RING_N /\ RING_N \in Nat
  BY ConfigAssumption DEF FreeType, Index
<1>2. /\ free'.n = free.n - 1 /\ free'.q = free.q /\ free'.h = (free.h + 1) % RING_N
  BY DEF FreePop
<1>3. FreeSeq \in Seq(Index) /\ Len(FreeSeq) = free.n
  BY FreeSeqType
<1>4. free' \in FreeType
  BY FreePopType
<1>5. FreeSeq' \in Seq(Index) /\ Len(FreeSeq') = free.n - 1
  <2>1. free'.n \in Nat /\ free'.h \in Nat /\ free'.q \in [Index -> Index]
    BY <1>4 DEF FreeType, Index
  <2>2. ASSUME NEW i \in 1 .. free'.n PROVE (free'.h + i - 1) % RING_N \in Index
    <3>1. free'.h + i - 1 \in Nat
      BY <2>1
    <3>2. QED
      BY <3>1, RemainderInIndex
  <2>3. QED
    BY <1>2, <2>1, <2>2 DEF FreeSeq
<1>6. FreeSeq # <<>>
  BY <1>1, <1>3, EmptySeq
<1>7. Head(FreeSeq) = FreeHead
  <2>1. Head(FreeSeq) = FreeSeq[1]
    BY <1>3, <1>6
  <2>2. (free.h + 1 - 1) % RING_N = free.h
    BY <1>1, Wrap
  <2>3. 1 \in 1 .. free.n
    BY <1>1
  <2>4. FreeSeq[1] = free.q[(free.h + 1 - 1) % RING_N]
    BY <2>3, Zenon DEF FreeSeq
  <2>5. QED
    BY <2>1, <2>2, <2>4, Zenon DEF FreeHead
<1>8. /\ Tail(FreeSeq) \in Seq(Index) /\ Len(Tail(FreeSeq)) = free.n - 1
      /\ \A i \in 1 .. free.n - 1 : Tail(FreeSeq)[i] = FreeSeq[i + 1]
  BY <1>3, <1>6, HeadTailProperties
<1>9. ASSUME NEW i \in 1 .. free.n - 1 PROVE FreeSeq'[i] = Tail(FreeSeq)[i]
  <2>1. FreeSeq'[i] = free.q[(free'.h + i - 1) % RING_N]
    BY <1>2, <1>9 DEF FreeSeq
  <2>2. Tail(FreeSeq)[i] = free.q[(free.h + i) % RING_N]
    <3>1. i + 1 \in 1 .. free.n /\ free.h + (i + 1) - 1 = free.h + i
      BY <1>1, <1>9
    <3>2. FreeSeq[i + 1] = free.q[(free.h + (i + 1) - 1) % RING_N]
      BY <3>1 DEF FreeSeq
    <3>3. QED
      BY <1>8, <1>9, <3>1, <3>2
  <2>3. (free'.h + i - 1) % RING_N = (free.h + i) % RING_N
    <3>1. free'.h = IF free.h + 1 < RING_N THEN free.h + 1 ELSE 0
      BY <1>1, <1>2, Wrap
    <3>2. CASE free.h + 1 < RING_N
      BY <1>1, <3>1, <3>2
    <3>3. CASE ~(free.h + 1 < RING_N)
      <4>1. free'.h = 0 /\ free.h = RING_N - 1
        BY <1>1, <3>1, <3>3
      <4>2. (free'.h + i - 1) % RING_N = i - 1
        BY <1>1, <1>9, <4>1, Wrap
      <4>3. (free.h + i) % RING_N = free.h + i - RING_N
        <5>1. PICK x \in Nat : x = free.h + i
          BY <1>1, <1>9
        <5>2. x < 2 * RING_N /\ ~(x < RING_N)
          BY <1>1, <1>9, <4>1, <5>1
        <5>3. x % RING_N = x - RING_N
          BY <5>2, Wrap
        <5>4. QED
          BY <1>1, <5>1, <5>3
      <4>4. QED
        BY <1>1, <4>1, <4>2, <4>3
    <3>4. QED
      BY <3>2, <3>3
  <2>4. QED
    BY <2>1, <2>2, <2>3
<1>10. QED
  BY <1>5, <1>6, <1>7, <1>8, <1>9, SeqEqual

\* The end of the free queue: the entry behind the last one.
FreeEnd ==
  IF free.h + free.n < RING_N THEN free.h + free.n ELSE free.h + free.n - RING_N

(* The tail is where the entries end, except that before the first push it *)
(* is one past the array, which then holds what spi_init put there.        *)
RingShape ==
  \/ free.t = FreeEnd
  \/ free.t = RING_N /\ FreeEnd = 0 /\ lost = NoChunk /\ free.q = [i \in Index |-> i]

\* The entry that a push makes live.
Stored(idx) == IF free.t \in Index THEN idx ELSE free.q[0]

LEMMA FreeEndType == ASSUME free \in FreeType PROVE FreeEnd \in Index
<1>1. PICK h \in 0 .. RING_N - 1, n \in 0 .. RING_N : h = free.h /\ n = free.n
  BY DEF FreeType, Index
<1>2. FreeEnd = IF h + n < RING_N THEN h + n ELSE h + n - RING_N
  BY <1>1 DEF FreeEnd
<1>3. QED
  BY <1>1, <1>2, ConfigAssumption DEF Index

LEMMA RingShapePop ==
  ASSUME free \in FreeType, free.n > 0, RingShape, free' = FreePop(free), UNCHANGED lost
  PROVE  RingShape'
<1>1. /\ free.n \in Nat /\ free.h \in 0 .. RING_N - 1 /\ free.n <= RING_N /\ RING_N \in Nat
  BY ConfigAssumption DEF FreeType, Index
<1>2. /\ free'.n = free.n - 1 /\ free'.q = free.q /\ free'.t = free.t
      /\ free'.h = (free.h + 1) % RING_N
  BY DEF FreePop
<1>3. free'.h = IF free.h + 1 < RING_N THEN free.h + 1 ELSE free.h + 1 - RING_N
  BY <1>1, <1>2, Wrap
<1>4. FreeEnd' = FreeEnd
  BY <1>1, <1>2, <1>3 DEF FreeEnd
<1>5. QED
  BY <1>2, <1>4 DEF RingShape

LEMMA FreeSeqPush ==
  ASSUME free \in FreeType, free.n < RING_N, lost \in MaybeIndex, RingShape,
         NEW idx \in Index, ReturnToFree(idx)
  PROVE  /\ FreeSeq' = Append(FreeSeq, Stored(idx)) /\ Stored(idx) \in Index
         /\ RingShape' /\ free'.t # RING_N
         /\ lost' = IF Stored(idx) = idx THEN lost ELSE idx
         /\ Stored(idx) # idx => lost = NoChunk /\ Stored(idx) = 0
<1>1. /\ free.n \in Nat /\ free.h \in 0 .. RING_N - 1 /\ RING_N \in Nat /\ RING_N > 0
      /\ free.q \in [Index -> Index] /\ free.t \in 0 .. RING_N /\ free.n < RING_N
  <2>1. /\ free.n \in 0 .. RING_N /\ free.h \in Index /\ free.q \in [Index -> Index]
        /\ free.t \in 0 .. RING_N
    BY DEF FreeType
  <2>2. RING_N \in Nat /\ RING_N > 0
    BY ConfigAssumption
  <2>3. free.n \in Nat /\ free.n < RING_N
    BY <2>1, <2>2
  <2>4. free.h \in 0 .. RING_N - 1
    BY <2>1 DEF Index
  <2>5. QED
    BY <2>1, <2>2, <2>3, <2>4
<1>2. /\ free'.n = free.n + 1 /\ free'.h = free.h /\ free'.t = (free.t + 1) % RING_N
      /\ free'.q = IF free.t \in Index THEN [free.q EXCEPT ![free.t] = idx] ELSE free.q
      /\ lost' = IF free.t \in Index \/ idx = free.q[0] THEN lost ELSE idx
  BY DEF ReturnToFree, FreePush
<1>3. FreeEnd \in Index
  BY FreeEndType
<1>4. free.t \notin Index =>
        /\ free.t = RING_N /\ FreeEnd = 0 /\ lost = NoChunk /\ free.q = [i \in Index |-> i]
  BY <1>3 DEF RingShape
<1>5. 0 \in Index /\ RING_N \notin Index
  BY <1>1 DEF Index
<1>6. Stored(idx) \in Index
  BY <1>1, <1>5 DEF Stored
<1>7. free'.q[FreeEnd] = Stored(idx) /\ \A j \in Index \ {FreeEnd} : free'.q[j] = free.q[j]
  <2>1. CASE free.t \in Index
    BY <1>1, <1>2, <1>3, <1>5, <2>1 DEF RingShape, Stored
  <2>2. CASE free.t \notin Index
    BY <1>2, <1>4, <2>2 DEF Stored
  <2>3. QED
    BY <2>1, <2>2
<1>8. free'.t = IF FreeEnd + 1 < RING_N THEN FreeEnd + 1 ELSE FreeEnd + 1 - RING_N
  <2>1. CASE free.t = FreeEnd
    <3>1. PICK x \in Nat : x = free.t + 1
      BY <1>1
    <3>2. FreeEnd \in 0 .. RING_N - 1 /\ x = FreeEnd + 1
      BY <1>3, <2>1, <3>1 DEF Index
    <3>3. x < 2 * RING_N
      BY <1>1, <3>2
    <3>4. x % RING_N = IF x < RING_N THEN x ELSE x - RING_N
      BY <3>3, Wrap
    <3>5. free'.t = x % RING_N
      BY <1>2, <3>1
    <3>6. QED
      BY <1>1, <3>2, <3>4, <3>5
  <2>2. CASE free.t = RING_N /\ FreeEnd = 0
    <3>1. CASE RING_N = 1
      BY <1>2, <2>2, <3>1
    <3>2. CASE RING_N > 1
      <4>1. (RING_N + 1) % RING_N = 1
        <5>1. PICK x \in Nat : x = RING_N + 1
          BY <1>1
        <5>2. x < 2 * RING_N /\ ~(x < RING_N)
          BY <1>1, <3>2, <5>1
        <5>3. x % RING_N = x - RING_N
          BY <5>2, Wrap
        <5>4. QED
          BY <1>1, <5>1, <5>3
      <4>2. QED
        BY <1>2, <2>2, <3>2, <4>1
    <3>3. QED
      BY <1>1, <3>1, <3>2
  <2>3. QED
    BY <2>1, <2>2 DEF RingShape
<1>9. FreeEnd' = free'.t
  BY <1>1, <1>2, <1>8 DEF FreeEnd
<1>10. RingShape' /\ free'.t # RING_N
  <2>1. free'.t \in Index
    BY <1>1, <1>3, <1>8 DEF Index
  <2>2. QED
    BY <1>5, <1>9, <2>1 DEF RingShape
<1>11. /\ FreeSeq \in Seq(Index) /\ Len(FreeSeq) = free.n
       /\ DOMAIN FreeSeq = 1 .. free.n
  BY FreeSeqType
<1>12. /\ Append(FreeSeq, Stored(idx)) \in Seq(Index)
       /\ Len(Append(FreeSeq, Stored(idx))) = free.n + 1
       /\ \A i \in 1 .. free.n : Append(FreeSeq, Stored(idx))[i] = FreeSeq[i]
       /\ Append(FreeSeq, Stored(idx))[free.n + 1] = Stored(idx)
  BY <1>6, <1>11, AppendProperties
<1>13. FreeSeq' \in Seq(Index) /\ Len(FreeSeq') = free.n + 1
  <2>1. free' \in FreeType
    BY FreePushType DEF ReturnToFree
  <2>2. free'.n \in Nat /\ free'.h \in Nat /\ free'.q \in [Index -> Index]
    BY <2>1 DEF FreeType, Index
  <2>3. ASSUME NEW i \in 1 .. free'.n PROVE (free'.h + i - 1) % RING_N \in Index
    <3>1. PICK x \in Nat : x = free'.h + i - 1
      BY <2>2, <2>3
    <3>2. x % RING_N \in Index
      BY ConfigAssumption DEF Index
    <3>3. QED
      BY <3>1, <3>2
  <2>4. QED
    BY <1>2, <2>2, <2>3 DEF FreeSeq
<1>14. ASSUME NEW i \in 1 .. free.n + 1 PROVE FreeSeq'[i] = Append(FreeSeq, Stored(idx))[i]
  <2>1. FreeSeq'[i] = free'.q[(free.h + i - 1) % RING_N]
    BY <1>2, <1>14 DEF FreeSeq
  <2>2. PICK x \in Nat : x = free.h + i - 1
    BY <1>1, <1>14
  <2>3. x % RING_N = IF x < RING_N THEN x ELSE x - RING_N
    BY <1>1, <1>14, <2>2, Wrap
  <2>4. CASE i = free.n + 1
    <3>1. x % RING_N = FreeEnd
      BY <1>1, <2>2, <2>3, <2>4 DEF FreeEnd
    <3>2. QED
      BY <1>7, <1>12, <2>1, <2>2, <2>4, <3>1
  <2>5. CASE i # free.n + 1
    <3>1. i \in 1 .. free.n
      BY <1>1, <1>14, <2>5
    <3>2. x % RING_N \in Index /\ x % RING_N # FreeEnd
      <4>1. PICK h \in 0 .. RING_N - 1, n \in Nat, e \in Int :
              h = free.h /\ n = free.n /\ e = FreeEnd
        <5>1. free.h \in 0 .. RING_N - 1 /\ free.n \in Nat /\ FreeEnd \in Int
          BY <1>1, <1>3 DEF Index
        <5>2. QED
          BY <5>1, Zenon
      <4>2. n < RING_N /\ x \in h .. h + n - 1
        BY <1>1, <2>2, <3>1, <4>1
      <4>3. e = IF h + n < RING_N THEN h + n ELSE h + n - RING_N
        BY <4>1 DEF FreeEnd
      <4>4. PICK y \in Int : y = IF x < RING_N THEN x ELSE x - RING_N
        BY <1>1
      <4>5. y \in 0 .. RING_N - 1 /\ y # e
        BY <1>1, <4>2, <4>3, <4>4
      <4>6. QED
        BY <2>3, <4>1, <4>4, <4>5 DEF Index
    <3>3. FreeSeq[i] = free.q[x % RING_N]
      BY <2>2, <3>1 DEF FreeSeq
    <3>4. QED
      BY <1>7, <1>12, <2>1, <2>2, <3>1, <3>2, <3>3
  <2>6. QED
    BY <2>4, <2>5
<1>15. FreeSeq' = Append(FreeSeq, Stored(idx))
  BY <1>12, <1>13, <1>14, SeqEqual
<1>16. /\ lost' = IF Stored(idx) = idx THEN lost ELSE idx
       /\ Stored(idx) # idx => lost = NoChunk /\ Stored(idx) = 0
  BY <1>2, <1>4, <1>5 DEF Stored
<1>17. QED
  BY <1>6, <1>10, <1>15, <1>16

-----------------------------------------------------------------------------
(* Who owns what.  Every step moves one entry or returns one; only stop    *)
(* takes an owner away.                                                    *)

Same(c) == Owners(c)' = Owners(c)

\* After a return of idx the free queue owns Stored(idx) in its stead.
Exchanged(c, idx) ==
  Owners(c)' = Owners(c) - (IF c = idx THEN 1 ELSE 0) + (IF c = Stored(idx) THEN 1 ELSE 0)

LEMMA Counted ==
  ASSUME IInv, NEW c
  PROVE  /\ Occurs(FreeSeq, c) \in Nat /\ Occurs(ready, c) \in Nat
         /\ Occurs(hist, c) \in Nat /\ Occurs(tx, c) \in Nat
<1>1. FreeSeq \in Seq(Index) /\ ready \in Seq(Index) /\ hist \in Seq(Index) /\ tx \in Seq(Index)
  BY FreeSeqType DEF IInv, TypeOK
<1>2. QED
  BY <1>1, OccursFinite

LEMMA RxEventOwners == ASSUME IInv, RingShape, RxEvent, NEW c \in Index PROVE Same(c)
<1>1. /\ free \in FreeType /\ free.n > 0 /\ free' = FreePop(free)
      /\ ready \in Seq(Index) /\ ready' = Append(ready, FreeHead) /\ FreeHead \in Index
      /\ UNCHANGED <<hist, tx, hand, curTx>>
  BY DEF IInv, TypeOK, RxEvent, FreeHead, FreeType, ldmaVars
<1>2. FreeSeq # <<>> /\ Head(FreeSeq) = FreeHead /\ FreeSeq' = Tail(FreeSeq)
  BY <1>1, FreeSeqPop
<1>3. FreeSeq \in Seq(Index)
  BY <1>1, FreeSeqType
<1>4. Occurs(FreeSeq, c) = Occurs(FreeSeq', c) + IF FreeHead = c THEN 1 ELSE 0
  BY <1>2, <1>3, OccursTail
<1>5. Occurs(ready', c) = Occurs(ready, c) + IF FreeHead = c THEN 1 ELSE 0
  BY <1>1, OccursAppend
<1>6. FreeSeq' \in Seq(Index)
  BY <1>2, <1>3, PopFacts
<1>7. Occurs(FreeSeq', c) \in Nat
  BY <1>6, OccursFinite
<1>8. QED
  BY <1>1, <1>4, <1>5, <1>7, Counted DEF Same, Owners

LEMMA TransferDoneOwners == ASSUME IInv, TransferDone, NEW c \in Index PROVE Same(c)
  BY DEF Same, Owners, FreeSeq, TransferDone

LEMMA QuietOwners ==
  ASSUME IInv, PollBusy \/ EndPolls \/ EndDrain \/ UNCHANGED vars, NEW c \in Index
  PROVE  Same(c)
<1>1. UNCHANGED <<free, ready, hist, tx, hand, curTx>>
  BY DEF PollBusy, EndPolls, EndDrain, ldmaVars, vars
<1>2. QED
  BY <1>1 DEF Same, Owners, FreeSeq

(* A return puts Stored(idx) into the free queue.                          *)
LEMMA ReturnOwners ==
  ASSUME IInv, RingShape, free.n < RING_N, NEW idx \in Index, ReturnToFree(idx), NEW c \in Index
  PROVE  Occurs(FreeSeq', c) = Occurs(FreeSeq, c) + IF c = Stored(idx) THEN 1 ELSE 0
<1>1. free \in FreeType /\ lost \in MaybeIndex
  BY DEF IInv, TypeOK
<1>2. FreeSeq' = Append(FreeSeq, Stored(idx)) /\ Stored(idx) \in Index
  BY <1>1, FreeSeqPush
<1>3. FreeSeq \in Seq(Index)
  BY <1>1, FreeSeqType
<1>4. QED
  BY <1>2, <1>3, OccursAppend

\* What PollRecycle does to the queues.
LEMMA PollRecycleFacts ==
  ASSUME IInv, PollRecycle
  PROVE  /\ curTx \in Index /\ ReturnToFree(curTx) /\ free.n < RING_N /\ curTx' = NoChunk
         /\ UNCHANGED <<ready, hist, tx, hand, leaked>>
<1>1. curTx \in Index /\ hand = NoChunk /\ ReturnToFree(curTx)
  BY DEF IInv, TypeOK, LoopShape, PollRecycle, MaybeIndex
<1>2. /\ free.n \in Nat /\ Len(ready) \in Nat /\ Len(hist) \in Nat /\ Len(tx) \in Nat
      /\ leaked \in Nat
  BY DEF IInv, TypeOK, FreeType
<1>3. free.n + Len(ready) + Len(hist) + Len(tx) + 1 + leaked = RING_N
  BY <1>1, <1>2, IndexIsNotNoChunk DEF IInv, EntriesConserved, One
<1>4. free.n < RING_N
  BY <1>2, <1>3, ConfigAssumption
<1>5. QED
  BY <1>1, <1>4 DEF PollRecycle

LEMMA PollRecycleOwners ==
  ASSUME IInv, RingShape, PollRecycle, NEW c \in Index
  PROVE  Exchanged(c, curTx)
<1>1. Occurs(FreeSeq', c) = Occurs(FreeSeq, c) + IF c = Stored(curTx) THEN 1 ELSE 0
  BY PollRecycleFacts, ReturnOwners
<1>2. UNCHANGED <<ready, hist, tx, hand>> /\ curTx' # c
  BY PollRecycleFacts, IndexIsNotNoChunk
<1>3. QED
  BY <1>1, <1>2, Counted DEF Exchanged, Owners

(* PollNext and StartTx alike: the channel is loaded, or nothing moves.    *)
LEMMA LoadFacts ==
  ASSUME IInv, PollNext \/ StartTx
  PROVE  /\ UNCHANGED <<free, ready, hist, hand, capVars, lost, leaked>>
         /\ \/ /\ tx # <<>> /\ curTx = NoChunk /\ LoadNextTx /\ Head(tx) \in Index
               /\ pc = "start" => ~ldmaActive
            \/ UNCHANGED <<tx, curTx, wire>>
  BY PopFacts DEF IInv, TypeOK, LoopShape, PollNext, StartTx, ldmaVars

LEMMA LoadOwners ==
  ASSUME IInv, PollNext \/ StartTx, NEW c \in Index
  PROVE  Same(c)
<1>1. UNCHANGED <<free, ready, hist, hand>>
  BY LoadFacts
<1>2. CASE tx # <<>> /\ curTx = NoChunk /\ LoadNextTx
  <2>1. tx' = Tail(tx) /\ curTx' = Head(tx) /\ tx \in Seq(Index) /\ curTx # c
    BY <1>2, IndexIsNotNoChunk DEF LoadNextTx, IInv, TypeOK
  <2>2. Occurs(tx, c) = Occurs(tx', c) + IF curTx' = c THEN 1 ELSE 0
    BY <1>2, <2>1, OccursTail
  <2>3. tx' \in Seq(Index)
    BY <1>2, <2>1, PopFacts
  <2>4. Occurs(tx', c) \in Nat
    BY <2>3, OccursFinite
  <2>5. FreeSeq' = FreeSeq
    BY <1>1 DEF FreeSeq
  <2>6. Occurs(FreeSeq, c) \in Nat /\ Occurs(ready, c) \in Nat /\ Occurs(hist, c) \in Nat
    BY Counted
  <2>7. QED
    BY <1>1, <2>1, <2>2, <2>4, <2>5, <2>6 DEF Same, Owners
<1>3. CASE UNCHANGED <<tx, curTx>>
  BY <1>1, <1>3 DEF Same, Owners, FreeSeq
<1>4. QED
  BY <1>2, <1>3, LoadFacts

LEMMA TakeReadyFacts ==
  ASSUME IInv, TakeReady
  PROVE  /\ ready # <<>> /\ hand = NoChunk /\ ready' = Tail(ready) /\ hand' = Head(ready)
         /\ Head(ready) \in Index /\ UNCHANGED <<free, hist, tx, curTx, capVars, lost, leaked>>
<1>1. ready # <<>> /\ hand = NoChunk /\ ready \in Seq(Index)
  BY DEF IInv, TypeOK, LoopShape, TakeReady
<1>2. QED
  BY <1>1, PopFacts DEF TakeReady, ldmaVars

LEMMA TakeReadyOwners ==
  ASSUME IInv, TakeReady, NEW c \in Index
  PROVE  Same(c)
<1>1. UNCHANGED <<free, hist, tx, curTx>> /\ hand # c
  BY TakeReadyFacts, IndexIsNotNoChunk
<1>2. Occurs(ready, c) = Occurs(ready', c) + IF hand' = c THEN 1 ELSE 0
  BY TakeReadyFacts, OccursTail DEF IInv, TypeOK
<1>3. ready' \in Seq(Index)
  BY TakeReadyFacts, PopFacts DEF IInv, TypeOK
<1>4. Occurs(ready', c) \in Nat
  BY <1>3, OccursFinite
<1>5. QED
  BY <1>1, <1>2, <1>4, Counted DEF Same, Owners, FreeSeq

LEMMA TriggerOwners ==
  ASSUME IInv, Trigger, NEW c \in Index
  PROVE  Same(c)
<1>1. hand \in Index /\ hist \in Seq(Index) /\ tx \in Seq(Index)
  BY SortFacts DEF IInv, TypeOK, Trigger
<1>2. /\ UNCHANGED <<free, ready, curTx>> /\ hand' # c
      /\ hist' = <<>> /\ tx' = Append(tx \o hist, hand)
  BY IndexIsNotNoChunk DEF Trigger, NextIteration, ldmaVars
<1>3. tx \o hist \in Seq(Index) /\ Occurs(tx \o hist, c) = Occurs(tx, c) + Occurs(hist, c)
  BY <1>1, ConcatFacts, OccursConcat
<1>4. Occurs(tx', c) = Occurs(tx \o hist, c) + IF hand = c THEN 1 ELSE 0
  <2>1. PICK s \in Seq(Index) : s = tx \o hist
    BY <1>3
  <2>2. Occurs(Append(s, hand), c) = Occurs(s, c) + IF hand = c THEN 1 ELSE 0
    BY <1>1, OccursAppend
  <2>3. QED
    BY <1>2, <2>1, <2>2
<1>5. Occurs(hist', c) = 0
  BY <1>2, OccursSmall
<1>6. QED
  BY SMTT(20), <1>2, <1>3, <1>4, <1>5, Counted DEF Same, Owners, FreeSeq

LEMMA SendPostOwners ==
  ASSUME IInv, NEW isHot \in BOOLEAN, SendPost(isHot), NEW c \in Index
  PROVE  Same(c)
<1>1. hand \in Index /\ tx \in Seq(Index)
  BY SortFacts DEF IInv, TypeOK, SendPost
<1>2. UNCHANGED <<free, ready, hist, curTx>> /\ hand' # c /\ tx' = Append(tx, hand)
  BY IndexIsNotNoChunk DEF SendPost, NextIteration, ldmaVars
<1>3. Occurs(tx', c) = Occurs(tx, c) + IF hand = c THEN 1 ELSE 0
  BY <1>1, <1>2, OccursAppend
<1>4. QED
  BY <1>2, <1>3, Counted DEF Same, Owners, FreeSeq

\* The chunk that KeepHistory gives up.
Oldest == Head(Append(hist, hand))

LEMMA KeepHistoryFacts ==
  ASSUME IInv, KeepHistory
  PROVE  /\ hand \in Index /\ hand' = NoChunk
         /\ Append(hist, hand) \in Seq(Index) /\ Append(hist, hand) # <<>>
         /\ UNCHANGED <<ready, tx, curTx, capVars, leaked>>
         /\ \/ /\ Len(hist) < PRETRIGGER_CHUNKS
               /\ hist' = Append(hist, hand) /\ UNCHANGED <<free, lost>>
            \/ /\ Len(hist) >= PRETRIGGER_CHUNKS
               /\ hist' = Tail(Append(hist, hand)) /\ Oldest \in Index
               /\ ReturnToFree(Oldest) /\ free.n < RING_N
<1>1. hand \in Index /\ free.n < RING_N /\ hist \in Seq(Index)
  BY SortFacts DEF KeepHistory, IInv, TypeOK
<1>2. /\ Append(hist, hand) \in Seq(Index) /\ Append(hist, hand) # <<>>
      /\ Len(Append(hist, hand)) = Len(hist) + 1 /\ Len(hist) \in Nat
  BY <1>1, AppendFacts
<1>3. Oldest \in Index
  BY <1>2, PopFacts DEF Oldest
<1>4. hand' = NoChunk /\ UNCHANGED <<ready, tx, curTx, capVars, leaked>>
  BY DEF KeepHistory, NextIteration, ldmaVars
<1>5. IF Len(Append(hist, hand)) > PRETRIGGER_CHUNKS
        THEN hist' = Tail(Append(hist, hand)) /\ ReturnToFree(Oldest)
        ELSE hist' = Append(hist, hand) /\ UNCHANGED <<free, lost>>
  BY DEF KeepHistory, Oldest
<1>6. Len(Append(hist, hand)) > PRETRIGGER_CHUNKS <=> Len(hist) >= PRETRIGGER_CHUNKS
  BY <1>2, ConfigAssumption
<1>7. Len(hist) < PRETRIGGER_CHUNKS <=> ~(Len(hist) >= PRETRIGGER_CHUNKS)
  BY <1>2, ConfigAssumption
<1>8. QED
  BY <1>1, <1>2, <1>3, <1>4, <1>5, <1>6, <1>7

LEMMA KeepHistoryOwners ==
  ASSUME IInv, RingShape, KeepHistory, NEW c \in Index
  PROVE  IF Len(hist) < PRETRIGGER_CHUNKS THEN Same(c) ELSE Exchanged(c, Oldest)
<1>1. /\ hand \in Index /\ hand' # c /\ UNCHANGED <<ready, tx, curTx>>
      /\ hist \in Seq(Index) /\ Append(hist, hand) \in Seq(Index) /\ Append(hist, hand) # <<>>
  BY KeepHistoryFacts, IndexIsNotNoChunk DEF IInv, TypeOK
<1>2. Occurs(Append(hist, hand), c) = Occurs(hist, c) + IF hand = c THEN 1 ELSE 0
  BY <1>1, OccursAppend
<1>3. Occurs(hist, c) \in Nat /\ Occurs(ready, c) \in Nat /\ Occurs(tx, c) \in Nat
      /\ Occurs(FreeSeq, c) \in Nat /\ Len(hist) \in Nat
  BY <1>1, Counted
<1>4. CASE Len(hist) < PRETRIGGER_CHUNKS
  <2>1. hist' = Append(hist, hand) /\ FreeSeq' = FreeSeq
    BY <1>3, <1>4, KeepHistoryFacts, ConfigAssumption DEF FreeSeq
  <2>2. Same(c)
    BY <1>1, <1>2, <1>3, <2>1 DEF Same, Owners
  <2>3. QED
    BY <1>4, <2>2
<1>5. CASE ~(Len(hist) < PRETRIGGER_CHUNKS)
  <2>1. /\ hist' = Tail(Append(hist, hand)) /\ Oldest \in Index
        /\ ReturnToFree(Oldest) /\ free.n < RING_N
    BY <1>3, <1>5, KeepHistoryFacts
  <2>2. Occurs(FreeSeq', c) = Occurs(FreeSeq, c) + IF c = Stored(Oldest) THEN 1 ELSE 0
    BY <2>1, ReturnOwners
  <2>3. PICK s \in Seq(Index) : s = Append(hist, hand)
    BY <1>1
  <2>4. Occurs(s, c) = Occurs(Tail(s), c) + IF Head(s) = c THEN 1 ELSE 0
    BY <1>1, <2>3, OccursTail
  <2>5. Occurs(s, c) = Occurs(hist', c) + IF Oldest = c THEN 1 ELSE 0
    BY <2>1, <2>3, <2>4 DEF Oldest
  <2>6. hist' \in Seq(Index)
    BY <1>1, <2>1, PopFacts
  <2>7. Occurs(hist', c) \in Nat
    BY <2>6, OccursFinite
  <2>8. Occurs(s, c) = Occurs(hist, c) + IF hand = c THEN 1 ELSE 0
    BY <1>2, <2>3
  <2>9. Exchanged(c, Oldest)
    <3>1. Occurs(hist', c) = Occurs(hist, c) + (IF hand = c THEN 1 ELSE 0)
                               - (IF c = Oldest THEN 1 ELSE 0)
      BY <1>3, <2>5, <2>7, <2>8
    <3>2. Occurs(ready', c) = Occurs(ready, c) /\ Occurs(tx', c) = Occurs(tx, c)
          /\ (IF hand' = c THEN 1 ELSE 0) = 0 /\ (curTx' = c <=> curTx = c)
      BY <1>1
    <3> DEFINE mine == IF hand = c THEN 1 ELSE 0
               sending == IF curTx = c THEN 1 ELSE 0
               old == IF c = Oldest THEN 1 ELSE 0
               new == IF c = Stored(Oldest) THEN 1 ELSE 0
    <3>3. mine \in Int /\ sending \in Int /\ old \in Int /\ new \in Int
      OBVIOUS
    <3>4. Owners(c) = Occurs(FreeSeq, c) + Occurs(ready, c) + Occurs(hist, c)
                        + Occurs(tx, c) + mine + sending
      BY DEF Owners
    <3>5. Owners(c)' = Occurs(FreeSeq', c) + Occurs(ready, c) + Occurs(hist', c)
                         + Occurs(tx, c) + 0 + sending
      BY <3>2 DEF Owners
    <3>6. /\ Occurs(FreeSeq', c) = Occurs(FreeSeq, c) + new
          /\ Occurs(hist', c) = Occurs(hist, c) + mine - old
      BY <2>2, <3>1
    <3> HIDE DEF mine, sending, old, new
    <3>7. Owners(c)' = Owners(c) - old + new
      BY SMTT(20), <1>3, <3>3, <3>4, <3>5, <3>6
    <3>8. QED
      BY <3>7 DEF Exchanged, old, new
  <2>10. QED
    BY <1>5, <2>9
<1>6. QED
  BY <1>4, <1>5

LEMMA StopOwners ==
  ASSUME IInv, Stop, NEW c \in Index
  PROVE  Owners(c)' <= Owners(c) /\ Owners(c)' \in Int /\ leaked' # 0
<1>1. UNCHANGED <<free, ready, hist, tx, hand>> /\ curTx' # c /\ leaked' = leaked + 1
  BY IndexIsNotNoChunk DEF Stop
<1>2. FreeSeq' = FreeSeq
  BY <1>1 DEF FreeSeq
<1>3. leaked \in Nat
  BY DEF IInv, TypeOK
<1>4. QED
  BY <1>1, <1>2, <1>3, Counted DEF Owners

-----------------------------------------------------------------------------
(* The two ownership invariants.  NothingReturned says what holds until    *)
(* the first push; with it and RingShape they are inductive.               *)
NothingReturned ==
  free.t = RING_N =>
    \A i \in DOMAIN ready : ready[i] = 0 =>
      i = 1 /\ hand = NoChunk /\ curTx = NoChunk /\ hist = <<>> /\ tx = <<>>

OwnInv == IInv /\ RingShape /\ NothingReturned /\ DamageIsOneChunk

\* The right number of owners of c: DamageIsOneChunk's owed.
Owed(c) == 1 + (IF c = 0 /\ lost # NoChunk THEN 1 ELSE 0) - (IF c = lost THEN 1 ELSE 0)

LEMMA Damage ==
  DamageIsOneChunk <=> /\ \A c \in Index : Owners(c) <= Owed(c)
                       /\ leaked = 0 => \A c \in Index : Owners(c) = Owed(c)
  BY DEF DamageIsOneChunk, Owed

LEMMA DamageNext ==
  DamageIsOneChunk' <=> /\ \A c \in Index : Owners(c)' <= Owed(c)'
                        /\ leaked' = 0 => \A c \in Index : Owners(c)' = Owed(c)'
  BY DEF DamageIsOneChunk, Owed

LEMMA OwnersIsNat == ASSUME IInv, NEW c PROVE Owners(c) \in Nat
  BY Counted DEF Owners

(* A step that moves entries keeps the books.                              *)
LEMMA DamageSame ==
  ASSUME DamageIsOneChunk, UNCHANGED <<lost, leaked>>, \A c \in Index : Same(c)
  PROVE  DamageIsOneChunk'
<1>1. ASSUME NEW c \in Index PROVE Owners(c)' = Owners(c) /\ Owed(c)' = Owed(c)
  BY DEF Same, Owed
<1>2. QED
  BY <1>1, Damage, DamageNext

(* So does a return: either the chunk is stored, or it is the lost one and *)
(* chunk 0 is stored instead.                                              *)
LEMMA DamageExchanged ==
  ASSUME IInv, RingShape, DamageIsOneChunk, free.n < RING_N, UNCHANGED leaked,
         NEW idx \in Index, ReturnToFree(idx), \A c \in Index : Exchanged(c, idx)
  PROVE  DamageIsOneChunk'
<1>1. /\ lost' = IF Stored(idx) = idx THEN lost ELSE idx
      /\ Stored(idx) # idx => lost = NoChunk /\ Stored(idx) = 0
  BY FreeSeqPush DEF IInv, TypeOK
<1>2. ASSUME NEW c \in Index
      PROVE  Owners(c)' - Owed(c)' = Owners(c) - Owed(c)
             /\ Owners(c) \in Nat /\ Owners(c)' \in Int /\ Owed(c) \in Int /\ Owed(c)' \in Int
  <2>1. Owners(c)' = Owners(c) - (IF c = idx THEN 1 ELSE 0)
                     + (IF c = Stored(idx) THEN 1 ELSE 0)
    BY DEF Exchanged
  <2>2. Owners(c) \in Nat
    BY OwnersIsNat
  <2>3. c # NoChunk /\ idx # NoChunk
    BY IndexIsNotNoChunk
  <2>4. CASE Stored(idx) = idx
    BY <1>1, <2>1, <2>2, <2>4 DEF Owed
  <2>5. CASE Stored(idx) # idx
    BY <1>1, <2>1, <2>2, <2>3, <2>5 DEF Owed
  <2>6. QED
    BY <2>4, <2>5
<1>3. ASSUME NEW c \in Index
      PROVE  /\ Owners(c) <= Owed(c) => Owners(c)' <= Owed(c)'
             /\ Owners(c) = Owed(c) => Owners(c)' = Owed(c)'
  <2>1. PICK o \in Int, p \in Int, w \in Int, v \in Int :
          o = Owners(c) /\ p = Owners(c)' /\ w = Owed(c) /\ v = Owed(c)'
    BY <1>2
  <2>2. p - v = o - w
    BY <1>2, <2>1
  <2>3. (o <= w => p <= v) /\ (o = w => p = v)
    BY <2>2
  <2>4. QED
    BY <2>1, <2>3
<1>4. QED
  BY <1>3, Damage, DamageNext

LEMMA PushShape ==
  ASSUME OwnInv, free.n < RING_N, NEW idx \in Index, ReturnToFree(idx)
  PROVE  RingShape' /\ NothingReturned'
<1>1. RingShape' /\ free'.t # RING_N
  BY FreeSeqPush DEF OwnInv, IInv, TypeOK
<1>2. QED
  BY <1>1 DEF NothingReturned

\* No chunk 0 waits in ready, unless everything else is empty.
ZeroGone == free.t = RING_N => \A i \in DOMAIN ready : ready[i] # 0

LEMMA OwnRxEvent == ASSUME OwnInv, RxEvent PROVE OwnInv'
<1>1. /\ free \in FreeType /\ free.n > 0 /\ free' = FreePop(free)
      /\ ready \in Seq(Index) /\ ready' = Append(ready, FreeHead) /\ FreeHead \in Index
      /\ UNCHANGED <<hist, tx, hand, curTx, lost, leaked>>
  BY DEF OwnInv, IInv, TypeOK, RxEvent, FreeHead, FreeType, ldmaVars
<1>2. RingShape'
  BY <1>1, RingShapePop DEF OwnInv
<1>3. DamageIsOneChunk'
  BY <1>1, RxEventOwners, DamageSame DEF OwnInv
<1>4. free'.t = free.t
  BY <1>1 DEF FreePop
<1>5. /\ Len(ready) \in Nat /\ DOMAIN ready = 1 .. Len(ready)
      /\ ready' \in Seq(Index) /\ DOMAIN ready' = 1 .. Len(ready) + 1
      /\ \A i \in 1 .. Len(ready) : ready'[i] = ready[i]
      /\ ready'[Len(ready) + 1] = FreeHead
  BY <1>1, AppendProperties, LenProperties
<1>6. ASSUME free.t = RING_N, FreeHead = 0
      PROVE  Len(ready) = 0 /\ hand = NoChunk /\ curTx = NoChunk /\ hist = <<>> /\ tx = <<>>
  <2>1. /\ free.n \in Nat /\ free.h \in 0 .. RING_N - 1 /\ free.n <= RING_N /\ RING_N \in Nat
        /\ RING_N > 0
    BY <1>1, ConfigAssumption DEF FreeType, Index
  <2>2. RING_N \notin Index /\ free.h \in Index
    BY <2>1 DEF Index
  <2>3. FreeEnd = 0
    BY <1>1, <1>6, <2>2, FreeEndType DEF OwnInv, RingShape
  <2>4. free.q = [i \in Index |-> i]
    <3>1. free.t # FreeEnd
      BY <1>6, <2>1, <2>3
    <3>2. QED
      BY <3>1 DEF OwnInv, RingShape
  <2>5. free.h = 0
    BY <1>6, <2>2, <2>4 DEF FreeHead
  <2>6. free.n = RING_N
    BY <1>1, <2>1, <2>3, <2>5 DEF FreeEnd
  <2>7. /\ Len(hist) \in Nat /\ Len(tx) \in Nat /\ One(hand) \in Nat /\ One(curTx) \in Nat
        /\ leaked \in Nat
    BY DEF OwnInv, IInv, TypeOK, One
  <2>8. Len(ready) = 0 /\ Len(hist) = 0 /\ Len(tx) = 0 /\ One(hand) = 0 /\ One(curTx) = 0
    BY SMTT(20), <1>5, <2>1, <2>6, <2>7 DEF OwnInv, IInv, EntriesConserved
  <2>9. hist \in Seq(Index) /\ tx \in Seq(Index)
    BY DEF OwnInv, IInv, TypeOK
  <2>10. QED
    BY <2>8, <2>9, EmptySeq DEF One
<1>7. NothingReturned'
  <2> SUFFICES ASSUME free.t = RING_N, NEW i \in 1 .. Len(ready) + 1, ready'[i] = 0
               PROVE  i = 1 /\ hand = NoChunk /\ curTx = NoChunk /\ hist = <<>> /\ tx = <<>>
    BY <1>1, <1>4, <1>5 DEF NothingReturned
  <2>1. CASE i = Len(ready) + 1
    BY <1>5, <1>6, <2>1
  <2>2. CASE i # Len(ready) + 1
    <3>1. i \in DOMAIN ready /\ ready[i] = 0
      BY <1>5, <2>2
    <3>2. QED
      BY <3>1 DEF OwnInv, NothingReturned
  <2>3. QED
    BY <2>1, <2>2
<1>8. QED
  BY <1>2, <1>3, <1>7, RxEventStep DEF OwnInv

LEMMA StillShape ==
  ASSUME OwnInv, UNCHANGED <<free, lost>>
  PROVE  RingShape'
  BY DEF OwnInv, RingShape, FreeEnd

LEMMA BusyMeansGone ==
  ASSUME OwnInv, hand # NoChunk \/ curTx # NoChunk \/ tx # <<>>
  PROVE  ZeroGone
  BY DEF OwnInv, NothingReturned, ZeroGone

LEMMA StaysGone ==
  ASSUME ZeroGone, UNCHANGED <<free, ready>>
  PROVE  NothingReturned'
  BY DEF ZeroGone, NothingReturned

LEMMA OwnQuiet ==
  ASSUME OwnInv,
         TransferDone \/ PollBusy \/ EndPolls \/ EndDrain \/ UNCHANGED vars
  PROVE  OwnInv'
<1>1. UNCHANGED <<free, ready, hist, tx, hand, curTx, lost, leaked>>
  BY DEF TransferDone, PollBusy, EndPolls, EndDrain, ldmaVars, vars
<1>2. \A c \in Index : Same(c)
  BY QuietOwners, TransferDoneOwners DEF OwnInv
<1>3. IInv'
  BY TransferDoneStep, PollBusyStep, EndPollsStep, EndDrainStep, NextIInv DEF OwnInv
<1>4. NothingReturned'
  BY <1>1 DEF OwnInv, NothingReturned
<1>5. QED
  BY <1>1, <1>2, <1>3, <1>4, StillShape, DamageSame DEF OwnInv

LEMMA OwnPollRecycle == ASSUME OwnInv, PollRecycle PROVE OwnInv'
<1>1. /\ curTx \in Index /\ ReturnToFree(curTx) /\ free.n < RING_N /\ UNCHANGED leaked
  BY PollRecycleFacts DEF OwnInv
<1>2. DamageIsOneChunk'
  BY <1>1, PollRecycleOwners, DamageExchanged DEF OwnInv
<1>3. QED
  BY <1>1, <1>2, PushShape, PollRecycleStep DEF OwnInv

LEMMA OwnLoad == ASSUME OwnInv, PollNext \/ StartTx PROVE OwnInv'
<1>1. UNCHANGED <<free, ready, hist, hand, lost, leaked>>
  BY LoadFacts DEF OwnInv
<1>2. DamageIsOneChunk'
  BY <1>1, LoadOwners, DamageSame DEF OwnInv
<1>3. NothingReturned'
  <2>1. CASE tx # <<>>
    BY <1>1, <2>1, BusyMeansGone, StaysGone
  <2>2. CASE UNCHANGED <<tx, curTx>>
    BY <1>1, <2>2 DEF OwnInv, NothingReturned
  <2>3. QED
    BY <2>1, <2>2, LoadFacts DEF OwnInv
<1>4. QED
  BY <1>1, <1>2, <1>3, StillShape, PollNextStep, StartTxStep DEF OwnInv

LEMMA OwnTakeReady == ASSUME OwnInv, TakeReady PROVE OwnInv'
<1>1. /\ ready # <<>> /\ ready' = Tail(ready) /\ ready \in Seq(Index)
      /\ UNCHANGED <<free, hist, tx, curTx, lost, leaked>>
  BY TakeReadyFacts DEF OwnInv, IInv, TypeOK
<1>2. DamageIsOneChunk'
  BY <1>1, TakeReadyOwners, DamageSame DEF OwnInv
<1>3. ASSUME free.t = RING_N, NEW i \in DOMAIN ready' PROVE ready'[i] # 0
  <2>1. /\ Tail(ready) \in Seq(Index) /\ Len(Tail(ready)) = Len(ready) - 1
        /\ \A j \in 1 .. Len(Tail(ready)) : Tail(ready)[j] = ready[j + 1]
    BY <1>1, HeadTailProperties
  <2>2. /\ DOMAIN ready' = 1 .. Len(ready) - 1 /\ DOMAIN ready = 1 .. Len(ready)
        /\ Len(ready) \in Nat
    BY <1>1, <2>1, LenProperties
  <2>3. i + 1 \in DOMAIN ready /\ i + 1 # 1 /\ ready'[i] = ready[i + 1]
    BY <1>1, <1>3, <2>1, <2>2
  <2>4. QED
    BY <1>3, <2>3 DEF OwnInv, NothingReturned
<1>4. NothingReturned'
  BY <1>1, <1>3 DEF NothingReturned
<1>5. QED
  BY <1>1, <1>2, <1>4, StillShape, TakeReadyStep DEF OwnInv

LEMMA OwnSort ==
  ASSUME OwnInv, Trigger \/ \E isHot \in BOOLEAN : SendPost(isHot)
  PROVE  OwnInv'
<1>1. hand # NoChunk /\ UNCHANGED <<free, ready, lost, leaked>>
  BY DEF OwnInv, IInv, LoopShape, Trigger, SendPost, NextIteration
<1>2. \A c \in Index : Same(c)
  BY TriggerOwners, SendPostOwners DEF OwnInv
<1>3. IInv'
  BY TriggerStep, SendPostStep DEF OwnInv
<1>4. QED
  BY <1>1, <1>2, <1>3, StillShape, BusyMeansGone, StaysGone, DamageSame DEF OwnInv

LEMMA OwnKeepHistory == ASSUME OwnInv, KeepHistory PROVE OwnInv'
<1>1. hand # NoChunk /\ UNCHANGED <<ready, leaked>> /\ Len(hist) \in Nat
  BY KeepHistoryFacts, IndexIsNotNoChunk DEF OwnInv, IInv, TypeOK
<1>2. CASE Len(hist) < PRETRIGGER_CHUNKS
  <2>1. UNCHANGED <<free, lost>>
    BY <1>1, <1>2, KeepHistoryFacts, ConfigAssumption DEF OwnInv
  <2>2. \A c \in Index : Same(c)
    BY <1>2, KeepHistoryOwners DEF OwnInv
  <2>3. QED
    BY <1>1, <2>1, <2>2, StillShape, BusyMeansGone, StaysGone, DamageSame, KeepHistoryStep
    DEF OwnInv
<1>3. CASE ~(Len(hist) < PRETRIGGER_CHUNKS)
  <2>1. Oldest \in Index /\ ReturnToFree(Oldest) /\ free.n < RING_N
    BY <1>3, KeepHistoryFacts DEF OwnInv
  <2>2. \A c \in Index : Exchanged(c, Oldest)
    BY <1>3, KeepHistoryOwners DEF OwnInv
  <2>3. DamageIsOneChunk'
    <3>1. PICK idx \in Index : idx = Oldest
      BY <2>1
    <3>2. ReturnToFree(idx) /\ \A c \in Index : Exchanged(c, idx)
      BY <2>1, <2>2, <3>1
    <3>3. QED
      BY <1>1, <2>1, <3>2, DamageExchanged DEF OwnInv
  <2>4. QED
    BY <2>1, <2>3, PushShape, KeepHistoryStep DEF OwnInv
<1>4. QED
  BY <1>2, <1>3

LEMMA OwnStop == ASSUME OwnInv, Stop PROVE OwnInv'
<1>1. curTx # NoChunk /\ UNCHANGED <<free, ready, lost>>
  BY DEF OwnInv, IInv, LoopShape, Stop
<1>2. ASSUME NEW c \in Index PROVE Owners(c)' <= Owed(c)' /\ leaked' # 0
  <2>1. Owners(c)' <= Owners(c) /\ leaked' # 0
    BY StopOwners DEF OwnInv
  <2>2. Owners(c) <= Owed(c) /\ Owed(c)' = Owed(c)
    BY <1>1, Damage DEF OwnInv, Owed
  <2>3. Owners(c) \in Nat /\ Owners(c)' \in Int /\ Owed(c) \in Int
    BY OwnersIsNat, StopOwners DEF OwnInv, Owed
  <2>4. PICK o \in Int, p \in Int, w \in Int :
          o = Owners(c) /\ p = Owners(c)' /\ w = Owed(c)
    BY <2>3
  <2>5. p <= w
    BY <2>1, <2>2, <2>4
  <2>6. QED
    BY <2>1, <2>2, <2>4, <2>5
<1>3. QED
  BY <1>1, <1>2, BusyMeansGone, StaysGone, StillShape, DamageNext, StopStep DEF OwnInv

LEMMA OwnInit == Init => OwnInv
<1> SUFFICES ASSUME Init PROVE OwnInv
  OBVIOUS
<1>1. /\ free = [q |-> [i \in Index |-> i], h |-> 0, t |-> RING_N, n |-> RING_N]
      /\ ready = <<>> /\ hist = <<>> /\ tx = <<>> /\ hand = NoChunk /\ curTx = NoChunk
      /\ lost = NoChunk /\ RING_N \in Nat /\ RING_N > 0
  BY ConfigAssumption DEF Init
<1>2. RingShape
  BY <1>1 DEF RingShape, FreeEnd
<1>3. NothingReturned
  BY <1>1 DEF NothingReturned
<1>4. ASSUME NEW c \in Index PROVE Owners(c) = Owed(c)
  <2>1. ASSUME NEW i \in 1 .. RING_N PROVE FreeSeq[i] = i - 1
    <3>1. PICK x \in Nat : x = 0 + i - 1
      BY <1>1, <2>1
    <3>2. x < 2 * RING_N /\ x < RING_N /\ x \in Index /\ x = i - 1
      BY <1>1, <2>1, <3>1 DEF Index
    <3>3. x % RING_N = x
      BY <3>2, Wrap
    <3>4. free.n = RING_N /\ free.h = 0 /\ free.q[x] = x
      BY <1>1, <3>2
    <3>5. FreeSeq[i] = free.q[x % RING_N]
      BY <2>1, <3>1, <3>4 DEF FreeSeq
    <3>6. QED
      BY <3>2, <3>3, <3>4, <3>5
  <2>2. DOMAIN FreeSeq = 1 .. RING_N
    BY <1>1 DEF FreeSeq
  <2>3. {i \in DOMAIN FreeSeq : FreeSeq[i] = c} = {c + 1}
    BY <1>1, <2>1, <2>2 DEF Index
  <2>4. Occurs(FreeSeq, c) = 1
    BY <2>3, FS_Singleton DEF Occurs
  <2>5. Occurs(<<>>, c) = 0 /\ c # NoChunk
    BY OccursSmall, IndexIsNotNoChunk
  <2>6. QED
    BY <1>1, <2>4, <2>5 DEF Owners, Owed
<1>5. DamageIsOneChunk
  <2>1. \A c \in Index : Owners(c) <= Owed(c)
    BY <1>4, <1>1 DEF Owed
  <2>2. QED
    BY <1>4, <2>1, Damage
<1>6. QED
  BY <1>2, <1>3, <1>5, InitIInv DEF OwnInv

LEMMA OwnNext == OwnInv /\ [Next]_vars => OwnInv'
<1> SUFFICES ASSUME OwnInv, [Next]_vars PROVE OwnInv'
  OBVIOUS
<1>1. CASE MainLoop
  BY <1>1, OwnQuiet, OwnPollRecycle, OwnLoad, OwnTakeReady, OwnSort, OwnKeepHistory
  DEF MainLoop
<1>2. CASE RxEvent \/ TransferDone \/ Stop \/ UNCHANGED vars
  BY <1>2, OwnRxEvent, OwnQuiet, OwnStop
<1>3. QED
  BY <1>1, <1>2 DEF Next

(* Entries, their owners and the array under the free queue, together.     *)
THEOREM Ownership == Spec => []OwnInv
  BY OwnInit, OwnNext, PTL DEF Spec

(* The initial tail of spi_init costs one chunk and no more, for every     *)
(* number of buffers: whatever the interleaving of interrupt, main loop    *)
(* and channel, each other chunk has exactly one owner until stop forgets  *)
(* some, and never two.                                                    *)
THEOREM OneChunkDamaged == Spec => []DamageIsOneChunk
<1>1. OwnInv => DamageIsOneChunk
  BY DEF OwnInv
<1>2. QED
  BY <1>1, Ownership, PTL

(* The byte that the first push writes past g_free_q never meets a live    *)
(* entry of g_ready_q that the rest of the program has already passed on.  *)
THEOREM SpillIsHarmless == Spec => []SpillHitsDeadSlot
<1>1. OwnInv => SpillHitsDeadSlot
  BY DEF OwnInv, NothingReturned, SpillHitsDeadSlot
<1>2. QED
  BY <1>1, Ownership, PTL

-----------------------------------------------------------------------------
(* CaptureHistory.  While no buffer is lost, the numbers in the program    *)
(* are known: everything up to Decided has been sent, queued or given up,  *)
(* and what follows sits in the history, the hand and the ready queue, in  *)
(* this order and without a gap.                                           *)

\* The newest chunk the energy trigger has judged.
LastSorted == rxCount - Len(ready) - One(hand)

\* The newest chunk whose fate is decided.
Decided == LastSorted - Len(hist)

HTypeOK ==
  /\ rxCount \in Nat /\ stamp \in [Index -> Nat] /\ sent \in Seq(Nat)
  /\ hot \in SUBSET Nat /\ discarded \in SUBSET Nat

Numbered ==
  /\ \A i \in DOMAIN ready : stamp[ready[i]] = rxCount - Len(ready) + i
  /\ hand # NoChunk => stamp[hand] = rxCount - Len(ready)
  /\ \A i \in DOMAIN hist : stamp[hist[i]] = Decided + i

Ordered ==
  /\ \A i, j \in DOMAIN sent : i < j => sent[i] < sent[j]
  /\ \A i \in DOMAIN sent, j \in DOMAIN tx : sent[i] < stamp[tx[j]]
  /\ \A i, j \in DOMAIN tx : i < j => stamp[tx[i]] < stamp[tx[j]]

SentNumbers == {sent[i] : i \in DOMAIN sent}
QueuedNumbers == {stamp[tx[i]] : i \in DOMAIN tx}

Accounted ==
  Decided \in Nat /\ SentNumbers \cup QueuedNumbers \cup discarded = 1 .. Decided

\* What a capture still has to send.
Left == IF capState = "POST" THEN postRemaining ELSE 0

HotSurrounded == \A h \in hot : Decided - h >= POSTTRIGGER_CHUNKS - Left

GivenUpBehind == \A d \in discarded : LastSorted - d >= PRETRIGGER_CHUNKS

Windows ==
  \A d \in discarded : \A h \in hot :
    IF h < d THEN d - h > POSTTRIGGER_CHUNKS ELSE h - d > PRETRIGGER_CHUNKS

Told == Numbered /\ Ordered /\ Accounted /\ HotSurrounded /\ GivenUpBehind /\ Windows

HistoryEmptyInPost == capState = "POST" => hist = <<>>

CapInv ==
  OwnInv /\ HTypeOK /\ HistoryEmptyInPost /\ (lost = NoChunk => Told)

-----------------------------------------------------------------------------
(* The chunk the ISR fills is nobody's but the free queue's.               *)
LEMMA FreshHead ==
  ASSUME OwnInv, lost = NoChunk, RxEvent
  PROVE  /\ FreeHead \in Index /\ hand # FreeHead
         /\ \A i \in DOMAIN ready : ready[i] # FreeHead
         /\ \A i \in DOMAIN hist : hist[i] # FreeHead
         /\ \A i \in DOMAIN tx : tx[i] # FreeHead
<1>1. /\ free \in FreeType /\ free.n > 0 /\ free' = FreePop(free) /\ FreeHead \in Index
      /\ ready \in Seq(Index) /\ hist \in Seq(Index) /\ tx \in Seq(Index)
  BY DEF OwnInv, IInv, TypeOK, RxEvent, FreeHead, FreeType
<1>2. PICK c \in Index : c = FreeHead
  BY <1>1
<1>3. FreeSeq # <<>> /\ Head(FreeSeq) = c /\ FreeSeq \in Seq(Index) /\ Tail(FreeSeq) \in Seq(Index)
  BY <1>1, <1>2, FreeSeqPop, FreeSeqType, PopFacts
<1>4. Occurs(FreeSeq, c) = Occurs(Tail(FreeSeq), c) + 1 /\ Occurs(Tail(FreeSeq), c) \in Nat
  BY <1>3, OccursTail, OccursFinite
<1>5. Owners(c) <= 1
  <2>1. Owed(c) = 1
    BY <1>2, IndexIsNotNoChunk DEF OwnInv, Owed
  <2>2. QED
    BY <1>2, <2>1, Damage DEF OwnInv
<1>6. Occurs(ready, c) \in Nat /\ Occurs(hist, c) \in Nat /\ Occurs(tx, c) \in Nat
  BY Counted DEF OwnInv
<1>7. /\ Occurs(ready, c) = 0 /\ Occurs(hist, c) = 0 /\ Occurs(tx, c) = 0 /\ hand # c
  BY <1>4, <1>5, <1>6 DEF Owners
<1>8. QED
  BY <1>1, <1>2, <1>7, OccursFinite

\* The types that the arithmetic below needs.
LEMMA NumberTypes ==
  ASSUME OwnInv, HTypeOK
  PROVE  /\ Len(ready) \in Nat /\ Len(hist) \in Nat /\ Len(tx) \in Nat /\ One(hand) \in Nat
         /\ DOMAIN ready = 1 .. Len(ready) /\ DOMAIN hist = 1 .. Len(hist)
         /\ DOMAIN tx = 1 .. Len(tx) /\ DOMAIN sent = 1 .. Len(sent) /\ Len(sent) \in Nat
         /\ \A i \in DOMAIN ready : ready[i] \in Index /\ stamp[ready[i]] \in Nat
         /\ \A i \in DOMAIN hist : hist[i] \in Index /\ stamp[hist[i]] \in Nat
         /\ \A i \in DOMAIN tx : tx[i] \in Index /\ stamp[tx[i]] \in Nat
         /\ \A i \in DOMAIN sent : sent[i] \in Nat
         /\ rxCount \in Nat /\ LastSorted \in Int /\ Decided \in Int
         /\ postRemaining \in 0 .. POSTTRIGGER_CHUNKS /\ Left \in 0 .. POSTTRIGGER_CHUNKS
<1>1. ready \in Seq(Index) /\ hist \in Seq(Index) /\ tx \in Seq(Index) /\ sent \in Seq(Nat)
      /\ stamp \in [Index -> Nat] /\ rxCount \in Nat
      /\ postRemaining \in 0 .. POSTTRIGGER_CHUNKS
  BY DEF OwnInv, IInv, TypeOK, HTypeOK
<1>2. One(hand) \in Nat
  BY DEF One
<1>3. Len(ready) \in Nat /\ Len(hist) \in Nat
  BY <1>1
<1>4. LastSorted \in Int /\ Decided \in Int
  BY <1>1, <1>2, <1>3 DEF LastSorted, Decided
<1>5. Left \in 0 .. POSTTRIGGER_CHUNKS
  BY <1>1, ConfigAssumption DEF Left
<1>6. /\ \A i \in DOMAIN ready : ready[i] \in Index
      /\ \A i \in DOMAIN hist : hist[i] \in Index
      /\ \A i \in DOMAIN tx : tx[i] \in Index
      /\ \A i \in DOMAIN sent : sent[i] \in Nat
  BY <1>1, LenProperties
<1>7. QED
  BY <1>1, <1>2, <1>3, <1>4, <1>5, <1>6, LenProperties

(* What sent and tx hold is decided.                                       *)
LEMMA DecidedBounds ==
  ASSUME Accounted
  PROVE  /\ \A i \in DOMAIN sent : sent[i] \in 1 .. Decided
         /\ \A i \in DOMAIN tx : stamp[tx[i]] \in 1 .. Decided
         /\ \A d \in discarded : d \in 1 .. Decided
         /\ Decided \in Nat
  BY DEF Accounted, SentNumbers, QueuedNumbers

(* Steps that leave the decided chunks alone.                              *)
LEMMA Untouched ==
  ASSUME OwnInv, HTypeOK, Told, UNCHANGED <<tx, sent, hot, discarded, capVars>>,
         \A i \in DOMAIN tx : stamp'[tx[i]] = stamp[tx[i]],
         Decided' = Decided, LastSorted' \in Int, LastSorted' >= LastSorted
  PROVE  Ordered' /\ Accounted' /\ HotSurrounded' /\ GivenUpBehind' /\ Windows'
<1>1. Ordered'
  BY DEF Told, Ordered
<1>2. Accounted'
  BY DEF Told, Accounted, SentNumbers, QueuedNumbers
<1>3. HotSurrounded' /\ Windows'
  BY DEF Told, HotSurrounded, Windows, Left, capVars
<1>4. GivenUpBehind'
  <2> SUFFICES ASSUME NEW d \in discarded PROVE LastSorted' - d >= PRETRIGGER_CHUNKS
    BY DEF GivenUpBehind
  <2>1. LastSorted - d >= PRETRIGGER_CHUNKS /\ d \in Nat /\ LastSorted \in Int
    BY NumberTypes DEF Told, GivenUpBehind, HTypeOK
  <2>2. PICK a \in Int, b \in Int : a = LastSorted /\ b = LastSorted'
    BY <2>1
  <2>3. b >= a /\ a - d >= PRETRIGGER_CHUNKS /\ d \in Int
    BY <2>1, <2>2
  <2>4. b - d >= PRETRIGGER_CHUNKS
    BY <2>3, ConfigAssumption
  <2>5. QED
    BY <2>2, <2>4
<1>5. QED
  BY <1>1, <1>2, <1>3, <1>4

(* The queue grows by the chunks that come next.                           *)
LEMMA QueueGrows ==
  ASSUME OwnInv, HTypeOK, Told, UNCHANGED <<sent, stamp, discarded>>, tx' \in Seq(Index),
         NEW k \in Nat, Len(tx') = Len(tx) + k, Decided' = Decided + k,
         \A i \in 1 .. Len(tx) : tx'[i] = tx[i],
         \A i \in 1 .. k : stamp[tx'[Len(tx) + i]] = Decided + i
  PROVE  Ordered' /\ Accounted'
<1>1. PICK n \in Nat, b \in Nat : n = Len(tx) /\ b = Decided
  BY NumberTypes, DecidedBounds DEF Told
<1>2. /\ DOMAIN tx = 1 .. n /\ DOMAIN tx' = 1 .. n + k
      /\ \A i \in 1 .. n : tx'[i] = tx[i] /\ stamp[tx[i]] \in 1 .. b
      /\ \A i \in 1 .. k : stamp[tx'[n + i]] = b + i
      /\ \A i \in DOMAIN sent : sent[i] \in 1 .. b
  BY <1>1, NumberTypes, DecidedBounds, LenProperties DEF Told
<1>3. ASSUME NEW i \in 1 .. n + k, i > n PROVE stamp[tx'[i]] = b + (i - n)
  <2>1. PICK j \in 1 .. k : i = n + j
    <3>1. i - n \in 1 .. k /\ i = n + (i - n)
      BY <1>3
    <3>2. QED
      BY <3>1
  <2>2. QED
    BY <1>2, <2>1
<1>4. Ordered'
  <2>1. ASSUME NEW i \in DOMAIN sent, NEW j \in 1 .. n + k PROVE sent[i] < stamp[tx'[j]]
    <3>1. CASE j <= n
      <4>1. j \in DOMAIN tx /\ tx'[j] = tx[j]
        BY <1>2, <2>1, <3>1
      <4>2. QED
        BY <2>1, <4>1 DEF Told, Ordered
    <3>2. CASE j > n
      BY <1>2, <1>3, <2>1, <3>2
    <3>3. QED
      BY <1>1, <3>1, <3>2
  <2>2. ASSUME NEW i \in 1 .. n + k, NEW j \in 1 .. n + k, i < j
        PROVE  stamp[tx'[i]] < stamp[tx'[j]]
    <3>1. CASE j <= n
      <4>1. j \in DOMAIN tx /\ i \in DOMAIN tx /\ tx'[j] = tx[j] /\ tx'[i] = tx[i]
        BY <1>2, <2>2, <3>1
      <4>2. QED
        BY <2>2, <4>1 DEF Told, Ordered
    <3>2. CASE j > n /\ i <= n
      <4>1. stamp[tx'[j]] = b + (j - n)
        BY <1>3, <3>2
      <4>2. stamp[tx'[i]] \in 1 .. b
        <5>1. i \in 1 .. n
          BY <3>2
        <5>2. QED
          BY <1>2, <5>1
      <4>3. QED
        BY <3>2, <4>1, <4>2
    <3>3. CASE j > n /\ i > n
      <4>1. stamp[tx'[j]] = b + (j - n) /\ stamp[tx'[i]] = b + (i - n)
        BY <1>3, <3>3
      <4>2. QED
        BY <2>2, <4>1
    <3>4. QED
      BY <1>1, <3>1, <3>2, <3>3
  <2>3. QED
    BY <1>2, <2>1, <2>2 DEF Told, Ordered
<1>5. QueuedNumbers' = QueuedNumbers \cup (b + 1 .. b + k)
  <2>1. QueuedNumbers' = {stamp[tx'[i]] : i \in 1 .. n + k}
    BY <1>2 DEF QueuedNumbers
  <2>2. QueuedNumbers = {stamp[tx[i]] : i \in 1 .. n}
    BY <1>2 DEF QueuedNumbers
  <2>3. ASSUME NEW i \in 1 .. n + k PROVE stamp[tx'[i]] \in QueuedNumbers \cup (b + 1 .. b + k)
    <3>1. CASE i <= n
      BY <1>2, <2>2, <3>1
    <3>2. CASE i > n
      <4>1. stamp[tx'[i]] = b + (i - n)
        BY <1>3, <3>2
      <4>2. b + (i - n) \in b + 1 .. b + k
        BY <3>2
      <4>3. QED
        BY <4>1, <4>2
    <3>3. QED
      BY <3>1, <3>2
  <2>4. ASSUME NEW i \in 1 .. n PROVE stamp[tx[i]] \in QueuedNumbers'
    <3>1. i \in 1 .. n + k /\ tx'[i] = tx[i]
      BY <1>2
    <3>2. QED
      BY <2>1, <3>1
  <2>5. ASSUME NEW x \in b + 1 .. b + k PROVE x \in QueuedNumbers'
    <3>1. PICK j \in 1 .. k : x = b + j
      <4>1. x - b \in 1 .. k /\ x = b + (x - b)
        OBVIOUS
      <4>2. QED
        BY <4>1
    <3>2. n + j \in 1 .. n + k /\ stamp[tx'[n + j]] = x
      BY <1>2, <3>1
    <3>3. QED
      BY <2>1, <3>2
  <2>6. \A x : x \in QueuedNumbers' => x \in QueuedNumbers \cup (b + 1 .. b + k)
    BY <2>1, <2>3
  <2>7. \A x : x \in QueuedNumbers => x \in QueuedNumbers'
    BY <2>2, <2>4
  <2>8. QED
    BY <2>5, <2>6, <2>7
<1>6. Accounted'
  <2>1. SentNumbers \cup QueuedNumbers \cup discarded = 1 .. b
    BY <1>1 DEF Told, Accounted
  <2>2. SentNumbers' = SentNumbers /\ discarded' = discarded
    BY DEF SentNumbers
  <2>3. SentNumbers' \cup QueuedNumbers' \cup discarded' = (1 .. b) \cup (b + 1 .. b + k)
    BY <1>5, <2>1, <2>2
  <2>4. (1 .. b) \cup (b + 1 .. b + k) = 1 .. b + k /\ b + k \in Nat
    OBVIOUS
  <2>5. Decided' = b + k
    BY <1>1
  <2>6. QED
    BY <2>3, <2>4, <2>5 DEF Accounted
<1>7. QED
  BY <1>4, <1>6

-----------------------------------------------------------------------------
(* One lemma per action of CaptureHistory, for a state in which no buffer  *)
(* has been lost.                                                          *)
Sound == OwnInv /\ HTypeOK /\ HistoryEmptyInPost /\ lost = NoChunk /\ Told

LEMMA ToldRxEvent == ASSUME Sound, HRxEvent PROVE Told'
<1>1. /\ ready' = Append(ready, FreeHead) /\ rxCount' = rxCount + 1
      /\ stamp' = [stamp EXCEPT ![FreeHead] = rxCount + 1]
      /\ UNCHANGED <<hist, tx, hand, capVars, hot, sent, discarded>> /\ RxEvent
  BY DEF HRxEvent, RxEvent
<1>2. /\ FreeHead \in Index /\ hand # FreeHead
      /\ \A i \in DOMAIN ready : ready[i] # FreeHead
      /\ \A i \in DOMAIN hist : hist[i] # FreeHead
      /\ \A i \in DOMAIN tx : tx[i] # FreeHead
  BY <1>1, FreshHead DEF Sound
<1>3. stamp \in [Index -> Nat] /\ ready \in Seq(Index) /\ hand \in MaybeIndex
  BY DEF Sound, HTypeOK, OwnInv, IInv, TypeOK
<1>4. /\ Len(ready) \in Nat /\ DOMAIN ready = 1 .. Len(ready) /\ rxCount \in Nat
      /\ One(hand) \in Nat /\ Len(hist) \in Nat /\ DOMAIN hist = 1 .. Len(hist)
      /\ LastSorted \in Int /\ Decided \in Int
      /\ \A i \in DOMAIN ready : ready[i] \in Index
      /\ \A i \in DOMAIN hist : hist[i] \in Index
      /\ \A i \in DOMAIN tx : tx[i] \in Index
  BY NumberTypes DEF Sound
<1>5. /\ ready' \in Seq(Index) /\ Len(ready') = Len(ready) + 1
      /\ \A i \in 1 .. Len(ready) : ready'[i] = ready[i]
      /\ ready'[Len(ready) + 1] = FreeHead
  BY <1>1, <1>2, <1>3, AppendProperties
<1>6. LastSorted' = LastSorted /\ Decided' = Decided
  <2>1. One(hand') = One(hand) /\ Len(hist') = Len(hist)
    BY <1>1
  <2>2. LastSorted' = LastSorted
    BY <1>1, <1>4, <1>5, <2>1 DEF LastSorted
  <2>3. QED
    BY <2>1, <2>2 DEF Decided
<1>7. /\ \A c \in Index : c # FreeHead => stamp'[c] = stamp[c]
      /\ stamp'[FreeHead] = rxCount + 1
  BY <1>1, <1>2, <1>3
<1>8. Numbered'
  <2>1. ASSUME NEW i \in 1 .. Len(ready) + 1
        PROVE  stamp'[ready'[i]] = rxCount' - Len(ready') + i
    <3>1. CASE i = Len(ready) + 1
      BY <1>1, <1>4, <1>5, <1>7, <3>1
    <3>2. CASE i # Len(ready) + 1
      <4>1. i \in 1 .. Len(ready) /\ i \in DOMAIN ready
        BY <1>4, <3>2
      <4>2. stamp'[ready'[i]] = stamp[ready[i]]
        BY <1>2, <1>4, <1>5, <1>7, <4>1
      <4>3. stamp[ready[i]] = rxCount - Len(ready) + i
        BY <4>1 DEF Sound, Told, Numbered
      <4>4. QED
        BY <1>1, <1>4, <1>5, <4>2, <4>3
    <3>3. QED
      BY <3>1, <3>2
  <2>2. DOMAIN ready' = 1 .. Len(ready) + 1
    BY <1>5, LenProperties
  <2>3. hand' # NoChunk => stamp'[hand'] = rxCount' - Len(ready')
    <3>1. rxCount' - Len(ready') = rxCount - Len(ready)
      BY <1>1, <1>4, <1>5
    <3>2. hand # NoChunk => stamp'[hand] = stamp[hand]
      BY <1>2, <1>3, <1>7 DEF MaybeIndex
    <3>3. QED
      BY <1>1, <3>1, <3>2 DEF Sound, Told, Numbered
  <2>4. \A i \in DOMAIN hist' : stamp'[hist'[i]] = Decided' + i
    BY <1>1, <1>2, <1>4, <1>6, <1>7 DEF Sound, Told, Numbered
  <2>5. QED
    BY <2>1, <2>2, <2>3, <2>4 DEF Numbered
<1>9. Ordered' /\ Accounted' /\ HotSurrounded' /\ GivenUpBehind' /\ Windows'
  BY <1>1, <1>2, <1>4, <1>6, <1>7, Untouched DEF Sound
<1>10. QED
  BY <1>8, <1>9 DEF Told

LEMMA ToldQuiet ==
  ASSUME Sound, UNCHANGED <<ready, hist, tx, hand, capVars, historyVars>>
  PROVE  Told'
<1>1. LastSorted' = LastSorted /\ Decided' = Decided
  BY DEF LastSorted, Decided, historyVars
<1>2. Numbered'
  BY <1>1 DEF Sound, Told, Numbered, historyVars
<1>3. LastSorted' >= LastSorted /\ LastSorted' \in Int
  BY <1>1, NumberTypes DEF Sound
<1>4. Ordered' /\ Accounted' /\ HotSurrounded' /\ GivenUpBehind' /\ Windows'
  BY <1>1, <1>3, Untouched DEF Sound, historyVars
<1>5. QED
  BY <1>2, <1>4 DEF Told

LEMMA ToldTakeReady == ASSUME Sound, TakeReady, UNCHANGED historyVars PROVE Told'
<1>1. /\ ready # <<>> /\ hand = NoChunk /\ ready' = Tail(ready) /\ hand' = Head(ready)
      /\ Head(ready) \in Index /\ UNCHANGED <<hist, tx, capVars>>
      /\ UNCHANGED <<rxCount, stamp, hot, sent, discarded>> /\ ready \in Seq(Index)
  BY TakeReadyFacts DEF Sound, OwnInv, IInv, TypeOK, historyVars
<1>2. /\ ready' \in Seq(Index) /\ Len(ready') = Len(ready) - 1 /\ Len(ready) \in Nat \ {0}
      /\ \A i \in 1 .. Len(ready') : ready'[i] = ready[i + 1]
      /\ DOMAIN ready' = 1 .. Len(ready') /\ DOMAIN ready = 1 .. Len(ready)
      /\ Head(ready) = ready[1]
  BY <1>1, HeadTailProperties, LenProperties, EmptySeq
<1>3. One(hand) = 0 /\ One(hand') = 1
  BY <1>1, IndexIsNotNoChunk DEF One
<1>4. rxCount \in Nat /\ Len(hist) \in Nat /\ LastSorted \in Int /\ Decided \in Int
  BY NumberTypes DEF Sound
<1>5. LastSorted' = LastSorted
  BY <1>1, <1>2, <1>3, <1>4 DEF LastSorted
<1>6. Decided' = Decided
  BY <1>1, <1>5 DEF Decided
<1>7. Numbered'
  <2>1. ASSUME NEW i \in DOMAIN ready' PROVE stamp'[ready'[i]] = rxCount' - Len(ready') + i
    <3>1. i + 1 \in DOMAIN ready /\ ready'[i] = ready[i + 1]
      BY <1>2, <2>1
    <3>2. stamp[ready[i + 1]] = rxCount - Len(ready) + (i + 1)
      BY <3>1 DEF Sound, Told, Numbered
    <3>3. QED
      BY <1>1, <1>2, <1>4, <2>1, <3>1, <3>2
  <2>2. stamp'[hand'] = rxCount' - Len(ready')
    <3>1. 1 \in DOMAIN ready
      BY <1>2
    <3>2. stamp[ready[1]] = rxCount - Len(ready) + 1
      BY <3>1 DEF Sound, Told, Numbered
    <3>3. QED
      BY <1>1, <1>2, <1>4, <3>2
  <2>3. \A i \in DOMAIN hist' : stamp'[hist'[i]] = Decided' + i
    BY <1>1, <1>6 DEF Sound, Told, Numbered
  <2>4. QED
    BY <2>1, <2>2, <2>3 DEF Numbered
<1>8. LastSorted' >= LastSorted /\ LastSorted' \in Int
  BY <1>4, <1>5
<1>9. Ordered' /\ Accounted' /\ HotSurrounded' /\ GivenUpBehind' /\ Windows'
  BY <1>1, <1>6, <1>8, Untouched DEF Sound
<1>10. QED
  BY <1>7, <1>9 DEF Told

(* A hot chunk is judged: the window starts at it.                         *)
LEMMA NewHot ==
  ASSUME Sound, hot' = hot \cup {LastSorted + 1}, UNCHANGED discarded,
         LastSorted' = LastSorted + 1, Decided' = LastSorted + 1, Left' = POSTTRIGGER_CHUNKS
  PROVE  HotSurrounded' /\ GivenUpBehind' /\ Windows'
<1>1. PICK s \in Int, b \in Nat, p \in 0 .. POSTTRIGGER_CHUNKS :
        s = LastSorted /\ b = Decided /\ p = Left
  BY NumberTypes, DecidedBounds DEF Sound, Told
<1>2. POSTTRIGGER_CHUNKS \in Nat /\ PRETRIGGER_CHUNKS \in Nat /\ hot \in SUBSET Nat
      /\ discarded \in SUBSET Nat
  BY ConfigAssumption DEF Sound, HTypeOK
<1>3. b <= s
  <2>1. Len(hist) \in Nat /\ b = s - Len(hist)
    BY <1>1, NumberTypes DEF Sound, Decided
  <2>2. QED
    BY <1>1, <2>1
<1>4. \A h \in hot : b - h >= POSTTRIGGER_CHUNKS - p
  BY <1>1 DEF Sound, Told, HotSurrounded
<1>5. \A d \in discarded : s - d >= PRETRIGGER_CHUNKS
  BY <1>1 DEF Sound, Told, GivenUpBehind
<1>6. HotSurrounded'
  <2>1. ASSUME NEW h \in hot \cup {s + 1}
        PROVE  (s + 1) - h >= POSTTRIGGER_CHUNKS - POSTTRIGGER_CHUNKS
    <3>1. CASE h = s + 1
      BY <1>1, <1>2, <3>1
    <3>2. CASE h \in hot
      <4>1. h \in Nat /\ b - h >= POSTTRIGGER_CHUNKS - p
        BY <1>2, <1>4, <3>2
      <4>2. QED
        BY <1>1, <1>2, <1>3, <4>1
    <3>3. QED
      BY <2>1, <3>1, <3>2
  <2>2. QED
    BY <1>1, <2>1 DEF HotSurrounded
<1>7. GivenUpBehind'
  <2>1. ASSUME NEW d \in discarded PROVE (s + 1) - d >= PRETRIGGER_CHUNKS
    <3>1. d \in Nat /\ s - d >= PRETRIGGER_CHUNKS
      BY <1>2, <1>5
    <3>2. QED
      BY <1>1, <1>2, <3>1
  <2>2. QED
    BY <1>1, <2>1 DEF GivenUpBehind
<1>8. Windows'
  <2>1. ASSUME NEW d \in discarded
        PROVE  ~(s + 1 < d) /\ (s + 1) - d > PRETRIGGER_CHUNKS
    <3>1. d \in Nat /\ s - d >= PRETRIGGER_CHUNKS
      BY <1>2, <1>5
    <3>2. QED
      BY <1>1, <1>2, <3>1
  <2>2. \A d \in discarded, h \in hot :
          IF h < d THEN d - h > POSTTRIGGER_CHUNKS ELSE h - d > PRETRIGGER_CHUNKS
    BY DEF Sound, Told, Windows
  <2>3. hot' = hot \cup {s + 1} /\ discarded' = discarded
    BY <1>1
  <2>4. QED
    BY <2>1, <2>2, <2>3 DEF Windows
<1>9. QED
  BY <1>6, <1>7, <1>8

LEMMA ToldTrigger == ASSUME Sound, HTrigger PROVE Told'
<1>1. /\ hand \in Index /\ hist \in Seq(Index) /\ tx \in Seq(Index) /\ Trigger
  BY SortFacts DEF Sound, OwnInv, IInv, TypeOK, HTrigger, Trigger
<1>2. /\ tx' = Append(tx \o hist, hand) /\ hist' = <<>> /\ hand' = NoChunk
      /\ capState' = "POST" /\ postRemaining' = POSTTRIGGER_CHUNKS
      /\ hot' = hot \cup {stamp[hand]}
      /\ UNCHANGED <<ready, rxCount, stamp, sent, discarded>>
  BY <1>1 DEF HTrigger, Trigger, NextIteration
<1>3. PICK n \in Nat, m \in Nat, r \in Nat, x \in Nat :
        n = Len(tx) /\ m = Len(hist) /\ r = Len(ready) /\ x = rxCount
  BY NumberTypes DEF Sound
<1>4. One(hand) = 1 /\ One(hand') = 0 /\ hand # NoChunk
  BY <1>1, <1>2, IndexIsNotNoChunk DEF One
<1>5. LastSorted = x - r - 1 /\ LastSorted' = x - r /\ Decided = x - r - 1 - m
  BY <1>2, <1>3, <1>4 DEF LastSorted, Decided
<1>6. Decided' = x - r
  <2>1. Len(hist') = 0
    BY <1>2
  <2>2. QED
    BY <1>3, <1>5, <2>1 DEF Decided
<1>7. stamp[hand] = x - r
  BY <1>3, <1>4 DEF Sound, Told, Numbered
<1>8. PICK s \in Seq(Index) : s = tx \o hist
  BY <1>1, ConcatFacts
<1>9. Len(s) = n + m /\ \A i \in 1 .. n + m : s[i] = IF i <= n THEN tx[i] ELSE hist[i - n]
  BY <1>1, <1>3, <1>8, ConcatProperties
<1>10. /\ tx' \in Seq(Index) /\ Len(tx') = n + m + 1
       /\ \A i \in 1 .. n + m : tx'[i] = s[i]
       /\ tx'[n + m + 1] = hand
  <2>1. tx' = Append(s, hand)
    BY <1>2, <1>8
  <2>2. QED
    BY <1>1, <1>9, <2>1, AppendProperties
<1>11. ASSUME NEW i \in 1 .. n PROVE tx'[i] = tx[i]
  <2>1. i \in 1 .. n + m /\ i <= n
    OBVIOUS
  <2>2. QED
    BY <1>9, <1>10, <2>1
<1>12. ASSUME NEW i \in 1 .. m + 1 PROVE stamp[tx'[n + i]] = Decided + i
  <2>1. CASE i = m + 1
    <3>1. n + i = n + m + 1
      BY <2>1
    <3>2. stamp[tx'[n + i]] = x - r
      BY <1>7, <1>10, <3>1
    <3>3. QED
      BY <1>5, <2>1, <3>2
  <2>2. CASE i # m + 1
    <3>1. i \in 1 .. m /\ n + i \in 1 .. n + m /\ ~(n + i <= n) /\ n + i - n = i
      BY <2>2
    <3>2. s[n + i] = hist[i]
      BY <1>9, <3>1
    <3>3. i \in DOMAIN hist
      BY <1>3, <3>1, NumberTypes DEF Sound
    <3>4. stamp[hist[i]] = Decided + i
      BY <3>3 DEF Sound, Told, Numbered
    <3>5. QED
      BY <1>10, <3>1, <3>2, <3>4
  <2>3. QED
    BY <2>1, <2>2
<1>13. Ordered' /\ Accounted'
  <2>1. Len(tx') = Len(tx) + (m + 1) /\ Decided' = Decided + (m + 1) /\ m + 1 \in Nat
    BY <1>3, <1>5, <1>6, <1>10
  <2>2. \A i \in 1 .. Len(tx) : tx'[i] = tx[i]
    BY <1>3, <1>11
  <2>3. \A i \in 1 .. m + 1 : stamp[tx'[Len(tx) + i]] = Decided + i
    BY <1>3, <1>12
  <2>4. PICK k \in Nat : k = m + 1
    BY <2>1
  <2>5. QED
    BY <1>2, <1>10, <2>1, <2>2, <2>3, <2>4, QueueGrows DEF Sound
<1>14. HotSurrounded' /\ GivenUpBehind' /\ Windows'
  <2>1. stamp[hand] = LastSorted + 1 /\ LastSorted' = LastSorted + 1 /\ Decided' = LastSorted + 1
    BY <1>3, <1>5, <1>6, <1>7
  <2>2. Left' = POSTTRIGGER_CHUNKS
    BY <1>2 DEF Left
  <2>3. QED
    BY <1>2, <2>1, <2>2, NewHot
<1>15. Numbered'
  <2>1. DOMAIN hist' = {}
    BY <1>2
  <2>2. \A i \in DOMAIN ready : stamp[ready[i]] = rxCount - Len(ready) + i
    BY DEF Sound, Told, Numbered
  <2>3. QED
    BY <1>2, <2>1, <2>2 DEF Numbered
<1>16. QED
  BY <1>13, <1>14, <1>15 DEF Told

LEMMA OneLess ==
  \A p \in Nat : /\ (IF p > 0 THEN p - 1 ELSE 0) \in Int
                 /\ (IF p > 0 THEN p - 1 ELSE 0) >= p - 1
  OBVIOUS

(* A cold chunk within a capture: the window shrinks by one.               *)
LEMMA WindowShrinks ==
  ASSUME Sound, capState = "POST", UNCHANGED <<hot, discarded>>,
         LastSorted' = LastSorted + 1, Decided' = Decided + 1, Left' = PostLeft(FALSE)
  PROVE  HotSurrounded' /\ GivenUpBehind' /\ Windows'
<1>1. PICK s \in Int, b \in Nat, p \in 0 .. POSTTRIGGER_CHUNKS :
        s = LastSorted /\ b = Decided /\ p = Left /\ p = postRemaining
  BY NumberTypes, DecidedBounds DEF Sound, Told, Left
<1>2. POSTTRIGGER_CHUNKS \in Nat /\ PRETRIGGER_CHUNKS \in Nat /\ hot \in SUBSET Nat
      /\ discarded \in SUBSET Nat
  BY ConfigAssumption DEF Sound, HTypeOK
<1>3. PICK q \in Int : q = Left' /\ q >= p - 1
  <2>1. PostLeft(FALSE) = IF p > 0 THEN p - 1 ELSE 0
    BY <1>1 DEF PostLeft
  <2>2. p \in Nat
    BY <1>2
  <2>3. PostLeft(FALSE) \in Int /\ PostLeft(FALSE) >= p - 1
    BY <2>1, <2>2, OneLess
  <2>4. QED
    BY <2>3
<1>4. HotSurrounded'
  <2>1. ASSUME NEW h \in hot PROVE (b + 1) - h >= POSTTRIGGER_CHUNKS - q
    <3>1. h \in Nat /\ b - h >= POSTTRIGGER_CHUNKS - p
      BY <1>1, <1>2 DEF Sound, Told, HotSurrounded
    <3>2. p \in Nat
      BY <1>2
    <3>3. q >= p - 1
      BY <1>3, <3>2
    <3>4. QED
      BY <1>2, <3>1, <3>2, <3>3
  <2>2. QED
    BY <1>1, <1>3, <2>1 DEF HotSurrounded
<1>5. GivenUpBehind'
  <2>1. ASSUME NEW d \in discarded PROVE (s + 1) - d >= PRETRIGGER_CHUNKS
    <3>1. d \in Nat /\ s - d >= PRETRIGGER_CHUNKS
      BY <1>1, <1>2 DEF Sound, Told, GivenUpBehind
    <3>2. QED
      BY <1>1, <1>2, <3>1
  <2>2. QED
    BY <1>1, <2>1 DEF GivenUpBehind
<1>6. Windows'
  BY DEF Sound, Told, Windows
<1>7. QED
  BY <1>4, <1>5, <1>6

LEMMA ToldSendPost ==
  ASSUME Sound, NEW isHot \in BOOLEAN, HSendPost(isHot)
  PROVE  Told'
<1>1. /\ hand \in Index /\ tx \in Seq(Index) /\ hist = <<>> /\ SendPost(isHot)
      /\ capState = "POST"
  BY SortFacts DEF Sound, OwnInv, IInv, TypeOK, HistoryEmptyInPost, HSendPost, SendPost
<1>2. /\ tx' = Append(tx, hand) /\ hist' = <<>> /\ hand' = NoChunk
      /\ postRemaining' = PostLeft(isHot)
      /\ capState' = IF postRemaining' = 0 THEN "IDLE" ELSE "POST"
      /\ hot' = IF isHot THEN hot \cup {stamp[hand]} ELSE hot
      /\ UNCHANGED <<ready, rxCount, stamp, sent, discarded>>
  BY <1>1 DEF HSendPost, SendPost, NextIteration
<1>3. PICK n \in Nat, r \in Nat, x \in Nat : n = Len(tx) /\ r = Len(ready) /\ x = rxCount
  BY NumberTypes DEF Sound
<1>4. One(hand) = 1 /\ One(hand') = 0 /\ hand # NoChunk /\ Len(hist) = 0 /\ Len(hist') = 0
  BY <1>1, <1>2, IndexIsNotNoChunk DEF One
<1>5. LastSorted = x - r - 1 /\ LastSorted' = x - r
  BY <1>2, <1>3, <1>4 DEF LastSorted
<1>6. Decided = x - r - 1 /\ Decided' = x - r
  BY <1>3, <1>4, <1>5 DEF Decided
<1>7. stamp[hand] = x - r
  BY <1>3, <1>4 DEF Sound, Told, Numbered
<1>8. /\ tx' \in Seq(Index) /\ Len(tx') = n + 1
      /\ \A i \in 1 .. n : tx'[i] = tx[i]
      /\ tx'[n + 1] = hand
  BY <1>1, <1>2, <1>3, AppendProperties
<1>9. Ordered' /\ Accounted'
  <2>1. Len(tx') = Len(tx) + 1 /\ Decided' = Decided + 1
    BY <1>3, <1>6, <1>8
  <2>2. \A i \in 1 .. Len(tx) : tx'[i] = tx[i]
    BY <1>3, <1>8
  <2>3. \A i \in 1 .. 1 : stamp[tx'[Len(tx) + i]] = Decided + i
    BY <1>3, <1>6, <1>7, <1>8
  <2>4. QED
    BY <1>2, <1>8, <2>1, <2>2, <2>3, QueueGrows DEF Sound
<1>10. Left' = PostLeft(isHot)
  BY <1>2 DEF Left
<1>11. LastSorted' = LastSorted + 1 /\ Decided' = LastSorted + 1 /\ Decided' = Decided + 1
       /\ stamp[hand] = LastSorted + 1
  BY <1>3, <1>5, <1>6, <1>7
<1>12. HotSurrounded' /\ GivenUpBehind' /\ Windows'
  <2>1. CASE isHot
    <3>1. Left' = POSTTRIGGER_CHUNKS /\ hot' = hot \cup {LastSorted + 1}
      BY <1>2, <1>10, <1>11, <2>1 DEF PostLeft
    <3>2. QED
      BY <1>2, <1>11, <3>1, NewHot
  <2>2. CASE ~isHot
    <3>1. Left' = PostLeft(FALSE) /\ hot' = hot
      BY <1>2, <1>10, <2>2 DEF PostLeft
    <3>2. QED
      BY <1>1, <1>2, <1>11, <3>1, WindowShrinks
  <2>3. QED
    BY <2>1, <2>2
<1>13. Numbered'
  <2>1. DOMAIN hist' = {}
    BY <1>2
  <2>2. \A i \in DOMAIN ready : stamp[ready[i]] = rxCount - Len(ready) + i
    BY DEF Sound, Told, Numbered
  <2>3. QED
    BY <1>2, <2>1, <2>2 DEF Numbered
<1>14. QED
  BY <1>9, <1>12, <1>13 DEF Told

(* The oldest chunk of the history is given up: it is the next in line.    *)
LEMMA GivesUp ==
  ASSUME Sound, capState = "IDLE", UNCHANGED <<tx, sent, stamp, hot, capVars>>,
         LastSorted' = LastSorted + 1, Decided' = Decided + 1,
         Len(hist) >= PRETRIGGER_CHUNKS, discarded' = discarded \cup {Decided + 1}
  PROVE  Ordered' /\ Accounted' /\ HotSurrounded' /\ GivenUpBehind' /\ Windows'
<1>1. PICK s \in Int, b \in Nat, m \in Nat :
        s = LastSorted /\ b = Decided /\ m = Len(hist) /\ b = s - m
  BY NumberTypes, DecidedBounds DEF Sound, Told, Decided
<1>2. /\ POSTTRIGGER_CHUNKS \in Nat /\ PRETRIGGER_CHUNKS \in Nat /\ hot \in SUBSET Nat
      /\ discarded \in SUBSET Nat /\ m >= PRETRIGGER_CHUNKS /\ Left = 0 /\ Left' = 0
  BY <1>1, ConfigAssumption DEF Sound, HTypeOK, Left, capVars
<1>3. \A h \in hot : h \in Nat /\ b - h >= POSTTRIGGER_CHUNKS - 0
  BY <1>1, <1>2 DEF Sound, Told, HotSurrounded
<1>4. \A d \in discarded : d \in Nat /\ s - d >= PRETRIGGER_CHUNKS
  BY <1>1, <1>2 DEF Sound, Told, GivenUpBehind
<1>5. Ordered'
  BY DEF Sound, Told, Ordered
<1>6. Accounted'
  <2>1. SentNumbers \cup QueuedNumbers \cup discarded = 1 .. b
    BY <1>1 DEF Sound, Told, Accounted
  <2>2. SentNumbers' = SentNumbers /\ QueuedNumbers' = QueuedNumbers
    BY DEF SentNumbers, QueuedNumbers
  <2>3. (1 .. b) \cup {b + 1} = 1 .. b + 1 /\ b + 1 \in Nat
    OBVIOUS
  <2>4. QED
    BY <1>1, <2>1, <2>2, <2>3 DEF Accounted
<1>7. HotSurrounded'
  <2>1. \A h \in hot : (b + 1) - h >= POSTTRIGGER_CHUNKS - 0
    BY <1>2, <1>3
  <2>2. QED
    BY <1>1, <1>2, <2>1 DEF HotSurrounded
<1>8. GivenUpBehind'
  <2>1. \A d \in discarded : (s + 1) - d >= PRETRIGGER_CHUNKS
    BY <1>2, <1>4
  <2>2. (s + 1) - (b + 1) >= PRETRIGGER_CHUNKS
    BY <1>1, <1>2
  <2>3. QED
    BY <1>1, <2>1, <2>2 DEF GivenUpBehind
<1>9. Windows'
  <2>1. \A h \in hot : h < b + 1 /\ (b + 1) - h > POSTTRIGGER_CHUNKS
    BY <1>2, <1>3
  <2>2. \A d \in discarded, h \in hot :
          IF h < d THEN d - h > POSTTRIGGER_CHUNKS ELSE h - d > PRETRIGGER_CHUNKS
    BY DEF Sound, Told, Windows
  <2>3. QED
    BY <1>1, <2>1, <2>2 DEF Windows
<1>10. QED
  BY <1>5, <1>6, <1>7, <1>8, <1>9

LEMMA ToldKeepHistory == ASSUME Sound, HKeepHistory PROVE Told'
<1>1. /\ hand \in Index /\ hand' = NoChunk /\ hist \in Seq(Index) /\ KeepHistory
      /\ UNCHANGED <<ready, tx, capVars, rxCount, stamp, hot, sent>> /\ capState = "IDLE"
  BY KeepHistoryFacts
  DEF Sound, OwnInv, IInv, TypeOK, HKeepHistory, KeepHistory
<1>2. discarded' = IF Len(hist) < PRETRIGGER_CHUNKS THEN discarded
                   ELSE discarded \cup {stamp[Oldest]}
  BY DEF HKeepHistory, Oldest
<1>3. PICK m \in Nat, r \in Nat, x \in Nat : m = Len(hist) /\ r = Len(ready) /\ x = rxCount
  BY NumberTypes DEF Sound
<1>4. One(hand) = 1 /\ One(hand') = 0 /\ hand # NoChunk
  BY <1>1, IndexIsNotNoChunk DEF One
<1>5. LastSorted = x - r - 1 /\ LastSorted' = x - r /\ Decided = x - r - 1 - m
  BY <1>1, <1>3, <1>4 DEF LastSorted, Decided
<1>6. PICK b \in Nat : b = Decided
  BY DecidedBounds DEF Sound, Told
<1>7. PICK g \in Seq(Index) : g = Append(hist, hand)
  BY <1>1, AppendFacts
<1>8. Len(g) = m + 1 /\ DOMAIN g = 1 .. m + 1 /\ g # <<>>
      /\ \A i \in 1 .. m + 1 : stamp[g[i]] = b + i
  <2>1. Len(g) = m + 1 /\ (\A i \in 1 .. m : g[i] = hist[i]) /\ g[m + 1] = hand
        /\ DOMAIN g = 1 .. m + 1 /\ g # <<>>
    BY <1>1, <1>3, <1>7, AppendProperties, LenProperties, AppendFacts
  <2>2. ASSUME NEW i \in 1 .. m + 1 PROVE stamp[g[i]] = b + i
    <3>1. CASE i = m + 1
      <4>1. stamp[hand] = x - r
        BY <1>3, <1>4 DEF Sound, Told, Numbered
      <4>2. QED
        BY <1>5, <1>6, <2>1, <3>1, <4>1
    <3>2. CASE i # m + 1
      <4>1. i \in DOMAIN hist /\ g[i] = hist[i]
        BY <1>1, <1>3, <2>1, <3>2, LenProperties
      <4>2. QED
        BY <1>6, <4>1 DEF Sound, Told, Numbered
    <3>3. QED
      BY <3>1, <3>2
  <2>3. QED
    BY <2>1, <2>2
<1>9. \A i \in DOMAIN ready' : stamp'[ready'[i]] = rxCount' - Len(ready') + i
  BY <1>1 DEF Sound, Told, Numbered
<1>10. CASE Len(hist) < PRETRIGGER_CHUNKS
  <2>1. hist' = g /\ discarded' = discarded
    BY <1>2, <1>7, <1>10, <1>3, KeepHistoryFacts, <1>1, ConfigAssumption DEF Sound, OwnInv
  <2>2. Decided' = Decided
    BY SMTT(20), <1>3, <1>5, <1>8, <2>1 DEF Decided
  <2>3. Numbered'
    <3>1. \A i \in DOMAIN hist' : stamp'[hist'[i]] = Decided' + i
      BY <1>1, <1>6, <1>8, <2>1, <2>2
    <3>2. QED
      BY <1>1, <1>9, <3>1 DEF Numbered
  <2>4. LastSorted' \in Int /\ LastSorted' >= LastSorted
    BY <1>5
  <2>5. \A i \in DOMAIN tx : stamp'[tx[i]] = stamp[tx[i]]
    BY <1>1
  <2>6. Ordered' /\ Accounted' /\ HotSurrounded' /\ GivenUpBehind' /\ Windows'
    BY <1>1, <2>1, <2>2, <2>4, <2>5, Untouched DEF Sound
  <2>7. QED
    BY <2>3, <2>6 DEF Told
<1>11. CASE ~(Len(hist) < PRETRIGGER_CHUNKS)
  <2>1. hist' = Tail(g)
    BY <1>1, <1>7, <1>11, KeepHistoryFacts DEF Sound, OwnInv
  <2>2. /\ Len(hist') = m /\ hist' \in Seq(Index) /\ DOMAIN hist' = 1 .. m
        /\ \A i \in 1 .. m : hist'[i] = g[i + 1]
    BY <1>8, <2>1, HeadTailProperties, LenProperties
  <2>3. stamp[Oldest] = b + 1
    <3>1. Oldest = g[1] /\ 1 \in 1 .. m + 1
      BY <1>7, <1>8 DEF Oldest
    <3>2. QED
      BY <1>8, <3>1
  <2>4. Decided' = Decided + 1 /\ LastSorted' = LastSorted + 1
    BY <1>5, <2>2 DEF Decided
  <2>5. Numbered'
    <3>1. ASSUME NEW i \in 1 .. m PROVE stamp'[hist'[i]] = (b + 1) + i
      <4>1. i + 1 \in 1 .. m + 1 /\ hist'[i] = g[i + 1]
        BY <2>2
      <4>2. stamp[g[i + 1]] = b + (i + 1)
        BY <1>8, <4>1
      <4>3. QED
        BY <1>1, <4>1, <4>2
    <3>2. \A i \in DOMAIN hist' : stamp'[hist'[i]] = Decided' + i
      BY <1>6, <2>2, <2>4, <3>1
    <3>3. QED
      BY <1>1, <1>9, <3>2 DEF Numbered
  <2>6. discarded' = discarded \cup {Decided + 1}
    BY <1>2, <1>6, <1>11, <2>3
  <2>7. Len(hist) >= PRETRIGGER_CHUNKS
    BY <1>3, <1>11, ConfigAssumption
  <2>8. Ordered' /\ Accounted' /\ HotSurrounded' /\ GivenUpBehind' /\ Windows'
    BY <1>1, <2>4, <2>6, <2>7, GivesUp
  <2>9. QED
    BY <2>5, <2>8 DEF Told
<1>12. QED
  BY <1>10, <1>11

(* A transfer starts, and its number is recorded; or the queue is empty.   *)
LEMMA HLoadFacts ==
  ASSUME OwnInv, HTypeOK, HLoad
  PROVE  /\ UNCHANGED <<ready, hist, hand, capVars, rxCount, stamp, hot, discarded, lost>>
         /\ \/ /\ tx # <<>> /\ tx' = Tail(tx) /\ Head(tx) \in Index
               /\ sent' = Append(sent, stamp[Head(tx)])
            \/ UNCHANGED <<tx, sent>>
<1>1. PollNext \/ StartTx
  BY DEF HLoad
<1>2. UNCHANGED <<ready, hist, hand, capVars, rxCount, stamp, hot, discarded, lost>>
  BY <1>1, LoadFacts DEF OwnInv, HLoad
<1>3. CASE tx # <<>> /\ LoadNextTx /\ Head(tx) \in Index
  <2>1. tx' = Tail(tx) /\ wire' = Head(tx) /\ wire' # NoChunk
    BY <1>3, IndexIsNotNoChunk DEF LoadNextTx
  <2>2. sent' = Append(sent, stamp[wire'])
    BY <2>1 DEF HLoad, RecordSent
  <2>3. QED
    BY <1>2, <1>3, <2>1, <2>2
<1>4. CASE UNCHANGED <<tx, curTx, wire>>
  <2>1. wire = NoChunk
    BY DEF HLoad, PollNext, OwnInv, IInv, LoopShape, ChannelInStep
  <2>2. sent' = sent
    BY <1>4, <2>1 DEF HLoad, RecordSent
  <2>3. QED
    BY <1>2, <1>4, <2>2
<1>5. QED
  BY <1>1, <1>3, <1>4, LoadFacts DEF OwnInv

LEMMA ToldLoad == ASSUME Sound, HLoad PROVE Told'
<1>1. UNCHANGED <<ready, hist, hand, capVars, rxCount, stamp, hot, discarded>>
  BY HLoadFacts DEF Sound
<1>2. LastSorted' = LastSorted /\ Decided' = Decided
  BY <1>1 DEF LastSorted, Decided
<1>3. Numbered'
  BY <1>1, <1>2 DEF Sound, Told, Numbered
<1>4. HotSurrounded' /\ GivenUpBehind' /\ Windows'
  BY <1>1, <1>2 DEF Sound, Told, HotSurrounded, GivenUpBehind, Windows, Left, capVars
<1>5. CASE tx # <<>> /\ tx' = Tail(tx) /\ sent' = Append(sent, stamp[Head(tx)])
  <2>1. /\ tx \in Seq(Index) /\ sent \in Seq(Nat) /\ stamp \in [Index -> Nat]
        /\ DOMAIN tx = 1 .. Len(tx) /\ DOMAIN sent = 1 .. Len(sent)
    BY LenProperties DEF Sound, OwnInv, IInv, TypeOK, HTypeOK
  <2>2. PICK n \in Nat, m \in Nat : n = Len(sent) /\ m + 1 = Len(tx)
    <3>1. Len(tx) \in Nat \ {0} /\ Len(sent) \in Nat
      BY <1>5, <2>1, EmptySeq, LenProperties
    <3>2. Len(tx) - 1 \in Nat /\ (Len(tx) - 1) + 1 = Len(tx)
      BY <3>1
    <3>3. QED
      BY <3>1, <3>2
  <2>3. /\ Head(tx) = tx[1] /\ Head(tx) \in Index /\ DOMAIN tx' = 1 .. m
        /\ \A i \in 1 .. m : tx'[i] = tx[i + 1]
    <3>1. /\ Head(tx) = tx[1] /\ Head(tx) \in Index /\ tx' \in Seq(Index)
          /\ Len(tx') = Len(tx) - 1
          /\ \A i \in 1 .. Len(tx') : tx'[i] = tx[i + 1]
      BY <1>5, <2>1, HeadTailProperties
    <3>2. Len(tx') = m
      BY <2>2, <3>1
    <3>3. DOMAIN tx' = 1 .. m
      BY <3>1, <3>2, LenProperties
    <3>4. QED
      BY <3>1, <3>2, <3>3
  <2>4. PICK v \in Nat : v = stamp[tx[1]]
    BY <2>1, <2>3
  <2>5. /\ sent' \in Seq(Nat) /\ DOMAIN sent' = 1 .. n + 1
        /\ \A i \in 1 .. n : sent'[i] = sent[i]
        /\ sent'[n + 1] = v
    <3>1. sent' = Append(sent, v)
      BY <1>5, <2>3, <2>4
    <3>2. /\ sent' \in Seq(Nat) /\ Len(sent') = n + 1
          /\ \A i \in 1 .. n : sent'[i] = sent[i]
          /\ sent'[n + 1] = v
      BY <2>1, <2>2, <3>1, AppendProperties
    <3>3. DOMAIN sent' = 1 .. n + 1
      BY <3>2, LenProperties
    <3>4. QED
      BY <3>2, <3>3
  <2>6. /\ \A i, j \in 1 .. n : i < j => sent[i] < sent[j]
        /\ \A i \in 1 .. n, j \in 1 .. m + 1 : sent[i] < stamp[tx[j]]
        /\ \A i, j \in 1 .. m + 1 : i < j => stamp[tx[i]] < stamp[tx[j]]
    BY <2>1, <2>2 DEF Sound, Told, Ordered
  <2>7. 1 \in 1 .. m + 1 /\ \A j \in 1 .. m : j + 1 \in 1 .. m + 1 /\ 1 < j + 1
    OBVIOUS
  <2>8. Ordered'
    <3>1. ASSUME NEW i \in 1 .. n + 1, NEW j \in 1 .. n + 1, i < j
          PROVE  sent'[i] < sent'[j]
      <4>1. i \in 1 .. n
        BY <3>1
      <4>2. CASE j = n + 1
        BY <2>4, <2>5, <2>6, <2>7, <4>1, <4>2
      <4>3. CASE j # n + 1
        <5>1. j \in 1 .. n
          BY <4>3
        <5>2. QED
          BY <2>5, <2>6, <3>1, <4>1, <5>1
      <4>4. QED
        BY <4>2, <4>3
    <3>2. ASSUME NEW i \in 1 .. n + 1, NEW j \in 1 .. m
          PROVE  sent'[i] < stamp[tx'[j]]
      <4>1. tx'[j] = tx[j + 1] /\ j + 1 \in 1 .. m + 1 /\ 1 < j + 1
        BY <2>3, <2>7
      <4>2. CASE i = n + 1
        BY <2>4, <2>5, <2>6, <2>7, <4>1, <4>2
      <4>3. CASE i # n + 1
        <5>1. i \in 1 .. n
          BY <4>3
        <5>2. QED
          BY <2>5, <2>6, <4>1, <5>1
      <4>4. QED
        BY <4>2, <4>3
    <3>3. ASSUME NEW i \in 1 .. m, NEW j \in 1 .. m, i < j
          PROVE  stamp[tx'[i]] < stamp[tx'[j]]
      <4>1. tx'[j] = tx[j + 1] /\ tx'[i] = tx[i + 1] /\ i + 1 < j + 1
        BY <2>3, <3>3
      <4>2. QED
        BY <2>6, <2>7, <4>1
    <3>4. QED
      BY <1>1, <2>3, <2>5, <3>1, <3>2, <3>3 DEF Ordered
  <2>9. Accounted'
    <3>1. SentNumbers' = SentNumbers \cup {v}
      <4>1. SentNumbers' = {sent'[i] : i \in 1 .. n + 1} /\ SentNumbers = {sent[i] : i \in 1 .. n}
        BY <2>1, <2>2, <2>5 DEF SentNumbers
      <4>2. 1 .. n + 1 = (1 .. n) \cup {n + 1}
        OBVIOUS
      <4>3. QED
        BY <2>5, <4>1, <4>2
    <3>2. QueuedNumbers = QueuedNumbers' \cup {v}
      <4>1. QueuedNumbers' = {stamp[tx'[i]] : i \in 1 .. m}
            /\ QueuedNumbers = {stamp[tx[i]] : i \in 1 .. m + 1}
        BY <1>1, <2>1, <2>2, <2>3 DEF QueuedNumbers
      <4>2. \A i \in 1 .. m + 1 : i = 1 \/ \E j \in 1 .. m : i = j + 1
        <5>1. ASSUME NEW i \in 1 .. m + 1, i # 1 PROVE i - 1 \in 1 .. m /\ i = (i - 1) + 1
          BY <5>1
        <5>2. QED
          BY <5>1
      <4>3. \A x : x \in QueuedNumbers => x \in QueuedNumbers' \cup {v}
        BY SMTT(20), <2>3, <2>4, <4>1, <4>2
      <4>4. \A x : x \in QueuedNumbers' \cup {v} => x \in QueuedNumbers
        BY <2>3, <2>4, <2>7, <4>1
      <4>5. QED
        BY <4>3, <4>4
    <3>3. QED
      BY <1>1, <1>2, <3>1, <3>2 DEF Sound, Told, Accounted
  <2>10. QED
    BY <1>3, <1>4, <2>8, <2>9 DEF Told
<1>6. CASE UNCHANGED <<tx, sent>>
  BY <1>1, <1>2, <1>3, <1>4, <1>6
  DEF Sound, Told, Ordered, Accounted, SentNumbers, QueuedNumbers
<1>7. QED
  BY <1>5, <1>6, HLoadFacts DEF Sound

-----------------------------------------------------------------------------
(* CaptureHistory adds to every step of ChunkMonitor, and forbids none.    *)
LEMMA HistoryStep == [HNext]_hvars => [Next]_vars
<1> SUFFICES ASSUME [HNext]_hvars PROVE [Next]_vars
  OBVIOUS
<1>1. CASE HRxEvent
  BY <1>1 DEF HRxEvent, Next
<1>2. CASE HTrigger \/ HKeepHistory \/ \E isHot \in BOOLEAN : HSendPost(isHot)
  BY <1>2 DEF HTrigger, HKeepHistory, HSendPost, Next, MainLoop
<1>3. CASE HLoad \/ HOther
  BY <1>3 DEF HLoad, HOther, Next, MainLoop
<1>4. CASE UNCHANGED hvars
  BY <1>4 DEF hvars
<1>5. QED
  BY <1>1, <1>2, <1>3, <1>4 DEF HNext

(* A buffer once lost stays lost.                                          *)
LEMMA LostStays ==
  ASSUME OwnInv, [Next]_vars, lost' = NoChunk
  PROVE  lost = NoChunk
<1>1. ASSUME NEW idx \in Index, ReturnToFree(idx) PROVE lost = NoChunk
  BY <1>1, IndexIsNotNoChunk DEF ReturnToFree
<1>2. CASE PollRecycle
  BY <1>1, <1>2, PollRecycleFacts DEF OwnInv
<1>3. CASE KeepHistory
  <2>1. UNCHANGED lost \/ (Oldest \in Index /\ ReturnToFree(Oldest))
    BY <1>3, KeepHistoryFacts DEF OwnInv
  <2>2. CASE Oldest \in Index /\ ReturnToFree(Oldest)
    <3>1. PICK idx \in Index : idx = Oldest
      BY <2>2
    <3>2. QED
      BY <1>1, <2>2, <3>1
  <2>3. QED
    BY <2>1, <2>2
<1>4. CASE RxEvent \/ TransferDone \/ Stop \/ UNCHANGED vars
  BY <1>4 DEF RxEvent, TransferDone, Stop, vars
<1>5. CASE PollBusy \/ PollNext \/ EndPolls \/ TakeReady \/ EndDrain \/ StartTx
  BY <1>5 DEF PollBusy, PollNext, EndPolls, TakeReady, EndDrain, StartTx
<1>6. CASE Trigger \/ \E isHot \in BOOLEAN : SendPost(isHot)
  BY <1>6 DEF Trigger, SendPost
<1>7. QED
  BY <1>2, <1>3, <1>4, <1>5, <1>6 DEF Next, MainLoop

\* What HOther does to the queues that are numbered.
LEMMA HOtherFacts ==
  ASSUME OwnInv, HOther
  PROVE  /\ UNCHANGED historyVars
         /\ TakeReady \/ UNCHANGED <<ready, hist, tx, hand, capVars>>
<1>1. UNCHANGED historyVars
  BY DEF HOther
<1>2. CASE TransferDone \/ PollBusy \/ EndPolls \/ EndDrain \/ Stop
  BY <1>1, <1>2 DEF TransferDone, PollBusy, EndPolls, EndDrain, Stop
<1>3. CASE PollRecycle \/ (StartTx /\ ldmaActive)
  BY <1>1, <1>3 DEF PollRecycle, StartTx
<1>4. CASE TakeReady
  BY <1>1, <1>4
<1>5. QED
  BY <1>2, <1>3, <1>4 DEF HOther

LEMMA HTypeStep == ASSUME OwnInv, HTypeOK, [HNext]_hvars PROVE HTypeOK'
<1>1. /\ rxCount \in Nat /\ stamp \in [Index -> Nat] /\ sent \in Seq(Nat)
      /\ hot \in SUBSET Nat /\ discarded \in SUBSET Nat
  BY DEF HTypeOK
<1>2. CASE HRxEvent
  <2>1. rxCount' = rxCount + 1 /\ stamp' = [stamp EXCEPT ![FreeHead] = rxCount + 1]
        /\ UNCHANGED <<hot, sent, discarded>>
    BY <1>2 DEF HRxEvent
  <2>2. rxCount' \in Nat
    BY <1>1, <2>1
  <2>3. stamp' = [stamp EXCEPT ![FreeHead] = rxCount']
    BY <2>1
  <2>4. stamp' \in [Index -> Nat]
    BY <1>1, <2>2, <2>3
  <2>5. QED
    BY <1>1, <2>1, <2>2, <2>4 DEF HTypeOK
<1>3. CASE HTrigger \/ \E isHot \in BOOLEAN : HSendPost(isHot)
  <2>1. hand \in Index
    BY <1>3, SortFacts DEF OwnInv, HTrigger, Trigger, HSendPost, SendPost
  <2>2. stamp[hand] \in Nat
    BY <1>1, <2>1
  <2>3. hot' \in SUBSET Nat
    BY <1>1, <1>3, <2>2 DEF HTrigger, HSendPost
  <2>4. UNCHANGED <<rxCount, stamp, sent, discarded>>
    BY <1>3 DEF HTrigger, HSendPost
  <2>5. QED
    BY <1>1, <2>3, <2>4 DEF HTypeOK
<1>4. CASE HKeepHistory
  <2>1. Append(hist, hand) \in Seq(Index) /\ Append(hist, hand) # <<>>
    BY <1>4, KeepHistoryFacts DEF OwnInv, HKeepHistory
  <2>2. Head(Append(hist, hand)) \in Index
    BY <2>1, PopFacts
  <2>3. stamp[Head(Append(hist, hand))] \in Nat
    BY <1>1, <2>2
  <2>4. discarded' \in SUBSET Nat
    BY <1>1, <1>4, <2>3 DEF HKeepHistory
  <2>5. QED
    BY <1>1, <1>4, <2>4 DEF HKeepHistory, HTypeOK
<1>5. CASE HLoad
  <2>1. sent' \in Seq(Nat)
    <3>1. CASE Head(tx) \in Index /\ sent' = Append(sent, stamp[Head(tx)])
      <4>1. stamp[Head(tx)] \in Nat
        BY <1>1, <3>1
      <4>2. QED
        BY <1>1, <3>1, <4>1, AppendFacts
    <3>2. CASE UNCHANGED sent
      BY <1>1, <3>2
    <3>3. QED
      BY <1>5, <3>1, <3>2, HLoadFacts
  <2>2. QED
    BY <1>1, <1>5, <2>1 DEF HLoad, HTypeOK
<1>6. CASE HOther \/ UNCHANGED hvars
  <2>1. UNCHANGED <<rxCount, stamp, hot, sent, discarded>>
    BY <1>6 DEF HOther, hvars, historyVars
  <2>2. QED
    BY <1>1, <2>1 DEF HTypeOK
<1>7. QED
  BY <1>2, <1>3, <1>4, <1>5, <1>6 DEF HNext

LEMMA HistoryEmptyStep ==
  ASSUME OwnInv, HistoryEmptyInPost, [HNext]_hvars
  PROVE  HistoryEmptyInPost'
<1>1. CASE HRxEvent
  BY <1>1 DEF HRxEvent, RxEvent, HistoryEmptyInPost, capVars
<1>2. CASE HTrigger
  BY <1>2 DEF HTrigger, Trigger, HistoryEmptyInPost
<1>3. CASE HKeepHistory
  BY <1>3 DEF HKeepHistory, KeepHistory, HistoryEmptyInPost, capVars
<1>4. CASE \E isHot \in BOOLEAN : HSendPost(isHot)
  BY <1>4 DEF HSendPost, SendPost, HistoryEmptyInPost
<1>5. CASE HLoad
  BY <1>5, LoadFacts DEF OwnInv, HLoad, HistoryEmptyInPost, capVars
<1>6. CASE HOther
  BY <1>6, HOtherFacts, TakeReadyFacts DEF OwnInv, HistoryEmptyInPost, capVars
<1>7. CASE UNCHANGED hvars
  BY <1>7 DEF hvars, vars, capVars, HistoryEmptyInPost
<1>8. QED
  BY <1>1, <1>2, <1>3, <1>4, <1>5, <1>6, <1>7 DEF HNext

LEMMA ToldStep == ASSUME Sound, [HNext]_hvars PROVE Told'
<1>1. CASE HRxEvent
  BY <1>1, ToldRxEvent
<1>2. CASE HTrigger \/ HKeepHistory \/ \E isHot \in BOOLEAN : HSendPost(isHot)
  BY <1>2, ToldTrigger, ToldKeepHistory, ToldSendPost
<1>3. CASE HLoad
  BY <1>3, ToldLoad
<1>4. CASE HOther
  BY <1>4, HOtherFacts, ToldTakeReady, ToldQuiet DEF Sound, historyVars
<1>5. CASE UNCHANGED hvars
  BY <1>5, ToldQuiet DEF hvars, vars, historyVars
<1>6. QED
  BY <1>1, <1>2, <1>3, <1>4, <1>5 DEF HNext

LEMMA CapNext == CapInv /\ [HNext]_hvars => CapInv'
<1> SUFFICES ASSUME CapInv, [HNext]_hvars PROVE CapInv'
  OBVIOUS
<1>1. OwnInv'
  BY HistoryStep, OwnNext DEF CapInv
<1>2. HTypeOK' /\ HistoryEmptyInPost'
  BY HTypeStep, HistoryEmptyStep DEF CapInv
<1>3. lost' = NoChunk => Told'
  BY HistoryStep, LostStays, ToldStep DEF CapInv, Sound
<1>4. QED
  BY <1>1, <1>2, <1>3 DEF CapInv

LEMMA CapInit == HInit => CapInv
<1> SUFFICES ASSUME HInit PROVE CapInv
  OBVIOUS
<1>1. /\ Init /\ rxCount = 0 /\ stamp = [c \in Index |-> 0] /\ hot = {} /\ sent = <<>>
      /\ discarded = {}
  BY DEF HInit
<1>2. /\ ready = <<>> /\ hist = <<>> /\ tx = <<>> /\ hand = NoChunk /\ capState = "IDLE"
  BY <1>1 DEF Init
<1>3. OwnInv /\ HTypeOK /\ HistoryEmptyInPost
  BY <1>1, <1>2, OwnInit DEF HTypeOK, HistoryEmptyInPost
<1>4. LastSorted = 0 /\ Decided = 0
  <2>1. Len(ready) = 0 /\ Len(hist) = 0 /\ One(hand) = 0
    BY <1>2 DEF One
  <2>2. QED
    BY <1>1, <2>1 DEF LastSorted, Decided
<1>5. Numbered /\ Ordered
  BY <1>1, <1>2 DEF Numbered, Ordered
<1>6. Accounted
  <2>1. SentNumbers = {} /\ QueuedNumbers = {} /\ 1 .. 0 = {}
    BY <1>1, <1>2 DEF SentNumbers, QueuedNumbers
  <2>2. QED
    BY <1>1, <1>4, <2>1 DEF Accounted
<1>7. HotSurrounded /\ GivenUpBehind /\ Windows
  BY <1>1 DEF HotSurrounded, GivenUpBehind, Windows
<1>8. QED
  BY <1>3, <1>5, <1>6, <1>7 DEF CapInv, Told

(* Everything up to Decided is accounted for, and what follows stands in   *)
(* line.                                                                   *)
THEOREM Capture == HSpec => []CapInv
  BY CapInit, CapNext, PTL DEF HSpec

(* With a whole set of buffers every chunk given up is outside the window  *)
(* of every hot one, for every window size.                                *)
THEOREM WindowAlwaysKept == HSpec => []TriggerWindowKept
<1>1. CapInv => TriggerWindowKept
  BY DEF CapInv, Told, Windows, TriggerWindowKept
<1>2. QED
  BY <1>1, Capture, PTL

-----------------------------------------------------------------------------
(* The line of waiting chunks, read as one sequence.                       *)
Line == tx \o hist \o InHand \o ready

LEMMA LineNumbers ==
  ASSUME OwnInv, HTypeOK, Told
  PROVE  /\ Line \in Seq(Index) /\ Len(Line) = Len(tx) + (rxCount - Decided)
         /\ rxCount - Decided \in Nat
         /\ \A i \in 1 .. Len(tx) : Line[i] = tx[i]
         /\ \A i \in 1 .. rxCount - Decided : stamp[Line[Len(tx) + i]] = Decided + i
<1>1. /\ tx \in Seq(Index) /\ hist \in Seq(Index) /\ ready \in Seq(Index)
      /\ hand \in MaybeIndex
  BY DEF OwnInv, IInv, TypeOK
<1>2. PICK a \in Nat, m \in Nat, k \in Nat, r \in Nat, x \in Nat, b \in Nat :
        /\ a = Len(tx) /\ m = Len(hist) /\ k = One(hand) /\ r = Len(ready)
        /\ x = rxCount /\ b = Decided
  BY NumberTypes, DecidedBounds DEF Told
<1>3. x = b + m + k + r
  <2>1. b = x - r - k - m
    BY <1>2 DEF Decided, LastSorted
  <2>2. QED
    BY <2>1
<1>4. /\ InHand \in Seq(Index) /\ Len(InHand) = k
      /\ \A i \in 1 .. k : stamp[InHand[i]] = b + m + 1
  <2>1. CASE hand = NoChunk
    <3>1. k = 0 /\ InHand = <<>>
      BY <1>2, <2>1 DEF One, InHand
    <3>2. QED
      BY <3>1
  <2>2. CASE hand # NoChunk
    <3>1. k = 1 /\ InHand = <<hand>> /\ hand \in Index
      BY <1>1, <1>2, <2>2 DEF One, InHand, MaybeIndex
    <3>2. stamp[hand] = x - r
      BY <1>2, <2>2 DEF Told, Numbered
    <3>3. x - r = b + m + 1
      BY <1>2, <1>3, <3>1
    <3>4. QED
      BY <3>1, <3>2, <3>3
  <2>3. QED
    BY <2>1, <2>2
<1>5. PICK s \in Seq(Index) : s = tx \o hist
  BY <1>1, ConcatProperties
<1>6. Len(s) = a + m /\ \A i \in 1 .. a + m : s[i] = IF i <= a THEN tx[i] ELSE hist[i - a]
  BY <1>1, <1>2, <1>5, ConcatProperties
<1>7. PICK t \in Seq(Index) : t = s \o InHand
  BY <1>4, ConcatProperties
<1>8. Len(t) = a + m + k
      /\ \A i \in 1 .. a + m + k : t[i] = IF i <= a + m THEN s[i] ELSE InHand[i - (a + m)]
  <2>1. InHand \in Seq(Index) /\ Len(InHand) = k /\ Len(s) = a + m
    BY <1>4, <1>6
  <2>2. /\ Len(t) = Len(s) + Len(InHand)
        /\ \A i \in 1 .. Len(s) + Len(InHand) :
             t[i] = IF i <= Len(s) THEN s[i] ELSE InHand[i - Len(s)]
    BY <1>7, <2>1, ConcatProperties
  <2>3. QED
    BY <2>1, <2>2
<1>9. Line = t \o ready
  BY <1>5, <1>7 DEF Line
<1>10. /\ Line \in Seq(Index) /\ Len(Line) = a + m + k + r
       /\ \A i \in 1 .. a + m + k + r :
            Line[i] = IF i <= a + m + k THEN t[i] ELSE ready[i - (a + m + k)]
  BY SMTT(20), <1>1, <1>2, <1>8, <1>9, ConcatProperties
<1>11. ASSUME NEW i \in 1 .. a PROVE Line[i] = tx[i]
  <2>1. /\ i \in 1 .. a + m + k + r /\ i <= a + m + k /\ i \in 1 .. a + m + k
        /\ i <= a + m /\ i \in 1 .. a + m /\ i <= a
    OBVIOUS
  <2>2. Line[i] = t[i]
    BY <1>10, <2>1
  <2>3. t[i] = s[i]
    BY <1>8, <2>1
  <2>4. s[i] = tx[i]
    BY <1>6, <2>1
  <2>5. QED
    BY <2>2, <2>3, <2>4
<1>12. ASSUME NEW i \in 1 .. m + k + r PROVE stamp[Line[a + i]] = b + i
  <2>1. a + i \in 1 .. a + m + k + r
    OBVIOUS
  <2>2. CASE i <= m
    <3>1. /\ a + i <= a + m + k /\ a + i \in 1 .. a + m + k /\ a + i <= a + m
          /\ a + i \in 1 .. a + m /\ ~(a + i <= a) /\ (a + i) - a = i /\ i \in 1 .. m
      BY <2>2
    <3>2. Line[a + i] = t[a + i]
      BY <1>10, <2>1, <3>1
    <3>3. t[a + i] = s[a + i]
      BY <1>8, <3>1
    <3>4. s[a + i] = hist[i]
      BY <1>6, <3>1
    <3>5. i \in DOMAIN hist
      BY <1>1, <1>2, <3>1, LenProperties
    <3>6. stamp[hist[i]] = b + i
      BY <1>2, <3>5 DEF Told, Numbered
    <3>7. QED
      BY <3>2, <3>3, <3>4, <3>6
  <2>3. CASE i > m /\ i <= m + k
    <3>1. /\ a + i <= a + m + k /\ a + i \in 1 .. a + m + k /\ ~(a + i <= a + m)
          /\ (a + i) - (a + m) \in 1 .. k
      BY <2>3
    <3>2. Line[a + i] = t[a + i]
      BY <1>10, <2>1, <3>1
    <3>3. t[a + i] = InHand[(a + i) - (a + m)]
      BY <1>8, <3>1
    <3>4. stamp[InHand[(a + i) - (a + m)]] = b + m + 1
      BY <1>4, <3>1
    <3>5. k = 1
      BY <1>2, <2>3 DEF One
    <3>6. i = m + 1 /\ b + m + 1 = b + i
      BY <2>3, <3>5
    <3>7. QED
      BY <3>2, <3>3, <3>4, <3>6
  <2>4. CASE i > m + k
    <3>1. ~(a + i <= a + m + k) /\ (a + i) - (a + m + k) \in 1 .. r
      BY <2>4
    <3>2. PICK j \in 1 .. r : j = (a + i) - (a + m + k)
      BY <3>1
    <3>3. Line[a + i] = ready[j]
      BY <1>10, <2>1, <3>1, <3>2
    <3>4. j \in DOMAIN ready
      BY <1>1, <1>2, LenProperties
    <3>5. stamp[ready[j]] = x - r + j
      BY <1>2, <3>4 DEF Told, Numbered
    <3>6. x - r + j = b + i
      BY <1>3, <3>2
    <3>7. QED
      BY <3>3, <3>5, <3>6
  <2>5. QED
    BY <2>2, <2>3, <2>4
<1>13. rxCount - Decided = m + k + r
  <2>1. x - b = m + k + r
    BY <1>3
  <2>2. QED
    BY <1>2, <2>1
<1>14. Len(Line) = Len(tx) + (rxCount - Decided) /\ rxCount - Decided \in Nat
  <2>1. a + (m + k + r) = a + m + k + r /\ m + k + r \in Nat
    OBVIOUS
  <2>2. QED
    BY <1>2, <1>10, <1>13, <2>1
<1>15. \A i \in 1 .. Len(tx) : Line[i] = tx[i]
  BY <1>2, <1>11
<1>16. \A i \in 1 .. rxCount - Decided : stamp[Line[Len(tx) + i]] = Decided + i
  BY <1>2, <1>12, <1>13
<1>17. QED
  BY <1>10, <1>14, <1>15, <1>16

(* sent and the line behind it, as the one sequence the properties read.   *)
ReadsAs(n, a, g, b) ==
  /\ n = Len(sent) /\ a = Len(tx) /\ g = rxCount - Decided /\ b = Decided
  /\ DOMAIN Pending = 1 .. a + g
  /\ DOMAIN (sent \o Pending) = 1 .. n + a + g
  /\ \A i \in 1 .. n : (sent \o Pending)[i] = sent[i]
  /\ \A i \in 1 .. a + g : (sent \o Pending)[n + i] = Pending[i]
  /\ \A i \in 1 .. a : Pending[i] = stamp[tx[i]]
  /\ \A i \in 1 .. g : Pending[a + i] = b + i

LEMMA AllNumbers ==
  ASSUME OwnInv, HTypeOK, Told
  PROVE  \E n, a, g, b \in Nat : ReadsAs(n, a, g, b)
<1>1. PICK n \in Nat, a \in Nat, g \in Nat, b \in Nat :
        n = Len(sent) /\ a = Len(tx) /\ g = rxCount - Decided /\ b = Decided
  BY NumberTypes, DecidedBounds, LineNumbers DEF Told
<1>2. PICK s \in Seq(Index) : s = Line
  BY LineNumbers
<1>3. /\ Len(s) = a + g
      /\ \A i \in 1 .. a : s[i] = tx[i]
      /\ \A i \in 1 .. g : stamp[s[a + i]] = b + i
  BY <1>1, <1>2, LineNumbers
<1>4. stamp \in [Index -> Nat] /\ sent \in Seq(Nat)
  BY DEF HTypeOK
<1>5. DOMAIN s = 1 .. a + g /\ \A i \in 1 .. a + g : s[i] \in Index
  BY <1>3, LenProperties
<1>6. Pending = [i \in 1 .. a + g |-> stamp[s[i]]]
  BY <1>2, <1>5 DEF Pending, Numbers, Line
<1>7. PICK q \in Seq(Nat) : q = Pending
  <2>1. \A i \in 1 .. a + g : stamp[s[i]] \in Nat
    BY <1>4, <1>5
  <2>2. [i \in 1 .. a + g |-> stamp[s[i]]] \in [1 .. a + g -> Nat] /\ a + g \in Nat
    BY <2>1
  <2>3. [i \in 1 .. a + g |-> stamp[s[i]]] \in Seq(Nat)
    BY <2>2
  <2>4. QED
    BY <1>6, <2>3
<1>8. /\ Len(q) = a + g /\ DOMAIN q = 1 .. a + g
      /\ \A i \in 1 .. a : q[i] = stamp[tx[i]]
      /\ \A i \in 1 .. g : q[a + i] = b + i
  <2>1. DOMAIN q = 1 .. a + g /\ Len(q) = a + g
    BY <1>6, <1>7, LenProperties
  <2>2. \A i \in 1 .. a + g : q[i] = stamp[s[i]]
    BY <1>6, <1>7
  <2>3. ASSUME NEW i \in 1 .. a PROVE i \in 1 .. a + g
    OBVIOUS
  <2>4. ASSUME NEW i \in 1 .. g PROVE a + i \in 1 .. a + g
    OBVIOUS
  <2>5. QED
    BY <1>3, <2>1, <2>2, <2>3, <2>4
<1>9. /\ sent \o q \in Seq(Nat) /\ Len(sent \o q) = n + (a + g)
      /\ \A i \in 1 .. n + (a + g) : (sent \o q)[i] = IF i <= n THEN sent[i] ELSE q[i - n]
  BY <1>1, <1>4, <1>8, ConcatProperties
<1>10. DOMAIN (sent \o q) = 1 .. n + a + g
  <2>1. n + (a + g) = n + a + g
    OBVIOUS
  <2>2. QED
    BY <1>9, <2>1, LenProperties
<1>11. ASSUME NEW i \in 1 .. n PROVE (sent \o q)[i] = sent[i]
  <2>1. i \in 1 .. n + (a + g) /\ i <= n
    OBVIOUS
  <2>2. QED
    BY <1>9, <2>1
<1>12. ASSUME NEW i \in 1 .. a + g PROVE (sent \o q)[n + i] = q[i]
  <2>1. n + i \in 1 .. n + (a + g) /\ ~(n + i <= n) /\ (n + i) - n = i
    OBVIOUS
  <2>2. QED
    BY <1>9, <2>1
<1>13. ReadsAs(n, a, g, b)
  BY <1>1, <1>7, <1>8, <1>10, <1>11, <1>12 DEF ReadsAs
<1>14. QED
  BY <1>13

LEMMA OrderFromTold ==
  ASSUME OwnInv, HTypeOK, Told
  PROVE  SentInOrder
<1>0. PICK n \in Nat, a \in Nat, g \in Nat, b \in Nat : ReadsAs(n, a, g, b)
  BY AllNumbers
<1>1. /\ n = Len(sent) /\ a = Len(tx) /\ b = Decided
      /\ DOMAIN (sent \o Pending) = 1 .. n + a + g
      /\ \A i \in 1 .. n : (sent \o Pending)[i] = sent[i]
      /\ \A i \in 1 .. a + g : (sent \o Pending)[n + i] = Pending[i]
      /\ \A i \in 1 .. a : Pending[i] = stamp[tx[i]]
      /\ \A i \in 1 .. g : Pending[a + i] = b + i
  BY <1>0 DEF ReadsAs
<1>2. PICK all : all = sent \o Pending
  OBVIOUS
<1>3. DOMAIN sent = 1 .. n /\ DOMAIN tx = 1 .. a
  BY <1>1, NumberTypes
<1>4. /\ \A i \in 1 .. n : sent[i] \in 1 .. b
      /\ \A i \in 1 .. a : stamp[tx[i]] \in 1 .. b
  BY <1>1, <1>3, DecidedBounds DEF Told
<1>5. /\ \A i, j \in 1 .. n : i < j => sent[i] < sent[j]
      /\ \A i \in 1 .. n, j \in 1 .. a : sent[i] < stamp[tx[j]]
      /\ \A i, j \in 1 .. a : i < j => stamp[tx[i]] < stamp[tx[j]]
  BY <1>3 DEF Told, Ordered
<1>6. /\ \A i \in 1 .. n : all[i] = sent[i]
      /\ \A i \in 1 .. a : all[n + i] = stamp[tx[i]]
      /\ \A i \in 1 .. g : all[n + a + i] = b + i
  <2>1. ASSUME NEW i \in 1 .. a PROVE all[n + i] = stamp[tx[i]]
    <3>1. i \in 1 .. a + g
      OBVIOUS
    <3>2. QED
      BY <1>1, <1>2, <3>1
  <2>2. ASSUME NEW i \in 1 .. g PROVE all[n + a + i] = b + i
    <3>1. a + i \in 1 .. a + g /\ n + (a + i) = n + a + i
      OBVIOUS
    <3>2. (sent \o Pending)[n + (a + i)] = Pending[a + i]
      BY <1>1, <3>1
    <3>3. QED
      BY <1>1, <1>2, <3>1, <3>2
  <2>3. QED
    BY <1>1, <1>2, <2>1, <2>2
<1>7. \A i \in 1 .. n + a + g :
        \/ i \in 1 .. n
        \/ i - n \in 1 .. a /\ i = n + (i - n)
        \/ i - n - a \in 1 .. g /\ i = n + a + (i - n - a)
  OBVIOUS
<1>8. ASSUME NEW i \in 1 .. n + a + g, NEW j \in 1 .. n + a + g, i < j
      PROVE  all[i] < all[j]
  <2>1. CASE j \in 1 .. n
    <3>1. i \in 1 .. n
      BY <1>8, <2>1
    <3>2. QED
      BY <1>5, <1>6, <1>8, <2>1, <3>1
  <2>2. CASE j - n \in 1 .. a
    <3>1. PICK v \in 1 .. a : v = j - n /\ j = n + v
      BY <2>2
    <3>2. all[j] = stamp[tx[v]]
      BY <1>6, <3>1
    <3>3. CASE i \in 1 .. n
      BY <1>5, <1>6, <3>2, <3>3
    <3>4. CASE i - n \in 1 .. a
      <4>1. PICK u \in 1 .. a : u = i - n /\ i = n + u
        BY <3>4
      <4>2. u < v
        BY <1>8, <3>1, <4>1
      <4>3. stamp[tx[u]] < stamp[tx[v]]
        BY <1>5, <4>2
      <4>4. all[i] = stamp[tx[u]]
        BY <1>6, <4>1
      <4>5. QED
        BY <3>2, <4>3, <4>4
    <3>5. QED
      BY <1>8, <2>2, <3>3, <3>4
  <2>3. CASE j - n - a \in 1 .. g
    <3>1. PICK v \in 1 .. g : v = j - n - a /\ j = n + a + v
      BY <2>3
    <3>2. all[j] = b + v
      BY <1>6, <3>1
    <3>3. CASE i \in 1 .. n
      <4>1. all[i] \in 1 .. b
        BY <1>4, <1>6, <3>3
      <4>2. QED
        BY <3>2, <4>1
    <3>4. CASE i - n \in 1 .. a
      <4>1. PICK u \in 1 .. a : u = i - n /\ i = n + u
        BY <3>4
      <4>2. all[i] \in 1 .. b
        BY <1>4, <1>6, <4>1
      <4>3. QED
        BY <3>2, <4>2
    <3>5. CASE i - n - a \in 1 .. g
      <4>1. PICK u \in 1 .. g : u = i - n - a /\ i = n + a + u
        BY <3>5
      <4>2. all[i] = b + u
        BY <1>6, <4>1
      <4>3. u < v
        BY <1>8, <3>1, <4>1
      <4>4. QED
        BY <3>2, <4>2, <4>3
    <3>6. QED
      BY <1>7, <3>3, <3>4, <3>5
  <2>4. QED
    BY <1>7, <2>1, <2>2, <2>3
<1>9. QED
  BY <1>1, <1>2, <1>8 DEF SentInOrder

LEMMA NothingFromTold ==
  ASSUME OwnInv, HTypeOK, Told
  PROVE  NothingVanishes
<1>0. PICK n \in Nat, a \in Nat, g \in Nat, b \in Nat : ReadsAs(n, a, g, b)
  BY AllNumbers
<1>1. /\ a = Len(tx) /\ g = rxCount - Decided /\ b = Decided
      /\ DOMAIN Pending = 1 .. a + g
      /\ \A i \in 1 .. a : Pending[i] = stamp[tx[i]]
      /\ \A i \in 1 .. g : Pending[a + i] = b + i
  BY <1>0 DEF ReadsAs
<1>2. PICK x \in Nat : x = rxCount
  BY NumberTypes
<1>3. x = b + g
  <2>1. g = x - b
    BY <1>1, <1>2
  <2>2. QED
    BY <2>1
<1>4. DOMAIN tx = 1 .. a
  BY <1>1, NumberTypes
<1>5. {Pending[i] : i \in DOMAIN Pending} = QueuedNumbers \cup (b + 1 .. b + g)
  <2>1. ASSUME NEW i \in 1 .. a + g PROVE Pending[i] \in QueuedNumbers \cup (b + 1 .. b + g)
    <3>1. CASE i <= a
      <4>1. i \in 1 .. a
        BY <3>1
      <4>2. QED
        BY <1>1, <1>4, <4>1 DEF QueuedNumbers
    <3>2. CASE ~(i <= a)
      <4>1. PICK j \in 1 .. g : j = i - a /\ i = a + j
        BY <3>2
      <4>2. Pending[i] = b + j
        BY <1>1, <4>1
      <4>3. QED
        BY <4>2
    <3>3. QED
      BY <3>1, <3>2
  <2>2. ASSUME NEW i \in 1 .. a
        PROVE  i \in DOMAIN Pending /\ Pending[i] = stamp[tx[i]]
    BY <1>1
  <2>3. ASSUME NEW y \in b + 1 .. b + g PROVE \E i \in DOMAIN Pending : Pending[i] = y
    <3>1. PICK j \in 1 .. g : y = b + j
      <4>1. y - b \in 1 .. g /\ y = b + (y - b)
        OBVIOUS
      <4>2. QED
        BY <4>1
    <3>2. a + j \in 1 .. a + g /\ Pending[a + j] = y
      BY <1>1, <3>1
    <3>3. QED
      BY <1>1, <3>2
  <2>4. QED
    BY <1>1, <1>4, <2>1, <2>2, <2>3 DEF QueuedNumbers
<1>6. SentNumbers \cup QueuedNumbers \cup discarded = 1 .. b
  BY <1>1 DEF Told, Accounted
<1>7. (1 .. b) \cup (b + 1 .. b + g) = 1 .. x
  BY <1>3
<1>8. SentNumbers \cup {Pending[i] : i \in DOMAIN Pending} \cup discarded = 1 .. rxCount
  BY <1>2, <1>5, <1>6, <1>7
<1>9. QED
  BY <1>8 DEF NothingVanishes, SentNumbers

(* With a whole set of buffers, chunks leave in the order they came and    *)
(* none twice, however the interrupt overlaps the main loop and the        *)
(* channel.                                                                *)
THEOREM OrderAlwaysKept == HSpec => []SentInOrder
<1>1. CapInv => SentInOrder
  BY OrderFromTold DEF CapInv, SentInOrder
<1>2. QED
  BY <1>1, Capture, PTL

(* With a whole set of buffers, every chunk the ISR delivered is sent, in  *)
(* line, or deliberately given up.                                         *)
THEOREM NothingEverVanishes == HSpec => []NothingVanishes
<1>1. CapInv => NothingVanishes
  BY NothingFromTold DEF CapInv, NothingVanishes
<1>2. QED
  BY <1>1, Capture, PTL

-----------------------------------------------------------------------------
(* The threshold tuner, for every word size, limit and percentage that     *)
(* TunerAssumption admits.  The product that may wrap is never bounded:    *)
(* only the cap after it counts.                                           *)

LEMMA Product == \A t \in Thresholds : (t * ENERGY_ADJUST_PCT) % WORD \in Nat
<1> TAKE t \in Thresholds
<1>1. t \in Nat /\ WORD \in Nat /\ WORD > 0 /\ ENERGY_ADJUST_PCT \in Nat
  BY TunerAssumption DEF Thresholds
<1>2. t * ENERGY_ADJUST_PCT \in Nat
  BY <1>1
<1>3. QED
  BY <1>1, <1>2

(* The step is at least 1 and at most half of the threshold.               *)
LEMMA DeltaBounds ==
  ASSUME NEW t \in Thresholds
  PROVE  Delta(t) \in Nat /\ 1 <= Delta(t) /\ Delta(t) <= t \div 2
<1> DEFINE p == (t * ENERGY_ADJUST_PCT) % WORD
<1>1. p \in Nat
  BY Product
<1> HIDE DEF p
<1>2. t \in Nat /\ t >= 2
  BY TunerAssumption DEF Thresholds
<1>3. t \div 2 \in Nat /\ t \div 2 >= 1
  BY <1>2
<1>4. p \div 100 \in Nat
  BY <1>1
<1>5. Delta(t) = Min2(Max2(1, p \div 100), t \div 2)
  BY DEF Delta, p
<1>6. QED
  BY <1>3, <1>4, <1>5 DEF Min2, Max2

(* What a tuning returns, whichever branch it takes and however the result *)
(* is clamped.                                                             *)
LEMMA NewThresholdFacts ==
  ASSUME NEW t \in Thresholds, NEW drop \in BOOLEAN, NEW mbps \in 0 .. MaxMbps
  PROVE  /\ NewThreshold(t, drop, mbps) \in Thresholds
         /\ NewThreshold(t, drop, mbps) - t <= t \div 2
         /\ t - NewThreshold(t, drop, mbps) <= t \div 2
         /\ drop => \/ NewThreshold(t, drop, mbps) > t
                    \/ NewThreshold(t, drop, mbps) = ENERGY_THRESH_MAX
<1> DEFINE half == t \div 2
<1>1. /\ ENERGY_THRESH_MIN \in Nat /\ ENERGY_THRESH_MAX \in Nat
      /\ ENERGY_THRESH_MIN <= ENERGY_THRESH_MAX /\ ENERGY_THRESH_MIN >= 2
  BY TunerAssumption
<1>2. t \in Nat /\ ENERGY_THRESH_MIN <= t /\ t <= ENERGY_THRESH_MAX
  BY <1>1 DEF Thresholds
<1>3. half \in Nat /\ half < t
  BY <1>1, <1>2
<1>4. Delta(t) \in Nat /\ 1 <= Delta(t) /\ Delta(t) <= half
  BY DeltaBounds
<1> HIDE DEF half
<1>5. CASE drop \/ mbps > UpperTarget
  <2>1. NewThreshold(t, drop, mbps) = Clamp(t + Delta(t))
    BY <1>5 DEF NewThreshold
  <2>2. QED
    BY <1>1, <1>2, <1>3, <1>4, <2>1 DEF Clamp, Min2, Max2, Thresholds, half
<1>6. CASE ~drop /\ ~(mbps >= LowerTarget) /\ ~(mbps > UpperTarget)
  <2>1. NewThreshold(t, drop, mbps) = Clamp(t - Delta(t))
    BY <1>2, <1>3, <1>4, <1>6 DEF NewThreshold
  <2>2. QED
    BY <1>1, <1>2, <1>3, <1>4, <1>6, <2>1 DEF Clamp, Min2, Max2, Thresholds, half
<1>7. CASE ~drop /\ mbps >= LowerTarget /\ ~(mbps > UpperTarget)
  <2>1. NewThreshold(t, drop, mbps) = Clamp(t)
    BY <1>7 DEF NewThreshold
  <2>2. QED
    BY <1>1, <1>2, <1>3, <1>7, <2>1 DEF Clamp, Min2, Max2, Thresholds, half
<1>8. QED
  BY <1>5, <1>6, <1>7

-----------------------------------------------------------------------------
LEMMA StatsInitType == StatsInit => StatsTypeOK
  BY TunerAssumption DEF StatsInit, StatsTypeOK, Thresholds

LEMMA StatsNextType == StatsTypeOK /\ [StatsNext]_statsVars => StatsTypeOK'
<1> SUFFICES ASSUME StatsTypeOK, [StatsNext]_statsVars PROVE StatsTypeOK'
  OBVIOUS
<1>1. ASSUME NEW mbps \in 0 .. MaxMbps, Tune(mbps) PROVE StatsTypeOK'
  BY <1>1, NewThresholdFacts DEF StatsTypeOK, Tune
<1>2. ASSUME NEW overflow \in BOOLEAN, NEW drains \in BOOLEAN, Interrupt(overflow, drains)
      PROVE  StatsTypeOK'
  BY <1>2 DEF StatsTypeOK, Interrupt
<1>3. CASE Snapshot
  BY <1>3 DEF StatsTypeOK, Snapshot
<1>4. CASE Account
  BY <1>4 DEF StatsTypeOK, Account
<1>5. CASE TooEarly \/ Reset
  BY <1>5 DEF StatsTypeOK, TooEarly, Reset
<1>6. CASE UNCHANGED statsVars
  BY <1>6 DEF StatsTypeOK, statsVars
<1>7. QED
  BY <1>1, <1>2, <1>3, <1>4, <1>5, <1>6 DEF StatsNext, StatsLoop

(* The threshold never leaves its limits, and the flags their types.       *)
THEOREM ThresholdInLimits == StatsSpec => []StatsTypeOK
  BY StatsInitType, StatsNextType, PTL DEF StatsSpec

(* Only a tuning moves the threshold.                                      *)
LEMMA StepShape ==
  ASSUME [StatsNext]_statsVars
  PROVE  \/ UNCHANGED thresh /\ ~(stage = "stats" /\ stage' = "reset")
         \/ \E mbps \in 0 .. MaxMbps : Tune(mbps)
  BY DEF StatsNext, StatsLoop, Interrupt, Snapshot, Account, TooEarly, Reset, statsVars

(* "never move more than 50% per step", for every constant.                *)
THEOREM StepAtMostHalf == StatsSpec => HalfStep
<1>1. StatsTypeOK /\ [StatsNext]_statsVars =>
        [thresh' - thresh <= thresh \div 2 /\ thresh - thresh' <= thresh \div 2]_statsVars
  <2> SUFFICES ASSUME StatsTypeOK, [StatsNext]_statsVars
               PROVE  thresh' - thresh <= thresh \div 2 /\ thresh - thresh' <= thresh \div 2
    OBVIOUS
  <2>1. CASE UNCHANGED thresh
    BY <2>1, TunerAssumption DEF StatsTypeOK, Thresholds
  <2>2. CASE \E mbps \in 0 .. MaxMbps : Tune(mbps)
    BY <2>2, NewThresholdFacts DEF StatsTypeOK, Tune
  <2>3. QED
    BY <2>1, <2>2, StepShape
<1>2. QED
  BY <1>1, ThresholdInLimits, PTL DEF StatsSpec, HalfStep

(* A tuning that saw a drop raises the threshold or finds it at its        *)
(* maximum, whatever the product wrapped to.                               *)
THEOREM DropsRaise == StatsSpec => DropRaises
<1>1. StatsTypeOK /\ [StatsNext]_statsVars =>
        [(stage = "stats" /\ stage' = "reset" /\ dropped) =>
           (thresh' > thresh \/ thresh' = ENERGY_THRESH_MAX)]_statsVars
  <2> SUFFICES ASSUME StatsTypeOK, [StatsNext]_statsVars, stage = "stats", stage' = "reset", dropped
               PROVE  thresh' > thresh \/ thresh' = ENERGY_THRESH_MAX
    OBVIOUS
  <2>1. PICK mbps \in 0 .. MaxMbps : Tune(mbps)
    BY StepShape
  <2>2. thresh' = NewThreshold(thresh, dropped, mbps)
    BY <2>1 DEF Tune
  <2>3. QED
    BY <2>2, NewThresholdFacts DEF StatsTypeOK
<1>2. QED
  BY <1>1, ThresholdInLimits, PTL DEF StatsSpec, DropRaises


=============================================================================
