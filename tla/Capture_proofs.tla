--------------------------- MODULE Capture_proofs ---------------------------
(***************************************************************************)
(* The way of a capture, from the bridge to the decoder.  The bridge keeps *)
(* its types, implements LossyQueue, and never puts a seam inside a        *)
(* packet, for every queue size, chunk size, FIFO size and number of       *)
(* transactions; LossyQueue keeps order, for every capacity; a decode      *)
(* (BurstDecode, as CaptureDecode uses it) returns the best hypothesis it  *)
(* found and credits a right CRC once, for every set of ranks; and the     *)
(* decoder's report names a device once, keeps the capture's order, and is *)
(* the same from a pool of processes as from the loop, for every number of *)
(* processes, size of read and length of capture.                          *)
(***************************************************************************)
EXTENDS SpiUsbBridge, CaptureDecode,
        SequenceTheorems, FiniteSetTheorems, WellFoundedInduction, TLAPS

(* The task waits for a packet exactly when it has written all of the last *)
(* one; the refinement needs it to tell a packet that is still held.       *)
Waiting == pc = "receive" <=> sent = pkt.len

IInv == TypeOK /\ Waiting

-----------------------------------------------------------------------------
(* The blocks of a packet, and moving some of a sequence to another.       *)

LEMMA PacketFacts == \A p \in Packet : p.id \in Nat /\ p.len \in Nat /\ p.len > 0
  BY BridgeAssumption DEF Packet

LEMMA BlocksAfterType ==
  ASSUME NEW p \in Packet, NEW k \in 0 .. p.len
  PROVE  BlocksAfter(p, k) \in Seq(Block) /\ Len(BlocksAfter(p, k)) = p.len - k
<1>1. p.id \in 1 .. MaxRx /\ p.len \in 1 .. BLOCKS /\ p.len - k \in Nat
  BY BridgeAssumption DEF Packet
<1>2. \A i \in 1 .. p.len - k : <<p.id, k + i, p.len>> \in Block
  BY <1>1, BridgeAssumption DEF Block
<1>3. BlocksAfter(p, k) \in [1 .. p.len - k -> Block]
  BY <1>2 DEF BlocksAfter
<1>4. QED
  BY <1>1, <1>3

LEMMA PrefixType ==
  ASSUME NEW S, NEW s \in Seq(S), NEW n \in 0 .. Len(s)
  PROVE  /\ SubSeq(s, 1, n) \in Seq(S) /\ Len(SubSeq(s, 1, n)) = n
         /\ SubSeq(s, n + 1, Len(s)) \in Seq(S)
         /\ Len(SubSeq(s, n + 1, Len(s))) = Len(s) - n
<1>1. \A i \in 1 .. Len(s) : s[i] \in S
  OBVIOUS
<1>2. /\ \A i \in 1 .. n : s[i] \in S
      /\ \A i \in n + 1 .. Len(s) : s[i] \in S
  BY <1>1
<1>3. QED
  BY <1>2, SubSeqProperties

LEMMA TypeFacts ==
  ASSUME TypeOK
  PROVE  /\ rx \in Nat /\ queue \in Seq(Packet) /\ Len(queue) \in Nat
         /\ pkt.len \in Nat /\ pkt.id \in Nat /\ sent \in 0 .. pkt.len
         /\ \A i \in 1 .. Len(queue) : queue[i].id \in Nat
         /\ QUEUE_SIZE \in Nat
<1>1. \A p \in Packet : p.id \in Nat /\ p.len \in Nat
  BY BridgeAssumption DEF Packet
<1>2. QED
  BY <1>1, BridgeAssumption DEF TypeOK, NoPacket

-----------------------------------------------------------------------------
LEMMA InitIInv == Init => IInv
<1> SUFFICES ASSUME Init PROVE IInv
  OBVIOUS
<1>1. <<>> \in Seq(Packet) /\ <<>> \in Seq(Block) /\ Len(<<>>) = 0
  BY EmptySeq
<1>2. pkt = NoPacket /\ pkt.len = 0
  BY DEF Init, NoPacket
<1>3. sent = 0 /\ sent \in 0 .. pkt.len /\ pc = "receive"
  BY <1>2 DEF Init
<1>4. rx \in 0 .. MaxRx /\ 0 <= QUEUE_SIZE /\ 0 <= CDC_BLOCKS
  BY BridgeAssumption DEF Init
<1>5. queue = <<>> /\ fifo = <<>> /\ file = <<>> /\ capturing = FALSE
  BY DEF Init
<1>6. TypeOK
  BY <1>1, <1>2, <1>3, <1>4, <1>5 DEF TypeOK
<1>7. QED
  BY <1>2, <1>3, <1>6 DEF IInv, Waiting

LEMMA ForwardStep ==
  ASSUME IInv, NEW len \in 1 .. BLOCKS, Forward(len)
  PROVE  IInv'
<1> DEFINE p == [id |-> rx + 1, len |-> len]
<1>1. p \in Packet /\ rx' \in 0 .. MaxRx
  BY BridgeAssumption DEF IInv, TypeOK, Forward, Packet
<1>2. queue' = IF Len(queue) < QUEUE_SIZE THEN Append(queue, p) ELSE queue
  BY DEF Forward
<1>3. queue' \in Seq(Packet) /\ Len(queue') <= QUEUE_SIZE
  BY <1>1, <1>2, AppendProperties, BridgeAssumption DEF IInv, TypeOK
<1>4. QED
  BY <1>1, <1>3 DEF IInv, TypeOK, Waiting, Forward, taskVars, hostVars

LEMMA TakePacketStep == ASSUME IInv, TakePacket PROVE IInv'
<1>1. Head(queue) \in Packet /\ Tail(queue) \in Seq(Packet)
      /\ Len(Tail(queue)) <= QUEUE_SIZE
  BY HeadTailProperties, BridgeAssumption DEF IInv, TypeOK, TakePacket
<1>2. Head(queue).len \in 1 .. BLOCKS
  BY <1>1 DEF Packet
<1>3. QED
  BY <1>1, <1>2, BridgeAssumption DEF IInv, TypeOK, Waiting, TakePacket, hostVars

LEMMA WriteFacts ==
  ASSUME IInv, Write
  PROVE  \E n \in Nat :
           /\ n > 0 /\ n <= pkt.len - sent /\ n <= CDC_BLOCKS - Len(fifo)
           /\ sent' = sent + n
           /\ fifo' = fifo \o SubSeq(BlocksAfter(pkt, sent), 1, n)
           /\ pkt \in Packet
<1> DEFINE n == Min2(pkt.len - sent, CDC_BLOCKS - Len(fifo))
<1>1. pkt.len \in Nat /\ sent \in Nat /\ sent <= pkt.len /\ CDC_BLOCKS \in Nat /\ Len(fifo) \in Nat
  BY TypeFacts, BridgeAssumption DEF IInv, TypeOK
<1>2. n \in Nat /\ n > 0 /\ n <= pkt.len - sent /\ n <= CDC_BLOCKS - Len(fifo)
  BY <1>1 DEF Write, Min2
<1>3. pkt \in Packet
  <2>1. pkt.len # 0
    BY <1>1, <1>2
  <2>2. QED
    BY <2>1 DEF IInv, TypeOK, NoPacket
<1>4. sent' = sent + n /\ fifo' = fifo \o SubSeq(BlocksAfter(pkt, sent), 1, n)
  BY DEF Write
<1> HIDE DEF n
<1>5. QED
  BY <1>2, <1>3, <1>4

LEMMA WriteStep == ASSUME IInv, Write PROVE IInv'
<1>1. PICK n \in Nat :
           /\ n > 0 /\ n <= pkt.len - sent /\ n <= CDC_BLOCKS - Len(fifo)
           /\ sent' = sent + n
           /\ fifo' = fifo \o SubSeq(BlocksAfter(pkt, sent), 1, n)
           /\ pkt \in Packet
  BY WriteFacts
<1>2. pkt.len \in Nat /\ sent \in 0 .. pkt.len /\ CDC_BLOCKS \in Nat /\ Len(fifo) \in Nat
  BY TypeFacts, BridgeAssumption DEF IInv, TypeOK
<1>3. sent' \in 0 .. pkt.len
  BY <1>1, <1>2
<1>4. /\ SubSeq(BlocksAfter(pkt, sent), 1, n) \in Seq(Block)
      /\ Len(SubSeq(BlocksAfter(pkt, sent), 1, n)) = n
  BY <1>1, <1>2, BlocksAfterType, PrefixType
<1>5. fifo' \in Seq(Block) /\ Len(fifo') = Len(fifo) + n
  BY <1>1, <1>4, ConcatProperties DEF IInv, TypeOK
<1>6. pc' = (IF sent' = pkt.len THEN "receive" ELSE "write") /\ UNCHANGED <<rx, queue, pkt, hostVars>>
  BY DEF Write
<1>7. TypeOK'
  BY <1>1, <1>2, <1>3, <1>5, <1>6 DEF IInv, TypeOK, hostVars
<1>8. Waiting'
  BY <1>6 DEF Waiting
<1>9. QED
  BY <1>7, <1>8 DEF IInv

LEMMA ReadPortStep == ASSUME IInv, ReadPort PROVE IInv'
<1>1. PICK n \in 1 .. Len(fifo) :
        /\ file' = file \o SubSeq(fifo, 1, n)
        /\ fifo' = SubSeq(fifo, n + 1, Len(fifo))
  BY DEF ReadPort
<1>2. fifo \in Seq(Block) /\ Len(fifo) \in Nat /\ Len(fifo) <= CDC_BLOCKS /\ file \in Seq(Block)
      /\ n \in 0 .. Len(fifo)
  BY <1>1 DEF IInv, TypeOK
<1>3. SubSeq(fifo, 1, n) \in Seq(Block) /\ fifo' \in Seq(Block) /\ Len(fifo') <= CDC_BLOCKS
  BY <1>1, <1>2, PrefixType, BridgeAssumption
<1>4. file' \in Seq(Block)
  BY <1>1, <1>2, <1>3, ConcatProperties
<1>5. QED
  BY <1>3, <1>4 DEF IInv, TypeOK, Waiting, ReadPort, taskVars

LEMMA OtherSteps ==
  ASSUME IInv,
         \/ Reject \/ SeeConnected \/ StartCapture \/ StopCapture \/ Unplug
         \/ UNCHANGED vars
  PROVE  IInv'
<1>1. <<>> \in Seq(Block) /\ Len(<<>>) = 0 /\ 0 <= CDC_BLOCKS
  BY EmptySeq, BridgeAssumption
<1>2. CASE Reject
  BY <1>2, BridgeAssumption DEF IInv, TypeOK, Waiting, Reject, taskVars, hostVars
<1>3. CASE SeeConnected
  BY <1>3 DEF IInv, TypeOK, Waiting, SeeConnected, hostVars
<1>4. CASE StartCapture
  BY <1>4, <1>1 DEF IInv, TypeOK, Waiting, StartCapture, taskVars
<1>5. CASE StopCapture
  BY <1>5, <1>1 DEF IInv, TypeOK, Waiting, StopCapture, taskVars
<1>6. CASE Unplug
  BY <1>6, <1>1 DEF IInv, TypeOK, Waiting, Unplug, taskVars
<1>7. CASE UNCHANGED vars
  BY <1>7 DEF IInv, TypeOK, Waiting, vars, taskVars, hostVars
<1>8. QED
  BY <1>2, <1>3, <1>4, <1>5, <1>6, <1>7

LEMMA NextIInv == IInv /\ [Next]_vars => IInv'
  BY ForwardStep, TakePacketStep, WriteStep, ReadPortStep, OtherSteps
  DEF Next, Receive, UsbTask

(* Every buffer of the bridge keeps its type and its bound.                *)
THEOREM TypeCorrect == Spec => []TypeOK
<1>1. IInv => TypeOK
  BY DEF IInv
<1>2. QED
  BY <1>1, InitIInv, NextIInv, PTL DEF Spec

-----------------------------------------------------------------------------
(* The refinement.                                                         *)

LEMMA IdsType ==
  ASSUME NEW q \in Seq(Packet)
  PROVE  Ids(q) \in Seq(Nat) /\ Len(Ids(q)) = Len(q)
<1>1. Len(q) \in Nat /\ \A i \in 1 .. Len(q) : q[i].id \in Nat
  BY PacketFacts
<1>2. Ids(q) \in [1 .. Len(q) -> Nat]
  BY <1>1 DEF Ids
<1>3. QED
  BY <1>1, <1>2

LEMMA IdsAppend ==
  ASSUME NEW q \in Seq(Packet), NEW p \in Packet
  PROVE  Ids(Append(q, p)) = Append(Ids(q), p.id)
<1>1. /\ Append(q, p) \in Seq(Packet) /\ Len(Append(q, p)) = Len(q) + 1
      /\ \A i \in 1 .. Len(q) : Append(q, p)[i] = q[i]
      /\ Append(q, p)[Len(q) + 1] = p
  BY AppendProperties
<1>2. /\ Ids(q) \in Seq(Nat) /\ Len(Ids(q)) = Len(q)
      /\ Ids(Append(q, p)) \in Seq(Nat) /\ Len(Ids(Append(q, p))) = Len(q) + 1
  BY <1>1, IdsType
<1>3. p.id \in Nat
  BY BridgeAssumption DEF Packet
<1>4. /\ Append(Ids(q), p.id) \in Seq(Nat) /\ Len(Append(Ids(q), p.id)) = Len(q) + 1
      /\ \A i \in 1 .. Len(q) : Append(Ids(q), p.id)[i] = Ids(q)[i]
      /\ Append(Ids(q), p.id)[Len(q) + 1] = p.id
  BY <1>2, <1>3, AppendProperties
<1>5. \A i \in 1 .. Len(q) + 1 : Ids(Append(q, p))[i] = Append(Ids(q), p.id)[i]
  BY <1>1, <1>4 DEF Ids
<1>6. QED
  BY <1>2, <1>4, <1>5, SeqEqual

LEMMA IdsHead ==
  ASSUME NEW q \in Seq(Packet), q # <<>>
  PROVE  Ids(q) = <<Head(q).id>> \o Ids(Tail(q))
<1>1. /\ Tail(q) \in Seq(Packet) /\ Len(Tail(q)) = Len(q) - 1
      /\ \A i \in 1 .. Len(q) - 1 : Tail(q)[i] = q[i + 1]
      /\ Head(q) \in Packet /\ Head(q) = q[1] /\ Len(q) \in Nat \ {0}
  BY HeadTailProperties, EmptySeq
<1>2. /\ Ids(q) \in Seq(Nat) /\ Len(Ids(q)) = Len(q)
      /\ Ids(Tail(q)) \in Seq(Nat) /\ Len(Ids(Tail(q))) = Len(q) - 1
  BY <1>1, IdsType
<1>3. Head(q).id \in Nat
  BY <1>1, BridgeAssumption DEF Packet
<1> DEFINE h == <<Head(q).id>>
<1>4. h \in Seq(Nat) /\ Len(h) = 1 /\ h[1] = Head(q).id
  BY <1>3
<1> HIDE DEF h
<1> DEFINE t == Ids(Tail(q))
<1>5. t \in Seq(Nat) /\ Len(t) = Len(q) - 1 /\ Len(h) + Len(t) = Len(q)
  <2>1. t \in Seq(Nat) /\ Len(t) = Len(q) - 1
    BY <1>2
  <2> HIDE DEF t
  <2>2. 1 + (Len(q) - 1) = Len(q)
    BY <1>1
  <2>3. QED
    BY <1>4, <2>1, <2>2
<1>6. /\ h \o t \in Seq(Nat) /\ Len(h \o t) = Len(h) + Len(t)
      /\ \A i \in 1 .. Len(h) + Len(t) :
           (h \o t)[i] = IF i <= Len(h) THEN h[i] ELSE t[i - Len(h)]
  <2>1. h \in Seq(Nat) /\ t \in Seq(Nat)
    BY <1>4, <1>5
  <2> HIDE DEF t
  <2>2. QED
    BY <2>1, ConcatProperties
<1>7. /\ h \o Ids(Tail(q)) \in Seq(Nat) /\ Len(h \o Ids(Tail(q))) = Len(q)
      /\ \A i \in 1 .. Len(q) :
           (h \o Ids(Tail(q)))[i] = IF i <= 1 THEN h[i] ELSE Ids(Tail(q))[i - 1]
  BY <1>4, <1>5, <1>6
<1>8. ASSUME NEW i \in 1 .. Len(q) PROVE Ids(q)[i] = (h \o Ids(Tail(q)))[i]
  <2>1. CASE i = 1
    BY <1>1, <1>4, <1>7, <2>1 DEF Ids
  <2>2. CASE i # 1
    <3>1. i - 1 \in 1 .. Len(q) - 1 /\ ~(i <= 1) /\ (i - 1) + 1 = i
      BY <1>1, <2>2
    <3>2. Ids(Tail(q))[i - 1] = Tail(q)[i - 1].id /\ Tail(q)[i - 1] = q[i]
      BY <1>1, <3>1 DEF Ids
    <3>3. QED
      BY <1>7, <3>1, <3>2 DEF Ids
  <2>3. QED
    BY <2>1, <2>2
<1>9. QED
  BY <1>2, <1>7, <1>8, SeqEqual DEF h

LEMMA HeldType ==
  ASSUME IInv
  PROVE  /\ HeldSeq \in Seq(Nat)
         /\ Len(HeldSeq) = (IF sent < pkt.len THEN 1 ELSE 0) + Len(queue)
<1>1. Ids(queue) \in Seq(Nat) /\ Len(Ids(queue)) = Len(queue)
  BY IdsType, TypeFacts DEF IInv
<1>2. <<pkt.id>> \in Seq(Nat) /\ Len(<<pkt.id>>) = 1
  BY TypeFacts DEF IInv
<1>3. QED
  BY <1>1, <1>2, ConcatProperties, EmptySeq DEF HeldSeq

LEMMA ForwardRefines ==
  ASSUME IInv, NEW len \in 1 .. BLOCKS, Forward(len)
  PROVE  LQ!Next
<1> DEFINE p == [id |-> rx + 1, len |-> len]
           c == IF sent < pkt.len THEN <<pkt.id>> ELSE <<>>
<1>1. rx' = rx + 1 /\ UNCHANGED <<pkt, sent, delivered>>
  BY DEF Forward, taskVars
<1>2. CASE Len(queue) < QUEUE_SIZE
  <2>1. queue' = Append(queue, p) /\ p \in Packet /\ p.id = rx'
    BY <1>1, <1>2, BridgeAssumption DEF IInv, TypeOK, Forward, Packet
  <2>2. Ids(queue') = Append(Ids(queue), rx') /\ Ids(queue) \in Seq(Nat) /\ rx' \in Nat
    BY <1>1, <2>1, IdsAppend, IdsType, TypeFacts DEF IInv
  <2>3. c \in Seq(Nat)
    BY TypeFacts DEF IInv
  <2> HIDE DEF p, c
  <2>4. c \o Append(Ids(queue), rx') = Append(c \o Ids(queue), rx')
    BY <2>2, <2>3, ConcatAssociative, AppendIsConcat, ConcatProperties
  <2>5. HeldSeq' = Append(HeldSeq, rx')
    BY <1>1, <2>2, <2>4 DEF HeldSeq, c
  <2>6. Len(HeldSeq) < QUEUE_SIZE + 1
    BY <1>2, HeldType, TypeFacts DEF IInv
  <2>7. QED
    BY <1>1, <2>5, <2>6 DEF LQ!Next, LQ!Accept
<1>3. CASE ~(Len(queue) < QUEUE_SIZE)
  <2>1. HeldSeq' = HeldSeq
    BY <1>1, <1>3 DEF Forward, HeldSeq
  <2>2. QED
    BY <1>1, <2>1 DEF LQ!Next, LQ!Refuse
<1>4. QED
  BY <1>2, <1>3

LEMMA TakePacketRefines == ASSUME IInv, TakePacket PROVE UNCHANGED LQ!vars
<1>1. sent = pkt.len /\ pkt.len \in Nat
  BY TypeFacts DEF IInv, Waiting, TakePacket
<1>2. queue \in Seq(Packet) /\ queue # <<>> /\ Ids(queue) \in Seq(Nat)
  BY IdsType DEF IInv, TypeOK, TakePacket
<1>3. HeldSeq = Ids(queue)
  BY <1>1, <1>2, ConcatEmptySeq DEF HeldSeq
<1>4. pkt' = Head(queue) /\ queue' = Tail(queue) /\ sent' = 0 /\ UNCHANGED <<rx, delivered>>
  BY DEF TakePacket
<1>5. 0 < Head(queue).len
  BY <1>2, PacketFacts, HeadTailProperties
<1>6. HeldSeq' = <<Head(queue).id>> \o Ids(Tail(queue))
  BY <1>4, <1>5 DEF HeldSeq
<1>7. QED
  BY <1>2, <1>3, <1>4, <1>6, IdsHead DEF LQ!vars

LEMMA WriteRefines == ASSUME IInv, Write PROVE LQ!Next \/ UNCHANGED LQ!vars
<1>1. PICK n \in Nat : n > 0 /\ n <= pkt.len - sent /\ sent' = sent + n
  BY WriteFacts
<1>2. pkt.len \in Nat /\ sent \in Nat /\ sent < pkt.len /\ pkt.id \in Nat
  BY <1>1, TypeFacts DEF IInv
<1>3. UNCHANGED <<rx, queue, pkt>>
  BY DEF Write
<1>4. Ids(queue) \in Seq(Nat) /\ HeldSeq = <<pkt.id>> \o Ids(queue)
  BY <1>2, IdsType DEF IInv, TypeOK, HeldSeq
<1>5. CASE sent' = pkt.len
  <2>1. HeldSeq' = Ids(queue) /\ delivered' = pkt.id
    BY SMTT(20), <1>2, <1>3, <1>4, <1>5, ConcatEmptySeq DEF HeldSeq, Write
  <2>2. <<pkt.id>> \in Seq(Nat)
    BY <1>2
  <2>3. HeldSeq # <<>> /\ Head(HeldSeq) = pkt.id /\ Tail(HeldSeq) = Ids(queue)
    BY <1>2, <1>4
  <2>4. QED
    BY <1>3, <2>1, <2>3 DEF LQ!Next, LQ!HandOn
<1>6. CASE sent' # pkt.len
  <2>1. sent' < pkt.len
    BY <1>1, <1>2, <1>6
  <2>2. HeldSeq' = HeldSeq /\ delivered' = delivered
    BY <1>2, <1>3, <1>6, <2>1 DEF HeldSeq, Write
  <2>3. QED
    BY <1>3, <2>2 DEF LQ!vars
<1>7. QED
  BY <1>5, <1>6

LEMMA StepRefines == IInv /\ [Next]_vars => [LQ!Next]_(LQ!vars)
<1> SUFFICES ASSUME IInv, [Next]_vars PROVE LQ!Next \/ UNCHANGED LQ!vars
  OBVIOUS
<1>1. CASE Reject
  BY <1>1 DEF Reject, taskVars, HeldSeq, LQ!Next, LQ!Refuse
<1>2. CASE SeeConnected \/ StartCapture \/ ReadPort \/ StopCapture \/ Unplug \/ UNCHANGED vars
  BY <1>2 DEF SeeConnected, StartCapture, ReadPort, StopCapture, Unplug, vars,
              taskVars, HeldSeq, LQ!vars
<1>3. QED
  BY <1>1, <1>2, ForwardRefines, TakePacketRefines, WriteRefines DEF Next, Receive, UsbTask

LEMMA InitRefines == Init => LQ!Init
<1> SUFFICES ASSUME Init PROVE LQ!Init
  OBVIOUS
<1>1. HeldSeq = <<>> \o Ids(<<>>) /\ rx = 0 /\ delivered = 0
  BY DEF Init, HeldSeq, NoPacket
<1>2. Ids(<<>>) = <<>>
  BY DEF Ids
<1>3. <<>> \o <<>> = <<>>
  OBVIOUS
<1>4. QED
  BY <1>1, <1>2, <1>3 DEF LQ!Init

(* The queue and the USB task together are a lossy queue one packet larger *)
(* than tx_queue: packets reach the USB stack in the order they arrived,   *)
(* none twice, and only an arrival is ever refused.                        *)
THEOREM Refinement == Spec => QueuesInOrder
  BY InitRefines, InitIInv, NextIInv, StepRefines, PTL DEF Spec, QueuesInOrder, LQ!Spec

-----------------------------------------------------------------------------
(* What the abstract queue promises, and so the bridge keeps.              *)

QType == rx \in Nat /\ HeldSeq \in Seq(Nat) /\ delivered \in Nat

(* Order alone is not inductive: an arrival must be newer than everything  *)
(* held and than everything handed on.                                     *)
QInv == QType /\ delivered <= rx /\ LQ!InOrder

LEMMA AcceptStep == ASSUME QInv, LQ!Accept PROVE QInv'
<1> DEFINE n == Len(HeldSeq)  e == rx + 1
<1>1. n \in Nat /\ e \in Nat /\ rx \in Nat /\ delivered \in Nat /\ delivered <= rx
  BY DEF QInv, QType
<1>2. HeldSeq' = Append(HeldSeq, e) /\ rx' = e /\ delivered' = delivered
  BY DEF LQ!Accept
<1>3. /\ HeldSeq' \in Seq(Nat) /\ Len(HeldSeq') = n + 1 /\ HeldSeq'[n + 1] = e
      /\ \A i \in 1 .. n : HeldSeq'[i] = HeldSeq[i] /\ HeldSeq[i] \in Nat
  BY <1>1, <1>2 DEF QInv, QType
<1>4. \A i \in 1 .. n : delivered < HeldSeq[i] /\ HeldSeq[i] <= rx
  BY DEF QInv, LQ!InOrder
<1>5. ASSUME NEW i \in 1 .. n + 1 PROVE delivered < HeldSeq'[i] /\ HeldSeq'[i] <= e
  <2>1. CASE i = n + 1
    BY <1>1, <1>3, <2>1
  <2>2. CASE i \in 1 .. n
    <3>1. HeldSeq'[i] = HeldSeq[i] /\ HeldSeq[i] \in Nat
      BY <1>3, <2>2
    <3>2. delivered < HeldSeq[i] /\ HeldSeq[i] <= rx
      BY <1>4, <2>2
    <3>3. QED
      BY <1>1, <3>1, <3>2
  <2>3. QED
    BY <1>1, <2>1, <2>2
<1>6. \A i, j \in 1 .. n + 1 : i < j => HeldSeq'[i] < HeldSeq'[j]
  <2> SUFFICES ASSUME NEW i \in 1 .. n + 1, NEW j \in 1 .. n + 1, i < j
               PROVE  HeldSeq'[i] < HeldSeq'[j]
    OBVIOUS
  <2>1. i \in 1 .. n /\ HeldSeq'[i] = HeldSeq[i] /\ HeldSeq[i] <= rx /\ HeldSeq[i] \in Nat
    BY <1>1, <1>3, <1>4
  <2>2. CASE j = n + 1
    BY <1>1, <1>3, <2>1, <2>2
  <2>3. CASE j \in 1 .. n
    BY <1>3, <2>1, <2>3 DEF QInv, LQ!InOrder
  <2>4. QED
    BY <1>1, <2>2, <2>3
<1>7. QED
  BY <1>1, <1>2, <1>3, <1>5, <1>6 DEF QInv, QType, LQ!InOrder

LEMMA RefuseStep == ASSUME QInv, LQ!Refuse PROVE QInv'
  BY DEF QInv, QType, LQ!InOrder, LQ!Refuse

LEMMA HandOnStep == ASSUME QInv, LQ!HandOn PROVE QInv'
<1> DEFINE n == Len(HeldSeq)
<1>1. n \in Nat /\ n > 0 /\ HeldSeq \in Seq(Nat)
  BY DEF QInv, QType, LQ!HandOn
<1>2. /\ HeldSeq' = Tail(HeldSeq) /\ delivered' = Head(HeldSeq) /\ rx' = rx
  BY DEF LQ!HandOn
<1>3. /\ HeldSeq' \in Seq(Nat) /\ Len(HeldSeq') = n - 1 /\ delivered' = HeldSeq[1] /\ delivered' \in Nat
      /\ \A i \in 1 .. n - 1 : HeldSeq'[i] = HeldSeq[i + 1]
  BY <1>1, <1>2
<1>4. /\ \A i \in 1 .. n : delivered < HeldSeq[i] /\ HeldSeq[i] <= rx
      /\ \A i, j \in 1 .. n : i < j => HeldSeq[i] < HeldSeq[j]
  BY DEF QInv, LQ!InOrder
<1> HIDE DEF n
<1>5. \A i \in 1 .. n - 1 : i + 1 \in 1 .. n
  BY <1>1
<1>6. \A i \in 1 .. n - 1 : delivered' < HeldSeq'[i] /\ HeldSeq'[i] <= rx
  <2> TAKE i \in 1 .. n - 1
  <2>1. 1 \in 1 .. n /\ i + 1 \in 1 .. n /\ 1 < i + 1
    BY <1>1, <1>5
  <2>2. HeldSeq[1] < HeldSeq[i + 1] /\ HeldSeq[i + 1] <= rx
    BY <1>4, <2>1
  <2>3. QED
    BY <1>3, <2>2
<1>7. \A i, j \in 1 .. n - 1 : i < j => HeldSeq'[i] < HeldSeq'[j]
  <2> SUFFICES ASSUME NEW i \in 1 .. n - 1, NEW j \in 1 .. n - 1, i < j
               PROVE  HeldSeq'[i] < HeldSeq'[j]
    OBVIOUS
  <2>1. i + 1 \in 1 .. n /\ j + 1 \in 1 .. n /\ i + 1 < j + 1
    BY <1>1, <1>5
  <2>2. HeldSeq[i + 1] < HeldSeq[j + 1]
    BY <1>4, <2>1
  <2>3. QED
    BY <1>3, <2>2
<1>8. delivered' <= rx
  BY <1>1, <1>3, <1>4
<1>9. QED
  BY <1>1, <1>2, <1>3, <1>6, <1>7, <1>8 DEF QInv, QType, LQ!InOrder

LEMMA QueueStep == QInv /\ [LQ!Next]_(LQ!vars) => QInv'
<1> SUFFICES ASSUME QInv, [LQ!Next]_(LQ!vars) PROVE QInv'
  OBVIOUS
<1>1. CASE UNCHANGED LQ!vars
  BY <1>1 DEF QInv, QType, LQ!InOrder, LQ!vars
<1>2. QED
  BY <1>1, AcceptStep, RefuseStep, HandOnStep DEF LQ!Next

LEMMA QueueInit == LQ!Init => QInv
  BY DEF LQ!Init, QInv, QType, LQ!InOrder

(* Every behaviour of the abstract queue hands chunks on in order and at   *)
(* most once.                                                              *)
THEOREM OrderKept == LQ!Spec => []LQ!InOrder
<1>1. QInv => LQ!InOrder
  BY DEF QInv
<1>2. QED
  BY <1>1, QueueInit, QueueStep, PTL DEF LQ!Spec

-----------------------------------------------------------------------------
(* No seam inside a packet.                                                *)

Unbroken(s) == \A i \in 1 .. Len(s) - 1 : Follows(s[i], s[i + 1])

(* A later packet can follow what has passed the task because that ends    *)
(* with the last block of the packet the task had, except while no capture *)
(* has seen any of it.                                                     *)
EndsWithPacket ==
  Stream # <<>> => Stream[Len(Stream)] = <<pkt.id, pkt.len, pkt.len>>
DoneIsDelivered == sent = pkt.len => delivered = pkt.id

SInv == IInv /\ QInv /\ Unbroken(Stream) /\ EndsWithPacket /\ DoneIsDelivered

LEMMA SuffixUnbroken ==
  ASSUME NEW S, NEW s \in Seq(S), NEW t \in Seq(S), Unbroken(s \o t)
  PROVE  /\ Unbroken(t)
         /\ t # <<>> => t[Len(t)] = (s \o t)[Len(s \o t)] /\ s \o t # <<>>
<1>1. /\ s \o t \in Seq(S) /\ Len(s \o t) = Len(s) + Len(t)
      /\ \A i \in 1 .. Len(s) + Len(t) :
           (s \o t)[i] = IF i <= Len(s) THEN s[i] ELSE t[i - Len(s)]
  BY ConcatProperties
<1> DEFINE m == Len(s)  n == Len(t)  u == s \o t
<1>2. m \in Nat /\ n \in Nat
  OBVIOUS
<1>3. u \in Seq(S) /\ Len(u) = m + n
  BY <1>1
<1>4. \A i \in 1 .. m + n : u[i] = IF i <= m THEN s[i] ELSE t[i - m]
  BY <1>1
<1>5. \A i \in 1 .. Len(u) - 1 : Follows(u[i], u[i + 1])
  BY DEF Unbroken
<1> HIDE DEF m, n, u
<1>6. \A j \in 1 .. n : m + j \in 1 .. m + n /\ u[m + j] = t[j]
  <2> TAKE j \in 1 .. n
  <2>1. m + j \in 1 .. m + n /\ ~(m + j <= m) /\ (m + j) - m = j
    BY <1>2
  <2>2. QED
    BY <1>4, <2>1
<1>7. ASSUME NEW j \in 1 .. n - 1 PROVE Follows(t[j], t[j + 1])
  <2>1. j \in 1 .. n /\ j + 1 \in 1 .. n /\ m + j \in 1 .. (m + n) - 1 /\ m + (j + 1) = (m + j) + 1
    BY <1>2
  <2>2. u[m + j] = t[j] /\ u[(m + j) + 1] = t[j + 1]
    BY <1>6, <2>1
  <2>3. QED
    BY <1>3, <1>5, <2>1, <2>2
<1>8. ASSUME t # <<>> PROVE t[n] = u[Len(u)] /\ u # <<>>
  <2>1. n > 0 /\ n \in 1 .. n
    BY <1>2, <1>8, EmptySeq DEF n
  <2>2. u[m + n] = t[n] /\ m + n > 0
    BY <1>2, <1>6, <2>1
  <2>3. QED
    BY <1>3, <2>2, EmptySeq
<1>9. QED
  BY <1>7, <1>8 DEF Unbroken, m, n, u

LEMMA JoinUnbroken ==
  ASSUME NEW S, NEW s \in Seq(S), NEW t \in Seq(S), Unbroken(s), Unbroken(t),
         s # <<>> /\ t # <<>> => Follows(s[Len(s)], t[1])
  PROVE  Unbroken(s \o t)
<1>1. /\ s \o t \in Seq(S) /\ Len(s \o t) = Len(s) + Len(t)
      /\ \A i \in 1 .. Len(s) + Len(t) :
           (s \o t)[i] = IF i <= Len(s) THEN s[i] ELSE t[i - Len(s)]
  BY ConcatProperties
<1> DEFINE m == Len(s)  n == Len(t)  u == s \o t
<1>2. m \in Nat /\ n \in Nat /\ (m > 0 => s # <<>>) /\ (n > 0 => t # <<>>)
  BY EmptySeq
<1>3. u \in Seq(S) /\ Len(u) = m + n
  BY <1>1
<1>4. \A i \in 1 .. m + n : u[i] = IF i <= m THEN s[i] ELSE t[i - m]
  BY <1>1
<1>5. /\ \A i \in 1 .. m - 1 : Follows(s[i], s[i + 1])
      /\ \A i \in 1 .. n - 1 : Follows(t[i], t[i + 1])
      /\ m > 0 /\ n > 0 => Follows(s[m], t[1])
  BY <1>2 DEF Unbroken
<1> HIDE DEF m, n, u
<1>6. ASSUME NEW i \in 1 .. (m + n) - 1 PROVE Follows(u[i], u[i + 1])
  <2>1. i \in 1 .. m + n /\ i + 1 \in 1 .. m + n
    BY <1>2
  <2>2. CASE i < m
    <3>1. i <= m /\ i + 1 <= m /\ i \in 1 .. m - 1
      BY <1>2, <2>2
    <3>2. u[i] = s[i] /\ u[i + 1] = s[i + 1]
      BY <1>4, <2>1, <3>1
    <3>3. QED
      BY <1>5, <3>1, <3>2
  <2>3. CASE i = m
    <3>1. m <= m /\ ~(m + 1 <= m) /\ (m + 1) - m = 1 /\ m > 0 /\ n > 0
      BY <1>2, <2>3
    <3>2. u[i] = s[m] /\ u[i + 1] = t[1]
      BY <1>4, <2>1, <2>3, <3>1
    <3>3. QED
      BY <1>5, <3>1, <3>2
  <2>4. CASE i > m
    <3>1. /\ ~(i <= m) /\ ~(i + 1 <= m) /\ i - m \in 1 .. n - 1
          /\ (i + 1) - m = (i - m) + 1
      BY <1>2, <2>4
    <3>2. u[i] = t[i - m] /\ u[i + 1] = t[(i - m) + 1]
      BY <1>4, <2>1, <3>1
    <3>3. QED
      BY <1>5, <3>1, <3>2
  <2>5. QED
    BY <1>2, <2>2, <2>3, <2>4
<1>7. QED
  BY <1>3, <1>6 DEF Unbroken, u

LEMMA BlocksUnbroken ==
  ASSUME NEW p \in Packet, NEW k \in 0 .. p.len
  PROVE  /\ Unbroken(BlocksAfter(p, k))
         /\ k < p.len => /\ BlocksAfter(p, k)[1] = <<p.id, k + 1, p.len>>
                         /\ BlocksAfter(p, k)[p.len - k] = <<p.id, p.len, p.len>>
<1>1. p.len \in Nat /\ k \in Nat /\ Len(BlocksAfter(p, k)) = p.len - k
  BY BlocksAfterType, PacketFacts
<1>2. \A i \in 1 .. p.len - k : BlocksAfter(p, k)[i] = <<p.id, k + i, p.len>>
  BY DEF BlocksAfter
<1>3. ASSUME NEW i \in 1 .. (p.len - k) - 1
      PROVE  Follows(BlocksAfter(p, k)[i], BlocksAfter(p, k)[i + 1])
  <2>1. i \in 1 .. p.len - k /\ i + 1 \in 1 .. p.len - k /\ k + (i + 1) = (k + i) + 1
    BY <1>1
  <2>2. /\ BlocksAfter(p, k)[i] = <<p.id, k + i, p.len>>
        /\ BlocksAfter(p, k)[i + 1] = <<p.id, (k + i) + 1, p.len>>
    BY <1>2, <2>1
  <2>3. QED
    BY <2>2 DEF Follows
<1>4. ASSUME k < p.len
      PROVE  /\ BlocksAfter(p, k)[1] = <<p.id, k + 1, p.len>>
             /\ BlocksAfter(p, k)[p.len - k] = <<p.id, p.len, p.len>>
  <2>1. 1 \in 1 .. p.len - k /\ p.len - k \in 1 .. p.len - k /\ k + (p.len - k) = p.len
    BY <1>1, <1>4
  <2>2. QED
    BY <1>2, <2>1
<1>5. QED
  BY <1>1, <1>3, <1>4 DEF Unbroken

LEMMA StreamType ==
  ASSUME IInv
  PROVE  /\ file \in Seq(Block) /\ fifo \in Seq(Block)
         /\ BlocksAfter(pkt, sent) \in Seq(Block) /\ Stream \in Seq(Block)
         /\ sent = pkt.len => BlocksAfter(pkt, sent) = <<>>
<1>1. pkt.len \in Nat /\ sent \in 0 .. pkt.len /\ pkt \in Packet \cup {NoPacket}
  BY TypeFacts DEF IInv, TypeOK
<1>2. ASSUME sent = pkt.len PROVE BlocksAfter(pkt, sent) = <<>>
  <2>1. 1 .. pkt.len - sent = {}
    BY <1>1, <1>2
  <2>2. QED
    BY <2>1 DEF BlocksAfter
<1>3. BlocksAfter(pkt, sent) \in Seq(Block)
  <2>1. CASE pkt \in Packet
    BY <1>1, <2>1, BlocksAfterType
  <2>2. CASE pkt = NoPacket
    <3>1. sent = pkt.len
      BY <1>1, <2>2 DEF NoPacket
    <3>2. QED
      BY <1>2, <3>1, EmptySeq
  <2>3. QED
    BY <1>1, <2>1, <2>2
<1>4. file \in Seq(Block) /\ fifo \in Seq(Block)
  BY DEF IInv, TypeOK
<1>5. Stream \in Seq(Block)
  BY <1>3, <1>4, ConcatProperties DEF Stream
<1>6. QED
  BY <1>2, <1>3, <1>4, <1>5

(* All steps but the task's next packet only shorten the stream at its     *)
(* old end, or move blocks along it.                                       *)
LEMMA SuffixKept ==
  ASSUME SInv, NEW s \in Seq(Block), Stream' \in Seq(Block), Stream = s \o Stream', pkt' = pkt
  PROVE  Unbroken(Stream)' /\ EndsWithPacket'
<1> DEFINE t == Stream'
<1>1. t \in Seq(Block) /\ Stream = s \o t
  OBVIOUS
<1>2. Unbroken(s \o t)
  BY <1>1 DEF SInv
<1>3. Unbroken(t) /\ (t # <<>> => t[Len(t)] = Stream[Len(Stream)] /\ Stream # <<>>)
  <2> HIDE DEF t
  <2>1. QED
    BY <1>1, <1>2, SuffixUnbroken
<1>4. t # <<>> => t[Len(t)] = <<pkt.id, pkt.len, pkt.len>>
  BY <1>3 DEF SInv, EndsWithPacket
<1>5. Unbroken(Stream)'
  BY <1>3 DEF Unbroken
<1>6. EndsWithPacket'
  BY <1>4 DEF EndsWithPacket
<1>7. QED
  BY <1>5, <1>6

LEMMA SameStreamKept ==
  ASSUME SInv, Stream' = Stream, pkt' = pkt
  PROVE  Unbroken(Stream)' /\ EndsWithPacket'
<1>1. Stream \in Seq(Block) /\ Stream = <<>> \o Stream' /\ <<>> \in Seq(Block)
  BY StreamType, ConcatEmptySeq, EmptySeq DEF SInv
<1>2. QED
  BY <1>1, SuffixKept

LEMMA SplitSeq ==
  ASSUME NEW S, NEW s \in Seq(S), NEW n \in 0 .. Len(s)
  PROVE  s = SubSeq(s, 1, n) \o SubSeq(s, n + 1, Len(s))
<1> DEFINE a == SubSeq(s, 1, n)  b == SubSeq(s, n + 1, Len(s))
<1>1. a \in Seq(S) /\ Len(a) = n /\ b \in Seq(S) /\ Len(b) = Len(s) - n
  BY PrefixType
<1>2. /\ \A i \in 1 .. n : a[i] = s[i]
      /\ \A i \in 1 .. Len(s) - n : b[i] = s[n + i]
  OBVIOUS
<1> HIDE DEF a, b
<1>3. /\ a \o b \in Seq(S) /\ Len(a \o b) = Len(s)
      /\ \A i \in 1 .. Len(s) : (a \o b)[i] = IF i <= n THEN a[i] ELSE b[i - n]
  BY <1>1, ConcatProperties
<1>4. ASSUME NEW i \in 1 .. Len(s) PROVE s[i] = (a \o b)[i]
  <2>1. CASE i <= n
    BY <1>2, <1>3, <2>1
  <2>2. CASE ~(i <= n)
    <3>1. i - n \in 1 .. Len(s) - n /\ n + (i - n) = i
      BY <2>2
    <3>2. QED
      BY <1>2, <1>3, <2>2, <3>1
  <2>3. QED
    BY <2>1, <2>2
<1>5. QED
  BY <1>3, <1>4, SeqEqual DEF a, b

LEMMA BlocksSplit ==
  ASSUME NEW p \in Packet, NEW k \in 0 .. p.len, NEW n \in 0 .. p.len - k
  PROVE  /\ BlocksAfter(p, k) = SubSeq(BlocksAfter(p, k), 1, n) \o BlocksAfter(p, k + n)
         /\ SubSeq(BlocksAfter(p, k), 1, n) \in Seq(Block)
<1> DEFINE B == BlocksAfter(p, k)  b == SubSeq(B, n + 1, Len(B))
<1>1. /\ B \in Seq(Block) /\ Len(B) = p.len - k /\ p.len \in Nat
      /\ n \in 0 .. Len(B) /\ k + n \in 0 .. p.len
  BY BlocksAfterType, PacketFacts
<1>2. /\ BlocksAfter(p, k + n) \in Seq(Block)
      /\ Len(BlocksAfter(p, k + n)) = p.len - (k + n)
  BY <1>1, BlocksAfterType
<1>3. b \in Seq(Block) /\ Len(b) = (p.len - k) - n
  BY <1>1, PrefixType
<1>4. ASSUME NEW i \in 1 .. (p.len - k) - n PROVE b[i] = BlocksAfter(p, k + n)[i]
  <2>1. /\ i \in 1 .. p.len - (k + n) /\ n + i \in 1 .. p.len - k
        /\ k + (n + i) = (k + n) + i
    BY <1>1
  <2>2. b[i] = B[n + i]
    BY <1>1, <2>1
  <2>3. B[n + i] = <<p.id, k + (n + i), p.len>>
    BY <2>1 DEF BlocksAfter
  <2>4. BlocksAfter(p, k + n)[i] = <<p.id, (k + n) + i, p.len>>
    BY <2>1 DEF BlocksAfter
  <2>5. QED
    BY <2>1, <2>2, <2>3, <2>4
<1>5. b = BlocksAfter(p, k + n)
  <2>1. p.len - (k + n) = (p.len - k) - n
    BY <1>1
  <2> HIDE DEF b
  <2>2. QED
    BY <1>2, <1>3, <1>4, <2>1, SeqEqual
<1>6. QED
  BY <1>1, <1>5, SplitSeq, PrefixType

LEMMA WriteKeepsStream == ASSUME IInv, Write PROVE Stream' = Stream /\ pkt' = pkt
<1>1. PICK n \in Nat :
           /\ n > 0 /\ n <= pkt.len - sent /\ n <= CDC_BLOCKS - Len(fifo)
           /\ sent' = sent + n
           /\ fifo' = fifo \o SubSeq(BlocksAfter(pkt, sent), 1, n)
           /\ pkt \in Packet
  BY WriteFacts
<1>2. sent \in 0 .. pkt.len /\ n \in 0 .. pkt.len - sent
  BY <1>1, TypeFacts DEF IInv
<1> DEFINE a == SubSeq(BlocksAfter(pkt, sent), 1, n)  b == BlocksAfter(pkt, sent + n)
<1>3. BlocksAfter(pkt, sent) = a \o b /\ a \in Seq(Block)
  BY <1>1, <1>2, BlocksSplit
<1>4. b \in Seq(Block)
  <2>1. sent + n \in 0 .. pkt.len
    BY <1>1, <1>2, PacketFacts
  <2>2. QED
    BY <1>1, <2>1, BlocksAfterType
<1>5. fifo' = fifo \o a /\ file' = file /\ pkt' = pkt /\ sent' = sent + n
  BY <1>1 DEF Write, hostVars
<1>6. BlocksAfter(pkt, sent)' = b
  BY <1>5 DEF BlocksAfter
<1> HIDE DEF a, b
<1>7. file \in Seq(Block) /\ fifo \in Seq(Block) /\ file \o fifo \in Seq(Block)
  BY StreamType, ConcatProperties
<1>8. file \o (fifo \o a) = (file \o fifo) \o a
  BY <1>3, <1>7, ConcatAssociative
<1>9. ((file \o fifo) \o a) \o b = (file \o fifo) \o (a \o b)
  BY SMTT(20), <1>3, <1>4, <1>7, ConcatAssociative
<1>10. QED
  BY <1>3, <1>5, <1>6, <1>8, <1>9 DEF Stream

LEMMA ReadKeepsStream == ASSUME IInv, ReadPort PROVE Stream' = Stream /\ pkt' = pkt
<1>1. PICK n \in 1 .. Len(fifo) :
        /\ file' = file \o SubSeq(fifo, 1, n)
        /\ fifo' = SubSeq(fifo, n + 1, Len(fifo))
  BY DEF ReadPort
<1>2. file \in Seq(Block) /\ fifo \in Seq(Block) /\ n \in 0 .. Len(fifo)
  BY <1>1, StreamType
<1>3. /\ SubSeq(fifo, 1, n) \in Seq(Block) /\ fifo' \in Seq(Block)
      /\ fifo = SubSeq(fifo, 1, n) \o fifo'
  BY <1>1, <1>2, PrefixType, SplitSeq
<1> DEFINE a == SubSeq(fifo, 1, n)
<1>4. a \in Seq(Block) /\ fifo = a \o fifo' /\ file' = file \o a
  BY <1>1, <1>3
<1> HIDE DEF a
<1>5. (file \o a) \o fifo' = file \o (a \o fifo')
  BY SMTT(20), <1>2, <1>3, <1>4, ConcatAssociative
<1>6. file' \o fifo' = file \o fifo
  BY <1>4, <1>5
<1>7. pkt' = pkt /\ sent' = sent
  BY DEF ReadPort, taskVars
<1>8. QED
  BY <1>6, <1>7 DEF Stream, BlocksAfter

LEMMA DropSteps ==
  ASSUME SInv, StartCapture \/ StopCapture \/ Unplug
  PROVE  Unbroken(Stream)' /\ EndsWithPacket'
<1> DEFINE B == BlocksAfter(pkt, sent)
<1>1. file \in Seq(Block) /\ fifo \in Seq(Block) /\ B \in Seq(Block) /\ Stream = (file \o fifo) \o B
  BY StreamType DEF SInv, Stream
<1>2. file' = <<>> /\ pkt' = pkt /\ sent' = sent /\ BlocksAfter(pkt, sent)' = B
  BY DEF StartCapture, StopCapture, Unplug, taskVars, BlocksAfter
<1>3. fifo' \in {fifo, <<>>}
  BY DEF StartCapture, StopCapture, Unplug
<1> HIDE DEF B
<1>4. \E s \in Seq(Block) : Stream = s \o Stream' /\ Stream' \in Seq(Block)
  <2>1. CASE fifo' = fifo
    <3>1. Stream' = fifo \o B
      BY <1>1, <1>2, <2>1, ConcatEmptySeq DEF Stream
    <3>2. Stream = file \o Stream' /\ Stream' \in Seq(Block)
      BY <1>1, <3>1, ConcatAssociative, ConcatProperties
    <3>3. QED
      BY <1>1, <3>2
  <2>2. CASE fifo' = <<>>
    <3>1. Stream' = B
      BY <1>1, <1>2, <2>2, ConcatEmptySeq, EmptySeq DEF Stream
    <3>2. file \o fifo \in Seq(Block)
      BY <1>1, ConcatProperties
    <3>3. QED
      BY <1>1, <3>1, <3>2
  <2>3. QED
    BY <1>3, <2>1, <2>2
<1>5. QED
  BY <1>2, <1>4, SuffixKept

LEMMA LaterIds ==
  ASSUME SInv
  PROVE  /\ \A i \in 1 .. Len(queue) : pkt.id < queue[i].id
         /\ \A i, j \in 1 .. Len(queue) : i < j => queue[i].id < queue[j].id
<1> DEFINE n == Len(queue)  q == Ids(queue)
<1>1. /\ queue \in Seq(Packet) /\ n \in Nat /\ pkt.id \in Nat
      /\ sent \in Nat /\ pkt.len \in Nat /\ sent <= pkt.len
  BY TypeFacts DEF SInv, IInv
<1>2. q \in Seq(Nat) /\ Len(q) = n /\ \A i \in 1 .. n : q[i] = queue[i].id
  BY <1>1, IdsType DEF Ids
<1>3. /\ \A i \in 1 .. Len(HeldSeq) : delivered < HeldSeq[i]
      /\ \A i, j \in 1 .. Len(HeldSeq) : i < j => HeldSeq[i] < HeldSeq[j]
  BY DEF SInv, QInv, LQ!InOrder
<1> HIDE DEF n, q
<1>4. CASE sent = pkt.len
  <2>a. ~(sent < pkt.len) /\ delivered = pkt.id
    BY <1>1, <1>4 DEF SInv, DoneIsDelivered
  <2>1. HeldSeq = <<>> \o q /\ delivered = pkt.id
    BY <2>a DEF HeldSeq, q
  <2>2. HeldSeq = q
    BY <1>2, <2>1, ConcatEmptySeq
  <2>3. QED
    BY <1>2, <1>3, <2>1, <2>2 DEF n
<1>5. CASE sent < pkt.len
  <2>1. HeldSeq = <<pkt.id>> \o q
    BY <1>5 DEF HeldSeq, q
  <2> DEFINE h == <<pkt.id>>
  <2>2. h \in Seq(Nat) /\ Len(h) = 1 /\ h[1] = pkt.id
    BY <1>1
  <2> HIDE DEF h
  <2>a. /\ Len(h \o q) = Len(h) + Len(q)
        /\ \A i \in 1 .. Len(h) + Len(q) :
             (h \o q)[i] = IF i <= Len(h) THEN h[i] ELSE q[i - Len(h)]
    BY <1>2, <2>2, ConcatProperties
  <2>3. /\ Len(h \o q) = 1 + n
        /\ \A i \in 1 .. 1 + n : (h \o q)[i] = IF i <= 1 THEN h[i] ELSE q[i - 1]
    BY <1>2, <2>2, <2>a
  <2>4. HeldSeq = h \o q
    BY <2>1 DEF h
  <2>5. Len(HeldSeq) = 1 + n /\ HeldSeq[1] = pkt.id
    BY <1>1, <2>2, <2>3, <2>4
  <2>6. \A i \in 1 .. n : i + 1 \in 1 .. 1 + n /\ HeldSeq[i + 1] = queue[i].id
    <3> TAKE i \in 1 .. n
    <3>1. i + 1 \in 1 .. 1 + n /\ ~(i + 1 <= 1) /\ (i + 1) - 1 = i
      BY <1>1
    <3>2. QED
      BY <1>2, <2>3, <2>4, <3>1
  <2>7. ASSUME NEW i \in 1 .. n PROVE pkt.id < queue[i].id
    <3>1. 1 \in 1 .. 1 + n /\ 1 < i + 1
      BY <1>1
    <3>2. QED
      BY <1>3, <2>5, <2>6, <3>1
  <2>8. ASSUME NEW i \in 1 .. n, NEW j \in 1 .. n, i < j PROVE queue[i].id < queue[j].id
    <3>1. i + 1 < j + 1
      BY <1>1, <2>8
    <3>2. HeldSeq[i + 1] < HeldSeq[j + 1]
      BY <1>3, <2>5, <2>6, <3>1
    <3>3. QED
      BY <2>6, <3>2
  <2>9. QED
    BY <2>7, <2>8 DEF n
<1>6. QED
  BY <1>1, <1>4, <1>5

LEMMA TakeKeepsSeams ==
  ASSUME SInv, TakePacket
  PROVE  Unbroken(Stream)' /\ EndsWithPacket' /\ DoneIsDelivered'
<1> DEFINE p == Head(queue)  s == file \o fifo  B == BlocksAfter(p, 0)
<1>1. /\ queue \in Seq(Packet) /\ queue # <<>> /\ p \in Packet /\ p = queue[1]
      /\ 1 \in 1 .. Len(queue)
  BY HeadTailProperties, EmptySeq DEF SInv, IInv, TypeOK, TakePacket
<1>2. p.len \in Nat /\ p.len > 0 /\ 0 \in 0 .. p.len
  BY <1>1, PacketFacts
<1>3. file \in Seq(Block) /\ fifo \in Seq(Block) /\ s \in Seq(Block)
  BY StreamType, ConcatProperties DEF SInv
<1>4. sent = pkt.len
  BY DEF SInv, IInv, Waiting, TakePacket
<1>5. Stream = s
  BY <1>3, <1>4, StreamType, ConcatEmptySeq DEF SInv, Stream
<1>6. /\ B \in Seq(Block) /\ Len(B) = p.len /\ Unbroken(B)
      /\ B[1] = <<p.id, 1, p.len>> /\ B[p.len] = <<p.id, p.len, p.len>>
  BY <1>1, <1>2, BlocksAfterType, BlocksUnbroken
<1>7. pkt.id < p.id
  BY <1>1, LaterIds
<1>8. pkt' = p /\ sent' = 0 /\ Stream' = s \o B
  BY DEF TakePacket, hostVars, Stream, BlocksAfter
<1> HIDE DEF p, s, B
<1>9. s # <<>> /\ B # <<>> => Follows(s[Len(s)], B[1])
  BY <1>5, <1>6, <1>7 DEF SInv, EndsWithPacket, Follows
<1>10. Unbroken(s \o B)
  BY <1>3, <1>5, <1>6, <1>9, JoinUnbroken DEF SInv
<1>11. B # <<>> /\ B[Len(B)] = (s \o B)[Len(s \o B)]
  BY <1>2, <1>3, <1>6, <1>10, SuffixUnbroken, EmptySeq
<1>12. EndsWithPacket'
  BY <1>6, <1>8, <1>11 DEF EndsWithPacket
<1>13. Unbroken(Stream)'
  BY <1>8, <1>10 DEF Unbroken
<1>14. DoneIsDelivered'
  BY <1>2, <1>8 DEF DoneIsDelivered
<1>15. QED
  BY <1>12, <1>13, <1>14

LEMMA OtherDelivered ==
  ASSUME SInv, [Next]_vars, ~TakePacket
  PROVE  DoneIsDelivered'
<1>1. CASE Write
  BY <1>1 DEF Write, DoneIsDelivered
<1>2. CASE Receive \/ SeeConnected \/ StartCapture \/ ReadPort \/ StopCapture \/ Unplug
           \/ UNCHANGED vars
  BY <1>2 DEF Receive, Reject, Forward, SeeConnected, StartCapture, ReadPort, StopCapture, Unplug,
              vars, taskVars, SInv, DoneIsDelivered
<1>3. QED
  BY <1>1, <1>2 DEF Next, UsbTask

LEMMA SeamStep ==
  ASSUME SInv, [Next]_vars
  PROVE  Unbroken(Stream)' /\ EndsWithPacket' /\ DoneIsDelivered'
<1>1. CASE TakePacket
  BY <1>1, TakeKeepsSeams
<1>2. CASE ~TakePacket
  <2>1. DoneIsDelivered'
    BY <1>2, OtherDelivered
  <2>2. CASE StartCapture \/ StopCapture \/ Unplug
    BY <2>1, <2>2, DropSteps
  <2>3. CASE Write \/ ReadPort
    BY <2>1, <2>3, WriteKeepsStream, ReadKeepsStream, SameStreamKept DEF SInv
  <2>4. CASE Receive \/ SeeConnected \/ UNCHANGED vars
    <3>1. Stream' = Stream /\ pkt' = pkt
      BY <2>4 DEF Receive, Reject, Forward, SeeConnected, vars, taskVars, hostVars,
                  Stream, BlocksAfter
    <3>2. QED
      BY <2>1, <3>1, SameStreamKept
  <2>5. QED
    BY <1>2, <2>2, <2>3, <2>4 DEF Next, UsbTask
<1>3. QED
  BY <1>1, <1>2

LEMMA InitSInv == Init => SInv
<1> SUFFICES ASSUME Init PROVE SInv
  OBVIOUS
<1>1. IInv /\ QInv
  BY InitIInv, InitRefines, QueueInit
<1>2. file = <<>> /\ fifo = <<>> /\ sent = 0 /\ pkt = NoPacket /\ delivered = 0
  BY DEF Init
<1>3. sent = pkt.len /\ pkt.id = 0
  BY <1>2 DEF NoPacket
<1>4. Stream = (<<>> \o <<>>) \o <<>>
  BY <1>1, <1>2, <1>3, StreamType DEF Stream
<1>5. Stream = <<>> /\ Len(Stream) = 0
  BY <1>4
<1>6. Unbroken(Stream)
  BY <1>5 DEF Unbroken
<1>7. QED
  BY <1>1, <1>2, <1>3, <1>5, <1>6 DEF SInv, EndsWithPacket, DoneIsDelivered

(* Whatever part of a packet a capture file holds is contiguous and runs   *)
(* to the packet's end, for every chunk, queue and FIFO size and however   *)
(* often captures stop, start and lose the port.                           *)
THEOREM NoSeam == Spec => []Seamless
<1>1. SInv /\ [Next]_vars => SInv'
  <2>1. SInv /\ [Next]_vars => IInv' /\ QInv'
    BY NextIInv, StepRefines, QueueStep DEF SInv
  <2>2. SInv /\ [Next]_vars => Unbroken(Stream)' /\ EndsWithPacket' /\ DoneIsDelivered'
    BY SeamStep
  <2>3. QED
    BY <2>1, <2>2 DEF SInv
<1>2. SInv => Seamless
  BY LaterIds DEF SInv, Seamless, Unbroken
<1>3. QED
  BY <1>1, <1>2, InitSInv, PTL DEF Spec

-----------------------------------------------------------------------------
(* One decode.  What holds of its state at every moment: a right CRC was   *)
(* seen exactly when one is on the list, and no stage is credited before.  *)

MaybeHyp == Hypothesis \cup {NoHyp}
FlagNames == Stages \cup {"ran_step", "ran_local", "ran_cfo", "is_long", "is_tag"}

DecodeState ==
  [any : MaybeHyp, crc : MaybeHyp, found : [any : MaybeHyp, crc : MaybeHyp],
   crc_ok_any : BOOLEAN, both_hit : BOOLEAN, inst : SUBSET FlagNames]

Credits(d) ==
  /\ Stages \cap d.inst # {} => d.found.crc # NoHyp
  /\ \A s, t \in Stages \cap d.inst : s = t

Sound(d) ==
  /\ d \in DecodeState
  /\ d.crc_ok_any <=> d.found.crc # NoHyp
  /\ Credits(d)

\* What an attempt at a timing does to a decode: a right CRC is never lost
\* from the list, and nothing else is touched.
Onward(d, e) ==
  /\ Sound(e)
  /\ e.any = d.any /\ e.crc = d.crc /\ e.inst = d.inst
  /\ d.found.crc # NoHyp => e.found.crc # NoHyp

LEMMA TryFacts ==
  ASSUME NEW d, Sound(d), NEW h \in Hypothesis
  PROVE  Onward(d, TryDecode(d, h))
<1> DEFINE e == TryDecode(d, h)
<1>1. h # NoHyp
  BY DecodeAssumption
<1>2. /\ d.found \in [any : MaybeHyp, crc : MaybeHyp] /\ d.crc_ok_any \in BOOLEAN
      /\ h \in MaybeHyp /\ h.crc \in BOOLEAN
  BY DEF Sound, DecodeState, MaybeHyp, Hypothesis
<1>3. \A g \in MaybeHyp : Better(h, g) \in MaybeHyp /\ Better(h, g) # NoHyp
  BY <1>1, <1>2 DEF Better, Above
<1>5. /\ Better(h, d.found.any) \in MaybeHyp
      /\ Better(h, d.found.crc) \in MaybeHyp /\ Better(h, d.found.crc) # NoHyp
  BY <1>2, <1>3
<1> DEFINE x == Better(h, d.found.any)
           y == IF h.crc THEN Better(h, d.found.crc) ELSE d.found.crc
           z == d.crc_ok_any \/ h.crc
<1>6. x \in MaybeHyp /\ y \in MaybeHyp /\ z \in BOOLEAN
  BY <1>2, <1>5
<1>7. e = [d EXCEPT !.found = [any |-> x, crc |-> y], !.crc_ok_any = z]
  BY DEF TryDecode, Sound, DecodeState
<1> HIDE DEF e, x, y, z
<1>8. /\ e \in DecodeState /\ e.any = d.any /\ e.crc = d.crc
      /\ e.inst = d.inst /\ e.found.crc = y /\ e.crc_ok_any = z
  BY <1>6, <1>7 DEF Sound, DecodeState
<1>9. (z <=> y # NoHyp) /\ (d.found.crc # NoHyp => y # NoHyp)
  BY <1>2, <1>5 DEF Sound, y, z
<1>10. Credits(e)
  BY <1>8, <1>9 DEF Sound, Credits
<1>11. QED
  BY <1>8, <1>9, <1>10 DEF Onward, Sound, e

LEMMA AttemptFacts ==
  ASSUME NEW d, Sound(d), NEW H \in SUBSET Hypothesis, NEW e \in Attempt(d, H)
  PROVE  Onward(d, e)
<1> DEFINE hit == [d EXCEPT !.both_hit = TRUE]
<1>1. Onward(d, d)
  BY DEF Onward
<1>2. /\ hit \in DecodeState /\ hit.any = d.any /\ hit.crc = d.crc
      /\ hit.inst = d.inst /\ hit.found = d.found /\ hit.crc_ok_any = d.crc_ok_any
  BY DEF Sound, DecodeState
<1>3. e = d \/ e = hit \/ \E h \in H : e = TryDecode(hit, h)
  BY DEF Attempt
<1> HIDE DEF hit
<1>4. Onward(d, hit)
  BY <1>2 DEF Onward, Sound, Credits
<1>5. ASSUME NEW h \in H, e = TryDecode(hit, h) PROVE Onward(d, e)
  <2>1. Onward(hit, e)
    BY <1>4, <1>5, TryFacts DEF Onward
  <2>2. QED
    BY <1>2, <2>1 DEF Onward
<1>6. QED
  BY <1>1, <1>3, <1>4, <1>5

LEMMA OnwardTwice ==
  ASSUME NEW d, NEW e, NEW f, Onward(d, e), Onward(e, f)
  PROVE  Onward(d, f)
  BY DEF Onward

LEMMA GridFacts ==
  ASSUME NEW d, Sound(d), NEW H \in SUBSET Hypothesis,
         NEW e \in Grid(d, H) \cup WholeGrid(d, H)
  PROVE  Onward(d, e)
<1>1. e \in Attempt(d, H) \/ \E f \in Attempt(d, H) : e \in Attempt(f, H)
  BY DEF Grid, WholeGrid
<1>2. CASE e \in Attempt(d, H)
  BY <1>2, AttemptFacts
<1>3. CASE \E f \in Attempt(d, H) : e \in Attempt(f, H)
  <2>1. PICK f \in Attempt(d, H) : e \in Attempt(f, H)
    BY <1>3
  <2>2. Onward(d, f)
    BY AttemptFacts
  <2>3. Onward(f, e)
    BY <2>1, <2>2, AttemptFacts DEF Onward
  <2>4. QED
    BY <2>2, <2>3, OnwardTwice
<1>4. QED
  BY <1>1, <1>2, <1>3

(* A sort brings up what was found, and touches nothing else.              *)
LEMMA RerankFacts ==
  ASSUME NEW d, Sound(d)
  PROVE  /\ Sound(Rerank(d)) /\ ReturnsBest(Rerank(d))
         /\ Rerank(d).found = d.found /\ Rerank(d).inst = d.inst
<1>1. Rerank(d) = [d EXCEPT !.any = d.found.any, !.crc = d.found.crc]
  BY DEF Rerank
<1>2. /\ Rerank(d) \in DecodeState /\ Rerank(d).any = d.found.any
      /\ Rerank(d).crc = d.found.crc /\ Rerank(d).found = d.found
      /\ Rerank(d).inst = d.inst /\ Rerank(d).crc_ok_any = d.crc_ok_any
  BY <1>1 DEF Sound, DecodeState
<1>3. QED
  BY <1>2 DEF Sound, Credits, ReturnsBest

(* A stage may be credited when a right CRC is there, and no other stage   *)
(* was credited.                                                           *)
LEMMA FlagFacts ==
  ASSUME NEW d, Sound(d), NEW name \in FlagNames, NEW on \in BOOLEAN,
         on /\ name \in Stages => d.found.crc # NoHyp /\ Stages \cap d.inst = {}
  PROVE  /\ Sound(Flag(d, name, on))
         /\ Flag(d, name, on).any = d.any /\ Flag(d, name, on).crc = d.crc
         /\ Flag(d, name, on).found = d.found
<1> DEFINE e == Flag(d, name, on)
<1>1. CASE ~on
  BY <1>1 DEF Flag
<1>2. CASE on
  <2>1. e = [d EXCEPT !.inst = d.inst \cup {name}]
    BY <1>2 DEF Flag
  <2> HIDE DEF e
  <2>2. /\ e \in DecodeState /\ e.any = d.any /\ e.crc = d.crc /\ e.found = d.found
        /\ e.inst = d.inst \cup {name} /\ e.crc_ok_any = d.crc_ok_any
    BY <2>1 DEF Sound, DecodeState
  <2>3. Credits(e)
    BY <1>2, <2>2 DEF Sound, Credits
  <2>4. QED
    BY <2>2, <2>3 DEF Sound, e
<1>3. QED
  BY <1>1, <1>2
-----------------------------------------------------------------------------
(* The passes and the stages.                                              *)

LEMMA NamesAreFlags ==
  /\ Stages \subseteq FlagNames /\ {"ran_step", "ran_local", "ran_cfo", "is_long", "is_tag"} \subseteq FlagNames
  /\ {"ran_step", "ran_local", "ran_cfo", "is_long", "is_tag"} \cap Stages = {}
  BY DEF FlagNames, Stages

LEMMA NewIsSound == Sound(NewDecode)
  BY DEF NewDecode, Sound, DecodeState, MaybeHyp, Credits

LEMMA BaseFacts ==
  ASSUME NEW H \in SUBSET Hypothesis, NEW d \in BasePasses(H)
  PROVE  Sound(d) /\ ReturnsBest(d)
<1>1. PICK a \in Grid(NewDecode, H) :
        \E b \in IF a.crc_ok_any THEN {a} ELSE WholeGrid(a, H) :
          LET e == Rerank(Flag(b, "crc_ok_base", b.crc_ok_any))
          IN  d = Flag(e, "is_tag", e.any # NoHyp /\ e.any.tag)
  BY DEF BasePasses
<1>2. PICK b \in IF a.crc_ok_any THEN {a} ELSE WholeGrid(a, H) :
        LET e == Rerank(Flag(b, "crc_ok_base", b.crc_ok_any))
        IN  d = Flag(e, "is_tag", e.any # NoHyp /\ e.any.tag)
  BY <1>1
<1>3. Onward(NewDecode, a)
  BY NewIsSound, GridFacts
<1>4. Sound(b) /\ b.inst = {}
  <2>1. a.inst = {}
    BY <1>3 DEF Onward, NewDecode
  <2>2. CASE b = a
    BY <1>3, <2>1, <2>2 DEF Onward
  <2>3. CASE b \in WholeGrid(a, H)
    BY <1>3, <2>1, <2>3, GridFacts DEF Onward
  <2>4. QED
    BY <1>2, <2>2, <2>3
<1> DEFINE f == Flag(b, "crc_ok_base", b.crc_ok_any)
           e == Rerank(f)
<1>5. Sound(f)
  <2>1. b.crc_ok_any \in BOOLEAN /\ (b.crc_ok_any => b.found.crc # NoHyp)
    BY <1>4 DEF Sound, DecodeState
  <2>2. "crc_ok_base" \in FlagNames
    BY DEF FlagNames, Stages
  <2>3. QED
    BY <1>4, <2>1, <2>2, FlagFacts
<1> HIDE DEF f
<1>6. Sound(e) /\ ReturnsBest(e)
  BY <1>5, RerankFacts
<1>7. d = Flag(e, "is_tag", e.any # NoHyp /\ e.any.tag)
  BY <1>2 DEF f
<1> HIDE DEF e
<1> DEFINE on == e.any # NoHyp /\ e.any.tag
<1>8. on \in BOOLEAN
  BY <1>6 DEF Sound, DecodeState, MaybeHyp, Hypothesis
<1> HIDE DEF on
<1>9. Sound(Flag(e, "is_tag", on)) /\ ReturnsBest(Flag(e, "is_tag", on))
  BY <1>6, <1>8, FlagFacts, NamesAreFlags DEF ReturnsBest
<1>10. QED
  BY <1>7, <1>9 DEF on

(* What a stage that runs leaves: sorted, and credited only for a right    *)
(* CRC that was not there before.                                          *)
Staged(d, e) ==
  /\ Sound(e) /\ ReturnsBest(e)
  /\ d.found.crc # NoHyp => e.found.crc # NoHyp

LEMMA SortedStage ==
  ASSUME NEW d, Sound(d), NEW e, Onward(d, e),
         NEW ran \in {"ran_step", "ran_local", "ran_cfo"}, NEW credit \in Stages,
         NEW f, f = Rerank(Flag(e, ran, TRUE)),
         NEW n, n = Flag(f, credit, f.crc # NoHyp /\ ~d.crc_ok_any)
  PROVE  Staged(d, n)
<1>1. ran \in FlagNames /\ credit \in FlagNames /\ ran \notin Stages
  BY NamesAreFlags
<1> DEFINE g == Flag(e, ran, TRUE)
<1>2. Sound(g) /\ g.found = e.found
  BY <1>1, FlagFacts DEF Onward
<1>3. g.inst = e.inst \cup {ran}
  BY DEF Flag, Onward, Sound, DecodeState
<1> HIDE DEF g
<1>4. Sound(f) /\ ReturnsBest(f) /\ f.found = g.found /\ f.inst = g.inst
  BY <1>2, RerankFacts DEF g
<1> DEFINE on == f.crc # NoHyp /\ ~d.crc_ok_any
<1>5. on \in BOOLEAN
  OBVIOUS
<1>6. on => f.found.crc # NoHyp /\ Stages \cap f.inst = {}
  <2>1. on => d.found.crc = NoHyp
    BY DEF Sound
  <2>2. on => Stages \cap d.inst = {}
    BY <2>1 DEF Sound, Credits
  <2>3. f.inst = d.inst \cup {ran}
    BY <1>3, <1>4 DEF Onward
  <2>4. QED
    BY <1>1, <1>4, <2>2, <2>3 DEF ReturnsBest
<1> HIDE DEF on
<1>7. Sound(Flag(f, credit, on)) /\ Flag(f, credit, on).any = f.any
      /\ Flag(f, credit, on).crc = f.crc /\ Flag(f, credit, on).found = f.found
  BY <1>1, <1>4, <1>5, <1>6, FlagFacts
<1>8. n = Flag(f, credit, on)
  BY DEF on
<1>9. d.found.crc # NoHyp => f.found.crc # NoHyp
  BY <1>2, <1>4 DEF Onward
<1>10. QED
  BY <1>4, <1>7, <1>8, <1>9 DEF Staged, ReturnsBest

LEMMA StayStaged ==
  ASSUME NEW d, Sound(d), ReturnsBest(d)
  PROVE  Staged(d, d)
  BY DEF Staged

LEMMA StagedTwice ==
  ASSUME NEW d, NEW e, NEW f, Staged(d, e), Staged(e, f)
  PROVE  Staged(d, f)
  BY DEF Staged

LEMMA StepRefineFacts ==
  ASSUME NEW H \in SUBSET Hypothesis, NEW d, Sound(d), d.crc = NoHyp,
         NEW n \in StepRefine(d, H)
  PROVE  Staged(d, n)
<1>1. PICK e \in Grid(d, H) :
        LET f == Rerank(Flag(e, "ran_step", TRUE))
        IN  n = Flag(f, "crc_ok_step", f.crc # NoHyp /\ ~d.crc_ok_any)
  BY DEF StepRefine
<1>2. Onward(d, e)
  BY GridFacts
<1>3. "crc_ok_step" \in Stages
  BY DEF Stages
<1>4. QED
  BY <1>1, <1>2, <1>3, SortedStage

LEMMA LocalRefineFacts ==
  ASSUME NEW H \in SUBSET Hypothesis, NEW d, Sound(d), ReturnsBest(d),
         NEW n \in LocalRefine(d, H)
  PROVE  Staged(d, n)
<1>1. CASE d.crc # NoHyp
  BY <1>1, StayStaged DEF LocalRefine
<1>2. CASE d.crc = NoHyp
  <2>1. PICK e \in Grid(d, H) :
          LET f == Rerank(Flag(e, "ran_local", TRUE))
          IN  n = Flag(f, "crc_ok_local", f.crc # NoHyp /\ ~d.crc_ok_any)
    BY <1>2 DEF LocalRefine
  <2>2. Onward(d, e)
    BY GridFacts
  <2>3. "crc_ok_local" \in Stages
    BY DEF Stages
  <2>4. QED
    BY <2>1, <2>2, <2>3, SortedStage
<1>3. QED
  BY <1>1, <1>2

LEMMA PiecewiseFacts ==
  ASSUME NEW H \in SUBSET Hypothesis, NEW d, Sound(d), ReturnsBest(d), NEW long,
         NEW n \in Piecewise(d, H, long)
  PROVE  Staged(d, n)
<1>1. n = d \/ \E e \in {d} \cup Grid(d, H) : n = Rerank(e)
  BY DEF Piecewise
<1>2. ASSUME NEW e \in {d} \cup Grid(d, H), n = Rerank(e) PROVE Staged(d, n)
  <2>1. Onward(d, d)
    BY DEF Onward
  <2>2. Onward(d, e)
    BY <2>1, GridFacts
  <2>3. QED
    BY <1>2, <2>2, RerankFacts DEF Onward, Staged
<1>3. QED
  BY <1>1, <1>2, StayStaged

(* The bit repair leaves what it found unsorted, but only if no right CRC  *)
(* had been brought up, and then the last stage runs and sorts.            *)
LEMMA SoftFlipFacts ==
  ASSUME NEW H \in SUBSET Hypothesis, NEW d, Sound(d), ReturnsBest(d),
         NEW n \in SoftFlip(d, H)
  PROVE  /\ Sound(n) /\ (ReturnsBest(n) \/ n.crc = NoHyp)
         /\ d.found.crc # NoHyp => n.found.crc # NoHyp
<1>1. CASE d.crc # NoHyp
  BY <1>1 DEF SoftFlip
<1>2. CASE d.crc = NoHyp
  <2>1. Onward(d, n)
    BY <1>2, GridFacts DEF SoftFlip
  <2>2. QED
    BY <1>2, <2>1 DEF Onward
<1>3. QED
  BY <1>1, <1>2

LEMMA CfoStageFacts ==
  ASSUME NEW H \in SUBSET Hypothesis, NEW d, Sound(d),
         ReturnsBest(d) \/ d.crc = NoHyp, NEW n \in CfoStage(d, H)
  PROVE  Staged(d, n)
<1>1. CASE d.crc # NoHyp
  BY <1>1, StayStaged DEF CfoStage
<1>2. CASE d.crc = NoHyp
  <2>1. PICK e \in Attempt(d, H) :
          LET f == Rerank(Flag(e, "ran_cfo", TRUE))
          IN  n = Flag(f, "crc_ok_cfo", f.crc # NoHyp /\ ~d.crc_ok_any)
    BY <1>2 DEF CfoStage
  <2>2. Onward(d, e)
    BY AttemptFacts
  <2>3. "crc_ok_cfo" \in Stages
    BY DEF Stages
  <2>4. QED
    BY <2>1, <2>2, <2>3, SortedStage
<1>3. QED
  BY <1>1, <1>2

LEMMA RefinedFacts ==
  ASSUME NEW H \in SUBSET Hypothesis, NEW d, Sound(d), ReturnsBest(d),
         d.crc = NoHyp \/ "is_tag" \in d.inst, NEW long \in BOOLEAN,
         NEW n \in Refined(d, H, long)
  PROVE  Sound(n) /\ ReturnsBest(n)
<1> DEFINE forced == "is_tag" \in d.inst
           entered == Flag(d, "is_long", long)
           cleared == IF forced THEN [entered EXCEPT !.crc = NoHyp] ELSE entered
           stepped == StepRefine(cleared, H)
           pieced == UNION {Piecewise(e, H, long) : e \in stepped}
           local == UNION {LocalRefine(e, H) : e \in pieced}
           flipped == UNION {SoftFlip(e, H) : e \in local}
           last == UNION {CfoStage(e, H) : e \in flipped}
           restored(e) == IF forced /\ e.crc = NoHyp
                          THEN [e EXCEPT !.crc = d.crc] ELSE e
<1>1. /\ Sound(entered) /\ ReturnsBest(entered)
      /\ entered.crc = d.crc /\ entered.found = d.found
  BY FlagFacts, NamesAreFlags DEF ReturnsBest
<1>2. n = entered \/ \E e \in last : n = restored(e)
  BY DEF Refined
<1> HIDE DEF entered
<1>3. Sound(cleared) /\ cleared.crc = NoHyp /\ cleared.found = d.found
  <2>1. CASE ~forced
    BY <1>1, <2>1
  <2>2. CASE forced
    <3>1. cleared = [entered EXCEPT !.crc = NoHyp]
      BY <2>2
    <3> HIDE DEF cleared
    <3>2. /\ cleared \in DecodeState /\ cleared.crc = NoHyp
          /\ cleared.found = entered.found /\ cleared.inst = entered.inst
          /\ cleared.crc_ok_any = entered.crc_ok_any
      BY <1>1, <3>1 DEF Sound, DecodeState, MaybeHyp
    <3>3. QED
      BY <1>1, <3>2 DEF Sound, Credits
  <2>3. QED
    BY <2>1, <2>2
<1> HIDE DEF cleared
<1>4. \A e \in stepped : Staged(cleared, e)
  BY <1>3, StepRefineFacts
<1> HIDE DEF stepped
<1>5. \A e \in pieced : Staged(cleared, e)
  <2>1. ASSUME NEW e \in stepped, NEW f \in Piecewise(e, H, long)
        PROVE  Staged(cleared, f)
    BY <1>4, PiecewiseFacts, StagedTwice DEF Staged
  <2>2. QED
    BY <2>1
<1> HIDE DEF pieced
<1>6. \A e \in local : Staged(cleared, e)
  <2>1. ASSUME NEW e \in pieced, NEW f \in LocalRefine(e, H)
        PROVE  Staged(cleared, f)
    BY <1>5, LocalRefineFacts, StagedTwice DEF Staged
  <2>2. QED
    BY <2>1
<1> HIDE DEF local
<1>7. \A e \in flipped : /\ Sound(e) /\ (ReturnsBest(e) \/ e.crc = NoHyp)
                         /\ cleared.found.crc # NoHyp => e.found.crc # NoHyp
  <2>1. ASSUME NEW e \in local, NEW f \in SoftFlip(e, H)
        PROVE  /\ Sound(f) /\ (ReturnsBest(f) \/ f.crc = NoHyp)
               /\ cleared.found.crc # NoHyp => f.found.crc # NoHyp
    BY <1>6, SoftFlipFacts DEF Staged
  <2>2. QED
    BY <2>1
<1> HIDE DEF flipped
<1>8. \A e \in last : Staged(cleared, e)
  <2>1. ASSUME NEW e \in flipped, NEW f \in CfoStage(e, H)
        PROVE  Staged(cleared, f)
    <3>1. Staged(e, f)
      BY <1>7, CfoStageFacts
    <3>2. QED
      BY <1>7, <3>1 DEF Staged
  <2>2. QED
    BY <2>1
<1> HIDE DEF last
<1>9. ASSUME NEW e \in last, n = restored(e) PROVE n = e
  <2>1. SUFFICES ASSUME forced, e.crc = NoHyp PROVE n = e
    BY <1>9
  <2>2. e.found.crc = NoHyp
    BY <1>8, <2>1 DEF Staged, ReturnsBest
  <2>3. d.crc = NoHyp
    BY <1>3, <1>8, <2>2 DEF Staged, ReturnsBest
  <2>4. n = [e EXCEPT !.crc = e.crc]
    BY <1>9, <2>1, <2>3
  <2>5. QED
    BY <1>8, <2>4 DEF Staged, Sound, DecodeState
<1>10. QED
  BY <1>1, <1>2, <1>8, <1>9 DEF Staged

LEMMA DecodesFacts ==
  ASSUME NEW right \in BOOLEAN, NEW tag \in BOOLEAN, NEW long \in BOOLEAN,
         NEW n \in Decodes(right, tag, long)
  PROVE  Sound(n) /\ ReturnsBest(n) /\ CreditedOnce(n)
<1> DEFINE H == Hypotheses(right, tag)
<1>1. H \in SUBSET Hypothesis
  BY DEF Hypotheses, Hypothesis
<1>2. PICK d \in BasePasses(H) :
        n \in IF d.found.any # NoHyp /\ (d.crc = NoHyp \/ "is_tag" \in d.inst)
              THEN Refined(d, H, long) ELSE {d}
  BY DEF Decodes
<1> HIDE DEF H
<1>3. Sound(d) /\ ReturnsBest(d)
  BY <1>1, BaseFacts
<1>4. Sound(n) /\ ReturnsBest(n)
  BY <1>1, <1>2, <1>3, RefinedFacts
<1>5. Cardinality(Stages \cap n.inst) <= 1
  <2>1. CASE Stages \cap n.inst = {}
    <3>1. Cardinality(Stages \cap n.inst) = 0
      BY <2>1, FS_EmptySet
    <3>2. QED
      BY <3>1
  <2>2. CASE Stages \cap n.inst # {}
    <3>1. PICK s \in Stages \cap n.inst : Stages \cap n.inst = {s}
      BY <1>4, <2>2 DEF Sound, Credits
    <3>2. Cardinality(Stages \cap n.inst) = 1
      BY <3>1, FS_Singleton
    <3>3. QED
      BY <3>2
  <2>3. QED
    BY <2>1, <2>2
<1>6. QED
  BY <1>4, <1>5 DEF CreditedOnce, Sound, Credits, ReturnsBest

-----------------------------------------------------------------------------
(* What the channels of a window gave stays what they gave.                *)

Faithful(d) == Sound(d) /\ ReturnsBest(d) /\ CreditedOnce(d)

DecodesFaithful ==
  \A w \in DOMAIN burst :
    burst[w] # None => \A d \in Range(burst[w].decodes) : Faithful(d)

LEMMA DecodedFacts ==
  ASSUME NEW right \in BOOLEAN, NEW tag \in BOOLEAN, NEW long \in BOOLEAN,
         NEW d \in Decoded[right][tag][long]
  PROVE  Faithful(d)
<1>1. Decoded[right][tag][long] = Decodes(right, tag, long)
  BY DEF Decoded
<1>2. QED
  BY <1>1, DecodesFacts DEF Faithful

LEMMA DecodeWindowFaithful ==
  ASSUME DecodesFaithful, NEW k \in Worker, DecodeWindow(k)
  PROVE  DecodesFaithful'
<1>1. PICK adv \in Adverts, ch \in Range(opts.channels), long \in BOOLEAN :
        LET dec(right) == Decoded[right][adv.eco # "UNKNOWN"][long]
        IN \E ds \in [DOMAIN opts.channels -> dec(TRUE) \cup dec(FALSE)] :
          LET b == [adv |-> adv, decodes |-> ds]
          IN  /\ \A i \in DOMAIN ds :
                   ds[i] \in dec(opts.channels[i] = ch)
              /\ burst' = [burst EXCEPT ![job[k]] = b]
              /\ outs' = Append(outs, TaskOut(job[k], b, k))
  BY DEF DecodeWindow
<1> DEFINE dec(right) == Decoded[right][adv.eco # "UNKNOWN"][long]
<1>2. PICK ds \in [DOMAIN opts.channels -> dec(TRUE) \cup dec(FALSE)] :
        burst' = [burst EXCEPT ![job[k]] = [adv |-> adv, decodes |-> ds]]
  BY <1>1
<1>3. \A d \in dec(TRUE) \cup dec(FALSE) : Faithful(d)
  <2>1. PICK tag \in BOOLEAN : tag = (adv.eco # "UNKNOWN")
    OBVIOUS
  <2>2. \A right \in BOOLEAN :
          \A d \in Decoded[right][tag][long] : Faithful(d)
    BY DecodedFacts
  <2>3. \A right \in BOOLEAN : \A d \in dec(right) : Faithful(d)
    BY <2>1, <2>2
  <2>4. QED
    BY <2>3
<1> HIDE DEF dec
<1> DEFINE b == [adv |-> adv, decodes |-> ds]
<1>4. \A d \in Range(b.decodes) : Faithful(d)
  BY <1>2, <1>3 DEF Range
<1> HIDE DEF b
<1>5. burst' = [burst EXCEPT ![job[k]] = b]
  BY <1>2 DEF b
<1>6. QED
  BY <1>4, <1>5 DEF DecodesFaithful

LEMMA AlwaysFaithful == DecodeSpec => []DecodesFaithful
<1>1. DecodeInit => DecodesFaithful
  BY DEF DecodeInit, DecodesFaithful
<1>2. DecodesFaithful /\ [DecodeNext]_decodeVars => DecodesFaithful'
  <2>1. SUFFICES ASSUME DecodesFaithful, [DecodeNext]_decodeVars PROVE DecodesFaithful'
    OBVIOUS
  <2>2. CASE \E k \in Worker : DecodeWindow(k)
    BY <2>1, <2>2, DecodeWindowFaithful
  <2>3. CASE Scan
    <3>1. burst' = [w \in DOMAIN windows' |-> None]
      BY <2>3 DEF Scan
    <3>2. QED
      BY <3>1 DEF DecodesFaithful
  <2>4. CASE UNCHANGED burst
    BY <2>1, <2>4 DEF DecodesFaithful
  <2>5. QED
    BY <2>1, <2>2, <2>3, <2>4
       DEF DecodeNext, decodeVars, pool, ReadChunk, Interrupt, Take, Finish
<1>3. QED
  BY <1>1, <1>2, PTL DEF DecodeSpec

(* Whatever the passes and the stages of decode_one_burst_from_freq find,  *)
(* the hypotheses returned are the best on the list, also when best_crc    *)
(* was cleared to force the stages and the list was left unsorted.         *)
THEOREM BestIsKept == DecodeSpec => []RefinementKeepsBest
<1>1. DecodesFaithful => RefinementKeepsBest
  BY DEF DecodesFaithful, RefinementKeepsBest, Bursts, Faithful
<1>2. QED
  BY <1>1, AlwaysFaithful, PTL

(* A right CRC is credited to one pass or stage, and only a right CRC is.  *)
THEOREM OneRecovery == DecodeSpec => []RecoveryCreditedOnce
<1>1. DecodesFaithful => RecoveryCreditedOnce
  BY DEF DecodesFaithful, RecoveryCreditedOnce, Bursts, Faithful
<1>2. QED
  BY <1>1, AlwaysFaithful, PTL

-----------------------------------------------------------------------------
(* Recursion on numbers.  What a recursive function computes is found by   *)
(* the least number for which it would fail; steps are given as functions. *)

LEMMA LeastNumber ==
  ASSUME NEW S \in SUBSET Nat, S # {}
  PROVE  \E b \in S : \A c \in S : b <= c
<1>1. PICK b \in S : \A c \in S : <<c, b>> \notin OpToRel(<, Nat)
  BY NatLessThanWellFounded, WFMin
<1>2. \A c \in S : ~(c < b)
  BY <1>1 DEF OpToRel
<1>3. ASSUME NEW c \in S PROVE b <= c
  BY <1>2
<1>4. QED
  BY <1>1, <1>3

LEMMA Upwards ==
  ASSUME NEW N \in Nat, NEW P, 0 \in P,
         \A n \in 1 .. N : n - 1 \in P => n \in P
  PROVE  \A n \in 0 .. N : n \in P
<1> DEFINE S == {n \in 0 .. N : n \notin P}
<1>1. SUFFICES ASSUME S # {} PROVE FALSE
  OBVIOUS
<1>2. PICK b \in S : \A c \in S : b <= c
  <2>1. S \in SUBSET Nat
    OBVIOUS
  <2> HIDE DEF S
  <2>2. QED
    BY <1>1, <2>1, LeastNumber
<1>3. b \in 1 .. N
  BY <1>2
<1>4. b - 1 \notin S
  BY <1>2, <1>3
<1>5. QED
  BY <1>2, <1>3, <1>4

\* f starts with base and goes on with the steps of st, up to N.
Runs(f, N, base, st) ==
  /\ f[0] = base
  /\ \A n \in 1 .. N : f[n] = st[<<n, f[n - 1]>>]

\* g takes the steps of f as long as it stays in X.
Tracks(g, f, N, X, base, st) ==
  /\ N \in Nat /\ base \in X /\ st \in [(1 .. N) \X X -> X]
  /\ f \in [0 .. N -> X] /\ Runs(f, N, base, st)
  /\ g[0] = base
  /\ \A n \in 1 .. N : g[n - 1] \in X => g[n] = st[<<n, g[n - 1]>>]

LEMMA RunExists ==
  ASSUME NEW N \in Nat, NEW X, NEW base \in X, NEW st \in [(1 .. N) \X X -> X]
  PROVE  \E f \in [0 .. N -> X] : Runs(f, N, base, st)
<1> DEFINE P == {n \in Nat : n <= N => \E f \in [0 .. n -> X] : Runs(f, n, base, st)}
<1>1. 0 \in P
  <2>1. [i \in 0 .. 0 |-> base] \in [0 .. 0 -> X]
    OBVIOUS
  <2>2. Runs([i \in 0 .. 0 |-> base], 0, base, st)
    BY DEF Runs
  <2>3. QED
    BY <2>1, <2>2
<1>2. ASSUME NEW n \in 1 .. N, n - 1 \in P PROVE n \in P
  <2>1. PICK f \in [0 .. n - 1 -> X] : Runs(f, n - 1, base, st)
    BY <1>2
  <2> DEFINE x == st[<<n, f[n - 1]>>]
             g == [i \in 0 .. n |-> IF i = n THEN x ELSE f[i]]
  <2>2. f[n - 1] \in X /\ <<n, f[n - 1]>> \in (1 .. N) \X X
    OBVIOUS
  <2>3. x \in X
    BY <2>2
  <2>4. g \in [0 .. n -> X]
    BY <2>3
  <2>5. \A i \in 0 .. n - 1 : g[i] = f[i]
    OBVIOUS
  <2>6. g[0] = base
    BY <2>1, <2>5 DEF Runs
  <2>7. \A i \in 1 .. n : g[i] = st[<<i, g[i - 1]>>]
    <3>1. ASSUME NEW i \in 1 .. n - 1 PROVE g[i] = st[<<i, g[i - 1]>>]
      <4>1. i \in 0 .. n - 1 /\ i - 1 \in 0 .. n - 1
        OBVIOUS
      <4>2. f[i] = st[<<i, f[i - 1]>>]
        BY <2>1, <3>1 DEF Runs
      <4>3. QED
        BY <2>5, <4>1, <4>2, Zenon
    <3>2. g[n] = st[<<n, g[n - 1]>>]
      <4>1. g[n - 1] = f[n - 1]
        BY <2>5
      <4>2. g[n] = x
        OBVIOUS
      <4>3. QED
        BY <4>1, <4>2
    <3>3. \A i \in 1 .. n : i = n \/ i \in 1 .. n - 1
      OBVIOUS
    <3>4. QED
      BY <3>1, <3>2, <3>3
  <2>8. Runs(g, n, base, st)
    BY <2>6, <2>7 DEF Runs
  <2>9. \E h \in [0 .. n -> X] : Runs(h, n, base, st)
    BY <2>4, <2>8
  <2>10. n \in Nat
    OBVIOUS
  <2> HIDE DEF g, x
  <2>11. QED
    BY <2>9, <2>10
<1>3. \A n \in 0 .. N : n \in P
  BY <1>1, <1>2, Upwards
<1>4. QED
  BY <1>3

LEMMA RunUnique ==
  ASSUME NEW N, NEW X, NEW base, NEW st, NEW f, NEW g,
         Tracks(g, f, N, X, base, st)
  PROVE  \A n \in 0 .. N : g[n] = f[n]
<1>0. N \in Nat /\ f \in [0 .. N -> X] /\ Runs(f, N, base, st)
  BY DEF Tracks
<1> DEFINE P == {n \in Nat : n <= N => g[n] = f[n]}
<1>1. 0 \in P
  BY <1>0 DEF Runs, Tracks
<1>2. ASSUME NEW n \in 1 .. N, n - 1 \in P PROVE n \in P
  <2>1. g[n - 1] = f[n - 1] /\ f[n - 1] \in X
    BY <1>0, <1>2
  <2>2. f[n] = st[<<n, f[n - 1]>>]
    BY <1>0 DEF Runs
  <2>3. g[n] = st[<<n, g[n - 1]>>]
    BY <2>1 DEF Tracks
  <2>4. QED
    BY <2>1, <2>2, <2>3
<1> HIDE DEF P
<1>3. \A n \in 0 .. N : n \in P
  BY <1>0, <1>1, <1>2, Upwards
<1>4. QED
  BY <1>3 DEF P

-----------------------------------------------------------------------------
(* The sublist at some positions.                                          *)

\* f[n] is what is taken of the first n elements.
Takes(f, s, T) ==
  /\ f[0] = <<>>
  /\ \A n \in 1 .. Len(s) :
       f[n] = IF n \in T THEN Append(f[n - 1], s[n]) ELSE f[n - 1]

LEMMA SublistRun ==
  ASSUME NEW S, NEW s \in Seq(S), NEW T
  PROVE  \E f \in [0 .. Len(s) -> Seq(S)] : Takes(f, s, T) /\ Sublist(s, T) = f[Len(s)]
<1>0. PICK M \in Nat : M = Len(s)
  OBVIOUS
<1>1. PICK Y, b, t :
        /\ M = Len(s) /\ Y = Seq(S) /\ b = <<>>
        /\ t = [p \in (1 .. M) \X Y |->
                  IF p[1] \in T THEN Append(p[2], s[p[1]]) ELSE p[2]]
  BY <1>0
<1>2. M \in Nat /\ b \in Y /\ \A n \in 1 .. M : s[n] \in S
  BY <1>1
<1>3. t \in [(1 .. M) \X Y -> Y]
  <2>1. ASSUME NEW p \in (1 .. M) \X Y
        PROVE  (IF p[1] \in T THEN Append(p[2], s[p[1]]) ELSE p[2]) \in Y
    <3>1. p[1] \in 1 .. M /\ p[2] \in Seq(S) /\ s[p[1]] \in S
      BY <1>1, <1>2
    <3>2. QED
      BY <1>1, <3>1
  <2>2. QED
    BY <1>1, <2>1
<1>4. \A n \in 1 .. M, x \in Y :
        t[<<n, x>>] = IF n \in T THEN Append(x, s[n]) ELSE x
  BY <1>1
<1>5. PICK f \in [0 .. M -> Y] : Runs(f, M, b, t)
  BY <1>2, <1>3, RunExists
<1>6. f[0] = b /\ \A n \in 1 .. M :
        f[n] = IF n \in T THEN Append(f[n - 1], s[n]) ELSE f[n - 1]
  <2>1. ASSUME NEW n \in 1 .. M
        PROVE  f[n] = IF n \in T THEN Append(f[n - 1], s[n]) ELSE f[n - 1]
    <3>1. f[n] = t[<<n, f[n - 1]>>] /\ f[n - 1] \in Y
      BY <1>2, <1>5 DEF Runs
    <3>2. QED
      BY <1>4, <3>1
  <2>2. QED
    BY <1>5, <2>1 DEF Runs
<1>7. PICK F :
        /\ F = CHOOSE g :
                 g = [n \in 0 .. M |->
                        IF n = 0 THEN <<>>
                        ELSE IF n \in T THEN Append(g[n - 1], s[n]) ELSE g[n - 1]]
        /\ Sublist(s, T) = F[M]
  BY <1>1 DEF Sublist
<1>8. F = [n \in 0 .. M |->
             IF n = 0 THEN <<>>
             ELSE IF n \in T THEN Append(F[n - 1], s[n]) ELSE F[n - 1]]
  <2>1. \A n \in 0 .. M : n = 0 \/ (n \in 1 .. M /\ n # 0)
    BY <1>2
  <2>2. \A n \in 0 .. M : f[n] = IF n = 0 THEN <<>>
           ELSE IF n \in T THEN Append(f[n - 1], s[n]) ELSE f[n - 1]
    BY <1>1, <1>6, <2>1, Zenon
  <2>3. f = [n \in 0 .. M |->
               IF n = 0 THEN <<>>
               ELSE IF n \in T THEN Append(f[n - 1], s[n]) ELSE f[n - 1]]
    BY <2>2
  <2>4. QED
    BY <1>7, <2>3
<1>9. Tracks(F, f, M, Y, b, t)
  <2>1. F[0] = b
    BY <1>1, <1>2, <1>8
  <2>2. \A n \in 1 .. M : n \in 0 .. M /\ n # 0
    BY <1>2
  <2>3. \A n \in 1 .. M : F[n] = IF n \in T THEN Append(F[n - 1], s[n]) ELSE F[n - 1]
    BY <1>8, <2>2, Zenon
  <2>4. QED
    BY <1>2, <1>3, <1>4, <1>5, <2>1, <2>3 DEF Tracks
<1>10. \A n \in 0 .. M : F[n] = f[n]
  BY <1>9, RunUnique
<1>11. /\ f \in [0 .. Len(s) -> Seq(S)] /\ Takes(f, s, T)
       /\ Sublist(s, T) = f[Len(s)]
  <2>1. F[M] = f[M]
    BY <1>2, <1>10
  <2>2. QED
    BY <1>1, <1>6, <1>7, <2>1 DEF Takes
<1>12. QED
  BY <1>11

\* u is drawn from the first n elements of s, at the positions of T: e says
\* where each element comes from.
DrawnBy(e, u, s, T, n) ==
  /\ e \in [1 .. Len(u) -> Nat]
  /\ \A i \in 1 .. Len(u) : e[i] \in 1 .. n /\ e[i] \in T /\ u[i] = s[e[i]]
  /\ \A i, j \in 1 .. Len(u) : i < j => e[i] < e[j]
  /\ \A m \in 1 .. n : m \in T => \E i \in 1 .. Len(u) : e[i] = m

LEMMA DrawnStep ==
  ASSUME NEW S, NEW s \in Seq(S), NEW T, NEW n \in 1 .. Len(s), NEW u \in Seq(S),
         NEW e, DrawnBy(e, u, s, T, n - 1)
  PROVE  \E d : DrawnBy(d, IF n \in T THEN Append(u, s[n]) ELSE u, s, T, n)
<1>0. n \in Nat /\ n - 1 \in Nat
  OBVIOUS
<1>1. CASE n \notin T
  <2>1. \A i \in 1 .. Len(u) : e[i] \in 1 .. n
    BY <1>0 DEF DrawnBy
  <2>2. \A m \in 1 .. n : m \in T => m \in 1 .. n - 1
    BY <1>0, <1>1
  <2>3. DrawnBy(e, u, s, T, n)
    BY <2>1, <2>2 DEF DrawnBy
  <2>4. QED
    BY <1>1, <2>3
<1>2. CASE n \in T
  <2>1. PICK k \in Nat : k = Len(u) + 1
    OBVIOUS
  <2>2. PICK v \in Seq(S) : v = Append(u, s[n])
    <3>1. s[n] \in S
      OBVIOUS
    <3>2. Append(u, s[n]) \in Seq(S)
      BY <3>1
    <3>3. QED
      BY <3>2
  <2>3. Len(v) = k /\ v[k] = s[n] /\ \A i \in 1 .. k - 1 : v[i] = u[i]
    BY <2>1, <2>2
  <2>4. PICK d : d = [i \in 1 .. k |-> IF i = k THEN n ELSE e[i]]
    OBVIOUS
  <2>5. d \in [1 .. k -> Nat] /\ d[k] = n /\ \A i \in 1 .. k - 1 : d[i] = e[i]
    BY <1>0, <2>1, <2>4 DEF DrawnBy
  <2>6. k - 1 = Len(u) /\ k \in 1 .. k /\ \A i \in 1 .. k : i = k \/ i \in 1 .. k - 1
    BY <2>1
  <2>7. \A i \in 1 .. k : d[i] \in 1 .. n /\ d[i] \in T /\ v[i] = s[d[i]]
    <3>1. ASSUME NEW i \in 1 .. k - 1
          PROVE  d[i] \in 1 .. n /\ d[i] \in T /\ v[i] = s[d[i]]
      BY <1>0, <2>3, <2>5, <2>6 DEF DrawnBy
    <3>2. d[k] \in 1 .. n /\ d[k] \in T /\ v[k] = s[d[k]]
      BY <1>0, <1>2, <2>3, <2>5
    <3>3. QED
      BY <2>6, <3>1, <3>2
  <2>8. ASSUME NEW i \in 1 .. k, NEW j \in 1 .. k, i < j PROVE d[i] < d[j]
    <3>1. i \in 1 .. k - 1
      BY <2>1, <2>8
    <3>2. CASE j = k
      BY <1>0, <2>5, <2>6, <3>1, <3>2 DEF DrawnBy
    <3>3. CASE j # k
      <4>1. j \in 1 .. k - 1
        BY <2>6, <3>3
      <4>2. QED
        BY <2>5, <2>6, <2>8, <3>1, <4>1 DEF DrawnBy
    <3>4. QED
      BY <3>2, <3>3
  <2>9. ASSUME NEW m \in 1 .. n, m \in T PROVE \E i \in 1 .. k : d[i] = m
    <3>1. CASE m = n
      BY <2>5, <2>6, <3>1
    <3>2. CASE m # n
      <4>1. m \in 1 .. n - 1
        BY <1>0, <3>2
      <4>2. PICK i \in 1 .. k - 1 : e[i] = m
        BY <2>6, <2>9, <4>1 DEF DrawnBy
      <4>3. i \in 1 .. k
        BY <2>1
      <4>4. QED
        BY <2>5, <4>2, <4>3
    <3>3. QED
      BY <3>1, <3>2
  <2>10. DrawnBy(d, v, s, T, n)
    BY <2>3, <2>5, <2>7, <2>8, <2>9 DEF DrawnBy
  <2>11. QED
    BY <1>2, <2>2, <2>10
<1>3. QED
  BY <1>1, <1>2

LEMMA SublistFacts ==
  ASSUME NEW S, NEW s \in Seq(S), NEW T
  PROVE  /\ Sublist(s, T) \in Seq(S)
         /\ \E e : DrawnBy(e, Sublist(s, T), s, T, Len(s))
<1>1. PICK f \in [0 .. Len(s) -> Seq(S)] :
        Takes(f, s, T) /\ Sublist(s, T) = f[Len(s)]
  BY SublistRun
<1> DEFINE P == {n \in Nat : n <= Len(s) => \E e : DrawnBy(e, f[n], s, T, n)}
<1>2. Len(s) \in Nat
  OBVIOUS
<1>3. 0 \in P
  <2>1. f[0] = <<>>
    BY <1>1 DEF Takes
  <2>2. PICK e : e = [i \in 1 .. 0 |-> 0]
    OBVIOUS
  <2>3. DrawnBy(e, <<>>, s, T, 0)
    BY <2>2 DEF DrawnBy
  <2>4. QED
    BY <2>1, <2>3
<1>4. ASSUME NEW n \in 1 .. Len(s), n - 1 \in P PROVE n \in P
  <2>1. PICK e : DrawnBy(e, f[n - 1], s, T, n - 1)
    BY <1>4
  <2>2. PICK u \in Seq(S) : u = f[n - 1]
    BY <1>2
  <2>3. f[n] = IF n \in T THEN Append(u, s[n]) ELSE u
    BY <1>1, <2>2 DEF Takes
  <2>4. \E d : DrawnBy(d, IF n \in T THEN Append(u, s[n]) ELSE u, s, T, n)
    BY <2>1, <2>2, DrawnStep
  <2>5. QED
    BY <2>3, <2>4
<1> HIDE DEF P
<1>5. \A n \in 0 .. Len(s) : n \in P
  BY <1>2, <1>3, <1>4, Upwards
<1>6. QED
  BY <1>1, <1>2, <1>5 DEF P

LEMMA SublistWhole ==
  ASSUME NEW S, NEW s \in Seq(S), NEW T, 1 .. Len(s) \subseteq T
  PROVE  Sublist(s, T) = s
<1>1. PICK f \in [0 .. Len(s) -> Seq(S)] :
        Takes(f, s, T) /\ Sublist(s, T) = f[Len(s)]
  BY SublistRun
<1> DEFINE P == {n \in Nat : n <= Len(s) =>
                   Len(f[n]) = n /\ \A i \in 1 .. n : f[n][i] = s[i]}
<1>2. Len(s) \in Nat
  OBVIOUS
<1>3. 0 \in P
  BY <1>1 DEF Takes
<1>4. ASSUME NEW n \in 1 .. Len(s), n - 1 \in P PROVE n \in P
  <2>1. PICK u \in Seq(S) : u = f[n - 1]
    BY <1>2
  <2>2. f[n] = Append(u, s[n])
    BY <1>1, <2>1 DEF Takes
  <2>3. Len(u) = n - 1 /\ \A i \in 1 .. n - 1 : u[i] = s[i]
    BY <1>4, <2>1
  <2>4. Len(f[n]) = n /\ \A i \in 1 .. n : f[n][i] = s[i]
    <3>1. s[n] \in S /\ n \in Nat
      OBVIOUS
    <3>2. QED
      BY <2>2, <2>3, <3>1
  <2>5. QED
    BY <2>4
<1> HIDE DEF P
<1>5. \A n \in 0 .. Len(s) : n \in P
  BY <1>2, <1>3, <1>4, Upwards
<1>6. Len(f[Len(s)]) = Len(s) /\ \A i \in 1 .. Len(s) : f[Len(s)][i] = s[i]
  BY <1>2, <1>5 DEF P
<1>7. QED
  BY <1>1, <1>2, <1>6, SeqEqual

-----------------------------------------------------------------------------
(* The windows that are kept lie apart.                                    *)

Candidate == [at : Nat, sc : Scores]

\* Candidates before n, each more than MIN_SEP behind the last.
ApartBelow(u, n) ==
  /\ u \in Seq(Candidate)
  /\ \A i \in 1 .. Len(u) : u[i].at < n
  /\ \A i, j \in 1 .. Len(u) : i < j => u[i].at + MIN_SEP < u[j].at

LEMMA SuppressedType ==
  ASSUME NEW u \in Seq(Candidate), NEW c \in Candidate
  PROVE  Suppressed(u, c) \in Seq(Candidate)
<1>1. Append(u, c) \in Seq(Candidate)
  OBVIOUS
<1>2. u # <<>> => Append(Front(u), c) \in Seq(Candidate)
  <2>1. u # <<>> => Len(u) - 1 \in 0 .. Len(u)
    BY EmptySeq
  <2>2. u # <<>> => Front(u) \in Seq(Candidate)
    BY <2>1, PrefixType DEF Front
  <2>3. QED
    BY <2>2
<1>3. QED
  BY <1>1, <1>2 DEF Suppressed

LEMMA FurtherApart ==
  ASSUME NEW x \in Nat, NEW y \in Nat, NEW m \in Nat, NEW n \in Nat,
         n - y > m, x = y \/ x + m < y
  PROVE  x + m < n
OBVIOUS

LEMMA SuppressedApart ==
  ASSUME NEW n \in Nat, NEW u, ApartBelow(u, n), NEW c \in Candidate, c.at = n
  PROVE  ApartBelow(Suppressed(u, c), n + 1)
<1>0. PICK L \in Nat : L = Len(u)
  BY DEF ApartBelow
<1>1. /\ u \in Seq(Candidate) /\ MIN_SEP \in Nat
      /\ \A i \in 1 .. L : u[i] \in Candidate /\ u[i].at \in Nat /\ u[i].at < n
  <2>1. u \in Seq(Candidate) /\ MIN_SEP \in Nat /\ \A i \in 1 .. L : u[i].at < n
    BY <1>0, PoolAssumption DEF ApartBelow
  <2>2. \A i \in 1 .. L : u[i] \in Candidate
    BY <1>0, <2>1
  <2>3. QED
    BY <2>1, <2>2 DEF Candidate
<1>2. CASE u = <<>> \/ c.at - Last(u).at > MIN_SEP
  <2>1. PICK v \in Seq(Candidate) : v = Append(u, c)
    <3>1. Append(u, c) \in Seq(Candidate)
      BY <1>1
    <3>2. QED
      BY <3>1
  <2>2. Len(v) = L + 1 /\ v[L + 1] = c /\ \A i \in 1 .. L : v[i] = u[i]
    BY <1>0, <1>1, <2>1
  <2>3. Suppressed(u, c) = v
    BY <1>2, <2>1 DEF Suppressed
  <2>4. \A i \in 1 .. L : u[i].at + MIN_SEP < n
    <3>1. ASSUME NEW i \in 1 .. L PROVE u[i].at + MIN_SEP < n
      <4>1. u # <<>> /\ L \in 1 .. L
        BY <1>0, <3>1
      <4>2. PICK x \in Nat, y \in Nat : x = u[i].at /\ y = u[L].at
        BY <1>1, <4>1
      <4>3. n - y > MIN_SEP
        BY <1>0, <1>2, <4>1, <4>2 DEF Last
      <4>4. x = y \/ x + MIN_SEP < y
        BY <1>0, <4>1, <4>2 DEF ApartBelow
      <4>5. x + MIN_SEP < n
        BY <1>1, <4>3, <4>4, FurtherApart
      <4>6. QED
        BY <4>2, <4>5
    <3>2. QED
      BY <3>1
  <2>5. \A i \in 1 .. L + 1 : i = L + 1 \/ i \in 1 .. L
    OBVIOUS
  <2>6. \A i \in 1 .. L + 1 : v[i].at < n + 1
    BY <1>1, <2>2, <2>5
  <2>7. ASSUME NEW i \in 1 .. L + 1, NEW j \in 1 .. L + 1, i < j
        PROVE  v[i].at + MIN_SEP < v[j].at
    <3>1. i \in 1 .. L
      BY <2>7
    <3>2. CASE j = L + 1
      BY <2>2, <2>4, <3>1, <3>2
    <3>3. CASE j \in 1 .. L
      BY <1>0, <2>2, <2>7, <3>1, <3>3 DEF ApartBelow
    <3>4. QED
      BY <2>5, <3>2, <3>3
  <2>8. QED
    BY <2>2, <2>3, <2>6, <2>7 DEF ApartBelow
<1>3. CASE u # <<>> /\ ~(c.at - Last(u).at > MIN_SEP) /\ c.sc > Last(u).sc
  <2>1. L \in 1 .. L /\ L - 1 \in 0 .. L
    BY <1>0, <1>1, <1>3, EmptySeq
  <2>2. PICK w \in Seq(Candidate) : w = SubSeq(u, 1, L - 1)
    BY <1>0, <1>1, <2>1, PrefixType
  <2>3. Len(w) = L - 1 /\ \A i \in 1 .. L - 1 : w[i] = u[i]
    BY <1>0, <1>1, <2>1, <2>2
  <2>4. PICK v \in Seq(Candidate) : v = Append(w, c)
    <3>1. Append(w, c) \in Seq(Candidate)
      BY <2>2
    <3>2. QED
      BY <3>1
  <2>5. Len(v) = L /\ v[L] = c /\ \A i \in 1 .. L - 1 : v[i] = u[i]
    BY <2>1, <2>2, <2>3, <2>4
  <2>6. Suppressed(u, c) = v
    BY <1>0, <1>3, <2>2, <2>4 DEF Suppressed, Front
  <2>7. \A i \in 1 .. L : i = L \/ i \in 1 .. L - 1
    OBVIOUS
  <2>8. \A i \in 1 .. L : v[i].at < n + 1
    <3>1. \A i \in 1 .. L - 1 : u[i].at \in Nat /\ u[i].at < n
      BY <1>1
    <3>2. QED
      BY <2>5, <2>7, <3>1
  <2>9. \A i \in 1 .. L - 1 : u[i].at + MIN_SEP < n
    <3>1. ASSUME NEW i \in 1 .. L - 1 PROVE u[i].at + MIN_SEP < n
      <4>1. i \in 1 .. L /\ i < L
        OBVIOUS
      <4>2. PICK x \in Nat, y \in Nat : x = u[i].at /\ y = u[L].at /\ y < n
        BY <1>1, <2>1, <4>1
      <4>3. x + MIN_SEP < y
        BY <1>0, <2>1, <4>1, <4>2 DEF ApartBelow
      <4>4. x + MIN_SEP < n
        BY <1>1, <4>2, <4>3
      <4>5. QED
        BY <4>2, <4>4
    <3>2. QED
      BY <3>1
  <2>10. ASSUME NEW i \in 1 .. L, NEW j \in 1 .. L, i < j
         PROVE  v[i].at + MIN_SEP < v[j].at
    <3>1. i \in 1 .. L - 1
      BY <2>10
    <3>2. CASE j = L
      BY <2>5, <2>9, <3>1, <3>2
    <3>3. CASE j \in 1 .. L - 1
      BY <1>0, <2>5, <2>10, <3>1, <3>3 DEF ApartBelow
    <3>4. QED
      BY <2>7, <3>2, <3>3
  <2>11. QED
    BY <2>5, <2>6, <2>8, <2>10 DEF ApartBelow
<1>4. CASE u # <<>> /\ ~(c.at - Last(u).at > MIN_SEP) /\ ~(c.sc > Last(u).sc)
  <2>1. Suppressed(u, c) = u
    BY <1>4 DEF Suppressed
  <2>2. \A i \in 1 .. L : u[i].at < n + 1
    BY <1>1
  <2>3. QED
    BY <1>0, <2>1, <2>2 DEF ApartBelow
<1>5. QED
  BY <1>2, <1>3, <1>4

LEMMA SuppressFacts ==
  ASSUME NEW N \in Nat, N = NumSamples, NEW score \in [0 .. N - 1 -> Scores \cup {None}]
  PROVE  ApartBelow(Suppress(score), N)
<1>1. PICK Y, b, t :
        /\ Y = Seq(Candidate) /\ b = <<>>
        /\ t = [p \in (1 .. N) \X Y |->
                  IF score[p[1] - 1] = None THEN p[2]
                  ELSE Suppressed(p[2], [at |-> p[1] - 1, sc |-> score[p[1] - 1]])]
  OBVIOUS
<1>2. \A n \in 1 .. N : score[n - 1] # None =>
         [at |-> n - 1, sc |-> score[n - 1]] \in Candidate
  <2>1. ASSUME NEW n \in 1 .. N, score[n - 1] # None
        PROVE  [at |-> n - 1, sc |-> score[n - 1]] \in Candidate
    <3>1. n - 1 \in 0 .. N - 1 /\ n - 1 \in Nat
      OBVIOUS
    <3>2. score[n - 1] \in Scores
      BY <2>1, <3>1
    <3>3. QED
      BY <3>1, <3>2 DEF Candidate
  <2>2. QED
    BY <2>1
<1>3. b \in Y /\ t \in [(1 .. N) \X Y -> Y]
  <2>1. ASSUME NEW p \in (1 .. N) \X Y
        PROVE  (IF score[p[1] - 1] = None THEN p[2]
                ELSE Suppressed(p[2], [at |-> p[1] - 1, sc |-> score[p[1] - 1]])) \in Y
    <3>1. p[1] \in 1 .. N /\ p[2] \in Seq(Candidate)
      BY <1>1
    <3>2. QED
      BY <1>1, <1>2, <3>1, SuppressedType
  <2>2. QED
    BY <1>1, <2>1
<1>4. \A n \in 1 .. N, x \in Y :
        t[<<n, x>>] = IF score[n - 1] = None THEN x
                      ELSE Suppressed(x, [at |-> n - 1, sc |-> score[n - 1]])
  BY <1>1
<1>5. PICK f \in [0 .. N -> Y] : Runs(f, N, b, t)
  BY <1>3, RunExists
<1>6. f[0] = b /\ \A n \in 1 .. N :
        f[n] = IF score[n - 1] = None THEN f[n - 1]
               ELSE Suppressed(f[n - 1], [at |-> n - 1, sc |-> score[n - 1]])
  <2>1. ASSUME NEW n \in 1 .. N
        PROVE  f[n] = IF score[n - 1] = None THEN f[n - 1]
                      ELSE Suppressed(f[n - 1], [at |-> n - 1, sc |-> score[n - 1]])
    <3>1. f[n] = t[<<n, f[n - 1]>>] /\ f[n - 1] \in Y
      BY <1>5 DEF Runs
    <3>2. QED
      BY <1>4, <3>1
  <2>2. QED
    BY <1>5, <2>1 DEF Runs
<1>7. PICK F :
        /\ F = CHOOSE g :
                 g = [n \in 0 .. N |->
                        IF n = 0 THEN <<>>
                        ELSE IF score[n - 1] = None THEN g[n - 1]
                        ELSE Suppressed(g[n - 1], [at |-> n - 1, sc |-> score[n - 1]])]
        /\ Suppress(score) = F[N]
  BY DEF Suppress
<1>8. F = [n \in 0 .. N |->
             IF n = 0 THEN <<>>
             ELSE IF score[n - 1] = None THEN F[n - 1]
             ELSE Suppressed(F[n - 1], [at |-> n - 1, sc |-> score[n - 1]])]
  <2>1. \A n \in 0 .. N : n = 0 \/ (n \in 1 .. N /\ n # 0)
    OBVIOUS
  <2>2. \A n \in 0 .. N : f[n] = IF n = 0 THEN <<>>
           ELSE IF score[n - 1] = None THEN f[n - 1]
           ELSE Suppressed(f[n - 1], [at |-> n - 1, sc |-> score[n - 1]])
    BY <1>1, <1>6, <2>1, Zenon
  <2>3. f = [n \in 0 .. N |-> IF n = 0 THEN <<>>
               ELSE IF score[n - 1] = None THEN f[n - 1]
               ELSE Suppressed(f[n - 1], [at |-> n - 1, sc |-> score[n - 1]])]
    BY <2>2
  <2>4. QED
    BY <1>7, <2>3
<1>9. Tracks(F, f, N, Y, b, t)
  <2>1. F[0] = b
    BY <1>1, <1>8
  <2>2. \A n \in 1 .. N : n \in 0 .. N /\ n # 0
    OBVIOUS
  <2>3. \A n \in 1 .. N :
          F[n] = IF score[n - 1] = None THEN F[n - 1]
                 ELSE Suppressed(F[n - 1], [at |-> n - 1, sc |-> score[n - 1]])
    BY <1>8, <2>2, Zenon
  <2>4. \A n \in 1 .. N : F[n - 1] \in Y => F[n] = t[<<n, F[n - 1]>>]
    BY <1>4, <2>3, Zenon
  <2>5. QED
    BY <1>3, <1>5, <2>1, <2>4 DEF Tracks
<1>10. F[N] = f[N]
  BY <1>9, RunUnique
<1> DEFINE P == {n \in Nat : n <= N => ApartBelow(f[n], n)}
<1>11. 0 \in P
  BY <1>1, <1>6 DEF ApartBelow
<1>12. ASSUME NEW n \in 1 .. N, n - 1 \in P PROVE n \in P
  <2>1. PICK m \in Nat : m = n - 1 /\ n = m + 1
    OBVIOUS
  <2>2. PICK u : u = f[m]
    OBVIOUS
  <2>3. ApartBelow(u, m)
    BY <1>12, <2>1, <2>2
  <2>4. CASE score[m] = None
    <3>1. f[n] = u
      BY <1>6, <2>1, <2>2, <2>4
    <3>2. ApartBelow(u, n)
      <4>1. \A i \in 1 .. Len(u) : u[i].at < n
        <5>1. \A i \in 1 .. Len(u) : u[i] \in Candidate
          BY <2>3 DEF ApartBelow
        <5>2. \A i \in 1 .. Len(u) : u[i].at \in Nat /\ u[i].at < m
          BY <2>3, <5>1 DEF ApartBelow, Candidate
        <5>3. QED
          BY <2>1, <5>2
      <4>2. QED
        BY <2>3, <4>1 DEF ApartBelow
    <3>3. QED
      BY <3>1, <3>2
  <2>5. CASE score[m] # None
    <3>1. PICK c \in Candidate : c = [at |-> m, sc |-> score[m]]
      BY <1>2, <2>1, <2>5
    <3>2. f[n] = Suppressed(u, c)
      BY <1>6, <2>1, <2>2, <2>5, <3>1
    <3>3. ApartBelow(Suppressed(u, c), n)
      BY <2>1, <2>3, <3>1, SuppressedApart
    <3>4. QED
      BY <3>2, <3>3
  <2>6. QED
    BY <2>4, <2>5
<1> HIDE DEF P
<1>13. \A n \in 0 .. N : n \in P
  BY <1>11, <1>12, Upwards
<1>14. QED
  BY <1>7, <1>10, <1>13 DEF P

-----------------------------------------------------------------------------
(* The result of a window.                                                 *)

ResultType == [any : MaybeHyp, crc : MaybeHyp, both_hit : BOOLEAN,
               crc_ok : BOOLEAN, inst : SUBSET Flags]

LEMMA MergeType ==
  ASSUME NEW r \in ResultType, NEW d \in DecodeState
  PROVE  MergeChannel(r, d) \in ResultType
<1>1. /\ r.any \in MaybeHyp /\ r.crc \in MaybeHyp /\ d.any \in MaybeHyp
      /\ d.crc \in MaybeHyp /\ d.both_hit \in BOOLEAN /\ r.both_hit \in BOOLEAN
      /\ r.crc_ok \in BOOLEAN /\ r.inst \in SUBSET Flags /\ d.inst \in SUBSET Flags
  BY DEF ResultType, DecodeState, FlagNames, Flags
<1>2. Winner(d.any, r.any) \in MaybeHyp /\ Winner(d.crc, r.crc) \in MaybeHyp
  BY <1>1 DEF Winner
<1>3. (r.both_hit \/ d.both_hit) \in BOOLEAN /\ (r.crc_ok \/ d.crc # NoHyp) \in BOOLEAN
  BY <1>1
<1>4. r.inst \cup d.inst \in SUBSET Flags
  BY <1>1
<1>5. QED
  BY <1>2, <1>3, <1>4 DEF MergeChannel, ResultType

LEMMA WindowResultType ==
  ASSUME NEW b, b.decodes \in Seq(DecodeState)
  PROVE  WindowResult(b) \in ResultType
<1>0. PICK N \in Nat : N = Len(b.decodes)
  OBVIOUS
<1>1. PICK s, Y, z, t :
        /\ s = b.decodes /\ Y = ResultType /\ z = Nothing
        /\ t = [p \in (1 .. N) \X Y |-> MergeChannel(p[2], s[p[1]])]
  OBVIOUS
<1>2. \A n \in 1 .. N : s[n] \in DecodeState
  BY <1>0, <1>1
<1>3. z \in Y /\ t \in [(1 .. N) \X Y -> Y]
  <2>1. z \in Y
    BY <1>1 DEF Nothing, ResultType, MaybeHyp
  <2>2. ASSUME NEW p \in (1 .. N) \X Y PROVE MergeChannel(p[2], s[p[1]]) \in Y
    BY <1>1, <1>2, MergeType
  <2>3. QED
    BY <1>1, <2>1, <2>2
<1>4. \A n \in 1 .. N, x \in Y : t[<<n, x>>] = MergeChannel(x, s[n])
  BY <1>1
<1>5. PICK f \in [0 .. N -> Y] : Runs(f, N, z, t)
  BY <1>3, RunExists
<1>6. f[0] = z /\ \A n \in 1 .. N : f[n] = MergeChannel(f[n - 1], s[n])
  <2>1. ASSUME NEW n \in 1 .. N PROVE f[n] = MergeChannel(f[n - 1], s[n])
    <3>1. f[n] = t[<<n, f[n - 1]>>] /\ f[n - 1] \in Y
      BY <1>5 DEF Runs
    <3>2. QED
      BY <1>4, <3>1
  <2>2. QED
    BY <1>5, <2>1 DEF Runs
<1>7. PICK F :
        /\ F = CHOOSE g :
                 g = [n \in 0 .. Len(b.decodes) |->
                        IF n = 0 THEN Nothing
                        ELSE MergeChannel(g[n - 1], b.decodes[n])]
        /\ WindowResult(b) =
             LET acc == F[Len(b.decodes)]
                 tag == acc.any # NoHyp /\ acc.any.tag
             IN  [acc EXCEPT !.inst = IF tag THEN @ \cup {"is_tag"} ELSE @]
  BY DEF WindowResult
<1>8. F = [n \in 0 .. N |->
             IF n = 0 THEN Nothing ELSE MergeChannel(F[n - 1], s[n])]
  <2>1. \A n \in 0 .. N : n = 0 \/ (n \in 1 .. N /\ n # 0)
    OBVIOUS
  <2>2. \A n \in 0 .. N :
          f[n] = IF n = 0 THEN Nothing ELSE MergeChannel(f[n - 1], s[n])
    BY <1>1, <1>6, <2>1, Zenon
  <2>3. f = [n \in 0 .. N |->
               IF n = 0 THEN Nothing ELSE MergeChannel(f[n - 1], s[n])]
    BY <2>2
  <2>4. F = CHOOSE g :
              g = [n \in 0 .. N |->
                     IF n = 0 THEN Nothing ELSE MergeChannel(g[n - 1], s[n])]
    BY <1>0, <1>1, <1>7
  <2>5. QED
    BY <2>3, <2>4
<1>9. Tracks(F, f, N, Y, z, t)
  <2>1. F[0] = z
    BY <1>1, <1>8
  <2>2. \A n \in 1 .. N : n \in 0 .. N /\ n # 0
    OBVIOUS
  <2>3. \A n \in 1 .. N : F[n] = MergeChannel(F[n - 1], s[n])
    BY <1>8, <2>2, Zenon
  <2>4. \A n \in 1 .. N : F[n - 1] \in Y => F[n] = t[<<n, F[n - 1]>>]
    BY <1>4, <2>3, Zenon
  <2>5. QED
    BY <1>3, <1>5, <2>1, <2>4 DEF Tracks
<1>10. F[N] \in ResultType
  BY <1>1, <1>9, RunUnique
<1>11. QED
  <2>1. F[N].inst \in SUBSET Flags
    BY <1>10 DEF ResultType
  <2>2. (F[N].inst \cup {"is_tag"}) \in SUBSET Flags
    BY <2>1 DEF Flags
  <2>3. QED
    BY <1>0, <1>7, <1>10, <2>1, <2>2 DEF ResultType

-----------------------------------------------------------------------------
(* The rows of a capture are in the order of their offsets: sorting them   *)
(* changes nothing, and the index has a time for every row.                *)

LEMMA StrictIdentity ==
  ASSUME NEW n \in Nat, NEW p \in [1 .. n -> 1 .. n],
         \A i, j \in 1 .. n : i < j => p[i] < p[j]
  PROVE  \A i \in 1 .. n : p[i] = i
<1>0. \A i \in 1 .. n : p[i] \in 1 .. n /\ p[i] \in Int
  OBVIOUS
<1> DEFINE P == {m \in Nat : \A i \in 1 .. n : i <= m => p[i] >= i}
           Q == {m \in Nat : \A i \in 1 .. n : i > n - m => p[i] <= i}
<1>1. 0 \in P /\ 0 \in Q
  OBVIOUS
<1>2. ASSUME NEW m \in 1 .. n, m - 1 \in P PROVE m \in P
  <2>1. p[m] >= m
    <3>1. CASE m = 1
      BY <1>0, <3>1
    <3>2. CASE m # 1
      <4>1. m - 1 \in 1 .. n /\ m - 1 < m
        BY <3>2
      <4>2. p[m - 1] >= m - 1 /\ p[m - 1] < p[m]
        BY <1>2, <4>1
      <4>3. QED
        BY <1>0, <4>1, <4>2
    <3>3. QED
      BY <3>1, <3>2
  <2>2. \A i \in 1 .. n : i <= m => i = m \/ i <= m - 1
    OBVIOUS
  <2>3. QED
    BY <1>2, <2>1, <2>2
<1>3. ASSUME NEW m \in 1 .. n, m - 1 \in Q PROVE m \in Q
  <2>1. PICK k \in 1 .. n : k = n - m + 1
    OBVIOUS
  <2>2. p[k] <= k
    <3>1. CASE k = n
      BY <1>0, <3>1
    <3>2. CASE k # n
      <4>1. k + 1 \in 1 .. n /\ k < k + 1 /\ k + 1 > n - (m - 1)
        BY <2>1, <3>2
      <4>2. p[k + 1] <= k + 1 /\ p[k] < p[k + 1]
        BY <1>3, <4>1
      <4>3. QED
        BY <1>0, <4>1, <4>2
    <3>3. QED
      BY <3>1, <3>2
  <2>3. \A i \in 1 .. n : i > n - m => i = k \/ i > n - (m - 1)
    BY <2>1
  <2>4. QED
    BY <1>3, <2>2, <2>3
<1> HIDE DEF P, Q
<1>4. \A m \in 0 .. n : m \in P
  BY <1>1, <1>2, Upwards
<1>5. \A m \in 0 .. n : m \in Q
  BY <1>1, <1>3, Upwards
<1>6. n \in P /\ n \in Q
  BY <1>4, <1>5
<1>7. QED
  BY <1>0, <1>6 DEF P, Q

InOrderOfOffset(rows) ==
  /\ \A i \in 1 .. Len(rows) : rows[i].off \in Int
  /\ \A i, j \in 1 .. Len(rows) : i < j => rows[i].off < rows[j].off

LEMMA ByOffsetSorted ==
  ASSUME NEW S, NEW rows \in Seq(S), InOrderOfOffset(rows)
  PROVE  ByOffset(rows) = rows
<1>1. PICK n \in Nat : n = Len(rows) /\ DOMAIN rows = 1 .. n
  OBVIOUS
<1> DEFINE rank == CHOOSE p \in [DOMAIN rows -> DOMAIN rows] :
                /\ \A i, j \in DOMAIN rows : p[i] = p[j] => i = j
                /\ \A i, j \in DOMAIN rows :
                     i < j => rows[p[i]].off <= rows[p[j]].off
<1>2. ByOffset(rows) = [i \in DOMAIN rows |-> rows[rank[i]]]
  BY DEF ByOffset
<1>3. \E p \in [DOMAIN rows -> DOMAIN rows] :
        /\ \A i, j \in DOMAIN rows : p[i] = p[j] => i = j
        /\ \A i, j \in DOMAIN rows : i < j => rows[p[i]].off <= rows[p[j]].off
  <2>1. PICK q : q = [i \in DOMAIN rows |-> i]
    OBVIOUS
  <2>2. \A i, j \in DOMAIN rows : i < j => rows[q[i]].off <= rows[q[j]].off
    BY <1>1, <2>1 DEF InOrderOfOffset
  <2>3. q \in [DOMAIN rows -> DOMAIN rows] /\ \A i, j \in DOMAIN rows : q[i] = q[j] => i = j
    BY <2>1
  <2>4. QED
    BY <2>2, <2>3
<1>4. /\ rank \in [DOMAIN rows -> DOMAIN rows]
      /\ \A i, j \in DOMAIN rows : rank[i] = rank[j] => i = j
      /\ \A i, j \in DOMAIN rows : i < j => rows[rank[i]].off <= rows[rank[j]].off
  BY <1>3, Zenon
<1> HIDE DEF rank
<1>5. PICK p \in [1 .. n -> 1 .. n] :
        /\ p = rank
        /\ \A i, j \in 1 .. n : p[i] = p[j] => i = j
        /\ \A i, j \in 1 .. n : i < j => rows[p[i]].off <= rows[p[j]].off
  BY <1>1, <1>4, Zenon
<1>6. ASSUME NEW i \in 1 .. n, NEW j \in 1 .. n, i < j PROVE p[i] < p[j]
  <2>1. p[i] \in 1 .. n /\ p[j] \in 1 .. n /\ p[i] # p[j]
    BY <1>5, <1>6
  <2>2. ~ (p[j] < p[i])
    <3>1. PICK x \in 1 .. n, y \in 1 .. n : x = p[i] /\ y = p[j]
      BY <2>1
    <3>2. rows[x].off <= rows[y].off
      BY <1>5, <1>6, <3>1, Zenon
    <3>3. PICK u \in Int, v \in Int : u = rows[x].off /\ v = rows[y].off
      BY <1>1 DEF InOrderOfOffset
    <3>4. ~ (y < x)
      <4>1. y < x => v < u
        BY <1>1, <3>3 DEF InOrderOfOffset
      <4>2. u <= v
        BY <3>2, <3>3
      <4>3. QED
        BY <4>1, <4>2
    <3>5. QED
      BY <3>1, <3>4
  <2>3. QED
    BY <2>1, <2>2
<1>7. \A i \in 1 .. n : p[i] = i
  BY <1>5, <1>6, StrictIdentity
<1>8. ByOffset(rows) = [i \in 1 .. n |-> rows[i]]
  BY <1>1, <1>2, <1>5, <1>7
<1>9. QED
  BY <1>1, <1>8

LEMMA SublistInOrder ==
  ASSUME NEW S, NEW rows \in Seq(S), InOrderOfOffset(rows), NEW T
  PROVE  InOrderOfOffset(Sublist(rows, T))
<1>1. PICK u \in Seq(S) :
        u = Sublist(rows, T) /\ \E e : DrawnBy(e, u, rows, T, Len(rows))
  BY SublistFacts
<1>2. PICK e : DrawnBy(e, u, rows, T, Len(rows))
  BY <1>1
<1>3. \A i \in 1 .. Len(u) : e[i] \in 1 .. Len(rows) /\ u[i] = rows[e[i]]
  BY <1>2 DEF DrawnBy
<1>4. \A i, j \in 1 .. Len(u) : i < j => e[i] < e[j]
  BY <1>2 DEF DrawnBy
<1>5. QED
  BY <1>1, <1>3, <1>4 DEF InOrderOfOffset

CsvRow == [kind : {"legacy", "mobile"}, off : Nat, size : Nat, epoch : Nat]

Dated(index) ==
  /\ Len(index) \in Nat /\ DOMAIN index = 1 .. Len(index)
  /\ \A i \in 1 .. Len(index) : index[i].off \in Nat /\ index[i].epoch \in Nat

LEMMA CsvDated == \A s \in Seq(CsvRow) : Dated(s)
<1>1. ASSUME NEW s \in Seq(CsvRow) PROVE Dated(s)
  <2>1. \A i \in 1 .. Len(s) : s[i] \in CsvRow
    OBVIOUS
  <2>2. QED
    BY <2>1 DEF Dated, CsvRow
<1>2. QED
  BY <1>1

LEMMA DerivedDated ==
  ASSUME NEW rows \in Seq(CsvRow), InOrderOfOffset(rows)
  PROVE  Dated(Derived(rows))
<1>1. PICK n \in Nat : n = Len(rows)
  OBVIOUS
<1>2. ByOffset(rows) = rows
  BY ByOffsetSorted
<1>3. PICK size, T : Derived(rows) =
        Sublist([i \in 1 .. n |-> [rows[i] EXCEPT !.size = size[i]]], T)
  BY <1>1, <1>2, Zenon DEF Derived, Those
<1>4. PICK s : s = [i \in 1 .. n |-> [rows[i] EXCEPT !.size = size[i]]]
  OBVIOUS
<1>5. PICK S : S = {s[i] : i \in 1 .. n}
  OBVIOUS
<1>6. s \in Seq(S) /\ Len(s) = n
  BY <1>4, <1>5
<1>7. \A i \in 1 .. n : s[i].off \in Nat /\ s[i].epoch \in Nat
  <2>1. \A i \in 1 .. n : rows[i] \in CsvRow
    BY <1>1
  <2>2. QED
    BY <1>4, <2>1 DEF CsvRow
<1>8. PICK u \in Seq(S) :
        u = Sublist(s, T) /\ \E e : DrawnBy(e, u, s, T, Len(s))
  BY <1>6, SublistFacts
<1>9. PICK e : DrawnBy(e, u, s, T, Len(s))
  BY <1>8
<1>10. \A i \in 1 .. Len(u) : u[i].off \in Nat /\ u[i].epoch \in Nat
  BY <1>6, <1>7, <1>9 DEF DrawnBy
<1>11. Dated(u)
  BY <1>10 DEF Dated
<1>12. QED
  BY <1>3, <1>4, <1>8, <1>11

LEMMA IndexDated ==
  ASSUME NEW rows \in Seq(CsvRow), InOrderOfOffset(rows)
  PROVE  Dated(ChunkIndex(rows))
<1>1. PICK l \in Seq(CsvRow) : l = Those(rows, Legacy)
  BY SublistFacts DEF Those
<1>2. PICK m \in Seq(CsvRow) : m = Those(rows, Mobile)
  BY SublistFacts DEF Those
<1>3. InOrderOfOffset(l) /\ InOrderOfOffset(m)
  BY <1>1, <1>2, SublistInOrder DEF Those
<1>4. CASE l # <<>>
  <2>1. ChunkIndex(rows) = l
    BY <1>1, <1>3, <1>4, ByOffsetSorted DEF ChunkIndex
  <2>2. QED
    BY <2>1, CsvDated
<1>5. CASE l = <<>>
  <2>1. ChunkIndex(rows) = Derived(m)
    BY <1>1, <1>2, <1>5 DEF ChunkIndex
  <2>2. QED
    BY <1>3, <2>1, DerivedDated
<1>6. QED
  BY <1>4, <1>5

LEMMA RowAtRange ==
  ASSUME NEW index, Dated(index), NEW byte \in Nat
  PROVE  RowAt(index, byte) \in 0 .. Len(index)
<1>1. PICK n \in Nat : n = Len(index)
  BY DEF Dated
<1>2. IsFiniteSet(1 .. n) /\ Cardinality(1 .. n) = n
  <2>1. 1 \in Int /\ n \in Int /\ (1 > n => n = 0)
    OBVIOUS
  <2>2. QED
    BY <2>1, FS_Interval
<1>3. PICK R : R = {i \in 1 .. n : index[i].off <= byte} /\ RowAt(index, byte) = Cardinality(R)
  BY <1>1 DEF RowAt, Dated
<1>4. IsFiniteSet(R) /\ Cardinality(R) <= n
  BY <1>2, <1>3, FS_Subset
<1>5. Cardinality(R) \in Nat
  BY <1>4, FS_CardinalityType
<1>6. QED
  BY <1>1, <1>3, <1>4, <1>5

LEMMA ByteTimeType ==
  ASSUME NEW index, Dated(index), NEW byte \in Nat, NEW z \in BOOLEAN
  PROVE  ByteTime(index, byte, z) \in Int \cup {NaN}
<1>1. PICK i \in 0 .. Len(index) : i = RowAt(index, byte)
  BY RowAtRange
<1>2. CASE i = 0 \/ byte >= index[i].off + index[i].size
  BY <1>1, <1>2 DEF ByteTime
<1>3. CASE ~ (i = 0 \/ byte >= index[i].off + index[i].size)
  <2>1. i \in 1 .. Len(index) /\ 1 \in 1 .. Len(index)
    BY <1>3 DEF Dated
  <2>2. index[i].epoch \in Nat /\ index[i].off \in Nat /\ index[1].epoch \in Nat
    BY <2>1 DEF Dated
  <2>3. PICK a \in Int, b \in Int, c \in Int :
          a = index[i].epoch /\ b = index[i].off /\ c = IF z THEN index[1].epoch ELSE 0
    BY <2>2
  <2>4. ByteTime(index, byte, z) = a + (byte - b) - c
    BY <1>1, <1>3, <2>3, Zenon DEF ByteTime
  <2>5. QED
    <3>1. a + (byte - b) - c \in Int
      OBVIOUS
    <3>2. QED
      BY <2>4, <3>1
<1>4. QED
  BY <1>2, <1>3

LEMMA RowTyped ==
  ASSUME csv \in Seq(CsvRow), InOrderOfOffset(csv), NEW p \in PacketType
  PROVE  Row(p) \in RowType
<1>1. p.at \in Nat /\ p.AdvA \in Digests /\ p.crc \in BOOLEAN /\ p.at * BPS \in Nat
  BY ClockAssumption DEF PacketType
<1>2. PICK x \in Int \cup {NaN} : x = SampleTime(ChunkIndex(csv), p.at)
  BY <1>1, IndexDated, ByteTimeType DEF SampleTime
<1>3. PICK y \in Int \cup {NaN} : y = MobileTime(ChunkIndex(csv), p.at)
  BY <1>1, IndexDated, ByteTimeType DEF MobileTime
<1>4. PICK t \in Int : t = IF x = NaN THEN p.at * BPS ELSE x
  BY <1>1
<1>5. Row(p) = [AdvA |-> p.AdvA, at |-> p.at, crc |-> p.crc, timestamp |-> t, mobile |-> y]
  BY <1>2, <1>3, <1>4 DEF Row
<1>6. QED
  BY <1>1, <1>5 DEF RowType

-----------------------------------------------------------------------------
(* The capture: reads tile the stream, and are dated after their bytes.    *)

LEMMA DivFacts ==
  ASSUME NEW a \in Nat, NEW b \in Nat, b > 0
  PROVE  a \div b \in Nat /\ (a \div b) * b <= a /\ (a % b = 0 => (a \div b) * b = a)
<1>1. PICK q \in Int : q = a \div b
  OBVIOUS
<1>2. PICK r \in Int : r = a % b
  OBVIOUS
<1>3. a = b * q + r /\ 0 <= r /\ r < b
  BY <1>1, <1>2
<1>4. q >= 0
  BY <1>1
<1>5. b * q = q * b
  OBVIOUS
<1>6. QED
  BY <1>1, <1>2, <1>3, <1>4, <1>5

LEMMA SampleFacts ==
  ASSUME total \in Nat
  PROVE  /\ NumSamples \in Nat
         /\ \A n \in Nat : n < NumSamples => n * BPS < total
<1>1. PICK u \in Nat, v \in Nat : /\ u = total \div SPI_CHUNK /\ v = SPI_CHUNK \div BPS
                                  /\ u * SPI_CHUNK <= total /\ v * BPS = SPI_CHUNK
  BY DivFacts, PoolAssumption, ClockAssumption
<1>2. PICK m \in Nat : m = u * v /\ m = NumSamples
  BY <1>1 DEF NumSamples
<1>3. m * BPS <= total
  <2>1. BPS \in Nat /\ (u * v) * BPS = u * (v * BPS)
    BY ClockAssumption
  <2>2. QED
    BY <1>1, <1>2, <2>1
<1>4. ASSUME NEW n \in Nat, n < m PROVE n * BPS < total
  <2>1. BPS \in Nat /\ BPS > 0
    BY ClockAssumption
  <2>2. n * BPS < m * BPS
    BY <1>4, <2>1
  <2>3. QED
    BY <1>3, <2>1, <2>2
<1>5. QED
  BY <1>2, <1>4

\* Where the read of row i ended.
Until(i) == IF i < Len(csv) THEN csv[i + 1].off ELSE total

Tiled ==
  /\ csv = <<>> => total = 0
  /\ csv # <<>> => csv[1].off = 0
  /\ \A i \in 1 .. Len(csv) :
       /\ csv[i].kind = opts.kind
       /\ csv[i].off < Until(i) /\ Until(i) <= csv[i].off + BUFFER
       /\ Until(i) <= csv[i].epoch /\ csv[i].epoch <= now
       /\ opts.kind = "legacy" => csv[i].size = Until(i) - csv[i].off
       /\ \A j \in 1 .. i : csv[j].epoch <= csv[i].epoch

CaptureInv ==
  /\ opts \in Options /\ total \in Nat /\ now \in Nat
  /\ csv \in Seq(CsvRow) /\ InOrderOfOffset(csv)
  /\ Tiled

LEMMA ReadChunkKeeps ==
  ASSUME CaptureInv, ReadChunk
  PROVE  CaptureInv'
<1>1. PICK n \in ReadSizes, t \in ReadTimes :
        /\ now <= t /\ total + n <= t
        /\ now' = t /\ total' = total + n
        /\ csv' = Append(csv, [kind |-> opts.kind, off |-> total,
                               size |-> IF opts.kind = "legacy" THEN n ELSE 0,
                               epoch |-> t])
  BY DEF ReadChunk
<1>2. n \in Nat /\ n > 0 /\ n <= BUFFER /\ t \in Nat /\ BUFFER \in Nat
  BY PoolAssumption
<1>3. opts' = opts /\ opts.kind \in {"legacy", "mobile"}
  BY PoolAssumption DEF ReadChunk, CaptureInv
<1>4. PICK r \in CsvRow :
        /\ r = [kind |-> opts.kind, off |-> total,
                size |-> IF opts.kind = "legacy" THEN n ELSE 0, epoch |-> t]
        /\ r.kind = opts.kind /\ r.off = total /\ r.epoch = t
        /\ opts.kind = "legacy" => r.size = n
  <2>1. PICK z \in Nat : z = IF opts.kind = "legacy" THEN n ELSE 0
    BY <1>2
  <2>2. total \in Nat
    BY DEF CaptureInv
  <2>3. [kind |-> opts.kind, off |-> total, size |-> z, epoch |-> t] \in CsvRow
    BY <1>2, <1>3, <2>2 DEF CsvRow
  <2>4. QED
    BY <2>1, <2>3
<1>5. PICK L \in Nat : L = Len(csv)
  BY DEF CaptureInv
<1>6. PICK s \in Seq(CsvRow) : s = csv' /\ s = Append(csv, r)
  <2>1. csv \in Seq(CsvRow) /\ Append(csv, r) \in Seq(CsvRow)
    BY DEF CaptureInv
  <2>2. QED
    BY <1>1, <1>4, <2>1
<1>7. Len(s) = L + 1 /\ s[L + 1] = r /\ \A i \in 1 .. L : s[i] = csv[i]
  BY <1>5, <1>6 DEF CaptureInv
<1>8. /\ \A i \in 1 .. L : csv[i].off \in Nat /\ csv[i].epoch \in Nat
      /\ \A i \in 1 .. L : Until(i) \in Nat /\ csv[i].off < total
      /\ total \in Nat
  <2>1. \A i \in 1 .. L : csv[i] \in CsvRow
    BY <1>5 DEF CaptureInv
  <2>2. \A i \in 1 .. L : csv[i].off \in Nat /\ csv[i].epoch \in Nat
    BY <2>1 DEF CsvRow
  <2>3. \A i \in 1 .. L : Until(i) \in Nat
    <3>1. \A i \in 1 .. L : i < L => i + 1 \in 1 .. L
      OBVIOUS
    <3>2. QED
      BY <1>5, <2>2, <3>1 DEF Until, CaptureInv
  <2>4. ASSUME NEW i \in 1 .. L PROVE csv[i].off < total
    <3>1. L \in 1 .. L /\ (i < L => csv[i].off < csv[L].off)
      BY <1>5 DEF CaptureInv, InOrderOfOffset
    <3>2. csv[L].off < total
      BY <1>5, <3>1 DEF CaptureInv, Tiled, Until
    <3>3. csv[i].off \in Nat /\ csv[L].off \in Nat /\ total \in Nat /\ (i = L \/ i < L)
      BY <2>2, <3>1 DEF CaptureInv
    <3>4. QED
      BY <3>1, <3>2, <3>3
  <2>5. QED
    BY <2>2, <2>3, <2>4 DEF CaptureInv
<1>9. \A i \in 1 .. L + 1 : i = L + 1 \/ i \in 1 .. L
  OBVIOUS
<1>10. InOrderOfOffset(s)
  <2>1. \A i \in 1 .. L + 1 : s[i].off \in Int
    BY <1>4, <1>7, <1>8, <1>9
  <2>2. ASSUME NEW i \in 1 .. L + 1, NEW j \in 1 .. L + 1, i < j
        PROVE  s[i].off < s[j].off
    <3>1. i \in 1 .. L
      BY <2>2
    <3>2. CASE j = L + 1
      BY <1>4, <1>7, <1>8, <3>1, <3>2
    <3>3. CASE j \in 1 .. L
      BY <1>5, <1>7, <2>2, <3>1, <3>3 DEF CaptureInv, InOrderOfOffset
    <3>4. QED
      BY <1>9, <3>2, <3>3
  <2>3. QED
    BY <1>7, <2>1, <2>2 DEF InOrderOfOffset
<1>11. total' = total + n /\ now' = t
  BY <1>1
<1>12. \A i \in 1 .. L : Until(i)' = Until(i)
  <2>1. ASSUME NEW i \in 1 .. L, i < L PROVE Until(i)' = Until(i)
    <3>1. i + 1 \in 1 .. L /\ i < L + 1
      BY <2>1
    <3>2. QED
      BY <1>5, <1>6, <1>7, <2>1, <3>1 DEF Until
  <2>2. ASSUME NEW i \in 1 .. L, i = L PROVE Until(i)' = Until(i)
    BY <1>4, <1>5, <1>6, <1>7, <2>2 DEF Until
  <2>3. QED
    BY <2>1, <2>2
<1>13. Until(L + 1)' = total + n
  BY <1>6, <1>7, <1>11 DEF Until
<1>14. Tiled'
  <2>1. csv' # <<>>
    BY <1>6, <1>7
  <2>2. csv'[1].off = 0
    <3>1. CASE csv = <<>>
      <4>1. L = 0 /\ total = 0
        BY <1>5, <3>1 DEF CaptureInv, Tiled
      <4>2. QED
        BY <1>4, <1>6, <1>7, <4>1
    <3>2. CASE csv # <<>>
      <4>1. 1 \in 1 .. L
        BY <1>5, <3>2, EmptySeq DEF CaptureInv
      <4>2. QED
        BY <1>6, <1>7, <3>2, <4>1 DEF CaptureInv, Tiled
    <3>3. QED
      BY <3>1, <3>2
  <2>3. ASSUME NEW i \in 1 .. L
        PROVE  /\ s[i].kind = opts.kind
               /\ s[i].off < Until(i)' /\ Until(i)' <= s[i].off + BUFFER
               /\ Until(i)' <= s[i].epoch /\ s[i].epoch <= t
               /\ opts.kind = "legacy" => s[i].size = Until(i)' - s[i].off
               /\ \A j \in 1 .. i : s[j].epoch <= s[i].epoch
    <3>1. s[i] = csv[i] /\ Until(i)' = Until(i) /\ \A j \in 1 .. i : s[j] = csv[j]
      BY <1>7, <1>12
    <3>2. /\ csv[i].kind = opts.kind
          /\ csv[i].off < Until(i) /\ Until(i) <= csv[i].off + BUFFER
          /\ Until(i) <= csv[i].epoch /\ csv[i].epoch <= now
          /\ opts.kind = "legacy" => csv[i].size = Until(i) - csv[i].off
          /\ \A j \in 1 .. i : csv[j].epoch <= csv[i].epoch
      BY <1>5 DEF CaptureInv, Tiled
    <3>3. csv[i].epoch <= t
      <4>1. PICK x \in Nat, y \in Nat : x = csv[i].epoch /\ y = now
        BY <1>8 DEF CaptureInv
      <4>2. x <= y
        BY <3>2, <4>1
      <4>3. y <= t
        BY <1>1, <4>1
      <4>4. x <= t
        BY <1>2, <4>2, <4>3
      <4>5. QED
        BY <4>1, <4>4
    <3>4. QED
      BY <3>1, <3>2, <3>3
  <2>4. /\ r.kind = opts.kind
        /\ r.off < total + n /\ total + n <= r.off + BUFFER
        /\ total + n <= r.epoch /\ r.epoch <= t
        /\ opts.kind = "legacy" => r.size = (total + n) - r.off
        /\ \A j \in 1 .. L + 1 : s[j].epoch <= r.epoch
    <3>1. /\ r.off < total + n /\ total + n <= r.off + BUFFER
          /\ total + n <= r.epoch /\ r.epoch <= t
          /\ n = (total + n) - r.off
      BY <1>1, <1>2, <1>4, <1>8
    <3>2. ASSUME NEW j \in 1 .. L + 1 PROVE s[j].epoch <= r.epoch
      <4>1. CASE j \in 1 .. L
        BY <1>4, <1>7, <2>3, <4>1
      <4>2. CASE j = L + 1
        BY <1>2, <1>4, <1>7, <4>2
      <4>3. QED
        BY <1>9, <4>1, <4>2
    <3>3. QED
      BY <1>4, <3>1, <3>2
  <2>5. \A i \in 1 .. Len(csv') :
          /\ csv'[i].kind = opts'.kind
          /\ csv'[i].off < Until(i)' /\ Until(i)' <= csv'[i].off + BUFFER
          /\ Until(i)' <= csv'[i].epoch /\ csv'[i].epoch <= now'
          /\ opts'.kind = "legacy" => csv'[i].size = Until(i)' - csv'[i].off
          /\ \A j \in 1 .. i : csv'[j].epoch <= csv'[i].epoch
    <3>1. ASSUME NEW i \in 1 .. L + 1
          PROVE  /\ s[i].kind = opts.kind
                 /\ s[i].off < Until(i)' /\ Until(i)' <= s[i].off + BUFFER
                 /\ Until(i)' <= s[i].epoch /\ s[i].epoch <= t
                 /\ opts.kind = "legacy" => s[i].size = Until(i)' - s[i].off
                 /\ \A j \in 1 .. i : s[j].epoch <= s[i].epoch
      <4>1. CASE i \in 1 .. L
        BY <2>3, <4>1
      <4>2. CASE i = L + 1
        <5>1. PICK y : y = Until(i)'
          OBVIOUS
        <5>2. s[i] = r /\ y = total + n /\ \A j \in 1 .. i : j \in 1 .. L + 1
          BY <1>7, <1>13, <4>2, <5>1
        <5>3. /\ r.kind = opts.kind
              /\ r.off < y /\ y <= r.off + BUFFER
              /\ y <= r.epoch /\ r.epoch <= t
              /\ opts.kind = "legacy" => r.size = y - r.off
              /\ \A j \in 1 .. i : s[j].epoch <= r.epoch
          <6>1. r.off < y /\ y <= r.off + BUFFER /\ y <= r.epoch
            BY <2>4, <5>2
          <6>2. opts.kind = "legacy" => r.size = y - r.off
            BY <2>4, <5>2, Zenon
          <6>3. \A j \in 1 .. i : s[j].epoch <= r.epoch
            BY <2>4, <5>2, Zenon
          <6>4. QED
            BY <2>4, <6>1, <6>2, <6>3
        <5>4. QED
          BY <5>1, <5>2, <5>3, Zenon
      <4>3. QED
        BY <1>9, <4>1, <4>2
    <3>2. QED
      BY <1>3, <1>6, <1>7, <1>11, <3>1
  <2>6. QED
    BY <2>1, <2>2, <2>5 DEF Tiled
<1>15. QED
  BY <1>2, <1>3, <1>6, <1>8, <1>10, <1>11, <1>14 DEF CaptureInv

LEMMA CaptureKept ==
  ASSUME CaptureInv, UNCHANGED <<opts, now, total, csv>>
  PROVE  CaptureInv'
BY DEF CaptureInv, Tiled, Until

LEMMA AlwaysCaptured == DecodeSpec => []CaptureInv
<1>1. DecodeInit => CaptureInv
  BY DEF DecodeInit, CaptureInv, Tiled, InOrderOfOffset
<1>2. CaptureInv /\ [DecodeNext]_decodeVars => CaptureInv'
  <2>1. SUFFICES ASSUME CaptureInv, [DecodeNext]_decodeVars PROVE CaptureInv'
    OBVIOUS
  <2>2. CASE ReadChunk
    BY <2>1, <2>2, ReadChunkKeeps
  <2>3. CASE UNCHANGED <<opts, now, total, csv>>
    BY <2>1, <2>3, CaptureKept
  <2>4. QED
    BY <2>1, <2>2, <2>3
       DEF DecodeNext, decodeVars, capture, Interrupt, Scan, Take, DecodeWindow, Finish
<1>3. QED
  BY <1>1, <1>2, PTL DEF DecodeSpec

-----------------------------------------------------------------------------
(* The pool: what a task returns does not depend on the process, and stays *)
(* what it is while the others finish.                                     *)

Macs == {adv.mac : adv \in Adverts} \cup {None}

OutType ==
  [idx : Nat, both_hit : BOOLEAN, crc_ok : BOOLEAN, tag_any : BOOLEAN,
   kept : BOOLEAN, pkt : PacketType \cup {None}, cfo_row : RowType \cup {None},
   tag_adva : Macs, inst : SUBSET Flags]

IsBurst(b) == b.adv \in Adverts /\ b.decodes \in Seq(DecodeState)

Position(w) == w \in 1 .. Len(windows) /\ windows[w] \in Nat

LEMMA ChosenType ==
  ASSUME NEW b, IsBurst(b)
  PROVE  Chosen(b) \in MaybeHyp
BY WindowResultType DEF Chosen, ResultType, IsBurst

LEMMA PacketTyped ==
  ASSUME NEW b, IsBurst(b), NEW w, Position(w), Chosen(b) # NoHyp
  PROVE  ReportedPacket(w, b, Key[Parent]) \in PacketType
<1>1. PICK h \in Hypothesis : h = Chosen(b)
  BY ChosenType DEF MaybeHyp
<1>2. h.crc \in BOOLEAN /\ h.tag \in BOOLEAN
  BY DEF Hypothesis
<1>3. PICK d \in Digests : d = Hide(MaskedMac(b.adv), Key[Parent])
  BY DEF Digests, IsBurst
<1>4. windows[w] \in Nat
  BY DEF Position
<1>5. ReportedPacket(w, b, Key[Parent]) =
        [at |-> windows[w], crc |-> h.crc, tag |-> h.tag, AdvA |-> d]
  BY <1>1, <1>3 DEF ReportedPacket
<1>6. QED
  BY <1>2, <1>4, <1>5 DEF PacketType

LEMMA TaskOutFacts ==
  ASSUME CaptureInv, NEW b, IsBurst(b), NEW w, Position(w), NEW k
  PROVE  /\ TaskOut(w, b, k) = TaskOut(w, b, Parent)
         /\ TaskOut(w, b, k) \in OutType /\ TaskOut(w, b, k).idx = w
<1>1. PICK res \in ResultType : res = WindowResult(b)
  BY WindowResultType DEF IsBurst
<1>2. PICK p : p = ReportedPacket(w, b, Key[Parent])
  OBVIOUS
<1>3. PICK g : g = (res.any # NoHyp /\ res.any.tag)
  OBVIOUS
<1>4. g \in BOOLEAN
  <2>1. res.any \in MaybeHyp
    BY DEF ResultType
  <2>2. res.any # NoHyp => res.any.tag \in BOOLEAN
    BY <2>1 DEF MaybeHyp, Hypothesis
  <2>3. QED
    BY <1>3, <2>2
<1>5. PICK seen : seen = [idx |-> w, both_hit |-> res.both_hit, crc_ok |-> res.crc_ok,
               tag_any |-> g, kept |-> FALSE, pkt |-> None, cfo_row |-> None,
               tag_adva |-> None, inst |-> {}]
  OBVIOUS
<1>6. w \in Nat /\ res.both_hit \in BOOLEAN /\ res.crc_ok \in BOOLEAN /\ res.inst \in SUBSET Flags
  BY DEF ResultType, Position
<1>7. CASE Chosen(b) = NoHyp \/ ~ Keep(Chosen(b))
  <2>1. \A j : TaskOut(w, b, j) = seen
    BY <1>1, <1>3, <1>5, <1>7, Zenon DEF TaskOut
  <2>2. seen \in OutType /\ seen.idx = w
    BY <1>4, <1>5, <1>6 DEF OutType, Macs
  <2>3. QED
    BY <2>1, <2>2
<1>8. CASE ~ (Chosen(b) = NoHyp \/ ~ Keep(Chosen(b)))
  <2>1. p \in PacketType
    BY <1>2, <1>8, PacketTyped
  <2>2. Row(p) \in RowType
    BY <2>1, RowTyped DEF CaptureInv
  <2>3. PICK x, y : /\ x = IF p.tag THEN Row(p) ELSE None
                    /\ y = IF p.tag THEN b.adv.mac ELSE None
    OBVIOUS
  <2>4. x \in RowType \cup {None} /\ y \in Macs
    BY <2>2, <2>3 DEF Macs, IsBurst
  <2>5. \A j : TaskOut(w, b, j) =
          [seen EXCEPT !.kept = TRUE, !.pkt = p, !.inst = res.inst,
                       !.cfo_row = x, !.tag_adva = y]
    BY <1>1, <1>2, <1>3, <1>5, <1>8, <2>3, Zenon DEF TaskOut, TaskKey
  <2>6. PICK o : o = [idx |-> w, both_hit |-> res.both_hit, crc_ok |-> res.crc_ok,
               tag_any |-> g, kept |-> TRUE, pkt |-> p, cfo_row |-> x,
               tag_adva |-> y, inst |-> res.inst]
    OBVIOUS
  <2>7. \A j : TaskOut(w, b, j) = o
    BY <1>5, <2>5, <2>6
  <2>8. o \in OutType /\ o.idx = w
    BY <1>4, <1>6, <2>1, <2>4, <2>6 DEF OutType
  <2>9. QED
    BY <2>7, <2>8
<1>9. QED
  BY <1>7, <1>8

LEMMA TaskOutStays ==
  ASSUME UNCHANGED <<opts, csv, windows>>, NEW CONSTANT w, NEW CONSTANT b
  PROVE  TaskOut(w, b, Parent)' = TaskOut(w, b, Parent)
<1>1. Chosen(b)' = Chosen(b) /\ \A h : Keep(h)' = Keep(h) /\ \A p : Row(p)' = Row(p)
  BY DEF Chosen, Keep, Row
<1>2. ReportedPacket(w, b, TaskKey(Parent))' = ReportedPacket(w, b, TaskKey(Parent))
  BY <1>1, Zenon DEF ReportedPacket
<1>3. QED
  BY <1>1, <1>2, Zenon DEF TaskOut

-----------------------------------------------------------------------------
(* The invariant of the pool.                                              *)

Apart ==
  /\ windows \in Seq(Nat)
  /\ \A i \in 1 .. Len(windows) : windows[i] < NumSamples
  /\ \A i, j \in 1 .. Len(windows) : i < j => windows[i] + MIN_SEP < windows[j]

BurstsTyped ==
  /\ burst = [w \in 1 .. Len(windows) |-> burst[w]]
  /\ \A w \in 1 .. Len(windows) : burst[w] = None \/ IsBurst(burst[w])

\* No two processes are at one window, nor one at a window that is done.
JobsDistinct ==
  /\ job \in [Worker -> {NoOne} \cup (1 .. Len(windows))]
  /\ \A k, l \in Worker : job[k] = job[l] => k = l \/ job[k] = NoOne
  /\ \A k \in Worker : \A i \in 1 .. Len(outs) : job[k] # outs[i].idx

OutsRight ==
  /\ outs \in Seq(OutType)
  /\ \A i \in 1 .. Len(outs) :
       LET w == outs[i].idx
       IN  /\ w \in 1 .. Len(windows) /\ IsBurst(burst[w])
           /\ outs[i] = TaskOut(w, burst[w], Parent)
  /\ \A i, j \in 1 .. Len(outs) : outs[i].idx = outs[j].idx => i = j

Finished ==
  phase = "done" /\ windows # <<>> =>
    Len(outs) = Len(windows) /\ report = Aggregate(Gathered)

PoolInv ==
  /\ phase \in {"capture", "scan"} => windows = <<>>
  /\ Apart /\ BurstsTyped /\ JobsDistinct /\ OutsRight /\ Finished

LEMMA BeforeWindows ==
  ASSUME PoolInv, windows = <<>>
  PROVE  Len(outs) = 0 /\ outs = <<>>
<1>1. Len(windows) = 0
  OBVIOUS
<1>2. \A i \in 1 .. Len(outs) : FALSE
  BY <1>1 DEF PoolInv, OutsRight
<1>3. outs \in Seq(OutType)
  BY DEF PoolInv, OutsRight
<1>4. Len(outs) \in Nat
  BY <1>3
<1>5. Len(outs) = 0
  BY <1>2, <1>4
<1>6. QED
  BY <1>3, <1>5, EmptySeq

LEMMA CaptureStepKeepsPool ==
  ASSUME PoolInv, phase \in {"capture", "scan"},
         UNCHANGED <<windows, job, burst, outs, report>>, phase' \in {"capture", "scan"}
  PROVE  PoolInv'
<1>1. windows = <<>> /\ Len(outs) = 0 /\ Len(windows) = 0
  BY BeforeWindows DEF PoolInv
<1>2. Apart' /\ BurstsTyped' /\ Finished'
  BY <1>1 DEF PoolInv, Apart, BurstsTyped, Finished
<1>3. JobsDistinct' /\ OutsRight'
  BY <1>1 DEF PoolInv, JobsDistinct, OutsRight
<1>4. QED
  BY <1>1, <1>2, <1>3 DEF PoolInv

LEMMA ScanKeepsPool ==
  ASSUME CaptureInv, PoolInv, Scan
  PROVE  PoolInv'
<1>1. windows = <<>> /\ Len(outs) = 0 /\ Len(windows) = 0 /\ outs' = outs /\ job' = job
  BY BeforeWindows DEF PoolInv, Scan
<1>2. PICK N \in Nat : N = NumSamples /\ NumSamples' = N
  BY SampleFacts DEF CaptureInv, Scan, capture, NumSamples
<1>3. PICK score \in [0 .. N - 1 -> Scores \cup {None}] :
        windows' = [i \in DOMAIN Suppress(score) |-> Suppress(score)[i].at]
  BY <1>2 DEF Scan
<1>4. PICK kept \in Seq(Candidate) : kept = Suppress(score) /\ ApartBelow(kept, N)
  BY <1>2, SuppressFacts DEF ApartBelow
<1>5. PICK L \in Nat : L = Len(kept) /\ DOMAIN kept = 1 .. L
  OBVIOUS
<1>6. \A i \in 1 .. L : kept[i].at \in Nat
  <2>1. \A i \in 1 .. L : kept[i] \in Candidate
    BY <1>5
  <2>2. QED
    BY <2>1 DEF Candidate
<1>7. PICK W \in Seq(Nat) : W = windows' /\ Len(W) = L /\ \A i \in 1 .. L : W[i] = kept[i].at
  <2>1. windows' = [i \in 1 .. L |-> kept[i].at]
    BY <1>3, <1>4, <1>5
  <2>2. QED
    BY <1>6, <2>1
<1>8. Apart'
  <2>1. \A i \in 1 .. L : W[i] < N
    BY <1>4, <1>5, <1>7 DEF ApartBelow
  <2>2. \A i, j \in 1 .. L : i < j => W[i] + MIN_SEP < W[j]
    BY <1>4, <1>5, <1>7 DEF ApartBelow
  <2>3. QED
    BY <1>2, <1>7, <2>1, <2>2 DEF Apart
<1>9. BurstsTyped'
  <2>1. burst' = [w \in 1 .. L |-> None]
    BY <1>7 DEF Scan
  <2>2. QED
    BY <1>7, <2>1 DEF BurstsTyped
<1>10. JobsDistinct'
  BY <1>1, <1>7 DEF PoolInv, JobsDistinct
<1>11. OutsRight'
  BY <1>1 DEF PoolInv, OutsRight
<1>12. Finished' /\ phase' \notin {"capture", "scan"}
  BY DEF Scan, Finished
<1>13. QED
  BY <1>8, <1>9, <1>10, <1>11, <1>12 DEF PoolInv

LEMMA TakeKeepsPool ==
  ASSUME PoolInv, NEW k \in Worker, Take(k)
  PROVE  PoolInv'
<1>1. PICK w \in Queued : job' = [job EXCEPT ![k] = w]
  <2>1. windows \in Seq(Nat)
    BY DEF PoolInv, Apart
  <2>2. Queued \in SUBSET Nat /\ Queued # {}
    BY <2>1 DEF Queued, Take
  <2>3. \E w \in Queued : \A v \in Queued : w <= v
    BY <2>2, LeastNumber
  <2>4. (CHOOSE w \in Queued : \A v \in Queued : w <= v) \in Queued
    BY <2>3, Zenon
  <2>5. QED
    BY <2>4 DEF Take
<1>2. /\ w \in 1 .. Len(windows) /\ \A l \in Worker : job[l] # w
      /\ \A i \in 1 .. Len(outs) : outs[i].idx # w
  <2>1. DOMAIN outs = 1 .. Len(outs) /\ DOMAIN windows = 1 .. Len(windows)
    BY DEF PoolInv, OutsRight, Apart
  <2>2. QED
    BY <2>1 DEF Queued
<1>3. JobsDistinct'
  <2>1. windows' = windows /\ outs' = outs
    BY DEF Take
  <2>2. job \in [Worker -> {NoOne} \cup (1 .. Len(windows))]
    BY DEF PoolInv, JobsDistinct
  <2>3. job'[k] = w /\ \A l \in Worker : l # k => job'[l] = job[l]
    BY <1>1, <2>2
  <2>4. job' \in [Worker -> {NoOne} \cup (1 .. Len(windows))]
    BY <1>1, <1>2, <2>2
  <2>5. \A j, l \in Worker : job'[j] = job'[l] => j = l \/ job'[j] = NoOne
    BY <1>2, <2>3 DEF PoolInv, JobsDistinct
  <2>6. \A l \in Worker : \A i \in 1 .. Len(outs) : job'[l] # outs[i].idx
    BY <1>2, <2>3 DEF PoolInv, JobsDistinct
  <2>7. QED
    BY <2>1, <2>4, <2>5, <2>6 DEF JobsDistinct
<1>4. Apart' /\ BurstsTyped' /\ Finished' /\ phase' \notin {"capture", "scan"}
  BY DEF PoolInv, Apart, BurstsTyped, Finished, Take, NumSamples, capture
<1>5. OutsRight'
  <2>1. \A v, b : TaskOut(v, b, Parent)' = TaskOut(v, b, Parent)
    BY TaskOutStays DEF Take, capture
  <2>2. outs' = outs /\ windows' = windows /\ burst' = burst
    BY DEF Take
  <2>3. QED
    BY <2>1, <2>2 DEF PoolInv, OutsRight
<1>6. QED
  BY <1>3, <1>4, <1>5 DEF PoolInv

LEMMA DecodeKeepsPool ==
  ASSUME CaptureInv, PoolInv, NEW k \in Worker, DecodeWindow(k)
  PROVE  PoolInv'
<1>1. PICK adv \in Adverts, ch \in Range(opts.channels), long \in BOOLEAN :
        LET dec(right) == Decoded[right][adv.eco # "UNKNOWN"][long]
        IN \E ds \in [DOMAIN opts.channels -> dec(TRUE) \cup dec(FALSE)] :
          LET b == [adv |-> adv, decodes |-> ds]
          IN  /\ \A i \in DOMAIN ds :
                   ds[i] \in dec(opts.channels[i] = ch)
              /\ burst' = [burst EXCEPT ![job[k]] = b]
              /\ outs' = Append(outs, TaskOut(job[k], b, k))
  BY DEF DecodeWindow
<1> DEFINE dec(right) == Decoded[right][adv.eco # "UNKNOWN"][long]
<1>2. PICK ds \in [DOMAIN opts.channels -> dec(TRUE) \cup dec(FALSE)] :
        /\ burst' = [burst EXCEPT ![job[k]] = [adv |-> adv, decodes |-> ds]]
        /\ outs' = Append(outs, TaskOut(job[k], [adv |-> adv, decodes |-> ds], k))
  BY <1>1
<1>3. \A d \in dec(TRUE) \cup dec(FALSE) : d \in DecodeState
  <2>1. PICK tag \in BOOLEAN : tag = (adv.eco # "UNKNOWN")
    OBVIOUS
  <2>2. \A right \in BOOLEAN :
          \A d \in Decoded[right][tag][long] : d \in DecodeState
    BY DecodedFacts DEF Faithful, Sound
  <2>3. \A right \in BOOLEAN : \A d \in dec(right) : d \in DecodeState
    BY <2>1, <2>2
  <2>4. QED
    BY <2>3
<1> HIDE DEF dec
<1>4. PICK b : b = [adv |-> adv, decodes |-> ds]
  OBVIOUS
<1>5. IsBurst(b)
  <2>1. opts.channels \in Seq(Nat)
    BY PoolAssumption DEF CaptureInv
  <2>2. PICK n \in Nat : DOMAIN opts.channels = 1 .. n
    BY <2>1
  <2>3. \A i \in 1 .. n : ds[i] \in DecodeState
    BY <1>3, <2>2
  <2>4. ds \in Seq(DecodeState)
    BY <2>2, <2>3
  <2>5. QED
    BY <1>4, <2>4 DEF IsBurst
<1>6. PICK w \in 1 .. Len(windows) : w = job[k]
  BY DEF PoolInv, JobsDistinct, DecodeWindow
<1>7. PICK L \in Nat : L = Len(outs)
  BY DEF PoolInv, OutsRight
<1>8. /\ burst' = [burst EXCEPT ![w] = b] /\ windows' = windows /\ opts' = opts /\ csv' = csv
      /\ job' = [job EXCEPT ![k] = NoOne] /\ total' = total
  BY <1>2, <1>4, <1>6 DEF DecodeWindow, capture
<1>9. PICK o \in OutType : o = TaskOut(w, b, Parent) /\ o.idx = w /\ outs' = Append(outs, o)
  <2>1. Position(w)
    BY DEF Position, PoolInv, Apart
  <2>2. TaskOut(w, b, k) = TaskOut(w, b, Parent) /\ TaskOut(w, b, k) \in OutType
        /\ TaskOut(w, b, k).idx = w
    BY <1>5, <2>1, TaskOutFacts
  <2>3. QED
    BY <1>2, <1>4, <1>6, <2>2
<1>10. PICK s \in Seq(OutType) : s = outs' /\ Len(s) = L + 1 /\ s[L + 1] = o
                                 /\ \A i \in 1 .. L : s[i] = outs[i]
  <2>1. outs \in Seq(OutType)
    BY DEF PoolInv, OutsRight
  <2>2. PICK s \in Seq(OutType) : s = Append(outs, o)
    <3>1. Append(outs, o) \in Seq(OutType)
      BY <2>1
    <3>2. QED
      BY <3>1
  <2>3. Len(s) = L + 1 /\ s[L + 1] = o /\ \A i \in 1 .. L : s[i] = outs[i]
    BY <1>7, <2>1, <2>2
  <2>4. QED
    BY <1>9, <2>2, <2>3
<1>11. \A i \in 1 .. L + 1 : i = L + 1 \/ i \in 1 .. L
  OBVIOUS
<1>12. /\ burst'[w] = b
       /\ \A v \in 1 .. Len(windows) : v # w => burst'[v] = burst[v]
       /\ burst' = [v \in 1 .. Len(windows) |-> burst'[v]]
  BY <1>8 DEF PoolInv, BurstsTyped
<1>13. Apart' /\ BurstsTyped'
  <2>1. Apart'
    BY <1>8 DEF PoolInv, Apart, NumSamples
  <2>2. \A v \in 1 .. Len(windows) : burst'[v] = None \/ IsBurst(burst'[v])
    BY <1>5, <1>12 DEF PoolInv, BurstsTyped
  <2>3. QED
    BY <1>8, <1>12, <2>1, <2>2 DEF BurstsTyped
<1>14. \A i \in 1 .. L : outs[i].idx # w /\ outs[i].idx \in 1 .. Len(windows)
  BY <1>6, <1>7 DEF PoolInv, JobsDistinct, OutsRight
<1>15. \A l \in Worker : l # k => job'[l] = job[l] /\ job[l] # w
  BY <1>6, <1>8, PoolAssumption DEF PoolInv, JobsDistinct
<1>16. JobsDistinct'
  <2>1. w \in Nat /\ NoOne \notin Nat /\ job'[k] = NoOne
    BY <1>8, PoolAssumption DEF PoolInv, JobsDistinct
  <2>2. job' \in [Worker -> {NoOne} \cup (1 .. Len(windows))]
    BY <1>8 DEF PoolInv, JobsDistinct
  <2>3. \A j, l \in Worker : job'[j] = job'[l] => j = l \/ job'[j] = NoOne
    BY <1>15, <2>1 DEF PoolInv, JobsDistinct
  <2>4. ASSUME NEW l \in Worker, NEW i \in 1 .. L + 1 PROVE job'[l] # s[i].idx
    <3>1. CASE l = k
      <4>1. s[i].idx \in Nat
        <5>1. s[i] \in OutType
          BY <1>10
        <5>2. QED
          BY <5>1 DEF OutType
      <4>2. QED
        BY <2>1, <3>1, <4>1
    <3>2. CASE l # k /\ i = L + 1
      BY <1>9, <1>10, <1>15, <3>2
    <3>3. CASE l # k /\ i \in 1 .. L
      BY <1>7, <1>10, <1>15, <3>3 DEF PoolInv, JobsDistinct
    <3>4. QED
      BY <1>11, <3>1, <3>2, <3>3
  <2>5. QED
    BY <1>8, <1>10, <2>2, <2>3, <2>4 DEF JobsDistinct
<1>17. OutsRight'
  <2>1. \A v, c : TaskOut(v, c, Parent)' = TaskOut(v, c, Parent)
    BY <1>8, TaskOutStays
  <2>2. ASSUME NEW i \in 1 .. L + 1
        PROVE  /\ s[i].idx \in 1 .. Len(windows) /\ IsBurst(burst'[s[i].idx])
               /\ s[i] = TaskOut(s[i].idx, burst'[s[i].idx], Parent)
    <3>1. CASE i = L + 1
      BY <1>5, <1>9, <1>10, <1>12, <3>1
    <3>2. CASE i \in 1 .. L
      <4>1. PICK v \in 1 .. Len(windows) : v = outs[i].idx /\ v # w /\ burst'[v] = burst[v]
        BY <1>12, <1>14, <3>2
      <4>2. IsBurst(burst[v]) /\ outs[i] = TaskOut(v, burst[v], Parent)
        BY <1>7, <3>2, <4>1 DEF PoolInv, OutsRight
      <4>3. QED
        BY <1>10, <3>2, <4>1, <4>2
    <3>3. QED
      BY <1>11, <3>1, <3>2
  <2>3. ASSUME NEW i \in 1 .. L + 1, NEW j \in 1 .. L + 1, s[i].idx = s[j].idx PROVE i = j
    <3>1. CASE i \in 1 .. L /\ j \in 1 .. L
      BY <1>7, <1>10, <2>3, <3>1 DEF PoolInv, OutsRight
    <3>2. CASE i = L + 1 /\ j \in 1 .. L
      BY <1>9, <1>10, <1>14, <2>3, <3>2
    <3>3. CASE i \in 1 .. L /\ j = L + 1
      BY <1>9, <1>10, <1>14, <2>3, <3>3
    <3>4. QED
      BY <1>11, <3>1, <3>2, <3>3
  <2>4. QED
    BY <1>8, <1>10, <2>1, <2>2, <2>3 DEF OutsRight
<1>18. Finished' /\ phase' \notin {"capture", "scan"}
  BY DEF Finished, DecodeWindow
<1>19. QED
  BY <1>13, <1>16, <1>17, <1>18 DEF PoolInv

LEMMA FinishKeepsPool ==
  ASSUME PoolInv, Finish
  PROVE  PoolInv'
<1>1. UNCHANGED <<opts, csv, total, windows, job, burst, outs>> /\ phase' = "done"
  BY DEF Finish, capture, pool
<1>2. \A v, b : TaskOut(v, b, Parent)' = TaskOut(v, b, Parent)
  BY <1>1, TaskOutStays
<1>3. Apart' /\ BurstsTyped' /\ JobsDistinct'
  BY <1>1 DEF PoolInv, Apart, BurstsTyped, JobsDistinct, NumSamples
<1>4. OutsRight'
  BY <1>1, <1>2 DEF PoolInv, OutsRight
<1>5. Finished'
  <2>1. Gathered' = Gathered
    BY <1>1 DEF Gathered
  <2>2. Aggregate(Gathered)' = Aggregate(Gathered)
    BY <1>1, <2>1 DEF Aggregate, Truncated
  <2>3. QED
    BY <1>1, <2>2 DEF Finished, Finish
<1>6. QED
  BY <1>1, <1>3, <1>4, <1>5 DEF PoolInv

LEMMA StutterKeepsPool ==
  ASSUME PoolInv, UNCHANGED decodeVars
  PROVE  PoolInv'
<1>1. UNCHANGED <<opts, phase, csv, total, windows, job, burst, outs, report>>
  BY DEF decodeVars, capture, pool
<1>2. \A v, b : TaskOut(v, b, Parent)' = TaskOut(v, b, Parent)
  BY <1>1, TaskOutStays
<1>3. Apart' /\ BurstsTyped' /\ JobsDistinct'
  BY <1>1 DEF PoolInv, Apart, BurstsTyped, JobsDistinct, NumSamples
<1>4. OutsRight'
  BY <1>1, <1>2 DEF PoolInv, OutsRight
<1>5. Finished'
  <2>1. Gathered' = Gathered
    BY <1>1 DEF Gathered
  <2>2. Aggregate(Gathered)' = Aggregate(Gathered)
    BY <1>1, <2>1 DEF Aggregate, Truncated
  <2>3. QED
    BY <1>1, <2>2 DEF PoolInv, Finished
<1>6. QED
  BY <1>1, <1>3, <1>4, <1>5 DEF PoolInv

LEMMA AlwaysPooled == DecodeSpec => []PoolInv
<1>1. DecodeInit => PoolInv
  <2>1. ASSUME DecodeInit PROVE PoolInv
    <3>1. windows = <<>> /\ outs = <<>> /\ burst = <<>> /\ phase = "capture" /\ Len(windows) = 0
          /\ job = [k \in Worker |-> NoOne] /\ Len(outs) = 0
      BY <2>1 DEF DecodeInit
    <3>2. QED
      BY <3>1 DEF PoolInv, Apart, BurstsTyped, JobsDistinct, OutsRight, Finished
  <2>2. QED
    BY <2>1
<1>2. CaptureInv /\ PoolInv /\ [DecodeNext]_decodeVars => PoolInv'
  <2>1. SUFFICES ASSUME CaptureInv, PoolInv, [DecodeNext]_decodeVars PROVE PoolInv'
    OBVIOUS
  <2>2. CASE ReadChunk
    <3>1. phase = "capture" /\ phase' = phase /\ UNCHANGED <<windows, job, burst, outs, report>>
      BY <2>2 DEF ReadChunk, pool
    <3>2. QED
      BY <2>1, <3>1, CaptureStepKeepsPool
  <2>3. CASE Interrupt
    <3>1. phase = "capture" /\ phase' = "scan" /\ UNCHANGED <<windows, job, burst, outs, report>>
      BY <2>3 DEF Interrupt, pool
    <3>2. QED
      BY <2>1, <3>1, CaptureStepKeepsPool
  <2>4. CASE Scan
    BY <2>1, <2>4, ScanKeepsPool
  <2>5. CASE \E k \in Worker : Take(k)
    BY <2>1, <2>5, TakeKeepsPool
  <2>6. CASE \E k \in Worker : DecodeWindow(k)
    BY <2>1, <2>6, DecodeKeepsPool
  <2>7. CASE Finish
    BY <2>1, <2>7, FinishKeepsPool
  <2>8. CASE UNCHANGED decodeVars
    BY <2>1, <2>8, StutterKeepsPool
  <2>9. QED
    BY <2>1, <2>2, <2>3, <2>4, <2>5, <2>6, <2>7, <2>8 DEF DecodeNext
<1>3. QED
  BY <1>1, <1>2, AlwaysCaptured, PTL DEF DecodeSpec

-----------------------------------------------------------------------------
(* What is gathered at the end: every window's result, each at its place.  *)

\* What a window gives, whichever process is at it.
ResultOf(w) == TaskOut(w, burst[w], Parent)

LEMMA AllDone ==
  ASSUME PoolInv, Len(outs) = Len(windows)
  PROVE  \A w \in 1 .. Len(windows) : \E i \in 1 .. Len(outs) : outs[i].idx = w
<1>1. PICK n \in Nat : n = Len(windows) /\ n = Len(outs)
  BY DEF PoolInv, Apart
<1>2. /\ \A i \in 1 .. n : outs[i].idx \in 1 .. n
      /\ \A i, j \in 1 .. n : outs[i].idx = outs[j].idx => i = j
  BY <1>1 DEF PoolInv, OutsRight
<1>3. SUFFICES ASSUME NEW w \in 1 .. n, \A i \in 1 .. n : outs[i].idx # w PROVE FALSE
  BY <1>1
<1>4. PICK f : f = [i \in 1 .. n |-> outs[i].idx]
  OBVIOUS
<1>5. PICK S, T : S = 1 .. n /\ T = S \ {w}
  OBVIOUS
<1>6. f \in [S -> T]
  BY <1>2, <1>3, <1>4, <1>5
<1>7. IsFiniteSet(S) /\ Cardinality(S) = n
  <2>1. 1 \in Int /\ n \in Int /\ ~ (1 > n)
    OBVIOUS
  <2>2. QED
    BY <1>5, <2>1, FS_Interval
<1>8. IsFiniteSet(T) /\ Cardinality(T) < Cardinality(S)
  <2>1. IsFiniteSet(T) /\ Cardinality(T) = Cardinality(S) - 1
    BY <1>5, <1>7, FS_RemoveElement
  <2>2. QED
    BY <1>7, <2>1
<1>9. \E x, y \in S : x # y /\ f[x] = f[y]
  BY <1>6, <1>7, <1>8, FS_PigeonHole
<1>10. QED
  BY <1>2, <1>4, <1>5, <1>9

LEMMA GatheredFacts ==
  ASSUME CaptureInv, PoolInv, Len(outs) = Len(windows)
  PROVE  /\ Gathered \in Seq(OutType) /\ Len(Gathered) = Len(windows)
         /\ \A w \in 1 .. Len(windows) : Gathered[w] = ResultOf(w) /\ IsBurst(burst[w])
<1>1. PICK n \in Nat : n = Len(windows) /\ n = Len(outs)
                       /\ DOMAIN windows = 1 .. n /\ DOMAIN outs = 1 .. n
  BY DEF PoolInv, Apart, OutsRight
<1>2. ASSUME NEW w \in 1 .. n
      PROVE  Gathered[w] = ResultOf(w) /\ IsBurst(burst[w]) /\ Gathered[w] \in OutType
  <2>1. PICK i \in 1 .. n : outs[i].idx = w
    BY <1>1, AllDone
  <2>2. outs[i] = ResultOf(w) /\ IsBurst(burst[w]) /\ outs[i] \in OutType
    BY <1>1, <2>1 DEF PoolInv, OutsRight, ResultOf
  <2>3. outs[i] \in Range(outs)
    BY <1>1 DEF Range
  <2>4. \A r \in Range(outs) : r.idx = w => r = outs[i]
    BY <1>1, <2>1 DEF PoolInv, OutsRight, Range
  <2>5. (CHOOSE r \in Range(outs) : r.idx = w) = outs[i]
    BY <2>1, <2>3, <2>4, Zenon
  <2>6. Gathered[w] = outs[i]
    BY <1>1, <2>5 DEF Gathered
  <2>7. QED
    BY <2>2, <2>6
<1>3. Gathered = [w \in 1 .. n |-> Gathered[w]]
  BY <1>1 DEF Gathered
<1>4. PICK G : G = Gathered
  OBVIOUS
<1>5. G \in Seq(OutType) /\ Len(G) = n
  <2>1. G = [w \in 1 .. n |-> G[w]] /\ \A w \in 1 .. n : G[w] \in OutType
    BY <1>2, <1>3, <1>4
  <2>2. QED
    BY <2>1
<1>6. QED
  BY <1>1, <1>2, <1>4, <1>5

\* The windows whose packet is reported, and those with a row.
LEMMA ResultFacts ==
  ASSUME CaptureInv, PoolInv, NEW w \in 1 .. Len(windows), IsBurst(burst[w])
  PROVE  /\ ResultOf(w).pkt # None =>
              /\ ResultOf(w).pkt = ReportedPacket(w, burst[w], Key[Parent])
              /\ ResultOf(w).pkt \in PacketType
         /\ ResultOf(w).cfo_row # None =>
              /\ ResultOf(w).cfo_row = Row(ReportedPacket(w, burst[w], Key[Parent]))
              /\ ReportedPacket(w, burst[w], Key[Parent]) \in PacketType
<1>1. Position(w)
  BY DEF Position, PoolInv, Apart
<1>2. PICK b : b = burst[w] /\ IsBurst(b)
  OBVIOUS
<1>3. PICK p : p = ReportedPacket(w, b, Key[Parent])
  OBVIOUS
<1>4. CASE Chosen(b) = NoHyp \/ ~ Keep(Chosen(b))
  <2>1. ResultOf(w) =
          [idx |-> w, both_hit |-> WindowResult(b).both_hit, crc_ok |-> WindowResult(b).crc_ok,
           tag_any |-> WindowResult(b).any # NoHyp /\ WindowResult(b).any.tag,
           kept |-> FALSE, pkt |-> None, cfo_row |-> None,
           tag_adva |-> None, inst |-> {}]
    BY <1>2, <1>4, Zenon DEF ResultOf, TaskOut
  <2>2. ResultOf(w).pkt = None /\ ResultOf(w).cfo_row = None
    BY <2>1
  <2>3. QED
    BY <2>2
<1>5. CASE ~ (Chosen(b) = NoHyp \/ ~ Keep(Chosen(b)))
  <2>1. p \in PacketType
    BY <1>1, <1>2, <1>3, <1>5, PacketTyped
  <2>2. ResultOf(w).pkt = p /\ ResultOf(w).cfo_row = IF p.tag THEN Row(p) ELSE None
    BY <1>2, <1>3, <1>5 DEF ResultOf, TaskOut, TaskKey
  <2>3. QED
    BY <1>2, <1>3, <2>1, <2>2
<1>6. QED
  BY <1>4, <1>5

\* What is left of a column of the results, in the order of the windows.
LEMMA PresentFacts ==
  ASSUME NEW S, NEW s \in Seq(S)
  PROVE  /\ Present(s) \in Seq(S)
         /\ \E e : /\ e \in [1 .. Len(Present(s)) -> Nat]
                   /\ \A i \in 1 .. Len(Present(s)) :
                        /\ e[i] \in 1 .. Len(s) /\ Present(s)[i] = s[e[i]]
                        /\ s[e[i]] # None
                   /\ \A i, j \in 1 .. Len(Present(s)) : i < j => e[i] < e[j]
<1>1. PICK T : T = {i \in DOMAIN s : s[i] # None} /\ Present(s) = Sublist(s, T)
  BY DEF Present, Those
<1>2. Present(s) \in Seq(S) /\ \E e : DrawnBy(e, Present(s), s, T, Len(s))
  BY <1>1, SublistFacts
<1>3. PICK e : DrawnBy(e, Present(s), s, T, Len(s))
  BY <1>2
<1>4. QED
  BY <1>1, <1>2, <1>3 DEF DrawnBy

\* Shown packets and rows are those of windows, under the parent's key.
ShownOf(q, w) ==
  /\ w \in 1 .. Len(windows) /\ IsBurst(burst[w])
  /\ q.at = windows[w] /\ q.AdvA = Hide(MaskedMac(burst[w].adv), Key[Parent])

LEMMA PacketsShown ==
  ASSUME CaptureInv, PoolInv, Reported, NEW q \in Range(report.packets)
  PROVE  \E w \in 1 .. Len(windows) : ShownOf(q, w)
<1>1. Len(outs) = Len(windows) /\ report = Aggregate(Gathered)
  BY DEF Reported, PoolInv, Finished
<1>2. PICK G \in Seq(OutType) : /\ G = Gathered /\ Len(G) = Len(windows)
        /\ \A w \in 1 .. Len(windows) : G[w] = ResultOf(w) /\ IsBurst(burst[w])
  BY <1>1, GatheredFacts
<1>3. PICK s : s = [i \in DOMAIN G |-> G[i].pkt]
  OBVIOUS
<1>4. report.packets = Truncated(Present(s))
  BY <1>1, <1>2, <1>3 DEF Aggregate
<1>5. s \in Seq(PacketType \cup {None}) /\ Len(s) = Len(windows)
      /\ \A w \in 1 .. Len(s) : s[w] = ResultOf(w).pkt
  <2>1. \A i \in 1 .. Len(G) : G[i] \in OutType
    OBVIOUS
  <2>2. \A i \in 1 .. Len(G) : G[i].pkt \in PacketType \cup {None}
    BY <2>1 DEF OutType
  <2>3. QED
    BY <1>2, <1>3, <2>2
<1>6. PICK u \in Seq(PacketType \cup {None}) : u = Present(s)
  BY <1>5, PresentFacts
<1>7. \A i \in 1 .. Len(u) : \E w \in 1 .. Len(s) : u[i] = s[w] /\ s[w] # None
  BY <1>5, <1>6, PresentFacts
<1>8. \E i \in 1 .. Len(u) : q = u[i]
  <2>1. CASE opts.max > 0
    <3>1. PICK m : m = Min({opts.max, Len(u)}) /\ report.packets = SubSeq(u, 1, m)
      BY <1>4, <1>6, <2>1 DEF Truncated
    <3>2. m \in Nat /\ m <= Len(u)
      <4>1. opts.max \in Int /\ Len(u) \in Int
        BY PoolAssumption DEF CaptureInv
      <4>2. \E x \in {opts.max, Len(u)} : \A y \in {opts.max, Len(u)} : x <= y
        BY <4>1
      <4>3. m = CHOOSE x \in {opts.max, Len(u)} : \A y \in {opts.max, Len(u)} : x <= y
        BY <3>1, Zenon DEF Min
      <4>4. m \in {opts.max, Len(u)} /\ \A y \in {opts.max, Len(u)} : m <= y
        BY <4>2, <4>3, Zenon
      <4>5. QED
        BY <2>1, <4>1, <4>4
    <3>3. q \in Range(SubSeq(u, 1, m))
      BY <3>1
    <3>4. DOMAIN SubSeq(u, 1, m) = 1 .. m /\ \A i \in 1 .. m : SubSeq(u, 1, m)[i] = u[i]
      BY <3>2
    <3>5. QED
      BY <3>2, <3>3, <3>4 DEF Range
  <2>2. CASE ~ (opts.max > 0)
    <3>1. report.packets = <<>>
      BY <1>4, <2>2 DEF Truncated
    <3>2. QED
      BY <3>1 DEF Range
  <2>3. QED
    BY <2>1, <2>2
<1>9. PICK w \in 1 .. Len(windows) : q = ResultOf(w).pkt /\ q # None
  BY <1>5, <1>7, <1>8
<1>10. q = ReportedPacket(w, burst[w], Key[Parent]) /\ IsBurst(burst[w])
  BY <1>2, <1>9, ResultFacts
<1>11. ShownOf(q, w)
  BY <1>10 DEF ShownOf, ReportedPacket
<1>12. QED
  BY <1>11

\* The rows of the report, with the windows they are of.
RowsOf(e) ==
  /\ e \in [1 .. Len(report.rows) -> Nat]
  /\ \A i \in 1 .. Len(report.rows) :
       /\ e[i] \in 1 .. Len(windows) /\ IsBurst(burst[e[i]])
       /\ report.rows[i] = Row(ReportedPacket(e[i], burst[e[i]], Key[Parent]))
       /\ ReportedPacket(e[i], burst[e[i]], Key[Parent]) \in PacketType
  /\ \A i, j \in 1 .. Len(report.rows) : i < j => e[i] < e[j]

LEMMA RowsShown ==
  ASSUME CaptureInv, PoolInv, Reported
  PROVE  /\ report.rows \in Seq(RowType \cup {None})
         /\ \E e : RowsOf(e)
<1>1. Len(outs) = Len(windows) /\ report = Aggregate(Gathered)
  BY DEF Reported, PoolInv, Finished
<1>2. PICK G \in Seq(OutType) : /\ G = Gathered /\ Len(G) = Len(windows)
        /\ \A w \in 1 .. Len(windows) : G[w] = ResultOf(w) /\ IsBurst(burst[w])
  BY <1>1, GatheredFacts
<1>3. PICK s : s = [i \in DOMAIN G |-> G[i].cfo_row]
  OBVIOUS
<1>4. report.rows = Present(s)
  BY <1>1, <1>2, <1>3 DEF Aggregate
<1>5. s \in Seq(RowType \cup {None}) /\ Len(s) = Len(windows)
      /\ \A w \in 1 .. Len(s) : s[w] = ResultOf(w).cfo_row
  <2>1. \A i \in 1 .. Len(G) : G[i] \in OutType
    OBVIOUS
  <2>2. \A i \in 1 .. Len(G) : G[i].cfo_row \in RowType \cup {None}
    BY <2>1 DEF OutType
  <2>3. QED
    BY <1>2, <1>3, <2>2
<1>6. PICK u \in Seq(RowType \cup {None}) : u = Present(s)
  BY <1>5, PresentFacts
<1>7. PICK e : /\ e \in [1 .. Len(u) -> Nat]
               /\ \A i \in 1 .. Len(u) : e[i] \in 1 .. Len(s) /\ u[i] = s[e[i]] /\ s[e[i]] # None
               /\ \A i, j \in 1 .. Len(u) : i < j => e[i] < e[j]
  <2>1. PICK S : S = RowType \cup {None} /\ s \in Seq(S)
    BY <1>5
  <2>2. \E e : /\ e \in [1 .. Len(Present(s)) -> Nat]
               /\ \A i \in 1 .. Len(Present(s)) :
                    e[i] \in 1 .. Len(s) /\ Present(s)[i] = s[e[i]] /\ s[e[i]] # None
               /\ \A i, j \in 1 .. Len(Present(s)) : i < j => e[i] < e[j]
    BY <2>1, PresentFacts
  <2>3. QED
    BY <1>6, <2>2, Zenon
<1>8. ASSUME NEW i \in 1 .. Len(u)
      PROVE  /\ e[i] \in 1 .. Len(windows) /\ IsBurst(burst[e[i]])
             /\ u[i] = Row(ReportedPacket(e[i], burst[e[i]], Key[Parent]))
             /\ ReportedPacket(e[i], burst[e[i]], Key[Parent]) \in PacketType
  <2>1. PICK w \in 1 .. Len(windows) : w = e[i] /\ u[i] = ResultOf(w).cfo_row
                                       /\ ResultOf(w).cfo_row # None
    <3>1. PICK w : w = e[i]
      OBVIOUS
    <3>2. w \in 1 .. Len(s) /\ u[i] = s[w] /\ s[w] # None
      BY <1>7, <3>1
    <3>3. w \in 1 .. Len(windows) /\ s[w] = ResultOf(w).cfo_row
      BY <1>5, <3>2
    <3>4. QED
      BY <3>1, <3>2, <3>3
  <2>2. IsBurst(burst[w])
    BY <1>2
  <2>3. QED
    BY <2>1, <2>2, ResultFacts
<1>9. RowsOf(e)
  BY <1>4, <1>6, <1>7, <1>8 DEF RowsOf
<1>10. QED
  BY <1>4, <1>6, <1>9

LEMMA AllShown ==
  ASSUME CaptureInv, PoolInv, Reported,
         NEW q \in Range(report.packets) \cup Range(report.rows)
  PROVE  \E w \in 1 .. Len(windows) : ShownOf(q, w)
<1>1. CASE q \in Range(report.packets)
  BY <1>1, PacketsShown
<1>2. CASE q \in Range(report.rows)
  <2>1. PICK e : RowsOf(e)
    BY RowsShown
  <2>2. PICK i \in 1 .. Len(report.rows) : q = report.rows[i]
    BY <1>2, RowsShown DEF Range
  <2>3. PICK w \in 1 .. Len(windows) : /\ IsBurst(burst[w])
          /\ q = Row(ReportedPacket(w, burst[w], Key[Parent]))
    BY <2>1, <2>2 DEF RowsOf
  <2>4. ShownOf(q, w)
    BY <2>3 DEF ShownOf, Row, ReportedPacket
  <2>5. QED
    BY <2>4
<1>3. QED
  BY <1>1, <1>2

LEMMA DeviceOf ==
  ASSUME PoolInv, NEW q, NEW w, ShownOf(q, w)
  PROVE  (CHOOSE v \in DOMAIN windows : windows[v] = q.at) = w
<1>1. PICK n \in Nat : n = Len(windows) /\ DOMAIN windows = 1 .. n
  BY DEF PoolInv, Apart
<1>2. w \in DOMAIN windows /\ windows[w] = q.at
  BY <1>1 DEF ShownOf
<1>3. \A v \in 1 .. n : windows[v] = windows[w] => v = w
  <2>1. /\ \A i \in 1 .. n : windows[i] \in Nat
        /\ \A i, j \in 1 .. n : i < j => windows[i] + MIN_SEP < windows[j]
        /\ MIN_SEP \in Nat /\ w \in 1 .. n
    BY <1>1, PoolAssumption DEF PoolInv, Apart, ShownOf
  <2>2. ASSUME NEW v \in 1 .. n, v # w PROVE windows[v] # windows[w]
    <3>1. windows[v] \in Nat /\ windows[w] \in Nat
      BY <2>1
    <3>2. v < w \/ w < v
      BY <2>1, <2>2
    <3>3. windows[v] + MIN_SEP < windows[w] \/ windows[w] + MIN_SEP < windows[v]
      BY <2>1, <3>2
    <3>4. QED
      BY <2>1, <3>1, <3>3
  <2>3. QED
    BY <2>2
<1>4. QED
  BY <1>1, <1>2, <1>3, Zenon

LEMMA PseudonymsFollow ==
  ASSUME CaptureInv, PoolInv
  PROVE  PseudonymPerDevice
<1>1. SUFFICES ASSUME Reported PROVE PseudonymPerDevice
  BY DEF PseudonymPerDevice
<1> DEFINE device(r) == LET w == CHOOSE v \in DOMAIN windows : windows[v] = r.at
                        IN  MaskedMac(burst[w].adv)
           shown == Range(report.packets) \cup Range(report.rows)
<1>2. ASSUME NEW q \in shown
      PROVE  /\ q.AdvA = <<Key[Parent], device(q)>>
             /\ q.AdvA # device(q)
  <2>1. PICK w \in 1 .. Len(windows) : ShownOf(q, w)
    BY <1>1, AllShown
  <2>2. device(q) = MaskedMac(burst[w].adv)
    BY <2>1, DeviceOf
  <2>3. PICK adv \in Adverts : adv = burst[w].adv
    BY <2>1 DEF ShownOf, IsBurst
  <2>4. q.AdvA = Hide(MaskedMac(adv), Key[Parent]) /\ q.AdvA \in Digests
    BY <2>1, <2>3 DEF ShownOf, Digests
  <2>5. MaskedMac(adv) \notin Digests
    BY DigestAssumption
  <2> HIDE DEF device
  <2>6. device(q) = MaskedMac(adv)
    BY <2>2, <2>3
  <2>7. q.AdvA # device(q)
    BY <2>4, <2>5, <2>6
  <2>8. q.AdvA = <<Key[Parent], device(q)>>
    BY <2>4, <2>6 DEF Hide
  <2>9. QED
    BY <2>7, <2>8
<1>3. \A q, r \in shown :
        /\ (q.AdvA = r.AdvA) <=> (device(q) = device(r))
        /\ q.AdvA # device(q)
  <2> HIDE DEF device, shown
  <2>1. QED
    BY <1>2
<1>4. QED
  BY <1>3 DEF PseudonymPerDevice

(* An address is hidden under the key of the process that made the task,   *)
(* so that whichever process hides it and however often the device         *)
(* changes its address, one name stands for one device, for every number   *)
(* of processes, capture and command line.                                 *)
THEOREM OneNamePerDevice == DecodeSpec => []PseudonymPerDevice
<1>1. CaptureInv /\ PoolInv => PseudonymPerDevice
  BY PseudonymsFollow
<1>2. QED
  BY <1>1, AlwaysCaptured, AlwaysPooled, PTL

-----------------------------------------------------------------------------
(* The time of a sample, with the bridge's timestamps.                     *)

LEMMA RowSet ==
  ASSUME NEW rows \in Seq(CsvRow), InOrderOfOffset(rows), NEW byte \in Nat
  PROVE  /\ RowAt(rows, byte) \in 0 .. Len(rows)
         /\ \A i \in 1 .. Len(rows) : rows[i].off <= byte <=> i <= RowAt(rows, byte)
<1>1. PICK n \in Nat : n = Len(rows) /\ DOMAIN rows = 1 .. n
  OBVIOUS
<1>2. \A i \in 1 .. n : rows[i].off \in Nat
  <2>1. \A i \in 1 .. n : rows[i] \in CsvRow
    BY <1>1
  <2>2. QED
    BY <2>1 DEF CsvRow
<1>3. PICK R : R = {i \in 1 .. n : rows[i].off <= byte} /\ RowAt(rows, byte) = Cardinality(R)
  BY <1>1 DEF RowAt
<1>4. PICK m \in 0 .. n : \A i \in 1 .. n : rows[i].off <= byte <=> i <= m
  <2>1. PICK B : B = {i \in 1 .. n : ~ (rows[i].off <= byte)}
    OBVIOUS
  <2>2. CASE B = {}
    <3>1. \A i \in 1 .. n : rows[i].off <= byte /\ i <= n
      BY <2>1, <2>2
    <3>2. n \in 0 .. n
      OBVIOUS
    <3>3. QED
      BY <3>1, <3>2
  <2>3. CASE B # {}
    <3>1. PICK b \in B : \A c \in B : b <= c
      <4>1. B \in SUBSET Nat
        BY <2>1
      <4>2. QED
        BY <2>3, <4>1, LeastNumber
    <3>2. PICK k \in 0 .. n : k = b - 1 /\ b \in 1 .. n
      BY <2>1
    <3>3. ASSUME NEW i \in 1 .. n PROVE rows[i].off <= byte <=> i <= k
      <4>1. CASE i < b
        <5>1. i \notin B
          BY <2>1, <3>1, <4>1
        <5>2. QED
          BY <2>1, <3>2, <4>1, <5>1
      <4>2. CASE ~ (i < b)
        <5>1. PICK x \in Nat, y \in Nat : x = rows[i].off /\ y = rows[b].off
          BY <1>2, <3>2
        <5>2. i = b \/ y < x
          BY <1>1, <3>2, <4>2, <5>1 DEF InOrderOfOffset
        <5>3. ~ (y <= byte)
          BY <2>1, <5>1
        <5>4. ~ (x <= byte)
          <6>1. CASE i = b
            BY <5>1, <5>3, <6>1
          <6>2. CASE y < x
            BY <5>3, <6>2
          <6>3. QED
            BY <5>2, <6>1, <6>2
        <5>5. ~ (i <= k)
          BY <3>2, <4>2
        <5>6. QED
          BY <5>1, <5>4, <5>5
      <4>3. QED
        BY <4>1, <4>2
    <3>4. QED
      BY <3>3
  <2>4. QED
    BY <2>2, <2>3
<1>5. R = 1 .. m
  BY <1>3, <1>4
<1>6. Cardinality(1 .. m) = m
  <2>1. 1 \in Int /\ m \in Int /\ (1 > m => m = 0)
    OBVIOUS
  <2>2. QED
    BY <2>1, FS_Interval
<1>7. RowAt(rows, byte) = m
  BY <1>3, <1>5, <1>6
<1>8. QED
  BY <1>1, <1>4, <1>7

LEMMA LegacyIndex ==
  ASSUME CaptureInv, opts.kind = "legacy", csv # <<>>
  PROVE  ChunkIndex(csv) = csv
<1>1. PICK n \in Nat : n = Len(csv) /\ DOMAIN csv = 1 .. n /\ csv \in Seq(CsvRow)
  BY DEF CaptureInv
<1>2. ASSUME NEW i \in 1 .. n PROVE Legacy(csv[i])
  <2>1. csv[i] \in CsvRow
    BY <1>1
  <2>2. PICK o \in Nat, z \in Nat : o = csv[i].off /\ z = csv[i].size
    BY <2>1 DEF CsvRow
  <2>3. PICK u \in Nat : u = Until(i)
    <3>1. i < n => i + 1 \in 1 .. n /\ csv[i + 1] \in CsvRow
      BY <1>1
    <3>2. QED
      BY <1>1, <3>1 DEF Until, CsvRow, CaptureInv
  <2>4. csv[i].kind = "legacy" /\ o < u /\ z = u - o
    BY <1>1, <2>2, <2>3 DEF CaptureInv, Tiled
  <2>5. o >= 0 /\ z > 0
    BY <2>4
  <2>6. QED
    BY <2>2, <2>4, <2>5 DEF Legacy
<1>3. PICK T : T = {i \in DOMAIN csv : Legacy(csv[i])}
  OBVIOUS
<1>4. 1 .. Len(csv) \subseteq T
  BY <1>1, <1>2, <1>3
<1>5. Those(csv, Legacy) = csv
  BY <1>1, <1>3, <1>4, SublistWhole DEF Those
<1>6. QED
  BY <1>1, <1>5, ByOffsetSorted DEF ChunkIndex, CaptureInv

\* The read a byte came in.
LEMMA Covered ==
  ASSUME CaptureInv, csv # <<>>, NEW byte \in Nat, byte < total
  PROVE  \E m \in 1 .. Len(csv), o, u, e \in Nat :
           /\ m = RowAt(csv, byte)
           /\ o = csv[m].off /\ u = Until(m) /\ e = csv[m].epoch
           /\ o <= byte /\ byte < u /\ u <= o + BUFFER /\ u <= e
           /\ opts.kind = "legacy" => csv[m].size = u - o
<1>1. PICK n \in Nat : n = Len(csv) /\ csv \in Seq(CsvRow) /\ 1 \in 1 .. n
  BY EmptySeq DEF CaptureInv
<1>2. PICK m \in 0 .. n : /\ m = RowAt(csv, byte)
                          /\ \A i \in 1 .. n : csv[i].off <= byte <=> i <= m
  BY <1>1, RowSet DEF CaptureInv
<1>3. m \in 1 .. n
  <2>1. csv[1].off <= byte
    BY DEF CaptureInv, Tiled
  <2>2. QED
    BY <1>1, <1>2, <2>1
<1>4. PICK o \in Nat, e \in Nat : o = csv[m].off /\ e = csv[m].epoch
  <2>1. csv[m] \in CsvRow
    BY <1>1, <1>3
  <2>2. QED
    BY <2>1 DEF CsvRow
<1>5. PICK u \in Nat : u = Until(m) /\ byte < u
  <2>1. CASE m < n
    <3>1. m + 1 \in 1 .. n /\ ~ (m + 1 <= m)
      BY <1>3, <2>1
    <3>2. csv[m + 1] \in CsvRow
      BY <1>1, <3>1
    <3>3. PICK x \in Nat : x = csv[m + 1].off
      BY <3>2 DEF CsvRow
    <3>4. ~ (x <= byte)
      BY <1>2, <3>1, <3>3
    <3>5. QED
      BY <1>1, <2>1, <3>3, <3>4 DEF Until
  <2>2. CASE ~ (m < n)
    BY <1>1, <2>2 DEF Until, CaptureInv
  <2>3. QED
    BY <2>1, <2>2
<1>6. /\ u <= o + BUFFER /\ u <= e
      /\ opts.kind = "legacy" => csv[m].size = u - o
  BY <1>1, <1>3, <1>4, <1>5 DEF CaptureInv, Tiled
<1>7. o <= byte
  BY <1>2, <1>3, <1>4
<1>8. QED
  BY <1>1, <1>2, <1>3, <1>4, <1>5, <1>6, <1>7

LEMMA EpochsRise ==
  ASSUME CaptureInv, NEW i \in 1 .. Len(csv), NEW j \in 1 .. Len(csv), j <= i
  PROVE  csv[j].epoch <= csv[i].epoch
<1>1. j \in 1 .. i
  OBVIOUS
<1>2. QED
  BY <1>1 DEF CaptureInv, Tiled

LEMMA LegacyTimes ==
  ASSUME CaptureInv, opts.kind = "legacy", csv # <<>>,
         NEW p \in PacketType, NEW byte \in Nat, byte = p.at * BPS, byte < total
  PROVE  \E m \in 1 .. Len(csv), o, e, t0 \in Nat :
           /\ m = RowAt(csv, byte)
           /\ o = csv[m].off /\ e = csv[m].epoch /\ t0 = csv[1].epoch
           /\ o <= byte /\ byte < o + BUFFER /\ o <= e
           /\ Row(p).mobile = e + (byte - o)
           /\ Row(p).timestamp = e + (byte - o) - t0
<1>2. ChunkIndex(csv) = csv
  BY LegacyIndex
<1>3. PICK m \in 1 .. Len(csv), o, u, e \in Nat :
        /\ m = RowAt(csv, byte)
        /\ o = csv[m].off /\ u = Until(m) /\ e = csv[m].epoch
        /\ o <= byte /\ byte < u /\ u <= o + BUFFER /\ u <= e
        /\ csv[m].size = u - o
  BY Covered
<1>4. PICK t0 \in Nat : t0 = csv[1].epoch
  <2>1. 1 \in 1 .. Len(csv) /\ csv \in Seq(CsvRow)
    BY EmptySeq DEF CaptureInv
  <2>2. csv[1] \in CsvRow
    BY <2>1
  <2>3. QED
    BY <2>2 DEF CsvRow
<1>5. ~ (m = 0 \/ byte >= csv[m].off + csv[m].size)
  <2>1. PICK z \in Int : z = csv[m].size /\ z = u - o
    BY <1>3
  <2>2. byte < u
    BY <1>3
  <2>3. o + z = u
    BY <2>1
  <2>4. ~ (byte >= o + z)
    BY <2>2, <2>3
  <2>5. QED
    BY <1>3, <2>1, <2>4
<1>6. MobileTime(csv, p.at) = e + (byte - o)
  <2>1. MobileTime(csv, p.at) = e + (byte - o) - 0
    BY <1>3, <1>5 DEF MobileTime, ByteTime
  <2>2. QED
    BY <2>1
<1>7. SampleTime(csv, p.at) = e + (byte - o) - t0
  BY <1>3, <1>4, <1>5 DEF SampleTime, ByteTime
<1>8. e + (byte - o) - t0 \in Int
  OBVIOUS
<1>9. SampleTime(csv, p.at) # NaN
  BY <1>7, <1>8, ClockAssumption
<1>10. /\ Row(p).mobile = e + (byte - o)
       /\ Row(p).timestamp = e + (byte - o) - t0
  BY <1>2, <1>6, <1>7, <1>9 DEF Row
<1>11. BUFFER \in Nat /\ byte < o + BUFFER /\ o <= e
  BY <1>3, PoolAssumption
<1>12. /\ m = RowAt(csv, byte)
       /\ o = csv[m].off /\ e = csv[m].epoch /\ t0 = csv[1].epoch
       /\ o <= byte /\ byte < o + BUFFER /\ o <= e
       /\ Row(p).mobile = e + (byte - o)
       /\ Row(p).timestamp = e + (byte - o) - t0
  BY <1>3, <1>4, <1>10, <1>11
<1>13. WITNESS m \in 1 .. Len(csv), o \in Nat, e \in Nat, t0 \in Nat
<1>14. QED
  BY <1>12

LEMMA LessThanRead ==
  ASSUME NEW a \in Nat, NEW b \in Nat, NEW c \in Nat, NEW d \in Nat, NEW o \in Nat,
         NEW q \in Nat, NEW t \in Nat, NEW z \in Nat,
         o <= a, b < q + z, c <= d
  PROVE  c + (b - q) - t < (d + (a - o) - t) + z
OBVIOUS

LEMMA RowsInOrder ==
  ASSUME CaptureInv, PoolInv
  PROVE  RowsOrdered
<1>1. SUFFICES ASSUME Reported PROVE RowsOrdered
  BY DEF RowsOrdered
<1>2. PICK e : RowsOf(e)
  BY <1>1, RowsShown
<1>3. PICK n \in Nat : n = Len(report.rows) /\ DOMAIN report.rows = 1 .. n
  BY <1>1, RowsShown
<1>4. PICK p : p = [i \in 1 .. n |-> ReportedPacket(e[i], burst[e[i]], Key[Parent])]
  OBVIOUS
<1>5. \A i \in 1 .. n : /\ e[i] \in 1 .. Len(windows) /\ p[i] \in PacketType
                        /\ report.rows[i] = Row(p[i]) /\ p[i].at = windows[e[i]]
                        /\ report.rows[i].at = windows[e[i]]
  <2>1. ASSUME NEW i \in 1 .. n
        PROVE  /\ e[i] \in 1 .. Len(windows) /\ p[i] \in PacketType
               /\ report.rows[i] = Row(p[i]) /\ p[i].at = windows[e[i]]
               /\ report.rows[i].at = windows[e[i]]
    <3>1. p[i] = ReportedPacket(e[i], burst[e[i]], Key[Parent])
      BY <1>4
    <3>2. e[i] \in 1 .. Len(windows) /\ p[i] \in PacketType /\ report.rows[i] = Row(p[i])
      BY <1>2, <1>3, <3>1 DEF RowsOf
    <3>3. p[i].at = windows[e[i]]
      BY <3>1 DEF ReportedPacket
    <3>4. Row(p[i]).at = p[i].at
      BY DEF Row
    <3>5. QED
      BY <3>2, <3>3, <3>4
  <2>2. QED
    BY <2>1
<1>6. \A i, j \in 1 .. n : j < i => e[j] < e[i]
  BY <1>2, <1>3 DEF RowsOf
<1>7. /\ windows \in Seq(Nat)
      /\ \A i \in 1 .. Len(windows) : windows[i] < NumSamples
      /\ \A i, j \in 1 .. Len(windows) : i < j => windows[i] + MIN_SEP < windows[j]
  BY DEF PoolInv, Apart
<1>8. \A i \in 1 .. Len(windows) : windows[i] \in Nat /\ windows[i] * BPS < total
  BY <1>7, SampleFacts DEF CaptureInv
<1>9. ASSUME NEW i \in 1 .. n, NEW j \in 1 .. n, j < i
      PROVE  report.rows[j].at + MIN_SEP < report.rows[i].at
  <2>1. PICK v \in 1 .. Len(windows), w \in 1 .. Len(windows) : v = e[j] /\ w = e[i]
    BY <1>5
  <2>2. v < w
    BY <1>6, <1>9, <2>1
  <2>3. QED
    BY <1>5, <1>7, <2>1, <2>2
<1>10. csv # <<>>
  <2>1. 1 \in 1 .. Len(windows)
    BY <1>1, <1>7, EmptySeq DEF Reported
  <2>2. windows[1] * BPS < total /\ windows[1] * BPS \in Nat
    BY <1>8, <2>1, ClockAssumption
  <2>3. total # 0
    BY <2>2
  <2>4. QED
    BY <2>3 DEF CaptureInv, Tiled
<1>11. ASSUME opts.kind = "legacy", NEW i \in 1 .. n
       PROVE  /\ report.rows[i].timestamp + csv[1].epoch = report.rows[i].mobile
              /\ report.rows[i].mobile >= report.rows[i].at * BPS
              /\ \A j \in 1 .. n : j < i =>
                   report.rows[j].timestamp < report.rows[i].timestamp + BUFFER
  <2>1. \A k \in 1 .. n : p[k] \in PacketType /\ p[k].at * BPS < total
    BY <1>5, <1>8
  <2>2. PICK a \in Nat : a = p[i].at * BPS
    BY <1>5, ClockAssumption DEF PacketType
  <2>3. PICK m \in 1 .. Len(csv), o, d, t0 \in Nat :
          /\ m = RowAt(csv, a)
          /\ o = csv[m].off /\ d = csv[m].epoch /\ t0 = csv[1].epoch
          /\ o <= a /\ a < o + BUFFER /\ o <= d
          /\ Row(p[i]).mobile = d + (a - o)
          /\ Row(p[i]).timestamp = d + (a - o) - t0
    <3>1. PICK x \in PacketType : x = p[i] /\ a < total /\ a = x.at * BPS
      BY <2>1, <2>2
    <3>2. QED
      BY <1>10, <1>11, <3>1, LegacyTimes
  <2>4. report.rows[i] = Row(p[i]) /\ report.rows[i].at * BPS = a
    BY <1>5, <2>2
  <2>5. report.rows[i].timestamp + csv[1].epoch = report.rows[i].mobile
    BY <2>3, <2>4
  <2>6. report.rows[i].mobile >= report.rows[i].at * BPS
    <3>1. d + (a - o) >= a
      BY <2>3
    <3>2. QED
      BY <2>3, <2>4, <3>1
  <2>7. ASSUME NEW j \in 1 .. n, j < i
        PROVE  report.rows[j].timestamp < report.rows[i].timestamp + BUFFER
    <3>1. PICK b \in Nat : b = p[j].at * BPS
      BY <1>5, ClockAssumption DEF PacketType
    <3>2. PICK l \in 1 .. Len(csv), q, c, t1 \in Nat :
            /\ l = RowAt(csv, b)
            /\ q = csv[l].off /\ c = csv[l].epoch /\ t1 = csv[1].epoch
            /\ q <= b /\ b < q + BUFFER /\ q <= c
            /\ Row(p[j]).mobile = c + (b - q)
            /\ Row(p[j]).timestamp = c + (b - q) - t1
      <4>1. PICK x \in PacketType : x = p[j] /\ b < total /\ b = x.at * BPS
        BY <2>1, <3>1
      <4>2. PICK l \in 1 .. Len(csv), q, c, t1 \in Nat :
              /\ l = RowAt(csv, b)
              /\ q = csv[l].off /\ c = csv[l].epoch /\ t1 = csv[1].epoch
              /\ q <= b /\ b < q + BUFFER /\ q <= c
              /\ Row(x).mobile = c + (b - q)
              /\ Row(x).timestamp = c + (b - q) - t1
        BY <1>10, <1>11, <4>1, LegacyTimes
      <4>3. /\ Row(p[j]).mobile = c + (b - q)
            /\ Row(p[j]).timestamp = c + (b - q) - t1
        BY <4>1, <4>2, Zenon
      <4>4. WITNESS l \in 1 .. Len(csv), q \in Nat, c \in Nat, t1 \in Nat
      <4>5. QED
        BY <4>2, <4>3
    <3>3. b < a
      <4>1. PICK x \in Nat, y \in Nat : x = p[j].at /\ y = p[i].at
        BY <1>5, <1>8
      <4>2. x < y
        <5>1. report.rows[j].at + MIN_SEP < report.rows[i].at
          BY <1>9, <2>7
        <5>2. x + MIN_SEP < y /\ MIN_SEP \in Nat
          BY <1>5, <4>1, <5>1, PoolAssumption
        <5>3. QED
          BY <5>2
      <4>3. BPS \in Nat /\ BPS > 0
        BY ClockAssumption
      <4>4. x * BPS < y * BPS
        BY <4>2, <4>3
      <4>5. QED
        BY <2>2, <3>1, <4>1, <4>4
    <3>4. l <= m
      <4>1. q <= a
        BY <3>2, <3>3
      <4>2. csv[l].off <= a <=> l <= RowAt(csv, a)
        BY RowSet DEF CaptureInv
      <4>3. QED
        BY <2>3, <3>2, <4>1, <4>2
    <3>5. c <= d
      BY <2>3, <3>2, <3>4, EpochsRise
    <3>6. BUFFER \in Nat /\ t0 = t1
      BY <2>3, <3>2, PoolAssumption
    <3>7. c + (b - q) - t1 < (d + (a - o) - t0) + BUFFER
      <4>1. /\ o <= a /\ q <= b /\ b < q + BUFFER /\ c <= d /\ t0 = t1
            /\ BUFFER \in Nat
        BY <2>3, <3>2, <3>5, <3>6
      <4>2. QED
        BY <4>1, LessThanRead
    <3>8. report.rows[j] = Row(p[j])
      BY <1>5
    <3>9. QED
      BY <2>3, <2>4, <3>2, <3>7, <3>8
  <2>8. QED
    BY <2>5, <2>6, <2>7
<1>12. \A i \in 1 .. n :
         /\ \A j \in 1 .. i - 1 :
              /\ report.rows[j].at + MIN_SEP < report.rows[i].at
              /\ opts.kind = "legacy" =>
                   report.rows[j].timestamp < report.rows[i].timestamp + BUFFER
         /\ opts.kind = "legacy" =>
              report.rows[i].timestamp + csv[1].epoch = report.rows[i].mobile
         /\ opts.kind = "legacy" =>
              report.rows[i].mobile >= report.rows[i].at * BPS
  <2>1. \A i \in 1 .. n : \A j \in 1 .. i - 1 : j \in 1 .. n /\ j < i
    OBVIOUS
  <2>2. QED
    BY <1>9, <1>11, <2>1
<1>13. QED
  BY <1>3, <1>12 DEF RowsOrdered

(* The rows of a report are in the order of the capture, one per packet;   *)
(* and with the bridge's timestamps each is dated, never before its        *)
(* samples were taken, and out of order by less than a read, for every     *)
(* size of read and every capture.                                         *)
THEOREM RowsKeepOrder == DecodeSpec => []RowsOrdered
<1>1. CaptureInv /\ PoolInv => RowsOrdered
  BY RowsInOrder
<1>2. QED
  BY <1>1, AlwaysCaptured, AlwaysPooled, PTL

-----------------------------------------------------------------------------
(* The loop the pool was made from: a window adds to its report what the   *)
(* window's task returns.                                                  *)

Reports ==
  [packets : Seq(PacketType \cup {None}), rows : Seq(RowType \cup {None}),
   tags : SUBSET Digests, stats : [Counted -> Nat], inst : [Flags -> Nat]]

\* acc and then what a task returned.
Adds(next, acc, o) ==
  /\ next.packets = IF o.pkt # None /\ Len(acc.packets) < opts.max
                    THEN Append(acc.packets, o.pkt) ELSE acc.packets
  /\ next.rows = IF o.cfo_row # None THEN Append(acc.rows, o.cfo_row) ELSE acc.rows
  /\ next.stats = [f \in Counted |-> acc.stats[f] + IF o[f] THEN 1 ELSE 0]
  /\ next.inst = [f \in Flags |-> acc.inst[f] + IF f \in o.inst THEN 1 ELSE 0]

LEMMA WindowAdds ==
  ASSUME CaptureInv, PoolInv, NEW w \in 1 .. Len(windows), IsBurst(burst[w]),
         NEW acc \in Reports
  PROVE  Window(acc, w) \in Reports /\ Adds(Window(acc, w), acc, ResultOf(w))
<1>1. Position(w)
  BY DEF Position, PoolInv, Apart
<1>2. PICK b : b = burst[w] /\ IsBurst(b)
  OBVIOUS
<1>3. PICK p : p = ReportedPacket(w, b, Key[Parent])
  OBVIOUS
<1>4. PICK res \in ResultType : res = WindowResult(b)
  BY <1>2, WindowResultType DEF IsBurst
<1>5. PICK g \in BOOLEAN : g = (res.any # NoHyp /\ res.any.tag)
  OBVIOUS
<1>6. /\ acc.packets \in Seq(PacketType \cup {None}) /\ acc.rows \in Seq(RowType \cup {None})
      /\ acc.tags \in SUBSET Digests /\ acc.stats \in [Counted -> Nat]
      /\ acc.inst \in [Flags -> Nat]
  BY DEF Reports
<1>7. PICK st : st = [f \in Counted |->
                        acc.stats[f] + IF CASE f = "both_hit" -> res.both_hit
                                            [] f = "crc_ok" -> res.crc_ok
                                            [] f = "tag_any" -> g
                                            [] f = "kept" -> FALSE
                                       THEN 1 ELSE 0]
  OBVIOUS
<1>8. PICK met : met = [acc EXCEPT !.stats = st]
  OBVIOUS
<1>9. /\ st["both_hit"] = acc.stats["both_hit"] + IF res.both_hit THEN 1 ELSE 0
      /\ st["crc_ok"] = acc.stats["crc_ok"] + IF res.crc_ok THEN 1 ELSE 0
      /\ st["tag_any"] = acc.stats["tag_any"] + IF g THEN 1 ELSE 0
      /\ st["kept"] = acc.stats["kept"] + 0
  BY <1>7 DEF Counted
<1>10. st \in [Counted -> Nat] /\ "kept" \in Counted
  <2>1. \A f \in Counted : st[f] \in Nat
    BY <1>6, <1>9 DEF Counted
  <2>2. st = [f \in Counted |-> st[f]]
    BY <1>7
  <2>3. QED
    BY <2>1, <2>2 DEF Counted
<1>11. /\ met.packets = acc.packets /\ met.rows = acc.rows /\ met.tags = acc.tags
       /\ met.stats = st /\ met.inst = acc.inst /\ met \in Reports
  BY <1>8, <1>10 DEF Reports
<1>12. CASE Chosen(b) = NoHyp \/ ~ Keep(Chosen(b))
  <2>1. PICK o : o = [idx |-> w, both_hit |-> res.both_hit, crc_ok |-> res.crc_ok,
               tag_any |-> g, kept |-> FALSE, pkt |-> None, cfo_row |-> None,
               tag_adva |-> None, inst |-> {}]
    OBVIOUS
  <2>2. ResultOf(w) = o
    BY <1>2, <1>4, <1>5, <1>12, <2>1, Zenon DEF ResultOf, TaskOut
  <2>3. Window(acc, w) = met
    BY <1>2, <1>4, <1>5, <1>7, <1>8, <1>12 DEF Window
  <2>4. st = [f \in Counted |-> acc.stats[f] + IF o[f] THEN 1 ELSE 0]
    BY <1>7, <2>1 DEF Counted
  <2>5. acc.inst = [f \in Flags |-> acc.inst[f] + IF f \in o.inst THEN 1 ELSE 0]
    BY <1>6, <2>1
  <2>6. o.pkt = None /\ o.cfo_row = None
    BY <2>1
  <2>7. Adds(met, acc, o)
    BY <1>11, <2>4, <2>5, <2>6 DEF Adds
  <2>8. QED
    BY <1>11, <2>2, <2>3, <2>7
<1>13. CASE ~ (Chosen(b) = NoHyp \/ ~ Keep(Chosen(b)))
  <2>1. p \in PacketType /\ p # None /\ p.AdvA \in Digests
    BY <1>1, <1>2, <1>3, <1>13, PacketTyped, DigestAssumption DEF PacketType
  <2>2. Row(p) \in RowType /\ Row(p) # None
    BY <2>1, RowTyped, DigestAssumption DEF CaptureInv
  <2>3. PICK o : o = [idx |-> w, both_hit |-> res.both_hit, crc_ok |-> res.crc_ok,
               tag_any |-> g, kept |-> TRUE, pkt |-> p,
               cfo_row |-> IF p.tag THEN Row(p) ELSE None,
               tag_adva |-> IF p.tag THEN b.adv.mac ELSE None, inst |-> res.inst]
    OBVIOUS
  <2>4. ResultOf(w) = o
    <3>1. PICK seen : seen = [idx |-> w, both_hit |-> res.both_hit, crc_ok |-> res.crc_ok,
               tag_any |-> g, kept |-> FALSE, pkt |-> None, cfo_row |-> None,
               tag_adva |-> None, inst |-> {}]
      OBVIOUS
    <3>2. ResultOf(w) =
            [seen EXCEPT !.kept = TRUE, !.pkt = p, !.inst = res.inst,
                         !.cfo_row = IF p.tag THEN Row(p) ELSE None,
                         !.tag_adva = IF p.tag THEN b.adv.mac ELSE None]
      BY <1>2, <1>3, <1>4, <1>5, <1>13, <3>1, Zenon DEF ResultOf, TaskOut, TaskKey
    <3>3. QED
      BY <2>3, <3>1, <3>2
  <2>5. PICK pk, rw, tg, sk, ins :
          /\ pk = IF Len(acc.packets) < opts.max THEN Append(acc.packets, p) ELSE acc.packets
          /\ rw = IF p.tag THEN Append(acc.rows, Row(p)) ELSE acc.rows
          /\ tg = IF p.tag THEN acc.tags \cup {p.AdvA} ELSE acc.tags
          /\ sk = [st EXCEPT !["kept"] = @ + 1]
          /\ ins = [f \in Flags |-> acc.inst[f] + IF f \in res.inst THEN 1 ELSE 0]
    OBVIOUS
  <2>6. Window(acc, w) = [packets |-> pk, rows |-> rw, tags |-> tg, stats |-> sk, inst |-> ins]
    <3>1. Window(acc, w) =
            [packets |-> IF Len(met.packets) < opts.max
                         THEN Append(met.packets, p) ELSE met.packets,
             rows |-> IF p.tag THEN Append(met.rows, Row(p)) ELSE met.rows,
             tags |-> IF p.tag THEN met.tags \cup {p.AdvA} ELSE met.tags,
             stats |-> [met.stats EXCEPT !["kept"] = @ + 1],
             inst |-> [f \in Flags |-> met.inst[f] + IF f \in res.inst THEN 1 ELSE 0]]
      <4> DEFINE r == WindowResult(burst[w])
                 q == ReportedPacket(w, burst[w], Key[Parent])
                 seen(f) == CASE f = "both_hit" -> r.both_hit
                              [] f = "crc_ok" -> r.crc_ok
                              [] f = "tag_any" -> r.any # NoHyp /\ r.any.tag
                              [] f = "kept" -> FALSE
                 one(c) == IF c THEN 1 ELSE 0
                 met0 == [acc EXCEPT !.stats = [f \in Counted |-> @[f] + one(seen(f))]]
      <4>1. met0 = met
        BY <1>2, <1>4, <1>5, <1>7, <1>8
      <4>2. ~ (Chosen(burst[w]) = NoHyp \/ ~ Keep(Chosen(burst[w])))
        BY <1>2, <1>13
      <4>3. Window(acc, w) =
              [packets |-> IF Len(met0.packets) < opts.max
                           THEN Append(met0.packets, q) ELSE met0.packets,
               rows |-> IF q.tag THEN Append(met0.rows, Row(q)) ELSE met0.rows,
               tags |-> IF q.tag THEN met0.tags \cup {q.AdvA} ELSE met0.tags,
               stats |-> [met0.stats EXCEPT !["kept"] = @ + 1],
               inst |-> [f \in Flags |-> met0.inst[f] + one(f \in r.inst)]]
        BY <4>2, Zenon DEF Window
      <4>4. q = p /\ r = res
        BY <1>2, <1>3, <1>4
      <4> HIDE DEF met0, q, r
      <4>5. QED
        BY <4>1, <4>3, <4>4, Zenon
    <3>2. QED
      BY <1>11, <2>5, <3>1
  <2>7. pk \in Seq(PacketType \cup {None}) /\ rw \in Seq(RowType \cup {None})
    <3>1. Append(acc.packets, p) \in Seq(PacketType \cup {None})
      BY <1>6, <2>1
    <3>2. Append(acc.rows, Row(p)) \in Seq(RowType \cup {None})
      BY <1>6, <2>2
    <3>3. QED
      BY <1>6, <2>5, <3>1, <3>2
  <2>8. tg \in SUBSET Digests /\ sk \in [Counted -> Nat] /\ ins \in [Flags -> Nat]
    BY <1>6, <1>10, <2>1, <2>5
  <2>9. sk = [f \in Counted |-> acc.stats[f] + IF o[f] THEN 1 ELSE 0]
    <3>1. \A f \in Counted : sk[f] = acc.stats[f] + IF o[f] THEN 1 ELSE 0
      <4>1. sk["kept"] = acc.stats["kept"] + 1 /\ o["kept"] = TRUE
        BY <1>6, <1>10, <1>9, <2>3, <2>5 DEF Counted
      <4>2. \A f \in Counted \ {"kept"} : sk[f] = st[f]
        BY <1>10, <2>5
      <4>6. o["both_hit"] = res.both_hit /\ o["crc_ok"] = res.crc_ok /\ o["tag_any"] = g
        BY <2>3
      <4>7. QED
        BY <1>9, <4>1, <4>2, <4>6 DEF Counted
    <3>2. QED
      BY <2>8, <3>1
  <2>10. o.pkt = p /\ o.inst = res.inst /\ o.cfo_row = IF p.tag THEN Row(p) ELSE None
    BY <2>3
  <2>11. Adds(Window(acc, w), acc, o)
    <3>1. PICK n : n = Window(acc, w) /\ n.packets = pk /\ n.rows = rw
                    /\ n.stats = sk /\ n.inst = ins
      BY <2>6
    <3>2. pk = IF o.pkt # None /\ Len(acc.packets) < opts.max
               THEN Append(acc.packets, o.pkt) ELSE acc.packets
      BY <2>1, <2>5, <2>10
    <3>3. rw = IF o.cfo_row # None THEN Append(acc.rows, o.cfo_row) ELSE acc.rows
      BY <2>2, <2>5, <2>10
    <3>4. ins = [f \in Flags |-> acc.inst[f] + IF f \in o.inst THEN 1 ELSE 0]
      BY <2>5, <2>10
    <3>5. QED
      BY <2>9, <3>1, <3>2, <3>3, <3>4 DEF Adds
  <2>12. Window(acc, w) \in Reports
    BY <2>6, <2>7, <2>8 DEF Reports
  <2>13. QED
    BY <2>4, <2>11, <2>12
<1>14. QED
  BY <1>12, <1>13

LEMMA MinOfTwo ==
  ASSUME NEW a \in Int, NEW b \in Int
  PROVE  Min({a, b}) = IF a <= b THEN a ELSE b
<1>1. PICK m : m = IF a <= b THEN a ELSE b
  OBVIOUS
<1>2. m \in {a, b} /\ \A y \in {a, b} : m <= y
  BY <1>1
<1>3. \A x \in {a, b} : (\A y \in {a, b} : x <= y) => x = m
  BY <1>1
<1>4. Min({a, b}) = CHOOSE x \in {a, b} : \A y \in {a, b} : x <= y
  BY Zenon DEF Min
<1>5. QED
  BY <1>1, <1>2, <1>3, <1>4, Zenon

LEMMA TruncatedStep ==
  ASSUME opts.max \in Int, NEW S, NEW u \in Seq(S), NEW x \in S
  PROVE  Truncated(Append(u, x)) =
           IF Len(Truncated(u)) < opts.max THEN Append(Truncated(u), x)
           ELSE Truncated(u)
<1>1. PICK M \in Int, L \in Nat : M = opts.max /\ L = Len(u)
  OBVIOUS
<1>2. PICK v \in Seq(S) : v = Append(u, x)
  <2>1. Append(u, x) \in Seq(S)
    OBVIOUS
  <2>2. QED
    BY <2>1
<1>3. Len(v) = L + 1 /\ v[L + 1] = x /\ \A i \in 1 .. L : v[i] = u[i]
  BY <1>1, <1>2
<1>4. CASE ~ (M > 0)
  <2>1. Truncated(u) = <<>> /\ Truncated(v) = <<>> /\ Len(<<>>) = 0
    BY <1>1, <1>4 DEF Truncated
  <2>2. QED
    BY <1>1, <1>2, <1>4, <2>1
<1>5. CASE M > 0 /\ L < M
  <2>1. Min({M, L}) = L /\ Min({M, L + 1}) = L + 1
    BY <1>5, MinOfTwo
  <2>2. Truncated(u) = SubSeq(u, 1, L) /\ Truncated(v) = SubSeq(v, 1, L + 1)
    BY <1>1, <1>3, <1>5, <2>1 DEF Truncated
  <2>3. SubSeq(u, 1, L) = u /\ SubSeq(v, 1, L + 1) = v
    BY <1>1, <1>3
  <2>4. QED
    BY <1>1, <1>2, <1>5, <2>2, <2>3
<1>6. CASE M > 0 /\ ~ (L < M)
  <2>1. Min({M, L}) = M /\ Min({M, L + 1}) = M
    BY <1>6, MinOfTwo
  <2>2. Truncated(u) = SubSeq(u, 1, M) /\ Truncated(v) = SubSeq(v, 1, M)
    BY <1>1, <1>3, <1>6, <2>1 DEF Truncated
  <2>3. M \in 0 .. Len(u) /\ M \in 0 .. Len(v)
    BY <1>1, <1>3, <1>6
  <2>4. PICK a \in Seq(S), c \in Seq(S) : a = SubSeq(u, 1, M) /\ c = SubSeq(v, 1, M)
    BY <2>3, PrefixType
  <2>5. Len(a) = M /\ Len(c) = M /\ \A i \in 1 .. M : a[i] = u[i] /\ c[i] = v[i]
    BY <2>3, <2>4
  <2>6. \A i \in 1 .. M : a[i] = c[i]
    BY <1>1, <1>3, <1>6, <2>5
  <2>7. a = c
    BY <2>5, <2>6, SeqEqual
  <2>8. Truncated(u) = a /\ Truncated(Append(u, x)) = a
    BY <1>2, <2>2, <2>4, <2>7
  <2>9. ~ (Len(a) < opts.max)
    BY <1>1, <2>5
  <2>10. QED
    BY <2>8, <2>9, Zenon
<1>7. QED
  BY <1>4, <1>5, <1>6

\* The first n results that have f.
Upto(A, n) == {i \in 1 .. n : i \in A}

LEMMA CountStep ==
  ASSUME NEW n \in Nat, n > 0, NEW A
  PROVE  /\ Cardinality(Upto(A, n - 1)) \in Nat
         /\ Cardinality(Upto(A, n)) =
              Cardinality(Upto(A, n - 1)) + IF n \in A THEN 1 ELSE 0
<1>0. PICK k \in Nat : k = n - 1
  OBVIOUS
<1>1. PICK U, V : U = Upto(A, n - 1) /\ V = Upto(A, n)
  OBVIOUS
<1>2. IsFiniteSet(1 .. k) /\ U \in SUBSET (1 .. k)
  BY <1>0, <1>1, FS_Interval DEF Upto
<1>3. IsFiniteSet(U) /\ Cardinality(U) \in Nat
  BY <1>2, FS_Subset, FS_CardinalityType
<1>4. n \notin U
  BY <1>1 DEF Upto
<1>5. CASE n \in A
  <2>1. V = U \cup {n}
    BY <1>1, <1>5 DEF Upto
  <2>2. Cardinality(V) = Cardinality(U) + 1
    BY <1>3, <1>4, <2>1, FS_AddElement
  <2>3. QED
    BY <1>1, <1>3, <1>5, <2>2
<1>6. CASE n \notin A
  <2>1. V = U
    BY <1>1, <1>6 DEF Upto
  <2>2. QED
    BY <1>1, <1>3, <1>6, <2>1
<1>7. QED
  BY <1>5, <1>6

Blank == [packets |-> <<>>, rows |-> <<>>, tags |-> {},
          stats |-> [f \in Counted |-> 0], inst |-> [f \in Flags |-> 0]]

\* The loop's report after each window.
LoopRun(f) ==
  /\ f[0] = Blank
  /\ \A n \in 1 .. Len(windows) : f[n] = Window(f[n - 1], n)

LEMMA SerialRun ==
  ASSUME CaptureInv, PoolInv, \A w \in 1 .. Len(windows) : IsBurst(burst[w])
  PROVE  \E f \in [0 .. Len(windows) -> Reports] :
           LoopRun(f) /\ SerialReport = f[Len(windows)]
<1>0. PICK N \in Nat : N = Len(windows)
  BY DEF PoolInv, Apart
<1>1. PICK Y, z, t :
        /\ Y = Reports /\ z = Blank
        /\ t = [p \in (1 .. N) \X Y |-> Window(p[2], p[1])]
  OBVIOUS
<1>2. \A n \in 1 .. N, x \in Y : Window(x, n) \in Y
  BY <1>0, <1>1, WindowAdds
<1>3. z \in Y /\ t \in [(1 .. N) \X Y -> Y]
  <2>1. z \in Y
    BY <1>1 DEF Blank, Reports
  <2>2. ASSUME NEW p \in (1 .. N) \X Y PROVE Window(p[2], p[1]) \in Y
    BY <1>2
  <2>3. QED
    BY <1>1, <2>1, <2>2
<1>4. \A n \in 1 .. N, x \in Y : t[<<n, x>>] = Window(x, n)
  BY <1>1
<1>5. PICK f \in [0 .. N -> Y] : Runs(f, N, z, t)
  BY <1>3, RunExists
<1>6. f[0] = z /\ \A n \in 1 .. N : f[n] = Window(f[n - 1], n)
  <2>1. ASSUME NEW n \in 1 .. N PROVE f[n] = Window(f[n - 1], n)
    <3>1. f[n] = t[<<n, f[n - 1]>>] /\ f[n - 1] \in Y
      BY <1>5 DEF Runs
    <3>2. QED
      BY <1>4, <3>1
  <2>2. QED
    BY <1>5, <2>1 DEF Runs
<1>7. PICK F :
        /\ F = CHOOSE g :
                 g = [n \in 0 .. Len(windows) |->
                        IF n = 0 THEN Blank ELSE Window(g[n - 1], n)]
        /\ SerialReport = F[Len(windows)]
  BY DEF SerialReport, Blank
<1>8. F = [n \in 0 .. N |-> IF n = 0 THEN Blank ELSE Window(F[n - 1], n)]
  <2>1. \A n \in 0 .. N : n = 0 \/ (n \in 1 .. N /\ n # 0)
    OBVIOUS
  <2>2. \A n \in 0 .. N : f[n] = IF n = 0 THEN Blank ELSE Window(f[n - 1], n)
    BY <1>1, <1>6, <2>1, Zenon
  <2>3. f = [n \in 0 .. N |-> IF n = 0 THEN Blank ELSE Window(f[n - 1], n)]
    BY <2>2
  <2>4. F = CHOOSE g :
              g = [n \in 0 .. N |-> IF n = 0 THEN Blank ELSE Window(g[n - 1], n)]
    BY <1>0, <1>7
  <2>5. QED
    BY <2>3, <2>4
<1>9. Tracks(F, f, N, Y, z, t)
  <2>1. F[0] = z
    BY <1>1, <1>8
  <2>2. \A n \in 1 .. N : n \in 0 .. N /\ n # 0
    OBVIOUS
  <2>3. \A n \in 1 .. N : F[n] = Window(F[n - 1], n)
    BY <1>8, <2>2, Zenon
  <2>4. \A n \in 1 .. N : F[n - 1] \in Y => F[n] = t[<<n, F[n - 1]>>]
    BY <1>4, <2>3, Zenon
  <2>5. QED
    BY <1>3, <1>5, <2>1, <2>4 DEF Tracks
<1>10. F[N] = f[N]
  BY <1>9, RunUnique
<1>11. LoopRun(f)
  BY <1>0, <1>1, <1>6 DEF LoopRun
<1>12. QED
  BY <1>0, <1>1, <1>7, <1>10, <1>11

\* What the loop has after n windows is what the pool would report of them.
Agree(rep, n, pkts, rows, had, hit) ==
  /\ rep.packets = Truncated(pkts) /\ rep.rows = rows
  /\ rep.stats = [f \in Counted |-> Cardinality(Upto(had[f], n))]
  /\ rep.inst = [f \in Flags |-> Cardinality(Upto(hit[f], n))]

LEMMA AgreeStep ==
  ASSUME opts.max \in Int, NEW n \in Nat, n > 0, NEW acc, NEW next, NEW o,
         NEW pkts \in Seq(PacketType \cup {None}), NEW rows, NEW had, NEW hit,
         Agree(acc, n - 1, pkts, rows, had, hit), Adds(next, acc, o),
         o.pkt \in PacketType \cup {None},
         \A f \in Counted : n \in had[f] <=> o[f],
         \A f \in Flags : n \in hit[f] <=> f \in o.inst
  PROVE  Agree(next, n,
               IF o.pkt # None THEN Append(pkts, o.pkt) ELSE pkts,
               IF o.cfo_row # None THEN Append(rows, o.cfo_row) ELSE rows, had, hit)
<1>1. next.packets = Truncated(IF o.pkt # None THEN Append(pkts, o.pkt) ELSE pkts)
  <2>1. CASE o.pkt = None
    BY <2>1 DEF Agree, Adds
  <2>2. CASE o.pkt # None
    <3>1. Truncated(Append(pkts, o.pkt)) =
            IF Len(Truncated(pkts)) < opts.max THEN Append(Truncated(pkts), o.pkt)
            ELSE Truncated(pkts)
      BY TruncatedStep
    <3>2. acc.packets = Truncated(pkts)
      BY DEF Agree
    <3>3. next.packets = IF Len(acc.packets) < opts.max
                         THEN Append(acc.packets, o.pkt) ELSE acc.packets
      BY <2>2 DEF Adds
    <3>4. QED
      BY <2>2, <3>1, <3>2, <3>3
  <2>3. QED
    BY <2>1, <2>2
<1>2. next.rows = IF o.cfo_row # None THEN Append(rows, o.cfo_row) ELSE rows
  BY DEF Agree, Adds
<1>3. next.stats = [f \in Counted |-> Cardinality(Upto(had[f], n))]
  <2>1. ASSUME NEW f \in Counted
        PROVE  acc.stats[f] + (IF o[f] THEN 1 ELSE 0) = Cardinality(Upto(had[f], n))
    <3>0. PICK A : A = had[f]
      OBVIOUS
    <3>1. PICK c \in Nat : c = Cardinality(Upto(A, n - 1))
      BY CountStep
    <3>2. Cardinality(Upto(A, n)) = c + IF n \in A THEN 1 ELSE 0
      BY <3>1, CountStep
    <3>3. acc.stats[f] = c
      BY <3>0, <3>1 DEF Agree
    <3>4. QED
      BY <3>0, <3>2, <3>3
  <2>2. next.stats = [f \in Counted |-> acc.stats[f] + IF o[f] THEN 1 ELSE 0]
    BY DEF Adds
  <2>3. QED
    BY <2>1, <2>2
<1>4. next.inst = [f \in Flags |-> Cardinality(Upto(hit[f], n))]
  <2>1. ASSUME NEW f \in Flags
        PROVE  acc.inst[f] + (IF f \in o.inst THEN 1 ELSE 0) = Cardinality(Upto(hit[f], n))
    <3>0. PICK A : A = hit[f]
      OBVIOUS
    <3>1. PICK c \in Nat : c = Cardinality(Upto(A, n - 1))
      BY CountStep
    <3>2. Cardinality(Upto(A, n)) = c + IF n \in A THEN 1 ELSE 0
      BY <3>1, CountStep
    <3>3. acc.inst[f] = c
      BY <3>0, <3>1 DEF Agree
    <3>4. QED
      BY <3>0, <3>2, <3>3
  <2>2. next.inst = [f \in Flags |-> acc.inst[f] + IF f \in o.inst THEN 1 ELSE 0]
    BY DEF Adds
  <2>3. QED
    BY <2>1, <2>2
<1>5. QED
  BY <1>1, <1>2, <1>3, <1>4 DEF Agree

\* A column of results: f[n] is what is present of its first n.
Column(f, s) ==
  /\ f[0] = <<>> /\ Present(s) = f[Len(s)]
  /\ \A n \in 1 .. Len(s) :
       f[n] = IF s[n] # None THEN Append(f[n - 1], s[n]) ELSE f[n - 1]

LEMMA PresentRun ==
  ASSUME NEW S, NEW s \in Seq(S)
  PROVE  \E f \in [0 .. Len(s) -> Seq(S)] : Column(f, s)
<1>1. PICK T : T = {i \in DOMAIN s : s[i] # None} /\ Present(s) = Sublist(s, T)
  BY DEF Present, Those
<1>2. PICK f \in [0 .. Len(s) -> Seq(S)] : Takes(f, s, T) /\ Sublist(s, T) = f[Len(s)]
  BY SublistRun
<1>3. \A n \in 1 .. Len(s) : n \in T <=> s[n] # None
  BY <1>1
<1>4. QED
  BY <1>1, <1>2, <1>3 DEF Takes, Column

LEMMA PoolAgrees ==
  ASSUME CaptureInv, PoolInv
  PROVE  ParallelAsSerial
<1>0. SUFFICES ASSUME Reported
      PROVE  [report EXCEPT !.tags = {}] = [SerialReport EXCEPT !.tags = {}]
  BY DEF ParallelAsSerial
<1>1. Len(outs) = Len(windows) /\ report = Aggregate(Gathered)
  BY <1>0 DEF Reported, PoolInv, Finished
<1>2. PICK N \in Nat : N = Len(windows)
  BY DEF PoolInv, Apart
<1>3. PICK G \in Seq(OutType) : /\ G = Gathered /\ Len(G) = N /\ DOMAIN G = 1 .. N
        /\ \A w \in 1 .. N : G[w] = ResultOf(w) /\ IsBurst(burst[w]) /\ G[w] \in OutType
  <2>1. PICK G \in Seq(OutType) : /\ G = Gathered /\ Len(G) = N
        /\ \A w \in 1 .. N : G[w] = ResultOf(w) /\ IsBurst(burst[w])
    BY <1>1, <1>2, GatheredFacts
  <2>2. DOMAIN G = 1 .. N /\ \A w \in 1 .. N : G[w] \in OutType
    BY <2>1
  <2>3. QED
    BY <2>1, <2>2
<1>4. PICK f \in [0 .. N -> Reports] : /\ f[0] = Blank /\ SerialReport = f[N]
                                       /\ \A n \in 1 .. N : f[n] = Window(f[n - 1], n)
  BY <1>2, <1>3, SerialRun DEF LoopRun
<1>5. PICK sp \in Seq(PacketType \cup {None}) :
        sp = [i \in 1 .. N |-> G[i].pkt] /\ Len(sp) = N
  <2>1. \A i \in 1 .. N : G[i].pkt \in PacketType \cup {None}
    BY <1>3 DEF OutType
  <2>2. QED
    BY <2>1
<1>6. PICK sr \in Seq(RowType \cup {None}) :
        sr = [i \in 1 .. N |-> G[i].cfo_row] /\ Len(sr) = N
  <2>1. \A i \in 1 .. N : G[i].cfo_row \in RowType \cup {None}
    BY <1>3 DEF OutType
  <2>2. QED
    BY <2>1
<1>7. PICK fp \in [0 .. N -> Seq(PacketType \cup {None})] :
        /\ fp[0] = <<>> /\ Present(sp) = fp[N]
        /\ \A n \in 1 .. N :
             fp[n] = IF sp[n] # None THEN Append(fp[n - 1], sp[n]) ELSE fp[n - 1]
  <2>1. PICK S : S = PacketType \cup {None} /\ sp \in Seq(S)
    BY <1>5
  <2>2. PICK g \in [0 .. Len(sp) -> Seq(S)] : Column(g, sp)
    BY <2>1, PresentRun
  <2>3. QED
    BY <1>5, <2>1, <2>2, Zenon DEF Column
<1>8. PICK fr \in [0 .. N -> Seq(RowType \cup {None})] :
        /\ fr[0] = <<>> /\ Present(sr) = fr[N]
        /\ \A n \in 1 .. N :
             fr[n] = IF sr[n] # None THEN Append(fr[n - 1], sr[n]) ELSE fr[n - 1]
  <2>1. PICK S : S = RowType \cup {None} /\ sr \in Seq(S)
    BY <1>6
  <2>2. PICK g \in [0 .. Len(sr) -> Seq(S)] : Column(g, sr)
    BY <2>1, PresentRun
  <2>3. QED
    BY <1>6, <2>1, <2>2, Zenon DEF Column
<1>9. PICK had, hit : /\ had = [c \in Counted |-> {i \in 1 .. N : G[i][c]}]
                      /\ hit = [c \in Flags |-> {i \in 1 .. N : c \in G[i].inst}]
  OBVIOUS
<1>10. opts.max \in Int
  BY PoolAssumption DEF CaptureInv
<1> DEFINE Q == {n \in Nat : n <= N => Agree(f[n], n, fp[n], fr[n], had, hit)}
<1>11. 0 \in Q
  <2>1. Truncated(<<>>) = <<>>
    <3>1. CASE opts.max > 0
      <4>1. PICK M \in Int : M = opts.max
        BY <1>10
      <4>2. PICK Z \in Int : Z = 0
        OBVIOUS
      <4>3. Min({M, Z}) = Z
        <5>1. ~ (M <= Z)
          BY <3>1, <4>1, <4>2
        <5>2. Min({M, Z}) = IF M <= Z THEN M ELSE Z
          BY MinOfTwo
        <5>3. QED
          BY <5>1, <5>2, Zenon
      <4>4. QED
        BY <3>1, <4>1, <4>2, <4>3 DEF Truncated
    <3>2. QED
      BY <3>1 DEF Truncated
  <2>2. \A A : Cardinality(Upto(A, 0)) = 0
    <3>1. \A A : Upto(A, 0) = {}
      BY DEF Upto
    <3>2. QED
      BY <3>1, FS_EmptySet
  <2>3. Agree(Blank, 0, <<>>, <<>>, had, hit)
    BY <2>1, <2>2 DEF Agree, Blank
  <2>4. QED
    BY <1>4, <1>7, <1>8, <2>3
<1>12. ASSUME NEW n \in 1 .. N, n - 1 \in Q PROVE n \in Q
  <2>0. PICK acc \in Reports, next \in Reports :
          acc = f[n - 1] /\ next = f[n] /\ next = Window(acc, n)
    <3>1. n - 1 \in 0 .. N /\ n \in 0 .. N
      OBVIOUS
    <3>2. QED
      BY <1>4, <3>1
  <2>1. PICK o \in OutType : o = ResultOf(n) /\ o = G[n]
    BY <1>3
  <2>2. Adds(next, acc, o)
    BY <1>2, <1>3, <2>0, <2>1, WindowAdds
  <2>3. PICK pkts \in Seq(PacketType \cup {None}), rows \in Seq(RowType \cup {None}) :
          pkts = fp[n - 1] /\ rows = fr[n - 1]
    <3>1. n - 1 \in 0 .. N
      OBVIOUS
    <3>2. QED
      BY <3>1
  <2>4. Agree(acc, n - 1, pkts, rows, had, hit)
    BY <1>12, <2>0, <2>3
  <2>5. o.pkt \in PacketType \cup {None} /\ n \in Nat /\ n > 0
    BY DEF OutType
  <2>6. \A c \in Counted : n \in had[c] <=> o[c]
    BY <1>9, <2>1
  <2>7. \A c \in Flags : n \in hit[c] <=> c \in o.inst
    BY <1>9, <2>1
  <2>8. /\ fp[n] = IF o.pkt # None THEN Append(pkts, o.pkt) ELSE pkts
        /\ fr[n] = IF o.cfo_row # None THEN Append(rows, o.cfo_row) ELSE rows
    BY <1>5, <1>6, <1>7, <1>8, <2>1, <2>3
  <2>9. Agree(next, n,
               IF o.pkt # None THEN Append(pkts, o.pkt) ELSE pkts,
               IF o.cfo_row # None THEN Append(rows, o.cfo_row) ELSE rows, had, hit)
    BY <1>10, <2>2, <2>4, <2>5, <2>6, <2>7, AgreeStep
  <2>10. QED
    BY <2>0, <2>5, <2>8, <2>9
<1> HIDE DEF Q
<1>13. \A n \in 0 .. N : n \in Q
  BY <1>11, <1>12, Upwards
<1>14. Agree(SerialReport, N, Present(sp), Present(sr), had, hit)
  <2>1. N \in Q
    BY <1>13
  <2>2. QED
    BY <1>4, <1>7, <1>8, <2>1 DEF Q
<1>15. /\ report.packets = Truncated(Present(sp)) /\ report.rows = Present(sr)
       /\ report.stats = [c \in Counted |-> Cardinality({i \in 1 .. N : G[i][c]})]
       /\ report.inst = [c \in Flags |-> Cardinality({i \in 1 .. N : c \in G[i].inst})]
  BY <1>1, <1>3, <1>5, <1>6 DEF Aggregate
<1>16. /\ \A c \in Counted : Upto(had[c], N) = {i \in 1 .. N : G[i][c]}
       /\ \A c \in Flags : Upto(hit[c], N) = {i \in 1 .. N : c \in G[i].inst}
  BY <1>9 DEF Upto
<1>17. /\ SerialReport.packets = report.packets /\ SerialReport.rows = report.rows
       /\ SerialReport.stats = report.stats /\ SerialReport.inst = report.inst
  <2>1. SerialReport.packets = report.packets /\ SerialReport.rows = report.rows
    BY <1>14, <1>15, Zenon DEF Agree
  <2>2. SerialReport.stats = report.stats
    BY <1>14, <1>15, <1>16, Zenon DEF Agree
  <2>3. SerialReport.inst = report.inst
    BY <1>14, <1>15, <1>16, Zenon DEF Agree
  <2>4. QED
    BY <2>1, <2>2, <2>3, Zenon
<1>18. SerialReport = [packets |-> SerialReport.packets, rows |-> SerialReport.rows,
                       tags |-> SerialReport.tags, stats |-> SerialReport.stats,
                       inst |-> SerialReport.inst]
  <2>1. SerialReport \in Reports
    BY <1>4
  <2>2. QED
    BY <2>1 DEF Reports
<1>19. report = [packets |-> report.packets, rows |-> report.rows, tags |-> report.tags,
                 stats |-> report.stats, inst |-> report.inst]
  BY <1>1 DEF Aggregate
<1>20. QED
  BY <1>17, <1>18, <1>19

(* The pool reports the packets, the rows and the counts of the loop it    *)
(* was made from, in whatever order its workers finish, for every number   *)
(* of workers, of windows and of channels, and every command line.         *)
THEOREM PoolAsLoop == DecodeSpec => []ParallelAsSerial
<1>1. CaptureInv /\ PoolInv => ParallelAsSerial
  BY PoolAgrees
<1>2. QED
  BY <1>1, AlwaysCaptured, AlwaysPooled, PTL

=============================================================================
