------------------------ MODULE SnifferService_proofs ------------------------
(***************************************************************************)
(* Proofs about SnifferService, for every ring that is large enough for    *)
(* its chunk and overlap, and every transfer size.                         *)
(***************************************************************************)
EXTENDS SnifferService, TLAPS

(* What the processing thread knows about the position it works at: inside *)
(* an iteration a whole chunk follows the position, and the backlog was    *)
(* within the limit when it was judged.                                    *)
Judged ==
  /\ snap <= received
  /\ ppc \in {"loop", "done"} => snap = 0
  /\ ppc \in {"copy", "decode", "advance"} => processed + CHUNK <= snap
  /\ ppc \in {"copy", "decode"} => snap - processed <= SIZE - CHUNK - OVERLAP
  /\ ppc = "decode" => from = processed - OVERLAP

(* Acceptance never runs ahead of the position.                            *)
AcceptedBehind ==
  /\ ppc \in {"loop", "copy", "decode"} => top <= processed
  /\ ppc = "advance" => top <= processed + CHUNK
  /\ ~twice

(* The bytes being stored are within the bound of the session.             *)
Fits == rpc = "store" => received + len <= MaxRx

IInv == TypeOK /\ BytesAccounted /\ Judged /\ AcceptedBehind /\ Fits

-----------------------------------------------------------------------------
(* Arithmetic.                                                             *)

LEMMA ConstantsAreNat ==
  /\ SIZE \in Nat /\ SIZE > 0 /\ CHUNK \in Nat /\ CHUNK > 0
  /\ OVERLAP \in Nat /\ XFER \in Nat /\ MaxRx \in Nat
  BY RingAssumption

LEMMA DivisionBounds ==
  ASSUME NEW a \in Nat, NEW c \in Nat, c > 0
  PROVE  /\ a \div c \in Nat
         /\ (a \div c) * c \in Nat
         /\ (a \div c) * c <= a
         /\ a - (a \div c) * c < c
<1>1. a = c * (a \div c) + (a % c) /\ a % c \in 0 .. c - 1 /\ a \div c \in Int
  OBVIOUS
<1>2. a \div c >= 0
  BY <1>1
<1>3. c * (a \div c) = (a \div c) * c
  BY <1>1
<1>4. QED
  BY <1>1, <1>2, <1>3

(* Dropping takes nothing that was not received, and leaves a backlog      *)
(* within the limit.                                                       *)
LEMMA DropBounds ==
  ASSUME NEW b \in Nat
  PROVE  /\ DropAmount(b) \in Nat /\ DropAmount(b) <= b
         /\ b - DropAmount(b) <= SIZE - CHUNK - OVERLAP
<1> DEFINE h == SIZE \div 2
<1>1. h \in Nat /\ 2 * h <= SIZE /\ h >= 2 * CHUNK + OVERLAP - 1
  BY RingAssumption
<1>2. CASE b > SIZE - CHUNK - OVERLAP
  <2>1. b - h \in Nat /\ SIZE - CHUNK - OVERLAP >= h + CHUNK - 1
    BY <1>1, <1>2, ConstantsAreNat
  <2> DEFINE d == ((b - h) \div CHUNK) * CHUNK
  <2>2. d \in Nat /\ d <= b - h /\ (b - h) - d < CHUNK
    BY <2>1, DivisionBounds, ConstantsAreNat
  <2>3. DropAmount(b) = d
    BY <1>2 DEF DropAmount
  <2> HIDE DEF d, h
  <2>4. QED
    BY <2>1, <2>2, <2>3, <1>1, ConstantsAreNat
<1>3. CASE ~(b > SIZE - CHUNK - OVERLAP)
  <2>1. DropAmount(b) = 0
    BY <1>3 DEF DropAmount
  <2>2. QED
    BY <2>1, <1>3, ConstantsAreNat
<1>4. QED
  BY <1>2, <1>3

LEMMA StillBehind ==
  ASSUME NEW t \in Nat, NEW p \in Nat, NEW q \in Nat, t <= p, p <= q
  PROVE  t <= q /\ t <= q + CHUNK
  BY ConstantsAreNat

-----------------------------------------------------------------------------
(* The steps.                                                              *)

LEMMA InitIInv == Init => IInv
<1> SUFFICES ASSUME Init PROVE IInv
  OBVIOUS
<1>1. TypeOK
  <2>1. /\ receiving \in BOOLEAN /\ decoding \in BOOLEAN /\ twice \in BOOLEAN
        /\ spoiled \in BOOLEAN
    BY DEF Init
  <2>2. rpc = "done" /\ ppc = "done"
    BY DEF Init
  <2>3. /\ received \in 0 .. MaxRx /\ writePtr \in 0 .. SIZE - 1 /\ len \in 0 .. XFER
        /\ processed \in Nat /\ dropped \in Nat /\ decoded \in Nat
        /\ snap \in Nat /\ from \in Int /\ seen \in Nat /\ top \in Nat
    BY ConstantsAreNat DEF Init
  <2>4. QED
    BY <2>1, <2>2, <2>3 DEF TypeOK
<1>2. BytesAccounted
  BY ConstantsAreNat DEF Init, BytesAccounted
<1>3. Judged /\ AcceptedBehind
  BY DEF Init, Judged, AcceptedBehind
<1>4. Fits
  BY DEF Init, Fits
<1>5. QED
  BY <1>1, <1>2, <1>3, <1>4 DEF IInv

(* The invariant sees a session's flags only through their types.          *)
LEMMA FlagSteps ==
  ASSUME IInv, \/ StopSniffing \/ ToggleDecoding \/ UNCHANGED vars
  PROVE  IInv'
<1>1. receiving' \in BOOLEAN /\ decoding' \in BOOLEAN
  BY DEF IInv, TypeOK, StopSniffing, ToggleDecoding, vars, flags
<1>2. UNCHANGED <<ring, position, window, accepted, rpc, len, ppc>>
  BY DEF StopSniffing, ToggleDecoding, vars
<1>3. TypeOK'
  BY <1>1, <1>2 DEF IInv, TypeOK, ring, position, window, accepted
<1>4. BytesAccounted' /\ Judged' /\ AcceptedBehind'
  BY <1>2 DEF IInv, BytesAccounted, Judged, AcceptedBehind, ring, position, window, accepted
<1>5. Fits'
  BY <1>2 DEF IInv, Fits, ring
<1>6. QED
  BY <1>3, <1>4, <1>5 DEF IInv

LEMMA StartStep == ASSUME IInv, StartSniffing PROVE IInv'
<1>1. TypeOK'
  <2>1. /\ receiving' \in BOOLEAN /\ decoding' \in BOOLEAN /\ twice' \in BOOLEAN
        /\ spoiled' \in BOOLEAN
    BY DEF IInv, TypeOK, StartSniffing
  <2>2. rpc' = "loop" /\ ppc' = "loop"
    BY DEF StartSniffing
  <2>3. /\ received' \in 0 .. MaxRx /\ writePtr' \in 0 .. SIZE - 1
        /\ processed' \in Nat /\ dropped' \in Nat /\ decoded' \in Nat /\ top' \in Nat
    BY ConstantsAreNat DEF StartSniffing
  <2>4. len' \in 0 .. XFER /\ snap' \in Nat /\ from' \in Int /\ seen' \in Nat
    BY DEF IInv, TypeOK, StartSniffing, window
  <2>5. QED
    BY <2>1, <2>2, <2>3, <2>4 DEF TypeOK
<1>2. BytesAccounted'
  BY ConstantsAreNat DEF StartSniffing, BytesAccounted
<1>3. Judged'
  BY DEF IInv, StartSniffing, Judged, window
<1>4. AcceptedBehind'
  BY DEF IInv, StartSniffing, AcceptedBehind
<1>5. Fits'
  BY DEF StartSniffing, Fits
<1>6. QED
  BY <1>1, <1>2, <1>3, <1>4, <1>5 DEF IInv

-----------------------------------------------------------------------------
(* The receive thread: it only ever adds to what was received.             *)

LEMMA ReceiveControl ==
  ASSUME IInv, ReceiveLoop \/ TransferFails \/ TransferEmpty \/ ReceiveExit
  PROVE  IInv'
<1>1. /\ receiving' \in BOOLEAN /\ decoding' \in BOOLEAN
      /\ rpc' \in {"loop", "transfer", "store", "exit", "done"}
  BY DEF IInv, TypeOK, ReceiveLoop, TransferFails, TransferEmpty, ReceiveExit, flags
<1>2. UNCHANGED <<ring, position, window, accepted, len, ppc>>
  BY DEF ReceiveLoop, TransferFails, TransferEmpty, ReceiveExit
<1>3. TypeOK'
  BY <1>1, <1>2 DEF IInv, TypeOK, ring, position, window, accepted
<1>4. BytesAccounted' /\ Judged' /\ AcceptedBehind'
  BY <1>2 DEF IInv, BytesAccounted, Judged, AcceptedBehind, ring, position, window, accepted
<1>5. Fits'
  BY DEF ReceiveLoop, TransferFails, TransferEmpty, ReceiveExit, Fits
<1>6. QED
  BY <1>3, <1>4, <1>5 DEF IInv

LEMMA TransferStep ==
  ASSUME IInv, NEW n \in 1 .. XFER, Transfer(n)
  PROVE  IInv'
<1>1. len' \in 0 .. XFER
  BY ConstantsAreNat DEF Transfer
<1>2. rpc' = "store" /\ received + n <= MaxRx /\ len' = n
  BY DEF Transfer
<1>3. UNCHANGED <<flags, ring, position, window, accepted, ppc>>
  BY DEF Transfer
<1>4. TypeOK'
  BY <1>1, <1>2, <1>3 DEF IInv, TypeOK, flags, ring, position, window, accepted
<1>5. BytesAccounted' /\ Judged' /\ AcceptedBehind'
  BY <1>3 DEF IInv, BytesAccounted, Judged, AcceptedBehind, ring, position, window, accepted
<1>6. Fits'
  BY <1>2, <1>3 DEF Fits, ring
<1>7. QED
  BY <1>4, <1>5, <1>6 DEF IInv

LEMMA StoreStep == ASSUME IInv, Store PROVE IInv'
<1> USE DEF IInv
<1>1. /\ received \in Nat /\ len \in Nat /\ writePtr \in Nat
      /\ received' = received + len
      /\ writePtr' = (writePtr + len) % SIZE
      /\ received + len <= MaxRx
  BY ConstantsAreNat DEF TypeOK, Store, Fits
<1>2. received' \in 0 .. MaxRx /\ received <= received'
  BY <1>1, ConstantsAreNat
<1>3. writePtr' \in 0 .. SIZE - 1
  BY <1>1, ConstantsAreNat
<1>4. spoiled' \in BOOLEAN
  BY DEF TypeOK, Store, StoresWrong
<1>5. rpc' = "loop" /\ len' = 0
  BY DEF Store
<1>6. UNCHANGED <<flags, position, window, accepted, ppc>>
  BY DEF Store
<1>7. TypeOK'
  BY <1>2, <1>3, <1>4, <1>5, <1>6, ConstantsAreNat
     DEF TypeOK, flags, position, window, accepted
<1>8. BytesAccounted'
  BY <1>1, <1>2, <1>6 DEF TypeOK, BytesAccounted, position
<1>9. Judged'
  <2>1. snap' <= received'
    BY <1>1, <1>2, <1>6 DEF TypeOK, Judged, window
  <2>2. QED
    BY <2>1, <1>6 DEF Judged, window, position
<1>10. AcceptedBehind' /\ Fits'
  BY <1>5, <1>6 DEF AcceptedBehind, Fits, position, accepted
<1>11. QED
  BY <1>7, <1>8, <1>9, <1>10

-----------------------------------------------------------------------------
(* The processing thread.                                                  *)

(* Dropping and judging: DropBounds gives what the window needs.           *)
LEMMA ProcessLoopStep == ASSUME IInv, ProcessLoop PROVE IInv'
<1> USE DEF IInv
<1> DEFINE b == received - processed
           d == DropAmount(b)
<1>1. /\ received \in Nat /\ processed \in Nat /\ dropped \in Nat /\ decoded \in Nat
      /\ snap = 0 /\ top \in Nat /\ top <= processed /\ snap \in Nat
      /\ processed = CHUNK * decoded + dropped /\ processed <= received
  BY ConstantsAreNat DEF TypeOK, BytesAccounted, Judged, AcceptedBehind, ProcessLoop
<1>2. b \in Nat
  BY <1>1
<1>3. d \in Nat /\ d <= b /\ b - d <= SIZE - CHUNK - OVERLAP
  BY <1>2, DropBounds
<1>4. processed' = processed + d /\ dropped' = dropped + d
  BY DEF ProcessLoop
<1>5. UNCHANGED <<flags, ring, decoded, from, seen, accepted, rpc, len>>
  BY DEF ProcessLoop
<1>6. \/ snap' = 0 /\ ppc' = "loop"
      \/ /\ snap' = received /\ processed' + CHUNK <= received
         /\ ppc' \in {"copy", "advance"}
  <2>1. \/ snap' = snap /\ ppc' = ppc
        \/ received - processed' >= CHUNK /\ snap' = received /\ ppc' \in {"copy", "advance"}
    BY DEF ProcessLoop
  <2>2. received - processed' >= CHUNK => processed' + CHUNK <= received
    <3> HIDE DEF d
    <3>1. QED
      BY <1>1, <1>3, <1>4, ConstantsAreNat
  <2>3. ppc = "loop"
    BY DEF ProcessLoop
  <2>4. QED
    BY <2>1, <2>2, <2>3, <1>1
<1> HIDE DEF d
<1>7. /\ processed' \in Nat /\ dropped' \in Nat /\ processed' <= received
      /\ processed <= processed' /\ received - processed' <= SIZE - CHUNK - OVERLAP
  BY <1>1, <1>3, <1>4, ConstantsAreNat
<1>8. TypeOK'
  <2>1. snap' \in Nat /\ ppc' \in {"loop", "copy", "decode", "advance", "done"}
    BY <1>1, <1>6
  <2>2. QED
    BY <2>1, <1>5, <1>7 DEF TypeOK, flags, ring, accepted
<1>9. BytesAccounted'
  <2> DEFINE c == CHUNK * decoded
  <2>1. c \in Nat /\ processed = c + dropped
    BY <1>1, ConstantsAreNat
  <2>2. (CHUNK * decoded)' = c
    BY <1>5
  <2> HIDE DEF c
  <2>3. processed' = c + dropped'
    BY <2>1, <1>1, <1>3, <1>4
  <2>4. received' = received
    BY <1>5 DEF ring
  <2>5. QED
    BY <2>2, <2>3, <2>4, <1>7 DEF BytesAccounted
<1>10. Judged'
  <2>1. received' = received
    BY <1>5 DEF ring
  <2>2. CASE snap' = 0 /\ ppc' = "loop"
    BY <2>1, <2>2, <1>1 DEF Judged
  <2>3. CASE /\ snap' = received /\ processed' + CHUNK <= received
             /\ ppc' \in {"copy", "advance"}
    BY <2>1, <2>3, <1>1, <1>7 DEF Judged
  <2>4. QED
    BY <1>6, <2>2, <2>3
<1>11. AcceptedBehind'
  <2>1. top' = top /\ twice' = twice
    BY <1>5 DEF accepted
  <2>2. top <= processed' /\ top <= processed' + CHUNK
    <3>1. top \in Nat /\ processed \in Nat /\ top <= processed
      BY <1>1
    <3>2. processed' \in Nat /\ processed <= processed'
      BY <1>7
    <3>3. QED
      BY <3>1, <3>2, StillBehind
  <2>3. QED
    BY <2>1, <2>2, <1>6 DEF AcceptedBehind
<1>12. Fits'
  BY <1>5 DEF Fits, ring
<1>13. QED
  BY <1>8, <1>9, <1>10, <1>11, <1>12

LEMMA ProcessEndsStep == ASSUME IInv, ProcessEnds PROVE IInv'
<1> USE DEF IInv
<1>1. ppc = "loop" /\ ppc' = "done"
  BY DEF ProcessEnds
<1>2. UNCHANGED <<flags, ring, position, window, accepted, rpc, len>>
  BY DEF ProcessEnds
<1>3. TypeOK'
  BY <1>1, <1>2 DEF TypeOK, flags, ring, position, window, accepted
<1>4. BytesAccounted' /\ Judged' /\ AcceptedBehind' /\ Fits'
  BY <1>1, <1>2
     DEF BytesAccounted, Judged, AcceptedBehind, Fits, ring, position, window, accepted
<1>5. QED
  BY <1>3, <1>4

LEMMA CopyWindowStep == ASSUME IInv, CopyWindow PROVE IInv'
<1> USE DEF IInv
<1>1. /\ ppc = "copy" /\ ppc' = "decode"
      /\ from' = processed - OVERLAP /\ seen' = received + len
  BY DEF CopyWindow
<1>2. UNCHANGED <<flags, ring, position, snap, accepted, rpc, len>>
  BY DEF CopyWindow
<1>3. from' \in Int /\ seen' \in Nat
  BY <1>1, ConstantsAreNat DEF TypeOK
<1>4. TypeOK'
  BY <1>1, <1>2, <1>3 DEF TypeOK, flags, ring, position, accepted
<1>5. BytesAccounted' /\ Judged' /\ AcceptedBehind' /\ Fits'
  BY <1>1, <1>2
     DEF BytesAccounted, Judged, AcceptedBehind, Fits, ring, position, accepted
<1>6. QED
  BY <1>4, <1>5

LEMMA DecodeStep == ASSUME IInv, Decode PROVE IInv'
<1> USE DEF IInv
<1>1. /\ ppc = "decode" /\ ppc' = "advance"
      /\ twice' = (twice \/ FirstAccepted < top) /\ top' = LastAccepted + 1
  BY DEF Decode
<1>2. UNCHANGED <<flags, ring, position, window, rpc, len>>
  BY DEF Decode
<1>3. processed \in Nat /\ top \in Nat /\ from = processed - OVERLAP /\ top <= processed
  BY <1>1 DEF TypeOK, Judged, AcceptedBehind
<1>4. FirstAccepted = processed /\ LastAccepted + 1 = processed + CHUNK
  BY <1>3, ConstantsAreNat DEF FirstAccepted, LastAccepted
<1>5. ~twice' /\ top' = processed + CHUNK
  <2>1. ~(FirstAccepted < top)
    BY <1>3, <1>4
  <2>2. ~twice
    BY DEF AcceptedBehind
  <2>3. QED
    BY <2>1, <2>2, <1>1, <1>4, Zenon
<1>6. TypeOK'
  <2>1. top' \in Nat
    BY <1>3, <1>5, ConstantsAreNat
  <2>2. twice' \in BOOLEAN
    BY <1>1 DEF TypeOK
  <2>3. QED
    BY <2>1, <2>2, <1>1, <1>2 DEF TypeOK, flags, ring, position, window
<1>7. BytesAccounted' /\ Judged' /\ Fits'
  BY <1>1, <1>2 DEF BytesAccounted, Judged, Fits, ring, position, window
<1>8. AcceptedBehind'
  <2>1. processed' = processed
    BY <1>2 DEF position
  <2>2. top' <= processed' + CHUNK
    BY <2>1, <1>3, <1>5, ConstantsAreNat
  <2>3. QED
    BY <2>2, <1>1, <1>5 DEF AcceptedBehind
<1>9. QED
  BY <1>6, <1>7, <1>8

LEMMA AdvanceStep == ASSUME IInv, Advance PROVE IInv'
<1> USE DEF IInv
<1>1. /\ ppc = "advance" /\ ppc' = "loop"
      /\ processed' = processed + CHUNK /\ decoded' = decoded + 1
      /\ snap' = 0 /\ from' = 0 /\ seen' = 0
  BY DEF Advance
<1>2. UNCHANGED <<flags, ring, dropped, accepted, rpc, len>>
  BY DEF Advance
<1>3. /\ processed \in Nat /\ decoded \in Nat /\ received \in Nat /\ snap \in Nat
      /\ dropped \in Nat /\ top \in Nat
      /\ processed + CHUNK <= snap /\ snap <= received /\ top <= processed + CHUNK
  BY <1>1, ConstantsAreNat DEF TypeOK, Judged, AcceptedBehind
<1>4. processed' \in Nat /\ decoded' \in Nat /\ processed' <= received
  BY <1>1, <1>3, ConstantsAreNat
<1>5. TypeOK'
  <2>1. snap' \in Nat /\ from' \in Int /\ seen' \in Nat
    BY <1>1
  <2>2. QED
    BY <2>1, <1>1, <1>2, <1>4 DEF TypeOK, flags, ring, accepted
<1>6. BytesAccounted'
  <2>1. CHUNK * decoded' = CHUNK * decoded + CHUNK
    BY <1>1, <1>3, ConstantsAreNat
  <2> DEFINE c == CHUNK * decoded
  <2>2. c \in Nat /\ processed = c + dropped
    BY <1>3, ConstantsAreNat DEF BytesAccounted
  <2> HIDE DEF c
  <2>3. processed' = (c + CHUNK) + dropped
    BY <2>2, <1>1, <1>3, ConstantsAreNat
  <2>4. received' = received /\ dropped' = dropped
    BY <1>2 DEF ring
  <2>5. QED
    BY <2>1, <2>3, <2>4, <1>4 DEF BytesAccounted, c
<1>7. Judged'
  BY <1>1, <1>2, <1>3 DEF Judged, ring
<1>8. AcceptedBehind'
  BY <1>1, <1>2, <1>3 DEF AcceptedBehind, accepted
<1>9. Fits'
  BY <1>2 DEF Fits, ring
<1>10. QED
  BY <1>5, <1>6, <1>7, <1>8, <1>9

-----------------------------------------------------------------------------
(* The ring and the stream.  Storing is the only step of a session that    *)
(* moves the write position, and it wraps it once for every transfer; the  *)
(* count is never wrapped, so the two agree by the laws of the remainder.  *)

LEMMA RemainderUnique ==
  ASSUME NEW n \in Nat, n > 0, NEW a \in Nat, NEW q \in Int,
         NEW r \in 0 .. n - 1, a = n * q + r
  PROVE  a % n = r
<1> DEFINE d == a \div n  m == a % n
<1>1. a = n * d + m /\ m \in 0 .. n - 1 /\ d \in Int
  OBVIOUS
<1> HIDE DEF d, m
<1>2. n * (d - q) = r - m
  BY <1>1
<1>3. CASE d - q >= 1
  <2>1. n * (d - q) >= n
    BY <1>1, <1>3
  <2>2. QED
    BY <1>1, <1>2, <2>1
<1>4. CASE d - q <= -1
  <2>1. n * (d - q) <= -n
    BY <1>1, <1>4
  <2>2. QED
    BY <1>1, <1>2, <2>1
<1>5. CASE d = q
  <2>1. n * d = n * q
    BY <1>5
  <2>2. QED
    BY <1>1, <2>1 DEF m
<1>6. QED
  BY <1>1, <1>3, <1>4, <1>5

LEMMA RemainderOfSum ==
  ASSUME NEW n \in Nat, n > 0, NEW a \in Nat, NEW b \in Nat
  PROVE  ((a % n) + b) % n = (a + b) % n
<1> DEFINE d == a \div n        m == a % n
           e == (m + b) \div n  k == (m + b) % n
<1>1. a = n * d + m /\ m \in 0 .. n - 1 /\ d \in Int
  OBVIOUS
<1>2. m + b = n * e + k /\ k \in 0 .. n - 1 /\ e \in Int
  BY <1>1
<1> HIDE DEF d, m, e, k
<1> DEFINE f == d + e  s == a + b
<1>3. s = n * f + k /\ f \in Int /\ s \in Nat
  <2>1. n * (d + e) = n * d + n * e
    BY <1>1, <1>2
  <2>2. QED
    BY <1>1, <1>2, <2>1
<1> HIDE DEF f, s
<1>4. s % n = k
  BY <1>2, <1>3, RemainderUnique
<1>5. QED
  BY <1>4 DEF s, k, m

LEMMA StoreInStep == ASSUME IInv, RingInStep, Store PROVE RingInStep'
<1>1. received \in Nat /\ len \in Nat /\ writePtr = received % SIZE
  BY ConstantsAreNat DEF IInv, TypeOK, RingInStep
<1>2. writePtr' = ((received % SIZE) + len) % SIZE /\ received' = received + len
  BY <1>1 DEF Store
<1>3. ((received % SIZE) + len) % SIZE = (received + len) % SIZE
  BY <1>1, ConstantsAreNat, RemainderOfSum
<1>4. QED
  BY <1>2, <1>3 DEF RingInStep

LEMMA NextInStep == IInv /\ RingInStep /\ [Next]_vars => RingInStep'
<1> SUFFICES ASSUME IInv, RingInStep, [Next]_vars PROVE RingInStep'
  OBVIOUS
<1>1. CASE StartSniffing
  BY <1>1, ConstantsAreNat DEF StartSniffing, RingInStep
<1>2. CASE Store
  BY <1>2, StoreInStep
<1>3. CASE UNCHANGED ring
  BY <1>3 DEF ring, RingInStep
<1>4. StartSniffing \/ Store \/ UNCHANGED ring
  BY DEF Next, ReceiveThread, ProcessThread, StopSniffing, ToggleDecoding,
         ReceiveLoop, TransferFails, TransferEmpty, ReceiveExit, Transfer,
         ProcessLoop, ProcessEnds, CopyWindow, Decode, Advance, vars
<1>5. QED
  BY <1>1, <1>2, <1>3, <1>4

-----------------------------------------------------------------------------
(* The theorems.                                                           *)

LEMMA NextIInv == IInv /\ [Next]_vars => IInv'
<1> SUFFICES ASSUME IInv, [Next]_vars PROVE IInv'
  OBVIOUS
<1>1. CASE StopSniffing \/ ToggleDecoding \/ UNCHANGED vars
  BY <1>1, FlagSteps
<1>2. CASE StartSniffing
  BY <1>2, StartStep
<1>3. CASE ReceiveThread
  <2>1. CASE ReceiveLoop \/ TransferFails \/ TransferEmpty \/ ReceiveExit
    BY <2>1, ReceiveControl
  <2>2. CASE Store
    BY <2>2, StoreStep
  <2>3. CASE \E n \in 1 .. XFER : Transfer(n)
    BY <2>3, TransferStep
  <2>4. QED
    BY <1>3, <2>1, <2>2, <2>3 DEF ReceiveThread
<1>4. CASE ProcessThread
  BY <1>4, ProcessLoopStep, ProcessEndsStep, CopyWindowStep, DecodeStep, AdvanceStep
     DEF ProcessThread
<1>5. QED
  BY <1>1, <1>2, <1>3, <1>4 DEF Next

LEMMA Inductive == Spec => []IInv
  BY InitIInv, NextIInv, PTL DEF Spec

(* Pointers and counters of the sample path keep their types, in every     *)
(* session: the write position never leaves the ring.                      *)
THEOREM TypeCorrect == Spec => []TypeOK
<1>1. IInv => TypeOK
  BY DEF IInv
<1>2. QED
  BY <1>1, Inductive, PTL

(* Every byte is decoded, skipped, dropped or waiting, however transfers   *)
(* and drops interleave.                                                   *)
THEOREM AllBytesAccounted == Spec => []BytesAccounted
<1>1. IInv => BytesAccounted
  BY DEF IInv
<1>2. QED
  BY <1>1, Inductive, PTL

(* No packet is accepted twice: the part of a window in which packets are  *)
(* accepted starts where that of the window before ended, or after it.     *)
THEOREM NoPacketTwice == Spec => []AcceptedOnce
<1>1. IInv => AcceptedOnce
  BY DEF IInv, AcceptedBehind, AcceptedOnce
<1>2. QED
  BY <1>1, Inductive, PTL

(* The margins of the backlog rule suffice for any ring twice as large as  *)
(* two chunks and an overlap: nothing of a window is overwritten while it  *)
(* is copied unless more than a chunk arrives meanwhile.                   *)
THEOREM MarginsSuffice == Spec => []WindowIntact
<1>1. IInv => WindowIntact
  <2> SUFFICES ASSUME IInv, ppc = "decode"
               PROVE  /\ LastAccepted < snap
                      /\ seen - snap <= CHUNK => seen <= from + SIZE
    BY DEF WindowIntact
  <2>1. /\ processed \in Nat /\ snap \in Nat /\ seen \in Nat /\ from = processed - OVERLAP
        /\ processed + CHUNK <= snap /\ snap - processed <= SIZE - CHUNK - OVERLAP
    BY DEF IInv, TypeOK, Judged
  <2>2. QED
    BY <2>1, ConstantsAreNat DEF LastAccepted
<1>2. QED
  BY <1>1, Inductive, PTL

(* The write position and the count of the stream belong together in every *)
(* session, for every size of the ring and whatever lengths the transfers  *)
(* have: byte p is in cell p % SIZE, where CopyWindow looks for it.        *)
THEOREM RingFollowsStream == Spec => []RingInStep
<1>1. Init => RingInStep
  BY ConstantsAreNat DEF Init, RingInStep
<1>2. QED
  BY <1>1, NextInStep, Inductive, PTL DEF Spec

=============================================================================
