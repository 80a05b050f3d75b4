--------------------------- MODULE SnifferService ---------------------------
(***************************************************************************)
(* The sample path of the Android companion app                            *)
(* (Android App/.../SnifferService.kt): a USB receive thread fills a ring  *)
(* and a processing thread takes overlapping windows out of it, while the  *)
(* main thread starts and stops sessions.                                  *)
(*                                                                         *)
(* Sessions follow each other: one starts when the threads of the one      *)
(* before have ended.  The code does not see to that; what happens when    *)
(* old threads survive is the subject of module MonitorLifecycle.          *)
(*                                                                         *)
(* A byte is known by its position in the stream of its session, so the    *)
(* ring needs no array: its cell p % SIZE holds byte p until byte p + SIZE *)
(* is written (RingInStep), unless it was stored wrongly, which spoiled    *)
(* remembers.  The alert and the packet list are left out.                 *)
(***************************************************************************)
EXTENDS Integers

CONSTANTS
  SIZE,    \* rawDataBuffer.size
  CHUNK,   \* CHUNK_SIZE
  OVERLAP, \* OVERLAP_SIZE
  XFER,    \* size of the receive thread's buffer: the longest transfer
  MaxRx    \* bound: bytes received in a session

ASSUME RingAssumption ==
  /\ CHUNK \in Nat \ {0} /\ OVERLAP \in Nat \ {0} /\ XFER \in Nat \ {0}
  /\ SIZE \in Nat /\ SIZE \div 2 >= 2 * CHUNK + OVERLAP - 1
  /\ MaxRx \in Nat

VARIABLES
  receiving,  \* isReceiving
  decoding,   \* isDecodingEnabled
  received,   \* totalBytesReceived
  writePtr,   \* writePtr
  processed,  \* lastProcessedByteCount
  dropped,    \* totalBytesDropped
  rpc,        \* where the receive thread is
  len,        \* its len, while it stores a transfer
  ppc,        \* where the processing thread is
  snap,       \* its currentReceived
  from,       \* first position of the window it copied
  seen,       \* how far the ring was written when the copy was complete
  decoded,    \* history: chunks decoded or skipped in this session
  top,        \* history: one past the last byte whose packets were accepted
  twice,      \* history: packets were accepted twice
  spoiled     \* history: some byte of the session was stored wrongly

flags == <<receiving, decoding>>
ring == <<received, writePtr, spoiled>>
position == <<processed, dropped, decoded>>
window == <<snap, from, seen>>
accepted == <<top, twice>>
vars == <<flags, ring, position, window, accepted, rpc, len, ppc>>

Init ==
  /\ receiving = FALSE /\ decoding = TRUE
  /\ received = 0 /\ writePtr = 0 /\ spoiled = FALSE
  /\ processed = 0 /\ dropped = 0 /\ decoded = 0
  /\ rpc = "done" /\ len = 0
  /\ ppc = "done" /\ snap = 0 /\ from = 0 /\ seen = 0
  /\ top = 0 /\ twice = FALSE

-----------------------------------------------------------------------------
(* The main thread.                                                        *)

\* Faulty variant: the write position of the last session is kept.
StartKeepsWritePtr ==
  /\ ~receiving /\ rpc = "done" /\ ppc = "done"
  /\ receiving' = TRUE
  /\ processed' = 0 /\ received' = 0 /\ dropped' = 0 /\ decoded' = 0
  /\ rpc' = "loop" /\ ppc' = "loop"
  /\ spoiled' = FALSE /\ top' = 0
  /\ UNCHANGED <<decoding, writePtr, len, window, twice>>

\* Faulty variant: the drop counter of the last session is kept.
StartKeepsDropped ==
  /\ ~receiving /\ rpc = "done" /\ ppc = "done"
  /\ receiving' = TRUE
  /\ processed' = 0 /\ received' = 0 /\ writePtr' = 0
  /\ rpc' = "loop" /\ ppc' = "loop"
  /\ spoiled' = FALSE /\ top' = 0 /\ decoded' = 0
  /\ UNCHANGED <<decoding, dropped, len, window, twice>>

\* startSniffing with a device that opens and can be claimed.
StartSniffing ==
  /\ ~receiving /\ rpc = "done" /\ ppc = "done"
  /\ receiving' = TRUE
  /\ processed' = 0 /\ received' = 0 /\ dropped' = 0 /\ writePtr' = 0
  /\ rpc' = "loop" /\ ppc' = "loop"
  /\ spoiled' = FALSE /\ top' = 0 /\ decoded' = 0
  /\ UNCHANGED <<decoding, len, window, twice>>

StopSniffing ==  \* the button, USB detached, onDestroy
  /\ receiving
  /\ receiving' = FALSE
  /\ UNCHANGED <<decoding, ring, position, window, accepted, rpc, len, ppc>>

ToggleDecoding ==
  /\ decoding' = ~decoding
  /\ UNCHANGED <<receiving, ring, position, window, accepted, rpc, len, ppc>>

-----------------------------------------------------------------------------
(* The receive thread.                                                     *)

ReceiveLoop ==  \* while (isReceiving); usbConnection is null when it is not
  /\ rpc = "loop"
  /\ rpc' = IF receiving THEN "transfer" ELSE "exit"
  /\ UNCHANGED <<flags, ring, position, window, accepted, len, ppc>>

TransferFails ==  \* a second of silence, an error, a closed connection
  /\ rpc = "transfer"
  /\ rpc' = "exit"
  /\ UNCHANGED <<flags, ring, position, window, accepted, len, ppc>>

TransferEmpty ==  \* no error and no bytes
  /\ rpc = "transfer" /\ receiving
  /\ rpc' = "loop"
  /\ UNCHANGED <<flags, ring, position, window, accepted, len, ppc>>

Transfer(n) ==  \* n bytes are in the thread's buffer; it starts to store them
  /\ rpc = "transfer" /\ receiving
  /\ received + n <= MaxRx
  /\ len' = n
  /\ rpc' = "store"
  /\ UNCHANGED <<flags, ring, position, window, accepted, ppc>>

\* The second part of a wrapped copy is taken from the end of the buffer, so
\* it is right only if the transfer filled the buffer.
StoresWrong == writePtr + len > SIZE /\ len < XFER

Store ==
  /\ rpc = "store"
  /\ writePtr' = (writePtr + len) % SIZE
  /\ received' = received + len
  /\ spoiled' = (spoiled \/ StoresWrong)
  /\ len' = 0
  /\ rpc' = "loop"
  /\ UNCHANGED <<flags, position, window, accepted, ppc>>

ReceiveExit ==  \* stopUsbThreadsInternal, if the session was not stopped
  /\ rpc = "exit"
  /\ receiving' = FALSE
  /\ rpc' = "done"
  /\ UNCHANGED <<decoding, ring, position, window, accepted, len, ppc>>

-----------------------------------------------------------------------------
(* The processing thread.                                                  *)

\* Faulty variant: the overlap in front of the window is forgotten.
DropAmountNoOverlap(backlog) ==
  IF backlog > SIZE - CHUNK
    THEN ((backlog - SIZE \div 2) \div CHUNK) * CHUNK ELSE 0

DropAmount(backlog) ==
  IF backlog > SIZE - CHUNK - OVERLAP
    THEN ((backlog - SIZE \div 2) \div CHUNK) * CHUNK ELSE 0

\* One turn of while (isReceiving): an excessive backlog is dropped, then
\* the thread goes on if there is a whole chunk and sleeps if not.
ProcessLoop ==
  /\ ppc = "loop" /\ receiving
  /\ LET drop == DropAmount(received - processed) IN
       /\ processed' = processed + drop
       /\ dropped' = dropped + drop
       /\ \/ /\ received - processed' < CHUNK
             /\ UNCHANGED <<snap, ppc>>
          \/ /\ received - processed' >= CHUNK
             /\ snap' = received
             /\ ppc' = IF decoding THEN "copy" ELSE "advance"
  /\ UNCHANGED <<flags, ring, decoded, from, seen, accepted, rpc, len>>

ProcessEnds ==
  /\ ppc = "loop" /\ ~receiving
  /\ ppc' = "done"
  /\ UNCHANGED <<flags, ring, position, window, accepted, rpc, len>>

\* The window starts OVERLAP before the position and ends CHUNK after it.
\* A store in progress may already have written its bytes.
CopyWindow ==
  /\ ppc = "copy"
  /\ from' = processed - OVERLAP
  /\ seen' = received + len
  /\ ppc' = "decode"
  /\ UNCHANGED <<flags, ring, position, snap, accepted, rpc, len>>

\* Faulty variant: packets that start in the overlap are accepted too.
FirstAcceptedAnywhere == from

FirstAccepted == from + OVERLAP
LastAccepted == from + OVERLAP + CHUNK - 1

\* findPackets on the window, and the test of every packet's offset.
Decode ==
  /\ ppc = "decode"
  /\ twice' = (twice \/ FirstAccepted < top)
  /\ top' = LastAccepted + 1
  /\ ppc' = "advance"
  /\ UNCHANGED <<flags, ring, position, window, rpc, len>>

\* Faulty variant: with decoding off the position stays.
AdvanceIfDecoding ==
  /\ ppc = "advance"
  /\ processed' = IF decoding THEN processed + CHUNK ELSE processed
  /\ decoded' = IF decoding THEN decoded + 1 ELSE decoded
  /\ snap' = 0 /\ from' = 0 /\ seen' = 0
  /\ ppc' = "loop"
  /\ UNCHANGED <<flags, ring, dropped, accepted, rpc, len>>

Advance ==
  /\ ppc = "advance"
  /\ processed' = processed + CHUNK
  /\ decoded' = decoded + 1
  /\ snap' = 0 /\ from' = 0 /\ seen' = 0
  /\ ppc' = "loop"
  /\ UNCHANGED <<flags, ring, dropped, accepted, rpc, len>>

-----------------------------------------------------------------------------
ReceiveThread ==
  ReceiveLoop \/ TransferFails \/ TransferEmpty \/ Store \/ ReceiveExit
    \/ (\E n \in 1 .. XFER : Transfer(n))

ProcessThread == ProcessLoop \/ ProcessEnds \/ CopyWindow \/ Decode \/ Advance

Next ==
  StartSniffing \/ StopSniffing \/ ToggleDecoding \/ ReceiveThread \/ ProcessThread

\* Both threads run; nothing obliges the user or the device to do anything.
Fairness == WF_vars(ReceiveThread) /\ WF_vars(ProcessThread)

Spec == Init /\ [][Next]_vars /\ Fairness

-----------------------------------------------------------------------------
(* Properties.                                                             *)

(* Every variable has its type.                                            *)
TypeOK ==
  /\ receiving \in BOOLEAN /\ decoding \in BOOLEAN
  /\ received \in 0 .. MaxRx /\ writePtr \in 0 .. SIZE - 1
  /\ processed \in Nat /\ dropped \in Nat /\ decoded \in Nat
  /\ rpc \in {"loop", "transfer", "store", "exit", "done"}
  /\ len \in 0 .. XFER
  /\ ppc \in {"loop", "copy", "decode", "advance", "done"}
  /\ snap \in Nat /\ from \in Int /\ seen \in Nat
  /\ top \in Nat /\ twice \in BOOLEAN /\ spoiled \in BOOLEAN

(* The margins of the backlog rule suffice: unless more than a chunk       *)
(* arrives between the moment the backlog is judged and the moment the     *)
(* copy is complete, no byte of the window, overlap included, has been     *)
(* overwritten; and the window never runs past what was received.          *)
WindowIntact ==
  ppc = "decode" =>
    /\ LastAccepted < snap
    /\ seen - snap <= CHUNK => seen <= from + SIZE

(* The ring's write position and the count the windows are computed from   *)
(* belong together, in every session: byte p goes to cell p % SIZE.        *)
RingInStep == writePtr = received % SIZE

(* The app "streams raw sniffer bytes into a decoder" (Android App/        *)
(* README.md): what the ring holds is what was received.  A transfer that  *)
(* crosses the end of the ring without filling the receive buffer breaks   *)
(* it.                                                                     *)
RingHoldsStream == ~spoiled

(* No packet is accepted twice, although every window repeats the end of   *)
(* the one before it, and dropping moves the position.                     *)
AcceptedOnce == ~twice

(* Every byte of the stream is decoded or skipped in its chunk, reported   *)
(* as dropped, or still waiting, and the position never overtakes the      *)
(* stream.                                                                 *)
BytesAccounted ==
  /\ processed = CHUNK * decoded + dropped
  /\ processed <= received

(* Whatever was received is decoded, skipped or dropped while the session  *)
(* lasts: the processing thread cannot stall on a full ring, nor with      *)
(* decoding switched off.                                                  *)
BacklogServed ==
  \A k \in 0 .. MaxRx - CHUNK :
    receiving /\ received >= k + CHUNK ~> processed > k \/ ~receiving

=============================================================================
