---------------------------- MODULE SpiUsbBridge ----------------------------
(***************************************************************************)
(* The ESP32 bridge (ESP_I2C_Slave/main/main.c) and the capture script     *)
(* that reads it (ESP_I2C_Slave/usb_capture.py).                           *)
(*                                                                         *)
(*   SPI transaction -> spi_receiver_task -> tx_queue -> usb_tx_task       *)
(*     -> USB-CDC transmit FIFO -> capture file                            *)
(*                                                                         *)
(* The receiver task, the USB task, the USB stack and the host interleave. *)
(* A chunk is a numbered packet of len blocks and a block is               *)
(* <<id, k, len>>: block k of the len blocks of packet id.  Statistics     *)
(* counters are left out.                                                  *)
(***************************************************************************)
EXTENDS Integers, Sequences

CONSTANTS
  QUEUE_SIZE,  \* packets the FreeRTOS queue holds
  BLOCKS,      \* blocks of a full chunk, MAX_SPI_BYTES
  CDC_BLOCKS,  \* blocks the transmit FIFO of the USB stack holds
  MaxRx        \* bound: SPI transactions

ASSUME BridgeAssumption ==
  /\ QUEUE_SIZE \in Nat \ {0} /\ BLOCKS \in Nat \ {0}
  /\ CDC_BLOCKS \in Nat \ {0} /\ MaxRx \in Nat

VARIABLES
  rx,         \* SPI transactions completed
  queue,      \* tx_queue
  pkt,        \* the packet usb_tx_task works on, last if it waits for one
  sent,       \* blocks of it written
  pc,         \* where usb_tx_task is
  fifo,       \* blocks in the CDC transmit FIFO
  capturing,  \* usb_capture.py has the port open: tud_cdc_connected
  file,       \* blocks of the capture file it is writing
  delivered   \* history: the latest packet written to its end

taskVars == <<pkt, sent, pc>>
hostVars == <<capturing, file>>
vars == <<rx, queue, taskVars, fifo, hostVars, delivered>>

Packet == [id : 1 .. MaxRx, len : 1 .. BLOCKS]
NoPacket == [id |-> 0, len |-> 0]

\* Blocks of packet p from block k + 1 on.
BlocksAfter(p, k) == [i \in 1 .. p.len - k |-> <<p.id, k + i, p.len>>]

-----------------------------------------------------------------------------
Init ==
  /\ rx = 0
  /\ queue = <<>>
  /\ pkt = NoPacket /\ sent = 0 /\ pc = "receive"
  /\ fifo = <<>>
  /\ capturing = FALSE /\ file = <<>>
  /\ delivered = 0

(* spi_receiver_task, one transaction.  Transactions end when the master   *)
(* raises chip select, so one may be shorter than a chunk; a shorter one   *)
(* passes the checksums too when what they cover happens to fold to the    *)
(* same value (all zero, as the padding of a chunk is).                    *)

Reject ==  \* fewer than 4 bytes, another seed, or a wrong checksum
  /\ rx < MaxRx
  /\ rx' = rx + 1
  /\ UNCHANGED <<queue, taskVars, fifo, hostVars, delivered>>

\* Faulty variant: a full queue is made to take the new packet by losing
\* its oldest.
ForwardOverwrites(len) ==
  /\ rx < MaxRx
  /\ rx' = rx + 1
  /\ queue' = Append(IF Len(queue) < QUEUE_SIZE THEN queue ELSE Tail(queue),
                     [id |-> rx', len |-> len])
  /\ UNCHANGED <<taskVars, fifo, hostVars, delivered>>

Forward(len) ==  \* valid: queued without waiting, or dropped if there is no room
  /\ rx < MaxRx
  /\ rx' = rx + 1
  /\ queue' = IF Len(queue) < QUEUE_SIZE
                THEN Append(queue, [id |-> rx', len |-> len]) ELSE queue
  /\ UNCHANGED <<taskVars, fifo, hostVars, delivered>>

-----------------------------------------------------------------------------
(* usb_tx_task.                                                            *)

TakePacket ==
  /\ pc = "receive" /\ queue # <<>>
  /\ pkt' = Head(queue)
  /\ queue' = Tail(queue)
  /\ sent' = 0
  /\ pc' = "connect"
  /\ UNCHANGED <<rx, fifo, hostVars, delivered>>

SeeConnected ==  \* looked at once per packet, before its first byte
  /\ pc = "connect" /\ capturing
  /\ pc' = "write"
  /\ UNCHANGED <<rx, queue, pkt, sent, fifo, hostVars, delivered>>

Min2(a, b) == IF a < b THEN a ELSE b

\* Faulty variant: the task waits until the whole rest fits.
WriteWhole ==
  LET n == pkt.len - sent IN
  /\ pc = "write" /\ n <= CDC_BLOCKS - Len(fifo)
  /\ fifo' = fifo \o BlocksAfter(pkt, sent)
  /\ sent' = pkt.len
  /\ pc' = "receive"
  /\ delivered' = pkt.id
  /\ UNCHANGED <<rx, queue, pkt, hostVars>>

\* Faulty variant: the packet is left once the FIFO is full.
WriteOnce ==
  LET n == Min2(pkt.len - sent, CDC_BLOCKS - Len(fifo)) IN
  /\ pc = "write" /\ n > 0
  /\ fifo' = fifo \o SubSeq(BlocksAfter(pkt, sent), 1, n)
  /\ sent' = pkt.len
  /\ pc' = "receive"
  /\ delivered' = pkt.id
  /\ UNCHANGED <<rx, queue, pkt, hostVars>>

Write ==  \* as much as the FIFO takes; with no room the task yields and retries
  LET n == Min2(pkt.len - sent, CDC_BLOCKS - Len(fifo)) IN
  /\ pc = "write" /\ n > 0
  /\ fifo' = fifo \o SubSeq(BlocksAfter(pkt, sent), 1, n)
  /\ sent' = sent + n
  /\ IF sent' = pkt.len THEN pc' = "receive" /\ delivered' = pkt.id
                        ELSE UNCHANGED <<pc, delivered>>
  /\ UNCHANGED <<rx, queue, pkt, hostVars>>

-----------------------------------------------------------------------------
(* usb_capture.py and the USB stack.  The script opens its file for        *)
(* writing, which empties it, and stops at Ctrl+C or a serial error.       *)

StartCapture ==
  /\ ~capturing
  /\ capturing' = TRUE
  /\ file' = <<>>
  /\ UNCHANGED <<rx, queue, taskVars, fifo, delivered>>

ReadPort ==
  /\ capturing /\ fifo # <<>>
  /\ \E n \in 1 .. Len(fifo) :
       /\ file' = file \o SubSeq(fifo, 1, n)
       /\ fifo' = SubSeq(fifo, n + 1, Len(fifo))
  /\ UNCHANGED <<rx, queue, taskVars, capturing, delivered>>

StopCapture ==  \* the file is complete: the model forgets it
  /\ capturing
  /\ capturing' = FALSE
  /\ file' = <<>>
  /\ UNCHANGED <<rx, queue, taskVars, fifo, delivered>>

Unplug ==  \* a bus reset also empties the FIFO
  /\ capturing' = FALSE
  /\ file' = <<>>
  /\ fifo' = <<>>
  /\ UNCHANGED <<rx, queue, taskVars, delivered>>

-----------------------------------------------------------------------------
Receive == Reject \/ \E len \in 1 .. BLOCKS : Forward(len)
UsbTask == TakePacket \/ SeeConnected \/ Write
Next == Receive \/ UsbTask \/ StartCapture \/ ReadPort \/ StopCapture \/ Unplug

(* The USB task has a core to itself but for a task of lower priority, and *)
(* an open port is read.                                                   *)
Fairness == WF_vars(UsbTask) /\ WF_vars(ReadPort)

Spec == Init /\ [][Next]_vars /\ Fairness

-----------------------------------------------------------------------------
(* Properties.                                                             *)

Block == (1 .. MaxRx) \X (1 .. BLOCKS) \X (1 .. BLOCKS)

(* Every variable has its type and every buffer keeps within its size.     *)
TypeOK ==
  /\ rx \in 0 .. MaxRx
  /\ queue \in Seq(Packet) /\ Len(queue) <= QUEUE_SIZE
  /\ pkt \in Packet \cup {NoPacket} /\ sent \in 0 .. pkt.len
  /\ pc \in {"receive", "connect", "write"}
  /\ fifo \in Seq(Block) /\ Len(fifo) <= CDC_BLOCKS
  /\ capturing \in BOOLEAN /\ file \in Seq(Block)

\* Everything between the capture file and tx_queue, oldest first.
Stream == file \o fifo \o BlocksAfter(pkt, sent)

\* Block b may follow block a: the next of its packet, or the first of a later one.
Follows(a, b) ==
  \/ b = <<a[1], a[2] + 1, a[3]>>
  \/ a[1] < b[1] /\ a[2] = a[3] /\ b[2] = 1

(* A capture file has no seam inside a packet: whatever part of a packet   *)
(* it holds is contiguous, runs to the packet's end unless the file ends   *)
(* before, and a later packet starts at its first block.  A disconnection  *)
(* in the middle of a packet may cost a file its beginning, never leave a  *)
(* hole in it, because the task does not give the packet up; and what      *)
(* tx_queue holds is later than all that, in the order it will be sent.    *)
Seamless ==
  /\ \A i \in 1 .. Len(Stream) - 1 : Follows(Stream[i], Stream[i + 1])
  /\ \A i \in 1 .. Len(queue) : pkt.id < queue[i].id
  /\ \A i, j \in 1 .. Len(queue) : i < j => queue[i].id < queue[j].id

(* Raw SPI captures are "framed in 2048-byte chunks with a 4-byte          *)
(* per-chunk header (the format streamed by the EFR32MG24 firmware via the *)
(* ESP32 bridge)" and the decoder blanks a header at every multiple of     *)
(* 2048.  The bridge does not frame: a file opened while a packet is half  *)
(* written starts in its middle, and so does everything after it.          *)
Framed == \A i \in 1 .. Len(file) : (i - 1) % BLOCKS = 0 => file[i][2] = 1

(* If the host captures for good from some time on, every packet in the    *)
(* queue leaves the bridge: the loop that waits for room in the FIFO, the  *)
(* wait for a connection and the queue cannot wait for each other.         *)
Held == {queue[i].id : i \in 1 .. Len(queue)}
          \cup (IF sent < pkt.len THEN {pkt.id} ELSE {})
QueueDrains ==
  <>[]capturing => \A id \in 1 .. MaxRx : id \in Held ~> id \notin Held

(* The bridge implements LossyQueue on packets: the queue and the packet   *)
(* usb_tx_task is writing are what it holds.                               *)
Ids(q) == [i \in 1 .. Len(q) |-> q[i].id]
HeldSeq == (IF sent < pkt.len THEN <<pkt.id>> ELSE <<>>) \o Ids(queue)
LQ == INSTANCE LossyQueue WITH
        Capacity <- QUEUE_SIZE + 1, offered <- rx, inside <- HeldSeq, last <- delivered
QueuesInOrder == LQ!Spec

=============================================================================
