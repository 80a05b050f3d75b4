---------------------------- MODULE ChunkMonitor ----------------------------
(***************************************************************************)
(* The buffer life cycle of the EFR32 IQ streamer                          *)
(* (EFR32MG24/Code/ble_packet_monitor.c): RING_N chunk buffers travel      *)
(*                                                                         *)
(*   free -> (RAIL ISR fills) -> ready -> (energy trigger) -> hist or tx   *)
(*        -> (LDMA sends over SPI) -> free                                 *)
(*                                                                         *)
(* Three actors interleave: the RAIL receive interrupt, the main loop      *)
(* (one action per critical section) and the LDMA channel, which finishes  *)
(* a transfer on its own.  The main loop's position is pc.                 *)
(*                                                                         *)
(* The energy comparison is a nondeterministic choice, and the byte and    *)
(* event counters are left to module MonitorStats: nothing here reads them.*)
(***************************************************************************)
EXTENDS Integers, Sequences, FiniteSets

CONSTANTS
  RING_N,              \* chunk buffers, and slots of every queue
  PRETRIGGER_CHUNKS,   \* cold chunks kept from before a trigger
  POSTTRIGGER_CHUNKS,  \* chunks sent after the last hot one
  POLLS                \* ldma_poll_completion calls per process call

\* Indices, counts and g_free_t = RING_N are uint8_t and 0xFF means no chunk.
ASSUME ConfigAssumption ==
  /\ RING_N \in 1 .. 254
  /\ PRETRIGGER_CHUNKS \in Nat
  /\ POSTTRIGGER_CHUNKS \in Nat
  /\ POLLS \in Nat \ {0}

Index == 0 .. RING_N - 1
NoChunk == 255
States == {"IDLE", "POST"}

VARIABLES
  free,           \* g_free_q with its head h, tail t and count n
  ready,          \* g_ready_q, as the sequence of its live entries
  hist,           \* g_hist_q, likewise
  tx,             \* g_tx_q, likewise
  hand,           \* idx of the process loop between q_pop and its trigger case
  curTx,          \* g_current_tx_idx
  ldmaActive,     \* g_ldma_active
  chdone,         \* the channel's bit of LDMA->CHDONE
  wire,           \* the chunk the LDMA channel is reading, hardware state
  csLow,          \* chip select asserted
  capState,       \* cap_state
  postRemaining,  \* post_remaining
  pc,             \* where the main loop is
  polls,          \* loop counter i of the polling loop
  iter,           \* loop counter iter of the draining loop
  lost,           \* history: the chunk whose return missed g_free_q
  leaked          \* history: chunks ldma_stop_tx forgot

loopVars == <<pc, polls, iter>>
capVars  == <<capState, postRemaining>>
ldmaVars == <<curTx, ldmaActive, chdone, wire, csLow>>
vars == <<free, ready, hist, tx, hand, ldmaVars, capVars, loopVars, lost, leaked>>

-----------------------------------------------------------------------------
(* The free queue, kept as the array the code keeps.                       *)

(***************************************************************************)
(* spi_init leaves the tail at RING_N, one past the array, so the first    *)
(* push writes outside g_free_q (into g_ready_q or g_chunks, whichever the *)
(* linker places there) and slot 0 keeps its initial entry 0.  Neither     *)
(* neighbour is disturbed: chunk headers are stamped before they are sent, *)
(* and slot 0 of g_ready_q is not live at that push (SpillHitsDeadSlot).   *)
(***************************************************************************)
FreePush(f, idx) ==
  [q |-> IF f.t \in Index THEN [f.q EXCEPT ![f.t] = idx] ELSE f.q,
   h |-> f.h,
   t |-> (f.t + 1) % RING_N,
   n |-> f.n + 1]

FreePop(f) == [q |-> f.q, h |-> (f.h + 1) % RING_N, t |-> f.t, n |-> f.n - 1]

FreeHead == free.q[free.h]

\* The live entries of g_free_q in the order they will be popped.
FreeSeq == [i \in 1 .. free.n |-> free.q[(free.h + i - 1) % RING_N]]

ReturnToFree(idx) ==
  /\ free' = FreePush(free, idx)
  /\ lost' = IF free.t \in Index \/ idx = free.q[0] THEN lost ELSE idx

-----------------------------------------------------------------------------
Init ==  \* spi_init, with the empty LDMA state of the static initialisers
  /\ free = [q |-> [i \in Index |-> i], h |-> 0, t |-> RING_N, n |-> RING_N]
  /\ ready = <<>>
  /\ hist = <<>>
  /\ tx = <<>>
  /\ hand = NoChunk
  /\ curTx = NoChunk
  /\ ldmaActive = FALSE
  /\ chdone = FALSE
  /\ wire = NoChunk
  /\ csLow = FALSE
  /\ capState = "IDLE"
  /\ postRemaining = 0
  /\ pc = "poll"
  /\ polls = 0
  /\ iter = 0
  /\ lost = NoChunk
  /\ leaked = 0

-----------------------------------------------------------------------------
(* The RAIL receive interrupt.  It runs to completion between two critical *)
(* sections of the main loop; with no free chunk, or nothing to read, it   *)
(* changes no queue.                                                       *)
RxEvent ==
  /\ free.n > 0
  /\ ready' = Append(ready, FreeHead)
  /\ free' = FreePop(free)
  /\ UNCHANGED <<hist, tx, hand, ldmaVars, capVars, loopVars, lost, leaked>>

(* The LDMA channel finishes the transfer it is making.                    *)
TransferDone ==
  /\ wire # NoChunk
  /\ wire' = NoChunk
  /\ chdone' = TRUE
  /\ UNCHANGED <<free, ready, hist, tx, hand, curTx, ldmaActive, csLow,
                 capVars, loopVars, lost, leaked>>

-----------------------------------------------------------------------------
(* ldma_poll_completion, called POLLS times at the top of process().       *)

PollBusy ==  \* not active, or the transfer is still running
  /\ pc = "poll" /\ polls < POLLS
  /\ ~ldmaActive \/ ~chdone
  /\ polls' = polls + 1
  /\ UNCHANGED <<free, ready, hist, tx, hand, ldmaVars, capVars, pc, iter,
                 lost, leaked>>

\* Faulty variant: g_current_tx_idx is not reset once the chunk is returned.
PollRecycleKeepsCurrent ==
  /\ pc = "poll" /\ polls < POLLS
  /\ ldmaActive /\ chdone
  /\ IF curTx # NoChunk THEN ReturnToFree(curTx) ELSE UNCHANGED <<free, lost>>
  /\ csLow' = TRUE
  /\ pc' = "next"
  /\ UNCHANGED <<ready, hist, tx, hand, curTx, ldmaActive, chdone, wire, capVars,
                 polls, iter, leaked>>

PollRecycle ==  \* the first critical section: chip select pulse, chunk back to free
  /\ pc = "poll" /\ polls < POLLS
  /\ ldmaActive /\ chdone
  /\ IF curTx # NoChunk THEN ReturnToFree(curTx) ELSE UNCHANGED <<free, lost>>
  /\ curTx' = NoChunk
  /\ csLow' = TRUE
  /\ pc' = "next"
  /\ UNCHANGED <<ready, hist, tx, hand, ldmaActive, chdone, wire, capVars,
                 polls, iter, leaked>>

\* Faulty variant: the done flag of the previous transfer is left set.
LoadNextTxStaleDone ==
  /\ tx' = Tail(tx)
  /\ curTx' = Head(tx)
  /\ wire' = Head(tx)
  /\ UNCHANGED chdone

\* Pop g_tx_q, load its head into the channel and clear its done flag.
LoadNextTx ==
  /\ tx' = Tail(tx)
  /\ curTx' = Head(tx)
  /\ wire' = Head(tx)
  /\ chdone' = FALSE

PollNext ==  \* the second critical section and the fast restart
  /\ pc = "next"
  /\ \/ /\ tx # <<>>
        /\ LoadNextTx
        /\ UNCHANGED ldmaActive
     \/ /\ tx = <<>>
        /\ ldmaActive' = FALSE
        /\ UNCHANGED <<tx, curTx, wire, chdone>>
  /\ pc' = "poll"
  /\ polls' = polls + 1
  /\ UNCHANGED <<free, ready, hist, hand, csLow, capVars, iter, lost, leaked>>

\* Faulty variant: the draining loop counts from one.
EndPollsFromOne ==
  /\ pc = "poll" /\ polls = POLLS
  /\ pc' = "drain"
  /\ polls' = 0
  /\ iter' = 1
  /\ UNCHANGED <<free, ready, hist, tx, hand, ldmaVars, capVars, lost, leaked>>

EndPolls ==
  /\ pc = "poll" /\ polls = POLLS
  /\ pc' = "drain"
  /\ polls' = 0
  /\ iter' = 0
  /\ UNCHANGED <<free, ready, hist, tx, hand, ldmaVars, capVars, lost, leaked>>

-----------------------------------------------------------------------------
(* The draining loop: for (iter = 0; iter < g_ready_n; ++iter).            *)

\* Faulty variant: the newest entry is taken first.
TakeNewest ==
  /\ pc = "drain" /\ iter < Len(ready)
  /\ hand' = ready[Len(ready)]
  /\ ready' = SubSeq(ready, 1, Len(ready) - 1)
  /\ pc' = "sort"
  /\ UNCHANGED <<free, hist, tx, ldmaVars, capVars, polls, iter, lost, leaked>>

TakeReady ==
  /\ pc = "drain" /\ iter < Len(ready)
  /\ hand' = Head(ready)
  /\ ready' = Tail(ready)
  /\ pc' = "sort"
  /\ UNCHANGED <<free, hist, tx, ldmaVars, capVars, polls, iter, lost, leaked>>

NextIteration ==
  /\ hand' = NoChunk
  /\ pc' = "drain"
  /\ iter' = iter + 1
  /\ UNCHANGED <<ready, ldmaVars, polls, leaked>>

\* Faulty variant: the hot chunk is queued ahead of its history.
TriggerNewestFirst ==
  /\ pc = "sort" /\ capState = "IDLE"
  /\ tx' = Append(tx, hand) \o hist
  /\ hist' = <<>>
  /\ capState' = "POST"
  /\ postRemaining' = POSTTRIGGER_CHUNKS
  /\ NextIteration
  /\ UNCHANGED <<free, lost>>

\* Faulty variant: the history is emptied but not queued.
TriggerDropsHistory ==
  /\ pc = "sort" /\ capState = "IDLE"
  /\ tx' = Append(tx, hand)
  /\ hist' = <<>>
  /\ capState' = "POST"
  /\ postRemaining' = POSTTRIGGER_CHUNKS
  /\ NextIteration
  /\ UNCHANGED <<free, lost>>

\* IDLE and hot: the history, oldest first, then the chunk itself are queued.
Trigger ==
  /\ pc = "sort" /\ capState = "IDLE"
  /\ tx' = Append(tx \o hist, hand)
  /\ hist' = <<>>
  /\ capState' = "POST"
  /\ postRemaining' = POSTTRIGGER_CHUNKS
  /\ NextIteration
  /\ UNCHANGED <<free, lost>>

\* Faulty variant: the cold chunk itself is freed instead of the oldest one.
KeepHistoryFreesNewest ==
  /\ pc = "sort" /\ capState = "IDLE"
  /\ LET h == Append(hist, hand) IN
       IF Len(h) > PRETRIGGER_CHUNKS
         THEN hist' = Tail(h) /\ ReturnToFree(hand)
         ELSE hist' = h /\ UNCHANGED <<free, lost>>
  /\ NextIteration
  /\ UNCHANGED <<tx, capVars>>

\* Faulty variant: the history is never trimmed.
KeepAllHistory ==
  /\ pc = "sort" /\ capState = "IDLE"
  /\ hist' = Append(hist, hand)
  /\ NextIteration
  /\ UNCHANGED <<free, lost, tx, capVars>>

\* IDLE and cold: into the history, whose oldest chunk goes back to free
\* once there are more than PRETRIGGER_CHUNKS.
KeepHistory ==
  /\ pc = "sort" /\ capState = "IDLE"
  /\ LET h == Append(hist, hand) IN
       IF Len(h) > PRETRIGGER_CHUNKS
         THEN hist' = Tail(h) /\ ReturnToFree(Head(h))
         ELSE hist' = h /\ UNCHANGED <<free, lost>>
  /\ NextIteration
  /\ UNCHANGED <<tx, capVars>>

\* Faulty variant: a hot chunk does not restart the count.
PostLeftNoRetrigger(hot) == IF postRemaining > 0 THEN postRemaining - 1 ELSE 0

\* POST: the chunk is queued; a hot one restarts the count, and a count
\* that reaches zero ends the capture.
PostLeft(hot) ==
  IF hot THEN POSTTRIGGER_CHUNKS
  ELSE IF postRemaining > 0 THEN postRemaining - 1 ELSE 0

SendPost(hot) ==
  /\ pc = "sort" /\ capState = "POST"
  /\ tx' = Append(tx, hand)
  /\ postRemaining' = PostLeft(hot)
  /\ capState' = IF postRemaining' = 0 THEN "IDLE" ELSE "POST"
  /\ NextIteration
  /\ UNCHANGED <<free, hist, lost>>

EndDrain ==
  /\ pc = "drain" /\ iter >= Len(ready)
  /\ pc' = "start"
  /\ UNCHANGED <<free, ready, hist, tx, hand, ldmaVars, capVars, polls, iter,
                 lost, leaked>>

\* ldma_start_tx if the channel is idle and g_tx_q is not empty.
StartTx ==
  /\ pc = "start"
  /\ \/ /\ ~ldmaActive /\ tx # <<>>
        /\ LoadNextTx
        /\ csLow' = TRUE
        /\ ldmaActive' = TRUE
     \/ /\ ldmaActive \/ tx = <<>>
        /\ UNCHANGED <<tx, ldmaVars>>
  /\ pc' = "poll"
  /\ UNCHANGED <<free, ready, hist, hand, capVars, polls, iter, lost, leaked>>

\* ble_packet_monitor_stop, called between two process() calls: it spins
\* until the transfer ends and forgets the chunk without returning it.
Stop ==
  /\ pc = "poll" /\ polls = 0
  /\ ldmaActive /\ chdone
  /\ ldmaActive' = FALSE
  /\ chdone' = FALSE
  /\ leaked' = leaked + 1
  /\ curTx' = NoChunk
  /\ csLow' = FALSE
  /\ UNCHANGED <<free, ready, hist, tx, hand, wire, capVars, loopVars, lost>>

-----------------------------------------------------------------------------
MainLoop ==
  \/ PollBusy \/ PollRecycle \/ PollNext \/ EndPolls
  \/ TakeReady \/ Trigger \/ KeepHistory \/ (\E hot \in BOOLEAN : SendPost(hot))
  \/ EndDrain \/ StartTx

Next == RxEvent \/ TransferDone \/ MainLoop \/ Stop

(* app_process_action runs for ever and a started transfer ends.  Nothing  *)
(* obliges the radio to receive or the application to call stop.           *)
Fairness == WF_vars(MainLoop) /\ WF_vars(TransferDone)

Spec == Init /\ [][Next]_vars /\ Fairness

-----------------------------------------------------------------------------
(* Properties.                                                             *)

MaybeIndex == Index \cup {NoChunk}

FreeType ==
  [q : [Index -> Index], h : Index, t : 0 .. RING_N, n : 0 .. RING_N]

(* Every variable holds a value the C types and comments allow.            *)
TypeOK ==
  /\ free \in FreeType
  /\ ready \in Seq(Index) /\ hist \in Seq(Index) /\ tx \in Seq(Index)
  /\ hand \in MaybeIndex /\ curTx \in MaybeIndex /\ wire \in MaybeIndex
  /\ ldmaActive \in BOOLEAN /\ chdone \in BOOLEAN /\ csLow \in BOOLEAN
  /\ capState \in States /\ postRemaining \in 0 .. POSTTRIGGER_CHUNKS
  /\ pc \in {"poll", "next", "drain", "sort", "start"}
  /\ polls \in 0 .. POLLS /\ iter \in Nat
  /\ lost \in MaybeIndex /\ leaked \in 0 .. RING_N

One(idx) == IF idx = NoChunk THEN 0 ELSE 1

(* q_push never tests for a full queue.  What keeps every ring from        *)
(* overflowing is that entries are only moved, never made: the entries of  *)
(* the four queues, the one in the loop's hand, the one being sent and the *)
(* ones stop has forgotten always number RING_N.                           *)
EntriesConserved ==
  free.n + Len(ready) + Len(hist) + Len(tx) + One(hand) + One(curTx) + leaked
    = RING_N

Occurs(s, c) == Cardinality({i \in DOMAIN s : s[i] = c})

\* How many parts of the program believe they own chunk c.
Owners(c) ==
  Occurs(FreeSeq, c) + Occurs(ready, c) + Occurs(hist, c) + Occurs(tx, c)
    + (IF hand = c THEN 1 ELSE 0) + (IF curTx = c THEN 1 ELSE 0)

(* A chunk has one owner at a time, so no buffer is filled by the ISR      *)
(* while it waits to be sent or is being sent.  The comments of spi_init,  *)
(* ldma_poll_completion and the history ("Initialize free queue", "Return  *)
(* completed chunk to free queue", "pop oldest and return to free") say    *)
(* so; the initial tail breaks it.                                         *)
ExclusiveOwnership == \A c \in Index : Owners(c) <= 1

(* What the initial tail costs, exactly: if the first chunk returned is    *)
(* not chunk 0, that one chunk is owned by nobody and chunk 0 twice; every *)
(* other chunk has one owner, until stop forgets some.                     *)
DamageIsOneChunk ==
  LET owed(c) == 1 + (IF c = 0 /\ lost # NoChunk THEN 1 ELSE 0)
                   - (IF c = lost THEN 1 ELSE 0)
  IN /\ \A c \in Index : Owners(c) <= owed(c)
     /\ leaked = 0 => \A c \in Index : Owners(c) = owed(c)

(* The byte written past g_free_q may land in slot 0 of g_ready_q.  It is  *)
(* harmless there: slot 0 holds chunk 0 until chunk 0 is popped, and no    *)
(* chunk can come back to the free queue before that.                      *)
SpillHitsDeadSlot ==
  free.t = RING_N /\ (\E i \in DOMAIN ready : ready[i] = 0) =>
    hand = NoChunk /\ curTx = NoChunk /\ hist = <<>> /\ tx = <<>>

(* The polled driver and the LDMA channel agree: a running transfer is the *)
(* chunk g_current_tx_idx names, with chip select asserted throughout, and *)
(* the driver never believes a transfer is under way that has neither      *)
(* started nor left its done flag, the state in which streaming would hang *)
(* for ever.                                                               *)
ChannelInStep ==
  /\ ldmaActive => csLow
  /\ wire # NoChunk => ldmaActive /\ curTx = wire /\ ~chdone
  /\ ldmaActive => wire # NoChunk \/ chdone

(* Every chunk the ISR delivers reaches the energy trigger, although a     *)
(* pass of the draining loop may leave half of the queue behind: the loop  *)
(* never stops taking chunks while there are any, and takes them in order. *)
ReadyServed == ready # <<>> ~> hand # NoChunk

(* Reception never starves: when the ISR has run out of chunks it gets one *)
(* back, unless stop has forgotten all that the history does not need.     *)
Starvable == leaked + PRETRIGGER_CHUNKS >= RING_N
FreeReplenished == free.n = 0 /\ ~Starvable ~> free.n > 0 \/ Starvable

=============================================================================
