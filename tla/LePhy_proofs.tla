----------------------------- MODULE LePhy_proofs -----------------------------
(***************************************************************************)
(* Proofs about LePhy, for any number of buffers, connections and          *)
(* channels, any hop and any width of the event counter: the buffer pool,  *)
(* the timer, and the hopping of the follower with its connection.         *)
(***************************************************************************)
EXTENDS LePhy, WellFoundedInduction, TLAPS

BuffersTyped ==
  /\ avail \subseteq Bufs /\ current \in Bufs \cup {NULL}
  /\ work \in Bufs \cup {NULL} /\ queue \in Seq(Bufs)

(* The main loop holds a buffer while it handles one, and a packet is      *)
(* received into a buffer only.                                            *)
Held ==
  /\ (pc = "idle") = (work = NULL)
  /\ rx = "packet" => current # NULL

PoolInv == BuffersTyped /\ BuffersConserved /\ Held

-----------------------------------------------------------------------------
(* Sequences and the pool.                                                 *)

LEMMA NullIsNoBuffer == NULL \notin Bufs
  BY DEF NULL, Bufs

LEMMA AppendOne ==
  ASSUME NEW q \in Seq(Bufs), NEW b \in Bufs, IsInjective(q), b \notin ToSet(q)
  PROVE  /\ Append(q, b) \in Seq(Bufs) /\ IsInjective(Append(q, b))
         /\ ToSet(Append(q, b)) = ToSet(q) \cup {b}
<1> DEFINE r == Append(q, b)
<1>1. /\ r \in Seq(Bufs) /\ Len(r) = Len(q) + 1 /\ DOMAIN r = 1 .. Len(r)
      /\ DOMAIN q = 1 .. Len(q) /\ Len(q) \in Nat
      /\ \A i \in DOMAIN q : r[i] = q[i]
      /\ r[Len(q) + 1] = b
  OBVIOUS
<1>2. \A i \in DOMAIN r : i \in DOMAIN q \/ i = Len(q) + 1
  BY <1>1
<1> HIDE DEF r
<1>3. \A i \in DOMAIN q : i \in DOMAIN r
  BY <1>1
<1>4. Len(q) + 1 \in DOMAIN r
  BY <1>1
<1>5. IsInjective(r)
  BY <1>1, <1>2 DEF IsInjective, ToSet
<1>6. ToSet(r) = ToSet(q) \cup {b}
  BY <1>1, <1>2, <1>3, <1>4 DEF ToSet
<1>7. QED
  BY <1>1, <1>5, <1>6 DEF r

LEMMA TailOne ==
  ASSUME NEW q \in Seq(Bufs), q # <<>>, IsInjective(q)
  PROVE  /\ Head(q) \in Bufs /\ Tail(q) \in Seq(Bufs) /\ IsInjective(Tail(q))
         /\ ToSet(Tail(q)) = ToSet(q) \ {Head(q)}
         /\ Head(q) \in ToSet(q)
<1> DEFINE t == Tail(q)
<1>1. /\ t \in Seq(Bufs) /\ Len(t) = Len(q) - 1 /\ DOMAIN t = 1 .. Len(t)
      /\ DOMAIN q = 1 .. Len(q) /\ Len(q) \in Nat /\ Len(q) > 0
      /\ Head(q) = q[1] /\ q[1] \in Bufs
  OBVIOUS
<1>2. \A i \in DOMAIN t : i + 1 \in DOMAIN q /\ t[i] = q[i + 1] /\ i + 1 # 1
  BY <1>1
<1> HIDE DEF t
<1>3. \A i \in DOMAIN q : i = 1 \/ (i - 1 \in DOMAIN t /\ t[i - 1] = q[i])
  <2> SUFFICES ASSUME NEW i \in DOMAIN q, i # 1
               PROVE  i - 1 \in DOMAIN t /\ t[i - 1] = q[i]
    OBVIOUS
  <2>1. i - 1 \in DOMAIN t /\ (i - 1) + 1 = i
    BY <1>1
  <2>2. QED
    BY <2>1, <1>2
<1>4. 1 \in DOMAIN q
  BY <1>1
<1>5. IsInjective(t)
  <2> SUFFICES ASSUME NEW i \in DOMAIN t, NEW j \in DOMAIN t, t[i] = t[j] PROVE i = j
    BY DEF IsInjective
  <2>1. i + 1 = j + 1
    BY <1>2 DEF IsInjective
  <2>2. QED
    BY <2>1, <1>1
<1>6. ToSet(t) = ToSet(q) \ {q[1]}
  <2>1. \A x \in ToSet(t) : x \in ToSet(q) /\ x # q[1]
    <3> SUFFICES ASSUME NEW i \in DOMAIN t PROVE t[i] \in ToSet(q) /\ t[i] # q[1]
      BY DEF ToSet
    <3>1. QED
      BY <1>2, <1>4 DEF ToSet, IsInjective
  <2>2. \A x \in ToSet(q) : x # q[1] => x \in ToSet(t)
    BY <1>3 DEF ToSet
  <2>3. QED
    BY <2>1, <2>2
<1>7. QED
  BY <1>1, <1>4, <1>5, <1>6 DEF t, ToSet

(* A nonempty set of buffers has a least element: < is well-founded.       *)
LEMMA LeastBuffer ==
  ASSUME NEW S, S \subseteq Bufs, S # {}
  PROVE  \E b \in S : \A c \in S : b <= c
<1>1. S \subseteq Nat
  BY PhyAssumption DEF Bufs
<1>2. PICK b \in S : \A c \in S : <<c, b>> \notin OpToRel(<, Nat)
  BY <1>1, NatLessThanWellFounded, WFMin
<1>3. \A c \in S : ~(c < b)
  BY <1>1, <1>2 DEF OpToRel
<1>4. QED
  BY <1>1, <1>3

LEMMA GetFromPool == avail \subseteq Bufs => Get = NULL \/ Get \in avail
<1> SUFFICES ASSUME avail \subseteq Bufs, avail # {} PROVE Get \in avail
  BY DEF Get
<1>1. PICK b \in avail : \A c \in avail : b <= c
  BY LeastBuffer
<1>2. QED
  BY <1>1 DEF Get

-----------------------------------------------------------------------------
(* The three ways a buffer changes hands.                                  *)

(* A received packet is queued and a free buffer, if any, replaces it.     *)
LEMMA EnqueueKeeps ==
  ASSUME PoolInv, rx = "packet", Enqueue
  PROVE  /\ BuffersTyped' /\ BuffersConserved'
         /\ work' = work
<1>1. /\ current \in Bufs /\ queue \in Seq(Bufs) /\ IsInjective(queue)
      /\ current \notin ToSet(queue) /\ current \notin avail /\ current # work
      /\ avail \subseteq Bufs /\ work \in Bufs \cup {NULL}
      /\ work \notin avail /\ work \notin ToSet(queue)
      /\ avail \cap ToSet(queue) = {}
      /\ avail \cup ToSet(queue) \cup ({current, work} \ {NULL}) = Bufs
  BY DEF PoolInv, BuffersTyped, BuffersConserved, Held
<1>2. /\ queue' \in Seq(Bufs) /\ IsInjective(queue')
      /\ ToSet(queue') = ToSet(queue) \cup {current}
  BY <1>1, AppendOne DEF Enqueue
<1>3. Get = NULL \/ Get \in avail
  BY <1>1, GetFromPool
<1>4. Get = NULL => avail = {}
  BY <1>1, LeastBuffer, NullIsNoBuffer DEF Get
<1>5. current' = Get /\ avail' = avail \ {Get} /\ work' = work
  BY DEF Enqueue
<1> HIDE DEF Get
<1>6. BuffersTyped'
  BY <1>1, <1>2, <1>3, <1>5 DEF BuffersTyped
<1>7. avail' \cup ToSet(queue') \cup ({current', work'} \ {NULL}) = Bufs
  BY <1>1, <1>2, <1>3, <1>5, NullIsNoBuffer
<1>8. /\ avail' \cap ToSet(queue') = {}
      /\ {current', work'} \cap (avail' \cup ToSet(queue')) = {}
  BY <1>1, <1>2, <1>3, <1>5, NullIsNoBuffer
<1>9. current' = work' => current' = NULL
  BY <1>1, <1>3, <1>5
<1>10. QED
  BY <1>2, <1>5, <1>6, <1>7, <1>8, <1>9 DEF BuffersConserved

(* The main loop takes the oldest packet.                                  *)
LEMMA TakeKeeps ==
  ASSUME PoolInv, Take
  PROVE  PoolInv'
<1>1. /\ work = NULL /\ queue \in Seq(Bufs) /\ queue # <<>> /\ IsInjective(queue)
      /\ avail \subseteq Bufs /\ current \in Bufs \cup {NULL}
      /\ avail \cap ToSet(queue) = {}
      /\ current \notin avail /\ current \notin ToSet(queue)
      /\ avail \cup ToSet(queue) \cup ({current, work} \ {NULL}) = Bufs
      /\ rx = "packet" => current # NULL
  BY DEF PoolInv, BuffersTyped, BuffersConserved, Held, Take
<1>2. /\ work' = Head(queue) /\ queue' = Tail(queue) /\ pc' = "handle"
      /\ avail' = avail /\ current' = current /\ rx' = rx
  BY DEF Take, radio
<1>3. /\ work' \in Bufs /\ queue' \in Seq(Bufs) /\ IsInjective(queue')
      /\ ToSet(queue') = ToSet(queue) \ {work'} /\ work' \in ToSet(queue)
  BY <1>1, <1>2, TailOne
<1>4. BuffersTyped'
  BY <1>1, <1>2, <1>3 DEF BuffersTyped
<1>5. avail' \cup ToSet(queue') \cup ({current', work'} \ {NULL}) = Bufs
  BY <1>1, <1>2, <1>3, NullIsNoBuffer
<1>6. /\ avail' \cap ToSet(queue') = {}
      /\ {current', work'} \cap (avail' \cup ToSet(queue')) = {}
      /\ current' = work' => current' = NULL
  BY <1>1, <1>2, <1>3, NullIsNoBuffer
<1>7. BuffersConserved'
  BY <1>3, <1>5, <1>6 DEF BuffersConserved
<1>8. Held'
  BY <1>1, <1>2, <1>3, NullIsNoBuffer DEF Held
<1>9. QED
  BY <1>4, <1>7, <1>8 DEF PoolInv

(* And gives it back, having stopped no packet from being received.        *)
LEMMA ReleaseKeeps ==
  ASSUME PoolInv, work # NULL, Release, rx' = rx
  PROVE  PoolInv'
<1>1. /\ work \in Bufs /\ queue \in Seq(Bufs) /\ IsInjective(queue)
      /\ avail \subseteq Bufs /\ current \in Bufs \cup {NULL}
      /\ avail \cap ToSet(queue) = {}
      /\ {current, work} \cap (avail \cup ToSet(queue)) = {}
      /\ current = work => current = NULL
      /\ avail \cup ToSet(queue) \cup ({current, work} \ {NULL}) = Bufs
      /\ rx = "packet" => current # NULL
  BY DEF PoolInv, BuffersTyped, BuffersConserved, Held
<1>2. /\ avail' = avail \cup {work} /\ work' = NULL /\ pc' = "idle"
      /\ current' = current /\ queue' = queue
  BY DEF Release
<1>3. BuffersTyped'
  BY <1>1, <1>2 DEF BuffersTyped
<1>4. avail' \cup ToSet(queue') \cup ({current', work'} \ {NULL}) = Bufs
  BY <1>1, <1>2, NullIsNoBuffer
<1>5. NULL \notin ToSet(queue)
  BY <1>1, NullIsNoBuffer
<1>6. /\ avail' \cap ToSet(queue') = {}
      /\ {current', work'} \cap (avail' \cup ToSet(queue')) = {}
      /\ current' = work' => current' = NULL
  BY <1>1, <1>2, <1>5, NullIsNoBuffer
<1>7. BuffersConserved'
  BY <1>1, <1>2, <1>4, <1>6 DEF BuffersConserved
<1>8. Held'
  BY <1>1, <1>2 DEF Held
<1>9. QED
  BY <1>3, <1>7, <1>8 DEF PoolInv

(* No other step moves a buffer; none starts receiving without one.        *)
LEMMA OthersKeep ==
  ASSUME PoolInv,
         UNCHANGED <<avail, current, queue, work>>,
         (pc' = "idle") = (pc = "idle"),
         rx' = "packet" => current # NULL
  PROVE  PoolInv'
BY DEF PoolInv, BuffersTyped, BuffersConserved, Held

-----------------------------------------------------------------------------
LEMMA InitPool == Init => PoolInv
<1> SUFFICES ASSUME Init PROVE PoolInv
  OBVIOUS
<1>1. avail = Bufs \ {1} /\ current = 1 /\ queue = <<>> /\ work = NULL
      /\ pc = "idle"
  BY DEF Init
<1>2. 1 \in Bufs /\ 1 # NULL
  BY PhyAssumption DEF Bufs, NULL
<1>3. queue \in Seq(Bufs) /\ ToSet(queue) = {} /\ IsInjective(queue)
  BY <1>1 DEF ToSet, IsInjective
<1>4. BuffersTyped
  BY <1>1, <1>2, <1>3 DEF BuffersTyped
<1>5. avail \cup ToSet(queue) \cup ({current, work} \ {NULL}) = Bufs
  BY <1>1, <1>2, <1>3
<1>6. /\ avail \cap ToSet(queue) = {}
      /\ {current, work} \cap (avail \cup ToSet(queue)) = {}
      /\ current = work => current = NULL
  BY <1>1, <1>2, <1>3, NullIsNoBuffer
<1>7. Held
  BY <1>1, <1>2 DEF Held
<1>8. QED
  BY <1>3, <1>4, <1>5, <1>6, <1>7 DEF PoolInv, BuffersConserved

(* The interrupts: only the end of a packet moves buffers.                 *)
LEMMA EndPacketPool == PoolInv /\ EndPacket => PoolInv'
<1> SUFFICES ASSUME PoolInv, EndPacket PROVE PoolInv'
  OBVIOUS
<1>1. Enqueue /\ rx = "packet"
  BY DEF EndPacket, EndAdvertising, EndFirst, EndSecond
<1>2. BuffersTyped' /\ BuffersConserved' /\ work' = work
  BY <1>1, EnqueueKeeps
<1>3. pc' = pc /\ rx' # "packet"
  BY DEF EndPacket, EndAdvertising, EndFirst, EndSecond, FinishConnEvent,
         ChangeChannel
<1>4. QED
  BY <1>2, <1>3 DEF PoolInv, Held

LEMMA TimerMatchPool == PoolInv /\ TimerMatch => PoolInv'
<1> SUFFICES ASSUME PoolInv, TimerMatch PROVE PoolInv'
  OBVIOUS
<1>1. UNCHANGED <<avail, current, queue, work>> /\ pc' = pc
  BY DEF TimerMatch, UpdateOffset, UpdateWindow, OpenEvent, CloseEvent, buffers
<1>2. rx' = "packet" => rx = "packet"
  BY DEF TimerMatch, UpdateOffset, UpdateWindow, OpenEvent, CloseEvent,
         FinishConnEvent, ChangeChannel
<1>3. rx' = "packet" => current # NULL
  BY <1>2 DEF PoolInv, Held
<1>4. QED
  BY <1>1, <1>3, OthersKeep

LEMMA HandlePool == PoolInv /\ Handle => PoolInv'
<1> SUFFICES ASSUME PoolInv, Handle PROVE PoolInv'
  OBVIOUS
<1>1. work # NULL /\ rx' = rx
  BY DEF Handle, Skip, ConnectFields, ConnectInvalid, ConnectValid,
         ConnectionUpdate, MapUpdatePending, MapUpdateFields, radio,
         PoolInv, Held
<1>2. CASE Release
  BY <1>1, <1>2, ReleaseKeeps
<1>3. CASE ConnectFields \/ MapUpdatePending
  <2>1. UNCHANGED <<avail, current, queue, work>> /\ pc # "idle" /\ pc' # "idle"
    BY <1>3 DEF ConnectFields, MapUpdatePending, buffers
  <2>2. QED
    BY <1>1, <2>1, OthersKeep DEF PoolInv, Held
<1>4. QED
  BY <1>2, <1>3 DEF Handle, Skip, ConnectInvalid, ConnectValid,
                    ConnectionUpdate, MapUpdateFields

LEMMA StepPool == PoolInv /\ [Next]_vars => PoolInv'
<1> SUFFICES ASSUME PoolInv, [Next]_vars PROVE PoolInv'
  OBVIOUS
<1>1. CASE FirstByte
  BY <1>1, OthersKeep DEF FirstByte
<1>2. CASE NullByte \/ Unheard \/ CancelFollow \/ UNCHANGED vars
  <2>1. UNCHANGED <<avail, current, queue, work, pc, rx>>
    BY <1>2 DEF NullByte, Unheard, CancelFollow, vars, buffers, radio
  <2>2. QED
    BY <2>1, OthersKeep DEF PoolInv, Held
<1>3. CASE EndPacket
  BY <1>3, EndPacketPool
<1>4. CASE TimerMatch
  BY <1>4, TimerMatchPool
<1>5. CASE MainLoop
  BY <1>5, TakeKeeps, HandlePool DEF MainLoop
<1>6. QED
  BY <1>1, <1>2, <1>3, <1>4, <1>5 DEF Next

(* Whatever the interrupts interrupt, every buffer of the pool is in one   *)
(* place and in one only (buffer_get, buffer_release, queue_insert and     *)
(* queue_remove in le_phy.c).                                              *)
THEOREM BuffersNeverShared == Spec => []BuffersConserved
<1>1. Spec => []PoolInv
  BY InitPool, StepPool, PTL DEF Spec
<1>2. PoolInv => BuffersConserved
  BY DEF PoolInv
<1>3. QED
  BY <1>1, <1>2, PTL

-----------------------------------------------------------------------------
(* The follower's timer.  NeverStalls is inductive; what has to be known   *)
(* besides is that no update of the record touches the access address.     *)

Armed == "aa" \in DOMAIN conn /\ NeverStalls

LEMMA ResetIsAdvertising == ResetConn.aa = ADV /\ "aa" \in DOMAIN ResetConn
  BY DEF ResetConn

(* Finishing an event arms the timer, gives the connection up, or finds    *)
(* the match in the past.                                                  *)
LEMMA FinishArms ==
  ASSUME NEW c, NEW n, NEW b, NEW r, "aa" \in DOMAIN c, FinishConnEvent(c, n, b, r)
  PROVE  /\ "aa" \in DOMAIN conn'
         /\ conn'.aa = ADV \/ timer' = "open" \/ lost'
<1> DEFINE after == Observed(c, n)
           over == after.quiet > SUP
<1>1. "aa" \in DOMAIN after
  BY DEF Observed
<1> HIDE DEF after
<1>2. CASE over \/ cancel
  <2>1. ChangeChannel(ResetConn, b)
    BY <1>2 DEF FinishConnEvent, after
  <2>2. conn' = ResetConn
    BY <2>1, ResetIsAdvertising DEF ChangeChannel
  <2>3. QED
    BY <2>2, ResetIsAdvertising
<1>3. CASE ~(over \/ cancel)
  <2>1. conn' = after
    BY <1>3 DEF FinishConnEvent, after
  <2>2. timer' = "open" \/ lost'
    BY <1>3 DEF FinishConnEvent, after
  <2>3. QED
    BY <1>1, <2>1, <2>2
<1>4. QED
  BY <1>2, <1>3

LEMMA ChangeKeepsAddress ==
  ASSUME NEW c, NEW b, "aa" \in DOMAIN c, ChangeChannel(c, b)
  PROVE  "aa" \in DOMAIN conn'
  BY DEF ChangeChannel

LEMMA InitArmed == Init => Armed
  BY ResetIsAdvertising DEF Init, Armed, NeverStalls

LEMMA DmaArmed == Armed /\ (FirstByte \/ EndPacket) => Armed'
<1> SUFFICES ASSUME Armed, FirstByte \/ EndPacket PROVE Armed'
  OBVIOUS
<1>1. CASE FirstByte
  <2>1. /\ conn' = conn /\ lost' = lost /\ crashed' = crashed /\ pc' = pc
        /\ chan' = chan /\ rx' = "packet"
        /\ chan = AdvChannel => timer' = timer
    BY <1>1 DEF FirstByte, history
  <2>2. AdvChannel' = AdvChannel
    BY DEF AdvChannel, Channel
  <2>3. rx = "idle"
    BY <1>1 DEF FirstByte
  <2>4. QED
    BY <2>1, <2>2, <2>3 DEF Armed, NeverStalls
<1>2. CASE EndAdvertising
  <2>1. /\ conn' = conn /\ lost' = lost /\ crashed' = crashed /\ pc' = pc
        /\ timer' = timer /\ chan = AdvChannel
    BY <1>2 DEF EndAdvertising, history
  <2>2. QED
    BY <2>1 DEF Armed, NeverStalls
<1>3. CASE EndFirst
  BY <1>3 DEF Armed, NeverStalls, EndFirst
<1>4. CASE EndSecond
  <2>1. FinishConnEvent(conn, 2, Get, "off")
    BY <1>4 DEF EndSecond
  <2>2. "aa" \in DOMAIN conn' /\ (conn'.aa = ADV \/ timer' = "open" \/ lost')
    BY <2>1, FinishArms DEF Armed
  <2>3. QED
    BY <2>2 DEF Armed, NeverStalls
<1>5. QED
  BY <1>1, <1>2, <1>3, <1>4 DEF EndPacket

LEMMA TimerArmed == Armed /\ TimerMatch => Armed'
<1> SUFFICES ASSUME Armed, TimerMatch PROVE Armed'
  OBVIOUS
<1>1. "aa" \in DOMAIN WithMap
  BY DEF Armed, WithMap
<1>2. CASE UpdateOffset
  BY <1>2 DEF Armed, NeverStalls, UpdateOffset
<1>3. CASE UpdateWindow
  <2>1. "aa" \in DOMAIN conn'
    BY <1>3, ChangeKeepsAddress DEF UpdateWindow, Armed
  <2>2. timer' = "timeout"
    BY <1>3 DEF UpdateWindow
  <2>3. QED
    BY <2>1, <2>2 DEF Armed, NeverStalls
<1>4. CASE OpenEvent
  <2>1. "aa" \in DOMAIN conn'
    BY <1>1, <1>4, ChangeKeepsAddress DEF OpenEvent
  <2>2. timer' = "timeout"
    BY <1>4 DEF OpenEvent
  <2>3. QED
    BY <2>1, <2>2 DEF Armed, NeverStalls
<1>5. CASE CloseEvent
  <2>1. "aa" \in DOMAIN conn' /\ (conn'.aa = ADV \/ timer' = "open" \/ lost')
    BY <1>1, <1>5, FinishArms DEF CloseEvent
  <2>2. QED
    BY <2>1 DEF Armed, NeverStalls
<1>6. QED
  BY <1>2, <1>3, <1>4, <1>5 DEF TimerMatch

LEMMA HandleArmed == Armed /\ Handle => Armed'
<1> SUFFICES ASSUME Armed, Handle PROVE Armed'
  OBVIOUS
<1>1. CASE Skip
  BY <1>1 DEF Armed, NeverStalls, Skip, radio, history
<1>2. CASE ConnectFields
  BY <1>2 DEF Armed, NeverStalls, ConnectFields
<1>3. CASE ConnectInvalid
  BY <1>3, ResetIsAdvertising DEF Armed, NeverStalls, ConnectInvalid
<1>4. CASE ConnectValid
  BY <1>4 DEF Armed, NeverStalls, ConnectValid
<1>5. CASE ConnectionUpdate \/ MapUpdatePending \/ MapUpdateFields
  <2>1. /\ "aa" \in DOMAIN conn' /\ conn'.aa = conn.aa
        /\ UNCHANGED <<radio, lost, crashed>> /\ pc # "connect"
    BY <1>5 DEF Armed, ConnectionUpdate, MapUpdatePending, MapUpdateFields, history
  <2>2. QED
    BY <2>1 DEF Armed, NeverStalls, radio
<1>6. QED
  BY <1>1, <1>2, <1>3, <1>4, <1>5 DEF Handle

LEMMA StepArmed == Armed /\ [Next]_vars => Armed'
<1> SUFFICES ASSUME Armed, [Next]_vars PROVE Armed'
  OBVIOUS
<1>1. CASE NullByte
  BY <1>1 DEF Armed, NeverStalls, NullByte
<1>2. CASE Unheard \/ Take \/ CancelFollow \/ UNCHANGED vars
  <2>1. UNCHANGED <<conn, radio, lost, crashed>> /\ (pc = "connect" => pc' = pc)
    BY <1>2 DEF Unheard, Take, CancelFollow, vars, history
  <2>2. QED
    BY <2>1 DEF Armed, NeverStalls, radio
<1>3. QED
  BY <1>1, <1>2, DmaArmed, TimerArmed, HandleArmed DEF Next, MainLoop

(* The timer is armed, or the packet being received will arm it, whatever  *)
(* the order of interrupts and handlers (le_DMA_IRQHandler,                *)
(* TIMER1_IRQHandler and le_connect_handler in le_phy.c): a follower never *)
(* waits for an interrupt that nothing has asked for.                      *)
THEOREM TimerAlwaysArmed == Spec => []NeverStalls
<1>1. Spec => []Armed
  BY InitArmed, StepArmed, PTL DEF Spec
<1>2. Armed => NeverStalls
  BY DEF Armed
<1>3. QED
  BY <1>1, <1>2, PTL

-----------------------------------------------------------------------------
(* The hops.                                                               *)

(* A connection the follower is on, and has neither lost sight of nor been *)
(* caught between two stores or behind its timer.                          *)
Live == conn.aa = air.id /\ conn.aa # ADV /\ ~astray /\ ~torn /\ ~lost

Receiving == rx = "packet" /\ chan # AdvChannel

\* The packets whose handler has not run to its end, or not far enough.
Unhandled ==
  ToSet(queue) \cup (IF rx = "packet" THEN {current} ELSE {})
    \cup (IF pc \in {"handle", "map"} THEN {work} ELSE {})

\* Packet b is the only one of the latest connection that is unhandled.
OnlyPacket(b) == \A c \in Unhandled : pkt[c].conn = air.id => c = b

ConnFields == {"aa", "idx", "map", "ivl", "anchorSet", "quiet", "counter", "update",
               "mapPending", "mapInstant", "newMap"}
AirFields == {"id", "counter", "idx", "map", "ivl", "passed", "proc"}

(* The fields of the records, and the ranges of what is counted.           *)
Shapes ==
  /\ ConnFields \subseteq DOMAIN conn /\ AirFields \subseteq DOMAIN air
  /\ {"kind", "at", "handled"} \subseteq DOMAIN air.proc
  /\ {"num", "opened"} \subseteq DOMAIN event
  /\ DOMAIN pkt = Bufs
  /\ conn.aa \in Nat /\ air.id \in Nat
  /\ conn.idx \in 0 .. NCH - 1 /\ air.idx \in 0 .. NCH - 1
  /\ conn.counter \in Counters /\ air.counter \in Counters

(* Connections are numbered as they are made; the packet that made one is  *)
(* followed by packets of it only once the follower has taken it.          *)
Numbered ==
  /\ conn.aa <= air.id
  /\ air.id = ADV => chan = AdvChannel
  /\ \A b \in Bufs :
       /\ pkt[b].conn \in Nat /\ pkt[b].conn <= air.id
       /\ pkt[b].kind = "connect" => pkt[b].conn # ADV
       /\ pkt[b].kind \notin {"connect", "upd", "map"} => pkt[b].conn = ADV
  /\ pc = "map" => pkt[work].kind = "map"

UntouchedAir == air = NewAir(air.id) /\ conn.aa # air.id
NewIsUntouched ==
  \A b \in Unhandled :
    pkt[b].kind = "connect" /\ pkt[b].conn = air.id => UntouchedAir /\ OnlyPacket(b)

(* An unhandled control packet is that of the procedure under way.         *)
ToBeTold(p) == air.proc.kind = p.kind /\ air.proc.at = p.at /\ ~air.proc.handled
ProcedureUnderWay ==
  Live => \A b \in Unhandled :
    pkt[b].kind \in {"upd", "map"} /\ pkt[b].conn = air.id =>
      ToBeTold(pkt[b]) /\ OnlyPacket(b)

(* The first half of taking a connection leaves a clean record.            *)
Fresh ==
  /\ air.counter = CTR - 1 /\ air.idx = 0 /\ air.map = 0 /\ air.ivl = 0
  /\ air.proc.kind = "none"
  /\ conn.idx = 0 /\ conn.ivl = 0 /\ conn.counter = 0
  /\ ~conn.update.pending /\ ~conn.mapPending
  /\ timer = "off" /\ chan = AdvChannel

(* Between two events the record is ready for the next one; inside an      *)
(* event it is that event's; and while the follower waits for the window   *)
(* of a connection update it is in the event, but not on its channel.      *)
Ready ==
  /\ ~event.opened /\ ~Receiving
  /\ conn.counter = (air.counter + 1) % CTR /\ conn.idx = air.idx
  /\ conn.map = air.map /\ conn.ivl = air.ivl
  /\ chan = AdvChannel \/ chan.idx = conn.idx

AwaitsWindow ==
  /\ event.opened /\ ~Receiving /\ timer = "open"
  /\ conn.counter = air.counter /\ air.idx = (conn.idx + HOP) % NCH
  /\ conn.map = air.map /\ chan.idx # air.idx
  /\ conn.update.pending /\ conn.update.at = conn.counter /\ conn.update.ivl = air.ivl
  /\ air.proc.kind = "none"

InEvent ==
  /\ event.opened /\ timer # "open"
  /\ conn.counter = air.counter /\ conn.idx = air.idx
  /\ conn.map = air.map /\ conn.ivl = air.ivl
  /\ chan = Channel(air.idx, air.map)
  /\ Receiving => timer = "off"

(* The instant of a procedure lies ahead, and the record knows of the      *)
(* procedure as soon as it has been told, and of no other.                 *)
UpdateTold ==
  /\ conn.update.pending => /\ air.proc.kind = "upd" /\ air.proc.handled
                            /\ conn.update.at = air.proc.at
                            /\ conn.update.ivl = 1 - air.ivl
  /\ air.proc.kind = "upd" /\ air.proc.handled => conn.update.pending
MapTold ==
  /\ air.proc.kind = "map" /\ air.proc.handled =>
       conn.mapPending /\ conn.mapInstant = air.proc.at /\ conn.newMap = 1 - air.map
  /\ conn.mapPending /\ pc # "map" => air.proc.kind = "map" /\ air.proc.handled
  /\ pc = "map" => conn.mapPending
InstantAhead == air.proc.kind # "none" => air.proc.at # air.counter

Followed ==
  /\ InstantAhead /\ MapTold
  /\ (Ready /\ UpdateTold) \/ AwaitsWindow \/ (InEvent /\ UpdateTold)

InStep == Live => IF pc = "connect" THEN Fresh ELSE Followed

HopInv == PoolInv /\ Shapes /\ Numbered /\ NewIsUntouched /\ ProcedureUnderWay /\ InStep

LEMMA HopOnce ==
  ASSUME NEW n \in Nat, NEW a \in 0 .. n - 1, NEW k \in 1 .. n - 1
  PROVE  (a + k) % n \in 0 .. n - 1 /\ (a + k) % n # a
<1> DEFINE d == (a + k) \div n  m == (a + k) % n
<1>1. a + k = n * d + m /\ m \in 0 .. n - 1 /\ d \in Int /\ n > 0
  OBVIOUS
<1> HIDE DEF d, m
<1>2. ASSUME m = a PROVE FALSE
  <2>1. n * d = k
    BY <1>1, <1>2
  <2>2. CASE d >= 1
    <3>1. n * d >= n
      BY <1>1, <2>2
    <3>2. QED
      BY <2>1, <3>1
  <2>3. CASE d <= 0
    <3>1. n * d <= 0
      BY <1>1, <2>3
    <3>2. QED
      BY <2>1, <3>1
  <2>4. QED
    BY <1>1, <2>2, <2>3
<1>3. QED
  BY <1>1, <1>2 DEF m

LEMMA PhyFacts ==
  /\ CTR \in Nat /\ NCH \in Nat /\ CTR > 1 /\ NCH > 1
  /\ HOP \in 1 .. NCH - 1 /\ LEAD \in 1 .. CTR - 1 /\ 1 \in 1 .. CTR - 1
  /\ ADV = 0
  BY PhyAssumption DEF ADV

LEMMA ChannelFacts ==
  ASSUME NEW i, NEW m
  PROVE  Channel(i, m).idx = i /\ AdvChannel.idx = NCH
         /\ (i \in 0 .. NCH - 1 => Channel(i, m) # AdvChannel)
<1>1. Channel(i, m).idx = i /\ AdvChannel.idx = NCH
  BY DEF Channel, AdvChannel
<1>2. i \in 0 .. NCH - 1 => i # NCH
  BY PhyFacts
<1>3. QED
  BY <1>1, <1>2

LEMMA ResetFacts ==
  /\ ConnFields \subseteq DOMAIN ResetConn
  /\ ResetConn.aa = ADV /\ ResetConn.idx = 0 /\ ResetConn.ivl = 0 /\ ResetConn.counter = 0
  /\ ~ResetConn.update.pending /\ ~ResetConn.mapPending
  BY DEF ResetConn, ConnFields, NoUpdate

LEMMA NewAirFacts ==
  ASSUME NEW n
  PROVE  /\ AirFields \subseteq DOMAIN NewAir(n)
         /\ {"kind", "at", "handled"} \subseteq DOMAIN NewAir(n).proc
         /\ NewAir(n).id = n /\ NewAir(n).counter = CTR - 1 /\ NewAir(n).idx = 0
         /\ NewAir(n).map = 0 /\ NewAir(n).ivl = 0 /\ NewAir(n).passed = 2
         /\ NewAir(n).proc.kind = "none"
  BY DEF NewAir, AirFields, NoProcedure

\* What change_channel does to the record.
LEMMA ChangeFacts ==
  ASSUME NEW c, NEW b, ConnFields \subseteq DOMAIN c, c.idx \in 0 .. NCH - 1, ChangeChannel(c, b)
  PROVE  /\ ConnFields \subseteq DOMAIN conn' /\ rx' = "idle"
         /\ conn'.idx \in 0 .. NCH - 1
         /\ \A f \in ConnFields \ {"idx"} : conn'[f] = c[f]
         /\ c.aa = ADV => conn' = c /\ chan' = AdvChannel
         /\ c.aa # ADV => /\ conn'.idx = (c.idx + HOP) % NCH
                          /\ chan' = Channel((c.idx + HOP) % NCH, c.map)
<1>1. (c.idx + HOP) % NCH \in 0 .. NCH - 1
  BY HopOnce, PhyFacts
<1> DEFINE i == (c.idx + HOP) % NCH
<1> HIDE DEF i
<1>2. CASE c.aa = ADV
  <2>1. conn' = c /\ chan' = AdvChannel /\ rx' = "idle"
    BY <1>2 DEF ChangeChannel
  <2>2. QED
    BY <1>2, <2>1
<1>3. CASE c.aa # ADV
  <2>1. conn' = [c EXCEPT !.idx = i] /\ chan' = Channel(i, c.map) /\ rx' = "idle"
    BY <1>3 DEF ChangeChannel, i
  <2>2. "idx" \in DOMAIN c
    BY DEF ConnFields
  <2>3. conn'.idx = i /\ DOMAIN conn' = DOMAIN c /\ \A f \in DOMAIN c \ {"idx"} : conn'[f] = c[f]
    BY <2>1, <2>2
  <2>4. QED
    BY <1>1, <1>3, <2>1, <2>3 DEF i
<1>4. QED
  BY <1>2, <1>3

\* What finish_conn_event does to it.
LEMMA FinishFacts ==
  ASSUME NEW c, NEW n, NEW b, NEW r, ConnFields \subseteq DOMAIN c, c.counter \in Counters,
         c.idx \in 0 .. NCH - 1,
         FinishConnEvent(c, n, b, r)
  PROVE  /\ ConnFields \subseteq DOMAIN conn' /\ event' = NewEvent
         /\ conn'.counter \in Counters /\ conn'.idx \in 0 .. NCH - 1
         /\ lost => lost'
         /\ \/ conn' = ResetConn /\ chan' = AdvChannel /\ rx' = "idle"
            \/ /\ \A f \in ConnFields \ {"anchorSet", "quiet", "counter"} : conn'[f] = c[f]
               /\ conn'.counter = (c.counter + 1) % CTR
               /\ rx' = r /\ chan' = chan
               /\ timer' = "open" \/ lost'
<1> DEFINE after == Observed(c, n)
           over == after.quiet > SUP
<1>1. /\ DOMAIN after = DOMAIN c /\ after.counter = (c.counter + 1) % CTR
      /\ \A f \in ConnFields \ {"anchorSet", "quiet", "counter"} : after[f] = c[f]
  BY DEF Observed, ConnFields
<1>2. (c.counter + 1) % CTR \in Counters
  BY HopOnce, PhyFacts DEF Counters
<1>3. event' = NewEvent
  BY DEF FinishConnEvent
<1>4. 0 \in Counters /\ 0 \in 0 .. NCH - 1
  BY PhyFacts DEF Counters
<1> HIDE DEF after
<1>5. CASE over \/ cancel
  <2>1. ChangeChannel(ResetConn, b) /\ lost' = lost
    BY <1>5 DEF FinishConnEvent, after
  <2>2. conn' = ResetConn /\ chan' = AdvChannel /\ rx' = "idle"
    BY <2>1, ResetFacts DEF ChangeChannel
  <2>3. QED
    BY <1>3, <1>4, <2>1, <2>2, ResetFacts
<1>6. CASE ~(over \/ cancel)
  <2>1. conn' = after /\ rx' = r /\ chan' = chan
    BY <1>6 DEF FinishConnEvent, after
  <2>2. (timer' = "open" \/ lost') /\ (lost => lost')
    BY <1>6 DEF FinishConnEvent, after
  <2>3. after.idx = c.idx
    BY <1>1 DEF ConnFields
  <2>4. QED
    BY <1>1, <1>2, <1>3, <2>1, <2>2, <2>3
<1>7. QED
  BY <1>5, <1>6

LEMMA AdvanceFacts ==
  ASSUME NEW a, AirFields \subseteq DOMAIN a, a.counter \in Counters, a.idx \in 0 .. NCH - 1,
         {"kind", "at", "handled"} \subseteq DOMAIN a.proc
  PROVE  LET n == (a.counter + 1) % CTR
             due == a.proc.kind # "none" /\ a.proc.at = n
             z == Advance(a)
         IN /\ AirFields \subseteq DOMAIN z /\ {"kind", "at", "handled"} \subseteq DOMAIN z.proc
            /\ z.id = a.id /\ z.counter = n /\ z.counter \in Counters
            /\ z.idx = (a.idx + HOP) % NCH /\ z.idx \in 0 .. NCH - 1
            /\ z.map = IF due /\ a.proc.kind = "map" THEN 1 - a.map ELSE a.map
            /\ z.ivl = IF due /\ a.proc.kind = "upd" THEN 1 - a.ivl ELSE a.ivl
            /\ z.proc = IF due THEN NoProcedure ELSE a.proc
<1>1. (a.counter + 1) % CTR \in Counters /\ (a.idx + HOP) % NCH \in 0 .. NCH - 1
  BY HopOnce, PhyFacts DEF Counters
<1>2. {"kind", "at", "handled"} \subseteq DOMAIN NoProcedure
  BY DEF NoProcedure
<1>3. QED
  BY <1>1, <1>2 DEF Advance, AirFields

-----------------------------------------------------------------------------
(* Where packets are.                                                      *)

LEMMA EnqueueUnhandled ==
  ASSUME PoolInv, rx = "packet", Enqueue, rx' # "packet", pc' = pc
  PROVE  Unhandled' \subseteq Unhandled /\ pkt' = pkt /\ work' = work
<1>1. ToSet(queue') = ToSet(queue) \cup {current} /\ pkt' = pkt /\ work' = work
  BY AppendOne DEF PoolInv, BuffersTyped, BuffersConserved, Held, Enqueue
<1>2. QED
  BY <1>1 DEF Unhandled

LEMMA TakeUnhandled ==
  ASSUME PoolInv, Take
  PROVE  Unhandled' \subseteq Unhandled /\ pkt' = pkt
<1>1. /\ work' = Head(queue) /\ queue' = Tail(queue) /\ pc = "idle" /\ pc' = "handle"
      /\ current' = current /\ rx' = rx /\ pkt' = pkt
  BY DEF Take, radio
<1>2. ToSet(queue') = ToSet(queue) \ {work'} /\ work' \in ToSet(queue)
  BY <1>1, TailOne DEF PoolInv, BuffersTyped, BuffersConserved, Take
<1>3. QED
  BY <1>1, <1>2 DEF Unhandled

\* The packet of the main loop is nowhere else.
LEMMA WorkAlone ==
  ASSUME PoolInv, work # NULL
  PROVE  /\ work \in Bufs /\ work \notin ToSet(queue)
         /\ rx = "packet" => work # current
  BY DEF PoolInv, BuffersTyped, BuffersConserved, Held

LEMMA ReleaseUnhandled ==
  ASSUME PoolInv, pc # "idle", Release, rx' = rx, DOMAIN pkt = Bufs
  PROVE  /\ Unhandled' \subseteq Unhandled \ {work} /\ work \in Bufs
         /\ DOMAIN pkt' = Bufs
         /\ pkt'[work] = NoPacket /\ \A b \in Bufs \ {work} : pkt'[b] = pkt[b]
<1>1. work # NULL
  BY DEF PoolInv, Held
<1>2. /\ queue' = queue /\ current' = current /\ pc' = "idle"
      /\ pkt' = [pkt EXCEPT ![work] = NoPacket]
  BY DEF Release
<1>3. Unhandled' = ToSet(queue) \cup (IF rx = "packet" THEN {current} ELSE {})
  BY <1>2 DEF Unhandled
<1>4. QED
  BY <1>1, <1>2, <1>3, WorkAlone DEF Unhandled

LEMMA UnhandledBufs == PoolInv => Unhandled \subseteq Bufs
<1> SUFFICES ASSUME PoolInv PROVE Unhandled \subseteq Bufs
  OBVIOUS
<1>1. ToSet(queue) \subseteq Bufs
  BY DEF PoolInv, BuffersConserved
<1>2. rx = "packet" => current \in Bufs
  BY DEF PoolInv, BuffersTyped, Held
<1>3. pc \in {"handle", "map"} => work \in Bufs
  BY DEF PoolInv, BuffersTyped, Held
<1>4. QED
  BY <1>1, <1>2, <1>3 DEF Unhandled

(* What is known of the packets outlives every step that only loses sight  *)
(* of some, and neither starts nor forgets a procedure.                    *)
LEMMA PacketsKept ==
  ASSUME NewIsUntouched, ProcedureUnderWay,
         Unhandled' \subseteq Unhandled, \A b \in Unhandled' : pkt'[b] = pkt[b],
         air'.id = air.id,
         \A b \in Unhandled' : pkt[b].kind = "connect" /\ pkt[b].conn = air.id
                                 /\ UntouchedAir => UntouchedAir',
         Live' => Live,
         Live' /\ air.proc.kind # "none" /\ ~air.proc.handled => air'.proc = air.proc
  PROVE  NewIsUntouched' /\ ProcedureUnderWay'
<1>1. ASSUME NEW b \in Unhandled, OnlyPacket(b) PROVE OnlyPacket(b)'
  BY <1>1 DEF OnlyPacket
<1>2. NewIsUntouched'
  BY <1>1 DEF NewIsUntouched
<1>3. ASSUME NEW b \in Unhandled', Live', pkt'[b].kind \in {"upd", "map"},
             pkt'[b].conn = air'.id
      PROVE  ToBeTold(pkt[b])' /\ OnlyPacket(b)'
  <2>1. b \in Unhandled /\ pkt'[b] = pkt[b] /\ Live
    BY <1>3
  <2>2. ToBeTold(pkt[b]) /\ OnlyPacket(b)
    BY <1>3, <2>1 DEF ProcedureUnderWay
  <2>3. air'.proc = air.proc
    BY <1>3, <2>1, <2>2 DEF ToBeTold
  <2>4. ToBeTold(pkt[b])'
    BY <2>1, <2>2, <2>3 DEF ToBeTold
  <2>5. QED
    BY <1>1, <2>1, <2>2, <2>4
<1>4. ProcedureUnderWay'
  BY <1>3 DEF ProcedureUnderWay
<1>5. QED
  BY <1>2, <1>4

Packets == Shapes /\ Numbered /\ NewIsUntouched /\ ProcedureUnderWay

(* Steps that leave the record, the air and the packets as they are.       *)
LEMMA StillPackets ==
  ASSUME Packets, Unhandled' \subseteq Unhandled,
         UNCHANGED <<pkt, conn, air, astray, torn, lost, event, chan>>,
         pc' = "map" => pc = "map" /\ work' = work
  PROVE  Packets'
<1>1. Live' = Live /\ UntouchedAir' = UntouchedAir
  BY DEF Live, UntouchedAir
<1>2. NewIsUntouched' /\ ProcedureUnderWay'
  BY <1>1, PacketsKept DEF Packets
<1>3. Shapes' /\ Numbered'
  BY DEF Packets, Shapes, Numbered
<1>4. QED
  BY <1>2, <1>3 DEF Packets

-----------------------------------------------------------------------------
(* The timer and the packets.                                              *)

LEMMA NextOnAirFacts ==
  ASSUME Shapes, NextOnAir
  PROVE  /\ AirFields \subseteq DOMAIN air' /\ {"kind", "at", "handled"} \subseteq DOMAIN air'.proc
         /\ air'.id = air.id /\ air'.idx \in 0 .. NCH - 1 /\ air'.counter \in Counters
         /\ conn.aa # air.id => air' = air
         /\ astray => astray'
         /\ ~astray' /\ air.proc.kind # "none" /\ ~air.proc.handled => air'.proc = air.proc
<1>1. CASE conn.aa = air.id /\ conn.aa # ADV /\ ~astray
  <2>1. air' = Advance(air) /\ astray' = (astray \/ Untold)
    BY <1>1 DEF NextOnAir
  <2>2. Advance(air).proc = IF air.proc.kind # "none" /\ air.proc.at = (air.counter + 1) % CTR
                              THEN NoProcedure ELSE air.proc
    BY AdvanceFacts DEF Shapes
  <2>3. QED
    BY <1>1, <2>1, <2>2, AdvanceFacts DEF Shapes, Untold
<1>2. CASE ~(conn.aa = air.id /\ conn.aa # ADV /\ ~astray)
  <2>1. air' = air /\ astray' = astray
    BY <1>2 DEF NextOnAir
  <2>2. QED
    BY <2>1 DEF Shapes
<1>3. QED
  BY <1>1, <1>2

\* The address of the record is kept or given up, the rest of it is whole.
ConnKept ==
  /\ ConnFields \subseteq DOMAIN conn'
  /\ conn'.aa \in {conn.aa, ADV}
  /\ conn'.idx \in 0 .. NCH - 1 /\ conn'.counter \in Counters
  /\ conn.aa = ADV /\ chan = AdvChannel => chan' = AdvChannel

LEMMA WithMapFacts ==
  ASSUME Shapes
  PROVE  /\ ConnFields \subseteq DOMAIN WithMap
         /\ \A f \in ConnFields \ {"map", "mapPending"} : WithMap[f] = conn[f]
         /\ WithMap.aa = conn.aa /\ WithMap.idx = conn.idx /\ WithMap.counter = conn.counter
         /\ ~MapDue => WithMap = conn
         /\ MapDue => WithMap.map = conn.newMap /\ ~WithMap.mapPending
<1>1. ConnFields \subseteq DOMAIN conn
  BY DEF Shapes
<1>2. QED
  BY <1>1 DEF WithMap, ConnFields

LEMMA ChangeKept ==
  ASSUME NEW c, NEW b, ConnFields \subseteq DOMAIN c, c.aa = conn.aa,
         c.idx \in 0 .. NCH - 1, c.counter \in Counters, ChangeChannel(c, b)
  PROVE  ConnKept
<1>1. /\ ConnFields \subseteq DOMAIN conn' /\ conn'.idx \in 0 .. NCH - 1
      /\ \A f \in ConnFields \ {"idx"} : conn'[f] = c[f]
      /\ c.aa = ADV => chan' = AdvChannel
  BY ChangeFacts
<1>2. conn'.aa = c.aa /\ conn'.counter = c.counter
  BY <1>1 DEF ConnFields
<1>3. QED
  BY <1>1, <1>2 DEF ConnKept

LEMMA FinishKept ==
  ASSUME NEW c, NEW n, NEW b, NEW r, ConnFields \subseteq DOMAIN c, c.aa = conn.aa,
         c.idx \in 0 .. NCH - 1, c.counter \in Counters, FinishConnEvent(c, n, b, r)
  PROVE  ConnKept /\ (lost => lost') /\ event' = NewEvent
<1>1. /\ ConnFields \subseteq DOMAIN conn' /\ event' = NewEvent
      /\ conn'.counter \in Counters /\ conn'.idx \in 0 .. NCH - 1
      /\ lost => lost'
      /\ \/ conn' = ResetConn /\ chan' = AdvChannel
         \/ /\ \A f \in ConnFields \ {"anchorSet", "quiet", "counter"} : conn'[f] = c[f]
            /\ chan' = chan
  BY FinishFacts
<1>2. "aa" \in ConnFields \ {"anchorSet", "quiet", "counter"}
  BY DEF ConnFields
<1>3. conn'.aa \in {c.aa, ADV} /\ (chan' = AdvChannel \/ chan' = chan)
  BY <1>1, <1>2, ResetFacts
<1>4. QED
  BY <1>1, <1>3 DEF ConnKept

LEMMA EventFacts == {"num", "opened"} \subseteq DOMAIN NewEvent /\ ~NewEvent.opened
  BY DEF NewEvent

LEMMA TimerFacts ==
  ASSUME Shapes, TimerMatch
  PROVE  /\ UNCHANGED <<avail, current, queue, work, pkt, pc>>
         /\ rx' = "packet" => rx = "packet"
         /\ ConnKept
         /\ {"num", "opened"} \subseteq DOMAIN event'
         /\ (torn => torn') /\ (lost => lost')
         /\ NextOnAir \/ UNCHANGED <<air, astray>>
<1>1. CASE UpdateOffset
  <2>1. UNCHANGED conn /\ UNCHANGED chan
    BY <1>1 DEF UpdateOffset
  <2>2. ConnKept
    BY <2>1 DEF ConnKept, Shapes
  <2>3. QED
    BY <1>1, <2>2 DEF UpdateOffset, buffers, Shapes
<1>2. CASE UpdateWindow
  <2> DEFINE c == [conn EXCEPT !.anchorSet = FALSE, !.ivl = conn.update.ivl, !.update = NoUpdate]
  <2>1. ChangeChannel(c, current)
    BY <1>2 DEF UpdateWindow
  <2>2. /\ ConnFields \subseteq DOMAIN c /\ c.aa = conn.aa /\ c.idx = conn.idx
        /\ c.counter = conn.counter
    BY DEF Shapes, ConnFields
  <2> HIDE DEF c
  <2>3. ConnKept /\ rx' = "idle"
    BY <2>1, <2>2, ChangeKept, ChangeFacts DEF Shapes
  <2>4. QED
    BY <1>2, <2>3 DEF UpdateWindow, buffers, Shapes
<1>3. CASE OpenEvent
  <2>1. ChangeChannel(WithMap, current)
    BY <1>3 DEF OpenEvent
  <2>2. ConnKept /\ rx' = "idle"
    BY <2>1, ChangeKept, ChangeFacts, WithMapFacts DEF Shapes
  <2>3. QED
    BY <1>3, <2>2 DEF OpenEvent, buffers, Shapes
<1>4. CASE CloseEvent
  <2>1. FinishConnEvent(WithMap, event.num, current, rx)
    BY <1>4 DEF CloseEvent
  <2>2. ConnKept /\ (lost => lost') /\ event' = NewEvent
    BY <2>1, FinishKept, WithMapFacts DEF Shapes
  <2>3. rx' = "packet" => rx = "packet"
    BY <2>1 DEF FinishConnEvent, ChangeChannel
  <2>4. QED
    BY <1>4, <2>2, <2>3, EventFacts DEF CloseEvent, buffers
<1>5. QED
  BY <1>1, <1>2, <1>3, <1>4 DEF TimerMatch

\* Once the follower has gone wrong only a new connection sets it right.
LEMMA LiveBefore ==
  ASSUME conn'.aa \in {conn.aa, ADV}, air'.id = air.id, astray => astray', torn => torn',
         lost => lost', Live'
  PROVE  Live
  BY DEF Live

\* The record changes hands with the radio or the timer.
LEMMA ConnSteps ==
  ASSUME PoolInv, Packets, Unhandled' \subseteq Unhandled, pkt' = pkt, ConnKept,
         {"num", "opened"} \subseteq DOMAIN event',
         torn => torn', lost => lost', NextOnAir \/ UNCHANGED <<air, astray>>,
         pc' = pc, work' = work
  PROVE  Packets'
<1>1. /\ AirFields \subseteq DOMAIN air' /\ {"kind", "at", "handled"} \subseteq DOMAIN air'.proc
      /\ air'.id = air.id /\ air'.idx \in 0 .. NCH - 1 /\ air'.counter \in Counters
      /\ conn.aa # air.id => air' = air
      /\ astray => astray'
      /\ ~astray' /\ air.proc.kind # "none" /\ ~air.proc.handled => air'.proc = air.proc
  BY NextOnAirFacts DEF Packets, Shapes
<1>2. Live' => Live
  BY <1>1, LiveBefore DEF ConnKept
<1>3. ASSUME NEW b \in Unhandled', pkt[b].kind = "connect", pkt[b].conn = air.id, UntouchedAir
      PROVE  UntouchedAir'
  <2>1. b \in Bufs
    BY UnhandledBufs
  <2>2. air.id # ADV
    BY <1>3, <2>1 DEF Packets, Numbered
  <2>3. air' = air /\ conn'.aa # air.id
    BY <1>1, <1>3, <2>2 DEF UntouchedAir, ConnKept
  <2>4. QED
    BY <1>3, <2>3 DEF UntouchedAir
<1>4. Live' => ~astray'
  BY DEF Live
<1>5. NewIsUntouched' /\ ProcedureUnderWay'
  BY <1>1, <1>2, <1>3, <1>4, PacketsKept DEF Packets
<1>6. conn'.aa \in Nat /\ conn'.aa <= air.id
  BY PhyFacts DEF ConnKept, Packets, Shapes, Numbered
<1>7. Shapes'
  BY <1>1, <1>6 DEF Packets, Shapes, ConnKept
<1>8. air.id = ADV => chan' = AdvChannel
  BY PhyFacts DEF Packets, Shapes, Numbered, ConnKept
<1>9. Numbered'
  BY <1>1, <1>6, <1>8 DEF Packets, Numbered, AdvChannel, Channel
<1>10. QED
  BY <1>5, <1>7, <1>9 DEF Packets

LEMMA TimerPackets == ASSUME PoolInv, Packets, TimerMatch PROVE Packets'
<1>1. /\ UNCHANGED <<avail, current, queue, work, pkt, pc>>
      /\ rx' = "packet" => rx = "packet"
      /\ ConnKept
      /\ {"num", "opened"} \subseteq DOMAIN event'
      /\ (torn => torn') /\ (lost => lost')
      /\ NextOnAir \/ UNCHANGED <<air, astray>>
  BY TimerFacts DEF Packets
<1>2. Unhandled' \subseteq Unhandled
  BY <1>1 DEF Unhandled
<1>3. QED
  BY <1>1, <1>2, ConnSteps

LEMMA EndPackets == ASSUME PoolInv, Packets, EndPacket PROVE Packets'
<1>1. /\ Enqueue /\ rx = "packet" /\ rx' # "packet" /\ pc' = pc
      /\ UNCHANGED <<air, astray, torn>>
  BY DEF EndPacket, EndAdvertising, EndFirst, EndSecond, FinishConnEvent, ChangeChannel, history
<1>2. Unhandled' \subseteq Unhandled /\ pkt' = pkt /\ work' = work
  BY <1>1, EnqueueUnhandled
<1>3. CASE EndAdvertising
  <2>1. UNCHANGED <<conn, event, chan, lost>>
    BY <1>3 DEF EndAdvertising, history
  <2>2. QED
    BY <1>1, <1>2, <2>1, StillPackets
<1>4. CASE EndFirst
  <2>1. UNCHANGED <<conn, chan, lost>> /\ event' = [event EXCEPT !.num = 1]
    BY <1>4 DEF EndFirst, history
  <2>2. ConnKept /\ {"num", "opened"} \subseteq DOMAIN event'
    BY <2>1 DEF ConnKept, Packets, Shapes
  <2>3. QED
    BY <1>1, <1>2, <2>1, <2>2, ConnSteps
<1>5. CASE EndSecond
  <2>1. FinishConnEvent(conn, 2, Get, "off")
    BY <1>5 DEF EndSecond
  <2>2. ConnKept /\ (lost => lost') /\ event' = NewEvent
    BY <2>1, FinishKept DEF Packets, Shapes
  <2>3. QED
    BY <1>1, <1>2, <2>2, EventFacts, ConnSteps
<1>6. QED
  BY <1>3, <1>4, <1>5 DEF EndPacket

-----------------------------------------------------------------------------
(* Hearing packets.                                                        *)

\* What kinds of packets bear the number of the latest connection.
LEMMA LatestKinds ==
  ASSUME Packets, NEW b \in Bufs, pkt[b].conn = air.id, air.id # ADV
  PROVE  pkt[b].kind \in {"connect", "upd", "map"}
  BY DEF Packets, Numbered

LEMMA FirstByteUnhandled ==
  ASSUME PoolInv, FirstByte
  PROVE  /\ current \in Bufs /\ current \notin Unhandled
         /\ Unhandled' = Unhandled \cup {current}
         /\ UNCHANGED <<current, conn, event, chan, pc, work, astray, torn, lost>>
<1>1. /\ rx = "idle" /\ rx' = "packet" /\ current # NULL
      /\ UNCHANGED <<current, queue, work, conn, event, chan, pc, astray, torn, lost>>
  BY DEF FirstByte, history
<1>2. current \in Bufs /\ current \notin ToSet(queue) /\ current # work
  BY <1>1 DEF PoolInv, BuffersTyped, BuffersConserved
<1>3. QED
  BY <1>1, <1>2 DEF Unhandled

(* A packet of no connection joins the others.                             *)
LEMMA OtherPacket ==
  ASSUME PoolInv, Packets, FirstByte,
         pkt' = [pkt EXCEPT ![current] = [NoPacket EXCEPT !.kind = "other"]],
         air' = air \/ (conn.aa = air.id /\ \E n : air' = [air EXCEPT !.passed = n])
  PROVE  Packets'
<1> DEFINE other == [NoPacket EXCEPT !.kind = "other"]
<1>1. /\ current \in Bufs /\ current \notin Unhandled
      /\ Unhandled' = Unhandled \cup {current}
      /\ UNCHANGED <<current, conn, event, chan, pc, work, astray, torn, lost>>
  BY FirstByteUnhandled
<1>2. /\ pkt'[current] = other /\ DOMAIN pkt' = Bufs
      /\ \A b \in Bufs \ {current} : pkt'[b] = pkt[b]
  BY <1>1 DEF Packets, Shapes
<1>3. other.kind = "other" /\ other.conn = ADV
  BY DEF NoPacket
<1>4. /\ \A f \in AirFields \ {"passed"} : air'[f] = air[f]
      /\ AirFields \subseteq DOMAIN air'
  BY DEF Packets, Shapes, AirFields
<1>5. air'.id = air.id /\ air'.proc = air.proc /\ air'.idx = air.idx /\ air'.counter = air.counter
  BY <1>4 DEF AirFields
<1> HIDE DEF other
<1>6. Unhandled \subseteq Bufs \ {current} /\ Live' = Live
  BY <1>1, <1>5, UnhandledBufs DEF Live
<1>7. ASSUME NEW b \in Unhandled, OnlyPacket(b), air.id # ADV PROVE OnlyPacket(b)'
  BY <1>1, <1>2, <1>3, <1>5, <1>6, <1>7 DEF OnlyPacket
<1>8. ASSUME NEW b \in Unhandled', pkt'[b].kind = "connect", pkt'[b].conn = air'.id
      PROVE  UntouchedAir' /\ OnlyPacket(b)'
  <2>1. b \in Unhandled /\ pkt'[b] = pkt[b]
    BY <1>1, <1>2, <1>3, <1>6, <1>8
  <2>2. UntouchedAir /\ OnlyPacket(b) /\ air.id # ADV
    BY <1>5, <1>6, <1>8, <2>1 DEF Packets, NewIsUntouched, Numbered
  <2>3. air' = air
    BY <2>2 DEF UntouchedAir
  <2>4. QED
    BY <1>1, <1>7, <2>1, <2>2, <2>3 DEF UntouchedAir
<1>9. ASSUME NEW b \in Unhandled', Live', pkt'[b].kind \in {"upd", "map"}, pkt'[b].conn = air'.id
      PROVE  ToBeTold(pkt[b])' /\ OnlyPacket(b)'
  <2>1. b \in Unhandled /\ pkt'[b] = pkt[b] /\ Live
    BY <1>1, <1>2, <1>3, <1>6, <1>9
  <2>2. ToBeTold(pkt[b]) /\ OnlyPacket(b) /\ air.id # ADV
    BY <1>5, <1>9, <2>1 DEF Packets, ProcedureUnderWay, Live
  <2>3. ToBeTold(pkt[b])'
    BY <1>5, <2>1, <2>2 DEF ToBeTold
  <2>4. QED
    BY <1>7, <2>1, <2>2, <2>3
<1>10. Shapes'
  BY <1>1, <1>2, <1>4, <1>5 DEF Packets, Shapes
<1>11. pc # "map" \/ work # current
  BY DEF PoolInv, BuffersConserved, BuffersTyped, Held, FirstByte, NULL, Bufs
<1>12. pc = "map" => work \in Bufs
  BY DEF PoolInv, BuffersTyped, Held
<1>13. ASSUME NEW b \in Bufs
       PROVE  /\ pkt'[b].conn \in Nat /\ pkt'[b].conn <= air'.id
              /\ pkt'[b].kind = "connect" => pkt'[b].conn # ADV
              /\ pkt'[b].kind \notin {"connect", "upd", "map"} => pkt'[b].conn = ADV
  <2>1. CASE b = current
    <3>1. pkt'[b] = other /\ air.id \in Nat /\ air'.id = air.id
      BY <1>2, <1>5, <2>1 DEF Packets, Shapes
    <3>2. pkt'[b].kind = "other" /\ pkt'[b].conn = 0 /\ ADV = 0
      BY <1>3, <3>1 DEF ADV
    <3>3. QED
      BY <3>1, <3>2
  <2>2. CASE b # current
    BY <1>2, <1>5, <2>2 DEF Packets, Numbered
  <2>3. QED
    BY <2>1, <2>2
<1>14. Numbered'
  BY <1>1, <1>2, <1>5, <1>11, <1>12, <1>13 DEF Packets, Numbered, AdvChannel, Channel
<1>15. QED
  BY <1>8, <1>9, <1>10, <1>14 DEF Packets, NewIsUntouched, ProcedureUnderWay

(* A packet of the latest connection, when there is no other.              *)
LEMMA LatestPacket ==
  ASSUME PoolInv, Packets, FirstByte, NEW p,
         pkt' = [pkt EXCEPT ![current] = p],
         p.kind \in {"connect", "upd", "map"}, p.conn = air'.id, p.conn \in Nat, p.conn # ADV,
         \A b \in Unhandled : pkt[b].conn = air'.id =>
           p.kind # "connect" /\ pkt[b].kind # "connect" /\ ~Live',
         p.kind = "connect" => UntouchedAir',
         p.kind # "connect" /\ Live' => ToBeTold(p)',
         air.id <= air'.id, air.id = ADV \/ air'.id = air.id \/ chan = AdvChannel,
         AirFields \subseteq DOMAIN air', {"kind", "at", "handled"} \subseteq DOMAIN air'.proc,
         air'.idx \in 0 .. NCH - 1, air'.counter \in Counters
  PROVE  Packets'
<1>1. /\ current \in Bufs /\ current \notin Unhandled
      /\ Unhandled' = Unhandled \cup {current}
      /\ UNCHANGED <<current, conn, event, chan, pc, work, astray, torn, lost>>
  BY FirstByteUnhandled
<1>2. /\ pkt'[current] = p /\ DOMAIN pkt' = Bufs
      /\ \A b \in Bufs \ {current} : pkt'[b] = pkt[b]
  BY <1>1 DEF Packets, Shapes
<1>3. Unhandled \subseteq Bufs \ {current}
  BY <1>1, UnhandledBufs
<1>4. ASSUME NEW b \in Unhandled', pkt'[b].conn = air'.id, Live' \/ p.kind = "connect"
      PROVE  b = current
  BY <1>1, <1>2, <1>3, <1>4
<1>5. Live' \/ p.kind = "connect" => OnlyPacket(current)'
  BY <1>1, <1>4 DEF OnlyPacket
<1>6. ASSUME NEW b \in Unhandled', pkt'[b].kind = "connect", pkt'[b].conn = air'.id
      PROVE  UntouchedAir' /\ OnlyPacket(b)'
  <2>1. b = current /\ p.kind = "connect"
    BY <1>1, <1>2, <1>3, <1>6
  <2>2. QED
    BY <1>1, <1>5, <2>1
<1>7. ASSUME NEW b \in Unhandled', Live', pkt'[b].kind \in {"upd", "map"}, pkt'[b].conn = air'.id
      PROVE  ToBeTold(pkt[b])' /\ OnlyPacket(b)'
  <2>1. b = current /\ pkt'[b] = p
    BY <1>2, <1>4, <1>7
  <2>2. ToBeTold(pkt[b])'
    BY <1>7, <2>1 DEF ToBeTold
  <2>3. QED
    BY <1>1, <1>5, <1>7, <2>1
<1>8. ProcedureUnderWay'
  BY <1>7 DEF ProcedureUnderWay
<1>9. Shapes'
  BY <1>1, <1>2 DEF Packets, Shapes
<1>10. pc = "map" => work \in Bufs /\ work # current
  BY DEF PoolInv, BuffersConserved, BuffersTyped, Held, FirstByte, NULL, Bufs
<1>11. ASSUME NEW b \in Bufs
       PROVE  /\ pkt'[b].conn \in Nat /\ pkt'[b].conn <= air'.id
              /\ pkt'[b].kind = "connect" => pkt'[b].conn # ADV
              /\ pkt'[b].kind \notin {"connect", "upd", "map"} => pkt'[b].conn = ADV
  BY <1>2, PhyFacts DEF Packets, Shapes, Numbered
<1>12. conn.aa <= air'.id /\ (air'.id = ADV => chan = AdvChannel)
  BY PhyFacts DEF Packets, Shapes, Numbered
<1>13. Numbered'
  BY <1>1, <1>2, <1>10, <1>11, <1>12 DEF Numbered, Packets, AdvChannel, Channel
<1>14. QED
  BY <1>6, <1>8, <1>9, <1>13 DEF Packets, NewIsUntouched

LEMMA FirstBytePackets == ASSUME PoolInv, Packets, FirstByte PROVE Packets'
<1>1. CASE HearAdvertising
  <2>1. CASE pkt' = [pkt EXCEPT ![current] = [NoPacket EXCEPT !.kind = "other"]] /\ air' = air
    BY <2>1, OtherPacket
  <2> DEFINE n == air.id + 1
             p == [kind |-> "connect", conn |-> n, at |-> 0]
  <2>2. CASE air' = NewAir(n) /\ pkt' = [pkt EXCEPT ![current] = p]
    <3>1. /\ n \in Nat /\ n # ADV /\ air.id < n /\ conn.aa # n
          /\ \A b \in Bufs : pkt[b].conn # n
      BY PhyFacts DEF Packets, Shapes, Numbered
    <3>2. CTR - 1 \in Counters /\ 0 \in 0 .. NCH - 1
      BY PhyFacts DEF Counters
    <3> HIDE DEF n
    <3>3. p.kind = "connect" /\ p.conn = n
      OBVIOUS
    <3> HIDE DEF p
    <3>4. /\ air'.id = n /\ AirFields \subseteq DOMAIN air' /\ air'.idx = 0
          /\ {"kind", "at", "handled"} \subseteq DOMAIN air'.proc /\ air'.counter = CTR - 1
      BY <2>2, NewAirFacts
    <3>5. conn' = conn /\ Unhandled \subseteq Bufs
      BY FirstByteUnhandled, UnhandledBufs
    <3>6. UntouchedAir'
      BY <2>2, <3>1, <3>4, <3>5 DEF UntouchedAir
    <3>7. air.id <= air'.id /\ chan = AdvChannel
      BY <1>1, <3>1, <3>4 DEF HearAdvertising, Packets, Shapes, n
    <3>8. QED
      BY <2>2, <3>1, <3>2, <3>3, <3>4, <3>5, <3>6, <3>7, LatestPacket
  <2>3. QED
    BY <1>1, <2>1, <2>2 DEF HearAdvertising
<1>2. CASE HearData
  <2>1. conn.aa = air.id /\ conn.aa # ADV
    BY <1>2 DEF HearData, Tuned
  <2>2. CASE /\ pkt' = [pkt EXCEPT ![current] = [NoPacket EXCEPT !.kind = "other"]]
             /\ air' = [air EXCEPT !.passed = @ + 1]
    BY <2>1, <2>2, OtherPacket
  <2> DEFINE at == (air.counter + LEAD) % CTR
  <2>3. ASSUME NEW k \in {"upd", "map"}, air.proc.kind = "none",
               air' = [air EXCEPT !.passed = 1,
                            !.proc = [kind |-> k, at |-> at, handled |-> FALSE]],
               pkt' = [pkt EXCEPT ![current] = [kind |-> k, conn |-> air.id, at |-> at]]
        PROVE  Packets'
    <3>0. PICK p, pr : /\ p = [kind |-> k, conn |-> air.id, at |-> at]
                       /\ pr = [kind |-> k, at |-> at, handled |-> FALSE]
      OBVIOUS
    <3> HIDE DEF at
    <3>1. p.kind = k /\ p.conn = air.id /\ p.at = at
      BY <3>0
    <3>2. /\ pr.kind = k /\ pr.at = at /\ ~pr.handled
          /\ {"kind", "at", "handled"} \subseteq DOMAIN pr
      BY <3>0
    <3>3. air' = [air EXCEPT !.passed = 1, !.proc = pr] /\ pkt' = [pkt EXCEPT ![current] = p]
      BY <2>3, <3>0
    <3>4. /\ air'.id = air.id /\ AirFields \subseteq DOMAIN air' /\ air'.idx = air.idx
          /\ air'.proc = pr /\ air'.counter = air.counter
      BY <3>3 DEF Packets, Shapes, AirFields
    <3>5. ASSUME NEW b \in Unhandled, pkt[b].conn = air.id
          PROVE  pkt[b].kind # "connect" /\ ~Live'
      <4>1. pkt[b].kind \in {"connect", "upd", "map"}
        BY <2>1, <3>5, LatestKinds, UnhandledBufs
      <4>2. pkt[b].kind # "connect"
        BY <2>1, <3>5 DEF Packets, NewIsUntouched, UntouchedAir
      <4>3. pkt[b].kind \in {"upd", "map"}
        BY <4>1, <4>2
      <4>4. ~Live'
        <5>1. SUFFICES ASSUME Live PROVE FALSE
          BY <3>4, FirstByteUnhandled DEF Live
        <5>2. QED
          BY <2>3, <3>5, <4>3, <5>1 DEF Packets, ProcedureUnderWay, ToBeTold
      <4>5. QED
        BY <4>2, <4>4
    <3>6. ToBeTold(p)'
      BY <3>1, <3>2, <3>4 DEF ToBeTold
    <3>7. air.id \in Nat /\ air.idx \in 0 .. NCH - 1 /\ air.counter \in Counters
      BY DEF Packets, Shapes
    <3>8. /\ p.kind \in {"upd", "map"} /\ p.conn = air'.id /\ p.conn \in Nat /\ p.conn # ADV
          /\ air.id <= air'.id /\ air'.id = air.id
          /\ air'.idx \in 0 .. NCH - 1 /\ air'.counter \in Counters
      BY <2>1, <3>1, <3>4, <3>7
    <3>9. \A b \in Unhandled : pkt[b].conn = air'.id =>
            p.kind # "connect" /\ pkt[b].kind # "connect" /\ ~Live'
      BY <3>4, <3>5, <3>8
    <3>10. {"kind", "at", "handled"} \subseteq DOMAIN air'.proc
      BY <3>2, <3>4
    <3>11. QED
      BY <3>3, <3>4, <3>6, <3>8, <3>9, <3>10, LatestPacket
  <2>4. QED
    BY <1>2, <2>2, <2>3 DEF HearData
<1>3. QED
  BY <1>1, <1>2 DEF FirstByte

LEMMA UnheardPackets == ASSUME Packets, Unheard PROVE Packets'
<1>1. /\ UNCHANGED <<avail, current, queue, work, pkt, conn, event, chan, rx, pc, torn, lost>>
      /\ astray' = TRUE /\ air.passed = 0 /\ air' = [air EXCEPT !.passed = 1]
  BY DEF Unheard, buffers, radio
<1>2. /\ air'.id = air.id /\ AirFields \subseteq DOMAIN air' /\ air'.idx = air.idx
      /\ air'.proc = air.proc /\ air'.counter = air.counter
  BY <1>1 DEF Packets, Shapes, AirFields
<1>3. ~Live' /\ ~UntouchedAir
  BY <1>1, NewAirFacts DEF Live, UntouchedAir
<1>4. Unhandled' = Unhandled
  BY <1>1 DEF Unhandled
<1>5. NewIsUntouched' /\ ProcedureUnderWay'
  BY <1>1, <1>2, <1>3, <1>4 DEF Packets, NewIsUntouched, ProcedureUnderWay
<1>6. Shapes' /\ Numbered'
  BY <1>1, <1>2 DEF Packets, Shapes, Numbered, AdvChannel, Channel
<1>7. QED
  BY <1>5, <1>6 DEF Packets

-----------------------------------------------------------------------------
(* The packets and the main loop.                                          *)

(* A step of the main loop after which its packet is handled, and which    *)
(* leaves the other packets what they were.                                *)
LEMMA ReleasePackets ==
  ASSUME PoolInv, Packets, pc # "idle", Release, rx' = rx, UNCHANGED chan,
         ConnFields \subseteq DOMAIN conn', AirFields \subseteq DOMAIN air',
         {"kind", "at", "handled"} \subseteq DOMAIN air'.proc,
         {"num", "opened"} \subseteq DOMAIN event',
         conn'.aa \in {conn.aa, ADV}, air'.id = air.id,
         conn'.idx \in 0 .. NCH - 1, conn'.counter \in Counters,
         air'.idx = air.idx, air'.counter = air.counter,
         Live' => Live,
         \A b \in Unhandled \ {work} : pkt[b].kind = "connect" /\ pkt[b].conn = air.id
                                         /\ UntouchedAir => UntouchedAir',
         Live' => air'.proc = air.proc
                    \/ \A b \in Unhandled \ {work} : pkt[b].conn # air.id
  PROVE  Packets'
<1>1. /\ Unhandled' \subseteq Unhandled \ {work} /\ work \in Bufs
      /\ DOMAIN pkt' = Bufs
      /\ pkt'[work] = NoPacket /\ \A b \in Bufs \ {work} : pkt'[b] = pkt[b]
  BY ReleaseUnhandled DEF Packets, Shapes
<1>2. \A b \in Unhandled' : b \in Unhandled \ {work} /\ pkt'[b] = pkt[b]
  BY <1>1, UnhandledBufs
<1>3. ASSUME NEW b \in Unhandled', OnlyPacket(b) PROVE OnlyPacket(b)'
  BY <1>2, <1>3 DEF OnlyPacket
<1>4. ASSUME NEW b \in Unhandled', pkt'[b].kind = "connect", pkt'[b].conn = air'.id
      PROVE  UntouchedAir' /\ OnlyPacket(b)'
  <2>1. b \in Unhandled \ {work} /\ pkt'[b] = pkt[b]
    BY <1>2
  <2>2. UntouchedAir /\ OnlyPacket(b)
    BY <1>4, <2>1 DEF Packets, NewIsUntouched
  <2>3. QED
    BY <1>3, <1>4, <2>1, <2>2
<1>5. ASSUME NEW b \in Unhandled', Live', pkt'[b].kind \in {"upd", "map"}, pkt'[b].conn = air'.id
      PROVE  ToBeTold(pkt[b])' /\ OnlyPacket(b)'
  <2>1. b \in Unhandled \ {work} /\ pkt'[b] = pkt[b]
    BY <1>2
  <2>2. ToBeTold(pkt[b]) /\ OnlyPacket(b) /\ air'.proc = air.proc
    BY <1>5, <2>1 DEF Packets, ProcedureUnderWay
  <2>3. ToBeTold(pkt[b])'
    BY <2>1, <2>2 DEF ToBeTold
  <2>4. QED
    BY <1>3, <2>2, <2>3
<1>6. NewIsUntouched' /\ ProcedureUnderWay'
  BY <1>4, <1>5 DEF NewIsUntouched, ProcedureUnderWay
<1>7. conn'.aa \in Nat /\ conn'.aa <= air'.id
  BY PhyFacts DEF Packets, Shapes, Numbered
<1>8. Shapes'
  BY <1>1, <1>7 DEF Packets, Shapes
<1>9. NoPacket.kind = "none" /\ NoPacket.conn = 0 /\ ADV = 0
  BY DEF NoPacket, ADV
<1>10. ASSUME NEW b \in Bufs
       PROVE  /\ pkt'[b].conn \in Nat /\ pkt'[b].conn <= air'.id
              /\ pkt'[b].kind = "connect" => pkt'[b].conn # ADV
              /\ pkt'[b].kind \notin {"connect", "upd", "map"} => pkt'[b].conn = ADV
  <2>1. CASE b = work
    <3>1. pkt'[b] = NoPacket /\ air.id \in Nat
      BY <1>1, <2>1 DEF Packets, Shapes
    <3>2. pkt'[b].kind = "none" /\ pkt'[b].conn = 0
      BY <1>9, <3>1
    <3>3. QED
      BY <1>9, <3>1, <3>2
  <2>2. CASE b # work
    BY <1>1, <2>2 DEF Packets, Numbered
  <2>3. QED
    BY <2>1, <2>2
<1>11. pc' = "idle" /\ (air'.id = ADV => chan' = AdvChannel)
  BY DEF Release, Packets, Numbered, AdvChannel, Channel
<1>12. Numbered'
  BY <1>7, <1>10, <1>11 DEF Numbered, AdvChannel, Channel
<1>13. QED
  BY <1>6, <1>8, <1>12 DEF Packets

LEMMA SkipPackets == ASSUME PoolInv, Packets, Skip PROVE Packets'
<1>1. /\ Release /\ pc # "idle"
      /\ UNCHANGED <<conn, event, chan, rx, air, astray, torn, lost>>
  BY DEF Skip, radio, history
<1>2. Live' = Live /\ UntouchedAir' = UntouchedAir
  BY <1>1 DEF Live, UntouchedAir
<1>3. QED
  BY <1>1, <1>2, ReleasePackets DEF Packets, Shapes

LEMMA InvalidPackets == ASSUME PoolInv, Packets, ConnectInvalid PROVE Packets'
<1>1. /\ Release /\ pc # "idle" /\ conn' = ResetConn
      /\ UNCHANGED <<event, chan, rx, air, astray, torn, lost>>
  BY DEF ConnectInvalid, radio, history
<1>2. 0 \in Counters /\ 0 \in 0 .. NCH - 1
  BY PhyFacts DEF Counters
<1>3. conn'.aa = ADV /\ conn'.idx = 0 /\ conn'.counter = 0 /\ ConnFields \subseteq DOMAIN conn'
  BY <1>1, ResetFacts
<1>4. ~Live'
  BY <1>3 DEF Live, ADV
<1>5. ASSUME NEW b \in Unhandled \ {work}, pkt[b].kind = "connect", pkt[b].conn = air.id,
             UntouchedAir
      PROVE  UntouchedAir'
  <2>1. air.id # ADV
    BY <1>5, UnhandledBufs DEF Packets, Numbered
  <2>2. QED
    BY <1>1, <1>3, <1>5, <2>1 DEF UntouchedAir
<1>6. QED
  BY <1>1, <1>2, <1>3, <1>4, <1>5, ReleasePackets DEF Packets, Shapes

LEMMA ValidPackets == ASSUME PoolInv, Packets, ConnectValid PROVE Packets'
<1>1. /\ Release /\ pc # "idle" /\ conn' = [conn EXCEPT !.map = 0] /\ event' = NewEvent
      /\ UNCHANGED <<chan, rx, air, astray, torn>> /\ (lost => lost')
  BY DEF ConnectValid
<1>2. /\ ConnFields \subseteq DOMAIN conn' /\ conn'.aa = conn.aa /\ conn'.idx = conn.idx
      /\ conn'.counter = conn.counter
  BY <1>1 DEF Packets, Shapes, ConnFields
<1>3. (Live' => Live) /\ UntouchedAir' = UntouchedAir
  BY <1>1, <1>2 DEF Live, UntouchedAir
<1>4. QED
  BY <1>1, <1>2, <1>3, EventFacts, ReleasePackets DEF Packets, Shapes

\* What is known of a control packet before its handler is done with it.
LEMMA HandledPacket ==
  ASSUME PoolInv, Packets, pc \in {"handle", "map"}, pkt[work].kind \in {"upd", "map"}
  PROVE  /\ work \in Unhandled
         /\ Live /\ ~Misplaced(pkt[work]) =>
              ToBeTold(pkt[work]) /\ \A b \in Unhandled \ {work} : pkt[b].conn # air.id
         /\ \A b \in Unhandled \ {work} : pkt[b].kind = "connect" /\ pkt[b].conn = air.id =>
              pkt[work].conn # air.id
<1>1. work \in Unhandled
  BY DEF Unhandled
<1>2. ASSUME Live, ~Misplaced(pkt[work])
      PROVE  ToBeTold(pkt[work]) /\ \A b \in Unhandled \ {work} : pkt[b].conn # air.id
  <2>1. pkt[work].conn = air.id
    BY <1>2 DEF Live, Misplaced
  <2>2. QED
    BY <1>1, <1>2, <2>1 DEF Packets, ProcedureUnderWay, OnlyPacket
<1>3. ASSUME NEW b \in Unhandled \ {work}, pkt[b].kind = "connect", pkt[b].conn = air.id
      PROVE  pkt[work].conn # air.id
  BY <1>1, <1>3 DEF Packets, NewIsUntouched, OnlyPacket
<1>4. QED
  BY <1>1, <1>2, <1>3

LEMMA HandledFacts ==
  ASSUME Shapes, NEW p, Handled(p)
  PROVE  /\ AirFields \subseteq DOMAIN air' /\ {"kind", "at", "handled"} \subseteq DOMAIN air'.proc
         /\ \A f \in AirFields \ {"proc"} : air'[f] = air[f]
         /\ air'.id = air.id /\ air'.idx = air.idx /\ air'.counter = air.counter
         /\ air'.map = air.map /\ air'.ivl = air.ivl
         /\ p.conn # air.id => air' = air
         /\ air'.proc.kind = air.proc.kind /\ air'.proc.at = air.proc.at
         /\ p.conn = air.id /\ air.proc.kind = p.kind => air'.proc.handled
         /\ ~(p.conn = air.id /\ air.proc.kind = p.kind) => air' = air
<1>1. CASE p.conn = air.id /\ air.proc.kind = p.kind
  <2>1. air' = [air EXCEPT !.proc.handled = TRUE]
    BY <1>1 DEF Handled
  <2>2. air' = [air EXCEPT !.proc = [air.proc EXCEPT !.handled = TRUE]]
    BY <2>1
  <2> DEFINE q == [air.proc EXCEPT !.handled = TRUE]
  <2>3. q.kind = air.proc.kind /\ q.at = air.proc.at /\ q.handled /\ DOMAIN q = DOMAIN air.proc
    BY DEF Shapes
  <2> HIDE DEF q
  <2>4. /\ air'.proc = q /\ DOMAIN air' = DOMAIN air
        /\ \A f \in AirFields \ {"proc"} : air'[f] = air[f]
    BY <2>2 DEF Shapes, AirFields, q
  <2>5. /\ air'.id = air.id /\ air'.idx = air.idx /\ air'.counter = air.counter
        /\ air'.map = air.map /\ air'.ivl = air.ivl
    BY <2>4 DEF AirFields
  <2>6. QED
    BY <1>1, <2>3, <2>4, <2>5 DEF Shapes
<1>2. CASE ~(p.conn = air.id /\ air.proc.kind = p.kind)
  BY <1>2 DEF Handled, Shapes
<1>3. QED
  BY <1>1, <1>2

LEMMA ControlPackets ==
  ASSUME PoolInv, Packets, ConnectionUpdate \/ MapUpdateFields
  PROVE  Packets'
<1>1. /\ Release /\ pc \in {"handle", "map"} /\ pkt[work].kind \in {"upd", "map"}
      /\ Handled(pkt[work]) /\ astray' = (astray \/ Misplaced(pkt[work]))
      /\ UNCHANGED <<event, chan, rx, torn, lost>>
  BY DEF ConnectionUpdate, MapUpdateFields, radio, Packets, Numbered
<1>2. /\ ConnFields \subseteq DOMAIN conn' /\ conn'.aa = conn.aa /\ conn'.idx = conn.idx
      /\ conn'.counter = conn.counter
  <2>1. \E u, v : \/ conn' = [conn EXCEPT !.update = u]
                  \/ conn' = [conn EXCEPT !.mapInstant = u, !.newMap = v]
    BY DEF ConnectionUpdate, MapUpdateFields
  <2>2. QED
    BY <2>1 DEF Packets, Shapes, ConnFields
<1>3. /\ AirFields \subseteq DOMAIN air' /\ {"kind", "at", "handled"} \subseteq DOMAIN air'.proc
      /\ air'.id = air.id /\ air'.idx = air.idx /\ air'.counter = air.counter
      /\ pkt[work].conn # air.id => air' = air
  BY <1>1, HandledFacts DEF Packets
<1>4. /\ Live /\ ~Misplaced(pkt[work]) => \A b \in Unhandled \ {work} : pkt[b].conn # air.id
      /\ \A b \in Unhandled \ {work} : pkt[b].kind = "connect" /\ pkt[b].conn = air.id =>
           pkt[work].conn # air.id
  BY <1>1, HandledPacket
<1>5. Live' => Live /\ ~Misplaced(pkt[work])
  BY <1>1, <1>2, <1>3 DEF Live
<1>6. ASSUME NEW b \in Unhandled \ {work}, pkt[b].kind = "connect", pkt[b].conn = air.id,
             UntouchedAir
      PROVE  UntouchedAir'
  BY <1>2, <1>3, <1>4, <1>6 DEF UntouchedAir
<1>7. QED
  BY <1>1, <1>2, <1>3, <1>4, <1>5, <1>6, ReleasePackets DEF Packets, Shapes

LEMMA PendingPackets == ASSUME PoolInv, Packets, MapUpdatePending PROVE Packets'
<1>1. /\ pc = "handle" /\ pc' = "map" /\ pkt[work].kind = "map"
      /\ conn' = [conn EXCEPT !.mapPending = TRUE]
      /\ UNCHANGED <<avail, current, queue, work, pkt, event, chan, rx, air, astray, torn, lost>>
  BY DEF MapUpdatePending, buffers, radio, history
<1>2. /\ ConnFields \subseteq DOMAIN conn' /\ conn'.aa = conn.aa /\ conn'.idx = conn.idx
      /\ conn'.counter = conn.counter
  BY <1>1 DEF Packets, Shapes, ConnFields
<1>3. Unhandled' = Unhandled /\ Live' = Live /\ UntouchedAir' = UntouchedAir
  BY <1>1, <1>2 DEF Unhandled, Live, UntouchedAir
<1>4. NewIsUntouched' /\ ProcedureUnderWay'
  BY <1>1, <1>3, PacketsKept DEF Packets
<1>5. Shapes' /\ Numbered'
  BY <1>1, <1>2 DEF Packets, Shapes, Numbered, AdvChannel, Channel
<1>6. QED
  BY <1>4, <1>5 DEF Packets

LEMMA FieldsPackets == ASSUME PoolInv, Packets, ConnectFields PROVE Packets'
<1> DEFINE n == pkt[work].conn
<1>1. /\ pc = "handle" /\ pc' = "connect" /\ pkt[work].kind = "connect"
      /\ conn' = [conn EXCEPT !.aa = n, !.ivl = 0]
      /\ UNCHANGED <<avail, current, queue, work, pkt, event, chan, rx, air>>
  BY DEF ConnectFields, buffers, radio
<1>2. work \in Bufs /\ work \in Unhandled /\ Unhandled' = Unhandled \ {work}
  <2>1. work # NULL
    BY <1>1 DEF PoolInv, Held
  <2>2. QED
    BY <1>1, <2>1, WorkAlone DEF Unhandled
<1>3. n \in Nat /\ n <= air.id
  BY <1>2 DEF Packets, Numbered
<1> HIDE DEF n
<1>4. /\ ConnFields \subseteq DOMAIN conn' /\ conn'.aa = n /\ conn'.idx = conn.idx
      /\ conn'.counter = conn.counter
  BY <1>1 DEF Packets, Shapes, ConnFields
<1>5. ASSUME NEW b \in Unhandled', OnlyPacket(b) PROVE OnlyPacket(b)'
  BY <1>1, <1>2, <1>5 DEF OnlyPacket
<1>6. ASSUME NEW b \in Unhandled', pkt'[b].kind = "connect", pkt'[b].conn = air'.id
      PROVE  UntouchedAir' /\ OnlyPacket(b)'
  <2>1. UntouchedAir /\ OnlyPacket(b)
    BY <1>1, <1>2, <1>6 DEF Packets, NewIsUntouched
  <2>2. n # air.id
    BY <1>2, <1>6, <2>1 DEF OnlyPacket, n
  <2>3. QED
    BY <1>1, <1>4, <1>5, <2>1, <2>2 DEF UntouchedAir
<1>7. ASSUME NEW b \in Unhandled', Live', pkt'[b].kind \in {"upd", "map"}, pkt'[b].conn = air'.id
      PROVE  FALSE
  <2>1. n = air.id
    BY <1>1, <1>4, <1>7 DEF Live
  <2>2. OnlyPacket(work)
    BY <1>1, <1>2, <2>1 DEF Packets, NewIsUntouched, n
  <2>3. QED
    BY <1>1, <1>2, <1>7, <2>2 DEF OnlyPacket
<1>8. NewIsUntouched' /\ ProcedureUnderWay'
  BY <1>6, <1>7 DEF NewIsUntouched, ProcedureUnderWay
<1>9. Shapes' /\ Numbered'
  BY <1>1, <1>3, <1>4 DEF Packets, Shapes, Numbered, AdvChannel, Channel
<1>10. QED
  BY <1>8, <1>9 DEF Packets

LEMMA StillStep ==
  ASSUME PoolInv, Packets, NullByte \/ Take \/ CancelFollow \/ UNCHANGED vars
  PROVE  /\ Packets'
         /\ UNCHANGED <<conn, event, chan, rx, timer, air, astray, torn, lost>>
         /\ pc' = pc \/ {pc, pc'} = {"idle", "handle"}
<1>1. UNCHANGED <<conn, event, chan, rx, timer, air, astray, torn, lost, pkt>>
  BY DEF NullByte, Take, CancelFollow, vars, buffers, radio, history
<1>2. CASE Take
  <2>1. Unhandled' \subseteq Unhandled /\ pc' = "handle" /\ pc = "idle"
    BY <1>2, TakeUnhandled DEF Take
  <2>2. QED
    BY <1>1, <2>1, StillPackets
<1>3. CASE NullByte \/ CancelFollow \/ UNCHANGED vars
  <2>1. UNCHANGED <<queue, current, work, pc>>
    BY <1>3 DEF NullByte, CancelFollow, vars, buffers
  <2>2. Unhandled' = Unhandled
    BY <1>1, <2>1 DEF Unhandled
  <2>3. QED
    BY <1>1, <2>1, <2>2, StillPackets
<1>4. QED
  BY <1>2, <1>3

LEMMA StepPackets == PoolInv /\ Packets /\ [Next]_vars => Packets'
<1> SUFFICES ASSUME PoolInv, Packets, [Next]_vars PROVE Packets'
  OBVIOUS
<1>1. CASE FirstByte
  BY <1>1, FirstBytePackets
<1>2. CASE EndPacket
  BY <1>2, EndPackets
<1>3. CASE TimerMatch
  BY <1>3, TimerPackets
<1>4. CASE Unheard
  BY <1>4, UnheardPackets
<1>5. CASE Handle
  BY <1>5, SkipPackets, FieldsPackets, InvalidPackets, ValidPackets, ControlPackets,
     PendingPackets DEF Handle
<1>6. CASE NullByte \/ Take \/ CancelFollow \/ UNCHANGED vars
  BY <1>6, StillStep
<1>7. QED
  BY <1>1, <1>2, <1>3, <1>4, <1>5, <1>6 DEF Next, MainLoop

-----------------------------------------------------------------------------
(* The record and the air: the radio.                                      *)

LEMMA StillInStep ==
  ASSUME InStep, UNCHANGED <<conn, event, chan, timer, air, astray, torn, lost>>,
         Receiving' => Receiving,
         (pc' = "connect") = (pc = "connect"), (pc' = "map") = (pc = "map")
  PROVE  InStep'
<1>1. Live' = Live /\ (Fresh => Fresh')
  BY DEF Live, Fresh
<1>2. InstantAhead' = InstantAhead /\ MapTold' = MapTold /\ UpdateTold' = UpdateTold
  BY DEF InstantAhead, MapTold, UpdateTold
<1>3. (Ready => Ready') /\ (AwaitsWindow => AwaitsWindow') /\ (InEvent => InEvent')
  BY DEF Ready, AwaitsWindow, InEvent, AdvChannel, Channel
<1>4. Followed => Followed'
  BY <1>2, <1>3 DEF Followed
<1>5. QED
  BY <1>1, <1>4 DEF InStep

\* A follower on a data channel is not in the middle of taking a connection.
LEMMA OnDataChannel ==
  ASSUME InStep, Live, chan # AdvChannel \/ timer # "off"
  PROVE  pc # "connect" /\ Followed
  BY DEF InStep, Fresh

LEMMA FirstByteInStep == ASSUME PoolInv, Packets, InStep, FirstByte PROVE InStep'
<1>1. UNCHANGED <<conn, event, chan, pc, astray, torn, lost>>
  BY DEF FirstByte, history
<1>2. timer' = IF chan # AdvChannel THEN "off" ELSE timer
  BY DEF FirstByte
<1>3. CASE HearAdvertising /\ air' = air
  <2>1. chan = AdvChannel
    BY <1>3 DEF HearAdvertising
  <2>2. ~Receiving'
    BY <1>1, <2>1 DEF Receiving, AdvChannel, Channel
  <2>3. QED
    BY <1>1, <1>2, <1>3, <2>1, <2>2, StillInStep
<1>4. CASE HearAdvertising /\ air' = NewAir(air.id + 1)
  <2>1. air'.id = air.id + 1
    BY <1>4, NewAirFacts
  <2>2. conn'.aa <= air.id /\ conn'.aa \in Nat /\ air.id \in Nat
    BY <1>1 DEF Packets, Numbered, Shapes
  <2>3. ~Live'
    BY <2>1, <2>2 DEF Live
  <2>4. QED
    BY <2>3 DEF InStep
<1>5. CASE HearData
  <2>1. event.opened /\ chan = Channel(air.idx, air.map) /\ conn.aa = air.id
    BY <1>5 DEF HearData, Tuned
  <2>2. chan # AdvChannel /\ chan.idx = air.idx
    BY <2>1, ChannelFacts DEF Packets, Shapes
  <2> DEFINE at == (air.counter + LEAD) % CTR
  <2>3. at # air.counter
    BY HopOnce, PhyFacts DEF Packets, Shapes, Counters
  <2> HIDE DEF at
  <2>4. /\ air'.id = air.id /\ air'.idx = air.idx /\ air'.counter = air.counter
        /\ air'.map = air.map /\ air'.ivl = air.ivl
        /\ \/ air'.proc = air.proc
           \/ /\ air.proc.kind = "none" /\ air'.proc.kind \in {"upd", "map"}
              /\ ~air'.proc.handled /\ air'.proc.at = at
    <3>1. CASE air' = [air EXCEPT !.passed = @ + 1]
      BY <3>1 DEF Packets, Shapes, AirFields
    <3>2. ASSUME NEW k \in {"upd", "map"}, air.proc.kind = "none",
                 air' = [air EXCEPT !.passed = 1,
                              !.proc = [kind |-> k, at |-> at, handled |-> FALSE]]
          PROVE  /\ air'.id = air.id /\ air'.idx = air.idx /\ air'.counter = air.counter
                 /\ air'.map = air.map /\ air'.ivl = air.ivl
                 /\ air'.proc.kind = k /\ ~air'.proc.handled /\ air'.proc.at = at
      BY <3>2 DEF Packets, Shapes, AirFields
    <3>3. QED
      BY <1>5, <3>1, <3>2 DEF HearData, at
  <2>5. SUFFICES ASSUME Live' PROVE pc' # "connect" /\ Followed'
    BY DEF InStep
  <2>6. Live
    BY <1>1, <2>4, <2>5 DEF Live
  <2>7. pc # "connect" /\ InEvent /\ UpdateTold /\ MapTold /\ InstantAhead
    BY <2>1, <2>2, <2>6, OnDataChannel DEF Followed, Ready, AwaitsWindow
  <2>8. InEvent'
    BY <1>1, <1>2, <2>1, <2>2, <2>4, <2>7 DEF InEvent, Channel
  <2>9. InstantAhead'
    BY <2>3, <2>4, <2>7 DEF InstantAhead
  <2>10. UpdateTold'
    BY <1>1, <2>4, <2>7 DEF UpdateTold
  <2>11. MapTold'
    BY <1>1, <2>4, <2>7 DEF MapTold
  <2>12. QED
    BY <1>1, <2>7, <2>8, <2>9, <2>10, <2>11 DEF Followed
<1>6. QED
  BY <1>3, <1>4, <1>5 DEF FirstByte, HearAdvertising

LEMMA EndFirstInStep == ASSUME PoolInv, Packets, InStep, EndFirst PROVE InStep'
<1>1. /\ rx = "packet" /\ chan # AdvChannel /\ rx' = "idle" /\ timer' = "timeout"
      /\ event' = [event EXCEPT !.num = 1]
      /\ UNCHANGED <<conn, chan, pc, air, astray, torn, lost>>
  BY DEF EndFirst, history
<1>2. event'.opened = event.opened /\ Receiving /\ ~Receiving'
  BY <1>1 DEF Receiving, Packets, Shapes
<1>3. SUFFICES ASSUME Live' PROVE pc' # "connect" /\ Followed'
  BY DEF InStep
<1>4. Live
  BY <1>1, <1>3 DEF Live
<1>5. pc # "connect" /\ InEvent /\ UpdateTold /\ MapTold /\ InstantAhead
  BY <1>1, <1>2, <1>4, OnDataChannel DEF Followed, Ready, AwaitsWindow
<1>6. InEvent'
  BY <1>1, <1>2, <1>5 DEF InEvent, Channel
<1>7. UpdateTold' /\ MapTold' /\ InstantAhead'
  BY <1>1, <1>5 DEF UpdateTold, MapTold, InstantAhead
<1>8. QED
  BY <1>1, <1>5, <1>6, <1>7 DEF Followed

(* finish_conn_event makes the record ready for the next event.            *)
LEMMA FinishInStep ==
  ASSUME Packets, NEW n, NEW b, NEW r, FinishConnEvent(conn, n, b, r),
         ~(r = "packet" /\ chan # AdvChannel),
         UNCHANGED <<pc, air, astray>>, torn => torn',
         Live' => Live /\ pc # "connect" /\ InEvent /\ UpdateTold /\ MapTold /\ InstantAhead
  PROVE  InStep'
<1>1. /\ event' = NewEvent /\ (lost => lost')
      /\ \/ conn' = ResetConn /\ chan' = AdvChannel /\ rx' = "idle"
         \/ /\ \A f \in ConnFields \ {"anchorSet", "quiet", "counter"} : conn'[f] = conn[f]
            /\ conn'.counter = (conn.counter + 1) % CTR
            /\ rx' = r /\ chan' = chan
            /\ timer' = "open" \/ lost'
  BY FinishFacts DEF Packets, Shapes
<1>2. SUFFICES ASSUME Live' PROVE pc' # "connect" /\ Followed'
  BY DEF InStep
<1>3. conn' # ResetConn
  BY <1>2, ResetFacts DEF Live, ADV
<1>4. /\ conn'.aa = conn.aa /\ conn'.idx = conn.idx /\ conn'.map = conn.map /\ conn'.ivl = conn.ivl
      /\ conn'.update = conn.update /\ conn'.mapPending = conn.mapPending
      /\ conn'.mapInstant = conn.mapInstant /\ conn'.newMap = conn.newMap
      /\ conn'.counter = (conn.counter + 1) % CTR /\ rx' = r /\ chan' = chan
  BY <1>1, <1>3 DEF ConnFields
<1>5. ~event'.opened /\ ~Receiving'
  BY <1>1, <1>4, EventFacts DEF Receiving, AdvChannel, Channel
<1>6. pc # "connect" /\ InEvent /\ UpdateTold /\ MapTold /\ InstantAhead
  BY <1>2
<1>7. chan.idx = air.idx
  BY <1>6, ChannelFacts DEF InEvent
<1>8. Ready'
  BY <1>4, <1>5, <1>6, <1>7 DEF InEvent, Ready
<1>9. UpdateTold' /\ MapTold' /\ InstantAhead'
  BY <1>4, <1>6 DEF UpdateTold, MapTold, InstantAhead
<1>10. QED
  BY <1>6, <1>8, <1>9 DEF Followed

LEMMA EndSecondInStep == ASSUME PoolInv, Packets, InStep, EndSecond PROVE InStep'
<1>1. /\ rx = "packet" /\ chan # AdvChannel /\ FinishConnEvent(conn, 2, Get, "off")
      /\ UNCHANGED <<pc, air, astray, torn>>
  BY DEF EndSecond
<1>2. ConnKept /\ (lost => lost')
  BY <1>1, FinishKept DEF Packets, Shapes
<1>3. ASSUME Live' PROVE Live
  BY <1>1, <1>2, <1>3, LiveBefore DEF ConnKept
<1>4. ASSUME Live PROVE pc # "connect" /\ InEvent /\ UpdateTold /\ MapTold /\ InstantAhead
  BY <1>1, <1>4, OnDataChannel DEF Followed, Ready, AwaitsWindow, Receiving
<1>5. QED
  BY <1>1, <1>3, <1>4, FinishInStep

-----------------------------------------------------------------------------
(* The record and the air: the timer.                                      *)

LEMMA TimerLive ==
  ASSUME Packets, InStep, TimerMatch, Live'
  PROVE  Live /\ pc # "connect" /\ Followed
<1>1. /\ ConnKept /\ (torn => torn') /\ (lost => lost')
      /\ NextOnAir \/ UNCHANGED <<air, astray>>
  BY TimerFacts DEF Packets
<1>2. air'.id = air.id /\ (astray => astray')
  BY <1>1, NextOnAirFacts DEF Packets
<1>3. Live
  BY <1>1, <1>2, LiveBefore DEF ConnKept
<1>4. timer # "off"
  BY DEF TimerMatch, UpdateOffset, UpdateWindow, OpenEvent, CloseEvent
<1>5. QED
  BY <1>3, <1>4, OnDataChannel

\* The connection of a follower that is in step moves on by one event.
LEMMA AirMoves ==
  ASSUME Packets, Live, NextOnAir
  PROVE  LET n == (air.counter + 1) % CTR
             due == air.proc.kind # "none" /\ air.proc.at = n
         IN /\ air'.id = air.id /\ air'.counter = n /\ air'.idx = (air.idx + HOP) % NCH
            /\ air'.map = IF due /\ air.proc.kind = "map" THEN 1 - air.map ELSE air.map
            /\ air'.ivl = IF due /\ air.proc.kind = "upd" THEN 1 - air.ivl ELSE air.ivl
            /\ air'.proc = IF due THEN NoProcedure ELSE air.proc
            /\ ~astray' => ~(due /\ ~air.proc.handled)
<1>1. air' = Advance(air) /\ astray' = (astray \/ Untold)
  BY DEF NextOnAir, Live
<1>2. QED
  BY <1>1, AdvanceFacts DEF Packets, Shapes, Untold

\* The instant of a connection update that is due is that of the next event,
\* unless the follower is in it and waits for the window.
LEMMA UpdateInstant ==
  ASSUME Packets, Live, Followed, UpdateDue
  PROVE  /\ event.opened => AwaitsWindow
         /\ ~event.opened =>
              /\ Ready /\ UpdateTold /\ air.proc.kind = "upd" /\ air.proc.handled
              /\ air.proc.at = (air.counter + 1) % CTR /\ conn.update.ivl = 1 - air.ivl
<1>1. ASSUME event.opened PROVE AwaitsWindow
  <2>1. ASSUME InEvent, UpdateTold PROVE FALSE
    BY <2>1 DEF InEvent, UpdateTold, UpdateDue, Followed, InstantAhead
  <2>2. QED
    BY <1>1, <2>1 DEF Followed, Ready
<1>2. ASSUME ~event.opened PROVE Ready /\ UpdateTold
  BY <1>2 DEF Followed, AwaitsWindow, InEvent
<1>3. ASSUME ~event.opened
      PROVE  /\ air.proc.kind = "upd" /\ air.proc.handled
             /\ air.proc.at = (air.counter + 1) % CTR /\ conn.update.ivl = 1 - air.ivl
  BY <1>2, <1>3 DEF Ready, UpdateTold, UpdateDue
<1>4. QED
  BY <1>1, <1>2, <1>3

\* What the air does at the instant of a connection update.
LEMMA AirAtUpdate ==
  ASSUME Packets, Live, Followed, UpdateDue, ~event.opened, NextOnAir
  PROVE  /\ Ready
         /\ air'.counter = conn.counter /\ air'.idx = (conn.idx + HOP) % NCH
         /\ air'.idx \in 0 .. NCH - 1 /\ air'.idx # conn.idx
         /\ air'.map = conn.map /\ air'.ivl = conn.update.ivl /\ air'.proc.kind = "none"
<1>1. /\ Ready /\ UpdateTold /\ air.proc.kind = "upd" /\ air.proc.handled
      /\ air.proc.at = (air.counter + 1) % CTR /\ conn.update.ivl = 1 - air.ivl
  BY UpdateInstant
<1>2. /\ air'.counter = (air.counter + 1) % CTR /\ air'.idx = (air.idx + HOP) % NCH
      /\ air'.map = air.map /\ air'.ivl = 1 - air.ivl /\ air'.proc = NoProcedure
  BY <1>1, AirMoves
<1>3. (conn.idx + HOP) % NCH \in 0 .. NCH - 1 /\ (conn.idx + HOP) % NCH # conn.idx
  BY HopOnce, PhyFacts DEF Packets, Shapes
<1>4. QED
  BY <1>1, <1>2, <1>3 DEF Ready, NoProcedure

\* With no procedure under way, only half a map update may be on record.
LEMMA NoneToTell ==
  ASSUME MapTold, air.proc.kind \in {"none", "upd"}, air'.proc.kind = "none", UNCHANGED pc,
         conn'.mapPending = conn.mapPending
  PROVE  MapTold' /\ InstantAhead'
  BY DEF MapTold, InstantAhead

LEMMA OffsetInStep == ASSUME PoolInv, Packets, InStep, UpdateOffset PROVE InStep'
<1>1. /\ UpdateDue /\ ~event.opened /\ NextOnAir /\ timer' = "open"
      /\ event' = [event EXCEPT !.opened = TRUE]
      /\ UNCHANGED <<conn, chan, rx, pc, torn, lost>>
  BY DEF UpdateOffset
<1>2. SUFFICES ASSUME Live' PROVE pc' # "connect" /\ Followed'
  BY DEF InStep
<1>3. Live /\ pc # "connect" /\ Followed
  BY <1>2, TimerLive DEF TimerMatch
<1>4. /\ Ready /\ air'.counter = conn.counter /\ air'.idx = (conn.idx + HOP) % NCH
      /\ air'.idx \in 0 .. NCH - 1 /\ air'.idx # conn.idx
      /\ air'.map = conn.map /\ air'.ivl = conn.update.ivl /\ air'.proc.kind = "none"
  BY <1>1, <1>3, AirAtUpdate
<1>5. event'.opened /\ Receiving' = Receiving
  BY <1>1 DEF Packets, Shapes, Receiving, AdvChannel, Channel
<1>6. chan.idx # air'.idx
  BY <1>4, ChannelFacts, PhyFacts DEF Ready
<1>7. AwaitsWindow'
  BY <1>1, <1>4, <1>5, <1>6 DEF AwaitsWindow, Ready, UpdateDue
<1>8. MapTold' /\ InstantAhead'
  BY <1>1, <1>3, <1>4, UpdateInstant, NoneToTell DEF Followed
<1>9. QED
  BY <1>1, <1>3, <1>7, <1>8 DEF Followed

LEMMA WindowInStep == ASSUME PoolInv, Packets, InStep, UpdateWindow PROVE InStep'
<1> DEFINE c == [conn EXCEPT !.anchorSet = FALSE, !.ivl = conn.update.ivl, !.update = NoUpdate]
<1>1. /\ UpdateDue /\ timer' = "timeout" /\ ChangeChannel(c, current)
      /\ event' = [event EXCEPT !.opened = TRUE]
      /\ IF event.opened THEN UNCHANGED <<air, astray>> ELSE NextOnAir
      /\ UNCHANGED <<pc, torn, lost>>
  BY DEF UpdateWindow
<1>2. SUFFICES ASSUME Live' PROVE pc' # "connect" /\ Followed'
  BY DEF InStep
<1>3. Live /\ pc # "connect" /\ Followed
  BY <1>2, TimerLive DEF TimerMatch
<1>4. /\ ConnFields \subseteq DOMAIN c /\ c.aa = conn.aa /\ c.idx = conn.idx
      /\ c.counter = conn.counter /\ c.map = conn.map /\ c.ivl = conn.update.ivl
      /\ ~c.update.pending /\ c.mapPending = conn.mapPending
  BY DEF Packets, Shapes, ConnFields, NoUpdate
<1> HIDE DEF c
<1>5. /\ \A f \in ConnFields \ {"idx"} : conn'[f] = c[f]
      /\ conn'.idx = (conn.idx + HOP) % NCH /\ rx' = "idle"
      /\ chan' = Channel((conn.idx + HOP) % NCH, conn.map)
  BY <1>1, <1>3, <1>4, ChangeFacts DEF Packets, Shapes, Live
<1>6. /\ conn'.counter = conn.counter /\ conn'.map = conn.map /\ conn'.ivl = conn.update.ivl
      /\ ~conn'.update.pending /\ conn'.mapPending = conn.mapPending
  BY <1>4, <1>5 DEF ConnFields
<1>7. /\ air'.counter = conn.counter /\ air'.idx = (conn.idx + HOP) % NCH
      /\ air'.map = conn.map /\ air'.ivl = conn.update.ivl /\ air'.proc.kind = "none"
      /\ air.proc.kind \in {"none", "upd"}
  <2>1. CASE event.opened
    BY <1>1, <1>3, <2>1, UpdateInstant DEF AwaitsWindow
  <2>2. CASE ~event.opened
    BY <1>1, <1>3, <2>2, UpdateInstant, AirAtUpdate
  <2>3. QED
    BY <2>1, <2>2
<1>8. event'.opened /\ ~Receiving'
  BY <1>1, <1>5 DEF Packets, Shapes, Receiving
<1>9. InEvent'
  BY <1>1, <1>5, <1>6, <1>7, <1>8 DEF InEvent, Channel
<1>10. UpdateTold'
  BY <1>6, <1>7 DEF UpdateTold
<1>11. MapTold' /\ InstantAhead'
  BY <1>1, <1>3, <1>6, <1>7, NoneToTell DEF Followed
<1>12. QED
  BY <1>1, <1>3, <1>9, <1>10, <1>11 DEF Followed

LEMMA OpenInStep == ASSUME PoolInv, Packets, InStep, OpenEvent PROVE InStep'
<1> DEFINE n == (air.counter + 1) % CTR
           due == air.proc.kind # "none" /\ air.proc.at = n
           c == WithMap
<1>1. /\ ~UpdateDue /\ ~event.opened /\ timer' = "timeout" /\ ChangeChannel(c, current)
      /\ event' = [event EXCEPT !.opened = TRUE]
      /\ torn' = (torn \/ (MapDue /\ pc = "map"))
      /\ NextOnAir /\ UNCHANGED <<pc, lost>>
  BY DEF OpenEvent
<1>2. SUFFICES ASSUME Live' PROVE pc' # "connect" /\ Followed'
  BY DEF InStep
<1>3. Live /\ pc # "connect" /\ Followed
  BY <1>2, TimerLive DEF TimerMatch
<1>4. /\ ConnFields \subseteq DOMAIN c /\ c.aa = conn.aa /\ c.idx = conn.idx
      /\ c.counter = conn.counter
      /\ \A f \in ConnFields \ {"map", "mapPending"} : c[f] = conn[f]
      /\ ~MapDue => c = conn
      /\ MapDue => c.map = conn.newMap /\ ~c.mapPending
  BY WithMapFacts DEF Packets
<1>5. Ready /\ UpdateTold /\ MapTold /\ InstantAhead /\ ~(MapDue /\ pc = "map")
  BY <1>1, <1>2, <1>3 DEF Followed, AwaitsWindow, InEvent, Live
<1>6. conn.counter = n /\ conn.idx = air.idx /\ conn.map = air.map /\ conn.ivl = air.ivl
  BY <1>5 DEF Ready
<1>7. /\ air'.counter = n /\ air'.idx = (air.idx + HOP) % NCH
      /\ air'.map = IF due /\ air.proc.kind = "map" THEN 1 - air.map ELSE air.map
      /\ air'.ivl = IF due /\ air.proc.kind = "upd" THEN 1 - air.ivl ELSE air.ivl
      /\ air'.proc = IF due THEN NoProcedure ELSE air.proc
      /\ ~(due /\ ~air.proc.handled)
  BY <1>1, <1>2, <1>3, AirMoves DEF Live
<1> HIDE DEF c, n
<1>8. /\ \A f \in ConnFields \ {"idx"} : conn'[f] = c[f]
      /\ conn'.idx = (conn.idx + HOP) % NCH /\ rx' = "idle"
      /\ chan' = Channel((conn.idx + HOP) % NCH, c.map)
  BY <1>1, <1>3, <1>4, ChangeFacts DEF Packets, Shapes, Live
<1>9. /\ conn'.counter = n /\ conn'.map = c.map /\ conn'.ivl = conn.ivl
      /\ conn'.update = conn.update /\ conn'.mapPending = c.mapPending
      /\ conn'.mapInstant = conn.mapInstant /\ conn'.newMap = conn.newMap
  BY <1>4, <1>6, <1>8 DEF ConnFields
<1>10. ~(due /\ air.proc.kind = "upd")
  BY <1>1, <1>5, <1>6, <1>7 DEF UpdateTold, UpdateDue
<1>11. MapDue = (due /\ air.proc.kind = "map")
  BY <1>5, <1>6, <1>7 DEF MapTold, MapDue
<1>12. c.map = air'.map
  BY <1>4, <1>5, <1>6, <1>7, <1>11 DEF MapTold
<1>13. event'.opened /\ ~Receiving'
  BY <1>1, <1>8 DEF Packets, Shapes, Receiving
<1>14. InEvent'
  BY <1>1, <1>6, <1>7, <1>8, <1>9, <1>10, <1>12, <1>13 DEF InEvent, Channel
<1>15. NoProcedure.kind = "none"
  BY DEF NoProcedure
<1>16. UpdateTold' /\ MapTold' /\ InstantAhead'
  <2>1. CASE due
    <3>1. air'.proc.kind = "none"
      BY <1>7, <1>15, <2>1
    <3>2. ~conn.update.pending
      BY <1>5, <1>10, <2>1 DEF UpdateTold
    <3>3. conn'.mapPending => pc' = "map"
      BY <1>1, <1>4, <1>5, <1>9, <1>11, <2>1 DEF MapTold
    <3>4. pc' = "map" => conn'.mapPending
      BY <1>1, <1>4, <1>5, <1>9 DEF MapTold
    <3>5. QED
      BY <1>9, <3>1, <3>2, <3>3, <3>4 DEF UpdateTold, MapTold, InstantAhead
  <2>2. CASE ~due
    <3>1. /\ air'.proc = air.proc /\ air'.ivl = air.ivl /\ air'.map = air.map
          /\ conn'.mapPending = conn.mapPending
      BY <1>4, <1>7, <1>9, <1>11, <2>2
    <3>2. air.proc.kind # "none" => air.proc.at # air'.counter
      BY <1>7, <2>2
    <3>3. QED
      BY <1>1, <1>5, <1>9, <3>1, <3>2 DEF UpdateTold, MapTold, InstantAhead
  <2>3. QED
    BY <2>1, <2>2
<1>17. QED
  BY <1>1, <1>3, <1>14, <1>16 DEF Followed

LEMMA CloseInStep == ASSUME PoolInv, Packets, InStep, CloseEvent PROVE InStep'
<1>1. /\ ~UpdateDue /\ event.opened /\ timer # "off"
      /\ torn' = (torn \/ (MapDue /\ pc = "map"))
      /\ FinishConnEvent(WithMap, event.num, current, rx)
      /\ UNCHANGED <<pc, air, astray>>
  BY DEF CloseEvent
<1>2. ASSUME Live'
      PROVE  /\ Live /\ pc # "connect" /\ InEvent /\ UpdateTold /\ MapTold /\ InstantAhead
             /\ WithMap = conn /\ ~Receiving
  <2>1. Live /\ pc # "connect" /\ Followed
    BY <1>2, TimerLive DEF TimerMatch
  <2>2. InEvent /\ UpdateTold /\ MapTold /\ InstantAhead
    BY <1>1, <2>1 DEF Followed, Ready, AwaitsWindow, UpdateDue
  <2>3. ~MapDue
    BY <1>1, <1>2, <2>2 DEF Live, MapDue, MapTold, InstantAhead, InEvent
  <2>4. QED
    BY <1>1, <2>1, <2>2, <2>3, WithMapFacts DEF Packets, InEvent
<1>3. CASE Live'
  BY <1>1, <1>2, <1>3, FinishInStep DEF Receiving
<1>4. QED
  BY <1>3 DEF InStep

-----------------------------------------------------------------------------
(* The record and the air: the main loop.                                  *)

LEMMA FieldsInStep == ASSUME PoolInv, Packets, InStep, ConnectFields PROVE InStep'
<1>1. /\ pc = "handle" /\ pc' = "connect" /\ pkt[work].kind = "connect"
      /\ conn' = [conn EXCEPT !.aa = pkt[work].conn, !.ivl = 0]
      /\ astray' = Following
      /\ UNCHANGED <<timer, chan, air>>
  BY DEF ConnectFields, radio
<1>2. SUFFICES ASSUME Live' PROVE Fresh'
  BY <1>1 DEF InStep
<1>3. conn = ResetConn /\ timer = "off" /\ chan = AdvChannel
  BY <1>1, <1>2 DEF Live, Following
<1>4. /\ conn'.aa = pkt[work].conn /\ conn'.idx = 0 /\ conn'.ivl = 0 /\ conn'.counter = 0
      /\ ~conn'.update.pending /\ ~conn'.mapPending
  BY <1>1, <1>3 DEF ResetConn, NoUpdate
<1>5. work \in Unhandled
  BY <1>1 DEF Unhandled
<1>6. air = NewAir(air.id)
  BY <1>1, <1>2, <1>4, <1>5 DEF Live, Packets, NewIsUntouched, UntouchedAir
<1>7. QED
  BY <1>1, <1>3, <1>4, <1>6, NewAirFacts DEF Fresh, AdvChannel, Channel

LEMMA ValidInStep == ASSUME PoolInv, Packets, InStep, ConnectValid PROVE InStep'
<1>1. /\ pc = "connect" /\ pc' = "idle" /\ conn' = [conn EXCEPT !.map = 0] /\ event' = NewEvent
      /\ timer' = "open" \/ lost' = TRUE
      /\ UNCHANGED <<chan, rx, air, astray, torn>> /\ (lost => lost')
  BY DEF ConnectValid, Release
<1>2. SUFFICES ASSUME Live' PROVE Followed'
  BY <1>1 DEF InStep
<1>3. /\ conn'.aa = conn.aa /\ conn'.map = 0 /\ conn'.idx = conn.idx /\ conn'.ivl = conn.ivl
      /\ conn'.counter = conn.counter /\ conn'.update = conn.update
      /\ conn'.mapPending = conn.mapPending
  BY <1>1 DEF Packets, Shapes, ConnFields
<1>4. Live
  BY <1>1, <1>2, <1>3 DEF Live
<1>5. Fresh
  BY <1>1, <1>4 DEF InStep
<1>6. (CTR - 1 + 1) % CTR = 0
  BY PhyFacts
<1>7. ~event'.opened /\ ~Receiving'
  BY <1>1, <1>5, EventFacts DEF Receiving, Fresh, AdvChannel, Channel
<1>8. Ready'
  BY <1>1, <1>3, <1>5, <1>6, <1>7 DEF Ready, Fresh, AdvChannel, Channel
<1>9. UpdateTold' /\ MapTold' /\ InstantAhead'
  BY <1>1, <1>3, <1>5 DEF UpdateTold, MapTold, InstantAhead, Fresh
<1>10. QED
  BY <1>8, <1>9 DEF Followed

\* The main loop disturbs neither the event nor the place in the hops.
LEMMA PlaceKept ==
  ASSUME UNCHANGED <<event, chan, rx, timer>>,
         conn'.counter = conn.counter, conn'.idx = conn.idx, conn'.map = conn.map,
         conn'.ivl = conn.ivl,
         air'.counter = air.counter, air'.idx = air.idx, air'.map = air.map, air'.ivl = air.ivl
  PROVE  (Ready => Ready') /\ (InEvent => InEvent')
<1>1. Receiving' = Receiving
  BY DEF Receiving, AdvChannel, Channel
<1>2. QED
  BY <1>1 DEF Ready, InEvent, AdvChannel, Channel

LEMMA UpdateInStep == ASSUME PoolInv, Packets, InStep, ConnectionUpdate PROVE InStep'
<1>1. /\ pc = "handle" /\ pc' = "idle" /\ pkt[work].kind = "upd"
      /\ Handled(pkt[work]) /\ astray' = (astray \/ Misplaced(pkt[work]))
      /\ UNCHANGED <<event, chan, rx, timer, torn, lost>>
  BY DEF ConnectionUpdate, Release, radio
<1>2. PICK off \in BOOLEAN :
        conn' = [conn EXCEPT !.update = [pending |-> TRUE, at |-> pkt[work].at,
                                         ivl |-> 1 - air.ivl, offset |-> off]]
  BY DEF ConnectionUpdate
<1>3. /\ conn'.aa = conn.aa /\ conn'.map = conn.map /\ conn'.idx = conn.idx
      /\ conn'.ivl = conn.ivl /\ conn'.counter = conn.counter
      /\ conn'.mapPending = conn.mapPending
      /\ conn'.update.pending /\ conn'.update.at = pkt[work].at
      /\ conn'.update.ivl = 1 - air.ivl
  BY <1>2 DEF Packets, Shapes, ConnFields
<1>4. /\ air'.id = air.id /\ air'.idx = air.idx /\ air'.counter = air.counter
      /\ air'.map = air.map /\ air'.ivl = air.ivl
      /\ air'.proc.kind = air.proc.kind /\ air'.proc.at = air.proc.at
      /\ pkt[work].conn = air.id /\ air.proc.kind = pkt[work].kind => air'.proc.handled
  BY <1>1, HandledFacts DEF Packets
<1>5. SUFFICES ASSUME Live' PROVE Followed'
  BY <1>1 DEF InStep
<1>6. Live /\ ~Misplaced(pkt[work])
  BY <1>1, <1>3, <1>4, <1>5 DEF Live
<1>7. ToBeTold(pkt[work]) /\ pkt[work].conn = air.id
  BY <1>1, <1>6, HandledPacket DEF Misplaced, Live
<1>8. air.proc.kind = "upd" /\ air.proc.at = pkt[work].at /\ air'.proc.handled
  BY <1>1, <1>4, <1>7 DEF ToBeTold
<1>9. Followed
  BY <1>1, <1>6 DEF InStep
<1>10. UpdateTold'
  BY <1>3, <1>4, <1>8 DEF UpdateTold
<1>11. MapTold' /\ InstantAhead'
  BY <1>1, <1>3, <1>4, <1>8, <1>9 DEF MapTold, InstantAhead, Followed
<1>12. Ready' \/ InEvent'
  BY <1>1, <1>3, <1>4, <1>8, <1>9, PlaceKept DEF Followed, AwaitsWindow
<1>13. QED
  BY <1>10, <1>11, <1>12 DEF Followed

LEMMA PendingInStep == ASSUME PoolInv, Packets, InStep, MapUpdatePending PROVE InStep'
<1>1. /\ pc = "handle" /\ pc' = "map" /\ conn' = [conn EXCEPT !.mapPending = TRUE]
      /\ UNCHANGED <<event, chan, rx, timer, air, astray, torn, lost>>
  BY DEF MapUpdatePending, buffers, radio, history
<1>2. /\ conn'.aa = conn.aa /\ conn'.map = conn.map /\ conn'.idx = conn.idx
      /\ conn'.ivl = conn.ivl /\ conn'.counter = conn.counter
      /\ conn'.update = conn.update /\ conn'.mapPending
      /\ conn'.mapInstant = conn.mapInstant /\ conn'.newMap = conn.newMap
  BY <1>1 DEF Packets, Shapes, ConnFields
<1>3. SUFFICES ASSUME Live' PROVE Followed'
  BY <1>1 DEF InStep
<1>4. Followed
  BY <1>1, <1>2, <1>3 DEF InStep, Live
<1>5. UpdateTold' = UpdateTold /\ MapTold' /\ InstantAhead'
  BY <1>1, <1>2, <1>4 DEF UpdateTold, MapTold, InstantAhead, Followed
<1>6. (Ready => Ready') /\ (InEvent => InEvent')
  BY <1>1, <1>2, PlaceKept
<1>7. Receiving' = Receiving
  BY <1>1 DEF Receiving, AdvChannel, Channel
<1>8. AwaitsWindow => AwaitsWindow'
  BY <1>1, <1>2, <1>7 DEF AwaitsWindow
<1>9. QED
  BY <1>4, <1>5, <1>6, <1>8 DEF Followed

LEMMA MapInStep == ASSUME PoolInv, Packets, InStep, MapUpdateFields PROVE InStep'
<1>1. /\ pc = "map" /\ pc' = "idle" /\ pkt[work].kind = "map"
      /\ conn' = [conn EXCEPT !.mapInstant = pkt[work].at, !.newMap = 1 - air.map]
      /\ Handled(pkt[work]) /\ astray' = (astray \/ Misplaced(pkt[work]))
      /\ UNCHANGED <<event, chan, rx, timer, torn, lost>>
  BY DEF MapUpdateFields, Release, radio, Packets, Numbered
<1>2. /\ conn'.aa = conn.aa /\ conn'.map = conn.map /\ conn'.idx = conn.idx
      /\ conn'.ivl = conn.ivl /\ conn'.counter = conn.counter
      /\ conn'.update = conn.update /\ conn'.mapPending = conn.mapPending
      /\ conn'.mapInstant = pkt[work].at /\ conn'.newMap = 1 - air.map
  BY <1>1 DEF Packets, Shapes, ConnFields
<1>3. /\ air'.id = air.id /\ air'.idx = air.idx /\ air'.counter = air.counter
      /\ air'.map = air.map /\ air'.ivl = air.ivl
      /\ air'.proc.kind = air.proc.kind /\ air'.proc.at = air.proc.at
      /\ pkt[work].conn = air.id /\ air.proc.kind = pkt[work].kind => air'.proc.handled
  BY <1>1, HandledFacts DEF Packets
<1>4. SUFFICES ASSUME Live' PROVE Followed'
  BY <1>1 DEF InStep
<1>5. Live /\ ~Misplaced(pkt[work])
  BY <1>1, <1>2, <1>3, <1>4 DEF Live
<1>6. ToBeTold(pkt[work]) /\ pkt[work].conn = air.id
  BY <1>1, <1>5, HandledPacket DEF Misplaced, Live
<1>7. air.proc.kind = "map" /\ air.proc.at = pkt[work].at /\ air'.proc.handled
  BY <1>1, <1>3, <1>6 DEF ToBeTold
<1>8. Followed
  BY <1>1, <1>5 DEF InStep
<1>9. ~AwaitsWindow /\ UpdateTold'
  BY <1>2, <1>3, <1>7, <1>8 DEF UpdateTold, AwaitsWindow, Followed
<1>10. MapTold' /\ InstantAhead'
  BY <1>1, <1>2, <1>3, <1>7, <1>8 DEF MapTold, InstantAhead, Followed
<1>11. Ready' \/ InEvent'
  BY <1>1, <1>2, <1>3, <1>8, <1>9, PlaceKept DEF Followed
<1>12. QED
  BY <1>9, <1>10, <1>11 DEF Followed

LEMMA HandleInStep == ASSUME PoolInv, Packets, InStep, Handle PROVE InStep'
<1>1. CASE Skip
  <2>1. /\ pc = "handle" /\ pc' = "idle"
        /\ UNCHANGED <<conn, event, chan, rx, timer, air, astray, torn, lost>>
    BY <1>1 DEF Skip, Release, radio, history
  <2>2. Receiving' = Receiving
    BY <2>1 DEF Receiving, AdvChannel, Channel
  <2>3. QED
    BY <2>1, <2>2, StillInStep
<1>2. CASE ConnectInvalid
  <2>1. ~Live'
    BY <1>2, ResetFacts DEF ConnectInvalid, Live, ADV
  <2>2. QED
    BY <2>1 DEF InStep
<1>3. QED
  BY <1>1, <1>2, FieldsInStep, ValidInStep, UpdateInStep, PendingInStep, MapInStep DEF Handle

LEMMA StepInStep == PoolInv /\ Packets /\ InStep /\ [Next]_vars => InStep'
<1> SUFFICES ASSUME PoolInv, Packets, InStep, [Next]_vars PROVE InStep'
  OBVIOUS
<1>1. CASE FirstByte
  BY <1>1, FirstByteInStep
<1>2. CASE EndPacket
  <2>1. CASE EndAdvertising
    <3>1. /\ chan = AdvChannel /\ UNCHANGED <<conn, event, chan, timer, pc, air, astray, torn, lost>>
      BY <2>1 DEF EndAdvertising, history
    <3>2. ~Receiving'
      BY <3>1 DEF Receiving, AdvChannel, Channel
    <3>3. QED
      BY <3>1, <3>2, StillInStep
  <2>2. QED
    BY <1>2, <2>1, EndFirstInStep, EndSecondInStep DEF EndPacket
<1>3. CASE TimerMatch
  BY <1>3, OffsetInStep, WindowInStep, OpenInStep, CloseInStep DEF TimerMatch
<1>4. CASE Unheard
  <2>1. ~Live'
    BY <1>4 DEF Unheard, Live
  <2>2. QED
    BY <2>1 DEF InStep
<1>5. CASE Handle
  BY <1>5, HandleInStep
<1>6. CASE NullByte \/ Take \/ CancelFollow \/ UNCHANGED vars
  <2>1. /\ UNCHANGED <<conn, event, chan, rx, timer, air, astray, torn, lost>>
        /\ pc' = pc \/ {pc, pc'} = {"idle", "handle"}
    BY <1>6, StillStep
  <2>2. Receiving' = Receiving
    BY <2>1 DEF Receiving, AdvChannel, Channel
  <2>3. (pc' = "connect") = (pc = "connect") /\ (pc' = "map") = (pc = "map")
    BY <2>1
  <2>4. QED
    BY <2>1, <2>2, <2>3, StillInStep
<1>7. QED
  BY <1>1, <1>2, <1>3, <1>4, <1>5, <1>6 DEF Next, MainLoop

-----------------------------------------------------------------------------
LEMMA InitHops == Init => HopInv
<1> SUFFICES ASSUME Init PROVE HopInv
  OBVIOUS
<1>1. /\ conn = ResetConn /\ air = NewAir(0) /\ event = NewEvent /\ chan = AdvChannel
      /\ pkt = [b \in Bufs |-> NoPacket] /\ queue = <<>> /\ rx = "idle" /\ pc = "idle"
  BY DEF Init
<1>2. Unhandled = {}
  BY <1>1 DEF Unhandled, ToSet
<1>3. NewIsUntouched /\ ProcedureUnderWay
  BY <1>2 DEF NewIsUntouched, ProcedureUnderWay
<1>4. /\ ConnFields \subseteq DOMAIN conn /\ conn.aa = 0 /\ conn.idx = 0 /\ conn.counter = 0
      /\ AirFields \subseteq DOMAIN air /\ {"kind", "at", "handled"} \subseteq DOMAIN air.proc
      /\ air.id = 0 /\ air.idx = 0 /\ air.counter = CTR - 1
      /\ {"num", "opened"} \subseteq DOMAIN event
  BY <1>1, ResetFacts, NewAirFacts, EventFacts DEF ADV
<1>5. 0 \in Counters /\ CTR - 1 \in Counters /\ 0 \in 0 .. NCH - 1
  BY PhyFacts DEF Counters
<1>6. Shapes
  BY <1>1, <1>4, <1>5 DEF Shapes
<1>7. NoPacket.kind = "none" /\ NoPacket.conn = 0
  BY DEF NoPacket, ADV
<1>8. Numbered
  BY <1>1, <1>4, <1>7 DEF Numbered, ADV
<1>9. InStep
  BY <1>4 DEF InStep, Live, ADV
<1>10. QED
  BY <1>3, <1>6, <1>8, <1>9, InitPool DEF HopInv

LEMMA StepHops == HopInv /\ [Next]_vars => HopInv'
  BY StepPool, StepPackets, StepInStep DEF HopInv, Packets

(* The follower hops with the connection it follows, for any number of     *)
(* buffers, connections and channels, any hop, and any lead of an instant  *)
(* over its announcement: as long as every update is handled before its    *)
(* instant, no match is set in the past and the timer does not fire        *)
(* between two stores of a channel map update, every event is opened on    *)
(* its channel, with its map, its interval and its number.                 *)
THEOREM HopsWithConnection == Spec => []HopsInStep
<1>1. Spec => []HopInv
  BY InitHops, StepHops, PTL DEF Spec
<1>2. ASSUME HopInv PROVE HopsInStep
  <2>1. SUFFICES ASSUME event.opened, chan # AdvChannel, timer # "open", conn.aa = air.id,
                        ~astray, ~torn, ~lost
                 PROVE  /\ chan = Channel(air.idx, air.map)
                        /\ conn.ivl = air.ivl /\ conn.counter = air.counter
    BY DEF HopsInStep
  <2>2. Live
    BY <1>2, <2>1 DEF Live, HopInv, Numbered
  <2>3. Followed
    BY <1>2, <2>1, <2>2, OnDataChannel DEF HopInv
  <2>4. QED
    BY <2>1, <2>3 DEF Followed, Ready, AwaitsWindow, InEvent
<1>3. QED
  BY <1>1, <1>2, PTL

=============================================================================
