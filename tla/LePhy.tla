-------------------------------- MODULE LePhy --------------------------------
(***************************************************************************)
(* Following a BLE connection with the modified Ubertooth firmware         *)
(* (Modified_Ubertooth/bluetooth_rxtx/le_phy.c): a pool of packet buffers  *)
(* shared by the DMA interrupt and the main loop, and one connection       *)
(* record written by both and by the timer interrupt.                      *)
(*                                                                         *)
(* The two interrupts have the same priority, so neither preempts the      *)
(* other; both preempt the main loop, whose handlers are split where an    *)
(* interrupt can see them half done.                                       *)
(*                                                                         *)
(* Time is counted in connection events.  The hop timer is set for the     *)
(* event after the anchor, so the connection on the air (the variable air) *)
(* moves to its next event when the timer opens one.  A match value that   *)
(* lies in the past when it is set never fires; that the 32-bit timer      *)
(* comes round to it 429 s later is left out.  So are the mode switch that *)
(* ends the main loop, the filter by address, and the frequency offsets.   *)
(***************************************************************************)
EXTENDS Integers, Sequences, SequencesExt

CONSTANTS
  NBUF,    \* LE_BUFFER_POOL_SIZE
  CTR,     \* modulus of conn_event_counter: 65536
  NCH,     \* data channels: 37
  HOP,     \* hop_increment
  SUP,     \* supervision_timeout, in connection events
  LEAD,    \* events from a control packet to its instant
  MaxConn  \* bound: connections made on the air

\* The hop and the lead are the transmitters' choice: a central hops by 5 to
\* 16 of 37 channels and announces an instant at least one event ahead.
ASSUME PhyAssumption ==
  /\ NBUF \in Nat \ {0} /\ CTR \in Nat \ {0} /\ NCH \in Nat \ {0}
  /\ HOP \in 1 .. NCH - 1 /\ LEAD \in 1 .. CTR - 1
  /\ SUP \in Nat /\ MaxConn \in Nat

Bufs == 1 .. NBUF
NULL == 0
ADV == 0       \* ADVERTISING_AA
NoMap == 2     \* a remapping without channels

\* rf_channel: the advertising channel, or what le_map_channel makes of an
\* index with a map.
Channel(i, m) == [idx |-> i, map |-> m]
AdvChannel == Channel(NCH, NoMap)

VARIABLES
  avail,    \* buffers whose available flag is set
  current,  \* current_rxbuf
  queue,    \* packet_queue
  work,     \* the packet the main loop holds
  pkt,      \* contents of the buffers
  conn,     \* conn
  event,    \* conn_event: num_packets, opened
  chan,     \* rf_channel
  rx,       \* radio off, waiting for a sync word, or inside a packet
  timer,    \* match 0 of timer 1: off, set for the next event, or a timeout
  cancel,   \* cancel_follow
  pc,       \* where the main loop is
  air,      \* the connection on the air, and its next procedure
  astray,   \* history: the follower was not told, or told too late
  torn,     \* history: half a channel map update was applied
  lost,     \* history: the match was set in the past
  crashed   \* current_rxbuf was dereferenced while NULL

buffers == <<avail, current, queue, work, pkt>>
radio == <<chan, rx, timer>>
history == <<astray, torn, lost>>
vars == <<buffers, conn, event, radio, cancel, pc, air, history, crashed>>

NoPacket == [kind |-> "none", conn |-> ADV, at |-> 0]
NoProcedure == [kind |-> "none", at |-> 0, handled |-> FALSE]

\* A pending connection update: whether there is one, its instant, the new
\* interval, and whether it has a window offset.  The fields are stored
\* before the flag, so without it they mean nothing.
NoUpdate == [pending |-> FALSE, at |-> 0, ivl |-> 0, offset |-> FALSE]

\* memset, and the access address
ResetConn ==
  [aa |-> ADV, idx |-> 0, map |-> NoMap, ivl |-> 0, anchorSet |-> FALSE,
   quiet |-> 0, counter |-> 0, update |-> NoUpdate,
   mapPending |-> FALSE, mapInstant |-> 0, newMap |-> NoMap]

NewEvent == [num |-> 0, opened |-> FALSE]

\* A connection before its first event, with its first map and interval.
NewAir(n) ==
  [id |-> n, counter |-> CTR - 1, idx |-> 0, map |-> 0, ivl |-> 0,
   passed |-> 2, proc |-> NoProcedure]

Init ==
  /\ avail = Bufs \ {1} /\ current = 1 /\ queue = <<>> /\ work = NULL
  /\ pkt = [b \in Bufs |-> NoPacket]
  /\ conn = ResetConn /\ event = NewEvent
  /\ chan = AdvChannel /\ rx = "idle" /\ timer = "off"
  /\ cancel = FALSE /\ pc = "idle"
  /\ air = NewAir(0)
  /\ astray = FALSE /\ torn = FALSE /\ lost = FALSE /\ crashed = FALSE

-----------------------------------------------------------------------------
(* Parts of the interrupt handlers.                                        *)

\* buffer_get
Get == IF avail = {} THEN NULL ELSE CHOOSE b \in avail : \A c \in avail : b <= c

\* change_channel for the connection record c, with b the current buffer,
\* which it clears.
ChangeChannel(c, b) ==
  /\ conn' = IF c.aa = ADV THEN c ELSE [c EXCEPT !.idx = (@ + HOP) % NCH]
  /\ chan' = IF c.aa = ADV THEN AdvChannel ELSE Channel((c.idx + HOP) % NCH, c.map)
  /\ rx' = "idle"
  /\ crashed' = (b = NULL)

\* Faulty variant: the time of the last packet is always renewed.
ObservedAlwaysFresh(c, n) ==
  [c EXCEPT !.anchorSet = @ \/ n = 2, !.quiet = 0, !.counter = (@ + 1) % CTR]

\* The anchor and the time of the last packet.  Without an anchor a lone
\* packet stands in for it, and without any packet an old one does.
Observed(c, n) ==
  [c EXCEPT !.anchorSet = @ \/ n = 2,
            !.quiet = IF n > 0 \/ ~c.anchorSet THEN 0 ELSE @ + 1,
            !.counter = (@ + 1) % CTR]

\* finish_conn_event: n packets were received, the radio is in state r.
FinishConnEvent(c, n, b, r) ==
  LET after == Observed(c, n)
      over == after.quiet > SUP
      stale == n = 0 /\ ~c.anchorSet
  IN /\ event' = NewEvent
     /\ IF over \/ cancel
          THEN /\ ChangeChannel(ResetConn, b)
               /\ timer' = "off"
               /\ cancel' = (cancel /\ over)
               /\ UNCHANGED lost
          ELSE /\ conn' = after
               /\ rx' = r
               /\ timer' = IF stale THEN "off" ELSE "open"
               /\ lost' = (lost \/ stale)
               /\ UNCHANGED <<cancel, chan, crashed>>

-----------------------------------------------------------------------------
(* The air: connections, and what can be heard of them.                    *)

\* The connection moves to its next event; a procedure takes effect at its
\* instant whether or not the follower has been told.
Advance(a) ==
  LET n == (a.counter + 1) % CTR
      due == a.proc.kind # "none" /\ a.proc.at = n
  IN [a EXCEPT !.counter = n, !.idx = (@ + HOP) % NCH, !.passed = 0,
               !.map = IF due /\ a.proc.kind = "map" THEN 1 - @ ELSE @,
               !.ivl = IF due /\ a.proc.kind = "upd" THEN 1 - @ ELSE @,
               !.proc = IF due THEN NoProcedure ELSE @]

Untold == air.proc.kind # "none" /\ ~air.proc.handled
            /\ air.proc.at = (air.counter + 1) % CTR

\* The timer opens an event: of the connection on the air, if it is that one.
\* A follower that went astray hears nothing more of it.
NextOnAir ==
  IF conn.aa = air.id /\ conn.aa # ADV /\ ~astray
    THEN air' = Advance(air) /\ astray' = (astray \/ Untold)
    ELSE UNCHANGED <<air, astray>>

Tuned ==
  /\ conn.aa = air.id /\ conn.aa # ADV
  /\ chan = Channel(air.idx, air.map) /\ ~astray

\* On an advertising channel: an advertisement, or a new connection.
HearAdvertising ==
  /\ chan = AdvChannel
  /\ \/ /\ pkt' = [pkt EXCEPT ![current] = [NoPacket EXCEPT !.kind = "other"]]
        /\ UNCHANGED air
     \/ /\ air.id < MaxConn
        /\ air' = NewAir(air.id + 1)
        /\ pkt' = [pkt EXCEPT ![current] =
                     [kind |-> "connect", conn |-> air.id + 1, at |-> 0]]

\* On a data channel: the central's packet, which may start a procedure if
\* none is under way, or the peripheral's.
HearData ==
  /\ event.opened /\ Tuned
  /\ \/ /\ air.passed < 2
        /\ air' = [air EXCEPT !.passed = @ + 1]
        /\ pkt' = [pkt EXCEPT ![current] = [NoPacket EXCEPT !.kind = "other"]]
     \/ /\ air.passed = 0 /\ air.proc.kind = "none"
        /\ \E k \in {"upd", "map"} :
             LET at == (air.counter + LEAD) % CTR IN
               /\ air' = [air EXCEPT !.passed = 1,
                            !.proc = [kind |-> k, at |-> at, handled |-> FALSE]]
               /\ pkt' = [pkt EXCEPT ![current] =
                            [kind |-> k, conn |-> air.id, at |-> at]]

Unheard ==  \* a packet that starts a procedure is lost
  /\ ~crashed /\ air.id # ADV /\ air.passed = 0 /\ air.proc.kind = "none"
  /\ astray' = TRUE
  /\ air' = [air EXCEPT !.passed = 1]
  /\ UNCHANGED <<buffers, conn, event, radio, cancel, pc, torn, lost, crashed>>

-----------------------------------------------------------------------------
(* le_DMA_IRQHandler                                                       *)

FirstByte ==  \* on a data channel it cancels the timeout
  /\ ~crashed /\ rx = "idle" /\ current # NULL
  /\ HearAdvertising \/ HearData
  /\ rx' = "packet"
  /\ timer' = IF chan # AdvChannel THEN "off" ELSE timer
  /\ UNCHANGED <<avail, current, queue, work, conn, event, chan, cancel, pc,
                 history, crashed>>

NullByte ==  \* a byte arrives with every buffer queued or in work
  /\ ~crashed /\ rx = "idle" /\ current = NULL
  /\ crashed' = TRUE
  /\ UNCHANGED <<buffers, conn, event, radio, cancel, pc, air, history>>

\* Faulty variant: the buffer taken is not marked as used.
EnqueueLeavesAvailable ==
  /\ queue' = Append(queue, current)
  /\ current' = Get
  /\ UNCHANGED <<avail, work, pkt>>

Enqueue ==
  /\ queue' = Append(queue, current)
  /\ current' = Get
  /\ avail' = avail \ {Get}
  /\ UNCHANGED <<work, pkt>>

EndAdvertising ==
  /\ ~crashed /\ rx = "packet" /\ chan = AdvChannel
  /\ Enqueue
  /\ rx' = "idle"
  /\ UNCHANGED <<conn, event, chan, timer, cancel, pc, air, history, crashed>>

\* Faulty variant: no timeout is set for the second packet.
EndFirstNoTimeout ==
  /\ ~crashed /\ rx = "packet" /\ chan # AdvChannel /\ event.num = 0
  /\ Enqueue
  /\ event' = [event EXCEPT !.num = 1]
  /\ rx' = "idle"
  /\ UNCHANGED <<conn, chan, timer, cancel, pc, air, history, crashed>>

EndFirst ==  \* a timeout is set for the second packet
  /\ ~crashed /\ rx = "packet" /\ chan # AdvChannel /\ event.num = 0
  /\ Enqueue
  /\ event' = [event EXCEPT !.num = 1]
  /\ rx' = "idle" /\ timer' = "timeout"
  /\ UNCHANGED <<conn, chan, cancel, pc, air, history, crashed>>

\* The second packet closes the event, with the radio off.
EndSecond ==
  /\ ~crashed /\ rx = "packet" /\ chan # AdvChannel /\ event.num = 1
  /\ Enqueue
  /\ FinishConnEvent(conn, 2, Get, "off")
  /\ UNCHANGED <<pc, air, astray, torn>>

-----------------------------------------------------------------------------
(* TIMER1_IRQHandler, match 0.                                             *)

UpdateDue == conn.update.pending /\ conn.counter = conn.update.at
MapDue == conn.mapPending /\ conn.counter = conn.mapInstant

\* Connection update, first pass: wait for the transmit window offset.
UpdateOffset ==
  /\ ~crashed /\ timer \in {"open", "timeout"}
  /\ UpdateDue /\ ~event.opened /\ conn.update.offset
  /\ event' = [event EXCEPT !.opened = TRUE]
  /\ timer' = "open"
  /\ NextOnAir
  /\ UNCHANGED <<buffers, conn, chan, rx, cancel, pc, torn, lost, crashed>>

\* Connection update, second pass: the new interval, and no anchor yet.
UpdateWindow ==
  /\ ~crashed /\ timer \in {"open", "timeout"}
  /\ UpdateDue /\ (event.opened \/ ~conn.update.offset)
  /\ event' = [event EXCEPT !.opened = TRUE]
  /\ ChangeChannel([conn EXCEPT !.anchorSet = FALSE, !.ivl = conn.update.ivl,
                                !.update = NoUpdate], current)
  /\ timer' = "timeout"
  /\ IF event.opened THEN UNCHANGED <<air, astray>> ELSE NextOnAir
  /\ UNCHANGED <<buffers, cancel, pc, torn, lost>>

\* The channel map update at its instant.
WithMap ==
  IF MapDue THEN [conn EXCEPT !.map = conn.newMap, !.mapPending = FALSE] ELSE conn

\* Faulty variant: the channel is changed before the map.
OpenEventOldMap ==
  /\ ~crashed /\ timer \in {"open", "timeout"}
  /\ ~UpdateDue /\ ~event.opened
  /\ event' = [event EXCEPT !.opened = TRUE]
  /\ torn' = (torn \/ (MapDue /\ pc = "map"))
  /\ timer' = "timeout"
  /\ ChangeChannel(conn, current)
  /\ NextOnAir
  /\ UNCHANGED <<buffers, cancel, pc, lost>>

OpenEvent ==
  /\ ~crashed /\ timer \in {"open", "timeout"}
  /\ ~UpdateDue /\ ~event.opened
  /\ event' = [event EXCEPT !.opened = TRUE]
  /\ torn' = (torn \/ (MapDue /\ pc = "map"))
  /\ timer' = "timeout"
  /\ ChangeChannel(WithMap, current)
  /\ NextOnAir
  /\ UNCHANGED <<buffers, cancel, pc, lost>>

CloseEvent ==
  /\ ~crashed /\ timer \in {"open", "timeout"}
  /\ ~UpdateDue /\ event.opened
  /\ torn' = (torn \/ (MapDue /\ pc = "map"))
  /\ FinishConnEvent(WithMap, event.num, current, rx)
  /\ UNCHANGED <<buffers, pc, air, astray>>

-----------------------------------------------------------------------------
(* The main loop.                                                          *)

Take ==  \* queue_remove
  /\ ~crashed /\ pc = "idle" /\ queue # <<>>
  /\ work' = Head(queue) /\ queue' = Tail(queue)
  /\ pc' = "handle"
  /\ UNCHANGED <<avail, current, pkt, conn, event, radio, cancel, air, history, crashed>>

Release ==  \* buffer_release
  /\ avail' = avail \cup {work}
  /\ work' = NULL
  /\ pkt' = [pkt EXCEPT ![work] = NoPacket]
  /\ pc' = "idle"
  /\ UNCHANGED <<current, queue>>

Skip ==  \* nothing to follow in it, or follow mode is off
  /\ ~crashed /\ pc = "handle" /\ pkt[work].kind \in {"other", "connect"}
  /\ Release
  /\ UNCHANGED <<conn, event, radio, cancel, air, history, crashed>>

\* Not yet back to advertising, or no longer: an invalid connection request
\* resets the record and leaves the timer of the connection before it.
Following == conn # ResetConn \/ timer # "off" \/ chan # AdvChannel

\* le_connect_handler up to the validation.  Counters, anchor and pending
\* updates are left as they are.
ConnectFields ==
  /\ ~crashed /\ pc = "handle" /\ pkt[work].kind = "connect"
  /\ conn' = [conn EXCEPT !.aa = pkt[work].conn, !.ivl = 0]
  /\ cancel' = FALSE
  /\ astray' = Following /\ torn' = FALSE /\ lost' = FALSE
  /\ pc' = "connect"
  /\ UNCHANGED <<buffers, event, radio, air, crashed>>

ConnectInvalid ==
  /\ ~crashed /\ pc = "connect"
  /\ conn' = ResetConn
  /\ Release
  /\ UNCHANGED <<event, radio, cancel, air, history, crashed>>

\* The match for the first event is in the past if the main loop was late.
ConnectValid ==
  /\ ~crashed /\ pc = "connect"
  /\ conn' = [conn EXCEPT !.map = 0]
  /\ event' = NewEvent
  /\ \/ timer' = "open" /\ UNCHANGED lost
     \/ timer' = "off" /\ lost' = TRUE
  /\ Release
  /\ UNCHANGED <<chan, rx, cancel, air, astray, torn, crashed>>

\* The procedure on the air has been read in full.
Handled(p) ==
  IF p.conn = air.id /\ air.proc.kind = p.kind
    THEN air' = [air EXCEPT !.proc.handled = TRUE] ELSE UNCHANGED air

Misplaced(p) == p.conn # conn.aa \/ air.proc.kind # p.kind

ConnectionUpdate ==  \* connection_update_handler
  /\ ~crashed /\ pc = "handle" /\ pkt[work].kind = "upd"
  /\ \E off \in BOOLEAN :
       conn' = [conn EXCEPT !.update = [pending |-> TRUE, at |-> pkt[work].at,
                                        ivl |-> 1 - air.ivl, offset |-> off]]
  /\ Handled(pkt[work])
  /\ astray' = (astray \/ Misplaced(pkt[work]))
  /\ Release
  /\ UNCHANGED <<event, radio, cancel, torn, lost, crashed>>

MapUpdatePending ==  \* channel_map_update_handler, its first store
  /\ ~crashed /\ pc = "handle" /\ pkt[work].kind = "map"
  /\ conn' = [conn EXCEPT !.mapPending = TRUE]
  /\ pc' = "map"
  /\ UNCHANGED <<buffers, event, radio, cancel, air, history, crashed>>

MapUpdateFields ==  \* and the rest of it
  /\ ~crashed /\ pc = "map"
  /\ conn' = [conn EXCEPT !.mapInstant = pkt[work].at, !.newMap = 1 - air.map]
  /\ Handled(pkt[work])
  /\ astray' = (astray \/ Misplaced(pkt[work]))
  /\ Release
  /\ UNCHANGED <<event, radio, cancel, torn, lost, crashed>>

CancelFollow ==  \* handle_usb
  /\ ~crashed /\ pc = "idle"
  /\ cancel' = TRUE
  /\ UNCHANGED <<buffers, conn, event, radio, pc, air, history, crashed>>

-----------------------------------------------------------------------------
EndPacket == EndAdvertising \/ EndFirst \/ EndSecond
TimerMatch == UpdateOffset \/ UpdateWindow \/ OpenEvent \/ CloseEvent
Handle ==
  \/ Skip \/ ConnectFields \/ ConnectInvalid \/ ConnectValid
  \/ ConnectionUpdate \/ MapUpdatePending \/ MapUpdateFields
MainLoop == Take \/ Handle

Next ==
  \/ FirstByte \/ NullByte \/ EndPacket \/ Unheard
  \/ TimerMatch \/ MainLoop \/ CancelFollow

\* Packets end, timers fire and the main loop goes on; nothing makes anyone
\* transmit.
Fairness == WF_vars(EndPacket) /\ WF_vars(TimerMatch) /\ WF_vars(MainLoop)

Spec == Init /\ [][Next]_vars /\ Fairness

-----------------------------------------------------------------------------
(* Properties.                                                             *)

Kinds == {"none", "other", "connect", "upd", "map"}
Counters == 0 .. CTR - 1
Maps == 0 .. NoMap

(* Every variable has its type; no event collects more than two packets.   *)
TypeOK ==
  /\ avail \subseteq Bufs /\ current \in Bufs \cup {NULL}
  /\ work \in Bufs \cup {NULL} /\ queue \in Seq(Bufs)
  /\ pkt \in [Bufs -> [kind : Kinds, conn : 0 .. MaxConn, at : Counters]]
  /\ conn \in [aa : 0 .. MaxConn, idx : 0 .. NCH - 1, map : Maps, ivl : 0 .. 1,
               anchorSet : BOOLEAN, quiet : 0 .. SUP, counter : Counters,
               update : [pending : BOOLEAN, at : Counters, ivl : 0 .. 1,
                         offset : BOOLEAN],
               mapPending : BOOLEAN, mapInstant : Counters,
               newMap : Maps]
  /\ event \in [num : 0 .. 1, opened : BOOLEAN]
  /\ chan \in [idx : 0 .. NCH, map : Maps] /\ rx \in {"off", "idle", "packet"}
  /\ timer \in {"off", "open", "timeout"}
  /\ cancel \in BOOLEAN /\ pc \in {"idle", "handle", "connect", "map"}
  /\ {astray, torn, lost, crashed} \subseteq BOOLEAN

(* Every buffer is in the pool, in the queue, being filled or being        *)
(* handled, and in one of them only: no packet is overwritten while it     *)
(* waits or is handled, and no buffer is lost.                             *)
BuffersConserved ==
  /\ avail \cup ToSet(queue) \cup ({current, work} \ {NULL}) = Bufs
  /\ avail \cap ToSet(queue) = {}
  /\ {current, work} \cap (avail \cup ToSet(queue)) = {}
  /\ current = work => current = NULL
  /\ IsInjective(queue)

(* The follower hops with the connection: told in time of every update, it *)
(* listens in every event on the channel, with the map and the interval,   *)
(* of that event, whatever packets it missed; unless the timer fired       *)
(* between two stores of a channel map update.                             *)
HopsInStep ==
  (event.opened /\ chan # AdvChannel /\ timer # "open" /\ conn.aa = air.id
     /\ ~astray /\ ~torn /\ ~lost) =>
    /\ chan = Channel(air.idx, air.map)
    /\ conn.ivl = air.ivl /\ conn.counter = air.counter

(* "opened is set to 1 once the radio is tuned to the data channel for the *)
(* connection event" (le_phy.c): with every update handled in time, the    *)
(* channel of an opened event is the one the connection uses.              *)
TunedWhenOpened ==
  (event.opened /\ chan # AdvChannel /\ timer # "open" /\ conn.aa = air.id
     /\ ~astray /\ ~lost) => chan = Channel(air.idx, air.map)

(* A follower never stalls: its timer is armed, or the packet it is        *)
(* receiving will arm it, unless the match was set in the past.            *)
NeverStalls ==
  conn.aa # ADV /\ ~lost /\ ~crashed =>
    timer # "off" \/ pc = "connect" \/ (rx = "packet" /\ chan # AdvChannel)

(* A connection that falls silent is given up: with the supervision        *)
(* timeout the radio returns to advertising.                               *)
SilenceEndsFollow ==
  <>[](rx # "packet") => []<>(conn.aa = ADV \/ lost \/ crashed)

=============================================================================
