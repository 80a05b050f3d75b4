----------------------- MODULE MonitorLifecycle_proofs -----------------------
(***************************************************************************)
(* Proofs about MonitorLifecycle, for any number of sessions and whichever *)
(* interface carries the data.                                             *)
(***************************************************************************)
EXTENDS MonitorLifecycle, TLAPS

FlagsOK ==
  /\ ui \in BOOLEAN /\ svc \in BOOLEAN /\ started \in BOOLEAN
  /\ receiving \in BOOLEAN /\ ref \in {"null", "service", "dead"}

(* Who can still be reached by what is on its way: broadcasts go to        *)
(* receivers that exist, a delayed start was sent by an activity that had  *)
(* started the service, and a started service is never destroyed.          *)
Reachable ==
  /\ \A m \in {"svcAttach", "svcDetach", "svcGranted"} : m \in mail => svc
  /\ \A m \in UiMail : m \in mail => ui
  /\ "delayedStart" \in mail => started
  /\ started => ref # "dead"
  /\ ui => ref # "dead"
  /\ ref = "service" => svc

SessionInService == FlagsOK /\ Reachable /\ NoZombieSession

-----------------------------------------------------------------------------
(* No session outlives its service.                                        *)

LEMMA StartFlag ==
  ASSUME StartSniffing, receiving \in BOOLEAN
  PROVE  receiving' \in BOOLEAN
  BY DEF StartSniffing, NewSession, fields

LEMMA StopFlag ==
  ASSUME StopUsbThreads \/ UNCHANGED fields, receiving \in BOOLEAN
  PROVE  receiving' \in BOOLEAN
  BY DEF StopUsbThreads, fields

LEMMA ReconnectMail ==
  ASSUME NEW m, TryReconnect(m), receiving \in BOOLEAN
  PROVE  receiving' \in BOOLEAN /\ mail' \subseteq mail \cup {"asked"}
  BY StartFlag DEF TryReconnect

(* What a handler that sends nothing but a question may do.                *)
LEMMA QuietStep ==
  ASSUME SessionInService,
         ui' = ui, started' = started, svc' \in BOOLEAN, svc => svc',
         receiving' \in BOOLEAN, receiving' => svc',
         ref' = ref \/ (ref' = "service" /\ svc'),
         mail' \subseteq mail \cup {"asked"}
  PROVE  SessionInService'
<1>1. FlagsOK' /\ NoZombieSession'
  BY DEF SessionInService, FlagsOK, NoZombieSession
<1>2. \A m : m \in mail' /\ m # "asked" => m \in mail
  OBVIOUS
<1>3. Reachable'
  BY <1>2 DEF SessionInService, Reachable, UiMail
<1>4. QED
  BY <1>1, <1>3 DEF SessionInService

LEMMA InitInService == Init => SessionInService
  BY DEF Init, SessionInService, FlagsOK, Reachable, NoZombieSession

LEMMA WorldInService ==
  ASSUME SessionInService,
         \/ Attach \/ Detach \/ OpenUi \/ Button
         \/ \E granted \in BOOLEAN : Answer(granted)
  PROVE  SessionInService'
<1> USE DEF SessionInService, FlagsOK, Reachable, NoZombieSession, UiMail
<1>1. CASE Attach
  BY <1>1 DEF Attach, Broadcast, app, fields
<1>2. CASE Detach
  BY <1>2 DEF Detach, Broadcast, app, fields
<1>3. CASE OpenUi
  BY <1>3 DEF OpenUi, usb, fields
<1>4. CASE Button
  BY <1>4 DEF Button, StopUsbThreads, app, usb
<1>5. CASE \E granted \in BOOLEAN : Answer(granted)
  BY <1>5 DEF Answer, Broadcast, app, fields
<1>6. QED
  BY <1>1, <1>2, <1>3, <1>4, <1>5

LEMMA CloseInService == ASSUME SessionInService, CloseUi PROVE SessionInService'
<1> USE DEF SessionInService, FlagsOK, Reachable, NoZombieSession, UiMail
<1>1. CASE started
  <2>1. /\ ui' = FALSE /\ svc' = svc /\ started' = started /\ receiving' = receiving
        /\ ref' = ref /\ mail' = mail \ UiMail
    BY <1>1 DEF CloseUi, fields
  <2>2. FlagsOK' /\ NoZombieSession'
    BY <2>1, Zenon
  <2>3. Reachable'
    BY <2>1, <1>1
  <2>4. QED
    BY <2>2, <2>3
<1>2. CASE ~started
  <2>1. /\ ui' = FALSE /\ svc' = FALSE /\ started' = FALSE /\ receiving' = FALSE
        /\ ref' = IF ref = "service" THEN "dead" ELSE ref
        /\ mail' = mail \ (UiMail \cup (SvcMail \ {"startCmd"}))
    BY <1>2 DEF CloseUi
  <2>2. FlagsOK' /\ NoZombieSession'
    BY <2>1, Zenon
  <2>3. Reachable'
    BY <2>1, <1>2 DEF SvcMail
  <2>4. QED
    BY <2>2, <2>3
<1>3. QED
  BY <1>1, <1>2

LEMMA HandlerInService == ASSUME SessionInService, Handler PROVE SessionInService'
<1>1. CASE OnCreate
  <2>1. /\ ui' = ui /\ started' = started /\ svc' = TRUE
        /\ ref' = ref \/ ref' = "service"
        /\ \/ mail' \subseteq mail /\ UNCHANGED fields
           \/ TryReconnect("create")
    BY <1>1 DEF OnCreate
  <2>2. receiving' \in BOOLEAN /\ mail' \subseteq mail \cup {"asked"}
    BY <2>1, ReconnectMail, StopFlag DEF SessionInService, FlagsOK
  <2>3. QED
    BY <2>1, <2>2, QuietStep
<1>2. CASE SvcAttached
  <2>1. svc /\ UNCHANGED app /\ TryReconnect("svcAttach")
    BY <1>2 DEF SvcAttached, SessionInService, Reachable
  <2>2. receiving' \in BOOLEAN /\ mail' \subseteq mail \cup {"asked"}
    BY <2>1, ReconnectMail DEF SessionInService, FlagsOK
  <2>3. QED
    BY <2>1, <2>2, QuietStep DEF app, SessionInService, FlagsOK
<1>3. CASE SvcDetached
  <2>1. svc /\ UNCHANGED app /\ mail' \subseteq mail
        /\ (StopUsbThreads \/ UNCHANGED fields)
    BY <1>3 DEF SvcDetached, SessionInService, Reachable
  <2>2. receiving' \in BOOLEAN
    BY <2>1, StopFlag DEF SessionInService, FlagsOK
  <2>3. QED
    BY <2>1, <2>2, QuietStep DEF app, SessionInService, FlagsOK
<1>4. CASE SvcGranted
  <2>1. svc /\ UNCHANGED app /\ mail' \subseteq mail /\ StartSniffing
    BY <1>4 DEF SvcGranted, SessionInService, Reachable
  <2>2. receiving' \in BOOLEAN
    BY <2>1, StartFlag DEF SessionInService, FlagsOK
  <2>3. QED
    BY <2>1, <2>2, QuietStep DEF app, SessionInService, FlagsOK
<1>5. CASE OnStartCommand
  <2>1. /\ ui' = ui /\ started' = started /\ svc' = TRUE
        /\ ref' = ref \/ ref' = "service"
        /\ \/ mail' \subseteq mail /\ UNCHANGED fields
           \/ TryReconnect("startCmd")
    BY <1>5 DEF OnStartCommand
  <2>2. receiving' \in BOOLEAN /\ mail' \subseteq mail \cup {"asked"}
    BY <2>1, ReconnectMail, StopFlag DEF SessionInService, FlagsOK
  <2>3. QED
    BY <2>1, <2>2, QuietStep
<1>6. CASE UiAttached \/ UiGranted
  <2>1. ui /\ UNCHANGED <<ui, svc, ref, fields>>
    BY <1>6 DEF UiAttached, UiGranted, SessionInService, Reachable, UiMail
  <2>2. CASE UNCHANGED started /\ mail' \subseteq mail \cup {"asked"}
    BY <2>1, <2>2, QuietStep DEF fields, SessionInService, FlagsOK, NoZombieSession
  <2>3. CASE started' = TRUE /\ mail' \subseteq mail \cup {"startCmd", "delayedStart"}
    BY <2>1, <2>3
       DEF fields, SessionInService, FlagsOK, Reachable, NoZombieSession, UiMail
  <2>4. QED
    BY <1>6, <2>2, <2>3 DEF UiAttached, UiGranted, StartServiceAndSniff
<1>7. CASE DelayedStart
  <2>1. /\ UNCHANGED app /\ mail' \subseteq mail
        /\ \/ UNCHANGED fields
           \/ ref # "null" /\ StartSniffing
    BY <1>7 DEF DelayedStart
  <2>2. started /\ ref # "dead"
    BY <1>7 DEF DelayedStart, SessionInService, Reachable
  <2>3. receiving' \in BOOLEAN
    BY <2>1, StartFlag, StopFlag DEF SessionInService, FlagsOK
  <2>4. receiving' => svc
    <3>1. CASE UNCHANGED fields
      BY <3>1 DEF fields, SessionInService, NoZombieSession
    <3>2. CASE ref # "null"
      BY <3>2, <2>2 DEF SessionInService, FlagsOK, Reachable
    <3>3. QED
      BY <2>1, <3>1, <3>2
  <2>5. QED
    BY <2>1, <2>3, <2>4, QuietStep DEF app, SessionInService, FlagsOK
<1>8. QED
  BY <1>1, <1>2, <1>3, <1>4, <1>5, <1>6, <1>7 DEF Handler

LEMMA ThreadsInService ==
  ASSUME SessionInService,
         \/ UNCHANGED vars
         \/ \E i \in Ids : ReceiveThread(i) \/ ProcessEnds(i)
  PROVE  SessionInService'
<1>1. UNCHANGED <<app, mail>>
  BY DEF vars, ReceiveThread, ReceiveLoop, TransferEnds, ReceiveExit, CloseConnection, ProcessEnds
<1>2. receiving' = receiving \/ receiving' = FALSE
  BY DEF vars, fields, ReceiveThread, ReceiveLoop, TransferEnds, ReceiveExit, CloseConnection, ProcessEnds
<1>3. FlagsOK'
  <2>1. receiving' \in BOOLEAN
    BY <1>2 DEF SessionInService, FlagsOK
  <2>2. QED
    BY <1>1, <2>1 DEF SessionInService, FlagsOK, app
<1>4. NoZombieSession'
  BY <1>1, <1>2 DEF SessionInService, NoZombieSession, app
<1>5. Reachable'
  BY <1>1 DEF SessionInService, Reachable, app
<1>6. QED
  BY <1>3, <1>4, <1>5 DEF SessionInService

(* Whatever is on its way when the activity goes, and in whichever order   *)
(* it arrives, no session runs in a service that has been destroyed.       *)
THEOREM NoSessionOutlivesService == Spec => []NoZombieSession
<1>1. SessionInService /\ [Next]_vars => SessionInService'
  BY WorldInService, CloseInService, HandlerInService, ThreadsInService DEF Next, User
<1>2. SessionInService => NoZombieSession
  BY DEF SessionInService
<1>3. QED
  BY InitInService, <1>1, <1>2, PTL DEF Spec

-----------------------------------------------------------------------------
(* No connection leaks.                                                    *)

RcvRecs == [pc : {"none", "loop", "transfer", "exit", "close", "done"},
            on : 0 .. MaxSessions]

SessionsOK ==
  /\ session \in 0 .. MaxSessions /\ conn \in 0 .. MaxSessions
  /\ rcv \in [Ids -> RcvRecs]
  /\ receiving \in BOOLEAN /\ clean \in BOOLEAN
  /\ open \subseteq Ids

(* A connection that outlived its session is about to be closed by the     *)
(* receive thread that ended it.                                           *)
Closing == ~receiving /\ conn # 0 => \E i \in Ids : rcv[i].pc = "close"

Closed == SessionsOK /\ (clean => Closing) /\ NoConnectionLeak

LEMMA InitClosed == Init => Closed
<1> SUFFICES ASSUME Init PROVE Closed
  OBVIOUS
<1>1. MaxSessions \in Nat
  BY LifecycleAssumption
<1>2. session \in 0 .. MaxSessions /\ conn \in 0 .. MaxSessions /\ 0 \in 0 .. MaxSessions
  BY <1>1 DEF Init
<1>3. rcv \in [Ids -> RcvRecs]
  BY <1>2 DEF Init, RcvRecs
<1>4. QED
  BY <1>2, <1>3 DEF Init, Closed, SessionsOK, Closing, NoConnectionLeak

(* The only step that opens a connection: with every older thread gone,    *)
(* nothing was about to be closed, so nothing was open.                    *)
LEMMA NewSessionClosed == ASSUME Closed, ~receiving, NewSession PROVE Closed'
<1> USE DEF Closed
<1>1. /\ session' \in Ids /\ session' \in 0 .. MaxSessions /\ conn' = session'
      /\ open' = open \cup {session'} /\ receiving' = TRUE
  BY LifecycleAssumption DEF NewSession, SessionsOK, Ids
<1>2. rcv' \in [Ids -> RcvRecs]
  <2>1. [rcv[session'] EXCEPT !.pc = "loop"] \in RcvRecs
    BY <1>1 DEF SessionsOK, RcvRecs
  <2>2. rcv' = [rcv EXCEPT ![session'] = [rcv[session'] EXCEPT !.pc = "loop"]]
    BY <1>1 DEF NewSession, SessionsOK
  <2>3. QED
    BY <1>1, <2>1, <2>2 DEF SessionsOK
<1>3. clean' \in BOOLEAN
  BY DEF NewSession
<1>4. SessionsOK'
  BY <1>1, <1>2, <1>3 DEF SessionsOK
<1>5. Closing'
  BY <1>1 DEF Closing
<1>6. NoConnectionLeak'
  <2> SUFFICES ASSUME clean' PROVE open' \subseteq {conn'}
    BY DEF NoConnectionLeak
  <2>1. clean /\ \A i \in Ids : rcv[i].pc # "close"
    BY DEF NewSession, Dead
  <2>2. conn = 0
    BY <2>1 DEF Closing
  <2>3. open \subseteq {0} /\ 0 \notin Ids
    BY <2>1, <2>2 DEF NoConnectionLeak, Ids
  <2>4. open = {}
    BY <2>3 DEF SessionsOK
  <2>5. QED
    BY <2>4, <1>1
<1>7. QED
  BY <1>4, <1>5, <1>6

LEMMA KeepClosed == ASSUME Closed, UNCHANGED fields PROVE Closed'
  BY DEF Closed, SessionsOK, Closing, NoConnectionLeak, fields, threads

LEMMA StopClosed == ASSUME Closed, StopUsbThreads PROVE Closed'
<1>1. /\ receiving' = FALSE /\ conn' = 0 /\ open' = open \ {conn}
      /\ session' = session /\ rcv' = rcv /\ clean' = clean
  BY DEF StopUsbThreads, threads
<1>2. conn' \in 0 .. MaxSessions
  BY <1>1, LifecycleAssumption
<1>3. SessionsOK'
  BY <1>1, <1>2 DEF Closed, SessionsOK
<1>4. Closing' /\ NoConnectionLeak'
  BY <1>1 DEF Closed, Closing, NoConnectionLeak
<1>5. QED
  BY <1>3, <1>4, <1>1 DEF Closed

LEMMA StartClosed == ASSUME Closed, StartSniffing PROVE Closed'
<1>1. UNCHANGED fields \/ (~receiving /\ NewSession)
  BY DEF StartSniffing
<1>2. QED
  BY <1>1, KeepClosed, NewSessionClosed

LEMMA HandlerClosed == ASSUME Closed, Handler PROVE Closed'
<1>1. UNCHANGED fields \/ StartSniffing \/ StopUsbThreads
  BY DEF Handler, OnCreate, SvcAttached, SvcDetached, SvcGranted, OnStartCommand,
         UiAttached, UiGranted, DelayedStart, TryReconnect
<1>2. QED
  BY <1>1, KeepClosed, StartClosed, StopClosed

LEMMA CloseUiClosed == ASSUME Closed, CloseUi PROVE Closed'
<1>1. CASE UNCHANGED fields
  BY <1>1, KeepClosed
<1>2. CASE /\ receiving' = FALSE /\ conn' = 0 /\ open' = open \ {conn}
           /\ rcv' = [i \in Ids |-> [pc |-> IF i <= session THEN "done" ELSE "none",
                                     on |-> 0]]
           /\ UNCHANGED <<session, clean>>
  <2>1. conn' \in 0 .. MaxSessions /\ 0 \in 0 .. MaxSessions
    BY <1>2, LifecycleAssumption
  <2>2. rcv' \in [Ids -> RcvRecs]
    BY <1>2, <2>1 DEF RcvRecs
  <2>3. SessionsOK'
    BY <1>2, <2>1, <2>2 DEF Closed, SessionsOK
  <2>4. Closing' /\ NoConnectionLeak'
    BY <1>2 DEF Closed, Closing, NoConnectionLeak
  <2>5. QED
    BY <2>3, <2>4 DEF Closed
<1>3. QED
  BY <1>1, <1>2 DEF CloseUi

LEMMA UserClosed == ASSUME Closed, User PROVE Closed'
<1>1. UNCHANGED fields \/ StopUsbThreads \/ CloseUi
  BY DEF User, OpenUi, Button, Attach, Detach, Answer
<1>2. QED
  BY <1>1, KeepClosed, StopClosed, CloseUiClosed

(* A receive thread that leaves its loop ends the current session and      *)
(* closes its connection in a later step.                                  *)
LEMMA ReceiveClosed == ASSUME Closed, NEW i \in Ids, ReceiveThread(i) PROVE Closed'
<1> USE DEF Closed
<1>1. CASE ReceiveLoop(i) \/ TransferEnds(i)
  <2>1. /\ rcv[i].pc # "close" /\ \E r \in RcvRecs : rcv' = [rcv EXCEPT ![i] = r]
        /\ UNCHANGED <<receiving, conn, open, session, clean>>
    <3>1. 0 \in 0 .. MaxSessions
      BY LifecycleAssumption
    <3>2. /\ [pc |-> "transfer", on |-> conn] \in RcvRecs
          /\ [pc |-> "loop", on |-> 0] \in RcvRecs /\ [pc |-> "exit", on |-> 0] \in RcvRecs
      BY <3>1 DEF SessionsOK, RcvRecs
    <3>3. QED
      BY <1>1, <3>2 DEF ReceiveLoop, TransferEnds
  <2>2. rcv' \in [Ids -> RcvRecs]
    BY <2>1 DEF SessionsOK
  <2>3. SessionsOK'
    BY <2>1, <2>2 DEF SessionsOK
  <2>4. \A j \in Ids : rcv[j].pc = "close" => rcv'[j].pc = "close"
    BY <2>1 DEF SessionsOK
  <2>5. (clean => Closing)' /\ NoConnectionLeak'
    BY <2>1, <2>4 DEF Closing, NoConnectionLeak
  <2>6. QED
    BY <2>3, <2>5
<1>2. CASE ReceiveExit(i)
  <2> DEFINE p == IF receiving THEN "close" ELSE "done"
  <2>1. /\ receiving' = FALSE /\ UNCHANGED <<conn, open, session, clean>>
        /\ rcv' = [rcv EXCEPT ![i].pc = p] /\ rcv[i].pc = "exit"
    BY <1>2 DEF ReceiveExit
  <2>2. rcv' = [rcv EXCEPT ![i] = [rcv[i] EXCEPT !.pc = p]]
        /\ [rcv[i] EXCEPT !.pc = p] \in RcvRecs
    BY <2>1 DEF SessionsOK, RcvRecs
  <2>3. rcv' \in [Ids -> RcvRecs] /\ rcv'[i].pc = p
    BY <2>2 DEF SessionsOK, RcvRecs
  <2>4. \A j \in Ids : rcv[j].pc = "close" => rcv'[j].pc = "close"
    BY <2>1, <2>2 DEF SessionsOK
  <2>5. SessionsOK'
    BY <2>1, <2>3 DEF SessionsOK
  <2>6. (clean => Closing)' /\ NoConnectionLeak'
    BY <2>1, <2>3, <2>4 DEF Closing, NoConnectionLeak, SessionsOK
  <2>7. QED
    BY <2>5, <2>6
<1>3. CASE CloseConnection(i)
  <2>1. /\ conn' = 0 /\ open' = open \ {conn} /\ UNCHANGED <<receiving, session, clean>>
        /\ rcv' = [rcv EXCEPT ![i].pc = "done"]
    BY <1>3 DEF CloseConnection
  <2>2. rcv' = [rcv EXCEPT ![i] = [rcv[i] EXCEPT !.pc = "done"]]
        /\ [rcv[i] EXCEPT !.pc = "done"] \in RcvRecs
    BY <2>1 DEF SessionsOK, RcvRecs
  <2>3. rcv' \in [Ids -> RcvRecs] /\ conn' \in 0 .. MaxSessions
    BY <2>1, <2>2, LifecycleAssumption DEF SessionsOK
  <2>4. SessionsOK'
    BY <2>1, <2>3 DEF SessionsOK
  <2>5. Closing' /\ NoConnectionLeak'
    BY <2>1 DEF Closing, NoConnectionLeak
  <2>6. QED
    BY <2>4, <2>5
<1>4. QED
  BY <1>1, <1>2, <1>3 DEF ReceiveThread

LEMMA ProcessClosed ==
  ASSUME Closed, (\E i \in Ids : ProcessEnds(i)) \/ UNCHANGED vars
  PROVE  Closed'
<1>1. UNCHANGED <<receiving, conn, open, session, rcv, clean>>
  BY DEF ProcessEnds, vars, fields, threads
<1>2. QED
  BY <1>1 DEF Closed, SessionsOK, Closing, NoConnectionLeak

(* Whichever thread ends a session, its connection is closed before the    *)
(* next one is opened, if the old threads had ended by then.               *)
THEOREM ConnectionsClosed == Spec => []NoConnectionLeak
<1>1. Closed /\ [Next]_vars => Closed'
  BY UserClosed, HandlerClosed, ReceiveClosed, ProcessClosed DEF Next
<1>2. Closed => NoConnectionLeak
  BY DEF Closed
<1>3. QED
  BY InitClosed, <1>1, <1>2, PTL DEF Spec

=============================================================================
