-------------------------- MODULE MonitorLifecycle --------------------------
(***************************************************************************)
(* Who starts and ends monitoring in the Android companion app: the        *)
(* activity (MainActivity.kt), the service it binds or starts              *)
(* (SnifferService.kt), the USB device, and the threads of a session,      *)
(* which nobody joins.                                                     *)
(*                                                                         *)
(* Handlers run on the main thread, one at a time, in the order their      *)
(* messages happen to arrive: mail is the set of messages on their way.    *)
(* The receive and processing threads of session i run beside them; what   *)
(* they move is the subject of module SnifferService.                      *)
(***************************************************************************)
EXTENDS Integers, FiniteSets

CONSTANTS
  DATA_IFACE,  \* index of the interface with the bulk endpoint: 1 for USB-CDC
  MaxSessions  \* bound: sessions started

ASSUME LifecycleAssumption == DATA_IFACE \in Nat /\ MaxSessions \in Nat

VARIABLES
  ui,          \* the activity exists, with its receiver and its binding
  svc,         \* the service exists
  started,     \* startForegroundService was called: it outlives its clients
  ref,         \* the activity's snifferService: null, the service, or one
               \* that has been destroyed
  mail,        \* main-thread messages under way
  attached,    \* a device with the right vendor is plugged in
  permission,  \* and the app may open it
  receiving,   \* isReceiving
  conn,        \* usbConnection: the session it was opened for, 0 for null
  open,        \* connections not yet closed
  session,     \* history: sessions started
  rcv,         \* receive threads: pc and the connection of the transfer
  prc,         \* processing threads: pc
  clean        \* history: no session started while an older thread lived

usb == <<attached, permission>>
app == <<ui, svc, started, ref>>
threads == <<rcv, prc>>
fields == <<receiving, conn, open, session, threads, clean>>
vars == <<app, mail, usb, fields>>

Ids == 1 .. MaxSessions
Dead == {"none", "done"}

\* To the service: it is created, its receiver, onStartCommand.  To the
\* activity: its receiver, the start it delayed by 200 ms.
SvcMail == {"create", "svcAttach", "svcDetach", "svcGranted", "startCmd"}
UiMail == {"uiAttach", "uiGranted"}
Messages == SvcMail \cup UiMail \cup {"asked", "delayedStart"}

Init ==
  /\ ui = FALSE /\ svc = FALSE /\ started = FALSE /\ ref = "null"
  /\ mail = {}
  /\ attached = FALSE /\ permission = FALSE
  /\ receiving = FALSE /\ conn = 0 /\ open = {} /\ session = 0
  /\ rcv = [i \in Ids |-> [pc |-> "none", on |-> 0]]
  /\ prc = [i \in Ids |-> "none"]
  /\ clean = TRUE

-----------------------------------------------------------------------------
(* Parts of handlers.                                                      *)

NewSession ==
  /\ session < MaxSessions
  /\ session' = session + 1
  /\ receiving' = TRUE
  /\ conn' = session' /\ open' = open \cup {session'}
  /\ rcv' = [rcv EXCEPT ![session'].pc = "loop"]
  /\ prc' = [prc EXCEPT ![session'] = "loop"]
  /\ clean' = (clean /\ \A i \in Ids : rcv[i].pc \in Dead /\ prc[i] \in Dead)

\* startSniffing: not while receiving, and only if the device opens.
StartSniffing ==
  IF receiving \/ ~attached \/ ~permission THEN UNCHANGED fields ELSE NewSession

\* stopUsbThreadsInternal, on the main thread.
StopUsbThreads ==
  /\ receiving' = FALSE
  /\ conn' = 0 /\ open' = open \ {conn}
  /\ UNCHANGED <<session, threads, clean>>

\* tryReconnect: asking for the permission brings up a dialog.
TryReconnect(m) ==
  /\ StartSniffing
  /\ mail' = (mail \ {m}) \cup (IF attached /\ ~permission THEN {"asked"} ELSE {})

\* Faulty variant: the service is bound but not started.
StartServiceAndSniffBound(m) ==
  /\ mail' = (mail \ {m}) \cup {"startCmd", "delayedStart"}
  /\ UNCHANGED started

\* startServiceAndSniff
StartServiceAndSniff(m) ==
  /\ started' = TRUE
  /\ mail' = (mail \ {m}) \cup {"startCmd", "delayedStart"}

-----------------------------------------------------------------------------
(* The world outside.                                                      *)

\* The receivers registered at that moment get the broadcast.
Broadcast(toSvc, toUi) ==
  mail \cup (IF svc THEN toSvc ELSE {}) \cup (IF ui THEN toUi ELSE {})

Attach ==  \* permission may have been given to this device for good
  /\ ~attached
  /\ attached' = TRUE
  /\ permission' \in BOOLEAN
  /\ mail' = Broadcast({"svcAttach"}, {"uiAttach"})
  /\ UNCHANGED <<app, fields>>

Detach ==
  /\ attached
  /\ attached' = FALSE /\ permission' = FALSE
  /\ mail' = Broadcast({"svcDetach"}, {}) \ {"asked"}
  /\ UNCHANGED <<app, fields>>

Answer(granted) ==  \* the permission dialog
  /\ "asked" \in mail
  /\ permission' = granted
  /\ mail' = (IF granted THEN Broadcast({"svcGranted"}, {"uiGranted"}) ELSE mail)
               \ {"asked"}
  /\ UNCHANGED <<app, attached, fields>>

OpenUi ==  \* MainActivity.onCreate binds, and so creates, the service
  /\ ~ui
  /\ ui' = TRUE
  /\ ref' = IF svc THEN "service" ELSE "null"
  /\ mail' = mail \cup (IF svc THEN {} ELSE {"create"})
  /\ UNCHANGED <<svc, started, usb, fields>>

\* MainActivity.onDestroy unbinds.  A service that was only ever bound is
\* destroyed with its last client; its threads find isReceiving cleared and
\* their connection closed, and touch nothing any more.
CloseUi ==
  /\ ui
  /\ ui' = FALSE
  /\ \/ /\ started
        /\ mail' = mail \ UiMail
        /\ UNCHANGED <<svc, ref, fields>>
     \/ /\ ~started
        /\ svc' = FALSE
        /\ ref' = IF ref = "service" THEN "dead" ELSE ref
        /\ mail' = mail \ (UiMail \cup (SvcMail \ {"startCmd"}))
        /\ receiving' = FALSE /\ conn' = 0 /\ open' = open \ {conn}
        /\ rcv' = [i \in Ids |-> [pc |-> IF i <= session THEN "done" ELSE "none",
                                  on |-> 0]]
        /\ prc' = [i \in Ids |-> IF i <= session THEN "done" ELSE "none"]
        /\ UNCHANGED <<session, clean>>
  /\ UNCHANGED <<started, usb>>

Button ==  \* isSnifferDesired is always true, so the button always stops
  /\ ui /\ svc
  /\ StopUsbThreads
  /\ UNCHANGED <<app, mail, usb>>

-----------------------------------------------------------------------------
(* Message handlers.                                                       *)

OnCreate ==  \* and onServiceConnected, for the activity that binds it
  /\ "create" \in mail
  /\ svc' = TRUE
  /\ ref' = IF ui THEN "service" ELSE ref
  /\ IF svc THEN mail' = mail \ {"create"} /\ UNCHANGED fields
            ELSE TryReconnect("create")
  /\ UNCHANGED <<ui, started, usb>>

SvcAttached ==
  /\ "svcAttach" \in mail
  /\ TryReconnect("svcAttach")
  /\ UNCHANGED <<app, usb>>

\* The receiver compares the interface in use with the device's first one.
SvcDetached ==
  /\ "svcDetach" \in mail
  /\ mail' = mail \ {"svcDetach"}
  /\ IF conn # 0 /\ DATA_IFACE = 0 THEN StopUsbThreads ELSE UNCHANGED fields
  /\ UNCHANGED <<app, usb>>

SvcGranted ==
  /\ "svcGranted" \in mail
  /\ mail' = mail \ {"svcGranted"}
  /\ StartSniffing
  /\ UNCHANGED <<app, usb>>

OnStartCommand ==  \* creates the service if it is not there
  /\ "startCmd" \in mail
  /\ svc' = TRUE
  /\ ref' = IF ui THEN "service" ELSE ref
  /\ IF receiving THEN mail' = mail \ {"startCmd"} /\ UNCHANGED fields
                  ELSE TryReconnect("startCmd")
  /\ UNCHANGED <<ui, started, usb>>

UiAttached ==
  /\ "uiAttach" \in mail
  /\ IF svc /\ ~receiving /\ attached /\ permission
       THEN StartServiceAndSniff("uiAttach")
       ELSE /\ mail' = (mail \ {"uiAttach"}) \cup
                       (IF svc /\ ~receiving /\ attached THEN {"asked"} ELSE {})
            /\ UNCHANGED started
  /\ UNCHANGED <<ui, svc, ref, usb, fields>>

UiGranted ==
  /\ "uiGranted" \in mail
  /\ StartServiceAndSniff("uiGranted")
  /\ UNCHANGED <<ui, svc, ref, usb, fields>>

DelayedStart ==  \* snifferService?.startSniffing, even if the activity has gone
  /\ "delayedStart" \in mail
  /\ mail' = mail \ {"delayedStart"}
  /\ IF ref = "null" THEN UNCHANGED fields ELSE StartSniffing
  /\ UNCHANGED <<app, usb>>

-----------------------------------------------------------------------------
(* The threads of session i.                                               *)

ReceiveLoop(i) ==
  /\ rcv[i].pc = "loop"
  /\ rcv' = [rcv EXCEPT ![i] = IF receiving /\ conn # 0
                                 THEN [pc |-> "transfer", on |-> conn]
                                 ELSE [pc |-> "exit", on |-> 0]]
  /\ UNCHANGED <<app, mail, usb, receiving, conn, open, session, prc, clean>>

TransferEnds(i) ==  \* with data, or with an error: silence, detached, closed
  /\ rcv[i].pc = "transfer"
  /\ \/ /\ attached /\ rcv[i].on \in open
        /\ rcv' = [rcv EXCEPT ![i] = [pc |-> "loop", on |-> 0]]
     \/ rcv' = [rcv EXCEPT ![i] = [pc |-> "exit", on |-> 0]]
  /\ UNCHANGED <<app, mail, usb, receiving, conn, open, session, prc, clean>>

\* The loop was left with isReceiving set: stopUsbThreadsInternal runs here,
\* beside the main thread, and stops whichever session is current.
ReceiveExit(i) ==
  /\ rcv[i].pc = "exit"
  /\ receiving' = FALSE
  /\ rcv' = [rcv EXCEPT ![i].pc = IF receiving THEN "close" ELSE "done"]
  /\ UNCHANGED <<app, mail, usb, conn, open, session, prc, clean>>

\* Faulty variant: the connection is forgotten but not closed.
CloseForgets(i) ==
  /\ rcv[i].pc = "close"
  /\ conn' = 0
  /\ rcv' = [rcv EXCEPT ![i].pc = "done"]
  /\ UNCHANGED <<app, mail, usb, receiving, open, session, prc, clean>>

CloseConnection(i) ==
  /\ rcv[i].pc = "close"
  /\ conn' = 0 /\ open' = open \ {conn}
  /\ rcv' = [rcv EXCEPT ![i].pc = "done"]
  /\ UNCHANGED <<app, mail, usb, receiving, session, prc, clean>>

\* Faulty variant: the processing thread serves its session for ever.
ProcessForEver(i) ==
  /\ prc[i] = "loop" /\ ~receiving /\ ~svc
  /\ prc' = [prc EXCEPT ![i] = "done"]
  /\ UNCHANGED <<app, mail, usb, receiving, conn, open, session, rcv, clean>>

ProcessEnds(i) ==  \* it looks at isReceiving between two chunks
  /\ prc[i] = "loop" /\ ~receiving
  /\ prc' = [prc EXCEPT ![i] = "done"]
  /\ UNCHANGED <<app, mail, usb, receiving, conn, open, session, rcv, clean>>

-----------------------------------------------------------------------------
Handler ==
  \/ OnCreate \/ SvcAttached \/ SvcDetached \/ SvcGranted \/ OnStartCommand
  \/ UiAttached \/ UiGranted \/ DelayedStart

ReceiveThread(i) ==
  ReceiveLoop(i) \/ TransferEnds(i) \/ ReceiveExit(i) \/ CloseConnection(i)

User == OpenUi \/ CloseUi \/ Button \/ Attach \/ Detach
          \/ (\E granted \in BOOLEAN : Answer(granted))

Next ==
  \/ User \/ Handler
  \/ \E i \in Ids : ReceiveThread(i) \/ ProcessEnds(i)

Fairness ==
  /\ WF_vars(Handler)
  /\ \A i \in Ids : WF_vars(ReceiveThread(i)) /\ WF_vars(ProcessEnds(i))

Spec == Init /\ [][Next]_vars /\ Fairness

-----------------------------------------------------------------------------
(* Properties.                                                             *)

(* A USB connection is open only while usbConnection refers to it, as long *)
(* as every session started after the threads of the one before had ended: *)
(* whichever of the main thread and the receive thread ends a session,     *)
(* what startSniffing opened is closed.                                    *)
NoConnectionLeak == clean => open \subseteq {conn}

(* The threads of a session end once it is stopped, unless the next one    *)
(* starts before they notice.                                              *)
ThreadsEnd ==
  ~receiving ~> receiving \/ \A i \in Ids : rcv[i].pc \in Dead /\ prc[i] \in Dead

(* No session runs in a service that has been destroyed, although a start  *)
(* may still be on its way to it when the activity goes.                   *)
NoZombieSession == receiving => svc

(* "If you exit the UI, it will continue in the background"                *)
(* (MainActivity.kt): closing the activity ends no session.                *)
ContinuesInBackground == [][ui /\ ~ui' /\ receiving => receiving']_vars

=============================================================================
