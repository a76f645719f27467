----------------------------- MODULE ModemModule -----------------------------
(***************************************************************************)
(* The LTE modem module of the nRF9160 firmware: nrf9160/src/module/       *)
(* modem.c and sdk_modem.c, the module it was derived from and still       *)
(* carries.  Events travel                                                 *)
(*                                                                         *)
(*   publisher --EVENT_SUBMIT--> bus --event_handler--> queue --> thread   *)
(*                                                                         *)
(* The bus is the event manager's FIFO (outside src), emptied by the       *)
(* system work queue, which runs event_handler; the queue is the           *)
(* DATA_QUEUE_ENTRY_COUNT-entry message queue the module's thread reads.   *)
(* Three contexts interleave: the work queue, the thread, and the          *)
(* callbacks of the LTE link controller or of the carrier library.  The    *)
(* thread publishes what a handler sends one event at a time (out), so     *)
(* callbacks and the work queue run between two of its submissions.        *)
(*                                                                         *)
(* A definition whose name extends that of the definition after it (such   *)
(* as EnqueueFront before Enqueue) is a mutated form of it: a plausible    *)
(* mistake, used only to show that a property would notice it.             *)
(***************************************************************************)
EXTENDS Naturals, Sequences

CONSTANTS
    QueueLen,       \* DATA_QUEUE_ENTRY_COUNT
    Items,          \* data types an APP_EVENT_DATA_GET may ask for
    Carrier,        \* CONFIG_LWM2M_CARRIER
    AnnounceEarly,  \* TRUE: modem.c (lines 481 and 486); FALSE: sdk_modem.c
    Subscribed,     \* classes of events its listener is subscribed to
    MaxEnv          \* bound: events published by the other contexts

ASSUME ModemAssumption ==
    /\ QueueLen \in Nat \ {0}
    /\ Items \subseteq {"STATIC", "DYNAMIC", "BATTERY", "NEIGHBOR"}
    /\ Carrier \in BOOLEAN
    /\ AnnounceEarly \in BOOLEAN
    /\ Subscribed \subseteq {"modem", "app", "util", "radio"}
    /\ MaxEnv \in Nat

VARIABLES
    phase,      \* where the thread is: before its loop, in it, or asserted
    state,      \* enum state_type
    queue,      \* the module's message queue
    bus,        \* events submitted and not yet handed to the listener
    out,        \* events the running handler has still to submit
    handlerSet, \* lte_lc_connect_async has registered lte_event_handler
    radioOn,    \* functional mode of the modem
    reg,        \* network status last reported to a callback
    lost,       \* history: an event of DrivingTypes never reached the queue
    env         \* events the other contexts have published

vars == <<phase, state, queue, bus, out, handlerSet, radioOn, reg, lost, env>>

------------------------------------------------------------------------------
ModemStates == {"INIT", "DISCONNECTED", "CONNECTING", "CONNECTED", "SHUTDOWN"}
RegStatus == {"NONE", "REGISTERED", "NOT_REGISTERED", "UICC_FAIL"}

(* The events that tell the state machine what the network is.              *)
ConnTypes == {"LTE_CONNECTED", "LTE_DISCONNECTED"}
DrivingTypes == ConnTypes \cup {"CARRIER_INITIALIZED"}

(* PARAM_UPDATE stands for the PSM, eDRX, cell and neighbour reports, and   *)
(* INCOMING_MSG_START for all radio events.  No handler of the module reads *)
(* them or APP_ERROR: they only take room.                                  *)
EventTypes == DrivingTypes \cup
    {"LTE_CONNECTING", "INITIALIZED", "ERROR",
     "DATA_READY", "DATA_NOT_READY", "PARAM_UPDATE", "SHUTDOWN_READY",
     "APP_START", "APP_LTE_DISCONNECT", "APP_DATA_GET", "APP_ERROR",
     "SHUTDOWN_REQUEST", "INCOMING_MSG_START"}

(* The class an event is declared in, which is what listeners subscribe to. *)
AppEvents == {"APP_START", "APP_LTE_DISCONNECT", "APP_DATA_GET", "APP_ERROR"}

Class(t) ==
    CASE t \in AppEvents -> "app"
      [] t = "SHUTDOWN_REQUEST" -> "util"
      [] t = "INCOMING_MSG_START" -> "radio"
      [] OTHER -> "modem"

(* The classes event_handler enqueues: modem.c asks for radio events and    *)
(* not for util events, sdk_modem.c the other way round.                    *)
Accepted ==
    IF AnnounceEarly THEN {"modem", "radio", "app"} ELSE {"modem", "app", "util"}

Hears(t) == Class(t) \in Subscribed \cap Accepted

Event == [type : EventTypes, items : SUBSET Items]
Ev(t) == [type |-> t, items |-> {}]

TypeOK ==
    /\ phase \in {"BOOT", "RUN", "ASSERT"}
    /\ state \in ModemStates
    /\ queue \in Seq(Event) /\ Len(queue) <= QueueLen
    /\ bus \in Seq(Event)
    /\ out \in Seq(Event)
    /\ handlerSet \in BOOLEAN
    /\ radioOn \in BOOLEAN
    /\ reg \in RegStatus
    /\ lost \in BOOLEAN
    /\ env \in 0..MaxEnv

(* main() submits APP_EVENT_START first thing, and nothing else publishes   *)
(* before.                                                                  *)
Init ==
    /\ phase = "BOOT"
    /\ state = "INIT"
    /\ queue = <<>>
    /\ bus = <<Ev("APP_START")>>
    /\ out = <<>>
    /\ handlerSet = FALSE
    /\ radioOn = FALSE
    /\ reg = "NONE"
    /\ lost = FALSE
    /\ env = 0

------------------------------------------------------------------------------
(* The work queue: the listener copies an event it hears into the module's  *)
(* queue.  A full queue refuses it, and the module reports that with an     *)
(* event that this same listener will have to enqueue.                      *)
HasRoomOffByOne(q) == Len(q) <= QueueLen
HasRoom(q) == Len(q) < QueueLen

EnqueueFront(q, e) == <<e>> \o q
Enqueue(q, e) == Append(q, e)

Missed == lost \/ Head(bus).type \in DrivingTypes

Dispatch ==
    /\ phase # "ASSERT" /\ bus # <<>>
    /\ \/ /\ Hears(Head(bus).type) /\ HasRoom(queue)
          /\ queue' = Enqueue(queue, Head(bus))
          /\ bus' = Tail(bus)
          /\ lost' = lost
       \/ /\ Hears(Head(bus).type) /\ ~HasRoom(queue)
          /\ queue' = queue
          /\ bus' = Append(Tail(bus), Ev("ERROR"))
          /\ lost' = Missed
       \/ /\ ~Hears(Head(bus).type)
          /\ queue' = queue
          /\ bus' = Tail(bus)
          /\ lost' = Missed
    /\ UNCHANGED <<phase, state, out, handlerSet, radioOn, reg, env>>

(* The thread submits the next event of the handler it is running.         *)
SubmitNext ==
    /\ phase # "ASSERT" /\ out # <<>>
    /\ bus' = Append(bus, Head(out))
    /\ out' = Tail(out)
    /\ UNCHANGED <<phase, state, queue, handlerSet, radioOn, reg, lost, env>>

------------------------------------------------------------------------------
(* The thread before its loop.  A failure to start the module (~started) is *)
(* reported and otherwise ignored.  Without the carrier library the thread  *)
(* then announces INITIALIZED and only after that runs setup(), whose       *)
(* failure (~ok) is also just reported.                                     *)
ErrorUnless(ok) == IF ok THEN <<>> ELSE <<Ev("ERROR")>>

EntryPoint ==
    /\ phase = "BOOT"
    /\ phase' = "RUN"
    /\ \E started, ok \in BOOLEAN :
         IF Carrier
         THEN state' = "INIT" /\ out' = ErrorUnless(started)
         ELSE /\ state' = "DISCONNECTED"
              /\ out' = ErrorUnless(started)
                          \o <<Ev("INITIALIZED")>> \o ErrorUnless(ok)
    /\ UNCHANGED <<queue, bus, handlerSet, radioOn, reg, lost, env>>

(* What each state's handler makes of a message of type t.                  *)
OnStateDisconnectedNoConnected(t) ==
    IF t = "LTE_CONNECTING" THEN "CONNECTING" ELSE "DISCONNECTED"

OnStateDisconnected(t) ==
    CASE t = "LTE_CONNECTED"  -> "CONNECTED"
      [] t = "LTE_CONNECTING" -> "CONNECTING"
      [] OTHER -> "DISCONNECTED"

OnStateConnecting(t) ==
    IF t = "LTE_CONNECTED" THEN "CONNECTED" ELSE "CONNECTING"

OnStateConnectedRestarts(t) ==
    CASE t = "LTE_DISCONNECTED" -> "DISCONNECTED"
      [] t = "LTE_CONNECTING" -> "CONNECTING"
      [] OTHER -> "CONNECTED"

OnStateConnected(t) ==
    IF t = "LTE_DISCONNECTED" THEN "DISCONNECTED" ELSE "CONNECTED"

OnState(t) ==
    CASE state = "DISCONNECTED" -> OnStateDisconnected(t)
      [] state = "CONNECTING"   -> OnStateConnecting(t)
      [] state = "CONNECTED"    -> OnStateConnected(t)
      [] OTHER -> state

(* The answer to one requested data type; a started neighbour measurement   *)
(* is answered later, by the link controller's callback.                    *)
Answer(i, items, failed) ==
    IF i \notin items THEN <<>>
    ELSE IF i \in failed THEN <<Ev("DATA_NOT_READY")>>
    ELSE IF i = "NEIGHBOR" THEN <<>> ELSE <<Ev("DATA_READY")>>

Answers(items, failed) ==
    Answer("STATIC", items, failed) \o Answer("DYNAMIC", items, failed)
      \o Answer("BATTERY", items, failed) \o Answer("NEIGHBOR", items, failed)

EarlyConnectedNever == <<>>
EarlyConnectedAlways == <<Ev("LTE_CONNECTED")>>
EarlyConnected == IF AnnounceEarly THEN <<Ev("LTE_CONNECTED")>> ELSE <<>>

ReceiveUntilShutdown(t) ==
    /\ phase = "RUN" /\ out = <<>> /\ state # "SHUTDOWN"
    /\ queue # <<>> /\ Head(queue).type = t
    /\ queue' = Tail(queue)

Receive(t) ==
    /\ phase = "RUN" /\ out = <<>>
    /\ queue # <<>> /\ Head(queue).type = t
    /\ queue' = Tail(queue)

(* APP_EVENT_START: lte_connect(), in every state, carrier library aside.   *)
HandleStart ==
    /\ Receive("APP_START")
    /\ UNCHANGED <<phase, state, bus, reg, lost, env>>
    /\ IF Carrier THEN UNCHANGED <<out, handlerSet, radioOn>>
       ELSE \/ /\ handlerSet' = TRUE
               /\ radioOn' = TRUE
               /\ out' = <<Ev("LTE_CONNECTING")>> \o EarlyConnected
            \/ /\ out' = <<Ev("ERROR")>>
               /\ UNCHANGED <<handlerSet, radioOn>>

(* APP_EVENT_LTE_DISCONNECT: only the CONNECTING state acts on it.          *)
HandleLteDisconnect ==
    /\ Receive("APP_LTE_DISCONNECT")
    /\ UNCHANGED <<phase, bus, handlerSet, reg, lost, env>>
    /\ IF state = "CONNECTING"
       THEN \/ /\ radioOn' = FALSE
               /\ state' = "DISCONNECTED"
               /\ out' = <<>>
            \/ /\ out' = <<Ev("ERROR")>>
               /\ UNCHANGED <<radioOn, state>>
       ELSE UNCHANGED <<state, radioOn, out>>

HandleDataGet ==
    /\ Receive("APP_DATA_GET")
    /\ \E failed \in SUBSET Head(queue).items :
         out' = EarlyConnected \o Answers(Head(queue).items, failed)
    /\ UNCHANGED <<phase, state, bus, handlerSet, radioOn, reg, lost, env>>

(* The shutdown request.  lte_lc_power_off may fail and leave the modem on; *)
(* its result is discarded, and the state and the acknowledgement are the   *)
(* same.                                                                    *)
HandleShutdownOnce ==
    /\ Receive("SHUTDOWN_REQUEST")
    /\ radioOn' \in {FALSE, radioOn}
    /\ state' = "SHUTDOWN"
    /\ out' = IF state = "SHUTDOWN" THEN <<>> ELSE <<Ev("SHUTDOWN_READY")>>
    /\ UNCHANGED <<phase, bus, handlerSet, reg, lost, env>>

HandleShutdown ==
    /\ Receive("SHUTDOWN_REQUEST")
    /\ radioOn' \in {FALSE, radioOn}
    /\ state' = "SHUTDOWN"
    /\ out' = <<Ev("SHUTDOWN_READY")>>
    /\ UNCHANGED <<phase, bus, handlerSet, reg, lost, env>>

(* MODEM_EVENT_CARRIER_INITIALIZED: in STATE_INIT the module initializes    *)
(* its dependencies, asserting that each succeeds, and then announces it;   *)
(* a failed assertion halts the device.                                     *)
HandleCarrierInitialized ==
    /\ Receive("CARRIER_INITIALIZED")
    /\ UNCHANGED <<bus, handlerSet, radioOn, reg, lost, env>>
    /\ IF state = "INIT"
       THEN /\ state' = "DISCONNECTED"
            /\ \/ phase' = phase /\ out' = <<Ev("INITIALIZED")>>
               \/ phase' = "ASSERT" /\ out' = out
       ELSE UNCHANGED <<phase, state, out>>

(* Every other message: at most a transition of the state machine.          *)
HandledApart == {"APP_START", "APP_LTE_DISCONNECT", "APP_DATA_GET",
                 "SHUTDOWN_REQUEST", "CARRIER_INITIALIZED"}

HandleOther ==
    /\ \E t \in EventTypes \ HandledApart : Receive(t) /\ state' = OnState(t)
    /\ UNCHANGED <<phase, bus, out, handlerSet, radioOn, reg, lost, env>>

Thread ==
    \/ EntryPoint \/ SubmitNext
    \/ HandleStart \/ HandleLteDisconnect \/ HandleDataGet
    \/ HandleShutdown \/ HandleCarrierInitialized \/ HandleOther

------------------------------------------------------------------------------
Publish(e) ==
    /\ phase # "ASSERT" /\ env < MaxEnv
    /\ env' = env + 1
    /\ bus' = Append(bus, e)

(* lte_event_handler, once registered: a network registration status.       *)
NwRegStatus(s) ==
    /\ handlerSet
    /\ s = "REGISTERED" => radioOn
    /\ reg' = s
    /\ Publish(Ev(CASE s = "UICC_FAIL" -> "ERROR"
                    [] s = "NOT_REGISTERED" -> "LTE_DISCONNECTED"
                    [] s = "REGISTERED" -> "LTE_CONNECTED"))
    /\ UNCHANGED <<phase, state, queue, out, handlerSet, radioOn, lost>>

(* lte_event_handler: PSM, eDRX, cell and neighbour reports.                *)
ParamUpdate ==
    /\ handlerSet
    /\ Publish(Ev("PARAM_UPDATE"))
    /\ UNCHANGED <<phase, state, queue, out, handlerSet, radioOn, reg, lost>>

(* lwm2m_carrier_event_handler: the carrier library reports MODEM_INIT      *)
(* before LTE_READY; its DISCONNECTED is logged and publishes nothing.      *)
CarrierModemInit ==
    /\ Carrier /\ ~handlerSet
    /\ handlerSet' = TRUE
    /\ radioOn' = TRUE
    /\ Publish(Ev("CARRIER_INITIALIZED"))
    /\ UNCHANGED <<phase, state, queue, out, reg, lost>>

CarrierLteReady ==
    /\ Carrier /\ handlerSet /\ radioOn
    /\ reg' = "REGISTERED"
    /\ Publish(Ev("LTE_CONNECTED"))
    /\ UNCHANGED <<phase, state, queue, out, handlerSet, radioOn, lost>>

CarrierDisconnected ==
    /\ Carrier /\ handlerSet /\ phase # "ASSERT" /\ env < MaxEnv
    /\ reg' = "NOT_REGISTERED"
    /\ env' = env + 1
    /\ UNCHANGED <<phase, state, queue, bus, out, handlerSet, radioOn, lost>>

(* Events of the application and utility modules.                          *)
AppRequest ==
    /\ \/ Publish(Ev("APP_LTE_DISCONNECT"))
       \/ Publish(Ev("SHUTDOWN_REQUEST"))
       \/ \E items \in SUBSET Items \ {{}} :
            Publish([type |-> "APP_DATA_GET", items |-> items])
    /\ UNCHANGED <<phase, state, queue, out, handlerSet, radioOn, reg, lost>>

RadioEvent ==
    /\ Publish(Ev("INCOMING_MSG_START"))
    /\ UNCHANGED <<phase, state, queue, out, handlerSet, radioOn, reg, lost>>

(* main()'s report that its own queue refused an event.                     *)
AppReport ==
    /\ Publish(Ev("APP_ERROR"))
    /\ UNCHANGED <<phase, state, queue, out, handlerSet, radioOn, reg, lost>>

LteCallback ==
    \/ ~Carrier /\ \E s \in RegStatus \ {"NONE"} : NwRegStatus(s)
    \/ ~Carrier /\ ParamUpdate
    \/ CarrierModemInit \/ CarrierLteReady \/ CarrierDisconnected

Others == LteCallback \/ AppRequest \/ RadioEvent \/ AppReport

(* Every interleaving, more than the target has: what is safe here is safe  *)
(* whatever the priorities.                                                 *)
Next == Dispatch \/ Thread \/ Others

Spec == Init /\ [][Next]_vars

(* What the target schedules.  Submitting an event makes the work queue     *)
(* ready, which is cooperative, while the module's thread has the lowest    *)
(* application priority: the thread takes a step only when the bus is       *)
(* empty.  Both are fair; nothing is assumed of the other contexts.         *)
ScheduledThread == bus = <<>> /\ Thread

ScheduledNext == Dispatch \/ ScheduledThread \/ Others

FairSpec ==
    /\ Init /\ [][ScheduledNext]_vars
    /\ WF_vars(Dispatch) /\ WF_vars(ScheduledThread)

------------------------------------------------------------------------------
Idle == phase = "RUN" /\ bus = <<>> /\ queue = <<>> /\ out = <<>>

(* Once every event has been handled, a network that last reported          *)
(* registration finds the module CONNECTED (or shut down): no interleaving  *)
(* of callbacks, stale CONNECTING events and offline requests leaves it     *)
(* behind, unless the full queue refused the event that said so.            *)
RegisteredIsConnected ==
    Idle /\ ~lost /\ reg = "REGISTERED" => state \in {"CONNECTED", "SHUTDOWN"}

(* The other direction, which the rest of the firmware relies on before it  *)
(* opens a socket: a settled module that says CONNECTED is registered.  A   *)
(* SIM failure is reported as an error only, and leaves the state alone.    *)
ConnectedIsRegistered ==
    Idle /\ ~lost /\ state = "CONNECTED" => reg \in {"REGISTERED", "UICC_FAIL"}

(* on_all_states runs in the SHUTDOWN state too; the only message that would *)
(* power the modem up again there, APP_EVENT_START, has always been consumed *)
(* before, because the bus and the queue both keep the order of submission.  *)
(* A modem that could be powered off stays off.                              *)
ShutdownKeepsRadioOff ==
    [][state = "SHUTDOWN" /\ ~radioOn => ~radioOn']_vars

(* A full queue answers each refused event with an error event for itself.  *)
(* While the bus holds one the thread, which alone makes room, cannot run:  *)
(* the queue is stuck.                                                      *)
Stuck == ~HasRoom(queue) /\ \E i \in 1..Len(bus) : Hears(bus[i].type)
Drained == bus = <<>> /\ queue = <<>> /\ out = <<>>

(* Once the other contexts fall silent nothing else can go wrong: the bus,  *)
(* the queue and the running handler all drain, or the queue is stuck and   *)
(* its error event goes round for ever (or an assertion has failed).        *)
Quiesces == <>[](phase = "ASSERT" \/ Drained) \/ <>[]Stuck

(* A shutdown request that reached the queue is acknowledged, whatever is   *)
(* queued before it, unless the queue gets stuck first.                     *)
Holds(s, t) == \E i \in 1..Len(s) : s[i].type = t

ShutdownAcknowledged ==
    Holds(queue, "SHUTDOWN_REQUEST") ~> Holds(bus, "SHUTDOWN_READY") \/ Stuck
=============================================================================
