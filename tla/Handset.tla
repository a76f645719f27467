-------------------------------- MODULE Handset --------------------------------
(***************************************************************************)
(* The nRF9160 application as one system: the event manager's bus with the *)
(* modem module (ModemModule), main() with its queue (main.c) and the      *)
(* display (module/ui.c) listening on it.                                  *)
(*                                                                         *)
(* The work queue hands the bus's first event to one listener after the    *)
(* other.  The modem module and the display subscribe EARLY; main()        *)
(* subscribes to modem events only after them, copies each into its own    *)
(* queue and reports a full one with an application event, which goes to   *)
(* the modem module.  Server, motorola, radio and input events reach       *)
(* main()'s listener as well, which has no case for them.                  *)
(*                                                                         *)
(* The bus is memory: events wait in the event manager's heap (outside     *)
(* src), which halts the device when a submission finds none left.         *)
(***************************************************************************)
EXTENDS ModemModule

CONSTANTS
    AppLen,     \* APP_QUEUE_ENTRY_COUNT
    HeapLen,    \* room in the heap, besides the event being handed over
    MaxForeign  \* bound: events of the server and the button

(* The other contexts alone do not exhaust the heap.                        *)
ASSUME HandsetAssumption ==
    /\ AppLen \in Nat \ {0} /\ MaxForeign \in Nat
    /\ HeapLen \in Nat /\ HeapLen > MaxEnv + 1

VARIABLES
    due,        \* main() has still to be handed the event just dispatched
    appQueue,   \* messages in msgq_app, whose contents main() does not read
    ui,         \* enum state_type of ui.c
    screen,     \* the screen lv_scr_load was last called with
    foreign     \* server and hardware events published so far

handsetVars == <<vars, due, appQueue, ui, screen, foreign>>

UiStates == {"BOOT", "CONNECTING_LTE", "CONNECTING_SERVER", "DISCONNECTED",
             "CONNECTED", "LISTENING_ACTIVE", "TRANSMITTING"}
Screens == {"BOOT", "CONNECTING_LTE", "CONNECTING_SERVER", "AUTHENTICATING",
            "AUTH_FAILED", "CONNECTED_IDLE", "LISTENING", "TRANSMITTING"}

(* server_event and hw_event, which fill no queue: only the display makes   *)
(* anything of them.  Their publishers run at any time, so one is handed    *)
(* over between any two events of the bus.                                  *)
ForeignEvents == {"BEGIN_AUTH", "AUTH_DENIED", "SERVER_CONNECTED", "PTT_DOWN"}

HandsetTypeOK ==
    /\ TypeOK /\ Len(bus) <= HeapLen
    /\ due \in BOOLEAN
    /\ appQueue \in 0..AppLen
    /\ ui \in UiStates /\ screen \in Screens
    /\ foreign \in 0..MaxForeign

HandsetInit ==
    /\ Init
    /\ due = FALSE
    /\ appQueue = 0
    /\ ui = "BOOT" /\ screen = "BOOT"
    /\ foreign = 0

------------------------------------------------------------------------------
(* message_handler of ui.c.  LTE_CONNECTED changes the state and leaves the *)
(* screen; the second BEGIN_AUTH block has the last word.                   *)
MessageHandler(t) ==
    CASE t = "LTE_CONNECTING" ->
           ui' = "CONNECTING_LTE" /\ screen' = "CONNECTING_LTE"
      [] t = "LTE_CONNECTED" -> ui' = "CONNECTED" /\ screen' = screen
      [] t = "AUTH_DENIED" -> ui' = "DISCONNECTED" /\ screen' = "AUTH_FAILED"
      [] t = "SERVER_CONNECTED" ->
           ui' = "CONNECTED" /\ screen' = "CONNECTED_IDLE"
      [] t = "BEGIN_AUTH" ->
           ui' = "CONNECTING_LTE" /\ screen' = "AUTHENTICATING"
      [] t = "INCOMING_MSG_START" ->
           ui' = "LISTENING_ACTIVE" /\ screen' = "LISTENING"
      [] t = "PTT_DOWN" -> ui' = "TRANSMITTING" /\ screen' = "TRANSMITTING"
      [] OTHER -> UNCHANGED <<ui, screen>>

(* The early listeners, the modem module's and the display's, which touch   *)
(* nothing in common.  main() is owed the modem events.                     *)
TellEarly ==
    /\ ~due
    /\ Dispatch
    /\ MessageHandler(Head(bus).type)
    /\ due' = (Class(Head(bus).type) = "modem")
    /\ UNCHANGED <<appQueue, foreign>>

(* A submission that finds the heap full halts the device.                  *)
Halt ==
    /\ phase' = "ASSERT"
    /\ UNCHANGED <<state, queue, bus, out, handlerSet, radioOn, reg, lost, env>>

(* The listener of main(), in the work queue: it never waits for room.      *)
Report ==
    IF Len(bus) < HeapLen
    THEN /\ bus' = Append(bus, Ev("APP_ERROR"))
         /\ UNCHANGED <<phase, state, queue, out, handlerSet, radioOn, reg,
                        lost, env>>
    ELSE Halt

AppListenerRetries ==
    IF appQueue < AppLen
    THEN appQueue' = appQueue + 1 /\ UNCHANGED vars
    ELSE /\ appQueue' = appQueue
         /\ IF Len(bus) + 1 < HeapLen
            THEN /\ bus' = bus \o <<Ev("PARAM_UPDATE"), Ev("APP_ERROR")>>
                 /\ UNCHANGED <<phase, state, queue, out, handlerSet, radioOn,
                                reg, lost, env>>
            ELSE Halt

AppListenerOffByOne ==
    IF appQueue <= AppLen
    THEN appQueue' = appQueue + 1 /\ UNCHANGED vars
    ELSE Report /\ appQueue' = appQueue

AppListener ==
    IF appQueue < AppLen
    THEN appQueue' = appQueue + 1 /\ UNCHANGED vars
    ELSE Report /\ appQueue' = appQueue

TellApp ==
    /\ phase # "ASSERT" /\ due
    /\ due' = FALSE
    /\ AppListener
    /\ UNCHANGED <<ui, screen, foreign>>

WorkQueue == TellEarly \/ TellApp

Foreign(t) ==
    /\ phase # "ASSERT" /\ ~due /\ foreign < MaxForeign
    /\ foreign' = foreign + 1
    /\ MessageHandler(t)
    /\ UNCHANGED <<vars, due, appQueue>>

(* The threads of main() and of the modem module run when the work queue,   *)
(* which outranks both, has nothing left to do.  main()'s loop takes a      *)
(* message; its switch has no case.                                         *)
MainTakesAllButOne ==
    /\ phase # "ASSERT" /\ bus = <<>> /\ ~due /\ appQueue > 1
    /\ appQueue' = appQueue - 1
    /\ UNCHANGED <<vars, due, ui, screen, foreign>>

MainTakes ==
    /\ phase # "ASSERT" /\ bus = <<>> /\ ~due /\ appQueue > 0
    /\ appQueue' = appQueue - 1
    /\ UNCHANGED <<vars, due, ui, screen, foreign>>

ModemThread ==
    /\ ~due /\ ScheduledThread
    /\ UNCHANGED <<due, appQueue, ui, screen, foreign>>

(* The other contexts publish at any time, between two listeners too.       *)
OtherContexts ==
    /\ IF Len(bus) < HeapLen
       THEN LteCallback \/ AppRequest \/ RadioEvent
       ELSE Halt
    /\ UNCHANGED <<due, appQueue, ui, screen, foreign>>

HandsetNext ==
    \/ WorkQueue \/ ModemThread \/ MainTakes \/ OtherContexts
    \/ \E t \in ForeignEvents : Foreign(t)

HandsetSpec == HandsetInit /\ [][HandsetNext]_handsetVars

(* The threads and the work queue are scheduled; nothing is assumed of the  *)
(* network, the server, the user or the radios.                             *)
HandsetFairSpec ==
    /\ HandsetSpec
    /\ WF_handsetVars(WorkQueue)
    /\ WF_handsetVars(ModemThread)
    /\ WF_handsetVars(MainTakes)

------------------------------------------------------------------------------
(* A full queue of main() is never fatal by itself: each event it refuses   *)
(* comes back as one report, which the modem module takes.  The heap can    *)
(* run out only once the modem module's queue is full too.                  *)
OnlyBothAreFatal ==
    ~Carrier /\ phase = "ASSERT" => ~HasRoom(queue) /\ appQueue = AppLen

(* Each queue answers a refused event with another event: main()'s report   *)
(* goes to the modem module, whose report goes to both.  The exchange ends: *)
(* everything drains, or the two full queues multiply their reports until   *)
(* the device halts; it does not go on for ever.                            *)
ReportsDieOut == <>[](phase = "ASSERT" \/ (Drained /\ appQueue = 0))

(* Once nothing is under way the display's state machine has moved on from   *)
(* connecting: in modem.c an LTE_CONNECTED follows each LTE_CONNECTING, and *)
(* the display is handed both in that order, whatever the full queues       *)
(* refuse and whichever events come in between.  (Its screen is another     *)
(* matter: LTE_CONNECTED loads none.)                                       *)
DisplayMovesOn ==
    Idle /\ ~due => <<ui, screen>> # <<"CONNECTING_LTE", "CONNECTING_LTE">>
=============================================================================
