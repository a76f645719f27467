---------------------------- MODULE Handset_proofs ----------------------------
(***************************************************************************)
(* Proofs about the modem module, for every queue length, every set of     *)
(* data types and of subscriptions and every number of events from the     *)
(* other contexts; then about the handset: its bus outgrows the heap only  *)
(* when both queues are full.                                              *)
(***************************************************************************)
EXTENDS Handset, TLAPS

(* Sequences of events.                                                     *)
LEMMA AppendEvent ==
    ASSUME NEW s \in Seq(Event), NEW e \in Event
    PROVE  /\ Append(s, e) \in Seq(Event)
           /\ Len(Append(s, e)) = Len(s) + 1
           /\ \A i \in 1..Len(s) : Append(s, e)[i] = s[i]
           /\ Append(s, e)[Len(s) + 1] = e
  OBVIOUS

LEMMA TailEvent ==
    ASSUME NEW s \in Seq(Event), s # <<>>
    PROVE  /\ Head(s) \in Event
           /\ Head(s) = s[1]
           /\ Tail(s) \in Seq(Event)
           /\ Len(s) \in Nat \ {0}
           /\ Len(Tail(s)) = Len(s) - 1
           /\ \A i \in 1..Len(Tail(s)) : Tail(s)[i] = s[i + 1]
  OBVIOUS

LEMMA EvType == ASSUME NEW t \in EventTypes PROVE Ev(t) \in Event
  BY DEF Ev, Event

LEMMA OneEvent ==
    ASSUME NEW t \in EventTypes
    PROVE  <<Ev(t)>> \in Seq(Event) /\ <<Ev(t)>> # <<>>
  <1>1. Ev(t) \in Event BY EvType
  <1> QED BY <1>1

LEMMA NoEvent == <<>> \in Seq(Event) /\ Len(<<>>) = 0
  OBVIOUS

LEMMA ConcatEvents ==
    ASSUME NEW s \in Seq(Event), NEW r \in Seq(Event)
    PROVE  s \o r \in Seq(Event)
  OBVIOUS

(* What the handlers send are events of the module.                         *)
LEMMA AnswersType ==
    ASSUME NEW items \in SUBSET Items, NEW failed \in SUBSET items
    PROVE  Answers(items, failed) \in Seq(Event)
  <1>1. \A i : Answer(i, items, failed) \in Seq(Event)
    <2> SUFFICES ASSUME NEW i PROVE Answer(i, items, failed) \in Seq(Event)
      OBVIOUS
    <2>1. Ev("DATA_READY") \in Event /\ Ev("DATA_NOT_READY") \in Event
      BY EvType DEF EventTypes
    <2> QED BY <2>1 DEF Answer
  <1> QED BY <1>1 DEF Answers

LEMMA EarlyType == EarlyConnected \in Seq(Event)
  BY EvType DEF EarlyConnected, EventTypes, DrivingTypes, ConnTypes

(* A received message leaves the rest of the queue.                         *)
LEMMA ReceiveType ==
    ASSUME TypeOK, NEW t, Receive(t)
    PROVE  /\ queue' \in Seq(Event) /\ Len(queue') <= QueueLen
           /\ Head(queue) \in Event /\ Head(queue).type = t
           /\ queue # <<>> /\ queue' = Tail(queue) /\ phase = "RUN"
  BY TailEvent, ModemAssumption DEF Receive, TypeOK

(* The three outcomes of handing an event to the module's listener.         *)
Taken ==
    /\ HasRoom(queue) /\ queue' = Append(queue, Head(bus))
    /\ bus' = Tail(bus) /\ lost' = lost
Refused ==
    /\ ~HasRoom(queue) /\ queue' = queue
    /\ bus' = Append(Tail(bus), Ev("ERROR")) /\ lost' = Missed
Unheard == queue' = queue /\ bus' = Tail(bus) /\ lost' = Missed

LEMMA DispatchOutcome == ASSUME Dispatch PROVE Taken \/ Refused \/ Unheard
  BY DEF Dispatch, Enqueue, Taken, Refused, Unheard

(* What the other modules publish.                                          *)
Request == AppRequest \/ RadioEvent \/ AppReport

-----------------------------------------------------------------------------
(* Every variable keeps its type, and the queue never holds more than       *)
(* QueueLen messages.                                                       *)
LEMMA TypeStep == TypeOK /\ [Next]_vars => TypeOK'
  <1> SUFFICES ASSUME TypeOK, [Next]_vars PROVE TypeOK'
    OBVIOUS
  <1> USE ModemAssumption
  <1>e. \A t \in EventTypes : Ev(t) \in Event
    BY EvType
  <1>t. {"ERROR", "LTE_CONNECTING", "INITIALIZED", "LTE_CONNECTED",
         "LTE_DISCONNECTED", "PARAM_UPDATE", "SHUTDOWN_READY",
         "CARRIER_INITIALIZED", "APP_LTE_DISCONNECT", "SHUTDOWN_REQUEST",
         "APP_DATA_GET", "APP_ERROR", "INCOMING_MSG_START"} \subseteq EventTypes
    BY DEF EventTypes, DrivingTypes, ConnTypes
  <1>1. CASE Dispatch
    <2>1. Head(bus) \in Event /\ Tail(bus) \in Seq(Event)
      BY <1>1, TailEvent DEF Dispatch, TypeOK
    <2>2. Ev("ERROR") \in Event
      BY <1>e, <1>t
    <2>3. CASE Taken
      <3>1. queue' \in Seq(Event) /\ Len(queue') <= QueueLen
        BY <2>1, <2>3, AppendEvent DEF Taken, TypeOK, HasRoom
      <3> QED BY <1>1, <2>1, <2>3, <3>1 DEF Dispatch, Taken, TypeOK
    <2>4. lost \in BOOLEAN /\ Missed \in BOOLEAN
      BY DEF TypeOK, Missed
    <2>5. CASE Refused
      <3>1. bus' \in Seq(Event)
        BY <2>1, <2>2, <2>5, AppendEvent DEF Refused
      <3> QED BY <1>1, <2>4, <2>5, <3>1 DEF Dispatch, Refused, TypeOK
    <2>6. CASE Unheard
      BY <1>1, <2>1, <2>4, <2>6 DEF Dispatch, Unheard, TypeOK
    <2> QED BY <1>1, <2>3, <2>5, <2>6, DispatchOutcome
  <1>2. CASE EntryPoint
    <2>1. out' \in Seq(Event)
      <3>1. \A b : ErrorUnless(b) \in Seq(Event)
        BY <1>t, OneEvent, NoEvent DEF ErrorUnless
      <3>2. <<Ev("INITIALIZED")>> \in Seq(Event)
        BY <1>t, OneEvent
      <3>3. \A a, b : ErrorUnless(a) \o <<Ev("INITIALIZED")>> \o ErrorUnless(b)
                        \in Seq(Event)
        BY <3>1, <3>2, ConcatEvents
      <3> QED BY <1>2, <3>1, <3>3, Zenon DEF EntryPoint
    <2> QED BY <1>2, <2>1 DEF EntryPoint, TypeOK, ModemStates
  <1>3. CASE SubmitNext
    BY <1>3, TailEvent DEF SubmitNext, TypeOK
  <1>4. CASE HandleStart
    <2>1. Receive("APP_START")
      BY <1>4 DEF HandleStart
    <2>2. out' \in Seq(Event)
      <3>1. <<Ev("LTE_CONNECTING")>> \o EarlyConnected \in Seq(Event)
        BY <1>t, OneEvent, EarlyType, ConcatEvents
      <3>2. <<Ev("ERROR")>> \in Seq(Event)
        BY <1>t, OneEvent
      <3> QED BY <1>4, <3>1, <3>2 DEF HandleStart, TypeOK
    <2> QED BY <1>4, <2>1, <2>2, ReceiveType DEF HandleStart, TypeOK
  <1>5. CASE HandleLteDisconnect
    <2>1. Receive("APP_LTE_DISCONNECT")
      BY <1>5 DEF HandleLteDisconnect
    <2>2. out' \in Seq(Event)
      <3>1. <<Ev("ERROR")>> \in Seq(Event)
        BY <1>t, OneEvent
      <3>2. out' = <<>> \/ out' = <<Ev("ERROR")>> \/ out' = out
        BY <1>5, Zenon DEF HandleLteDisconnect
      <3>3. out \in Seq(Event)
        BY DEF TypeOK
      <3> QED BY <3>1, <3>2, <3>3, NoEvent, Zenon
    <2> QED BY <1>5, <2>1, <2>2, ReceiveType
            DEF HandleLteDisconnect, TypeOK, ModemStates
  <1>6. CASE HandleDataGet
    <2>1. Receive("APP_DATA_GET")
      BY <1>6 DEF HandleDataGet
    <2>2. Head(queue).items \in SUBSET Items
      BY <2>1, ReceiveType DEF Event
    <2>3. out' \in Seq(Event)
      BY <1>6, <2>2, AnswersType, EarlyType DEF HandleDataGet
    <2> QED BY <1>6, <2>1, <2>3, ReceiveType DEF HandleDataGet, TypeOK
  <1>7. CASE HandleShutdown
    <2>1. Receive("SHUTDOWN_REQUEST")
      BY <1>7 DEF HandleShutdown
    <2>2. out' \in Seq(Event)
      BY <1>7, <1>e, <1>t DEF HandleShutdown
    <2> QED BY <1>7, <2>1, <2>2, ReceiveType
            DEF HandleShutdown, TypeOK, ModemStates
  <1>8. CASE HandleCarrierInitialized
    <2>1. Receive("CARRIER_INITIALIZED")
      BY <1>8 DEF HandleCarrierInitialized
    <2>2. out' \in Seq(Event)
      <3>1. <<Ev("INITIALIZED")>> \in Seq(Event)
        BY <1>t, OneEvent
      <3> QED BY <1>8, <3>1 DEF HandleCarrierInitialized, TypeOK
    <2> QED BY <1>8, <2>1, <2>2, ReceiveType
            DEF HandleCarrierInitialized, TypeOK, ModemStates
  <1>9. CASE HandleOther
    <2>1. PICK t \in EventTypes : Receive(t) /\ state' = OnState(t)
      BY <1>9 DEF HandleOther
    <2>2. state' \in ModemStates
      BY <2>1 DEF OnState, OnStateDisconnected, OnStateConnecting,
                  OnStateConnected, TypeOK, ModemStates
    <2> QED BY <1>9, <2>1, <2>2, ReceiveType DEF HandleOther, TypeOK
  <1>10. CASE LteCallback
    <2>1. \A e \in Event : Publish(e) => env' \in 0..MaxEnv /\ bus' \in Seq(Event)
      BY DEF Publish, TypeOK
    <2>2. ASSUME NEW s \in RegStatus \ {"NONE"}, NwRegStatus(s) PROVE TypeOK'
      BY <2>1, <2>2, <1>e, <1>t DEF NwRegStatus, TypeOK, RegStatus
    <2>3. CASE ParamUpdate
      BY <2>1, <2>3, <1>e, <1>t DEF ParamUpdate, TypeOK
    <2>4. CASE CarrierModemInit
      BY <2>1, <2>4, <1>e, <1>t DEF CarrierModemInit, TypeOK
    <2>5. CASE CarrierLteReady
      BY <2>1, <2>5, <1>e, <1>t DEF CarrierLteReady, TypeOK, RegStatus
    <2>6. CASE CarrierDisconnected
      BY <2>6 DEF CarrierDisconnected, TypeOK, RegStatus
    <2> QED BY <1>10, <2>2, <2>3, <2>4, <2>5, <2>6 DEF LteCallback
  <1>11. CASE Request
    <2>1. \A e \in Event : Publish(e) => env' \in 0..MaxEnv /\ bus' \in Seq(Event)
      BY DEF Publish, TypeOK
    <2>2. \A items \in SUBSET Items :
             [type |-> "APP_DATA_GET", items |-> items] \in Event
      BY <1>t DEF Event
    <2> QED BY <1>11, <2>1, <2>2, <1>e, <1>t
            DEF Request, AppRequest, RadioEvent, AppReport, TypeOK
  <1>12. CASE UNCHANGED vars
    BY <1>12 DEF vars, TypeOK
  <1> QED BY <1>1, <1>2, <1>3, <1>4, <1>5, <1>6, <1>7, <1>8, <1>9, <1>10,
             <1>11, <1>12 DEF Next, Others, Request, Thread

LEMMA InitType == Init => TypeOK
  <1> SUFFICES ASSUME Init PROVE TypeOK
    OBVIOUS
  <1>1. <<Ev("APP_START")>> \in Seq(Event)
    BY OneEvent DEF EventTypes
  <1>2. queue \in Seq(Event) /\ Len(queue) = 0
    BY NoEvent, Zenon DEF Init
  <1>3. out \in Seq(Event) /\ bus \in Seq(Event)
    BY <1>1, NoEvent, Zenon DEF Init
  <1>4. env \in 0..MaxEnv /\ Len(queue) <= QueueLen
    BY <1>2, ModemAssumption DEF Init
  <1> QED BY <1>2, <1>3, <1>4, Zenon DEF Init, TypeOK, ModemStates, RegStatus

THEOREM TypeCorrect == Spec => []TypeOK
  BY InitType, TypeStep, PTL DEF Spec

-----------------------------------------------------------------------------
(***************************************************************************)
(* Why a settled module agrees with the network: the last connection event *)
(* still under way, on the bus or else in the queue, says what was last    *)
(* reported; when none is under way the state says it.                     *)
(***************************************************************************)
(* An a is in s with no b after it; no b is in s.                          *)
Ends(s, a, b) == \E i \in 1..Len(s) :
                    s[i].type = a /\ \A j \in i+1..Len(s) : s[j].type # b
Free(s, b) == \A i \in 1..Len(s) : s[i].type # b

Heading(a, b, S) ==
    \/ Ends(bus, a, b)
    \/ /\ Free(bus, b)
       /\ Ends(queue, a, b) \/ (Free(queue, b) /\ state \in S)

(* Nothing is registered, and nothing handled, before the thread's loop.   *)
BootInv ==
    /\ ~handlerSet => reg = "NONE"
    /\ phase = "BOOT" => ~handlerSet
    /\ phase = "RUN" => state # "INIT"

(* No handler submits LTE_DISCONNECTED.                                    *)
OutInv == Free(out, "LTE_DISCONNECTED")

RegisteredInv ==
    ~lost /\ reg = "REGISTERED" =>
        Heading("LTE_CONNECTED", "LTE_DISCONNECTED", {"CONNECTED", "SHUTDOWN"})

IInv == TypeOK /\ BootInv /\ OutInv /\ RegisteredInv

(* The same facts the other way round, for sdk_modem.c.                    *)
ConnectedInv ==
    ~lost /\ reg \in {"NONE", "NOT_REGISTERED"} =>
        Heading("LTE_DISCONNECTED", "LTE_CONNECTED", ModemStates \ {"CONNECTED"})

CInv == TypeOK /\ BootInv /\ Free(out, "LTE_CONNECTED") /\ ConnectedInv

(* APP_EVENT_START comes before everything else, once.                     *)
StartFirst ==
    \/ /\ state # "SHUTDOWN" /\ queue = <<>> /\ bus # <<>>
       /\ Free(Tail(bus), "APP_START")
    \/ /\ state # "SHUTDOWN" /\ queue # <<>>
       /\ Free(Tail(queue), "APP_START") /\ Free(bus, "APP_START")
    \/ Free(queue, "APP_START") /\ Free(bus, "APP_START")

SInv == TypeOK /\ Free(out, "APP_START") /\ StartFirst

-----------------------------------------------------------------------------
(* How the two facts about a sequence survive the steps that change it.     *)
LEMMA AppendKeeps ==
    ASSUME NEW s \in Seq(Event), NEW e \in Event, NEW a, NEW b, e.type # b
    PROVE  /\ Ends(s, a, b) => Ends(Append(s, e), a, b)
           /\ Free(s, b) => Free(Append(s, e), b)
  <1>1. /\ Len(Append(s, e)) = Len(s) + 1 /\ Len(s) \in Nat
        /\ \A i \in 1..Len(s) : Append(s, e)[i] = s[i]
        /\ Append(s, e)[Len(s) + 1] = e
    BY AppendEvent
  <1>2. ASSUME Ends(s, a, b) PROVE Ends(Append(s, e), a, b)
    <2>1. PICK i \in 1..Len(s) :
             s[i].type = a /\ \A j \in i+1..Len(s) : s[j].type # b
      BY <1>2 DEF Ends
    <2>2. Append(s, e)[i].type = a /\ i \in 1..Len(Append(s, e))
      BY <1>1, <2>1
    <2>3. ASSUME NEW j \in i+1..Len(Append(s, e)) PROVE Append(s, e)[j].type # b
      <3>1. j = Len(s) + 1 \/ (j \in i+1..Len(s) /\ j \in 1..Len(s))
        BY <1>1, <2>3
      <3> QED BY <1>1, <2>1, <3>1
    <2> QED BY <2>2, <2>3 DEF Ends
  <1>3. ASSUME Free(s, b) PROVE Free(Append(s, e), b)
    <2> SUFFICES ASSUME NEW j \in 1..Len(Append(s, e))
                 PROVE  Append(s, e)[j].type # b
      BY DEF Free
    <2>1. j = Len(s) + 1 \/ j \in 1..Len(s)
      BY <1>1
    <2> QED BY <1>1, <1>3, <2>1 DEF Free
  <1> QED BY <1>2, <1>3

LEMMA AppendNew ==
    ASSUME NEW s \in Seq(Event), NEW e \in Event, NEW b
    PROVE  Ends(Append(s, e), e.type, b)
  <1>1. /\ Len(Append(s, e)) = Len(s) + 1 /\ Len(s) \in Nat
        /\ Append(s, e)[Len(s) + 1] = e
    BY AppendEvent
  <1> QED BY <1>1 DEF Ends

LEMMA TailKeeps ==
    ASSUME NEW s \in Seq(Event), s # <<>>, NEW a, NEW b
    PROVE  /\ Free(s, b) => Head(s).type # b /\ Free(Tail(s), b)
           /\ Ends(s, a, b) => \/ Ends(Tail(s), a, b)
                               \/ Head(s).type = a /\ Free(Tail(s), b)
  <1>1. /\ Head(s) = s[1] /\ Len(s) \in Nat \ {0}
        /\ Len(Tail(s)) = Len(s) - 1
        /\ \A i \in 1..Len(Tail(s)) : Tail(s)[i] = s[i + 1]
    BY TailEvent
  <1>2. ASSUME Free(s, b) PROVE Head(s).type # b /\ Free(Tail(s), b)
    <2>1. \A i \in 1..Len(Tail(s)) : i + 1 \in 1..Len(s)
      BY <1>1
    <2>2. 1 \in 1..Len(s)
      BY <1>1
    <2> QED BY <1>1, <1>2, <2>1, <2>2 DEF Free
  <1>3. ASSUME Ends(s, a, b)
        PROVE  Ends(Tail(s), a, b) \/ (Head(s).type = a /\ Free(Tail(s), b))
    <2>1. PICK i \in 1..Len(s) :
             s[i].type = a /\ \A j \in i+1..Len(s) : s[j].type # b
      BY <1>3 DEF Ends
    <2>2. CASE i = 1
      <3>1. ASSUME NEW j \in 1..Len(Tail(s)) PROVE Tail(s)[j].type # b
        <4>1. j + 1 \in i+1..Len(s)
          BY <1>1, <2>2, <3>1
        <4> QED BY <1>1, <2>1, <4>1
      <3> QED BY <1>1, <2>1, <2>2, <3>1 DEF Free
    <2>3. CASE i # 1
      <3>1. i - 1 \in 1..Len(Tail(s)) /\ (i - 1) + 1 = i
        BY <1>1, <2>3
      <3>2. Tail(s)[i - 1].type = a
        BY <1>1, <2>1, <3>1
      <3>3. ASSUME NEW j \in (i - 1)+1..Len(Tail(s)) PROVE Tail(s)[j].type # b
        <4>1. j + 1 \in i+1..Len(s) /\ j \in 1..Len(Tail(s))
          BY <1>1, <3>1, <3>3
        <4> QED BY <1>1, <2>1, <4>1
      <3> QED BY <3>1, <3>2, <3>3 DEF Ends
    <2> QED BY <2>2, <2>3
  <1> QED BY <1>2, <1>3

-----------------------------------------------------------------------------
(* How Heading survives the kinds of step that touch the bus or the queue.  *)
LEMMA HeadingDispatch ==
    ASSUME TypeOK, Dispatch, ~lost', NEW a \in ConnTypes, NEW b \in ConnTypes,
           NEW S, Heading(a, b, S)
    PROVE  Heading(a, b, S)' /\ ~lost
  <1> DEFINE e == Head(bus)
  <1>1. /\ bus \in Seq(Event) /\ queue \in Seq(Event) /\ bus # <<>>
        /\ e \in Event /\ Tail(bus) \in Seq(Event) /\ state' = state
    BY TailEvent DEF Dispatch, TypeOK
  <1>2. Ends(bus, a, b) => Ends(Tail(bus), a, b) \/ (e.type = a /\ Free(Tail(bus), b))
    BY <1>1, TailKeeps
  <1>3. Free(bus, b) => e.type # b /\ Free(Tail(bus), b)
    BY <1>1, TailKeeps
  <1>4. CASE Taken
    <2>1. queue' = Append(queue, e) /\ bus' = Tail(bus) /\ lost' = lost
      BY <1>4 DEF Taken
    <2>2. e.type = a => Ends(queue', a, b)
      BY <1>1, <2>1, AppendNew
    <2>3. e.type # b => /\ Ends(queue, a, b) => Ends(queue', a, b)
                        /\ Free(queue, b) => Free(queue', b)
      BY <1>1, <2>1, AppendKeeps
    <2>4. Ends(Tail(bus), a, b) => Heading(a, b, S)'
      BY <2>1 DEF Heading
    <2> QED BY <1>1, <1>2, <1>3, <2>1, <2>2, <2>3, <2>4 DEF Heading
  <1>5. CASE Refused
    <2>1. /\ queue' = queue /\ bus' = Append(Tail(bus), Ev("ERROR"))
          /\ ~lost /\ e.type \notin DrivingTypes
      BY <1>5 DEF Refused, Missed
    <2>2. Ev("ERROR") \in Event /\ Ev("ERROR").type # b
      BY EvType DEF EventTypes, DrivingTypes, ConnTypes, Ev
    <2>3. /\ Ends(Tail(bus), a, b) => Ends(bus', a, b)
          /\ Free(Tail(bus), b) => Free(bus', b)
      BY <1>1, <2>1, <2>2, AppendKeeps
    <2>4. e.type # a
      BY <2>1 DEF DrivingTypes
    <2> QED BY <1>1, <1>2, <1>3, <2>1, <2>3, <2>4 DEF Heading
  <1>6. CASE Unheard
    <2>1. /\ queue' = queue /\ bus' = Tail(bus)
          /\ ~lost /\ e.type \notin DrivingTypes
      BY <1>6 DEF Unheard, Missed
    <2>2. e.type # a
      BY <2>1 DEF DrivingTypes
    <2> QED BY <1>1, <1>2, <1>3, <2>1, <2>2 DEF Heading
  <1> QED BY <1>4, <1>5, <1>6, DispatchOutcome

LEMMA HeadingReceive ==
    ASSUME TypeOK, NEW t, Receive(t), bus' = bus, NEW a, NEW b, NEW S,
           Heading(a, b, S),
           t = a => state' \in S,
           t # b /\ state \in S => state' \in S
    PROVE  Heading(a, b, S)'
  <1>1. /\ queue \in Seq(Event) /\ queue # <<>> /\ queue' = Tail(queue)
        /\ Head(queue).type = t
    BY ReceiveType DEF TypeOK
  <1>2. /\ Free(queue, b) => t # b /\ Free(queue', b)
        /\ Ends(queue, a, b) => Ends(queue', a, b) \/ (t = a /\ Free(queue', b))
    BY <1>1, TailKeeps
  <1> QED BY <1>1, <1>2 DEF Heading

LEMMA HeadingPublish ==
    ASSUME TypeOK, NEW e \in Event, bus' = Append(bus, e), NEW a, NEW b, NEW S,
           queue' = queue, state' = state, e.type # b, Heading(a, b, S)
    PROVE  Heading(a, b, S)'
  <1>1. bus \in Seq(Event)
    BY DEF TypeOK
  <1>2. /\ Ends(bus, a, b) => Ends(bus', a, b)
        /\ Free(bus, b) => Free(bus', b)
    BY <1>1, AppendKeeps
  <1> QED BY <1>2 DEF Heading

LEMMA HeadingNew ==
    ASSUME TypeOK, NEW e \in Event, bus' = Append(bus, e), NEW b, NEW S
    PROVE  Heading(e.type, b, S)'
  <1>1. Ends(bus', e.type, b)
    BY AppendNew DEF TypeOK
  <1> QED BY <1>1 DEF Heading

-----------------------------------------------------------------------------
(* What the handlers may submit.                                            *)
LEMMA FreeConcat ==
    ASSUME NEW s \in Seq(Event), NEW r \in Seq(Event), NEW b,
           Free(s, b), Free(r, b)
    PROVE  Free(s \o r, b)
  <1>1. /\ Len(s \o r) = Len(s) + Len(r) /\ Len(s) \in Nat /\ Len(r) \in Nat
        /\ \A i \in 1..Len(s \o r) :
             (s \o r)[i] = IF i <= Len(s) THEN s[i] ELSE r[i - Len(s)]
    OBVIOUS
  <1> SUFFICES ASSUME NEW i \in 1..Len(s \o r) PROVE (s \o r)[i].type # b
    BY DEF Free
  <1>2. CASE i <= Len(s)
    BY <1>1, <1>2 DEF Free
  <1>3. CASE ~(i <= Len(s))
    <2>1. i - Len(s) \in 1..Len(r)
      BY <1>1, <1>3
    <2> QED BY <1>1, <1>3, <2>1 DEF Free
  <1> QED BY <1>2, <1>3

LEMMA FreeOne ==
    ASSUME NEW t, NEW b, t # b
    PROVE  Free(<<Ev(t)>>, b) /\ Free(<<>>, b)
  BY DEF Free, Ev

LEMMA FreeNothing == \A b : Free(<<>>, b)
  BY DEF Free

LEMMA FreeAnswers ==
    ASSUME NEW items \in SUBSET Items, NEW failed \in SUBSET items, NEW b,
           b \notin {"DATA_READY", "DATA_NOT_READY"}
    PROVE  Free(Answers(items, failed), b)
  <1>1. \A i : Answer(i, items, failed) \in Seq(Event)
               /\ Free(Answer(i, items, failed), b)
    <2> SUFFICES ASSUME NEW i
                 PROVE  Answer(i, items, failed) \in Seq(Event)
                        /\ Free(Answer(i, items, failed), b)
      OBVIOUS
    <2>1. /\ <<Ev("DATA_READY")>> \in Seq(Event) /\ Free(<<Ev("DATA_READY")>>, b)
          /\ <<Ev("DATA_NOT_READY")>> \in Seq(Event)
          /\ Free(<<Ev("DATA_NOT_READY")>>, b)
          /\ <<>> \in Seq(Event) /\ Free(<<>>, b)
      BY OneEvent, NoEvent, FreeOne DEF EventTypes
    <2> QED BY <2>1, Zenon DEF Answer
  <1> DEFINE A(i) == Answer(i, items, failed)
  <1>2. A("STATIC") \o A("DYNAMIC") \in Seq(Event) /\ Free(A("STATIC") \o A("DYNAMIC"), b)
    BY <1>1, FreeConcat, ConcatEvents
  <1>3. /\ A("STATIC") \o A("DYNAMIC") \o A("BATTERY") \in Seq(Event)
        /\ Free(A("STATIC") \o A("DYNAMIC") \o A("BATTERY"), b)
    BY <1>1, <1>2, FreeConcat, ConcatEvents
  <1>4. Free(A("STATIC") \o A("DYNAMIC") \o A("BATTERY") \o A("NEIGHBOR"), b)
    BY <1>1, <1>3, FreeConcat
  <1> QED BY <1>4 DEF Answers

LEMMA FreeEarly ==
    ASSUME NEW b, b # "LTE_CONNECTED" \/ ~AnnounceEarly
    PROVE  Free(EarlyConnected, b)
  BY FreeOne DEF EarlyConnected, Free

(* No handler submits APP_EVENT_START or LTE_DISCONNECTED, and only modem.c *)
(* submits LTE_CONNECTED from the thread.                                   *)
NotSubmitted(b) ==
    \/ b \in {"APP_START", "LTE_DISCONNECTED"}
    \/ b = "LTE_CONNECTED" /\ ~AnnounceEarly

LEMMA OutStep ==
    ASSUME TypeOK, [Next]_vars, NEW b, NotSubmitted(b), Free(out, b)
    PROVE  Free(out', b)
  <1>1. CASE EntryPoint
    <2>1. "INITIALIZED" # b /\ "ERROR" # b
      BY DEF NotSubmitted
    <2>2. \A c : ErrorUnless(c) \in Seq(Event) /\ Free(ErrorUnless(c), b)
      BY <2>1, OneEvent, NoEvent, FreeOne DEF ErrorUnless, EventTypes
    <2>3. <<Ev("INITIALIZED")>> \in Seq(Event) /\ Free(<<Ev("INITIALIZED")>>, b)
      BY <2>1, OneEvent, FreeOne DEF EventTypes
    <2>4. \A c : ErrorUnless(c) \o <<Ev("INITIALIZED")>> \in Seq(Event)
                 /\ Free(ErrorUnless(c) \o <<Ev("INITIALIZED")>>, b)
      BY <2>2, <2>3, ConcatEvents, FreeConcat
    <2>5. \A c, d :
             Free(ErrorUnless(c) \o <<Ev("INITIALIZED")>> \o ErrorUnless(d), b)
      BY <2>2, <2>4, FreeConcat
    <2> QED BY <1>1, <2>2, <2>5, Zenon DEF EntryPoint
  <1>2. CASE SubmitNext
    <2>1. out' = Tail(out) /\ out # <<>> /\ out \in Seq(Event)
      BY <1>2 DEF SubmitNext, TypeOK
    <2> QED BY <2>1, TailKeeps
  <1>3. CASE HandleStart
    <2>1. \/ out' = out \/ out' = <<Ev("ERROR")>>
          \/ out' = <<Ev("LTE_CONNECTING")>> \o EarlyConnected
      BY <1>3 DEF HandleStart
    <2>2. Free(<<Ev("ERROR")>>, b) /\ Free(<<Ev("LTE_CONNECTING")>>, b)
      BY FreeOne DEF NotSubmitted
    <2>3. <<Ev("LTE_CONNECTING")>> \in Seq(Event)
      BY OneEvent DEF EventTypes
    <2>4. Free(EarlyConnected, b)
      BY FreeEarly DEF NotSubmitted
    <2>5. Free(<<Ev("LTE_CONNECTING")>> \o EarlyConnected, b)
      BY <2>2, <2>3, <2>4, EarlyType, FreeConcat
    <2> QED BY <2>1, <2>2, <2>5
  <1>4. CASE HandleLteDisconnect
    <2>1. out' = <<>> \/ out' = <<Ev("ERROR")>> \/ out' = out
      BY <1>4, Zenon DEF HandleLteDisconnect
    <2>2. Free(<<>>, b) /\ Free(<<Ev("ERROR")>>, b)
      BY FreeOne DEF NotSubmitted
    <2> QED BY <2>1, <2>2, Zenon
  <1>5. CASE HandleDataGet
    <2>1. Head(queue).items \in SUBSET Items
      BY <1>5, ReceiveType DEF HandleDataGet, Event
    <2>2. PICK failed \in SUBSET Head(queue).items :
             out' = EarlyConnected \o Answers(Head(queue).items, failed)
      BY <1>5 DEF HandleDataGet
    <2>3. Free(Answers(Head(queue).items, failed), b)
      BY <2>1, FreeAnswers DEF NotSubmitted
    <2>4. Free(EarlyConnected, b)
      BY FreeEarly DEF NotSubmitted
    <2> QED BY <2>1, <2>2, <2>3, <2>4, EarlyType, AnswersType, FreeConcat
  <1>6. CASE HandleShutdown
    <2>1. out' = <<Ev("SHUTDOWN_READY")>>
      BY <1>6 DEF HandleShutdown
    <2> QED BY <2>1, FreeOne DEF NotSubmitted
  <1>7. CASE HandleCarrierInitialized
    <2>1. out' = <<Ev("INITIALIZED")>> \/ out' = out
      BY <1>7, Zenon DEF HandleCarrierInitialized
    <2> QED BY <2>1, FreeOne DEF NotSubmitted
  <1>8. ASSUME UNCHANGED out PROVE Free(out', b)
    BY <1>8
  <1>9. CASE Dispatch \/ HandleOther
    BY <1>9, <1>8 DEF Dispatch, HandleOther
  <1>10. CASE LteCallback \/ Request
    BY <1>10, <1>8 DEF LteCallback, Request, AppRequest, RadioEvent, AppReport,
          NwRegStatus, ParamUpdate, CarrierModemInit, CarrierLteReady,
          CarrierDisconnected
  <1>11. CASE UNCHANGED vars
    BY <1>11, <1>8 DEF vars
  <1> QED BY <1>1, <1>2, <1>3, <1>4, <1>5, <1>6, <1>7, <1>9, <1>10, <1>11
          DEF Next, Others, Request, Thread

-----------------------------------------------------------------------------
LEMMA BootStep == ASSUME ~Carrier, TypeOK, BootInv, [Next]_vars PROVE BootInv'
  <1> USE DEF BootInv
  <1>1. CASE Dispatch
    BY <1>1 DEF Dispatch
  <1>2. CASE EntryPoint
    BY <1>2 DEF EntryPoint
  <1>3. CASE SubmitNext
    BY <1>3 DEF SubmitNext
  <1>4. CASE HandleStart
    BY <1>4 DEF HandleStart, Receive
  <1>5. CASE HandleLteDisconnect
    BY <1>5 DEF HandleLteDisconnect, Receive
  <1>6. CASE HandleDataGet
    BY <1>6 DEF HandleDataGet, Receive
  <1>7. CASE HandleShutdown
    BY <1>7 DEF HandleShutdown, Receive
  <1>8. CASE HandleCarrierInitialized
    BY <1>8 DEF HandleCarrierInitialized, Receive
  <1>9. CASE HandleOther
    <2>1. PICK t \in EventTypes : Receive(t) /\ state' = OnState(t)
      BY <1>9 DEF HandleOther
    <2>2. phase = "RUN" /\ state # "INIT" /\ state \in ModemStates
      BY <2>1 DEF Receive, TypeOK
    <2>3. state' # "INIT"
      BY <2>1, <2>2 DEF OnState, OnStateDisconnected, OnStateConnecting,
                        OnStateConnected, ModemStates
    <2> QED BY <1>9, <2>3 DEF HandleOther
  <1>10. CASE LteCallback
    BY <1>10 DEF LteCallback, NwRegStatus, ParamUpdate, CarrierModemInit,
                 CarrierLteReady, CarrierDisconnected
  <1>11. CASE Request
    BY <1>11 DEF Request, AppRequest, RadioEvent, AppReport
  <1>12. CASE UNCHANGED vars
    BY <1>12 DEF vars
  <1> QED BY <1>1, <1>2, <1>3, <1>4, <1>5, <1>6, <1>7, <1>8, <1>9, <1>10,
             <1>11, <1>12 DEF Next, Others, Request, Thread

(* What the other modules publish is neither a connection event nor START.  *)
LEMMA RequestEvent ==
    ASSUME Request
    PROVE  \E e \in Event : /\ bus' = Append(bus, e)
                            /\ e.type \notin ConnTypes /\ e.type # "APP_START"
  <1> DEFINE Names == {"APP_LTE_DISCONNECT", "SHUTDOWN_REQUEST", "APP_ERROR",
                       "INCOMING_MSG_START"}
  <1> DEFINE Other(e) == e.type \notin ConnTypes /\ e.type # "APP_START"
  <1>1. \A t \in Names : Ev(t) \in Event /\ Other(Ev(t))
    BY EvType DEF EventTypes, Ev, ConnTypes
  <1>2. \A items \in SUBSET Items :
          /\ [type |-> "APP_DATA_GET", items |-> items] \in Event
          /\ Other([type |-> "APP_DATA_GET", items |-> items])
    BY DEF Event, EventTypes, ConnTypes
  <1>3. \/ \E t \in Names : bus' = Append(bus, Ev(t))
        \/ \E items \in SUBSET Items :
             bus' = Append(bus, [type |-> "APP_DATA_GET", items |-> items])
    BY DEF Request, AppRequest, RadioEvent, AppReport, Publish
  <1> QED BY <1>1, <1>2, <1>3, Zenon

(* Every step but a registration status keeps Heading(a, b, S), when the    *)
(* state handlers turn a into S and leave S for b only.                     *)
LEMMA HeadingStep ==
    ASSUME ~Carrier, TypeOK, BootInv, [Next]_vars, ~lost',
           NEW a \in ConnTypes, NEW b \in ConnTypes, NEW S,
           NotSubmitted(b), Free(out, b), Heading(a, b, S),
           ~ \E s \in RegStatus \ {"NONE"} : NwRegStatus(s),
           "SHUTDOWN" \in S, "CONNECTING" \in S => "DISCONNECTED" \in S,
           phase = "BOOT" => "DISCONNECTED" \in S,
           state # "INIT" => OnState(a) \in S,
           \A t : t # b /\ state \in S => OnState(t) \in S
    PROVE  Heading(a, b, S)'
  <1>1. CASE Dispatch
    BY <1>1, HeadingDispatch
  <1>2. CASE EntryPoint
    BY <1>2 DEF EntryPoint, Heading
  <1>3. CASE SubmitNext
    <2>1. /\ out # <<>> /\ out \in Seq(Event) /\ bus' = Append(bus, Head(out))
          /\ queue' = queue /\ state' = state
      BY <1>3 DEF SubmitNext, TypeOK
    <2>2. Head(out) \in Event /\ Head(out).type # b
      BY <2>1, TailEvent, TailKeeps
    <2> QED BY <2>1, <2>2, HeadingPublish
  <1>4. CASE HandleStart
    <2>1. Receive("APP_START") /\ bus' = bus /\ state' = state
      BY <1>4 DEF HandleStart
    <2> QED BY <2>1, HeadingReceive DEF ConnTypes
  <1>5. CASE HandleLteDisconnect
    <2>1. Receive("APP_LTE_DISCONNECT") /\ bus' = bus
      BY <1>5 DEF HandleLteDisconnect
    <2>2. state \in S => state' \in S
      BY <1>5 DEF HandleLteDisconnect
    <2> QED BY <2>1, <2>2, HeadingReceive DEF ConnTypes
  <1>6. CASE HandleDataGet
    <2>1. Receive("APP_DATA_GET") /\ bus' = bus /\ state' = state
      BY <1>6 DEF HandleDataGet
    <2> QED BY <2>1, HeadingReceive DEF ConnTypes
  <1>7. CASE HandleShutdown
    <2>1. Receive("SHUTDOWN_REQUEST") /\ bus' = bus /\ state' = "SHUTDOWN"
      BY <1>7 DEF HandleShutdown
    <2> QED BY <2>1, HeadingReceive DEF ConnTypes
  <1>8. CASE HandleCarrierInitialized
    <2>1. Receive("CARRIER_INITIALIZED") /\ bus' = bus
      BY <1>8 DEF HandleCarrierInitialized
    <2>2. state' = state
      BY <1>8, <2>1 DEF HandleCarrierInitialized, BootInv, Receive
    <2> QED BY <2>1, <2>2, HeadingReceive DEF ConnTypes
  <1>9. CASE HandleOther
    <2>1. PICK t \in EventTypes : Receive(t) /\ state' = OnState(t)
      BY <1>9 DEF HandleOther
    <2>2. bus' = bus /\ state # "INIT"
      BY <1>9, <2>1 DEF HandleOther, BootInv, Receive
    <2> QED BY <2>1, <2>2, HeadingReceive
  <1>10. CASE LteCallback
    <2>1. /\ bus' = Append(bus, Ev("PARAM_UPDATE"))
          /\ queue' = queue /\ state' = state
      BY <1>10 DEF LteCallback, ParamUpdate, Publish, CarrierModemInit,
                   CarrierLteReady, CarrierDisconnected
    <2>2. Ev("PARAM_UPDATE") \in Event /\ Ev("PARAM_UPDATE").type # b
      BY EvType DEF EventTypes, Ev, ConnTypes
    <2> QED BY <2>1, <2>2, HeadingPublish
  <1>11. CASE Request
    <2>1. PICK e \in Event : bus' = Append(bus, e) /\ e.type \notin ConnTypes
      BY <1>11, RequestEvent
    <2>2. queue' = queue /\ state' = state
      BY <1>11 DEF Request, AppRequest, RadioEvent, AppReport
    <2> QED BY <2>1, <2>2, HeadingPublish
  <1>12. CASE UNCHANGED vars
    BY <1>12 DEF vars, Heading
  <1> QED BY <1>1, <1>2, <1>3, <1>4, <1>5, <1>6, <1>7, <1>8, <1>9, <1>10,
             <1>11, <1>12 DEF Next, Others, Request, Thread
-----------------------------------------------------------------------------
(* A registration status is what the new last connection event says.        *)
LEMMA StatusStep ==
    ASSUME TypeOK, NEW s \in RegStatus \ {"NONE"}, NwRegStatus(s), NEW b, NEW S
    PROVE  /\ reg' = s /\ lost' = lost
           /\ s = "REGISTERED" => Heading("LTE_CONNECTED", b, S)'
           /\ s = "NOT_REGISTERED" => Heading("LTE_DISCONNECTED", b, S)'
  <1>1. reg' = s /\ lost' = lost
    BY DEF NwRegStatus
  <1>2. /\ Ev("LTE_CONNECTED") \in Event /\ Ev("LTE_DISCONNECTED") \in Event
        /\ Ev("LTE_CONNECTED").type = "LTE_CONNECTED"
        /\ Ev("LTE_DISCONNECTED").type = "LTE_DISCONNECTED"
    BY EvType DEF EventTypes, DrivingTypes, ConnTypes, Ev
  <1>3. ASSUME s = "REGISTERED" PROVE Heading("LTE_CONNECTED", b, S)'
    <2>1. bus' = Append(bus, Ev("LTE_CONNECTED"))
      BY <1>3 DEF NwRegStatus, Publish
    <2> QED BY <1>2, <2>1, HeadingNew
  <1>4. ASSUME s = "NOT_REGISTERED" PROVE Heading("LTE_DISCONNECTED", b, S)'
    <2>1. bus' = Append(bus, Ev("LTE_DISCONNECTED"))
      BY <1>4 DEF NwRegStatus, Publish
    <2> QED BY <1>2, <2>1, HeadingNew
  <1> QED BY <1>1, <1>3, <1>4

(* Without a status callback the reported status does not change, and an    *)
(* event once lost stays lost.                                              *)
LEMMA QuietStep ==
    ASSUME ~Carrier, [Next]_vars, ~ \E s \in RegStatus \ {"NONE"} : NwRegStatus(s)
    PROVE  reg' = reg
  <1>1. CASE Dispatch
    BY <1>1 DEF Dispatch
  <1>2. CASE Thread
    BY <1>2 DEF Thread, EntryPoint, SubmitNext, HandleStart, HandleDataGet,
                HandleLteDisconnect, HandleShutdown, HandleOther,
                HandleCarrierInitialized
  <1>3. CASE LteCallback
    BY <1>3 DEF LteCallback, ParamUpdate, CarrierModemInit, CarrierLteReady,
                CarrierDisconnected
  <1>4. CASE Request
    BY <1>4 DEF Request, AppRequest, RadioEvent, AppReport
  <1>5. CASE UNCHANGED vars
    BY <1>5 DEF vars
  <1> QED BY <1>1, <1>2, <1>3, <1>4, <1>5 DEF Next, Others, Request

LEMMA LostStep == ASSUME TypeOK, [Next]_vars, ~lost' PROVE ~lost
  <1>1. CASE Dispatch
    BY <1>1, DispatchOutcome DEF Taken, Refused, Unheard, Missed
  <1>2. CASE Thread
    BY <1>2 DEF Thread, EntryPoint, SubmitNext, HandleStart, HandleDataGet,
                HandleLteDisconnect, HandleShutdown, HandleOther,
                HandleCarrierInitialized
  <1>3. CASE LteCallback
    BY <1>3 DEF LteCallback, NwRegStatus, ParamUpdate, CarrierModemInit,
                CarrierLteReady, CarrierDisconnected
  <1>4. CASE Request
    BY <1>4 DEF Request, AppRequest, RadioEvent, AppReport
  <1>5. CASE UNCHANGED vars
    BY <1>5 DEF vars
  <1> QED BY <1>1, <1>2, <1>3, <1>4, <1>5 DEF Next, Others, Request

LEMMA RegisteredStep ==
    ASSUME ~Carrier, IInv, [Next]_vars PROVE IInv'
  <1> DEFINE S == {"CONNECTED", "SHUTDOWN"}
  <1>1. TypeOK' /\ BootInv' /\ OutInv'
    BY TypeStep, BootStep, OutStep DEF IInv, OutInv, NotSubmitted
  <1>2. ASSUME ~lost', reg' = "REGISTERED"
        PROVE  Heading("LTE_CONNECTED", "LTE_DISCONNECTED", S)'
    <2>1. CASE \E s \in RegStatus \ {"NONE"} : NwRegStatus(s)
      <3>1. PICK s \in RegStatus \ {"NONE"} : NwRegStatus(s)
        BY <2>1
      <3> QED BY <1>2, <3>1, StatusStep DEF IInv
    <2>2. CASE ~ \E s \in RegStatus \ {"NONE"} : NwRegStatus(s)
      <3>1. reg = "REGISTERED" /\ ~lost
        BY <1>2, <2>2, QuietStep, LostStep DEF IInv
      <3>2. Heading("LTE_CONNECTED", "LTE_DISCONNECTED", S)
        BY <3>1 DEF IInv, RegisteredInv
      <3>3. phase # "BOOT" /\ state \in ModemStates
        BY <3>1 DEF IInv, BootInv, TypeOK
      <3>4. state # "INIT" => OnState("LTE_CONNECTED") \in S
        BY <3>3 DEF OnState, OnStateDisconnected, OnStateConnecting,
                    OnStateConnected, ModemStates
      <3>5. \A t : t # "LTE_DISCONNECTED" /\ state \in S => OnState(t) \in S
        BY DEF OnState, OnStateConnected
      <3> QED BY <1>2, <2>2, <3>2, <3>3, <3>4, <3>5, HeadingStep
              DEF IInv, OutInv, NotSubmitted, ConnTypes
    <2> QED BY <2>1, <2>2
  <1> QED BY <1>1, <1>2 DEF IInv, RegisteredInv

LEMMA RegisteredByNetwork ==
    ASSUME ~Carrier PROVE Spec => []RegisteredIsConnected
  <1>1. Init => IInv
    <2>1. Init => out = <<>> /\ reg # "REGISTERED"
      BY DEF Init
    <2>2. Init => OutInv /\ RegisteredInv
      BY <2>1, FreeNothing DEF OutInv, RegisteredInv
    <2>3. Init => BootInv
      BY DEF Init, BootInv
    <2> QED BY <2>2, <2>3, InitType DEF IInv
  <1>2. IInv /\ [Next]_vars => IInv'
    BY RegisteredStep
  <1>3. IInv => RegisteredIsConnected
    <2> SUFFICES ASSUME IInv, Idle, ~lost, reg = "REGISTERED"
                 PROVE  state \in {"CONNECTED", "SHUTDOWN"}
      BY DEF RegisteredIsConnected
    <2>1. \A a, b : ~Ends(<<>>, a, b)
      BY DEF Ends
    <2> QED BY <2>1, Zenon DEF IInv, RegisteredInv, Heading, Idle
  <1> QED BY <1>1, <1>2, <1>3, PTL DEF Spec

-----------------------------------------------------------------------------
(***************************************************************************)
(* The carrier build.  There no LTE_DISCONNECTED is published, and the     *)
(* module leaves INIT for CARRIER_INITIALIZED, which the carrier library   *)
(* reports before LTE_CONNECTED: as long as the module is in INIT both are *)
(* under way in this order, and afterwards LTE_CONNECTED is, or has been   *)
(* handled.                                                                *)
(***************************************************************************)
Coming(t) == Holds(queue, t) \/ Holds(bus, t)

(* An a is in s, and a b after it.                                         *)
Follows(s, a, b) ==
    \E i, j \in 1..Len(s) : i < j /\ s[i].type = a /\ s[j].type = b

ComingInOrder(a, b) ==
    Follows(queue, a, b) \/ Follows(bus, a, b) \/ (Holds(queue, a) /\ Holds(bus, b))

NeverSays(b) == Free(queue, b) /\ Free(bus, b) /\ Free(out, b)

(* In INIT, CARRIER_INITIALIZED is under way once it has been published.    *)
Initializing ==
    ~lost /\ handlerSet /\ state = "INIT" => Coming("CARRIER_INITIALIZED")

Connecting ==
    ~lost /\ reg = "REGISTERED" =>
        IF state = "INIT" THEN ComingInOrder("CARRIER_INITIALIZED", "LTE_CONNECTED")
        ELSE Coming("LTE_CONNECTED") \/ state \in {"CONNECTED", "SHUTDOWN"}

CarrierInv ==
    /\ TypeOK
    /\ ~handlerSet => reg = "NONE"
    /\ phase = "BOOT" => state = "INIT"
    /\ NeverSays("LTE_DISCONNECTED")
    /\ Initializing
    /\ Connecting

(* How they survive the steps that change a sequence.                       *)
LEMMA HoldsAppend ==
    ASSUME NEW s \in Seq(Event), NEW e \in Event, NEW a, NEW b
    PROVE  /\ Holds(s, a) => Holds(Append(s, e), a)
           /\ Holds(Append(s, e), e.type)
           /\ Follows(s, a, b) => Follows(Append(s, e), a, b)
           /\ Holds(s, a) => Follows(Append(s, e), a, e.type)
  <1>1. /\ Len(Append(s, e)) = Len(s) + 1 /\ Len(s) \in Nat
        /\ \A i \in 1..Len(s) : Append(s, e)[i] = s[i]
        /\ Append(s, e)[Len(s) + 1] = e
    BY AppendEvent
  <1>2. Len(s) + 1 \in 1..Len(Append(s, e))
        /\ \A i \in 1..Len(s) : i \in 1..Len(Append(s, e)) /\ i < Len(s) + 1
    BY <1>1
  <1>3. Holds(s, a) => Holds(Append(s, e), a)
    BY <1>1, <1>2, Zenon DEF Holds
  <1>4. Holds(Append(s, e), e.type)
    BY <1>1, <1>2, Zenon DEF Holds
  <1>5. Follows(s, a, b) => Follows(Append(s, e), a, b)
    BY <1>1, <1>2, Zenon DEF Follows
  <1>6. Holds(s, a) => Follows(Append(s, e), a, e.type)
    BY <1>1, <1>2, Zenon DEF Holds, Follows
  <1> QED BY <1>3, <1>4, <1>5, <1>6

LEMMA HoldsTail ==
    ASSUME NEW s \in Seq(Event), s # <<>>, NEW a, NEW b
    PROVE  /\ Holds(s, a) => Head(s).type = a \/ Holds(Tail(s), a)
           /\ Follows(s, a, b) => \/ Follows(Tail(s), a, b)
                                  \/ Head(s).type = a /\ Holds(Tail(s), b)
           /\ Follows(s, a, b) => Holds(Tail(s), b)
  <1>1. /\ Head(s) = s[1] /\ Len(s) \in Nat \ {0}
        /\ Len(Tail(s)) = Len(s) - 1
        /\ \A i \in 1..Len(Tail(s)) : Tail(s)[i] = s[i + 1]
    BY TailEvent
  <1>2. ASSUME NEW i \in 1..Len(s), i # 1
        PROVE  i - 1 \in 1..Len(Tail(s)) /\ Tail(s)[i - 1] = s[i]
    <2>1. i - 1 \in 1..Len(Tail(s)) /\ (i - 1) + 1 = i
      BY <1>1, <1>2
    <2> QED BY <1>1, <2>1
  <1>3. Holds(s, a) => Head(s).type = a \/ Holds(Tail(s), a)
    BY <1>1, <1>2, Zenon DEF Holds
  <1>4. ASSUME Follows(s, a, b)
        PROVE  /\ Holds(Tail(s), b)
               /\ Follows(Tail(s), a, b) \/ Head(s).type = a
    <2>1. PICK i, j \in 1..Len(s) : i < j /\ s[i].type = a /\ s[j].type = b
      BY <1>4 DEF Follows
    <2>2. j # 1 BY <2>1
    <2>3. j - 1 \in 1..Len(Tail(s)) /\ Tail(s)[j - 1].type = b
      BY <1>2, <2>1, <2>2
    <2>4. CASE i = 1 BY <1>1, <2>1, <2>3, <2>4 DEF Holds
    <2>5. CASE i # 1
      <3>1. i - 1 \in 1..Len(Tail(s)) /\ Tail(s)[i - 1].type = a
        BY <1>2, <2>1, <2>5
      <3>2. i - 1 < j - 1 BY <2>1
      <3> QED BY <2>3, <3>1, <3>2 DEF Holds, Follows
    <2> QED BY <2>4, <2>5
  <1> QED BY <1>3, <1>4

-----------------------------------------------------------------------------
LEMMA ComingDispatch ==
    ASSUME TypeOK, Dispatch, ~lost', NEW a \in DrivingTypes, NEW b \in DrivingTypes
    PROVE  /\ Coming(a) => Coming(a)'
           /\ ComingInOrder(a, b) => ComingInOrder(a, b)'
           /\ ~lost
  <1> DEFINE e == Head(bus)
  <1>1. /\ bus \in Seq(Event) /\ queue \in Seq(Event) /\ bus # <<>>
        /\ e \in Event /\ Tail(bus) \in Seq(Event)
    BY TailEvent DEF Dispatch, TypeOK
  <1>2. /\ \A t : Holds(bus, t) => e.type = t \/ Holds(Tail(bus), t)
        /\ Follows(bus, a, b) => \/ Follows(Tail(bus), a, b)
                                 \/ e.type = a /\ Holds(Tail(bus), b)
    BY <1>1, HoldsTail
  <1> HIDE DEF e
  <1>3. CASE Taken
    <2>1. queue' = Append(queue, e) /\ bus' = Tail(bus) /\ lost' = lost
      BY <1>3 DEF Taken, e
    <2>2. /\ \A t : Holds(queue, t) => Holds(queue', t)
          /\ Holds(queue', e.type)
          /\ Follows(queue, a, b) => Follows(queue', a, b)
          /\ Holds(queue, a) => Follows(queue', a, e.type)
      BY <1>1, <2>1, HoldsAppend
    <2>3. Coming(a) => Coming(a)'
      BY <1>2, <2>1, <2>2, Zenon DEF Coming
    <2>4. ComingInOrder(a, b) => ComingInOrder(a, b)'
      BY <1>2, <2>1, <2>2, Zenon DEF ComingInOrder
    <2> QED BY <2>1, <2>3, <2>4
  <1>4. CASE Refused
    <2>1. /\ queue' = queue /\ bus' = Append(Tail(bus), Ev("ERROR"))
          /\ ~lost /\ e.type \notin DrivingTypes
      BY <1>4 DEF Refused, Missed, e
    <2>2. Ev("ERROR") \in Event BY EvType DEF EventTypes
    <2>3. /\ \A t : Holds(Tail(bus), t) => Holds(bus', t)
          /\ Follows(Tail(bus), a, b) => Follows(bus', a, b)
      BY <1>1, <2>1, <2>2, HoldsAppend
    <2>4. e.type # a /\ e.type # b BY <2>1
    <2>5. Coming(a) => Coming(a)'
      BY <1>2, <2>1, <2>3, <2>4, Zenon DEF Coming
    <2>6. ComingInOrder(a, b) => ComingInOrder(a, b)'
      BY <1>2, <2>1, <2>3, <2>4, Zenon DEF ComingInOrder
    <2> QED BY <2>1, <2>5, <2>6
  <1>5. CASE Unheard
    <2>1. queue' = queue /\ bus' = Tail(bus) /\ ~lost /\ e.type \notin DrivingTypes
      BY <1>5 DEF Unheard, Missed, e
    <2>2. e.type # a /\ e.type # b BY <2>1
    <2>3. Coming(a) => Coming(a)'
      BY <1>2, <2>1, <2>2, Zenon DEF Coming
    <2>4. ComingInOrder(a, b) => ComingInOrder(a, b)'
      BY <1>2, <2>1, <2>2, Zenon DEF ComingInOrder
    <2> QED BY <2>1, <2>3, <2>4
  <1> QED BY <1>3, <1>4, <1>5, DispatchOutcome

LEMMA ComingPublish ==
    ASSUME TypeOK, NEW e \in Event, bus' = Append(bus, e), queue' = queue, NEW a, NEW b
    PROVE  /\ Coming(a) => Coming(a)'
           /\ Coming(e.type)'
           /\ ComingInOrder(a, b) => ComingInOrder(a, b)'
           /\ Coming(a) => ComingInOrder(a, e.type)'
  <1>1. bus \in Seq(Event) BY DEF TypeOK
  <1>2. /\ \A t : Holds(bus, t) => Holds(bus', t)
        /\ Holds(bus', e.type)
        /\ Follows(bus, a, b) => Follows(bus', a, b)
        /\ Holds(bus, a) => Follows(bus', a, e.type)
    BY <1>1, HoldsAppend
  <1>3. Coming(a) => Coming(a)' BY <1>2, Zenon DEF Coming
  <1>4. Coming(e.type)' BY <1>2, Zenon DEF Coming
  <1>5. ComingInOrder(a, b) => ComingInOrder(a, b)'
    BY <1>2, Zenon DEF ComingInOrder
  <1>6. Coming(a) => ComingInOrder(a, e.type)'
    BY <1>2, Zenon DEF Coming, ComingInOrder
  <1> QED BY <1>3, <1>4, <1>5, <1>6

LEMMA ComingReceive ==
    ASSUME TypeOK, NEW t, Receive(t), bus' = bus, NEW a, NEW b
    PROVE  /\ Coming(a) => t = a \/ Coming(a)'
           /\ t # a /\ ComingInOrder(a, b) => ComingInOrder(a, b)'
           /\ ComingInOrder(a, b) => Coming(b)'
  <1>1. /\ queue \in Seq(Event) /\ queue # <<>> /\ queue' = Tail(queue)
        /\ Head(queue).type = t
    BY ReceiveType DEF TypeOK
  <1>2. /\ Holds(queue, a) => t = a \/ Holds(queue', a)
        /\ Follows(queue, a, b) => Follows(queue', a, b) \/ t = a
        /\ Follows(queue, a, b) => Holds(queue', b)
    BY <1>1, HoldsTail
  <1>3. Follows(bus, a, b) => Holds(bus, b)
    BY Zenon DEF Follows, Holds
  <1>4. Coming(a) => t = a \/ Coming(a)' BY <1>2, Zenon DEF Coming
  <1>5. t # a /\ ComingInOrder(a, b) => ComingInOrder(a, b)'
    BY <1>2, Zenon DEF ComingInOrder
  <1>6. ComingInOrder(a, b) => Coming(b)'
    BY <1>2, <1>3, Zenon DEF ComingInOrder, Coming
  <1> QED BY <1>4, <1>5, <1>6

-----------------------------------------------------------------------------
(* What the other contexts publish in the carrier build.                    *)
LEMMA CarrierPublishes ==
    ASSUME Carrier, TypeOK, LteCallback \/ Request, bus' # bus
    PROVE  \E e \in Event : bus' = Append(bus, e) /\ e.type # "LTE_DISCONNECTED"
  <1>1. /\ Ev("CARRIER_INITIALIZED") \in Event /\ Ev("LTE_CONNECTED") \in Event
        /\ Ev("CARRIER_INITIALIZED").type # "LTE_DISCONNECTED"
        /\ Ev("LTE_CONNECTED").type # "LTE_DISCONNECTED"
    BY EvType DEF EventTypes, DrivingTypes, ConnTypes, Ev
  <1>2. CASE LteCallback
    <2>1. \/ bus' = Append(bus, Ev("CARRIER_INITIALIZED"))
          \/ bus' = Append(bus, Ev("LTE_CONNECTED"))
      BY <1>2 DEF LteCallback, CarrierModemInit, CarrierLteReady,
                  CarrierDisconnected, Publish
    <2> QED BY <1>1, <2>1
  <1>3. CASE Request
    <2>1. PICK e \in Event : bus' = Append(bus, e) /\ e.type \notin ConnTypes
      BY <1>3, RequestEvent
    <2> QED BY <2>1 DEF ConnTypes
  <1> QED BY <1>2, <1>3

LEMMA NeverSaysStep ==
    ASSUME Carrier, TypeOK, [Next]_vars, NeverSays("LTE_DISCONNECTED")
    PROVE  NeverSays("LTE_DISCONNECTED")'
  <1> DEFINE b == "LTE_DISCONNECTED"
  <1>0. Free(queue, b) /\ Free(bus, b) /\ Free(out, b) BY DEF NeverSays
  <1>1. Free(out', b) BY <1>0, OutStep DEF NotSubmitted
  <1>2. bus \in Seq(Event) /\ queue \in Seq(Event) /\ out \in Seq(Event)
    BY DEF TypeOK
  <1>3. CASE Dispatch
    <2> DEFINE e == Head(bus)
    <2>1. bus # <<>> /\ e \in Event /\ Tail(bus) \in Seq(Event)
      BY <1>2, <1>3, TailEvent DEF Dispatch
    <2>2. e.type # b /\ Free(Tail(bus), b) BY <1>0, <1>2, <2>1, TailKeeps
    <2>3. Ev("ERROR") \in Event /\ Ev("ERROR").type # b
      BY EvType DEF EventTypes, Ev
    <2>4. /\ Free(Append(queue, e), b)
          /\ Free(Append(Tail(bus), Ev("ERROR")), b)
      BY <1>0, <1>2, <2>1, <2>2, <2>3, AppendKeeps
    <2>5. /\ queue' = queue \/ queue' = Append(queue, e)
          /\ bus' = Tail(bus) \/ bus' = Append(Tail(bus), Ev("ERROR"))
      BY <1>3, DispatchOutcome DEF Taken, Refused, Unheard
    <2> QED BY <1>0, <1>1, <2>2, <2>4, <2>5 DEF NeverSays
  <1>4. CASE SubmitNext
    <2>1. bus' = Append(bus, Head(out)) /\ queue' = queue /\ out # <<>>
      BY <1>4 DEF SubmitNext
    <2>2. Head(out) \in Event /\ Head(out).type # b
      BY <1>0, <1>2, <2>1, TailEvent, TailKeeps
    <2>3. Free(bus', b) BY <1>0, <1>2, <2>1, <2>2, AppendKeeps
    <2> QED BY <1>0, <1>1, <2>1, <2>3 DEF NeverSays
  <1>5. CASE Thread /\ ~SubmitNext
    <2>1. bus' = bus /\ (queue' = queue \/ (queue # <<>> /\ queue' = Tail(queue)))
      BY <1>5 DEF Thread, EntryPoint, HandleStart, HandleLteDisconnect,
         HandleDataGet, HandleShutdown, HandleCarrierInitialized, HandleOther,
         Receive
    <2>2. queue # <<>> => Free(Tail(queue), b) BY <1>0, <1>2, TailKeeps
    <2> QED BY <1>0, <1>1, <2>1, <2>2 DEF NeverSays
  <1>6. CASE LteCallback \/ Request
    <2>1. queue' = queue
      BY <1>6 DEF LteCallback, NwRegStatus, ParamUpdate, CarrierModemInit,
         CarrierLteReady, CarrierDisconnected, Request, AppRequest, RadioEvent,
         AppReport
    <2>2. CASE bus' = bus BY <1>0, <1>1, <2>1, <2>2 DEF NeverSays
    <2>3. CASE bus' # bus
      <3>1. PICK e \in Event : bus' = Append(bus, e) /\ e.type # b
        BY <1>6, <2>3, CarrierPublishes
      <3>2. Free(bus', b) BY <1>0, <1>2, <3>1, AppendKeeps
      <3> QED BY <1>0, <1>1, <2>1, <3>2 DEF NeverSays
    <2> QED BY <2>2, <2>3
  <1>7. CASE UNCHANGED vars
    BY <1>7 DEF vars, NeverSays
  <1> QED BY <1>3, <1>4, <1>5, <1>6, <1>7 DEF Next, Others, Request

-----------------------------------------------------------------------------
(* What is under way stays under way.                                       *)
UnderWayKept ==
    /\ Coming("CARRIER_INITIALIZED") => Coming("CARRIER_INITIALIZED")'
    /\ Coming("LTE_CONNECTED") => Coming("LTE_CONNECTED")'
    /\ ComingInOrder("CARRIER_INITIALIZED", "LTE_CONNECTED") =>
           ComingInOrder("CARRIER_INITIALIZED", "LTE_CONNECTED")'

(* A step that leaves the state, the callbacks and the queues' driving      *)
(* events alone.                                                            *)
LEMMA ComingKept ==
    ASSUME Initializing, Connecting, ~lost, state' = state,
           handlerSet' = handlerSet, reg' = reg, UnderWayKept
    PROVE  Initializing' /\ Connecting'
  BY DEF Initializing, Connecting, UnderWayKept

LEMMA DrivingNames ==
    /\ "CARRIER_INITIALIZED" \in DrivingTypes /\ "LTE_CONNECTED" \in DrivingTypes
    /\ DrivingTypes \subseteq EventTypes
  BY DEF DrivingTypes, ConnTypes, EventTypes

(* A message that is neither, which moves the state as its handler says.    *)
LEMMA ComingHandled ==
    ASSUME TypeOK, Initializing, Connecting, ~lost, NEW t, Receive(t), bus' = bus,
           t \notin {"CARRIER_INITIALIZED", "LTE_CONNECTED"}, reg' = reg,
           handlerSet' = handlerSet,
           state' = "INIT" => state = "INIT",
           state = "INIT" => state' \in {"INIT", "SHUTDOWN"},
           state \in {"CONNECTED", "SHUTDOWN"} => state' \in {"CONNECTED", "SHUTDOWN"}
    PROVE  Initializing' /\ Connecting'
  <1>1. UnderWayKept
    BY ComingReceive DEF UnderWayKept
  <1> QED BY <1>1 DEF Initializing, Connecting, UnderWayKept

LEMMA CarrierThread ==
    ASSUME Carrier, CarrierInv, Thread, ~lost'
    PROVE  Initializing' /\ Connecting'
  <1>0. TypeOK /\ Initializing /\ Connecting /\ NeverSays("LTE_DISCONNECTED")
    BY DEF CarrierInv
  <1>1. ~lost /\ state \in ModemStates
    BY LostStep, <1>0 DEF Next, TypeOK
  <1>2. CASE EntryPoint
    <2>1. /\ state' = state /\ handlerSet' = handlerSet /\ reg' = reg
          /\ queue' = queue /\ bus' = bus
      BY <1>2 DEF EntryPoint, CarrierInv
    <2> QED BY <1>0, <1>1, <2>1, ComingKept DEF UnderWayKept, Coming, ComingInOrder
  <1>3. CASE SubmitNext
    <2>1. /\ state' = state /\ handlerSet' = handlerSet /\ reg' = reg
          /\ queue' = queue /\ bus' = Append(bus, Head(out)) /\ Head(out) \in Event
      BY <1>0, <1>3, TailEvent DEF SubmitNext, TypeOK
    <2>2. UnderWayKept
      BY <1>0, <2>1, ComingPublish DEF UnderWayKept
    <2> QED BY <1>0, <1>1, <2>1, <2>2, ComingKept
  <1>4. CASE HandleStart
    BY <1>0, <1>1, <1>4, ComingHandled DEF HandleStart
  <1>5. CASE HandleLteDisconnect
    BY <1>0, <1>1, <1>5, ComingHandled DEF HandleLteDisconnect
  <1>6. CASE HandleDataGet
    BY <1>0, <1>1, <1>6, ComingHandled DEF HandleDataGet
  <1>7. CASE HandleShutdown
    BY <1>0, <1>1, <1>7, ComingHandled DEF HandleShutdown
  <1>8. CASE HandleCarrierInitialized
    <2>1. Receive("CARRIER_INITIALIZED") /\ bus' = bus /\ reg' = reg
          /\ handlerSet' = handlerSet
      BY <1>8 DEF HandleCarrierInitialized
    <2>2. /\ Coming("LTE_CONNECTED") => Coming("LTE_CONNECTED")'
          /\ ComingInOrder("CARRIER_INITIALIZED", "LTE_CONNECTED") =>
                 Coming("LTE_CONNECTED")'
      <3>1. "CARRIER_INITIALIZED" # "LTE_CONNECTED" OBVIOUS
      <3> QED BY <1>0, <2>1, <3>1, ComingReceive
    <2>3. state' = IF state = "INIT" THEN "DISCONNECTED" ELSE state
      BY <1>8 DEF HandleCarrierInitialized
    <2> QED BY <1>0, <1>1, <2>1, <2>2, <2>3 DEF Initializing, Connecting
  <1>9. CASE HandleOther
    <2>1. PICK t \in EventTypes \ HandledApart : Receive(t) /\ state' = OnState(t)
      BY <1>9 DEF HandleOther
    <2>2. bus' = bus /\ reg' = reg /\ handlerSet' = handlerSet
      BY <1>9 DEF HandleOther
    <2>3. t # "CARRIER_INITIALIZED" /\ t # "LTE_DISCONNECTED"
      <3>1. queue # <<>> /\ Head(queue).type = t /\ queue \in Seq(Event)
        BY <1>0, <2>1 DEF Receive, TypeOK
      <3>2. Free(queue, "LTE_DISCONNECTED") BY <1>0 DEF NeverSays
      <3> QED BY <2>1, <3>1, <3>2, TailKeeps DEF HandledApart
    <2>4. /\ state = "INIT" <=> state' = "INIT"
          /\ state \in {"CONNECTED", "SHUTDOWN"} => state' = state
          /\ t = "LTE_CONNECTED" /\ state # "INIT" => state' \in {"CONNECTED", "SHUTDOWN"}
      BY <1>1, <2>1, <2>3 DEF OnState, OnStateDisconnected, OnStateConnecting,
                              OnStateConnected, ModemStates
    <2>5. CASE t # "LTE_CONNECTED"
      BY <1>0, <1>1, <2>1, <2>2, <2>3, <2>4, <2>5, ComingHandled
    <2>6. CASE t = "LTE_CONNECTED"
      <3>1. /\ Coming("CARRIER_INITIALIZED") => Coming("CARRIER_INITIALIZED")'
            /\ ComingInOrder("CARRIER_INITIALIZED", "LTE_CONNECTED") =>
                   ComingInOrder("CARRIER_INITIALIZED", "LTE_CONNECTED")'
        <4>1. t # "CARRIER_INITIALIZED" BY <2>3
        <4> QED BY <1>0, <2>1, <2>2, <4>1, ComingReceive
      <3> QED BY <1>0, <1>1, <2>2, <2>4, <2>6, <3>1 DEF Initializing, Connecting
    <2> QED BY <2>5, <2>6
  <1> QED BY <1>2, <1>3, <1>4, <1>5, <1>6, <1>7, <1>8, <1>9 DEF Thread

(* CARRIER_INITIALIZED is published when the callbacks begin, and           *)
(* LTE_CONNECTED whenever the carrier library says LTE_READY.               *)
LEMMA CarrierCallback ==
    ASSUME Carrier, CarrierInv, LteCallback \/ Request, ~lost'
    PROVE  Initializing' /\ Connecting'
  <1>0. TypeOK /\ Initializing /\ Connecting /\ (~handlerSet => reg = "NONE")
    BY DEF CarrierInv
  <1>1. /\ state' = state /\ queue' = queue /\ lost' = lost
    BY DEF LteCallback, NwRegStatus, ParamUpdate, CarrierModemInit,
           CarrierLteReady, CarrierDisconnected, Request, AppRequest,
           RadioEvent, AppReport
  <1>2. /\ Ev("CARRIER_INITIALIZED") \in Event /\ Ev("LTE_CONNECTED") \in Event
        /\ Ev("CARRIER_INITIALIZED").type = "CARRIER_INITIALIZED"
        /\ Ev("LTE_CONNECTED").type = "LTE_CONNECTED"
    BY EvType, DrivingNames DEF Ev
  <1>3. CASE CarrierModemInit
    <2>1. /\ ~handlerSet /\ reg' = reg
          /\ bus' = Append(bus, Ev("CARRIER_INITIALIZED"))
      BY <1>3 DEF CarrierModemInit, Publish
    <2>2. Coming("CARRIER_INITIALIZED")'
      BY <1>0, <1>1, <1>2, <2>1, ComingPublish
    <2> QED BY <1>0, <2>1, <2>2 DEF Initializing, Connecting
  <1>4. CASE CarrierLteReady
    <2>1. /\ handlerSet /\ handlerSet' = handlerSet
          /\ bus' = Append(bus, Ev("LTE_CONNECTED"))
      BY <1>4 DEF CarrierLteReady, Publish
    <2>2. /\ Coming("CARRIER_INITIALIZED") => Coming("CARRIER_INITIALIZED")'
          /\ Coming("LTE_CONNECTED")'
          /\ Coming("CARRIER_INITIALIZED") =>
                 ComingInOrder("CARRIER_INITIALIZED", "LTE_CONNECTED")'
      BY <1>0, <1>1, <1>2, <2>1, ComingPublish
    <2> QED BY <1>0, <1>1, <2>1, <2>2 DEF Initializing, Connecting
  <1>5. CASE CarrierDisconnected
    <2>1. reg' = "NOT_REGISTERED" /\ bus' = bus /\ handlerSet' = handlerSet
      BY <1>5 DEF CarrierDisconnected
    <2> QED BY <1>0, <1>1, <2>1 DEF Initializing, Connecting, Coming
  <1>6. CASE Request
    <2>1. PICK e \in Event : bus' = Append(bus, e)
      BY <1>6, RequestEvent
    <2>2. UnderWayKept
      BY <1>0, <1>1, <2>1, ComingPublish DEF UnderWayKept
    <2>3. handlerSet' = handlerSet /\ reg' = reg
      BY <1>6 DEF Request, AppRequest, RadioEvent, AppReport
    <2> QED BY <1>0, <1>1, <2>2, <2>3, ComingKept
  <1> QED BY <1>3, <1>4, <1>5, <1>6 DEF LteCallback

LEMMA CarrierStep ==
    ASSUME Carrier, CarrierInv, [Next]_vars PROVE CarrierInv'
  <1>0. TypeOK /\ Initializing /\ Connecting /\ NeverSays("LTE_DISCONNECTED")
    BY DEF CarrierInv
  <1>1. TypeOK' /\ NeverSays("LTE_DISCONNECTED")'
    BY <1>0, TypeStep, NeverSaysStep
  <1>2. (~handlerSet => reg = "NONE")' /\ (phase = "BOOT" => state = "INIT")'
    <2> USE DEF CarrierInv
    <2>1. CASE Dispatch BY <2>1 DEF Dispatch
    <2>2. CASE Thread
      BY <2>2 DEF Thread, EntryPoint, SubmitNext, HandleStart, HandleDataGet,
         HandleLteDisconnect, HandleShutdown, HandleOther,
         HandleCarrierInitialized, Receive
    <2>3. CASE LteCallback
      BY <2>3 DEF LteCallback, CarrierModemInit, CarrierLteReady,
         CarrierDisconnected
    <2>4. CASE Request BY <2>4 DEF Request, AppRequest, RadioEvent, AppReport
    <2>5. CASE UNCHANGED vars BY <2>5 DEF vars
    <2> QED BY <2>1, <2>2, <2>3, <2>4, <2>5 DEF Next, Others, Request
  <1>3. ASSUME ~lost' PROVE Initializing' /\ Connecting'
    <2>1. CASE Dispatch
      <3>1. /\ state' = state /\ handlerSet' = handlerSet /\ reg' = reg
        BY <2>1 DEF Dispatch
      <3>2. ~lost /\ UnderWayKept
        BY <1>0, <1>3, <2>1, ComingDispatch, DrivingNames DEF UnderWayKept
      <3> QED BY <1>0, <3>1, <3>2, ComingKept
    <2>2. CASE Thread BY <1>3, <2>2, CarrierThread
    <2>3. CASE LteCallback \/ Request BY <1>3, <2>3, CarrierCallback
    <2>4. CASE UNCHANGED vars
      BY <1>0, <2>4 DEF vars, Initializing, Connecting, Coming, ComingInOrder
    <2> QED BY <2>1, <2>2, <2>3, <2>4 DEF Next, Others, Request
  <1>4. lost' => Initializing' /\ Connecting'
    BY DEF Initializing, Connecting
  <1> QED BY <1>1, <1>2, <1>3, <1>4 DEF CarrierInv

LEMMA RegisteredByCarrier ==
    ASSUME Carrier PROVE Spec => []RegisteredIsConnected
  <1>1. Init => CarrierInv
    <2> SUFFICES ASSUME Init PROVE CarrierInv
      OBVIOUS
    <2>1. NeverSays("LTE_DISCONNECTED")
      <3>1. "APP_START" # "LTE_DISCONNECTED" OBVIOUS
      <3>2. Free(<<Ev("APP_START")>>, "LTE_DISCONNECTED") /\ Free(<<>>, "LTE_DISCONNECTED")
        BY <3>1, FreeOne
      <3> QED BY <3>2 DEF Init, NeverSays
    <2> QED BY <2>1, InitType DEF Init, CarrierInv, Initializing, Connecting
  <1>2. CarrierInv /\ [Next]_vars => CarrierInv'
    BY CarrierStep
  <1>3. CarrierInv => RegisteredIsConnected
    <2> SUFFICES ASSUME CarrierInv, Idle, ~lost, reg = "REGISTERED"
                 PROVE  state \in {"CONNECTED", "SHUTDOWN"}
      BY DEF RegisteredIsConnected
    <2>1. \A a, b : ~Holds(<<>>, a) /\ ~Follows(<<>>, a, b)
      BY DEF Holds, Follows
    <2> QED BY <2>1, Zenon DEF CarrierInv, Connecting, Coming, ComingInOrder, Idle
  <1> QED BY <1>1, <1>2, <1>3, PTL DEF Spec

(* A settled module that the network has registered is CONNECTED or shut    *)
(* down, unless the full queue refused a connection event.                  *)
THEOREM RegisteredCorrect == Spec => []RegisteredIsConnected
  <1>1. CASE Carrier BY <1>1, RegisteredByCarrier
  <1>2. CASE ~Carrier BY <1>2, RegisteredByNetwork
  <1> QED BY <1>1, <1>2

-----------------------------------------------------------------------------
(* The converse, for sdk_modem.c.                                           *)
LEMMA ConnectedStep ==
    ASSUME ~Carrier, ~AnnounceEarly, CInv, [Next]_vars PROVE CInv'
  <1> DEFINE S == ModemStates \ {"CONNECTED"}
  <1>1. TypeOK' /\ BootInv' /\ Free(out', "LTE_CONNECTED")
    BY TypeStep, BootStep, OutStep DEF CInv, NotSubmitted
  <1>2. ASSUME ~lost', reg' \in {"NONE", "NOT_REGISTERED"}
        PROVE  Heading("LTE_DISCONNECTED", "LTE_CONNECTED", S)'
    <2>1. CASE \E s \in RegStatus \ {"NONE"} : NwRegStatus(s)
      <3>1. PICK s \in RegStatus \ {"NONE"} : NwRegStatus(s)
        BY <2>1
      <3> QED BY <1>2, <3>1, StatusStep DEF CInv
    <2>2. CASE ~ \E s \in RegStatus \ {"NONE"} : NwRegStatus(s)
      <3>1. reg \in {"NONE", "NOT_REGISTERED"} /\ ~lost
        BY <1>2, <2>2, QuietStep, LostStep DEF CInv
      <3>2. Heading("LTE_DISCONNECTED", "LTE_CONNECTED", S)
        BY <3>1 DEF CInv, ConnectedInv
      <3>3. state \in ModemStates
        BY DEF CInv, TypeOK
      <3>4. OnState("LTE_DISCONNECTED") \in S
        BY <3>3 DEF OnState, OnStateDisconnected, OnStateConnecting,
                    OnStateConnected, ModemStates
      <3>5. \A t : t # "LTE_CONNECTED" /\ state \in S => OnState(t) \in S
        BY DEF OnState, OnStateDisconnected, OnStateConnecting, ModemStates
      <3>6. {"SHUTDOWN", "DISCONNECTED"} \subseteq S
        BY DEF ModemStates
      <3> QED BY <1>2, <2>2, <3>2, <3>4, <3>5, <3>6, HeadingStep
              DEF CInv, NotSubmitted, ConnTypes
    <2> QED BY <2>1, <2>2
  <1> QED BY <1>1, <1>2 DEF CInv, ConnectedInv

(* A settled module of sdk_modem.c that says CONNECTED is registered, or    *)
(* has since seen its SIM fail.                                             *)
THEOREM ConnectedCorrect ==
    ASSUME ~Carrier, ~AnnounceEarly PROVE Spec => []ConnectedIsRegistered
  <1>1. Init => CInv
    <2>1. \A a, b, S : Free(<<>>, b) /\ Free(<<Ev("APP_START")>>, "LTE_CONNECTED")
      BY FreeNothing, FreeOne
    <2>2. Init => ConnectedInv /\ Free(out, "LTE_CONNECTED")
      BY <2>1, Zenon DEF Init, ConnectedInv, Heading, ModemStates
    <2>3. Init => BootInv
      BY DEF Init, BootInv
    <2> QED BY <2>2, <2>3, InitType DEF CInv
  <1>2. CInv /\ [Next]_vars => CInv'
    BY ConnectedStep
  <1>3. CInv => ConnectedIsRegistered
    <2> SUFFICES ASSUME CInv, Idle, ~lost, state = "CONNECTED"
                 PROVE  reg \in {"REGISTERED", "UICC_FAIL"}
      BY DEF ConnectedIsRegistered
    <2>1. \A a, b : ~Ends(<<>>, a, b)
      BY DEF Ends
    <2>2. ~Heading("LTE_DISCONNECTED", "LTE_CONNECTED", ModemStates \ {"CONNECTED"})
      BY <2>1, Zenon DEF Heading, Idle
    <2> QED BY <2>2 DEF CInv, ConnectedInv, TypeOK, RegStatus
  <1> QED BY <1>1, <1>2, <1>3, PTL DEF Spec

-----------------------------------------------------------------------------
(* APP_EVENT_START is the first event and the only one of its type.         *)
LEMMA TailAppend ==
    ASSUME NEW s \in Seq(Event), NEW e \in Event, s # <<>>
    PROVE  Tail(Append(s, e)) = Append(Tail(s), e) /\ Append(s, e) # <<>>
  OBVIOUS

(* An event of another type submitted or queued behind it changes nothing.  *)
LEMMA FreeTailAppend ==
    ASSUME NEW s \in Seq(Event), NEW e \in Event, NEW b, e.type # b,
           s # <<>>, Free(Tail(s), b)
    PROVE  Append(s, e) # <<>> /\ Free(Tail(Append(s, e)), b)
  <1>1. Tail(s) \in Seq(Event)
    BY TailEvent
  <1> QED BY <1>1, TailAppend, AppendKeeps

LEMMA StartPublish ==
    ASSUME SInv, NEW e \in Event, e.type # "APP_START", bus' = Append(bus, e),
           queue' = queue, state' = state
    PROVE  StartFirst'
  <1>1. bus \in Seq(Event)
    BY DEF SInv, TypeOK
  <1>2. Free(bus, "APP_START") => Free(bus', "APP_START")
    BY <1>1, AppendKeeps
  <1>3. bus # <<>> /\ Free(Tail(bus), "APP_START") =>
           bus' # <<>> /\ Free(Tail(bus'), "APP_START")
    BY <1>1, FreeTailAppend
  <1> QED BY <1>2, <1>3 DEF SInv, StartFirst

(* A handled message leaves a queue without APP_EVENT_START.                *)
LEMMA StartReceive ==
    ASSUME SInv, NEW t, Receive(t), bus' = bus,
           t = "APP_START" => state' = state
    PROVE  StartFirst'
  <1>1. /\ queue \in Seq(Event) /\ queue # <<>> /\ queue' = Tail(queue)
        /\ Head(queue).type = t
    BY ReceiveType DEF SInv, TypeOK
  <1>2. Free(queue, "APP_START") => t # "APP_START" /\ Free(queue', "APP_START")
    BY <1>1, TailKeeps
  <1> QED BY <1>1, <1>2 DEF SInv, StartFirst

LEMMA StartDispatch == ASSUME SInv, Dispatch PROVE StartFirst'
  <1> DEFINE e == Head(bus)
  <1>1. /\ bus \in Seq(Event) /\ queue \in Seq(Event) /\ bus # <<>>
        /\ e \in Event /\ Tail(bus) \in Seq(Event)
        /\ state' = state
    BY TailEvent DEF Dispatch, SInv, TypeOK
  <1>2. Free(bus, "APP_START") =>
           e.type # "APP_START" /\ Free(Tail(bus), "APP_START")
    BY <1>1, TailKeeps
  <1>3. CASE Taken
    <2>1. queue' = Append(queue, e) /\ bus' = Tail(bus)
      BY <1>3 DEF Taken
    <2>2. e.type # "APP_START" /\ Free(queue, "APP_START") =>
             Free(queue', "APP_START")
      BY <1>1, <2>1, AppendKeeps
    <2>3. e.type # "APP_START" /\ queue # <<>> /\ Free(Tail(queue), "APP_START")
             => queue' # <<>> /\ Free(Tail(queue'), "APP_START")
      BY <1>1, <2>1, FreeTailAppend
    <2>4. queue = <<>> => queue' # <<>> /\ Free(Tail(queue'), "APP_START")
      <3>1. queue = <<>> => queue' # <<>> /\ Tail(queue') = <<>>
        BY <1>1, <2>1
      <3> QED BY <3>1, FreeNothing
    <2> QED BY <1>1, <1>2, <2>1, <2>2, <2>3, <2>4 DEF SInv, StartFirst
  <1>4. CASE Refused
    <2>1. queue' = queue /\ bus' = Append(Tail(bus), Ev("ERROR"))
      BY <1>4 DEF Refused
    <2>2. queue # <<>>
      BY <1>1, <1>4, ModemAssumption DEF Refused, HasRoom
    <2>3. Ev("ERROR") \in Event /\ Ev("ERROR").type # "APP_START"
      BY EvType DEF EventTypes, Ev
    <2>4. Free(Tail(bus), "APP_START") => Free(bus', "APP_START")
      BY <1>1, <2>1, <2>3, AppendKeeps
    <2> QED BY <1>1, <1>2, <2>1, <2>2, <2>4 DEF SInv, StartFirst
  <1>5. CASE Unheard
    <2>1. queue' = queue /\ bus' = Tail(bus)
      BY <1>5 DEF Unheard
    <2> QED BY <1>1, <1>2, <2>1, FreeNothing DEF SInv, StartFirst
  <1> QED BY <1>1, <1>3, <1>4, <1>5, DispatchOutcome

LEMMA ShutdownStep == ASSUME SInv, ~Carrier, [Next]_vars PROVE SInv'
  <1>t. TypeOK' /\ Free(out', "APP_START")
    BY TypeStep, OutStep DEF SInv, NotSubmitted
  <1> SUFFICES StartFirst'
    BY <1>t DEF SInv
  <1>0. ASSUME UNCHANGED <<state, queue, bus>> PROVE StartFirst'
    BY <1>0 DEF SInv, StartFirst
  <1>1. CASE Dispatch
    BY <1>1, StartDispatch
  <1>2. CASE EntryPoint
    BY <1>2 DEF EntryPoint, SInv, StartFirst
  <1>3. CASE SubmitNext
    <2>1. /\ out # <<>> /\ out \in Seq(Event) /\ bus' = Append(bus, Head(out))
          /\ UNCHANGED <<queue, state>>
      BY <1>3 DEF SubmitNext, SInv, TypeOK
    <2>2. Head(out) \in Event /\ Head(out).type # "APP_START"
      BY <2>1, TailEvent, TailKeeps DEF SInv
    <2> QED BY <2>1, <2>2, StartPublish
  <1>4. CASE HandleStart
    <2>1. Receive("APP_START") /\ bus' = bus /\ state' = state
      BY <1>4 DEF HandleStart
    <2> QED BY <2>1, StartReceive
  <1>5. CASE HandleLteDisconnect
    <2>1. Receive("APP_LTE_DISCONNECT") /\ bus' = bus
      BY <1>5 DEF HandleLteDisconnect
    <2> QED BY <2>1, StartReceive
  <1>6. CASE HandleDataGet
    <2>1. Receive("APP_DATA_GET") /\ bus' = bus
      BY <1>6 DEF HandleDataGet
    <2> QED BY <2>1, StartReceive
  <1>7. CASE HandleShutdown
    <2>1. Receive("SHUTDOWN_REQUEST") /\ bus' = bus
      BY <1>7 DEF HandleShutdown
    <2> QED BY <2>1, StartReceive
  <1>8. CASE HandleCarrierInitialized
    <2>1. Receive("CARRIER_INITIALIZED") /\ bus' = bus
      BY <1>8 DEF HandleCarrierInitialized
    <2> QED BY <2>1, StartReceive
  <1>9. CASE HandleOther
    <2>1. PICK t \in EventTypes \ HandledApart : Receive(t) /\ state' = OnState(t)
      BY <1>9 DEF HandleOther
    <2>2. bus' = bus /\ t # "APP_START"
      BY <1>9, <2>1 DEF HandleOther, HandledApart
    <2> QED BY <2>1, <2>2, StartReceive
  <1>10. CASE LteCallback
    <2>1. /\ UNCHANGED <<queue, state>>
          /\ \E t \in {"ERROR", "LTE_CONNECTED", "LTE_DISCONNECTED", "PARAM_UPDATE"} :
               bus' = Append(bus, Ev(t))
      BY <1>10 DEF LteCallback, NwRegStatus, ParamUpdate, Publish, RegStatus,
                   CarrierModemInit, CarrierLteReady, CarrierDisconnected
    <2>2. PICK e \in Event : bus' = Append(bus, e) /\ e.type # "APP_START"
      BY <2>1, EvType DEF EventTypes, DrivingTypes, ConnTypes, Ev
    <2> QED BY <2>1, <2>2, StartPublish
  <1>11. CASE Request
    <2>1. UNCHANGED <<queue, state>>
      BY <1>11 DEF Request, AppRequest, RadioEvent, AppReport
    <2>2. PICK e \in Event : bus' = Append(bus, e) /\ e.type # "APP_START"
      BY <1>11, RequestEvent
    <2> QED BY <2>1, <2>2, StartPublish
  <1>12. CASE UNCHANGED vars
    BY <1>12, <1>0 DEF vars
  <1> QED BY <1>1, <1>2, <1>3, <1>4, <1>5, <1>6, <1>7, <1>8, <1>9, <1>10,
             <1>11, <1>12 DEF Next, Others, Request, Thread

(* Only START switches the modem on, and START is not handled in SHUTDOWN.  *)
LEMMA RadioStaysOff ==
    ASSUME SInv, ~Carrier, [Next]_vars, state = "SHUTDOWN", ~radioOn
    PROVE  ~radioOn'
  <1>1. CASE Dispatch
    BY <1>1 DEF Dispatch
  <1>2. CASE HandleStart
    <2>1. queue \in Seq(Event) /\ queue # <<>> /\ Head(queue).type = "APP_START"
      BY <1>2 DEF HandleStart, Receive, SInv, TypeOK
    <2>2. ~Free(queue, "APP_START")
      BY <2>1, TailKeeps
    <2> QED BY <2>1, <2>2 DEF SInv, StartFirst
  <1>3. CASE Thread /\ ~HandleStart
    BY <1>3 DEF Thread, EntryPoint, SubmitNext, HandleDataGet,
                HandleLteDisconnect, HandleShutdown, HandleOther,
                HandleCarrierInitialized
  <1>4. CASE LteCallback
    BY <1>4 DEF LteCallback, NwRegStatus, ParamUpdate, CarrierModemInit,
                CarrierLteReady, CarrierDisconnected
  <1>5. CASE Request
    BY <1>5 DEF Request, AppRequest, RadioEvent, AppReport
  <1>6. CASE UNCHANGED vars
    BY <1>6 DEF vars
  <1> QED BY <1>1, <1>2, <1>3, <1>4, <1>5, <1>6 DEF Next, Others, Request

(* A modem that is off in the SHUTDOWN state is never switched on again.    *)
THEOREM ShutdownCorrect ==
    ASSUME ~Carrier PROVE Spec => ShutdownKeepsRadioOff
  <1>1. Init => SInv
    <2> SUFFICES ASSUME Init PROVE StartFirst /\ Free(out, "APP_START")
      BY InitType DEF SInv
    <2>1. <<Ev("APP_START")>> # <<>> /\ Tail(<<Ev("APP_START")>>) = <<>>
      OBVIOUS
    <2> QED BY <2>1, FreeNothing, Zenon DEF Init, StartFirst
  <1>2. SInv /\ [Next]_vars => SInv'
    BY ShutdownStep
  <1>3. SInv /\ [Next]_vars =>
            [state = "SHUTDOWN" /\ ~radioOn => ~radioOn']_vars
    BY RadioStaysOff
  <1> QED BY <1>1, <1>2, <1>3, PTL DEF Spec, ShutdownKeepsRadioOff

-----------------------------------------------------------------------------
(***************************************************************************)
(* The handset.                                                            *)
(***************************************************************************)
LEMMA DisplayType ==
    ASSUME ui \in UiStates, screen \in Screens, NEW t, MessageHandler(t)
    PROVE  ui' \in UiStates /\ screen' \in Screens
  BY DEF MessageHandler, UiStates, Screens

LEMMA HaltType == ASSUME TypeOK, Halt PROVE TypeOK' /\ bus' = bus
  BY DEF Halt, TypeOK

(* What a dispatched event leaves on the bus, and what an append adds.      *)
LEMMA DispatchLength ==
    ASSUME TypeOK, Dispatch
    PROVE  /\ Len(bus) \in Nat \ {0} /\ Len(bus') \in Nat
           /\ Len(bus') <= Len(bus)
           /\ HasRoom(queue) => Len(bus') = Len(bus) - 1
  <1>1. bus \in Seq(Event) /\ bus # <<>>
    BY DEF Dispatch, TypeOK
  <1>2. /\ Tail(bus) \in Seq(Event) /\ Len(bus) \in Nat \ {0}
        /\ Len(Tail(bus)) = Len(bus) - 1
    BY <1>1, TailEvent
  <1>3. Ev("ERROR") \in Event
    BY EvType DEF EventTypes
  <1>4. /\ Append(Tail(bus), Ev("ERROR")) \in Seq(Event)
        /\ Len(Append(Tail(bus), Ev("ERROR"))) = Len(bus)
    BY <1>2, <1>3, AppendEvent
  <1>5. \/ bus' = Tail(bus)
        \/ ~HasRoom(queue) /\ bus' = Append(Tail(bus), Ev("ERROR"))
    BY DispatchOutcome, Zenon DEF Taken, Refused, Unheard
  <1>6. /\ Len(Tail(bus)) \in Nat /\ Len(Tail(bus)) <= Len(bus)
        /\ Len(bus) \in Nat /\ Len(bus) <= Len(bus)
    BY <1>2
  <1>7. CASE bus' = Tail(bus)
    BY <1>2, <1>6, <1>7, Zenon
  <1>8. CASE ~HasRoom(queue) /\ bus' = Append(Tail(bus), Ev("ERROR"))
    BY <1>2, <1>4, <1>6, <1>8, Zenon
  <1> QED BY <1>5, <1>7, <1>8

LEMMA ReportType ==
    ASSUME TypeOK, Len(bus) <= HeapLen, Report
    PROVE  /\ TypeOK' /\ Len(bus') <= HeapLen
           /\ Len(bus') <= Len(bus) + 1 /\ Len(bus') \in Nat
           /\ UNCHANGED <<queue, env>>
           /\ phase' = phase \/ (phase' = "ASSERT" /\ Len(bus) >= HeapLen)
  <1>1. bus \in Seq(Event) /\ Ev("APP_ERROR") \in Event /\ Len(bus) \in Nat
    BY EvType DEF TypeOK, EventTypes
  <1>2. /\ Append(bus, Ev("APP_ERROR")) \in Seq(Event)
        /\ Len(Append(bus, Ev("APP_ERROR"))) = Len(bus) + 1
    BY <1>1, AppendEvent
  <1>3. CASE Len(bus) < HeapLen
    <2>1. bus' = Append(bus, Ev("APP_ERROR"))
          /\ UNCHANGED <<phase, state, queue, out, handlerSet, radioOn, reg, lost, env>>
      BY <1>3 DEF Report
    <2> QED BY <1>1, <1>2, <1>3, <2>1, HandsetAssumption DEF TypeOK
  <1>4. CASE ~(Len(bus) < HeapLen)
    <2>1. Halt
      BY <1>4 DEF Report
    <2> QED BY <1>1, <1>4, <2>1, HaltType, HandsetAssumption DEF Halt
  <1> QED BY <1>3, <1>4

(* Another context adds one event at most, and counts it.                   *)
LEMMA OthersLength ==
    ASSUME TypeOK, LteCallback \/ AppRequest \/ RadioEvent
    PROVE  /\ TypeOK' /\ phase' = phase /\ phase # "ASSERT"
           /\ queue' = queue /\ env' = env + 1
           /\ Len(bus') \in Nat /\ Len(bus') <= Len(bus) + 1
  <1>1. TypeOK'
    BY TypeStep DEF Next, Others
  <1>2. /\ phase' = phase /\ phase # "ASSERT"
        /\ queue' = queue /\ env' = env + 1
        /\ bus' = bus \/ \E e : bus' = Append(bus, e)
    BY DEF LteCallback, NwRegStatus, ParamUpdate, CarrierModemInit,
           CarrierLteReady, CarrierDisconnected, AppRequest, RadioEvent, Publish
  <1>3. bus \in Seq(Event) /\ bus' \in Seq(Event)
    BY <1>1 DEF TypeOK
  <1>4. \A e : Len(Append(bus, e)) = Len(bus) + 1
    BY <1>3
  <1> QED BY <1>1, <1>2, <1>3, <1>4

(* The thread submits at most one event, to an empty bus.                   *)
LEMMA ThreadLength ==
    ASSUME TypeOK, ScheduledThread
    PROVE  /\ TypeOK' /\ bus = <<>> /\ env' = env
           /\ Len(bus') \in Nat /\ Len(bus') <= 1
  <1>1. TypeOK' /\ bus = <<>>
    BY TypeStep DEF ScheduledThread, Next
  <1>2. env' = env /\ (bus' = bus \/ bus' = Append(bus, Head(out)))
    BY DEF ScheduledThread, Thread, EntryPoint, SubmitNext, HandleStart,
           HandleDataGet, HandleLteDisconnect, HandleShutdown, HandleOther,
           HandleCarrierInitialized
  <1>3. \A e : Len(Append(<<>>, e)) = 1
    OBVIOUS
  <1>4. Len(bus) = 0 /\ Len(Append(bus, Head(out))) = 1
    BY <1>1, <1>3
  <1>5. Len(bus') = 0 \/ Len(bus') = 1
    BY <1>2, <1>4, Zenon
  <1>6. Len(bus') \in Nat /\ Len(bus') <= 1
    BY <1>5
  <1> QED BY <1>1, <1>2, <1>6

LEMMA HandsetTypeStep ==
    ASSUME HandsetTypeOK, [HandsetNext]_handsetVars PROVE HandsetTypeOK'
  <1> USE HandsetAssumption, ModemAssumption
  <1>0. TypeOK /\ bus \in Seq(Event) /\ Len(bus) \in Nat /\ Len(bus) <= HeapLen
    BY DEF HandsetTypeOK, TypeOK
  <1>1. CASE TellEarly
    <2>1. TypeOK' /\ Len(bus') <= HeapLen
      BY <1>0, <1>1, TypeStep, DispatchLength DEF TellEarly, Next
    <2>2. ui' \in UiStates /\ screen' \in Screens
      BY <1>1, DisplayType DEF TellEarly, HandsetTypeOK
    <2> QED BY <1>1, <2>1, <2>2 DEF TellEarly, HandsetTypeOK
  <1>2. CASE TellApp
    <2>1. CASE appQueue < AppLen
      <3>1. appQueue' = appQueue + 1 /\ UNCHANGED vars
        BY <1>2, <2>1 DEF TellApp, AppListener
      <3>2. TypeOK' /\ bus' = bus
        BY <1>0, <3>1, TypeStep DEF vars
      <3>3. appQueue' \in 0..AppLen
        BY <2>1, <3>1 DEF HandsetTypeOK
      <3>4. /\ due' \in BOOLEAN /\ UNCHANGED <<ui, screen, foreign>>
            /\ ui \in UiStates /\ screen \in Screens
            /\ foreign \in 0..MaxForeign
        BY <1>2 DEF TellApp, HandsetTypeOK
      <3> QED BY <1>0, <3>2, <3>3, <3>4, Zenon DEF HandsetTypeOK
    <2>2. CASE ~(appQueue < AppLen)
      <3>1. Report /\ appQueue' = appQueue
        BY <1>2, <2>2 DEF TellApp, AppListener
      <3> QED BY <1>0, <1>2, <3>1, ReportType DEF TellApp, HandsetTypeOK
    <2> QED BY <2>1, <2>2
  <1>3. CASE ModemThread
    <2>1. TypeOK' /\ Len(bus') <= HeapLen
      BY <1>0, <1>3, ThreadLength DEF ModemThread, TypeOK
    <2> QED BY <1>3, <2>1 DEF ModemThread, HandsetTypeOK
  <1>4. CASE MainTakes
    <2>1. TypeOK' /\ bus' = bus
      BY <1>0, <1>4, TypeStep DEF MainTakes, vars
    <2> QED BY <1>0, <1>4, <2>1 DEF MainTakes, HandsetTypeOK
  <1>5. CASE OtherContexts
    <2>1. CASE Len(bus) < HeapLen
      <3>1. LteCallback \/ AppRequest \/ RadioEvent
        BY <1>5, <2>1 DEF OtherContexts
      <3>2. TypeOK' /\ Len(bus') <= HeapLen
        BY <1>0, <2>1, <3>1, OthersLength
      <3> QED BY <1>5, <3>2 DEF OtherContexts, HandsetTypeOK
    <2>2. CASE ~(Len(bus) < HeapLen)
      <3>1. Halt
        BY <1>5, <2>2 DEF OtherContexts
      <3> QED BY <1>0, <1>5, <3>1, HaltType DEF OtherContexts, HandsetTypeOK
    <2> QED BY <2>1, <2>2
  <1>6. ASSUME NEW t \in ForeignEvents, Foreign(t) PROVE HandsetTypeOK'
    <2>1. TypeOK' /\ bus' = bus
      BY <1>0, <1>6, TypeStep DEF Foreign, vars
    <2>2. ui' \in UiStates /\ screen' \in Screens
      BY <1>6, DisplayType DEF Foreign, HandsetTypeOK
    <2> QED BY <1>0, <1>6, <2>1, <2>2 DEF Foreign, HandsetTypeOK
  <1>7. CASE UNCHANGED handsetVars
    <2>1. TypeOK' /\ bus' = bus
      BY <1>0, <1>7, TypeStep DEF handsetVars, vars
    <2> QED BY <1>0, <1>7, <2>1 DEF handsetVars, HandsetTypeOK
  <1> QED BY <1>1, <1>2, <1>3, <1>4, <1>5, <1>6, <1>7
          DEF HandsetNext, WorkQueue

LEMMA HandsetInitType == HandsetInit => HandsetTypeOK
  <1> SUFFICES ASSUME HandsetInit PROVE HandsetTypeOK
    OBVIOUS
  <1>1. TypeOK
    BY InitType DEF HandsetInit
  <1>2. Len(bus) = 1
    BY DEF HandsetInit, Init
  <1>3. ui \in UiStates /\ screen \in Screens /\ due \in BOOLEAN
    BY DEF HandsetInit, UiStates, Screens
  <1>4. appQueue \in 0..AppLen /\ foreign \in 0..MaxForeign /\ 1 <= HeapLen
    BY HandsetAssumption, ModemAssumption DEF HandsetInit
  <1> QED BY <1>1, <1>2, <1>3, <1>4 DEF HandsetTypeOK

(* Every variable keeps its type, main()'s queue its bound, and the bus     *)
(* never holds more than the heap has room for.                             *)
THEOREM HandsetTypeCorrect == HandsetSpec => []HandsetTypeOK
  BY HandsetInitType, HandsetTypeStep, PTL DEF HandsetSpec

-----------------------------------------------------------------------------
(***************************************************************************)
(* Why the heap can only run out when both queues are full: until then the *)
(* events under way, the report main() is about to make included, are at   *)
(* most START or one of the thread's and those the other contexts have     *)
(* published; and once both are full, neither thread runs before the bus   *)
(* is empty.                                                               *)
(***************************************************************************)
BothFull == ~HasRoom(queue) /\ appQueue = AppLen

Load == Len(bus) + IF due /\ appQueue = AppLen THEN 1 ELSE 0

LoadInv ==
    /\ HandsetTypeOK /\ BootInv
    /\ phase # "ASSERT" /\ ~BothFull => Load <= env + 1
    /\ phase = "ASSERT" => BothFull

(* The module never waits for the carrier library in this build, and so     *)
(* never asserts.                                                           *)
LEMMA NoAssertion ==
    ASSUME ~Carrier, TypeOK, BootInv, ScheduledThread
    PROVE  phase' # "ASSERT" /\ phase # "ASSERT"
  <1>1. CASE HandleCarrierInitialized
    BY <1>1 DEF HandleCarrierInitialized, Receive, BootInv
  <1>2. CASE EntryPoint
    BY <1>2 DEF EntryPoint
  <1>3. CASE SubmitNext
    BY <1>3 DEF SubmitNext
  <1>4. CASE \/ HandleStart \/ HandleLteDisconnect \/ HandleDataGet
             \/ HandleShutdown \/ HandleOther
    BY <1>4 DEF HandleStart, HandleLteDisconnect, HandleDataGet, HandleShutdown,
                HandleOther, Receive
  <1> QED BY <1>1, <1>2, <1>3, <1>4 DEF ScheduledThread, Thread

LEMMA HaltBoot == ASSUME BootInv, Halt PROVE BootInv'
  BY DEF BootInv, Halt

(* A queue a dispatch leaves with room had room before.                     *)
LEMMA DispatchFills ==
    ASSUME TypeOK, Dispatch, HasRoom(queue)' PROVE HasRoom(queue)
  <1> USE ModemAssumption
  <1>1. queue \in Seq(Event) /\ Len(queue) \in Nat /\ Len(queue) <= QueueLen
    BY DEF TypeOK
  <1>2. Head(bus) \in Event
    BY TailEvent DEF Dispatch, TypeOK
  <1>3. Len(Append(queue, Head(bus))) = Len(queue) + 1
    BY <1>1, <1>2, AppendEvent
  <1>4. CASE Taken
    BY <1>4 DEF Taken
  <1>5. CASE Refused \/ Unheard
    <2>1. queue' = queue
      BY <1>5 DEF Refused, Unheard
    <2> QED BY <2>1 DEF HasRoom
  <1> QED BY <1>4, <1>5, DispatchOutcome

(* With little on the bus there is room in the heap.                        *)
LEMMA HeapSuffices ==
    ASSUME LoadInv, phase # "ASSERT", ~BothFull PROVE Len(bus) < HeapLen
  <1>1. /\ Len(bus) \in Nat /\ env \in Nat /\ env <= MaxEnv /\ MaxEnv \in Nat
        /\ HeapLen \in Nat /\ HeapLen > MaxEnv + 1
    BY HandsetAssumption, ModemAssumption DEF LoadInv, HandsetTypeOK, TypeOK
  <1>2. Load <= env + 1
    BY DEF LoadInv
  <1>3. Len(bus) <= Load
    BY <1>1 DEF Load
  <1>4. Load \in Nat
    BY <1>1 DEF Load
  <1> QED BY <1>1, <1>2, <1>3, <1>4

LEMMA LoadStep ==
    ASSUME ~Carrier, LoadInv, [HandsetNext]_handsetVars PROVE LoadInv'
  <1> USE HandsetAssumption, ModemAssumption
  <1>t. HandsetTypeOK'
    BY HandsetTypeStep DEF LoadInv
  <1>0. /\ TypeOK /\ BootInv /\ Len(bus) \in Nat /\ Len(bus) <= HeapLen
        /\ env \in Nat /\ env <= MaxEnv /\ appQueue \in 0..AppLen
        /\ due \in BOOLEAN
    BY DEF LoadInv, HandsetTypeOK, TypeOK
  <1>1. CASE TellEarly
    <2>1. BootInv'
      BY <1>0, <1>1, BootStep DEF TellEarly, Next
    <2>2. /\ phase # "ASSERT" /\ phase' = phase /\ env' = env /\ ~due
          /\ appQueue' = appQueue /\ due' \in BOOLEAN
      BY <1>1 DEF TellEarly, Dispatch
    <2>3. HasRoom(queue)' => HasRoom(queue)
      BY <1>0, <1>1, DispatchFills DEF TellEarly
    <2>4. ~BothFull' => ~BothFull
      BY <2>2, <2>3 DEF BothFull
    <2>5. /\ Len(bus') \in Nat /\ Len(bus') <= Len(bus)
          /\ HasRoom(queue) => Len(bus') = Len(bus) - 1
      BY <1>0, <1>1, DispatchLength DEF TellEarly
    <2>6. ASSUME ~BothFull' PROVE Load' <= env' + 1
      <3>1. Len(bus) <= env + 1
        BY <2>2, <2>4, <2>6 DEF LoadInv, Load
      <3>2. CASE appQueue = AppLen
        <4>1. HasRoom(queue)
          BY <2>2, <2>3, <2>6, <3>2 DEF BothFull
        <4>2. Load' <= Len(bus') + 1
          BY <2>5 DEF Load
        <4>3. Load' \in Nat
          BY <2>5 DEF Load
        <4> QED BY <1>0, <2>2, <2>5, <3>1, <4>1, <4>2, <4>3
      <3>3. CASE appQueue # AppLen
        <4>1. Load' = Len(bus')
          BY <2>2, <2>5, <3>3 DEF Load
        <4> QED BY <1>0, <2>2, <2>5, <3>1, <4>1
      <3> QED BY <3>2, <3>3
    <2> QED BY <1>t, <2>1, <2>2, <2>6 DEF LoadInv
  <1>2. CASE TellApp
    <2>0. phase # "ASSERT" /\ due /\ due' = FALSE
      BY <1>2 DEF TellApp
    <2>1. CASE appQueue < AppLen
      <3>1. appQueue' = appQueue + 1 /\ UNCHANGED vars
        BY <1>2, <2>1 DEF TellApp, AppListener
      <3>2. /\ BootInv' /\ bus' = bus /\ queue' = queue /\ env' = env
            /\ phase' = phase
        BY <1>0, <3>1, BootStep DEF vars
      <3>3. Load' = Len(bus) /\ Load = Len(bus) /\ ~BothFull
        BY <1>0, <2>0, <2>1, <3>2 DEF Load, BothFull
      <3>4. Load <= env + 1
        BY <2>0, <3>3 DEF LoadInv
      <3> QED BY <1>t, <2>0, <3>2, <3>3, <3>4 DEF LoadInv
    <2>2. CASE ~(appQueue < AppLen)
      <3>1. Report /\ appQueue' = appQueue /\ appQueue = AppLen
        BY <1>0, <1>2, <2>2 DEF TellApp, AppListener
      <3>2. /\ Len(bus') \in Nat /\ Len(bus') <= Len(bus) + 1
            /\ UNCHANGED <<queue, env>>
            /\ phase' = phase \/ (phase' = "ASSERT" /\ Len(bus) >= HeapLen)
        BY <1>0, <3>1, ReportType
      <3>3. BootInv'
        BY <1>0, <3>1, HaltBoot DEF Report, BootInv
      <3>4. BothFull' <=> BothFull
        BY <3>1, <3>2 DEF BothFull, HasRoom
      <3>5. phase' = "ASSERT" => BothFull'
        BY <1>0, <2>0, <3>2, <3>4, HeapSuffices
      <3>6. ~BothFull' => Load' <= env' + 1
        <4>1. Load' = Len(bus') /\ Load = Len(bus) + 1
          BY <2>0, <3>1, <3>2, <1>0 DEF Load
        <4>2. ~BothFull' => Load <= env + 1
          BY <2>0, <3>4 DEF LoadInv
        <4> QED BY <1>0, <3>2, <4>1, <4>2
      <3> QED BY <1>t, <3>3, <3>5, <3>6 DEF LoadInv
    <2> QED BY <2>1, <2>2
  <1>3. CASE ModemThread
    <2>1. ScheduledThread /\ ~due /\ due' = due /\ appQueue' = appQueue
      BY <1>3 DEF ModemThread
    <2>2. env' = env /\ Len(bus') \in Nat /\ Len(bus') <= 1
      BY <1>0, <2>1, ThreadLength
    <2>3. phase' # "ASSERT"
      BY <1>0, <2>1, NoAssertion
    <2>4. BootInv'
      BY <1>0, <2>1, BootStep DEF ScheduledThread, Next
    <2>5. Load' = Len(bus')
      BY <2>1, <2>2 DEF Load
    <2>6. Load' <= env' + 1
      BY <1>0, <2>2, <2>5
    <2> QED BY <1>t, <2>3, <2>4, <2>6 DEF LoadInv
  <1>4. CASE MainTakes
    <2>1. /\ phase # "ASSERT" /\ bus = <<>> /\ ~due /\ due' = due
          /\ UNCHANGED vars
      BY <1>4 DEF MainTakes
    <2>2. BootInv' /\ bus' = <<>> /\ env' = env /\ phase' = phase
      BY <1>0, <2>1, BootStep DEF vars
    <2>3. Load' = 0
      BY <2>1, <2>2 DEF Load
    <2>4. Load' <= env' + 1
      BY <1>0, <2>2, <2>3
    <2> QED BY <1>t, <2>1, <2>2, <2>4 DEF LoadInv
  <1>5. CASE OtherContexts
    <2>0. due' = due /\ appQueue' = appQueue
      BY <1>5 DEF OtherContexts
    <2>1. CASE Len(bus) < HeapLen
      <3>1. LteCallback \/ AppRequest \/ RadioEvent
        BY <1>5, <2>1 DEF OtherContexts
      <3>2. /\ phase' = phase /\ phase # "ASSERT" /\ queue' = queue
            /\ env' = env + 1 /\ Len(bus') \in Nat /\ Len(bus') <= Len(bus) + 1
        BY <1>0, <3>1, OthersLength
      <3>3. BootInv'
        BY <1>0, <3>1, BootStep DEF Next, Others
      <3>4. BothFull' <=> BothFull
        BY <2>0, <3>2 DEF BothFull, HasRoom
      <3>5. Load' <= Load + 1 /\ Load \in Nat /\ Load' \in Nat
        BY <1>0, <2>0, <3>2 DEF Load
      <3>6. ~BothFull' => Load' <= env' + 1
        <4>1. ~BothFull' => Load <= env + 1
          BY <3>2, <3>4 DEF LoadInv
        <4> QED BY <1>0, <3>2, <3>5, <4>1
      <3> QED BY <1>t, <3>2, <3>3, <3>6 DEF LoadInv
    <2>2. CASE ~(Len(bus) < HeapLen)
      <3>1. Halt
        BY <1>5, <2>2 DEF OtherContexts
      <3>2. BootInv' /\ phase' = "ASSERT" /\ queue' = queue
        BY <1>0, <3>1, HaltBoot DEF Halt
      <3>3. BothFull
        BY <2>2, HeapSuffices DEF LoadInv
      <3>4. BothFull'
        BY <2>0, <3>2, <3>3 DEF BothFull, HasRoom
      <3> QED BY <1>t, <3>2, <3>4 DEF LoadInv
    <2> QED BY <2>1, <2>2
  <1>6. CASE (\E t \in ForeignEvents : Foreign(t)) \/ UNCHANGED handsetVars
    <2>1. UNCHANGED <<vars, due, appQueue>>
      BY <1>6 DEF Foreign, handsetVars
    <2>2. BootInv'
      BY <1>0, <2>1, BootStep
    <2>3. UNCHANGED <<phase, queue, bus, env, due, appQueue>>
      BY <2>1 DEF vars
    <2> QED BY <1>t, <2>2, <2>3 DEF LoadInv, Load, BothFull, HasRoom
  <1> QED BY <1>1, <1>2, <1>3, <1>4, <1>5, <1>6 DEF HandsetNext, WorkQueue

(* Whatever the bounds, as long as the heap holds what the other contexts   *)
(* publish, the device halts for want of memory only after both queues have *)
(* filled up.                                                               *)
THEOREM OnlyBothAreFatalCorrect ==
    ASSUME ~Carrier PROVE HandsetSpec => []OnlyBothAreFatal
  <1>1. HandsetInit => LoadInv
    <2> SUFFICES ASSUME HandsetInit PROVE LoadInv
      OBVIOUS
    <2>1. BootInv /\ phase # "ASSERT"
      BY DEF HandsetInit, Init, BootInv
    <2>2. Len(bus) = 1 /\ ~due /\ env = 0
      BY DEF HandsetInit, Init
    <2> QED BY <2>1, <2>2, HandsetInitType DEF LoadInv, Load
  <1>2. LoadInv /\ [HandsetNext]_handsetVars => LoadInv'
    BY LoadStep
  <1>3. LoadInv => OnlyBothAreFatal
    BY DEF LoadInv, OnlyBothAreFatal, BothFull
  <1> QED BY <1>1, <1>2, <1>3, PTL DEF HandsetSpec
=============================================================================
