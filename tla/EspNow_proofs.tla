---------------------------- MODULE EspNow_proofs ----------------------------
(***************************************************************************)
(* Proofs about the pairing over ESP-NOW: for every number of frames and   *)
(* every length of the tasks' queues, and, where the statement says so,    *)
(* for a pair of devices only.                                             *)
(***************************************************************************)
EXTENDS EspNow, TLAPS

LEMMA AppendOne ==
    ASSUME NEW S, NEW s \in Seq(S), NEW e \in S
    PROVE  /\ Append(s, e) \in Seq(S)
           /\ Len(Append(s, e)) = Len(s) + 1
           /\ \A i \in 1..Len(Append(s, e)) :
                 Append(s, e)[i] = e \/ (i \in 1..Len(s) /\ Append(s, e)[i] = s[i])
  OBVIOUS

LEMMA TakeOne ==
    ASSUME NEW S, NEW s \in Seq(S), s # <<>>
    PROVE  /\ Head(s) \in S /\ 1 \in 1..Len(s) /\ Head(s) = s[1]
           /\ Tail(s) \in Seq(S) /\ Len(Tail(s)) = Len(s) - 1
           /\ Len(s) \in Nat /\ Len(Tail(s)) \in Nat
           /\ \A i \in 1..Len(Tail(s)) :
                 i + 1 \in 1..Len(s) /\ Tail(s)[i] = s[i + 1]
  OBVIOUS

LEMMA Nothing == ASSUME NEW S PROVE <<>> \in Seq(S) /\ Len(<<>>) = 0
  OBVIOUS

-----------------------------------------------------------------------------
(* Types.                                                                   *)
LEMMA PrepareType ==
    ASSUME TypeOK, NEW d \in Devices, NEW to \in Addresses, NEW st \in {0, 1}
    PROVE  /\ Prepare(d, to, st) \in Frame
           /\ Prepare(d, to, st).to = to /\ Prepare(d, to, st).state = st
           /\ Prepare(d, to, st).magic = magic[d]
  BY DEF Prepare, Frame, TypeOK

LEMMA SendType ==
    ASSUME TypeOK, NEW d \in Devices, NEW to \in Addresses, NEW st \in {0, 1},
           Send(d, to, st)
    PROVE  tx' \in [Devices -> Seq(Frame)]
  <1>1. tx \in [Devices -> Seq(Frame)] BY DEF TypeOK
  <1>2. Prepare(d, to, st) \in Frame BY PrepareType
  <1>3. Append(tx[d], Prepare(d, to, st)) \in Seq(Frame) BY <1>1, <1>2, AppendOne
  <1> QED BY <1>1, <1>3 DEF Send

LEMMA DeleteType ==
    ASSUME TypeOK, NEW d \in Devices, DeleteTask(d)
    PROVE  alive' \in [Devices -> BOOLEAN] /\ tx' \in [Devices -> Seq(Frame)]
  <1>1. <<>> \in Seq(Frame) BY Nothing
  <1> QED BY <1>1 DEF DeleteTask, TypeOK

LEMMA TakeType ==
    ASSUME TypeOK, EspNowAssumption, NEW d \in Devices, Take(d)
    PROVE  /\ events' \in [Devices -> Seq(Events)]
           /\ \A r \in Devices : Len(events'[r]) <= EventLen
           /\ Head(events[d]) \in Events
           /\ Head(events[d]).mac \in Addresses
           /\ Head(events[d]).id = "RECV_CB" =>
                 /\ Head(events[d]).mac \in Devices
                 /\ Head(events[d]).frame \in Frame
  <1>1. events \in [Devices -> Seq(Events)] BY DEF TypeOK
  <1>2. events[d] \in Seq(Events) /\ events[d] # <<>> BY <1>1 DEF Take
  <1>3. /\ Head(events[d]) \in Events /\ Tail(events[d]) \in Seq(Events)
        /\ Len(Tail(events[d])) = Len(events[d]) - 1 /\ Len(events[d]) \in Nat
    BY <1>2, TakeOne
  <1>4. \A r \in Devices : Len(events[r]) <= EventLen BY DEF TypeOK
  <1>5. \A r \in Devices :
           events'[r] = IF r = d THEN Tail(events[d]) ELSE events[r]
    BY <1>1 DEF Take
  <1>6. ASSUME NEW r \in Devices PROVE Len(events'[r]) <= EventLen
    <2>1. Len(events[d]) <= EventLen /\ EventLen \in Nat
      BY <1>4 DEF EspNowAssumption
    <2>2. Len(Tail(events[d])) <= EventLen BY <1>3, <2>1
    <2>3. CASE r = d BY <1>5, <2>2, <2>3
    <2>4. CASE r # d BY <1>4, <1>5, <2>4
    <2> QED BY <2>3, <2>4
  <1>7. events' \in [Devices -> Seq(Events)] BY <1>1, <1>3 DEF Take
  <1>8. Head(events[d]).mac \in Addresses
    BY <1>3 DEF Events, SendEvent, RecvEvent, Addresses
  <1>9. Head(events[d]).id = "RECV_CB" =>
           Head(events[d]).mac \in Devices /\ Head(events[d]).frame \in Frame
    BY <1>3 DEF Events, SendEvent, RecvEvent
  <1> QED BY <1>3, <1>6, <1>7, <1>8, <1>9

LEMMA TransmitType ==
    ASSUME TypeOK, EspNowAssumption, NEW d \in Devices, Transmit(d)
    PROVE  /\ tx' \in [Devices -> Seq(Frame)] /\ Head(tx[d]) \in Frame
           /\ events' \in [Devices -> Seq(Events)]
           /\ \A r \in Devices : Len(events'[r]) <= EventLen
  <1>1. /\ tx \in [Devices -> Seq(Frame)] /\ events \in [Devices -> Seq(Events)]
        /\ \A r \in Devices : Len(events[r]) <= EventLen
    BY DEF TypeOK
  <1>2. tx[d] \in Seq(Frame) /\ tx[d] # <<>> BY <1>1 DEF Transmit
  <1>3. Head(tx[d]) \in Frame /\ Tail(tx[d]) \in Seq(Frame) BY <1>2, TakeOne
  <1>4. Head(tx[d]).to \in Addresses BY <1>3 DEF Frame
  <1> DEFINE sent == [id |-> "SEND_CB", mac |-> Head(tx[d]).to]
             got == [id |-> "RECV_CB", mac |-> d, frame |-> Head(tx[d])]
  <1>5. sent \in Events /\ got \in Events
    BY <1>3, <1>4 DEF Events, SendEvent, RecvEvent
  <1> HIDE DEF sent, got
  <1>6. PICK heard \in SUBSET Listeners(d, Head(tx[d]).to) :
           events' = [r \in Devices |->
             IF ~HasRoom(r) THEN events[r]
             ELSE IF r = d THEN Append(events[r], sent)
             ELSE IF r \in heard THEN Append(events[r], got)
             ELSE events[r]]
    BY DEF Transmit, sent, got
  <1>7. \A r \in Devices :
           /\ Append(events[r], sent) \in Seq(Events)
           /\ Len(Append(events[r], sent)) = Len(events[r]) + 1
           /\ Append(events[r], got) \in Seq(Events)
           /\ Len(Append(events[r], got)) = Len(events[r]) + 1
           /\ Len(events[r]) \in Nat
    <2> TAKE r \in Devices
    <2>1. events[r] \in Seq(Events) BY <1>1
    <2> QED BY <1>5, <2>1
  <1>8. events' \in [Devices -> Seq(Events)] BY <1>1, <1>6, <1>7
  <1>9. \A r \in Devices : Len(events'[r]) <= EventLen
    BY <1>1, <1>6, <1>7 DEF HasRoom, EspNowAssumption
  <1>10. tx' \in [Devices -> Seq(Frame)] BY <1>1, <1>3 DEF Transmit
  <1> QED BY <1>3, <1>8, <1>9, <1>10

(* Every variable keeps its type, and no task's queue grows past EventLen.  *)
LEMMA TypeStep ==
    ASSUME TypeOK, EspNowAssumption, [Next]_vars
    PROVE  TypeOK'
  <1> USE EspNowAssumption
  <1>t. /\ alive \in [Devices -> BOOLEAN]
        /\ broadcast \in [Devices -> BOOLEAN] /\ unicast \in [Devices -> BOOLEAN]
        /\ state \in [Devices -> {0, 1}] /\ magic \in [Devices -> Magics]
        /\ count \in [Devices -> 0..SendCount]
        /\ dest \in [Devices -> Addresses]
        /\ peers \in [Devices -> SUBSET Devices]
        /\ tx \in [Devices -> Seq(Frame)]
        /\ deaf \in [Devices -> BOOLEAN]
    BY DEF TypeOK
  <1>1. CASE UNCHANGED vars BY <1>1 DEF TypeOK, vars
  <1>2. ASSUME NEW d \in Devices, Transmit(d) PROVE TypeOK'
    <2>1. /\ tx' \in [Devices -> Seq(Frame)]
          /\ events' \in [Devices -> Seq(Events)]
          /\ \A r \in Devices : Len(events'[r]) <= EventLen
      BY <1>2, TransmitType
    <2>2. deaf' \in [Devices -> BOOLEAN] BY <1>2, <1>t DEF Transmit
    <2>3. UNCHANGED <<alive, broadcast, unicast, state, magic, count, dest, peers>>
      BY <1>2 DEF Transmit
    <2> QED BY <1>t, <2>1, <2>2, <2>3 DEF TypeOK
  <1>3. ASSUME NEW d \in Devices, Take(d)
        PROVE  /\ events' \in [Devices -> Seq(Events)]
               /\ \A r \in Devices : Len(events'[r]) <= EventLen
               /\ Head(events[d]).mac \in Addresses
               /\ Head(events[d]).id = "RECV_CB" =>
                     /\ Head(events[d]).mac \in Devices
                     /\ Head(events[d]).frame \in Frame
    BY <1>3, TakeType
  <1>4. ASSUME NEW d \in Devices, SendDone(d) PROVE TypeOK'
    <2> DEFINE mac == Head(events[d]).mac
               left == IF mac = "BROADCAST" THEN count[d] ELSE count[d] - 1
    <2>1. Take(d) BY <1>4 DEF SendDone
    <2>2. mac \in Addresses BY <1>3, <2>1
    <2>3. count' = [count EXCEPT ![d] = left] /\ (left > 0 \/ left = 0)
      BY <1>4 DEF SendDone
    <2>4. count' \in [Devices -> 0..SendCount]
      <3>1. count[d] \in 0..SendCount /\ SendCount \in Nat
        BY <1>t DEF EspNowAssumption
      <3>2. left \in 0..SendCount BY <2>3, <3>1
      <3> QED BY <1>t, <2>3, <3>2
    <2>5. dest' \in [Devices -> Addresses] BY <1>4, <1>t, <2>2 DEF SendDone
    <2>6. alive' \in [Devices -> BOOLEAN] /\ tx' \in [Devices -> Seq(Frame)]
      <3>1. state[d] \in {0, 1} BY <1>t
      <3>2. CASE Send(d, mac, state[d]) /\ alive' = alive
        BY <1>t, <2>2, <3>1, <3>2, SendType
      <3>3. CASE DeleteTask(d) BY <3>3, DeleteType
      <3> QED BY <1>4, <3>2, <3>3 DEF SendDone
    <2>7. UNCHANGED <<broadcast, unicast, state, magic, peers, deaf>>
      BY <1>4 DEF SendDone
    <2> QED BY <1>t, <1>3, <2>1, <2>4, <2>5, <2>6, <2>7 DEF TypeOK
  <1>5. ASSUME NEW d \in Devices, BroadcastStopped(d) PROVE TypeOK'
    BY <1>t, <1>3, <1>5 DEF BroadcastStopped, TypeOK
  <1>6. ASSUME NEW d \in Devices, RecvBroadcast(d) PROVE TypeOK'
    <2> DEFINE from == Head(events[d]).mac
               frame == Head(events[d]).frame
    <2>1. Take(d) /\ Head(events[d]).id = "RECV_CB" BY <1>6 DEF RecvBroadcast
    <2>2. from \in Devices /\ frame \in Frame BY <1>3, <2>1
    <2>3. peers' \in [Devices -> SUBSET Devices] /\ state' \in [Devices -> {0, 1}]
      BY <1>6, <1>t, <2>2 DEF RecvBroadcast
    <2>4. UNCHANGED <<magic, count, deaf>> BY <1>6 DEF RecvBroadcast
    <2>5. CASE Starts(d, frame)
      <3>1. dest' \in [Devices -> Addresses]
        BY <1>6, <1>t, <2>2, <2>5 DEF RecvBroadcast, Addresses
      <3>2. CASE /\ Send(d, from, 1) /\ alive' = alive
                 /\ broadcast' = [broadcast EXCEPT ![d] = FALSE]
                 /\ unicast' = [unicast EXCEPT ![d] = TRUE]
        <4>1. tx' \in [Devices -> Seq(Frame)]
          BY <2>2, <3>2, SendType DEF Addresses
        <4>2. /\ broadcast' \in [Devices -> BOOLEAN]
              /\ unicast' \in [Devices -> BOOLEAN]
              /\ alive' \in [Devices -> BOOLEAN]
          BY <1>t, <3>2
        <4> QED BY <1>t, <1>3, <2>1, <2>3, <2>4, <3>1, <4>1, <4>2 DEF TypeOK
      <3>3. CASE DeleteTask(d) /\ UNCHANGED <<broadcast, unicast>>
        <4>1. alive' \in [Devices -> BOOLEAN] /\ tx' \in [Devices -> Seq(Frame)]
          BY <3>3, DeleteType
        <4> QED BY <1>t, <1>3, <2>1, <2>3, <2>4, <3>1, <3>3, <4>1 DEF TypeOK
      <3> QED BY <1>6, <2>5, <3>2, <3>3 DEF RecvBroadcast
    <2>6. CASE ~Starts(d, frame)
      <3>1. UNCHANGED <<alive, broadcast, unicast, dest, tx>>
        BY <1>6, <2>6 DEF RecvBroadcast
      <3> QED BY <1>t, <1>3, <2>1, <2>3, <2>4, <3>1 DEF TypeOK
    <2> QED BY <2>5, <2>6
  <1>7. ASSUME NEW d \in Devices, RecvNoMemory(d) PROVE TypeOK'
    <2>1. Take(d) /\ DeleteTask(d) BY <1>7 DEF RecvNoMemory
    <2>2. alive' \in [Devices -> BOOLEAN] /\ tx' \in [Devices -> Seq(Frame)]
      BY <2>1, DeleteType
    <2>3. UNCHANGED <<broadcast, unicast, state, magic, count, dest, peers, deaf>>
      BY <1>7 DEF RecvNoMemory
    <2> QED BY <1>t, <1>3, <2>1, <2>2, <2>3 DEF TypeOK
  <1>8. ASSUME NEW d \in Devices, RecvUnicast(d) PROVE TypeOK'
    BY <1>t, <1>3, <1>8 DEF RecvUnicast, TypeOK
  <1> QED BY <1>1, <1>2, <1>4, <1>5, <1>6, <1>7, <1>8 DEF Next, Task

LEMMA InitType == ASSUME EspNowAssumption, Init PROVE TypeOK
  <1>1. /\ alive \in [Devices -> BOOLEAN] /\ broadcast = [d \in Devices |-> TRUE]
        /\ unicast = [d \in Devices |-> FALSE] /\ deaf = [d \in Devices |-> FALSE]
        /\ state = [d \in Devices |-> 0] /\ magic \in [Devices -> Magics]
        /\ count = [d \in Devices |-> SendCount]
        /\ dest = [d \in Devices |-> "BROADCAST"] /\ peers = [d \in Devices |-> {}]
    BY DEF Init
  <1>2. tx \in [Devices -> Seq(Frame)]
    <2>1. \A d \in Devices : Prepare(d, "BROADCAST", 0) \in Frame
      BY <1>1 DEF Prepare, Frame, Addresses
    <2>2. ASSUME NEW d \in Devices
          PROVE  <<Prepare(d, "BROADCAST", 0)>> \in Seq(Frame)
      <3>1. \A f \in Frame : <<f>> \in Seq(Frame) OBVIOUS
      <3> QED BY <2>1, <3>1
    <2>3. tx = [d \in Devices |->
                  IF alive[d] THEN <<Prepare(d, "BROADCAST", 0)>> ELSE <<>>]
      BY DEF Init
    <2>4. <<>> \in Seq(Frame) BY Nothing
    <2> QED BY <2>2, <2>3, <2>4
  <1>3. /\ events \in [Devices -> Seq(Events)]
        /\ \A d \in Devices : Len(events[d]) <= EventLen
    <2>1. <<>> \in Seq(Events) /\ Len(<<>>) = 0 BY Nothing
    <2> QED BY <2>1 DEF Init, EspNowAssumption
  <1>4. SendCount \in 0..SendCount BY DEF EspNowAssumption
  <1> QED BY <1>1, <1>2, <1>3, <1>4 DEF TypeOK, Addresses

(* The types of the pairing, of any number of devices: in particular the    *)
(* queue of a task never holds more than EventLen events.                   *)
THEOREM TypeCorrect == ASSUME EspNowAssumption PROVE Spec => []TypeOK
  <1>1. Init => TypeOK BY InitType
  <1>2. TypeOK /\ [Next]_vars => TypeOK' BY TypeStep
  <1> QED BY <1>1, <1>2, PTL DEF Spec

-----------------------------------------------------------------------------
(* Who sends to whom.  The frames and the notifications under way agree     *)
(* with what their device has become since, and it never goes back.         *)
FrameOK(d, f) ==
    /\ f.magic = magic[d]
    /\ f.state = 1 => state[d] = 1
    /\ f.to # "BROADCAST" => unicast[d] /\ f.to = dest[d]

EventOK(d, e) ==
    /\ e.id = "SEND_CB" /\ e.mac # "BROADCAST" => unicast[d] /\ e.mac = dest[d]
    /\ e.id = "RECV_CB" => /\ e.mac # d /\ e.frame.magic = magic[e.mac]
                           /\ e.frame.state = 1 => state[e.mac] = 1

FramesOK == \A d \in Devices : \A i \in 1..Len(tx[d]) : FrameOK(d, tx[d][i])
EventsOK == \A d \in Devices : \A i \in 1..Len(events[d]) : EventOK(d, events[d][i])
SendersOK ==
    \A d \in Devices : unicast[d] =>
        /\ ~broadcast[d] /\ dest[d] \in Devices
        /\ magic[d] >= magic[dest[d]] /\ state[dest[d]] = 1 /\ dest[d] # d
HeardOK == \A d \in Devices : state[d] = 1 => \E p \in peers[d] : p # d

RolesInv == FramesOK /\ EventsOK /\ SendersOK /\ HeardOK

LEMMA HeadOK ==
    ASSUME TypeOK, RolesInv, NEW d \in Devices, Take(d)
    PROVE  EventOK(d, Head(events[d]))
  <1>1. events[d] \in Seq(Events) /\ events[d] # <<>> BY DEF TypeOK, Take
  <1>2. 1 \in 1..Len(events[d]) /\ Head(events[d]) = events[d][1] BY <1>1, TakeOne
  <1> QED BY <1>2 DEF RolesInv, EventsOK

(* A device never forgets that it has heard another or whom it sends to.    *)
Grows(d) ==
    /\ magic'[d] = magic[d]
    /\ state[d] = 1 => state'[d] = 1
    /\ unicast[d] => unicast'[d] /\ dest'[d] = dest[d]
    /\ peers[d] \subseteq peers'[d]

LEMMA GrowsStep ==
    ASSUME TypeOK, EspNowAssumption, RolesInv, [Next]_vars
    PROVE  \A d \in Devices : Grows(d)
  <1>t. /\ unicast \in [Devices -> BOOLEAN] /\ state \in [Devices -> {0, 1}]
        /\ dest \in [Devices -> Addresses] /\ peers \in [Devices -> SUBSET Devices]
    BY DEF TypeOK
  <1>1. CASE UNCHANGED <<unicast, state, magic, dest, peers>>
    BY <1>1 DEF Grows
  <1>2. CASE \E d \in Devices : SendDone(d)
    <2> PICK d \in Devices : SendDone(d) BY <1>2
    <2>1. Take(d) /\ Head(events[d]).id = "SEND_CB" BY DEF SendDone
    <2>2. EventOK(d, Head(events[d])) BY <2>1, HeadOK
    <2>3. UNCHANGED <<unicast, state, magic, peers>> BY DEF SendDone
    <2>4. unicast[d] => ~broadcast[d] BY DEF RolesInv, SendersOK
    <2>5. dest' = dest \/ dest' = [dest EXCEPT ![d] = Head(events[d]).mac]
      BY DEF SendDone
    <2>6. unicast[d] => Head(events[d]).mac = dest[d]
      <3>1. Head(events[d]).mac = "BROADCAST" => broadcast[d] BY DEF SendDone
      <3> QED BY <2>1, <2>2, <2>4, <3>1 DEF EventOK
    <2>7. \A r \in Devices : unicast[r] => dest'[r] = dest[r]
      BY <1>t, <2>5, <2>6
    <2> QED BY <2>3, <2>7 DEF Grows
  <1>3. CASE \E d \in Devices : RecvBroadcast(d)
    <2> PICK d \in Devices : RecvBroadcast(d) BY <1>3
    <2> DEFINE frame == Head(events[d]).frame
    <2>1. /\ peers' = [peers EXCEPT ![d] = @ \cup {Head(events[d]).mac}]
          /\ state' = [state EXCEPT ![d] = 1] /\ magic' = magic
      BY DEF RecvBroadcast
    <2>2. \A r \in Devices : /\ state[r] = 1 => state'[r] = 1
                             /\ peers[r] \subseteq peers'[r]
      BY <1>t, <2>1
    <2>3. CASE Starts(d, frame)
      <3>1. ~unicast[d] BY <2>3 DEF Starts
      <3>2. dest' = [dest EXCEPT ![d] = Head(events[d]).mac]
        BY <2>3 DEF RecvBroadcast
      <3>3. unicast' = [unicast EXCEPT ![d] = TRUE] \/ unicast' = unicast
        BY <2>3 DEF RecvBroadcast
      <3>4. \A r \in Devices : unicast[r] => dest'[r] = dest[r]
        BY <1>t, <3>1, <3>2
      <3>5. \A r \in Devices : unicast[r] => unicast'[r]
        BY <1>t, <3>3, Zenon
      <3> QED BY <2>1, <2>2, <3>4, <3>5 DEF Grows
    <2>4. CASE ~Starts(d, frame)
      <3>1. UNCHANGED <<unicast, dest>> BY <2>4 DEF RecvBroadcast
      <3> QED BY <2>1, <2>2, <3>1 DEF Grows
    <2> QED BY <2>3, <2>4
  <1>4. \/ UNCHANGED <<unicast, state, magic, dest, peers>>
        \/ \E d \in Devices : SendDone(d) \/ RecvBroadcast(d)
    BY DEF Next, Task, vars, Transmit, BroadcastStopped, RecvNoMemory, RecvUnicast
  <1> QED BY <1>1, <1>2, <1>3, <1>4

LEMMA FrameGrows ==
    ASSUME NEW d \in Devices, Grows(d), NEW f, FrameOK(d, f)
    PROVE  /\ f.magic = magic'[d]
           /\ f.state = 1 => state'[d] = 1
           /\ f.to # "BROADCAST" => unicast'[d] /\ f.to = dest'[d]
  BY DEF Grows, FrameOK

LEMMA EventGrows ==
    ASSUME NEW d \in Devices, \A r \in Devices : Grows(r),
           NEW e \in Events, EventOK(d, e)
    PROVE  /\ e.id = "SEND_CB" /\ e.mac # "BROADCAST" =>
                unicast'[d] /\ e.mac = dest'[d]
           /\ e.id = "RECV_CB" => /\ e.mac # d /\ e.frame.magic = magic'[e.mac]
                                  /\ e.frame.state = 1 => state'[e.mac] = 1
  <1>1. CASE e.id = "SEND_CB"
    BY <1>1 DEF Grows, EventOK
  <1>2. CASE e.id = "RECV_CB"
    <2>1. e.mac \in Devices BY <1>2 DEF Events, SendEvent, RecvEvent
    <2> QED BY <1>2, <2>1 DEF Grows, EventOK
  <1> QED BY <1>1, <1>2 DEF Events, SendEvent, RecvEvent

(* What a send adds: the new frame is right if its address and state are.   *)
LEMMA SendFrames ==
    ASSUME TypeOK, FramesOK, NEW d \in Devices, \A r \in Devices : Grows(r),
           NEW to \in Addresses, NEW st \in {0, 1}, Send(d, to, st),
           st = 1 => state'[d] = 1,
           to # "BROADCAST" => unicast'[d] /\ to = dest'[d]
    PROVE  FramesOK'
  <1>1. /\ tx \in [Devices -> Seq(Frame)] /\ Prepare(d, to, st) \in Frame
        /\ Prepare(d, to, st).to = to /\ Prepare(d, to, st).state = st
        /\ Prepare(d, to, st).magic = magic[d]
    BY PrepareType DEF TypeOK
  <1> DEFINE new == Prepare(d, to, st)
  <1>2. tx' = [tx EXCEPT ![d] = Append(tx[d], new)] BY DEF Send
  <1> HIDE DEF new
  <1> SUFFICES ASSUME NEW r \in Devices, NEW i \in 1..Len(tx'[r])
               PROVE  FrameOK(r, tx[r][i])'
    BY DEF FramesOK
  <1>3. CASE r # d
    <2>1. tx'[r] = tx[r] BY <1>1, <1>2, <1>3
    <2>2. FrameOK(r, tx[r][i]) BY <2>1 DEF FramesOK
    <2> QED BY <2>1, <2>2, FrameGrows DEF FrameOK
  <1>4. CASE r = d
    <2>1. tx'[d] = Append(tx[d], new) BY <1>1, <1>2
    <2>2. tx[d] \in Seq(Frame) /\ new \in Frame BY <1>1 DEF new
    <2>3. \/ tx'[d][i] = new
          \/ i \in 1..Len(tx[d]) /\ tx'[d][i] = tx[d][i]
      BY <1>4, <2>1, <2>2, AppendOne
    <2>4. CASE tx'[d][i] = new
      BY <1>1, <1>4, <2>4 DEF new, FrameOK, Grows
    <2>5. CASE i \in 1..Len(tx[d]) /\ tx'[d][i] = tx[d][i]
      <3>1. FrameOK(d, tx[d][i]) BY <2>5 DEF FramesOK
      <3> QED BY <1>4, <2>5, <3>1, FrameGrows DEF FrameOK
    <2> QED BY <2>3, <2>4, <2>5
  <1> QED BY <1>3, <1>4

(* Frames only leave, from the front or all of them.                        *)
LEMMA FewerFrames ==
    ASSUME TypeOK, FramesOK, \A r \in Devices : Grows(r), NEW d \in Devices,
           \/ tx' = tx
           \/ tx' = [tx EXCEPT ![d] = <<>>]
           \/ tx[d] # <<>> /\ tx' = [tx EXCEPT ![d] = Tail(tx[d])]
    PROVE  FramesOK'
  <1>1. tx \in [Devices -> Seq(Frame)] BY DEF TypeOK
  <1> SUFFICES ASSUME NEW r \in Devices, NEW i \in 1..Len(tx'[r])
               PROVE  FrameOK(r, tx[r][i])'
    BY DEF FramesOK
  <1>2. CASE tx'[r] = tx[r]
    <2>1. FrameOK(r, tx[r][i]) BY <1>2 DEF FramesOK
    <2> QED BY <1>2, <2>1, FrameGrows DEF FrameOK
  <1>3. CASE tx'[r] = <<>> BY <1>3
  <1>4. CASE tx[r] # <<>> /\ tx'[r] = Tail(tx[r])
    <2>1. tx[r] \in Seq(Frame) BY <1>1
    <2>2. i + 1 \in 1..Len(tx[r]) /\ tx'[r][i] = tx[r][i + 1]
      BY <1>4, <2>1, TakeOne
    <2>3. FrameOK(r, tx[r][i + 1]) BY <2>2 DEF FramesOK
    <2> QED BY <2>2, <2>3, FrameGrows DEF FrameOK
  <1> QED BY <1>1, <1>2, <1>3, <1>4

LEMMA FramesStep ==
    ASSUME TypeOK, EspNowAssumption, RolesInv, [Next]_vars
    PROVE  FramesOK'
  <1>g. \A r \in Devices : Grows(r) BY GrowsStep
  <1>f. FramesOK BY DEF RolesInv
  <1>t. state \in [Devices -> {0, 1}] /\ unicast \in [Devices -> BOOLEAN]
        /\ dest \in [Devices -> Addresses]
    BY DEF TypeOK
  <1>1. CASE tx' = tx
    <2>1. ASSUME NEW d \in Devices PROVE FramesOK'
      BY <1>1, <1>f, <1>g, <2>1, FewerFrames
    <2> QED BY <2>1 DEF FramesOK
  <1>2. ASSUME NEW d \in Devices, Transmit(d) PROVE FramesOK'
    BY <1>2, <1>f, <1>g, FewerFrames DEF Transmit
  <1>3. ASSUME NEW d \in Devices, DeleteTask(d) PROVE FramesOK'
    BY <1>3, <1>f, <1>g, FewerFrames DEF DeleteTask
  <1>4. ASSUME NEW d \in Devices, SendDone(d) PROVE FramesOK'
    <2> DEFINE mac == Head(events[d]).mac
    <2>1. Take(d) /\ Head(events[d]).id = "SEND_CB" BY <1>4 DEF SendDone
    <2>2. mac \in Addresses BY <2>1, TakeType
    <2>3. CASE DeleteTask(d) BY <1>3, <2>3
    <2>4. CASE Send(d, mac, state[d])
      <3>1. state[d] \in {0, 1} /\ (state[d] = 1 => state'[d] = 1)
        BY <1>t, <1>g DEF Grows
      <3>2. mac # "BROADCAST" => unicast[d] /\ mac = dest[d]
        BY <2>1, HeadOK DEF EventOK
      <3>3. mac # "BROADCAST" => unicast'[d] /\ mac = dest'[d]
        BY <1>g, <3>2 DEF Grows
      <3> QED BY <1>f, <1>g, <2>2, <2>4, <3>1, <3>3, SendFrames
    <2> QED BY <1>4, <2>3, <2>4 DEF SendDone
  <1>5. ASSUME NEW d \in Devices, RecvBroadcast(d) PROVE FramesOK'
    <2> DEFINE from == Head(events[d]).mac
               frame == Head(events[d]).frame
    <2>1. Take(d) /\ Head(events[d]).id = "RECV_CB" BY <1>5 DEF RecvBroadcast
    <2>2. from \in Devices BY <2>1, TakeType
    <2>3. CASE DeleteTask(d) BY <1>3, <2>3
    <2>4. CASE ~Starts(d, frame)
      BY <1>1, <1>5, <2>4 DEF RecvBroadcast
    <2>5. CASE /\ Send(d, from, 1) /\ dest' = [dest EXCEPT ![d] = from]
               /\ unicast' = [unicast EXCEPT ![d] = TRUE]
      <3>1. state'[d] = 1 BY <1>5, <1>t DEF RecvBroadcast
      <3>2. dest'[d] = from BY <1>t, <2>5
      <3>3. unicast'[d] BY <1>t, <2>5, Zenon
      <3>4. from \in Addresses BY <2>2 DEF Addresses
      <3> QED BY <1>f, <1>g, <2>5, <3>1, <3>2, <3>3, <3>4, SendFrames
    <2> QED BY <1>5, <2>3, <2>4, <2>5 DEF RecvBroadcast
  <1>6. ASSUME NEW d \in Devices, RecvNoMemory(d) PROVE FramesOK'
    BY <1>3, <1>6 DEF RecvNoMemory
  <1>7. ASSUME NEW d \in Devices, BroadcastStopped(d) \/ RecvUnicast(d)
        PROVE  FramesOK'
    BY <1>1, <1>7 DEF BroadcastStopped, RecvUnicast
  <1> QED BY <1>1, <1>2, <1>4, <1>5, <1>6, <1>7 DEF Next, Task, vars

LEMMA EventsStep ==
    ASSUME TypeOK, EspNowAssumption, RolesInv, [Next]_vars
    PROVE  EventsOK'
  <1>g. \A r \in Devices : Grows(r) BY GrowsStep
  <1>t. events \in [Devices -> Seq(Events)] /\ tx \in [Devices -> Seq(Frame)]
    BY DEF TypeOK
  <1>old. ASSUME NEW r \in Devices, NEW j \in 1..Len(events[r])
          PROVE  /\ events[r][j] \in Events /\ EventOK(r, events[r][j])
    <2>1. events[r] \in Seq(Events) BY <1>t
    <2> QED BY <2>1 DEF RolesInv, EventsOK
  <1>same. ASSUME NEW r \in Devices, NEW i \in 1..Len(events'[r]),
                  NEW j \in 1..Len(events[r]), events'[r][i] = events[r][j]
           PROVE  EventOK(r, events[r][i])'
    BY <1>g, <1>old, <1>same, EventGrows DEF EventOK
  <1> SUFFICES ASSUME NEW r \in Devices, NEW i \in 1..Len(events'[r])
               PROVE  EventOK(r, events[r][i])'
    BY DEF EventsOK
  <1>1. CASE events'[r] = events[r]
    BY <1>1, <1>same
  <1>2. ASSUME NEW d \in Devices, Take(d) PROVE EventOK(r, events[r][i])'
    <2>1. events' = [events EXCEPT ![d] = Tail(events[d])] /\ events[d] # <<>>
      BY <1>2 DEF Take
    <2>2. CASE r # d BY <1>1, <1>t, <2>1, <2>2
    <2>3. CASE r = d
      <3>1. events[r] \in Seq(Events) /\ events[r] # <<>>
            /\ events'[r] = Tail(events[r])
        BY <1>t, <2>1, <2>3
      <3>2. i + 1 \in 1..Len(events[r]) /\ events'[r][i] = events[r][i + 1]
        BY <3>1, TakeOne
      <3> QED BY <1>same, <3>2
    <2> QED BY <2>2, <2>3
  <1>3. ASSUME NEW d \in Devices, Transmit(d) PROVE EventOK(r, events[r][i])'
    <2> DEFINE sent == [id |-> "SEND_CB", mac |-> Head(tx[d]).to]
               got == [id |-> "RECV_CB", mac |-> d, frame |-> Head(tx[d])]
    <2>1. PICK heard \in SUBSET Listeners(d, Head(tx[d]).to) :
             events' = [x \in Devices |->
               IF ~HasRoom(x) THEN events[x]
               ELSE IF x = d THEN Append(events[x], sent)
               ELSE IF x \in heard THEN Append(events[x], got)
               ELSE events[x]]
      BY <1>3 DEF Transmit
    <2>2. tx[d] \in Seq(Frame) /\ tx[d] # <<>> BY <1>3, <1>t DEF Transmit
    <2>3. Head(tx[d]) \in Frame /\ FrameOK(d, Head(tx[d]))
      <3>1. Head(tx[d]) \in Frame /\ 1 \in 1..Len(tx[d]) /\ Head(tx[d]) = tx[d][1]
        BY <2>2, TakeOne
      <3> QED BY <3>1 DEF RolesInv, FramesOK
    <2>4. sent \in Events /\ got \in Events
      BY <2>3 DEF Events, SendEvent, RecvEvent, Frame
    <2>5. sent.id = "SEND_CB" /\ sent.mac = Head(tx[d]).to
      OBVIOUS
    <2>6. got.id = "RECV_CB" /\ got.mac = d /\ got.frame = Head(tx[d])
      OBVIOUS
    <2> HIDE DEF sent, got
    <2>7. events[r] \in Seq(Events) BY <1>t
    <2>8. CASE r = d /\ events'[r] = Append(events[r], sent)
      <3>1. events'[r][i] = sent
            \/ (i \in 1..Len(events[r]) /\ events'[r][i] = events[r][i])
        BY <2>4, <2>7, <2>8, AppendOne
      <3>2. EventOK(d, sent) BY <2>3, <2>5 DEF EventOK, FrameOK
      <3>3. CASE events'[r][i] = sent
        BY <1>g, <2>4, <2>8, <3>2, <3>3, EventGrows DEF EventOK
      <3> QED BY <1>same, <3>1, <3>3
    <2>9. CASE r # d /\ events'[r] = Append(events[r], got)
      <3>1. events'[r][i] = got
            \/ (i \in 1..Len(events[r]) /\ events'[r][i] = events[r][i])
        BY <2>4, <2>7, <2>9, AppendOne
      <3>2. EventOK(r, got) BY <2>3, <2>6, <2>9 DEF EventOK, FrameOK
      <3>3. CASE events'[r][i] = got
        BY <1>g, <2>4, <3>2, <3>3, EventGrows DEF EventOK
      <3> QED BY <1>same, <3>1, <3>3
    <2> QED BY <1>1, <2>1, <2>8, <2>9
  <1>4. \/ events' = events
        \/ \E d \in Devices : Take(d) \/ Transmit(d)
    BY DEF Next, Task, vars, SendDone, BroadcastStopped, RecvBroadcast,
           RecvNoMemory, RecvUnicast
  <1> QED BY <1>1, <1>2, <1>3, <1>4

LEMMA SendersStep ==
    ASSUME TypeOK, EspNowAssumption, RolesInv, [Next]_vars
    PROVE  SendersOK'
  <1>g. \A r \in Devices : Grows(r) BY GrowsStep
  <1>t. /\ unicast \in [Devices -> BOOLEAN] /\ broadcast \in [Devices -> BOOLEAN]
        /\ dest \in [Devices -> Addresses]
    BY DEF TypeOK
  <1> SUFFICES ASSUME NEW r \in Devices, unicast'[r]
               PROVE  /\ ~broadcast'[r] /\ dest'[r] \in Devices
                      /\ magic'[r] >= magic'[dest'[r]]
                      /\ state'[dest'[r]] = 1 /\ dest'[r] # r
    BY DEF SendersOK
  <1>1. CASE unicast[r]
    <2>1. /\ ~broadcast[r] /\ dest[r] \in Devices
          /\ magic[r] >= magic[dest[r]] /\ state[dest[r]] = 1 /\ dest[r] # r
      BY <1>1 DEF RolesInv, SendersOK
    <2>2. dest'[r] = dest[r] BY <1>1, <1>g DEF Grows
    <2>3. ~broadcast'[r]
      <3>1. \/ broadcast' = broadcast
            \/ \E d \in Devices : broadcast' = [broadcast EXCEPT ![d] = FALSE]
        BY DEF Next, Task, vars, Transmit, SendDone, BroadcastStopped,
               RecvBroadcast, RecvNoMemory, RecvUnicast
      <3> QED BY <1>t, <2>1, <3>1, Zenon
    <2> QED BY <1>g, <2>1, <2>2, <2>3 DEF Grows
  <1>2. CASE ~unicast[r]
    <2>1. PICK d \in Devices : RecvBroadcast(d) /\ unicast' # unicast
      BY <1>2 DEF Next, Task, vars, Transmit, SendDone, BroadcastStopped,
                  RecvNoMemory, RecvUnicast
    <2> DEFINE from == Head(events[d]).mac
               frame == Head(events[d]).frame
    <2>2. Take(d) /\ Head(events[d]).id = "RECV_CB" BY <2>1 DEF RecvBroadcast
    <2>3. from \in Devices /\ frame \in Frame /\ EventOK(d, Head(events[d]))
      BY <2>2, TakeType, HeadOK
    <2>4. /\ Starts(d, frame)
          /\ dest' = [dest EXCEPT ![d] = from]
          /\ broadcast' = [broadcast EXCEPT ![d] = FALSE]
          /\ unicast' = [unicast EXCEPT ![d] = TRUE]
      BY <2>1 DEF RecvBroadcast
    <2>5. r = d BY <1>2, <1>t, <2>4, Zenon
    <2>6. dest'[r] = from BY <1>t, <2>4, <2>5
    <2>7. ~broadcast'[r] BY <1>t, <2>4, <2>5, Zenon
    <2>8. frame.state = 1 /\ magic[d] >= frame.magic BY <2>4 DEF Starts
    <2>9. from # d /\ frame.magic = magic[from] /\ state[from] = 1
      BY <2>2, <2>3, <2>8 DEF EventOK
    <2> QED BY <1>g, <2>3, <2>5, <2>6, <2>7, <2>8, <2>9 DEF Grows
  <1> QED BY <1>1, <1>2

LEMMA HeardStep ==
    ASSUME TypeOK, EspNowAssumption, RolesInv, [Next]_vars
    PROVE  HeardOK'
  <1>g. \A r \in Devices : Grows(r) BY GrowsStep
  <1>t. state \in [Devices -> {0, 1}] /\ peers \in [Devices -> SUBSET Devices]
    BY DEF TypeOK
  <1> SUFFICES ASSUME NEW r \in Devices, state'[r] = 1
               PROVE  \E p \in peers'[r] : p # r
    BY DEF HeardOK
  <1>1. CASE state[r] = 1
    <2>1. PICK p \in peers[r] : p # r BY <1>1 DEF RolesInv, HeardOK
    <2> QED BY <1>g, <2>1 DEF Grows
  <1>2. CASE state[r] # 1
    <2>1. PICK d \in Devices : RecvBroadcast(d)
      BY <1>2 DEF Next, Task, vars, Transmit, SendDone, BroadcastStopped,
                  RecvNoMemory, RecvUnicast
    <2>2. r = d BY <1>2, <1>t, <2>1 DEF RecvBroadcast
    <2>3. Take(d) /\ Head(events[d]).id = "RECV_CB" BY <2>1 DEF RecvBroadcast
    <2>4. Head(events[d]).mac # d BY <2>3, HeadOK DEF EventOK
    <2>5. Head(events[d]).mac \in peers'[d] BY <1>t, <2>1 DEF RecvBroadcast
    <2> QED BY <2>2, <2>4, <2>5
  <1> QED BY <1>1, <1>2

LEMMA InitRoles == ASSUME EspNowAssumption, Init PROVE RolesInv
  <1>1. EventsOK BY DEF Init, EventsOK
  <1>2. SendersOK BY DEF Init, SendersOK
  <1>3. HeardOK BY DEF Init, HeardOK
  <1>4. FramesOK
    <2> SUFFICES ASSUME NEW d \in Devices, NEW i \in 1..Len(tx[d])
                 PROVE  FrameOK(d, tx[d][i])
      BY DEF FramesOK
    <2>1. tx[d] = <<Prepare(d, "BROADCAST", 0)>> \/ tx[d] = <<>> BY DEF Init
    <2>2. tx[d][i] = Prepare(d, "BROADCAST", 0) BY <2>1
    <2> QED BY <2>2 DEF FrameOK, Prepare
  <1> QED BY <1>1, <1>2, <1>3, <1>4 DEF RolesInv

(* What holds on the way to a role: the numbers in the frames are those of  *)
(* their senders, and a device that sends data has compared its own with    *)
(* that of the device it sends to.                                          *)
THEOREM RolesInvariant == ASSUME EspNowAssumption PROVE Spec => [](TypeOK /\ RolesInv)
  <1>1. Init => TypeOK /\ RolesInv BY InitType, InitRoles
  <1>2. TypeOK /\ RolesInv /\ [Next]_vars => (TypeOK /\ RolesInv)'
    BY TypeStep, FramesStep, EventsStep, SendersStep, HeardStep DEF RolesInv
  <1> QED BY <1>1, <1>2, PTL DEF Spec

-----------------------------------------------------------------------------
LEMMA RolesAreOrdered ==
    ASSUME EspNowAssumption, TypeOK, RolesInv PROVE NoMutualSenders
  <1> SUFFICES ASSUME NEW a \in Devices, NEW b \in Devices,
                      unicast[a], unicast[b], dest[a] = b, dest[b] = a
               PROVE  magic[a] = magic[b]
    BY DEF NoMutualSenders
  <1>1. magic[a] >= magic[b] /\ magic[b] >= magic[a]
    BY DEF RolesInv, SendersOK
  <1>2. magic[a] \in Int /\ magic[b] \in Int BY DEF TypeOK, EspNowAssumption
  <1> QED BY <1>1, <1>2

(* Whatever frames are lost and whatever magic numbers are drawn, two       *)
(* devices of any number send data to each other only if they drew the same *)
(* one: each has seen the other's number, and a number never changes.       *)
THEOREM NoMutualSendersCorrect ==
    ASSUME EspNowAssumption PROVE Spec => []NoMutualSenders
  <1>1. TypeOK /\ RolesInv => NoMutualSenders BY RolesAreOrdered
  <1> QED BY <1>1, RolesInvariant, PTL

(* Two devices in range: what a device has heard, it has heard from the     *)
(* other.                                                                   *)
Pair == \A a, b, c \in Devices : a = b \/ b = c \/ a = c

LEMMA RolesAreKnown == ASSUME Pair, TypeOK, RolesInv PROVE SenderIsKnown
  <1> SUFFICES ASSUME NEW d \in Devices, unicast[d]
               PROVE  d \in peers[dest[d]]
    BY DEF SenderIsKnown
  <1>1. dest[d] \in Devices /\ dest[d] # d /\ state[dest[d]] = 1
    BY DEF RolesInv, SendersOK
  <1>2. PICK p \in peers[dest[d]] : p # dest[d]
    BY <1>1 DEF RolesInv, HeardOK
  <1>3. p \in Devices BY <1>1, <1>2 DEF TypeOK
  <1> QED BY <1>1, <1>2, <1>3 DEF Pair

(* Of a pair, the receiver has made the sender a peer before the first data *)
(* frame is sent, so that it can read it.                                   *)
THEOREM SenderIsKnownCorrect ==
    ASSUME EspNowAssumption, Pair PROVE Spec => []SenderIsKnown
  <1>1. TypeOK /\ RolesInv => SenderIsKnown BY RolesAreKnown
  <1> QED BY <1>1, RolesInvariant, PTL

-----------------------------------------------------------------------------
(* One frame at a time.  Where in a queue the frames to some addresses are, *)
(* and the notifications of them.                                           *)
TxAt(s, kind) == {i \in 1..Len(s) : s[i].to \in kind}
EventAt(s, kind) == {i \in 1..Len(s) : s[i].id = "SEND_CB" /\ s[i].mac \in kind}

AtMostOne(A, B) ==
    /\ \A i, j \in A : i = j
    /\ \A i, j \in B : i = j
    /\ A = {} \/ B = {}

OneOf(s, e, kind) == AtMostOne(TxAt(s, kind), EventAt(e, kind))
Kinds == {Devices, {"BROADCAST"}}

LEMMA OneIs ==
    OneAtATime <=> \A d \in Devices, kind \in Kinds : OneOf(tx[d], events[d], kind)
  <1>1. ASSUME NEW d \in Devices, NEW kind \in Kinds
        PROVE  (\A p, q \in UnderWay(d, kind) : p = q) <=> OneOf(tx[d], events[d], kind)
    <2> DEFINE A == TxAt(tx[d], kind)
               B == EventAt(events[d], kind)
    <2>1. UnderWay(d, kind) = ({"tx"} \X A) \cup ({"events"} \X B)
      BY DEF UnderWay, TxAt, EventAt
    <2> HIDE DEF A, B
    <2>2. \A i \in A : <<"tx", i>> \in UnderWay(d, kind) BY <2>1
    <2>3. \A i \in B : <<"events", i>> \in UnderWay(d, kind) BY <2>1
    <2>4. ASSUME NEW p \in UnderWay(d, kind)
          PROVE  \/ \E i \in A : p = <<"tx", i>>
                 \/ \E i \in B : p = <<"events", i>>
      BY <2>1, <2>4
    <2>5. ASSUME \A p, q \in UnderWay(d, kind) : p = q PROVE AtMostOne(A, B)
      <3>1. ASSUME NEW i \in A, NEW j \in A PROVE i = j
        <4>1. <<"tx", i>> = <<"tx", j>> BY <2>2, <2>5
        <4> QED BY <4>1
      <3>2. ASSUME NEW i \in B, NEW j \in B PROVE i = j
        <4>1. <<"events", i>> = <<"events", j>> BY <2>3, <2>5
        <4> QED BY <4>1
      <3>3. ASSUME NEW i \in A, NEW j \in B PROVE FALSE
        <4>1. <<"tx", i>> = <<"events", j>> BY <2>2, <2>3, <2>5
        <4> QED BY <4>1
      <3> QED BY <3>1, <3>2, <3>3 DEF AtMostOne
    <2>6. ASSUME AtMostOne(A, B), NEW p \in UnderWay(d, kind), NEW q \in UnderWay(d, kind)
          PROVE  p = q
      <3>1. CASE (\E i \in A : p = <<"tx", i>>) /\ (\E i \in A : q = <<"tx", i>>)
        BY <2>6, <3>1 DEF AtMostOne
      <3>2. CASE (\E i \in B : p = <<"events", i>>) /\ (\E i \in B : q = <<"events", i>>)
        BY <2>6, <3>2 DEF AtMostOne
      <3> QED BY <2>4, <2>6, <3>1, <3>2 DEF AtMostOne
    <2> QED BY <2>5, <2>6 DEF OneOf, A, B
  <1> QED BY <1>1 DEF OneAtATime, Kinds

LEMMA TxAppend ==
    ASSUME NEW s \in Seq(Frame), NEW f \in Frame, NEW kind
    PROVE  TxAt(Append(s, f), kind) \subseteq
             TxAt(s, kind) \cup {i \in {Len(s) + 1} : f.to \in kind}
  <1> SUFFICES ASSUME NEW i \in TxAt(Append(s, f), kind), i \notin TxAt(s, kind)
               PROVE  i = Len(s) + 1 /\ f.to \in kind
    OBVIOUS
  <1>1. i \in 1..Len(Append(s, f)) /\ Append(s, f)[i].to \in kind BY DEF TxAt
  <1>2. Len(Append(s, f)) = Len(s) + 1 /\ Len(s) \in Nat OBVIOUS
  <1>3. CASE i \in 1..Len(s)
    <2>1. Append(s, f)[i] = s[i] BY <1>3
    <2> QED BY <1>1, <1>3, <2>1 DEF TxAt
  <1>4. CASE i = Len(s) + 1
    <2>1. Append(s, f)[i] = f BY <1>4
    <2> QED BY <1>1, <1>4, <2>1
  <1> QED BY <1>1, <1>2, <1>3, <1>4

LEMMA EventAppend ==
    ASSUME NEW s \in Seq(Events), NEW e \in Events, NEW kind
    PROVE  EventAt(Append(s, e), kind) \subseteq
             EventAt(s, kind)
               \cup {i \in {Len(s) + 1} : e.id = "SEND_CB" /\ e.mac \in kind}
  <1> SUFFICES ASSUME NEW i \in EventAt(Append(s, e), kind), i \notin EventAt(s, kind)
               PROVE  i = Len(s) + 1 /\ e.id = "SEND_CB" /\ e.mac \in kind
    OBVIOUS
  <1>1. /\ i \in 1..Len(Append(s, e))
        /\ Append(s, e)[i].id = "SEND_CB" /\ Append(s, e)[i].mac \in kind
    BY DEF EventAt
  <1>2. Len(Append(s, e)) = Len(s) + 1 /\ Len(s) \in Nat OBVIOUS
  <1>3. CASE i \in 1..Len(s)
    <2>1. Append(s, e)[i] = s[i] BY <1>3
    <2> QED BY <1>1, <1>3, <2>1 DEF EventAt
  <1>4. CASE i = Len(s) + 1
    <2>1. Append(s, e)[i] = e BY <1>4
    <2> QED BY <1>1, <1>4, <2>1
  <1> QED BY <1>1, <1>2, <1>3, <1>4

LEMMA TxTail ==
    ASSUME NEW s \in Seq(Frame), s # <<>>, NEW kind
    PROVE  /\ \A i \in TxAt(Tail(s), kind) :
                i \in Nat \ {0} /\ i + 1 \in TxAt(s, kind)
           /\ Head(s).to \in kind => 1 \in TxAt(s, kind)
  BY TakeOne DEF TxAt

LEMMA EventTail ==
    ASSUME NEW s \in Seq(Events), s # <<>>, NEW kind
    PROVE  /\ \A i \in EventAt(Tail(s), kind) :
                i \in Nat \ {0} /\ i + 1 \in EventAt(s, kind)
           /\ Head(s).id = "SEND_CB" /\ Head(s).mac \in kind => 1 \in EventAt(s, kind)
  BY TakeOne DEF EventAt

(* Fewer of both are still at most one.                                     *)
LEMMA Fewer ==
    ASSUME NEW A, NEW B, AtMostOne(A, B), NEW C \in SUBSET A, NEW D \in SUBSET B
    PROVE  AtMostOne(C, D)
  BY DEF AtMostOne

LEMMA EmptyTx == ASSUME NEW kind PROVE TxAt(<<>>, kind) = {}
  BY DEF TxAt

(* The steps of one device, on its two queues.                              *)
LEMMA TakeKeepsOne ==
    ASSUME NEW s \in Seq(Frame), NEW e \in Seq(Events), e # <<>>, NEW kind,
           OneOf(s, e, kind)
    PROVE  OneOf(s, Tail(e), kind)
  <1>1. \A i \in EventAt(Tail(e), kind) : i \in Nat /\ i + 1 \in EventAt(e, kind)
    BY EventTail
  <1> QED BY <1>1 DEF OneOf, AtMostOne

LEMMA SentKeepsOne ==
    ASSUME NEW s \in Seq(Frame), NEW e \in Seq(Events), NEW n \in Events, s # <<>>,
           n.mac = Head(s).to, NEW kind, OneOf(s, e, kind)
    PROVE  OneOf(Tail(s), Append(e, n), kind) /\ OneOf(Tail(s), e, kind)
  <1>1. /\ \A i \in TxAt(Tail(s), kind) : i \in Nat \ {0} /\ i + 1 \in TxAt(s, kind)
        /\ Head(s).to \in kind => 1 \in TxAt(s, kind)
    BY TxTail
  <1>2. EventAt(Append(e, n), kind) \subseteq
           EventAt(e, kind) \cup {i \in {Len(e) + 1} : n.id = "SEND_CB" /\ n.mac \in kind}
    BY EventAppend
  <1> DEFINE A == TxAt(s, kind)
             B == EventAt(e, kind)
             C == TxAt(Tail(s), kind)
             D == EventAt(Append(e, n), kind)
  <1>3. AtMostOne(A, B) BY DEF OneOf
  <1> HIDE DEF A, B, C, D
  <1>4. AtMostOne(C, B) BY <1>1, <1>3 DEF AtMostOne, A, C
  <1>5. CASE Head(s).to \in kind
    <2>1. 1 \in A /\ B = {} BY <1>1, <1>3, <1>5 DEF AtMostOne, A
    <2>2. C = {} 
      <3> SUFFICES ASSUME NEW i \in C PROVE FALSE OBVIOUS
      <3>1. i \in Nat \ {0} /\ i + 1 \in A BY <1>1 DEF C, A
      <3>2. i + 1 = 1 BY <1>3, <2>1, <3>1 DEF AtMostOne
      <3> QED BY <3>1, <3>2
    <2>3. D \subseteq {Len(e) + 1} BY <1>2, <2>1 DEF D, B
    <2> QED BY <1>4, <2>2, <2>3 DEF OneOf, AtMostOne, B, C, D
  <1>6. CASE Head(s).to \notin kind
    <2>1. D \subseteq B BY <1>2, <1>6 DEF D, B
    <2> QED BY <1>4, <2>1 DEF OneOf, AtMostOne, B, C, D
  <1> QED BY <1>5, <1>6

(* The next frame to the address whose notification is taken.               *)
LEMMA AnswerKeepsOne ==
    ASSUME NEW s \in Seq(Frame), NEW e \in Seq(Events), e # <<>>, NEW f \in Frame,
           Head(e).id = "SEND_CB", Head(e).mac = f.to, NEW kind, OneOf(s, e, kind)
    PROVE  OneOf(Append(s, f), Tail(e), kind)
  <1>1. /\ \A i \in EventAt(Tail(e), kind) :
             i \in Nat \ {0} /\ i + 1 \in EventAt(e, kind)
        /\ f.to \in kind => 1 \in EventAt(e, kind)
    BY EventTail
  <1>2. TxAt(Append(s, f), kind) \subseteq
           TxAt(s, kind) \cup {i \in {Len(s) + 1} : f.to \in kind}
    BY TxAppend
  <1> DEFINE A == TxAt(s, kind)
             B == EventAt(e, kind)
             C == TxAt(Append(s, f), kind)
             D == EventAt(Tail(e), kind)
  <1>3. AtMostOne(A, B) BY DEF OneOf
  <1> HIDE DEF A, B, C, D
  <1>4. AtMostOne(A, D) BY <1>1, <1>3 DEF AtMostOne, B, D
  <1>5. CASE f.to \in kind
    <2>1. 1 \in B /\ A = {} BY <1>1, <1>3, <1>5 DEF AtMostOne, B
    <2>2. D = {}
      <3> SUFFICES ASSUME NEW i \in D PROVE FALSE OBVIOUS
      <3>1. i \in Nat \ {0} /\ i + 1 \in B BY <1>1 DEF D, B
      <3>2. i + 1 = 1 BY <1>3, <2>1, <3>1 DEF AtMostOne
      <3> QED BY <3>1, <3>2
    <2>3. C \subseteq {Len(s) + 1} BY <1>2, <2>1 DEF C, A
    <2> QED BY <2>2, <2>3 DEF OneOf, AtMostOne, C, D
  <1>6. CASE f.to \notin kind
    <2>1. C \subseteq A BY <1>2, <1>6 DEF C, A
    <2> QED BY <1>4, <2>1 DEF OneOf, AtMostOne, A, C, D
  <1> QED BY <1>5, <1>6

(* The first frame to a device, while none is under way.                    *)
LEMMA FirstKeepsOne ==
    ASSUME NEW s \in Seq(Frame), NEW e \in Seq(Events), NEW f \in Frame, NEW kind,
           OneOf(s, e, kind),
           f.to \in kind => TxAt(s, kind) = {} /\ EventAt(e, kind) = {}
    PROVE  OneOf(Append(s, f), e, kind)
  <1>1. TxAt(Append(s, f), kind) \subseteq
           TxAt(s, kind) \cup {i \in {Len(s) + 1} : f.to \in kind}
    BY TxAppend
  <1> QED BY <1>1 DEF OneOf, AtMostOne

LEMMA OneIsNext ==
    OneAtATime' <=> (\A d \in Devices, kind \in Kinds : OneOf(tx[d], events[d], kind))'
  BY OneIs, PTL

LEMMA OneStep ==
    ASSUME TypeOK, EspNowAssumption, RolesInv, OneAtATime, [Next]_vars
    PROVE  OneAtATime'
  <1>t. /\ tx \in [Devices -> Seq(Frame)] /\ events \in [Devices -> Seq(Events)]
        /\ state \in [Devices -> {0, 1}]
    BY DEF TypeOK
  <1>one. \A d \in Devices, kind \in Kinds : OneOf(tx[d], events[d], kind)
    BY OneIs
  <1> SUFFICES ASSUME NEW r \in Devices, NEW kind \in Kinds
               PROVE  OneOf(tx'[r], events'[r], kind)
    <2>1. Kinds' = Kinds BY DEF Kinds
    <2> QED BY <2>1, OneIsNext DEF OneOf, TxAt, EventAt
  <1>r. /\ tx[r] \in Seq(Frame) /\ events[r] \in Seq(Events)
        /\ OneOf(tx[r], events[r], kind)
    BY <1>t, <1>one
  <1>1. CASE tx'[r] = tx[r] /\ events'[r] = events[r] BY <1>1, <1>r
  <1>2. CASE /\ tx'[r] = tx[r] \/ tx'[r] = <<>>
             /\ events[r] # <<>> /\ events'[r] = Tail(events[r])
    <2>1. OneOf(tx[r], Tail(events[r]), kind) BY <1>2, <1>r, TakeKeepsOne
    <2>2. OneOf(<<>>, Tail(events[r]), kind)
      BY <2>1, EmptyTx DEF OneOf, AtMostOne
    <2> QED BY <1>2, <2>1, <2>2
  <1>3. ASSUME NEW d \in Devices, Transmit(d) PROVE OneOf(tx'[r], events'[r], kind)
    <2> DEFINE sent == [id |-> "SEND_CB", mac |-> Head(tx[d]).to]
               got == [id |-> "RECV_CB", mac |-> d, frame |-> Head(tx[d])]
    <2>1. PICK heard \in SUBSET Listeners(d, Head(tx[d]).to) :
             events' = [x \in Devices |->
               IF ~HasRoom(x) THEN events[x]
               ELSE IF x = d THEN Append(events[x], sent)
               ELSE IF x \in heard THEN Append(events[x], got)
               ELSE events[x]]
      BY <1>3 DEF Transmit
    <2>2. tx[d] # <<>> /\ tx' = [tx EXCEPT ![d] = Tail(tx[d])] BY <1>3 DEF Transmit
    <2>3. Head(tx[d]) \in Frame BY <1>3, TransmitType
    <2>4. sent \in Events /\ got \in Events
      BY <2>3 DEF Events, SendEvent, RecvEvent, Frame
    <2>5. sent.mac = Head(tx[d]).to /\ got.id = "RECV_CB" OBVIOUS
    <2> HIDE DEF sent, got
    <2>6. CASE r = d
      <3>1. tx'[r] = Tail(tx[r]) BY <1>t, <2>2, <2>6
      <3>2. events'[r] = Append(events[r], sent) \/ events'[r] = events[r]
        BY <2>1, <2>6
      <3> QED BY <1>r, <2>2, <2>4, <2>5, <2>6, <3>1, <3>2, SentKeepsOne
    <2>7. CASE r # d
      <3>1. tx'[r] = tx[r] BY <1>t, <2>2, <2>7
      <3>2. events'[r] = Append(events[r], got) \/ events'[r] = events[r]
        BY <2>1, <2>7
      <3>3. EventAt(Append(events[r], got), kind) \subseteq EventAt(events[r], kind)
        BY <1>r, <2>4, <2>5, EventAppend
      <3> QED BY <1>r, <3>1, <3>2, <3>3, Fewer DEF OneOf
    <2> QED BY <2>6, <2>7
  <1>take. ASSUME NEW d \in Devices, Take(d)
           PROVE  /\ r # d => events'[r] = events[r]
                  /\ r = d => events[r] # <<>> /\ events'[r] = Tail(events[r])
    BY <1>t, <1>take DEF Take
  <1>4. ASSUME NEW d \in Devices, Take(d), tx' = tx \/ DeleteTask(d)
        PROVE  OneOf(tx'[r], events'[r], kind)
    BY <1>1, <1>2, <1>4, <1>t, <1>take DEF DeleteTask
  <1>5. ASSUME NEW d \in Devices, SendDone(d) PROVE OneOf(tx'[r], events'[r], kind)
    <2> DEFINE mac == Head(events[d]).mac
    <2>1. Take(d) /\ Head(events[d]).id = "SEND_CB" BY <1>5 DEF SendDone
    <2>2. mac \in Addresses /\ state[d] \in {0, 1} BY <1>t, <2>1, TakeType
    <2>3. CASE DeleteTask(d) BY <1>4, <2>1, <2>3
    <2>4. CASE Send(d, mac, state[d])
      <3> DEFINE f == Prepare(d, mac, state[d])
      <3>1. f \in Frame /\ f.to = mac BY <2>2, PrepareType
      <3>2. tx' = [tx EXCEPT ![d] = Append(tx[d], f)] BY <2>4 DEF Send
      <3> HIDE DEF f
      <3>3. CASE r # d BY <1>1, <1>t, <1>take, <2>1, <3>2, <3>3
      <3>4. CASE r = d
        <4>1. events[r] # <<>> /\ events'[r] = Tail(events[r])
          BY <1>take, <2>1, <3>4
        <4>2. tx'[r] = Append(tx[r], f) BY <1>t, <3>2, <3>4
        <4> QED BY <1>r, <2>1, <3>1, <3>4, <4>1, <4>2, AnswerKeepsOne
      <3> QED BY <3>3, <3>4
    <2> QED BY <1>5, <2>3, <2>4 DEF SendDone
  <1>6. ASSUME NEW d \in Devices, RecvBroadcast(d)
        PROVE  OneOf(tx'[r], events'[r], kind)
    <2> DEFINE from == Head(events[d]).mac
               frame == Head(events[d]).frame
    <2>1. Take(d) /\ Head(events[d]).id = "RECV_CB" BY <1>6 DEF RecvBroadcast
    <2>2. from \in Devices BY <2>1, TakeType
    <2>3. CASE DeleteTask(d) \/ tx' = tx BY <1>4, <2>1, <2>3
    <2>4. CASE Starts(d, frame) /\ Send(d, from, 1)
      <3> DEFINE f == Prepare(d, from, 1)
      <3>1. f \in Frame /\ f.to = from BY <2>2, PrepareType DEF Addresses
      <3>2. tx' = [tx EXCEPT ![d] = Append(tx[d], f)] BY <2>4 DEF Send
      <3> HIDE DEF f
      <3>3. CASE r # d BY <1>1, <1>t, <1>take, <2>1, <3>2, <3>3
      <3>4. CASE r = d
        <4>1. events[r] # <<>> /\ events'[r] = Tail(events[r])
          BY <1>take, <2>1, <3>4
        <4>2. tx'[r] = Append(tx[r], f) BY <1>t, <3>2, <3>4
        <4>3. ~unicast[r] BY <2>4, <3>4 DEF Starts
        <4>4. from # "BROADCAST" BY <2>2 DEF EspNowAssumption
        <4>5. OneOf(tx[r], Tail(events[r]), kind) BY <1>r, <4>1, TakeKeepsOne
        <4>6. Tail(events[r]) \in Seq(Events) BY <1>r, <4>1, TakeOne
        <4>7. ASSUME from \in kind
              PROVE  TxAt(tx[r], kind) = {} /\ EventAt(Tail(events[r]), kind) = {}
          <5>1. kind = Devices BY <4>4, <4>7 DEF Kinds
          <5>2. ASSUME NEW i \in TxAt(tx[r], kind) PROVE FALSE
            <6>1. i \in 1..Len(tx[r]) /\ tx[r][i].to # "BROADCAST"
              BY <5>1, <5>2 DEF TxAt, EspNowAssumption
            <6>2. FrameOK(r, tx[r][i]) BY <6>1 DEF RolesInv, FramesOK
            <6> QED BY <4>3, <6>1, <6>2 DEF FrameOK
          <5>3. ASSUME NEW i \in EventAt(events[r], kind) PROVE FALSE
            <6>1. /\ i \in 1..Len(events[r]) /\ events[r][i].id = "SEND_CB"
                  /\ events[r][i].mac # "BROADCAST"
              BY <5>1, <5>3 DEF EventAt, EspNowAssumption
            <6>2. EventOK(r, events[r][i]) BY <6>1 DEF RolesInv, EventsOK
            <6> QED BY <4>3, <6>1, <6>2 DEF EventOK
          <5>4. ASSUME NEW i \in EventAt(Tail(events[r]), kind) PROVE FALSE
            <6>1. i + 1 \in EventAt(events[r], kind) BY <1>r, <4>1, <5>4, EventTail
            <6> QED BY <5>3, <6>1
          <5> QED BY <5>2, <5>4
        <4> QED BY <1>r, <3>1, <4>1, <4>2, <4>5, <4>6, <4>7, FirstKeepsOne
      <3> QED BY <3>3, <3>4
    <2> QED BY <1>6, <2>3, <2>4 DEF RecvBroadcast
  <1>7. ASSUME NEW d \in Devices, BroadcastStopped(d) \/ RecvNoMemory(d) \/ RecvUnicast(d)
        PROVE  OneOf(tx'[r], events'[r], kind)
    BY <1>4, <1>7 DEF BroadcastStopped, RecvNoMemory, RecvUnicast
  <1>8. CASE UNCHANGED vars BY <1>1, <1>8 DEF vars
  <1> QED BY <1>3, <1>5, <1>6, <1>7, <1>8 DEF Next, Task

LEMMA InitOne == ASSUME Init PROVE OneAtATime
  <1> SUFFICES ASSUME NEW d \in Devices, NEW kind \in Kinds
               PROVE  OneOf(tx[d], events[d], kind)
    BY OneIs
  <1>1. /\ tx[d] = <<Prepare(d, "BROADCAST", 0)>> \/ tx[d] = <<>>
        /\ events[d] = <<>>
    BY DEF Init
  <1>2. TxAt(tx[d], kind) \subseteq {1} BY <1>1 DEF TxAt
  <1>3. EventAt(events[d], kind) = {} BY <1>1 DEF EventAt
  <1> QED BY <1>2, <1>3 DEF OneOf, AtMostOne

(* All that holds of the pairing.                                           *)
EspNowInv == TypeOK /\ RolesInv /\ OneAtATime

LEMMA InitEspNow == ASSUME EspNowAssumption, Init PROVE EspNowInv
  BY InitType, InitRoles, InitOne DEF EspNowInv

LEMMA EspNowStep ==
    ASSUME EspNowAssumption, EspNowInv, [Next]_vars PROVE EspNowInv'
  BY TypeStep, FramesStep, EventsStep, SendersStep, HeardStep, OneStep
     DEF EspNowInv, RolesInv

(* A device gives esp_now_send a frame only when its last one of that kind  *)
(* has been sent and the notification of it taken from the queue: a task    *)
(* that has not started to send data has none under way.                    *)
THEOREM OneAtATimeCorrect == ASSUME EspNowAssumption PROVE Spec => []OneAtATime
  <1>1. Init => EspNowInv BY InitEspNow
  <1>2. EspNowInv /\ [Next]_vars => EspNowInv' BY EspNowStep
  <1>3. EspNowInv => OneAtATime BY DEF EspNowInv
  <1> QED BY <1>1, <1>2, <1>3, PTL DEF Spec
=============================================================================
