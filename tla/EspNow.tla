-------------------------------- MODULE EspNow --------------------------------
(***************************************************************************)
(* Pairing over ESP-NOW: espnow_task of esp32/src/now.c on every device    *)
(* and its callbacks.  A device broadcasts until it hears a broadcast      *)
(* whose sender has itself heard one; the device with the larger magic     *)
(* number then sends unicast data to the other.                            *)
(*                                                                         *)
(* The receive callback that now.c registers is empty.  friend.c has one   *)
(* that posts what it receives, but nothing registers it and its queue is  *)
(* another one.  RecvPosts chooses: FALSE is the code as it is; TRUE is    *)
(* what the task is written for, a callback like friend.c's that posts to  *)
(* the task's queue.                                                       *)
(*                                                                         *)
(* The radio takes the frames of a device in order.  Each of the others    *)
(* receives a frame or does not, and the sender's callback follows in any  *)
(* case.  A callback gives up when the queue stays full: the frame, or the *)
(* notification, is lost.                                                  *)
(***************************************************************************)
EXTENDS Integers, Sequences

CONSTANTS
    Devices,
    Magics,     \* the values of esp_random
    SendCount,  \* CONFIG_ESPNOW_SEND_COUNT
    EventLen,   \* length of espnow_queue
    RecvPosts   \* the receive callback posts to espnow_queue

EspNowAssumption ==
    /\ Magics \subseteq Int
    /\ SendCount \in Nat \ {0}
    /\ EventLen \in Nat \ {0}
    /\ RecvPosts \in BOOLEAN
    /\ "BROADCAST" \notin Devices

VARIABLES
    alive,      \* the device's task has not deleted itself
    broadcast, unicast, state, magic, count, dest,  \* its send_param
    peers,      \* its ESP-NOW peer list, the broadcast address aside
    tx,         \* frames given to esp_now_send and not yet on the air
    events,     \* espnow_queue
    deaf        \* history: a send notification was refused by the queue

vars == <<alive, broadcast, unicast, state, magic, count, dest, peers, tx,
          events, deaf>>

------------------------------------------------------------------------------
Addresses == Devices \cup {"BROADCAST"}

(* What example_espnow_data_prepare writes: the type follows from the       *)
(* destination.                                                             *)
Frame == [to : Addresses, state : {0, 1}, magic : Magics]
Prepare(d, to, st) == [to |-> to, state |-> st, magic |-> magic[d]]

SendEvent == [id : {"SEND_CB"}, mac : Addresses]
RecvEvent == [id : {"RECV_CB"}, mac : Devices, frame : Frame]
Events == SendEvent \cup RecvEvent

TypeOK ==
    /\ alive \in [Devices -> BOOLEAN]
    /\ broadcast \in [Devices -> BOOLEAN]
    /\ unicast \in [Devices -> BOOLEAN]
    /\ state \in [Devices -> {0, 1}]
    /\ magic \in [Devices -> Magics]
    /\ count \in [Devices -> 0..SendCount]
    /\ dest \in [Devices -> Addresses]
    /\ peers \in [Devices -> SUBSET Devices]
    /\ tx \in [Devices -> Seq(Frame)]
    /\ events \in [Devices -> Seq(Events)]
    /\ \A d \in Devices : Len(events[d]) <= EventLen
    /\ deaf \in [Devices -> BOOLEAN]

(* init_espnow, and the first broadcast of the task.  Where memory runs out *)
(* or that first esp_now_send fails, the device has no task.                *)
Init ==
    /\ alive \in [Devices -> BOOLEAN]
    /\ broadcast = [d \in Devices |-> TRUE]
    /\ unicast = [d \in Devices |-> FALSE]
    /\ state = [d \in Devices |-> 0]
    /\ magic \in [Devices -> Magics]
    /\ count = [d \in Devices |-> SendCount]
    /\ dest = [d \in Devices |-> "BROADCAST"]
    /\ peers = [d \in Devices |-> {}]
    /\ tx = [d \in Devices |->
               IF alive[d] THEN <<Prepare(d, "BROADCAST", 0)>> ELSE <<>>]
    /\ events = [d \in Devices |-> <<>>]
    /\ deaf = [d \in Devices |-> FALSE]

------------------------------------------------------------------------------
(* The callbacks, in the WiFi task.  The frame at the head of d's transmit  *)
(* queue reaches those it is meant for that hear it; unicast frames are     *)
(* encrypted, and only a peer can read them.                                *)
Listeners(d, to) ==
    {r \in Devices \ {d} :
        RecvPosts /\ alive[r] /\ (to = "BROADCAST" \/ (to = r /\ d \in peers[r]))}

HasRoomOffByOne(r) == Len(events[r]) <= EventLen
HasRoom(r) == Len(events[r]) < EventLen

Transmit(d) ==
    /\ alive[d] /\ tx[d] # <<>>
    /\ \E heard \in SUBSET Listeners(d, Head(tx[d]).to) :
         events' = [r \in Devices |->
             IF ~HasRoom(r) THEN events[r]
             ELSE IF r = d
             THEN Append(events[r], [id |-> "SEND_CB", mac |-> Head(tx[d]).to])
             ELSE IF r \in heard
             THEN Append(events[r], [id |-> "RECV_CB", mac |-> d,
                                     frame |-> Head(tx[d])])
             ELSE events[r]]
    /\ deaf' = [deaf EXCEPT ![d] = @ \/ ~HasRoom(d)]
    /\ tx' = [tx EXCEPT ![d] = Tail(@)]
    /\ UNCHANGED <<alive, broadcast, unicast, state, magic, count, dest, peers>>

------------------------------------------------------------------------------
(* espnow_task.                                                             *)
Take(d) ==
    /\ alive[d] /\ events[d] # <<>>
    /\ events' = [events EXCEPT ![d] = Tail(@)]

(* esp_now_send may fail, and a task that has nothing left to do, or cannot *)
(* do it, deletes itself.                                                   *)
Send(d, to, st) == tx' = [tx EXCEPT ![d] = Append(@, Prepare(d, to, st))]

DeleteTask(d) ==
    /\ alive' = [alive EXCEPT ![d] = FALSE]
    /\ tx' = [tx EXCEPT ![d] = <<>>]

(* EXAMPLE_ESPNOW_SEND_CB: the next frame to the same address.              *)
SendDone(d) ==
    LET mac == Head(events[d]).mac
        left == IF mac = "BROADCAST" THEN count[d] ELSE count[d] - 1 IN
    /\ Take(d) /\ Head(events[d]).id = "SEND_CB"
    /\ mac = "BROADCAST" => broadcast[d]
    /\ count' = [count EXCEPT ![d] = left]
    /\ \/ /\ left > 0
          /\ dest' = [dest EXCEPT ![d] = mac]
          /\ Send(d, mac, state[d]) /\ alive' = alive
       \/ /\ left > 0
          /\ dest' = [dest EXCEPT ![d] = mac]
          /\ DeleteTask(d)
       \/ left = 0 /\ dest' = dest /\ DeleteTask(d)
    /\ UNCHANGED <<broadcast, unicast, state, magic, peers, deaf>>

BroadcastStoppedAll(d) ==
    /\ Take(d) /\ Head(events[d]).id = "SEND_CB" /\ ~broadcast[d]
    /\ UNCHANGED <<alive, broadcast, unicast, state, magic, count, dest, peers,
                   tx, deaf>>

BroadcastStopped(d) ==
    /\ Take(d) /\ Head(events[d]).id = "SEND_CB"
    /\ Head(events[d]).mac = "BROADCAST" /\ ~broadcast[d]
    /\ UNCHANGED <<alive, broadcast, unicast, state, magic, count, dest, peers,
                   tx, deaf>>

(* EXAMPLE_ESPNOW_RECV_CB with a broadcast: the sender becomes a peer, and  *)
(* if it has heard a broadcast itself the larger magic number, or an equal  *)
(* one, starts to send unicast data.                                        *)
StartsAnyway(d, f) == f.state = 1 /\ ~unicast[d]
StartsAgain(d, f) == f.state = 1 /\ magic[d] >= f.magic
StartsUnheard(d, f) == ~unicast[d] /\ magic[d] >= f.magic
Starts(d, f) == f.state = 1 /\ ~unicast[d] /\ magic[d] >= f.magic

RecvBroadcast(d) ==
    LET from == Head(events[d]).mac
        frame == Head(events[d]).frame IN
    /\ Take(d) /\ Head(events[d]).id = "RECV_CB" /\ frame.to = "BROADCAST"
    /\ peers' = [peers EXCEPT ![d] = @ \cup {from}]
    /\ state' = [state EXCEPT ![d] = 1]
    /\ IF Starts(d, frame)
       THEN /\ dest' = [dest EXCEPT ![d] = from]
            /\ \/ /\ Send(d, from, 1) /\ alive' = alive
                  /\ broadcast' = [broadcast EXCEPT ![d] = FALSE]
                  /\ unicast' = [unicast EXCEPT ![d] = TRUE]
               \/ DeleteTask(d) /\ UNCHANGED <<broadcast, unicast>>
       ELSE UNCHANGED <<alive, broadcast, unicast, dest, tx>>
    /\ UNCHANGED <<magic, count, deaf>>

(* No memory for the new peer.                                              *)
RecvNoMemory(d) ==
    /\ Take(d) /\ Head(events[d]).id = "RECV_CB"
    /\ Head(events[d]).frame.to = "BROADCAST"
    /\ Head(events[d]).mac \notin peers[d]
    /\ DeleteTask(d)
    /\ UNCHANGED <<broadcast, unicast, state, magic, count, dest, peers, deaf>>

RecvUnicast(d) ==
    /\ Take(d) /\ Head(events[d]).id = "RECV_CB"
    /\ Head(events[d]).frame.to # "BROADCAST"
    /\ broadcast' = [broadcast EXCEPT ![d] = FALSE]
    /\ UNCHANGED <<alive, unicast, state, magic, count, dest, peers, tx, deaf>>

Task(d) ==
    \/ SendDone(d) \/ BroadcastStopped(d)
    \/ RecvBroadcast(d) \/ RecvNoMemory(d) \/ RecvUnicast(d)

Next == \E d \in Devices : Transmit(d) \/ Task(d)

Spec == Init /\ [][Next]_vars

(* The tasks are scheduled and the radio sends; of a frame that is sent     *)
(* again and again, not every copy is lost.                                 *)
Heard(d) ==
    /\ Transmit(d)
    /\ \A r \in Listeners(d, Head(tx[d]).to) : events'[r] # events[r]

FairSpec ==
    /\ Spec
    /\ \A d \in Devices : WF_vars(Transmit(d)) /\ WF_vars(Task(d))
    /\ \A d \in Devices : SF_vars(Heard(d))

------------------------------------------------------------------------------
(* One side of a pair sends and the other receives: two devices send data   *)
(* to each other only when esp_random gave both the same number.            *)
NoMutualSenders ==
    \A a, b \in Devices :
        unicast[a] /\ unicast[b] /\ dest[a] = b /\ dest[b] = a
            => magic[a] = magic[b]

(* A sender's data can be read: the receiver has heard this sender and made *)
(* it a peer, whatever was lost on the way.  Of three devices this does not *)
(* hold: the broadcast that the receiver heard may have been the third's.   *)
SenderIsKnown == \A d \in Devices : unicast[d] => d \in peers[dest[d]]

(* "Send the next data after the previous data is sent": frames of a kind   *)
(* are under way, or their notification is, one at a time.                  *)
UnderWay(d, kind) ==
    ({"tx"} \X {i \in 1..Len(tx[d]) : tx[d][i].to \in kind})
    \cup ({"events"} \X {i \in 1..Len(events[d]) :
                          events[d][i].id = "SEND_CB" /\ events[d][i].mac \in kind})

OneAtATime ==
    \A d \in Devices, kind \in {Devices, {"BROADCAST"}} :
        \A p, q \in UnderWay(d, kind) : p = q

(* A sender sends its SendCount frames and ends, unless its queue refused   *)
(* the notification that the next frame waits for.                          *)
SendersFinish == \A d \in Devices : unicast[d] ~> (~alive[d] \/ deaf[d])
=============================================================================
