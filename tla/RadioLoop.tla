------------------------------ MODULE RadioLoop ------------------------------
(***************************************************************************)
(* The radio thread of the nRF9160 firmware, radio_loop of                 *)
(* nrf9160/src/module/motorola.c: it connects to the MQTT broker and then  *)
(* repeats                                                                 *)
(*                                                                         *)
(*   poll the socket; wait for an event; publish one frame; keep alive     *)
(*                                                                         *)
(* until something fails, and then disconnects and connects again.         *)
(* tx_frame, which frames are published from, is the encoder's own output  *)
(* buffer (line 146).                                                      *)
(*                                                                         *)
(* Two queues come from elsewhere, and nothing in src fills either one:    *)
(* p_opus_outgoing is only declared here (the encoder's k_msgq_put is      *)
(* commented out, audio.c:121), and radio_msg_queue has no listener.  What *)
(* the comments say of them is modelled as external (Enqueue and Event),   *)
(* and nothing is assumed of how often it happens.  The MQTT client, the   *)
(* network and the broker are outside src too: each call may succeed or    *)
(* fail.  Delays and connect_attempt, which only chooses one, have no      *)
(* place in a model without time.                                          *)
(*                                                                         *)
(* mqtt_event_handler is not an action: it would be called by mqtt_input,  *)
(* which the loop never reaches (see InboundHandled).                      *)
(*                                                                         *)
(* A definition whose name extends that of the definition after it is a    *)
(* mutated form of it, used only to show that a property would notice it.  *)
(***************************************************************************)
EXTENDS Integers, Sequences

CONSTANTS
    OutLen,      \* depth of p_opus_outgoing
    InboxLen,    \* DATA_QUEUE_ENTRY_COUNT, depth of radio_msg_queue
    MaxFrames,   \* bound: frames the encoder makes
    MaxInbound,  \* bound: messages the broker sends
    MaxFailures  \* bound: calls of the MQTT client and of poll that fail

ASSUME RadioAssumption ==
    /\ OutLen \in Nat \ {0} /\ InboxLen \in Nat \ {0}
    /\ MaxFrames \in Nat /\ MaxInbound \in Nat /\ MaxFailures \in Nat

VARIABLES
    pc,          \* the next statement of radio_loop
    err,         \* result of poll: -1 error, 0 timeout, 1 socket readable
    inbox,       \* radio_msg_queue
    outgoing,    \* p_opus_outgoing
    tx_frame,    \* the encoder's output buffer, number of the frame in it
    inbound,     \* bytes on the socket not yet read
    made,        \* history: frames encoded
    queued,      \* history: the frame queued last
    held,        \* history: the frame taken last from p_opus_outgoing
    taken,       \* history: frames taken from p_opus_outgoing
    published,   \* history: taken frames that were published
    overtaken,   \* history: frames encoded between a take and its publish
    lastSent,    \* history: the frame published last
    received,    \* history: messages the broker has sent
    failures,    \* history: calls that failed
    disconnects  \* history: calls of mqtt_disconnect

env == <<inbox, outgoing, tx_frame, made, queued, overtaken>>
net == <<inbound, received>>
sent == <<held, taken, published, lastSent>>
vars == <<pc, err, env, net, sent, failures, disconnects>>

InLoop == {"POLL", "NEXT_MSG", "FRAME", "PUBLISH", "LIVE"}
Frame == 0..MaxFrames

TypeOK ==
    /\ pc \in {"MODEM", "CLIENT", "CONNECT", "DISCONNECT", "RETURNED"} \cup InLoop
    /\ err \in {-1, 0, 1}
    /\ inbox \in Seq({"PDM_BUFFER_READY", "OTHER"}) /\ Len(inbox) <= InboxLen
    /\ outgoing \in Seq(Frame) /\ Len(outgoing) <= OutLen
    /\ tx_frame \in Frame /\ lastSent \in Frame /\ made \in Frame
    /\ queued \in 0..made /\ held \in Frame
    /\ inbound \in 0..MaxInbound /\ received \in 0..MaxInbound
    /\ taken \in Nat /\ published \in Nat /\ overtaken \in Nat
    /\ failures \in 0..MaxFailures
    /\ disconnects \in Nat

Init ==
    /\ pc = "MODEM" /\ err = 0
    /\ inbox = <<>> /\ outgoing = <<>> /\ tx_frame = 0
    /\ made = 0 /\ queued = 0 /\ overtaken = 0
    /\ inbound = 0 /\ received = 0
    /\ held = 0 /\ taken = 0 /\ published = 0 /\ lastSent = 0
    /\ failures = 0 /\ disconnects = 0

------------------------------------------------------------------------------
Fails == failures < MaxFailures /\ failures' = failures + 1
Works == failures' = failures

(* modem_configure is repeated until it works.                              *)
ModemConfigure ==
    /\ pc = "MODEM"
    /\ \/ Fails /\ pc' = "MODEM"
       \/ Works /\ pc' = "CLIENT"
    /\ UNCHANGED <<err, env, net, sent, disconnects>>

(* init_client fails when the broker's name is not resolved, and the thread *)
(* ends.                                                                    *)
InitClient ==
    /\ pc = "CLIENT"
    /\ \/ Fails /\ pc' = "RETURNED"
       \/ Works /\ pc' = "CONNECT"
    /\ UNCHANGED <<err, env, net, sent, disconnects>>

(* do_connect: mqtt_connect until it works, and fds_init.                   *)
Connect ==
    /\ pc = "CONNECT"
    /\ \/ Fails /\ pc' \in {"CONNECT", "RETURNED"}
       \/ Works /\ pc' = "POLL"
    /\ UNCHANGED <<err, env, net, sent, disconnects>>

(* poll returns the number of readable sockets, here 0 or 1.                *)
PollCountsMessages ==
    /\ pc = "POLL" /\ pc' = "NEXT_MSG"
    /\ \/ Fails /\ err' = -1
       \/ Works /\ err' = inbound
    /\ UNCHANGED <<env, net, sent, disconnects>>

Poll ==
    /\ pc = "POLL" /\ pc' = "NEXT_MSG"
    /\ \/ Fails /\ err' = -1
       \/ Works /\ err' = IF inbound > 0 THEN 1 ELSE 0
    /\ UNCHANGED <<env, net, sent, disconnects>>

(* mqtt_publish of tx_frame.                                                *)
Publish == Works /\ lastSent' = tx_frame

(* module_get_next_msg waits for an event; on_all_states answers            *)
(* PDM_BUFFER_READY with a publish whose result it ignores.                 *)
NextMsg ==
    /\ pc = "NEXT_MSG" /\ pc' = "FRAME"
    /\ inbox # <<>> /\ inbox' = Tail(inbox)
    /\ \/ Head(inbox) = "PDM_BUFFER_READY" /\ Publish
       \/ Head(inbox) = "PDM_BUFFER_READY" /\ Fails /\ UNCHANGED lastSent
       \/ Head(inbox) = "OTHER" /\ Works /\ UNCHANGED lastSent
    /\ UNCHANGED <<err, outgoing, tx_frame, made, queued, overtaken, net, held,
                   taken, published, disconnects>>

TakeFrameWhenFull ==
    /\ pc = "FRAME"
    /\ IF Len(outgoing) < 2
       THEN pc' = "LIVE" /\ UNCHANGED <<outgoing, tx_frame, held, taken>>
       ELSE /\ pc' = "PUBLISH"
            /\ outgoing' = Tail(outgoing) /\ tx_frame' = Head(outgoing)
            /\ held' = Head(outgoing) /\ taken' = taken + 1
    /\ UNCHANGED <<err, inbox, made, queued, overtaken, net, published, lastSent,
                   failures, disconnects>>

(* The frame goes into tx_frame, over what the encoder made last.           *)
TakeFrame ==
    /\ pc = "FRAME"
    /\ IF outgoing = <<>>
       THEN pc' = "LIVE" /\ UNCHANGED <<outgoing, tx_frame, held, taken>>
       ELSE /\ pc' = "PUBLISH"
            /\ outgoing' = Tail(outgoing) /\ tx_frame' = Head(outgoing)
            /\ held' = Head(outgoing) /\ taken' = taken + 1
    /\ UNCHANGED <<err, inbox, made, queued, overtaken, net, published, lastSent,
                   failures, disconnects>>

(* What is published is what tx_frame holds by now.                         *)
Kept == IF tx_frame = held THEN published + 1 ELSE published

PublishFrameGoesOn ==
    /\ pc = "PUBLISH"
    /\ pc' = "LIVE"
    /\ \/ Publish /\ published' = Kept
       \/ Fails /\ UNCHANGED <<published, lastSent>>
    /\ UNCHANGED <<err, env, net, held, taken, disconnects>>

PublishFrame ==
    /\ pc = "PUBLISH"
    /\ \/ Publish /\ published' = Kept /\ pc' = "LIVE"
       \/ Fails /\ pc' = "DISCONNECT" /\ UNCHANGED <<published, lastSent>>
    /\ UNCHANGED <<err, env, net, held, taken, disconnects>>

(* The rest of the loop's body.  err is still poll's result, not that of    *)
(* the publish, which has an err of its own; a readable socket counts as an *)
(* error, and when poll returned 0 no revents are set, so that mqtt_input   *)
(* is never called.                                                         *)
Live ==
    /\ pc = "LIVE"
    /\ IF err # 0
       THEN Works /\ pc' = "DISCONNECT"
       ELSE \/ Fails /\ pc' = "DISCONNECT"
            \/ Works /\ pc' = "POLL"
    /\ UNCHANGED <<err, env, net, sent, disconnects>>

(* mqtt_disconnect closes the socket; what was on it is gone.               *)
Disconnect ==
    /\ pc = "DISCONNECT" /\ pc' = "CONNECT"
    /\ disconnects' = disconnects + 1
    /\ inbound' = 0
    /\ UNCHANGED <<err, env, received, sent, failures>>

Thread ==
    \/ ModemConfigure \/ InitClient \/ Connect \/ Poll \/ NextMsg
    \/ TakeFrame \/ PublishFrame \/ Live \/ Disconnect

------------------------------------------------------------------------------
(* The encoder makes a frame in its buffer, whatever is there and whatever  *)
(* the thread is doing.  The ring it also puts the frame into has no reader. *)
Encode ==
    /\ made < MaxFrames
    /\ made' = made + 1
    /\ tx_frame' = made + 1
    /\ overtaken' = IF pc = "PUBLISH" THEN overtaken + 1 ELSE overtaken
    /\ UNCHANGED <<pc, err, inbox, outgoing, queued, net, sent, failures,
                   disconnects>>

(* "OPUS ENCODER -> the p_opus_outgoing message queue": frames in the order *)
(* they were made, each at most once.                                       *)
Enqueue ==
    /\ Len(outgoing) < OutLen
    /\ \E f \in queued + 1 .. made :
         queued' = f /\ outgoing' = Append(outgoing, f)
    /\ UNCHANGED <<pc, err, inbox, tx_frame, made, overtaken, net, sent, failures,
                   disconnects>>

(* Another context fills the module queue.                                  *)
Event ==
    /\ Len(inbox) < InboxLen
    /\ \E e \in {"PDM_BUFFER_READY", "OTHER"} : inbox' = Append(inbox, e)
    /\ UNCHANGED <<pc, err, outgoing, tx_frame, made, queued, overtaken, net, sent,
                   failures, disconnects>>

(* The broker sends something to a connected client.                        *)
BrokerSends ==
    /\ pc \in InLoop /\ received < MaxInbound
    /\ received' = received + 1
    /\ inbound' = inbound + 1
    /\ UNCHANGED <<pc, err, env, sent, failures, disconnects>>

Next == Thread \/ Encode \/ Enqueue \/ Event \/ BrokerSends

Spec == Init /\ [][Next]_vars

(* The thread is scheduled whenever it can run; nothing is assumed of the   *)
(* encoder, the queues' other ends, the network and the broker.             *)
FairSpec == Spec /\ WF_vars(Thread)

------------------------------------------------------------------------------
(* Where a taken frame can go: it is published, or lost with its session,   *)
(* one for each disconnect at most, or overwritten by one that the encoder  *)
(* made between the take and the publish, one for each of those at most; or *)
(* it is still in the buffer.                                               *)
LossesExplained ==
    taken - published
        <= disconnects + overtaken
             + (IF pc \in {"PUBLISH", "DISCONNECT"} THEN 1 ELSE 0)

(* Every queued frame is taken, whatever the broker and the network do in   *)
(* between, or the thread has given up, or it waits for ever for an event   *)
(* that no other context sends.  Calls fail a bounded number of times: a    *)
(* network that never works again gets no frame.                            *)
InQueue(f) == \E i \in 1..Len(outgoing) : outgoing[i] = f
Waiting == pc = "NEXT_MSG" /\ inbox = <<>>

FramesTaken ==
    \/ <>[]Waiting
    \/ \A f \in 1..MaxFrames : InQueue(f) ~> (~InQueue(f) \/ pc = "RETURNED")

(* motorola.c:87: "when new PUBLISH events are received, it's handled in    *)
(* the MQTT event handler": as long as nothing fails, no session is ended   *)
(* with something unread.                                                   *)
InboundHandled ==
    [][pc = "LIVE" /\ pc' = "DISCONNECT" /\ failures' = 0 => inbound = 0]_vars

(* thoughts.md:117: "we essentially just want in-order packet delivery";    *)
(* a frame may be repeated, but none follows a later one.                   *)
InOrder == [][lastSent' >= lastSent]_vars
=============================================================================
