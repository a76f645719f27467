--------------------------- MODULE RadioLoop_proofs ---------------------------
(***************************************************************************)
(* Proofs about the radio thread for every depth of its two queues and     *)
(* every number of frames, messages and failures.                          *)
(***************************************************************************)
EXTENDS RadioLoop, TLAPS

Kind == {"PDM_BUFFER_READY", "OTHER"}

(* A queue that loses its first element or gains one at the end.            *)
LEMMA TailOf ==
    ASSUME NEW S, NEW s \in Seq(S), s # <<>>
    PROVE  /\ Head(s) = s[1] /\ Head(s) \in S
           /\ Tail(s) \in Seq(S)
           /\ Len(s) \in Nat \ {0} /\ Len(Tail(s)) = Len(s) - 1
           /\ \A j \in 1..Len(Tail(s)) : Tail(s)[j] = s[j + 1]
  OBVIOUS

LEMMA AppendTo ==
    ASSUME NEW S, NEW s \in Seq(S), NEW e \in S
    PROVE  /\ Append(s, e) \in Seq(S)
           /\ Len(Append(s, e)) = Len(s) + 1
           /\ \A j \in 1..Len(s) : Append(s, e)[j] = s[j]
           /\ Append(s, e)[Len(s) + 1] = e
  OBVIOUS

LEMMA Empty == \A S : <<>> \in Seq(S) /\ Len(<<>>) = 0
  OBVIOUS

-----------------------------------------------------------------------------
(* What is unread was sent, as TypeOK's bound on inbound rests on.          *)
Inv == TypeOK /\ inbound <= received

LEMMA FailWork ==
    ASSUME TypeOK, Fails \/ Works
    PROVE  failures' \in 0..MaxFailures
  BY RadioAssumption DEF TypeOK, Fails, Works

(* Steps of the thread between its queue and the network, which leave the   *)
(* frames alone.                                                            *)
LEMMA ControlType ==
    ASSUME TypeOK,
           ModemConfigure \/ InitClient \/ Connect \/ Poll \/ Live \/ Disconnect
    PROVE  TypeOK'
           /\ (inbound' = inbound \/ inbound' = 0) /\ received' = received
  <1> USE RadioAssumption DEF InLoop
  <1>1. CASE ModemConfigure
    BY <1>1, FailWork DEF ModemConfigure, TypeOK, env, net, sent
  <1>2. CASE InitClient
    BY <1>2, FailWork DEF InitClient, TypeOK, env, net, sent
  <1>3. CASE Connect
    BY <1>3, FailWork DEF Connect, TypeOK, env, net, sent
  <1>4. CASE Poll
    BY <1>4, FailWork DEF Poll, TypeOK, env, net, sent
  <1>5. CASE Live
    BY <1>5, FailWork DEF Live, TypeOK, env, net, sent
  <1>6. CASE Disconnect
    BY <1>6 DEF Disconnect, TypeOK, env, sent
  <1> QED BY <1>1, <1>2, <1>3, <1>4, <1>5, <1>6

LEMMA InvStep == Inv /\ [Next]_vars => Inv'
  <1> SUFFICES ASSUME TypeOK, inbound <= received, [Next]_vars
               PROVE  TypeOK' /\ inbound' <= received'
    BY DEF Inv
  <1> USE RadioAssumption
  <1>t. /\ made \in Nat /\ queued \in 0..made /\ made \in Frame
        /\ inbound \in Nat /\ received \in Nat
        /\ outgoing \in Seq(Frame) /\ Len(outgoing) \in Nat
        /\ Len(outgoing) <= OutLen
    BY DEF TypeOK, Frame
  <1>1. CASE ModemConfigure \/ InitClient \/ Connect \/ Poll \/ Live \/ Disconnect
    <2>1. TypeOK'
          /\ (inbound' = inbound \/ inbound' = 0) /\ received' = received
      BY <1>1, ControlType
    <2> QED BY <1>t, <2>1
  <1>2. CASE NextMsg
    <2>1. /\ inbox # <<>> /\ inbox' = Tail(inbox) /\ pc' = "FRAME"
          /\ failures' \in 0..MaxFailures
          /\ lastSent' = lastSent \/ lastSent' = tx_frame
          /\ UNCHANGED <<err, outgoing, tx_frame, made, queued, overtaken, net,
                         held, taken, published, disconnects>>
      BY <1>2, FailWork DEF NextMsg, Publish, Works
    <2>2. inbox' \in Seq(Kind) /\ Len(inbox') <= InboxLen
      BY <2>1, TailOf DEF TypeOK, Kind
    <2> QED BY <2>1, <2>2 DEF TypeOK, Kind, net, InLoop
  <1>3. CASE TakeFrame
    <2>0. UNCHANGED <<err, inbox, made, queued, overtaken, net, published,
                      lastSent, failures, disconnects>>
      BY <1>3 DEF TakeFrame
    <2>1. CASE outgoing = <<>>
      <3>1. pc' = "LIVE" /\ UNCHANGED <<outgoing, tx_frame, held, taken>>
        BY <1>3, <2>1, Zenon DEF TakeFrame
      <3> QED BY <2>0, <3>1 DEF TypeOK, net, InLoop
    <2>2. CASE outgoing # <<>>
      <3>1. /\ pc' = "PUBLISH" /\ outgoing' = Tail(outgoing)
            /\ tx_frame' = Head(outgoing) /\ held' = Head(outgoing)
            /\ taken' = taken + 1
        BY <1>3, <2>2 DEF TakeFrame
      <3>2. /\ Tail(outgoing) \in Seq(Frame) /\ Head(outgoing) \in Frame
            /\ Len(Tail(outgoing)) <= OutLen
        BY <1>t, <2>2, TailOf
      <3> QED BY <2>0, <3>1, <3>2 DEF TypeOK, net, InLoop
    <2> QED BY <2>1, <2>2
  <1>4. CASE PublishFrame
    <2>1. /\ pc' \in {"LIVE", "DISCONNECT"}
          /\ published' = published \/ published' = published + 1
          /\ lastSent' = lastSent \/ lastSent' = tx_frame
          /\ failures' \in 0..MaxFailures
          /\ UNCHANGED <<err, env, net, held, taken, disconnects>>
      BY <1>4, FailWork DEF PublishFrame, Publish, Kept
    <2> QED BY <1>t, <2>1 DEF TypeOK, env, net, InLoop
  <1>5. CASE Encode
    <2>1. /\ made < MaxFrames /\ made' = made + 1 /\ tx_frame' = made + 1
          /\ overtaken' = overtaken \/ overtaken' = overtaken + 1
          /\ UNCHANGED <<pc, err, inbox, outgoing, queued, net, sent, failures,
                         disconnects>>
      BY <1>5 DEF Encode
    <2>2. made + 1 \in Frame /\ queued \in 0..(made + 1)
      BY <1>t, <2>1 DEF Frame
    <2> QED BY <2>1, <2>2 DEF TypeOK, net, sent
  <1>6. CASE Enqueue
    <2>1. PICK f \in queued + 1 .. made :
                 queued' = f /\ outgoing' = Append(outgoing, f)
      BY <1>6 DEF Enqueue
    <2>2. /\ Len(outgoing) < OutLen
          /\ UNCHANGED <<pc, err, inbox, tx_frame, made, overtaken, net, sent,
                         failures, disconnects>>
      BY <1>6 DEF Enqueue
    <2>3. f \in Frame /\ f \in 0..made
      BY <1>t DEF Frame
    <2>4. outgoing' \in Seq(Frame) /\ Len(outgoing') <= OutLen
      BY <1>t, <2>1, <2>2, <2>3, AppendTo
    <2> QED BY <2>1, <2>2, <2>3, <2>4 DEF TypeOK, net, sent
  <1>7. CASE Event
    <2>1. PICK e \in Kind : inbox' = Append(inbox, e)
      BY <1>7 DEF Event, Kind
    <2>2. inbox' \in Seq(Kind) /\ Len(inbox') <= InboxLen
      BY <1>7, <2>1, AppendTo DEF Event, TypeOK, Kind
    <2> QED BY <1>7, <2>2 DEF Event, TypeOK, Kind, net, sent
  <1>8. CASE BrokerSends
    BY <1>8 DEF BrokerSends, TypeOK, env, sent
  <1>9. CASE UNCHANGED vars
    BY <1>9 DEF vars, TypeOK, env, net, sent
  <1> QED BY <1>1, <1>2, <1>3, <1>4, <1>5, <1>6, <1>7, <1>8, <1>9
          DEF Next, Thread

LEMMA InvInit == Init => Inv
  <1> SUFFICES ASSUME Init PROVE Inv
    OBVIOUS
  <1>1. /\ inbox \in Seq(Kind) /\ Len(inbox) = 0
        /\ outgoing \in Seq(Frame) /\ Len(outgoing) = 0
    BY Empty DEF Init
  <1>2. /\ pc = "MODEM" /\ err = 0 /\ tx_frame = 0 /\ made = 0
        /\ queued = 0 /\ held = 0 /\ overtaken = 0
        /\ inbound = 0 /\ received = 0 /\ taken = 0 /\ published = 0
        /\ lastSent = 0 /\ failures = 0 /\ disconnects = 0
    BY DEF Init
  <1> QED BY <1>1, <1>2, RadioAssumption DEF Inv, TypeOK, Kind, Frame, InLoop

(* Type correctness: every variable keeps its type and the two queues never *)
(* hold more than their depths.                                             *)
THEOREM TypeCorrect == Spec => []TypeOK
  <1>1. Inv => TypeOK
    BY DEF Inv
  <1> QED BY <1>1, InvInit, InvStep, PTL DEF Spec

-----------------------------------------------------------------------------
(* While the thread is about to publish, the frame it took is either still  *)
(* in the buffer or already counted as overtaken.                           *)
Open ==
    \/ pc = "DISCONNECT"
    \/ pc = "PUBLISH" /\ tx_frame = held

LossInv == taken - published <= disconnects + overtaken + (IF Open THEN 1 ELSE 0)

LEMMA LossStep ==
    ASSUME TypeOK, LossInv, [Next]_vars PROVE LossInv'
  <1>t. /\ taken \in Nat /\ published \in Nat /\ disconnects \in Nat
        /\ overtaken \in Nat
    BY DEF TypeOK
  <1>1. CASE TakeFrame
    <2>1. /\ published' = published /\ disconnects' = disconnects
          /\ overtaken' = overtaken /\ pc = "FRAME"
      BY <1>1 DEF TakeFrame
    <2>2. \/ taken' = taken
          \/ taken' = taken + 1 /\ pc' = "PUBLISH" /\ tx_frame' = held'
      BY <1>1 DEF TakeFrame
    <2> QED BY <1>t, <2>1, <2>2 DEF LossInv, Open
  <1>2. CASE PublishFrame
    <2>1. /\ pc = "PUBLISH" /\ taken' = taken /\ disconnects' = disconnects
          /\ overtaken' = overtaken
      BY <1>2 DEF PublishFrame, env
    <2>2. CASE pc' = "LIVE"
      <3>1. published' = IF tx_frame = held THEN published + 1 ELSE published
        BY <1>2, <2>2 DEF PublishFrame, Kept
      <3> QED BY <1>t, <2>1, <2>2, <3>1 DEF LossInv, Open
    <2>3. CASE pc' = "DISCONNECT"
      <3>1. published' = published
        BY <1>2, <2>3 DEF PublishFrame
      <3> QED BY <1>t, <2>1, <2>3, <3>1 DEF LossInv, Open
    <2> QED BY <1>2, <2>2, <2>3 DEF PublishFrame
  <1>3. CASE Disconnect
    BY <1>t, <1>3 DEF Disconnect, sent, env, LossInv, Open
  <1>4. CASE ModemConfigure \/ InitClient \/ Connect \/ Poll \/ NextMsg \/ Live
    <2>1. /\ taken' = taken /\ published' = published
          /\ disconnects' = disconnects /\ overtaken' = overtaken
          /\ pc \notin {"PUBLISH", "DISCONNECT"}
      BY <1>4 DEF ModemConfigure, InitClient, Connect, Poll, NextMsg, Live, sent,
                  env
    <2> QED BY <1>t, <2>1 DEF LossInv, Open
  <1>5. CASE Encode
    <2>1. /\ UNCHANGED <<pc, taken, published, disconnects>>
          /\ overtaken' = IF pc = "PUBLISH" THEN overtaken + 1 ELSE overtaken
      BY <1>5 DEF Encode, sent
    <2> QED BY <1>t, <2>1 DEF LossInv, Open
  <1>6. CASE Enqueue \/ Event \/ BrokerSends \/ UNCHANGED vars
    <2>1. UNCHANGED <<pc, taken, published, disconnects, overtaken, tx_frame, held>>
      BY <1>6 DEF Enqueue, Event, BrokerSends, vars, sent, env
    <2> QED BY <2>1 DEF LossInv, Open
  <1> QED BY <1>1, <1>2, <1>3, <1>4, <1>5, <1>6 DEF Next, Thread

(* Losses: a frame that was taken reaches the broker itself, or is lost with *)
(* its session, at most one for each disconnect, or is overwritten in the   *)
(* shared buffer, at most one for each frame the encoder made in between.   *)
THEOREM LossesCorrect == Spec => []LossesExplained
  <1>1. Init => LossInv
    BY DEF Init, LossInv, Open
  <1>2. Inv /\ LossInv /\ [Next]_vars => LossInv'
    BY LossStep DEF Inv
  <1>3. Inv /\ LossInv => LossesExplained
    BY DEF Inv, TypeOK, LossInv, Open, LossesExplained
  <1> QED BY <1>1, <1>2, <1>3, InvInit, InvStep, PTL DEF Spec
=============================================================================
