-------------------------------- MODULE Parts --------------------------------
(***************************************************************************)
(* The parts that share no state with the handset's modules or with each   *)
(* other, side by side: a behaviour is one of the part it has for subject, *)
(* and the variables of the others have no value.                          *)
(***************************************************************************)
EXTENDS Integers, Sequences

CONSTANTS
    Devices, Magics, SendCount, EventLen, RecvPosts,  \* EspNow
    SymBits, CodeBits, UintBits, Sizes, Symbols, HeaderBits, MaxSymbols,  \* RangeCoder
    Tocs, Lengths, Received, Room, Paddings, MaxFrames,  \* OpusPacket
    FixedPoint, Rooms, MaxCount                     \* OpusDecoder

VARIABLES
    subject,
    alive, broadcast, unicast, state, magic, count, dest, peers, tx, events, deaf,
    enc, dec, coded, decoded, marks, done,
    rp, packet, made,
    st, silk, celt, job, uses, last

N == INSTANCE EspNow
C == INSTANCE RangeCoder
P == INSTANCE OpusPacket
D == INSTANCE OpusDecoder

ASSUME NowAssumption == N!EspNowAssumption
ASSUME CoderAssumption == C!RangeCoderAssumption
ASSUME PacketAssumption == P!OpusPacketAssumption
ASSUME DecoderAssumption == D!OpusDecoderAssumption

------------------------------------------------------------------------------
nowVars == <<alive, broadcast, unicast, state, magic, count, dest, peers, tx,
             events, deaf>>
coderVars == <<enc, dec, coded, decoded, marks, done>>
packetVars == <<rp, packet, made>>
decoderVars == <<st, silk, celt, job, uses, last>>

NoValue == "none"
NoNow ==
    /\ alive = NoValue /\ broadcast = NoValue /\ unicast = NoValue
    /\ state = NoValue /\ magic = NoValue /\ count = NoValue /\ dest = NoValue
    /\ peers = NoValue /\ tx = NoValue /\ events = NoValue /\ deaf = NoValue
NoCoder ==
    /\ enc = NoValue /\ dec = NoValue /\ coded = NoValue /\ decoded = NoValue
    /\ marks = NoValue /\ done = NoValue
NoPacket ==
    /\ rp = NoValue /\ packet = NoValue /\ made = NoValue
NoDecoder ==
    /\ st = NoValue /\ silk = NoValue /\ celt = NoValue /\ job = NoValue
    /\ uses = NoValue /\ last = NoValue

Init ==
    \/ subject = "now" /\ N!Init /\ NoCoder /\ NoPacket /\ NoDecoder
    \/ subject = "coder" /\ C!Init /\ NoNow /\ NoPacket /\ NoDecoder
    \/ subject = "packet" /\ P!Init /\ NoNow /\ NoCoder /\ NoDecoder
    \/ subject = "decoder" /\ D!Init /\ NoNow /\ NoCoder /\ NoPacket

Of(part) == subject = part /\ UNCHANGED subject
Now == Of("now") /\ UNCHANGED <<coderVars, packetVars, decoderVars>>
Coder == Of("coder") /\ UNCHANGED <<nowVars, packetVars, decoderVars>>
Packet == Of("packet") /\ UNCHANGED <<nowVars, coderVars, decoderVars>>
Decoder == Of("decoder") /\ UNCHANGED <<nowVars, coderVars, packetVars>>

Next ==
    \/ \E d \in Devices : Now /\ N!Transmit(d)
    \/ \E d \in Devices : Now /\ N!SendDone(d)
    \/ \E d \in Devices : Now /\ N!BroadcastStopped(d)
    \/ \E d \in Devices : Now /\ N!RecvBroadcast(d)
    \/ \E d \in Devices : Now /\ N!RecvNoMemory(d)
    \/ \E d \in Devices : Now /\ N!RecvUnicast(d)
    \/ Coder /\ C!Next
    \/ Packet /\ P!Next
    \/ Decoder /\ D!Next

vars == <<subject, nowVars, coderVars, packetVars, decoderVars>>
Spec == Init /\ [][Next]_vars

(* The fairness of EspNow; nothing is owed by the others.                   *)
FairSpec ==
    /\ Spec
    /\ \A d \in Devices : /\ WF_vars(Now /\ N!Transmit(d))
                          /\ WF_vars(Now /\ N!Task(d))
                          /\ SF_vars(Now /\ N!Heard(d))

------------------------------------------------------------------------------
(* Each part keeps its types: the queues their lengths, the registers their *)
(* widths, the repacketizer its 120 ms.                                     *)
TypeOK ==
    CASE subject = "now" -> N!TypeOK
      [] subject = "coder" -> C!TypeOK
      [] subject = "packet" -> P!TypeOK
      [] subject = "decoder" -> D!TypeOK

(* ESP-NOW: of two devices one sends and the other receives (Starts of      *)
(* now.c), unless esp_random gave both the same number.                     *)
NoMutualSenders == subject = "now" => N!NoMutualSenders

(* A device sends unicast data only to one that has made it a peer, so the  *)
(* data can be decrypted, whatever the radio and the queues lost.           *)
SenderIsKnown == subject = "now" => N!SenderIsKnown

(* "Send the next data after the previous data is sent": espnow_task never  *)
(* has two frames of a kind under way.                                      *)
OneAtATime == subject = "now" => N!OneAtATime

(* A sender of espnow_task sends its frames and ends, unless its queue      *)
(* refused the notification that the next frame waits for.                  *)
SendersFinish ==
    \A d \in Devices :
        (subject = "now" /\ unicast[d]) ~> (subject = "now" /\ (~alive[d] \/ deaf[d]))

(* What ec_enc_* wrote without error ec_dec_* reads, and after each symbol  *)
(* the two sides agree on the range and on the bits used.                   *)
RoundTrip == subject = "coder" => C!RoundTrip /\ C!SameCount

(* An encoder that stops when ec_tell reaches the size of its packet never  *)
(* finds the packet full, neither before ec_enc_done nor in it.             *)
RoomEnough == subject = "coder" => C!RoomEnough

(* The parser of opus.c finds the frames that the repacketizer put into a   *)
(* packet, and in any packet only frames that lie inside it.                *)
FramesFound == subject = "packet" => P!FramesFound /\ P!FramesInside

(* Padding or stripping a packet where it lies never writes the header over *)
(* a frame that has not been moved yet (repacketizer.c:214).                *)
InPlace == [][subject = "packet" => P!InPlaceStep]_vars

(* A coder is asked only for sizes it has, and for a frame never goes on    *)
(* with the state of a stream that it left to the other coder; redundancy   *)
(* and fading out may (opus_decode_frame).                                  *)
NoStaleState == subject = "decoder" => D!NoStaleState

(* The assertions of opus_decode_native: concealed and decoded frames add   *)
(* up to what was asked for, and no coder writes beyond its room.           *)
WholeCalls == subject = "decoder" => D!WholeCalls
=============================================================================
