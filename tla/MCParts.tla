------------------------------- MODULE MCParts -------------------------------
(* The parts on small instances: two devices, and of Opus every kind of     *)
(* symbol, packet and change between the coders.                            *)
EXTENDS Parts

(* Every way to encode: a part of a whole, with parts of one and none of    *)
(* zero; one bit; a table; a number of more than UintBits bits; raw bits.   *)
SomeSymbols ==
    [op : {"part"}, value : 0..2, of : {<<0, 1, 7, 8>>}]
    \cup [op : {"logp"}, value : 0..1, of : {2}]
    \cup [op : {"icdf"}, value : {0, 2}, of : {<<7, 3, 0>>}]
    \cup [op : {"uint"}, value : {20}, of : {21}]
    \cup [op : {"bits"}, value : {19}, of : {5}]

(* Packets with every frame count code, cut short at every place, with and  *)
(* without padding, and some of no length that they could have.             *)
Heads ==
    {<<16>>, <<17>>, <<18, 1>>, <<18, 252>>, <<18, 252, 2>>, <<18, 255, 255>>,
     <<24>>, <<27, 2>>, <<19>>}
    \cup {<<19, n>> \o h : n \in {0, 2, 3, 66, 131, 195},
                           h \in {<<1>>, <<252, 2>>, <<255, 2, 1>>, <<2, 3, 1, 252, 0>>}}
SomePackets ==
    {[head |-> SubSeq(h, 1, IF n < Len(h) THEN n ELSE Len(h)), len |-> n] :
       h \in Heads, n \in {1, 3, 260, 3000}}
=============================================================================
