------------------------------ MODULE MCL3Path ------------------------------
(* TLC instance of L3Path, and the checks of its pure parts over bounded     *)
(* inputs.                                                                  *)
EXTENDS L3Path

Ext(next, size) == [next |-> next, size |-> size]
V4(len, ihl, proto) ==
  [version |-> 4, len |-> len, ihl |-> ihl, proto |-> proto, ext |-> <<Ext(UDP, 0), Ext(UDP, 0)>>]
V6(len, proto, ext1, ext2) ==
  [version |-> 6, len |-> len, ihl |-> 0, proto |-> proto, ext |-> <<ext1, ext2>>]

\* UDP behind an extension header, TCP, and what has to stay out: a cut
\* extension header, a cut IPv4 header, ICMP, and one header too many.
MCPackets ==
  {V6(56, 0, Ext(UDP, 1), Ext(0, 0)), V4(20, 5, TCP),
   V6(48, 0, Ext(UDP, 1), Ext(0, 0)), V4(20, 6, UDP), V4(24, 6, 1),
   V6(64, Fragment, Ext(60, 0), Ext(UDP, 0))}

MCAllow == [n \in {"a", "b"} |-> IF n = "a" THEN {"tcp", "udp"} ELSE {"udp"}]

\* Packets with two extension headers of every kind and with every length
\* around the ends of their headers.
Bytes == {0, 44, 51, 59, TCP, UDP} \X {0, 1}
PacketSpace ==
  {V4(len, ihl, proto) : len \in 0 .. 25, ihl \in 4 .. 7, proto \in {1, TCP, UDP}}
    \cup {V6(len, proto, Ext(x[1], x[2]), Ext(y[1], y[2])) :
            len \in {0, 1, 39, 40, 41, 42, 47, 48, 51, 52, 55, 56, 64, 71, 72},
            proto \in {0, 44, 51, 59, TCP, UDP}, x \in Bytes, y \in Bytes}

\* PacketAllowed agrees with the reading of the packet as a whole.
ASSUME FilterAgrees ==
  \A p \in PacketSpace : \A protocols \in SUBSET {"tcp", "udp"} :
    PacketAllowed(p, protocols) = Permitted(p, protocols)

\* Texts and payloads up to one unit over their limits.
Units(max) == UNION {[1 .. n -> {"x", "y"}] : n \in 0 .. max + 1}
MessageSpace ==
  [type : Types \cup {"other"}, id : {0, 1}, connID : {0, 1}, seq : {0},
   name : Units(MaxName), error : Units(MaxError), payload : Units(MaxPayload)]

\* Decode undoes Encode, and takes no frame that lost or gained a unit.
ASSUME CodecAgrees ==
  \A m \in {x \in MessageSpace : Encodable(x)} :
    LET f == Encode(m) IN
      /\ Decodable(f) /\ Decode(f) = m
      /\ ~Decodable([f EXCEPT !.body = Append(@, "x")])
      /\ f.body # <<>> => ~Decodable([f EXCEPT !.body = Tail(@)])
=============================================================================
