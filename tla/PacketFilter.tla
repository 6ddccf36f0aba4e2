---------------------------- MODULE PacketFilter ----------------------------
(***************************************************************************)
(* PacketAllowed of internal/tun/tun_linux.go: which IP packets a node     *)
(* lets into the tunnel and out of it.                                     *)
(*                                                                         *)
(* A packet is what the walk over its headers can see: its length, the     *)
(* version and header length of its first byte, its protocol byte (byte 9  *)
(* of IPv4, byte 6 of IPv6) and, for IPv6, the first two bytes at the      *)
(* place of each further header, next and size.  The walk only moves       *)
(* forward, so these are never the same bytes; the ones past the end of    *)
(* the packet are there in ext, and nothing may depend on them.            *)
(***************************************************************************)
EXTENDS Integers, Sequences

CONSTANT MaxHeaders  \* headers the IPv6 walk looks at (16)

ASSUME HeadersAssumption == MaxHeaders \in Nat \ {0}

TCP == 6
UDP == 17
Fragment == 44
Authentication == 51
Options == {0, 43, 60}
ExtensionHeaders == Options \cup {Fragment, Authentication}

\* The packets there are: bytes and half bytes, and a length.
IPPackets ==
  [version : 0 .. 15, ihl : 0 .. 15, len : Nat, proto : 0 .. 255,
   ext : [1 .. MaxHeaders -> [next : 0 .. 255, size : 0 .. 255]]]

Unknown == -1

HeaderLen(type, size) ==
  CASE type \in Options -> (size + 1) * 8
    [] type = Fragment -> 8
    [] OTHER -> (size + 2) * 4  \* Authentication

\* The header has to be there in full; len is never below 8.
Fits(p, offset, len) == p.len >= offset + len

\* One round of the loop.  result says how the loop returned, if it has:
\* with next ("ok") or with an error.
Round(p, headers, at) ==
  IF at.result # "none" THEN at
  ELSE IF at.next \notin ExtensionHeaders THEN [at EXCEPT !.result = "ok"]
  ELSE LET ext == p.ext[headers + 1]
           len == HeaderLen(at.next, ext.size)
       IN  IF Fits(p, at.offset, len)
             THEN [at EXCEPT !.next = ext.next, !.offset = @ + len]
             ELSE [at EXCEPT !.result = "error"]

\* What the loop holds after each number of rounds.
Walk(p) ==
  LET after[headers \in 0 .. MaxHeaders] ==
        IF headers = 0 THEN [next |-> p.proto, offset |-> 40, result |-> "none"]
        ELSE Round(p, headers - 1, after[headers - 1])
  IN  after

ipv6UpperLayerProtocol(p) ==
  IF p.len >= 40 /\ Walk(p)[MaxHeaders].result = "ok" THEN Walk(p)[MaxHeaders].next ELSE Unknown

ipProtocol(p) ==
  CASE p.len < 1 -> Unknown
    [] p.len >= 1 /\ p.version = 4 ->
         IF p.len < 20 \/ p.ihl * 4 < 20 \/ p.len < p.ihl * 4 THEN Unknown ELSE p.proto
    [] p.len >= 1 /\ p.version = 6 -> ipv6UpperLayerProtocol(p)
    [] OTHER -> Unknown

PacketAllowed(p, protocols) ==
  \/ "tcp" \in protocols /\ ipProtocol(p) = TCP
  \/ "udp" \in protocols /\ ipProtocol(p) = UDP

-----------------------------------------------------------------------------
(* What the filter should say, read off the packet as a whole.             *)

\* The type of header i, and where it starts.
TypeAt(p, i) == IF i = 0 THEN p.proto ELSE p.ext[i].next
HeaderStarts(p) ==
  LET start[i \in 0 .. MaxHeaders] ==
        IF i = 0 THEN 40 ELSE start[i - 1] + HeaderLen(TypeAt(p, i - 1), p.ext[i].size)
  IN  start
StartOf(p, i) == HeaderStarts(p)[i]

\* The packet is complete up to a header of type t: in IPv4 its one header,
\* in IPv6 a chain of fewer than MaxHeaders extension headers.
Carries(p, t) ==
  \/ p.version = 4 /\ p.ihl >= 5 /\ p.len >= 4 * p.ihl /\ p.proto = t
  \/ /\ p.version = 6 /\ p.len >= 40
     /\ \E i \in 0 .. MaxHeaders - 1 :
          /\ \A j \in 0 .. i - 1 : TypeAt(p, j) \in ExtensionHeaders
          /\ StartOf(p, i) =< p.len
          /\ TypeAt(p, i) = t

\* The packet is TCP or UDP and one of protocols.
Permitted(p, protocols) ==
  ("tcp" \in protocols /\ Carries(p, TCP)) \/ ("udp" \in protocols /\ Carries(p, UDP))
=============================================================================
