--------------------------------- MODULE Acl ---------------------------------
(***************************************************************************)
(* Subnets and access control (core/policy/acl.cpp): a configured subnet   *)
(* is checked and kept as a masked address, and clients are matched        *)
(* against it byte by byte.                                                *)
(*                                                                         *)
(* Bytes have ByteBits bits.  An IPv4 address has V4Bytes of them and an   *)
(* IPv6 address one more, in front, which is all ones in an IPv4-mapped    *)
(* one.  The array both are kept in has room for the longer.               *)
(***************************************************************************)
EXTENDS Integers, SequencesExt, Bitwise

CONSTANTS
  ByteBits, V4Bytes,
  MaxSubnets   \* bound: entries of the list

Byte == 0..(2^ByteBits - 1)
AllOnes == 2^ByteBits - 1

address_bytes(family) == IF family = "INET" THEN V4Bytes ELSE V4Bytes + 1

\* IpAddress: bytes past the family's own are 0.
Ips ==
  {ip \in [family : {"INET", "INET6"}, bytes : [1..(V4Bytes + 1) -> Byte]] :
     ip.family = "INET" => ip.bytes[V4Bytes + 1] = 0}

\* What a client's socket address may hold.
ClientAddresses == Ips \cup {[family |-> "UNIX", bytes |-> [i \in 1..(V4Bytes + 1) |-> 0]]}

VARIABLES
  allow,       \* AccessConfig::allow
  configured   \* history: the address and prefix length each accepted text named

vars == <<allow, configured>>

Init == allow = <<>> /\ configured = {}

----------------------------------------------------------------------------
Clamp(n, lo, hi) == IF n < lo THEN lo ELSE IF n > hi THEN hi ELSE n

WholeBytes(bytes, length, prefix) ==   \* wrong: clears no part of a byte
  [i \in DOMAIN bytes |-> IF i <= length /\ prefix <= (i - 1) * ByteBits THEN 0 ELSE bytes[i]]

\* mask(): clears every bit past the first prefix.
mask(bytes, length, prefix) ==
  [i \in DOMAIN bytes |->
     LET keep == Clamp(prefix - (i - 1) * ByteBits, 0, ByteBits)
     IN  IF i <= length THEN bytes[i] & (((AllOnes * 2^ByteBits) \div 2^keep) % 2^ByteBits)
         ELSE bytes[i]]

IsV4Mapped(a) == a.family = "INET6" /\ a.bytes[1] = AllOnes

\* ip_address(), of a client that is an IP client.
ip_address(a) ==
  IF IsV4Mapped(a) THEN [family |-> "INET", bytes |-> Append(Tail(a.bytes), 0)] ELSE a

network(ip, prefix) == mask(ip.bytes, address_bytes(ip.family), prefix)

contains(subnet, client) ==
  /\ client.family \in {"INET", "INET6"}
  /\ ip_address(client).family = subnet.family
  /\ network(ip_address(client), subnet.prefix) = subnet.network

allows(client) == \E i \in DOMAIN allow : contains(allow[i], client)

\* parse_subnet(), of a text that names an address and a length (all bits, if it says
\* none): lengths out of range, and host bits, are errors, which stop the start.
parse_subnet(ip, prefix) ==
  /\ Len(allow) < MaxSubnets
  /\ prefix <= address_bytes(ip.family) * ByteBits
  /\ mask(ip.bytes, address_bytes(ip.family), prefix) = ip.bytes
  /\ allow' = Append(allow, [family |-> ip.family, network |-> ip.bytes, prefix |-> prefix])
  /\ configured' = configured \cup {[ip |-> ip, prefix |-> prefix]}

Next ==
  \E ip \in Ips, prefix \in 0..((V4Bytes + 1) * ByteBits + 1) : parse_subnet(ip, prefix)

----------------------------------------------------------------------------
\* The address as bits, the first one first.
Bits(ip) ==
  [b \in 1..(address_bytes(ip.family) * ByteBits) |->
     (ip.bytes[((b - 1) \div ByteBits) + 1] \div 2^(ByteBits - 1 - ((b - 1) % ByteBits))) % 2]

\* "every bit past the first `prefix` cleared": a client is allowed exactly if it
\* agrees with a configured address of its family in the first prefix bits, whether it
\* comes by IPv4 or IPv4-mapped; nobody is without a list, and no other kind of client.
AclExact ==
  \A client \in ClientAddresses :
    allows(client) <=>
      /\ client.family # "UNIX"
      /\ \E c \in configured :
           /\ c.ip.family = ip_address(client).family
           /\ \A b \in 1..c.prefix : Bits(c.ip)[b] = Bits(ip_address(client))[b]
==============================================================================
