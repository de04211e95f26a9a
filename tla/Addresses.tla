----------------------------- MODULE Addresses -----------------------------
(***************************************************************************)
(* struct spd_sockaddr of src/src/socket.c: what of an address its         *)
(* functions look at.  An address is its length and the bytes that memcmp  *)
(* compares, in their order: family, port, then the address of IPv4, or    *)
(* flow label, prefix and the last four bytes of IPv6.                     *)
(*                                                                         *)
(* A definition that stands before another one and is used nowhere is that *)
(* other with a mistake in it.                                             *)
(***************************************************************************)
EXTENDS Integers, Sequences

CONSTANTS
  Hosts,      \* four bytes of an address, as numbers; 0 is INADDR_ANY
  Ports,
  Prefixes,   \* of IPv6; ::ffff is MappedPrefix
  MappedPrefix,
  Flows,
  ByteWidth   \* values of an unsigned char

VARIABLES pair \* two addresses the functions are tried on, or {}

INET == 2
INET6 == 10
LenNull == 0
LenIn == 16
LenIn6 == 28

NullAddr == [len |-> LenNull, bytes |-> <<>>]
In(port, host) == [len |-> LenIn, bytes |-> <<INET, port, host>>]
In6(port, flow, prefix, host) == [len |-> LenIn6, bytes |-> <<INET6, port, flow, prefix, host>>]

Addresses ==
  {NullAddr} \cup {In(p, h) : p \in Ports, h \in Hosts}
  \cup {In6(p, f, x, h) : p \in Ports, f \in Flows, x \in Prefixes, h \in Hosts}

Is(a, family, len) == a.len = len /\ a.bytes[1] = family
IsIpv6(a) == Is(a, INET6, LenIn6)

\* spd_sockaddr_ipv4_mapped: {} if the address is not mapped.
Ipv4Mapped(a) ==
  IF IsIpv6(a) /\ a.bytes[4] = MappedPrefix THEN {In(a.bytes[2], a.bytes[5])} ELSE {}

\* memcmp of bytes of the same length.
Memcmp(x, y) ==
  LET differ == {i \in DOMAIN x : x[i] # y[i]}
      first == CHOOSE i \in differ : \A j \in differ : i <= j
  IN  IF differ = {} THEN 0 ELSE IF x[first] < y[first] THEN -1 ELSE 1

CmpByLength(a, b) == IF a.len # b.len THEN a.len - b.len ELSE Memcmp(a.bytes, b.bytes)
\* spd_sockaddr_cmp: of two lengths, one address is taken out of its IPv6 form if it can.
Cmp(a, b) ==
  LET other == a.len # b.len
      A == IF other /\ Ipv4Mapped(a) # {} THEN CHOOSE x \in Ipv4Mapped(a) : TRUE ELSE a
      B == IF other /\ A = a /\ Ipv4Mapped(b) # {} THEN CHOOSE x \in Ipv4Mapped(b) : TRUE ELSE b
  IN  IF A.len < B.len THEN -1 ELSE IF A.len > B.len THEN 1 ELSE Memcmp(A.bytes, B.bytes)

\* spd_sockaddr_to_sin: {} if it fails.  The null address is all zeros.
ToSin(a) ==
  IF a.len = LenNull THEN {<<0, 0, 0>>} ELSE IF a.len # LenIn THEN {} ELSE {a.bytes}
FromSin(sin) == [len |-> LenIn, bytes |-> sin]

HasPort(a) == Is(a, INET, LenIn) \/ IsIpv6(a)
SetPort(a, port) == IF HasPort(a) THEN [a EXCEPT !.bytes[2] = port] ELSE a
\* The port is returned in an unsigned char.
GetPort(a) == IF HasPort(a) THEN a.bytes[2] % ByteWidth ELSE 0

----------------------------------------------------------------------------
Init == pair = {}

Try == pair = {} /\ \E a \in Addresses, b \in Addresses : pair' = {<<a, b>>}

Spec == Init /\ [][Try]_pair

----------------------------------------------------------------------------
(* Properties. *)

\* One of the two written the other way.
Endpoint(a) == IF Ipv4Mapped(a) = {} THEN a ELSE CHOOSE x \in Ipv4Mapped(a) : TRUE

\* Comparing finds equal just what is the same address, or the same written as IPv4 and as
\* IPv6, and says the opposite the other way round; between them, the forms are not ordered.
\* An address of IPv4 survives struct sockaddr_in, and a port of one byte is read as it was
\* set (socket.c:89-113, 204-260, 422-446).
AddressesAgree ==
  \A x \in pair :
    LET a == x[1]
        b == x[2]
    IN  /\ Cmp(a, b) = 0 <=> a = b \/ (a.len # b.len /\ Endpoint(a) = Endpoint(b))
        /\ Cmp(a, b) = -Cmp(b, a)
        /\ a.len = b.len /\ Cmp(a, b) < 0 =>
             \A c \in Addresses : c.len = a.len /\ Cmp(b, c) < 0 => Cmp(a, c) < 0
        /\ \A sin \in ToSin(a) : a.len # LenNull => FromSin(sin) = a
        /\ \A p \in Ports : a.len # LenNull /\ p < ByteWidth => GetPort(SetPort(a, p)) = p

=============================================================================
