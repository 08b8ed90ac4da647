------------------------------ MODULE Address ------------------------------
(***************************************************************************)
(* Addresses and byte order: include/wshttp/encoding.hpp,                  *)
(* include/wshttp/address.hpp, src/address.cpp.                            *)
(*                                                                         *)
(* An integer in memory is the sequence of its bytes, the lowest address   *)
(* first.  Its value is written as its digits to the base 256, the most    *)
(* significant first; network order is memory that holds the digits as     *)
(* they are written.  A sockaddr is a family, an address and a port, the   *)
(* last two in network order.                                              *)
(***************************************************************************)
EXTENDS Naturals, Sequences

CONSTANTS
    Octet,      \* the values of a byte
    big_endian  \* the machine

ASSUME Machine == big_endian \in BOOLEAN

(* Integers of n bytes, and an in6_addr: s6_addr is an array of bytes.     *)
Bytes(n) == [1..n -> Octet]

(* The bytes of x in the opposite order; for one byte, nothing.            *)
byteswap(x) == [i \in 1..Len(x) |-> x[Len(x) + 1 - i]]

host_to_big(x) == IF big_endian THEN x ELSE byteswap(x)
big_to_host(x) == IF big_endian THEN x ELSE byteswap(x)

(* The memory of an integer whose value has these digits.                  *)
HostInt(digits) == IF big_endian THEN digits ELSE byteswap(digits)

(* The i-th group of two bytes of an IPv6 address, and an address put      *)
(* together from eight groups.                                             *)
Group(a, i) == <<a[2 * i - 1], a[2 * i]>>
FromGroups(g) == [i \in 1..16 |-> g[(i + 1) \div 2][IF i % 2 = 1 THEN 1 ELSE 2]]

-----------------------------------------------------------------------------
(* ipv4: addr is an integer in host order.                                 *)

ipv4_of_digits(d) == HostInt(d)                  \* ipv4{a, b, c, d}
ipv4_of_in4(s_addr) == big_to_host(s_addr)       \* ipv4{in_addr*}, ipv4{string}
to_in4(addr) == host_to_big(addr)

(* ipv6: addr is an array of eight integers in host order.                 *)

ipv6_of_in6(s6_addr) == [i \in 1..8 |-> big_to_host(Group(s6_addr, i))]

(* to_in6 copies the integers and then swaps s6_addr[0..7], which are      *)
(* bytes, so that nothing is swapped.                                      *)
to_in6(addr) ==
    LET copied == FromGroups(addr)
    IN  [i \in 1..16 |-> IF i <= 8 THEN big_to_host(<<copied[i]>>)[1] ELSE copied[i]]

-----------------------------------------------------------------------------
(* ip_address: an address and a port, in host order.  _is_v4 is            *)
(* initialised before the body of a constructor runs: it is true in what   *)
(* the constructor from a sockaddr makes, whatever the family.             *)

ip_address(ip, port, family) ==
    [ip |-> ip, port |-> HostInt(port), holds |-> family, is_v4 |-> family = 4]

sockaddr(a) ==
    [family |-> IF a.is_v4 THEN 4 ELSE 6,
     addr   |-> IF a.is_v4 THEN to_in4(a.ip) ELSE to_in6(a.ip),
     port   |-> host_to_big(a.port)]

of_sockaddr(s) ==
    [ip    |-> IF s.family = 4 THEN ipv4_of_in4(s.addr) ELSE ipv6_of_in6(s.addr),
     port  |-> big_to_host(s.port),
     holds |-> s.family,
     is_v4 |-> TRUE]

=============================================================================
