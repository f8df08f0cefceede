---------------------------- MODULE AddressBytes ----------------------------
(***************************************************************************)
(* What is left of a socket address in the type Address of                 *)
(* SDulceSockets.swift.  The system's addresses are words of four bytes:   *)
(* family and port, then for ipv4 the address (a sockaddr_in has 4 words), *)
(* for ipv6 the flow, the address in 4 words and the scope (a sockaddr_in6 *)
(* has 7).  ai_addr is a sockaddr, of 4 words; whoever reads more finds    *)
(* what the memory after it happens to hold.                               *)
(***************************************************************************)
EXTENDS Integers, SequencesExt

CONSTANTS
  Bytes,   \* bytes of a port
  Words    \* contents of the other words

BytesAssumption == Bytes \subseteq 0 .. 255

VARIABLES
  native,   \* the address as the system gave it
  kept,     \* the Address made from it
  read      \* what was read last: a port, an address, or one for connect

vars == <<native, kept, read>>

AddressFamilies == {"ipv4", "ipv6"}
SizeOf(family) == IF family = "ipv4" THEN 4 ELSE 7

\* The words of the address proper.
AddressOf(words) ==
  IF words[1].family = "ipv4" THEN SubSeq(words, 2, 2) ELSE SubSeq(words, 3, 6)

Header(family, hi, lo) == [family |-> family, port |-> <<hi, lo>>]

Natives ==
  UNION {{<<Header(f, hi, lo)>> \o w :
            hi \in Bytes, lo \in Bytes, w \in [1 .. SizeOf(f) - 1 -> Words]} :
         f \in AddressFamilies}

NoAddress == <<>>
NotRead   == [of |-> "nothing"]

Init ==
  /\ native \in Natives
  /\ kept = NoAddress
  /\ read = NotRead

----------------------------------------------------------------------------
\* Slip: only the first word of the sockaddr is copied.
HeaderOnly(words) == <<words[1]>> \o [i \in 1 .. 3 |-> 0]

\* Assignment to a sockaddr.
Sockaddr(words) == SubSeq(words, 1, 4)

\* create_Addresses, wait_Connection.
Keep ==
  /\ kept = NoAddress
  /\ kept' = [ai_family |-> native[1].family, ai_addrlen |-> Len(native),
              ai_addr |-> Sockaddr(native)]
  /\ UNCHANGED <<native, read>>

\* The bytes of a structure of n words at the place of ai_addr, or in a new
\* buffer that ai_addr was stored in.
Loaded(n) ==
  {kept.ai_addr \o rest : rest \in [1 .. n - 4 -> Words]}

\* The two bytes as a number of a little-endian processor.
Number(port) == port[1] + 256 * port[2]
ntohs(n)     == (n % 256) * 256 + n \div 256

PortIn(words) == ntohs(Number(words[1].port))

port_Number ==
  /\ kept # NoAddress
  /\ \E words \in Loaded(SizeOf(kept.ai_family)) :
       read' = [of |-> "port", port |-> PortIn(words)]
  /\ UNCHANGED <<native, kept>>

address_String ==
  /\ kept # NoAddress
  /\ \E words \in Loaded(SizeOf(kept.ai_family)) :
       read' = [of |-> "address", address |-> AddressOf(words)]
  /\ UNCHANGED <<native, kept>>

\* bind, connect and sendto are given ai_addr and ai_addrlen.
Pass ==
  /\ kept # NoAddress
  /\ \E words \in Loaded(kept.ai_addrlen) :
       read' = [of |-> "call", port |-> PortIn(words),
                address |-> AddressOf(words)]
  /\ UNCHANGED <<native, kept>>

Next == Keep \/ port_Number \/ address_String \/ Pass

Spec == Init /\ [][Next]_vars

----------------------------------------------------------------------------
HasPort    == read.of \in {"port", "call"}
HasAddress == read.of \in {"address", "call"}
Family     == native[1].family

(* The port of an address of either family can be read back from its       *)
(* Address, and is the one that bind, connect and sendto get.              *)
PortSurvives ==
  HasPort => read.port = 256 * native[1].port[1] + native[1].port[2]

(* So can an ipv4 address.                                                 *)
IPv4Survives ==
  HasAddress /\ Family = "ipv4" => read.address = AddressOf(native)

(* Of an ipv6 address the network half survives, and no more.              *)
NetworkSurvives ==
  HasAddress /\ Family = "ipv6" =>
    SubSeq(read.address, 1, 2) = SubSeq(AddressOf(native), 1, 2)

(* What can be relied on, for both families.                               *)
WhatFitsSurvives == PortSurvives /\ IPv4Survives /\ NetworkSurvives

(* "It supports ipv4 ipv6": an address of either family is the same when   *)
(* it is read back, or passed to the system.                               *)
AddressSurvives == HasAddress => read.address = AddressOf(native)
=============================================================================
