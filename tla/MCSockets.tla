------------------------------ MODULE MCSockets ------------------------------
(***************************************************************************)
(* A small instance of the Swift values that stand for something of the    *)
(* system: Socket_Dulce for descriptors, Address for a socket address.     *)
(* One of the two moves, chosen once.  Variables and families are alike.   *)
(***************************************************************************)
EXTENDS SocketLifecycle, TLC

CONSTANTS Bytes, Words

VARIABLES part, native, kept, read

Addresses == INSTANCE AddressBytes

ASSUME AddressesAssumption == Addresses!BytesAssumption

addressvars == <<native, kept, read>>

ValuesInit ==
  /\ part \in {"sockets", "addresses"}
  /\ Init /\ Addresses!Init
  /\ part = "sockets" => native = CHOOSE n \in Addresses!Natives : TRUE

ValuesNext ==
  \/ part = "sockets" /\ Next /\ UNCHANGED <<part, addressvars>>
  \/ part = "addresses" /\ Addresses!Next /\ UNCHANGED <<part, vars>>

ValuesSpec == ValuesInit /\ [][ValuesNext]_<<part, vars, addressvars>>

Symmetry == Permutations(Vars) \cup Permutations(Families)

(* Ports and ipv4 addresses survive the type Address, of an ipv6 address   *)
(* the network half.                                                       *)
WhatFitsSurvives == Addresses!WhatFitsSurvives
=============================================================================
