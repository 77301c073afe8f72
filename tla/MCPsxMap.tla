------------------------------ MODULE MCPsxMap ------------------------------
(***************************************************************************)
(* PsxMap with the hash function of libpsx.                                *)
(***************************************************************************)
EXTENDS PsxMap, Bitwise

psx_mix(value) ==
    (value ^^ (value \div 2^7)) ^^ ((value \div 2^13) ^^ (value \div 2^23))

MCMix == [t \in Tids |-> psx_mix(t)]
MCSizes == {2^k : k \in 8 .. 16}
=============================================================================
