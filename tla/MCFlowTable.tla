---------------------------- MODULE MCFlowTable -----------------------------
(* Every trace of up to MaxPackets packets among three addresses, an address
   talking to itself included, with two packet sizes. *)
EXTENDS FlowTable, TLC
CONSTANTS a, b, c
MCAddress == {a, b, c}
MCSize == {60, 1514}
AddressSymmetry == Permutations(MCAddress)
=============================================================================
