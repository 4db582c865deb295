------------------------------ MODULE MCParts ------------------------------
(***************************************************************************)
(* The values of the parts that a configuration cannot write down.         *)
(***************************************************************************)
EXTENDS Parts

MCUpper == [Quit |-> "QUIT", quit |-> "QUIT"]
MCKeys == [1 .. Keysize -> {1, 8, 9, 49, 255}]
MCPayloads == UNION {[1 .. n -> {0, 9, 15}] : n \in 0 .. 7}
=============================================================================
