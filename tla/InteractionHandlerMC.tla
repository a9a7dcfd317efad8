------------------------ MODULE InteractionHandlerMC ------------------------
(***************************************************************************)
(* A small instance of InteractionHandler: waits of one millisecond,       *)
(* durations of two to five, 16-value integers.                            *)
(***************************************************************************)
EXTENDS InteractionHandler

\* Every value of a signed integer of UintModulus values.
MCInputs == -(UintModulus \div 2) .. (UintModulus \div 2) - 1
=============================================================================
