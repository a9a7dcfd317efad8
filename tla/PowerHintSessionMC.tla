------------------------- MODULE PowerHintSessionMC -------------------------
(***************************************************************************)
(* A small instance of PowerHintSession: two sessions that share a thread. *)
(***************************************************************************)
EXTENDS PowerHintSession, TLC

CONSTANTS s1, s2, t1, t2

MCTidsOf == (s1 :> <<t1>>) @@ (s2 :> <<t1>>)
=============================================================================
