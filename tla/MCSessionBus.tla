---------------------------- MODULE MCSessionBus -----------------------------
(* Two clients for model checking SessionBus. *)
EXTENDS SessionBus, TLC

CONSTANTS film, game

Two == {film, game}
Nobody == {}
ClientSymmetry == Permutations(Two)
==============================================================================
