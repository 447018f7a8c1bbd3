-------------------------------- MODULE MCLid --------------------------------
(* A different action in each situation, for model checking Lid. *)
EXTENDS Lid

MCActions == [docked |-> "nothing", on_ac |-> "lock", on_battery |-> "hibernate"]
==============================================================================
