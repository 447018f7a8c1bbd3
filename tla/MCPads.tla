------------------------------- MODULE MCPads --------------------------------
(***************************************************************************)
(* A controller, a keyboard's power keys that udev takes for a joystick,   *)
(* and a pad no heuristic gets right that one configuration names by a     *)
(* symlink; two event nodes for the three.                                 *)
(***************************************************************************)
EXTENDS Pads

MCCapsOf == [d \in Devices |->
    CASE d = "stick" -> [has_key |-> TRUE, has_rel |-> FALSE, keys |-> {"SOUTH"}]
      [] d = "power" -> [has_key |-> TRUE, has_rel |-> FALSE, keys |-> {"POWER"}]
      [] d = "odd"   -> [has_key |-> TRUE, has_rel |-> TRUE, keys |-> {"LEFT", "TRIGGER"}]]

MCLinkTo == [l \in Links |-> "odd"]
MCNamed == [p \in {"xbox"} |-> {"stick"}]

Plain == [enable |-> TRUE, allow |-> {}, deny |-> {}, devices |-> {}, feel |-> "slow"]

MCReloads == {
    Plain,
    [Plain EXCEPT !.allow = {"xbox"}, !.devices = Links, !.feel = "quick"],
    [Plain EXCEPT !.deny = {"xbox"}],
    [Plain EXCEPT !.enable = FALSE]}
=============================================================================
