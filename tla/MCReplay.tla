------------------------------ MODULE MCReplay ------------------------------
(* Replay with a calendar whose second month is shorter than its neighbours. *)
EXTENDS Replay

Lengths == <<3, 2, 3>>
Three == {<<0, 0>>, <<0, 2>>, <<1, 2>>}
=============================================================================
