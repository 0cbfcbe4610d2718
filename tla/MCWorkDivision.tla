---------------------------- MODULE MCWorkDivision ----------------------------
(* Finite instances of WorkDivision. *)
EXTENDS WorkDivision

MCMachines == {<<>>, <<4>>, <<2, 2>>, <<4, 1>>, <<1, 3>>, <<3, 2, 1>>}
=============================================================================
