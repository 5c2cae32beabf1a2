---------------------------- MODULE MCDashboard ----------------------------
(* The instance needs no definitions: its bounds are numbers.               *)
EXTENDS Dashboard
=============================================================================
