---------------------------- MODULE MCRunLifecycle ----------------------------
(* TLC instances of RunLifecycle. *)
EXTENDS RunLifecycle, TLC

=============================================================================
