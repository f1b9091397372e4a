----------------------------- MODULE MCDatabroker -----------------------------
(* Small instances of Databroker. *)
EXTENDS Databroker, TLC

=============================================================================
