------------------------- MODULE MCDatastoreInstalls -------------------------
(* Small instances of DatastoreInstalls. *)
EXTENDS DatastoreInstalls, TLC

=============================================================================
