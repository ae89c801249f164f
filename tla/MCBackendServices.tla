------------------------- MODULE MCBackendServices -------------------------
(* Values for the constants of BackendServices that a .cfg cannot write. *)
EXTENDS BackendServices, TLC

MCAmounts == {-1, 1}

=============================================================================
