---------------------------- MODULE MCOfflineDrain ----------------------------
(* The instance of OfflineDrain that TLC checks. *)
EXTENDS OfflineDrain

CONSTANTS e1, e2, e3, e4

TheEvents == {e1, e2, e3, e4}

=============================================================================
