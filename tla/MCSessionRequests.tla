------------------------ MODULE MCSessionRequests ------------------------
(* Small instances of SessionRequests. *)
EXTENDS SessionRequests
=============================================================================
