-------------------------- MODULE MCAsyncDelegation --------------------------
(* Instances of AsyncDelegation for TLC; the configurations give the bounds. *)
EXTENDS AsyncDelegation
=============================================================================
