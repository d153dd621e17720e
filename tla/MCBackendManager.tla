-------------------------- MODULE MCBackendManager --------------------------
(***************************************************************************)
(* Small instances of BackendManager: two calls in flight, every entry     *)
(* point, every provider, a replaced and an unregistered backend.          *)
(***************************************************************************)
EXTENDS BackendManager
=============================================================================
