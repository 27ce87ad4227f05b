---------------------------- MODULE MCApiServer ----------------------------
(* A small instance of the API server for TLC. *)
EXTENDS ApiServer

OnlyKubevirt == {{"KubevirtVMI"}}
=============================================================================
