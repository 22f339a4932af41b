--------------------------- MODULE MCSecretRotation ---------------------------
(***************************************************************************)
(* The instance of HostEnvironment: the rotation with every mishap, beside *)
(* the other writers of .env.                                              *)
(***************************************************************************)
EXTENDS HostEnvironment
=============================================================================
