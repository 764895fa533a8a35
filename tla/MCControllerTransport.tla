------------------------ MODULE MCControllerTransport ------------------------
(***************************************************************************)
(* Instances of ControllerTransport for TLC.                               *)
(***************************************************************************)
EXTENDS ControllerTransport, TLC

CONSTANTS t, h1, k1, k2

\* The two processes are interchangeable.
ClerkSymmetry == Permutations({k1, k2})
=============================================================================
