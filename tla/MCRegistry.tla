----------------------------- MODULE MCRegistry -----------------------------
(***************************************************************************)
(* Instances of Registry for TLC: two pairs of transports want the same    *)
(* name, and NewTransport() rejects the settings of t4.                    *)
(***************************************************************************)
EXTENDS Registry, TLC

CONSTANTS t1, t2, t3, t4, n1, n2

MCNameOf == t1 :> n1 @@ t2 :> n1 @@ t3 :> n2 @@ t4 :> n2
=============================================================================
