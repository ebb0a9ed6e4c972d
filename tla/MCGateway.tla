------------------------------ MODULE MCGateway ------------------------------
(* Values for the constants of Gateway. *)
EXTENDS Gateway, TLC

CONSTANTS m1, m2

\* m1 may arrive before its time; m2 is late enough to purge m1's nonce.
MCStamp == m1 :> 1 @@ m2 :> 4
=============================================================================
