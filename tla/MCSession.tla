----------------------------- MODULE MCSession ------------------------------
(***************************************************************************)
(* Instances of Session for TLC.                                           *)
(***************************************************************************)
EXTENDS Session, TLC

CONSTANTS p1, d1

MCAccounts == p1 :> "PASSENGER" @@ d1 :> "DRIVER"
=============================================================================
