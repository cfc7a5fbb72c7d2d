---------------------------- MODULE MCLocalGateway ----------------------------
(* Instances of LocalGateway for TLC.                                      *)
EXTENDS LocalGateway

\* The second build keeps the schema, the third one changes it.
MCHeadOf == <<1, 1, 2>>
=============================================================================
