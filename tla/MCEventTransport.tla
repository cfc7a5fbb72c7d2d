-------------------------- MODULE MCEventTransport --------------------------
(* Instance of EventTransport for TLC. *)
EXTENDS EventTransport, TLC

CONSTANTS e1, f1, r1, c1

OneEvent == {e1}
OneForeign == {f1}
None == {}
OneLoop == {r1}
OneConsumer == {c1}

=============================================================================
