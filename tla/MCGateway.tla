----------------------------- MODULE MCGateway -----------------------------
(***************************************************************************)
(* One dialled call and one caller from the same number; every channel     *)
(* shows that number.                                                      *)
(***************************************************************************)
EXTENDS GatewayHistory

CONSTANTS o1, i1

OutCalls   == {o1}
InCalls    == {i1}
SameNumber == [ch \in {<<o1, "customer">>, <<i1, "customer">>} |-> {o1, i1}]
=============================================================================
