---------------------------- MODULE MCLoadgen ----------------------------
(* A gateway that may call the api: its traces have one span or two.       *)
EXTENDS Loadgen

GwCallsApi == [s \in {"gw", "api"} |-> IF s = "gw" THEN "none" ELSE "gw"]
SameName == [s \in {"gw", "api"} |-> s]
OneOrTwo == {{"gw"}, {"gw", "api"}}
=============================================================================
