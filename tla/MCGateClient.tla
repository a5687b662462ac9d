---------------------------- MODULE MCGateClient ----------------------------
(***************************************************************************)
(* A small instance of GateClient: two clients of a daemon that has the    *)
(* store to itself, both sent to install the same grant.                   *)
(***************************************************************************)
EXTENDS GateClient, MCEgressGate

CONSTANTS c1, c2

ClientSends == c1 :> {Install(WebAgain, TRUE), Prune(FALSE)}
                 @@ c2 :> {Install(WebAgain, FALSE)}
ServedCalls == daemon :> UNION {ClientSends[c] : c \in {c1, c2}}
=============================================================================
