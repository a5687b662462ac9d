--------------------------- MODULE MCEgressGate ---------------------------
(***************************************************************************)
(* Small instances of EgressGate: the grants, and which process sends      *)
(* which requests.                                                         *)
(***************************************************************************)
EXTENDS EgressGate, TLC

CONSTANTS daemon, cli,     \* processes
          k1, k2,          \* (token, nonce) keys
          n1, n2,          \* networks
          p1, p2, pBad     \* ports; pBad is out of range

G(k, exp, proto, net, form, port) ==
  [key |-> k, exp |-> exp, proto |-> proto,
   targets |-> {[net |-> net, form |-> form]}, ports |-> {port}]

Web == G(k1, 2, "tcp", n1, "host32", p1)
Dns == G(k2, 1, "UDP", n2, "host", p2)
\* The same token and nonce again, for another target and time.
WebAgain == G(k1, 1, "UDP", n2, "host", p2)
Broken == G(k2, 1, "other", n2, "bad", p2)

Install(g, b) == [op |-> "install", apply |-> b, grant |-> g]
Prune(b)      == [op |-> "prune", apply |-> b, grant |-> NoGrant]
Plain(op)     == [op |-> op, apply |-> FALSE, grant |-> NoGrant]

\* Two processes race to install, prune and apply; one of the targets is one
\* that nft refuses.
RaceCalls == daemon :> {Install(Web, TRUE), Prune(TRUE)}
               @@ cli :> {Install(WebAgain, TRUE), Install(Broken, FALSE)}

\* The daemon alone installs, applies and verifies; the CLI, which is not
\* root, prunes, reads, tries to apply and is misused.
OneWriterCalls ==
  daemon :> {Install(Web, TRUE), Install(Dns, FALSE), Plain("apply"), Plain("verify")}
    @@ cli :> {Prune(FALSE), Plain("snapshot"), Plain("apply"), Plain("malformed")}
=============================================================================
