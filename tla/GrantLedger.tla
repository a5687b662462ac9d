---------------------------- MODULE GrantLedger ----------------------------
(***************************************************************************)
(* What the egress gate promises about grants, with no store, processes,   *)
(* clock reads or failures in sight: a grant is accepted at most once per  *)
(* (token, nonce) key, for ever, and once held it is only let go of after  *)
(* its expiry.  EgressGate is shown to implement this specification.       *)
(***************************************************************************)
EXTENDS Naturals

CONSTANTS Keys,    \* the (token_id, nonce) pairs a grant can carry
          Rows     \* the grants: records with at least a key and an exp

VARIABLES now,     \* the clock
          used,    \* the keys that were ever accepted
          held     \* the grants in force or not yet dropped

vars == <<now, used, held>>

Init == now = 0 /\ used = {} /\ held = {}

\* A fresh key is accepted together with its grant; a used one never again.
Accept == \E g \in Rows :
            /\ g.key \notin used
            /\ used' = used \union {g.key}
            /\ held' = held \union {g}
            /\ UNCHANGED now

\* Any number of expired grants is dropped; their keys stay used.
Drop == /\ \E gone \in SUBSET held :
             /\ \A g \in gone : g.exp <= now
             /\ held' = held \ gone
        /\ UNCHANGED <<now, used>>

Advance == now' = now + 1 /\ UNCHANGED <<used, held>>

Next == Accept \/ Drop \/ Advance

Spec == Init /\ [][Next]_vars
=============================================================================
