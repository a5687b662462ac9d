------------------------------ MODULE NftSets ------------------------------
(***************************************************************************)
(* The kernel side of the egress gate: the baseline ruleset of             *)
(* nft/sourceos-egress.nft and the way sourceos_gate/nft.py writes and     *)
(* reads the three allowlist sets in it.  The nft program and the kernel   *)
(* are external; they are modelled from the scripts the code feeds them    *)
(* and from what it does with their listings.                              *)
(*                                                                         *)
(* ExtraBraceOK says whether nft forgives the closing brace too many that  *)
(* every add element line of apply_sets carries.  The nftables grammar     *)
(* does not (FALSE); TRUE is what the rest of the code is written for, and *)
(* lets the runs see past that defect.                                     *)
(***************************************************************************)
EXTENDS GateStore

CONSTANTS ValidPorts,    \* the ports nft accepts (0..65535)
          ExtraBraceOK

ASSUME NftAssumption == /\ ValidPorts \subseteq Ports
                        /\ ExtraBraceOK \in BOOLEAN

VARIABLES baseline,      \* is the table with its sets and chain loaded?
          kernel,        \* the contents of the three allowlist sets
          asOf           \* history: the time they were computed for

nftVars == <<baseline, kernel, asOf>>

-----------------------------------------------------------------------------
\* apply_sets builds one script: flush the three sets, then add what is left
\* of each after the blank entries are dropped.  An add line opens one brace
\* and closes two, since its last part is not an f-string.
Elements(sets) == [sets EXCEPT !.addrs = {t \in @ : t.form # "blank"}]

\* (Mutant: the UDP set is not flushed.)
TwoFlushes(sets) ==
  [flush  |-> {"addrs", "tcp"}, add |-> Elements(sets),
   opens  |-> 1, closes |-> 2]

Script(sets) ==
  [flush  |-> {"addrs", "tcp", "udp"},
   add    |-> Elements(sets),
   opens  |-> 1,
   closes |-> 2]

\* nft's verdict on a script: it parses, and the interval set holds no two
\* overlapping elements.  A rejected script changes nothing.
Overlap(addrs) == \E s, t \in addrs : s # t /\ s.net = t.net
NftAccepts(script) ==
  /\ baseline
  /\ script.add # NoSets => (script.opens = script.closes \/ ExtraBraceOK)
  /\ \A t \in script.add.addrs : t.form # "bad"
  /\ script.add.tcp \union script.add.udp \subseteq ValidPorts
  /\ ~Overlap(script.add.addrs)

\* (Mutant: the sets are flushed after the elements were added.)
FlushLast(script) ==
  kernel' = [s \in DOMAIN kernel |->
               IF s \in script.flush THEN {} ELSE kernel[s] \union script.add[s]]

\* The effect of an accepted script, all of it in one kernel transaction.
RunNft(script) ==
  kernel' = [s \in DOMAIN kernel |->
               IF s \in script.flush THEN script.add[s]
                                     ELSE kernel[s] \union script.add[s]]

-----------------------------------------------------------------------------
\* list_set as verify_sets uses it: nft -j lists a host as its text, but a
\* prefix as an object, whose str() is not the text that was added.
Listed(addrs) ==
  {IF t.form = "prefix" THEN [t EXCEPT !.form = "object"] ELSE Strip(t)
     : t \in addrs}

-----------------------------------------------------------------------------
\* nft -f nft/sourceos-egress.nft starts with flush ruleset: the sets come
\* back empty.
LoadBaseline == baseline' = TRUE /\ kernel' = NoSets /\ asOf' = 0

\* Somebody else flushes the ruleset.
FlushRuleset == baseline /\ baseline' = FALSE /\ kernel' = NoSets /\ asOf' = 0

NftInit == baseline \in BOOLEAN /\ kernel = NoSets /\ asOf = 0

NftTypeOK == baseline \in BOOLEAN /\ kernel \in AllowSets /\ asOf \in Nat
=============================================================================
