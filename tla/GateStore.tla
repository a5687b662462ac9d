----------------------------- MODULE GateStore -----------------------------
(***************************************************************************)
(* The SQLite state of the egress gate, sourceos_gate/store.py: the replay *)
(* table, the grants table and the wall clock the store compares expiries  *)
(* with.  Every operator below that changes the tables is one SQLite       *)
(* transaction of the source; the reads that precede it (the expiry check, *)
(* the COUNT) are separate operators because another process may run       *)
(* between them.  EgressGate puts the pieces in order.                     *)
(*                                                                         *)
(* A target is a text; what matters about it is which network it names and *)
(* how it is written:                                                      *)
(*    host    "1.2.3.4"        host32  "1.2.3.4/32"    prefix "1.2.3.0/24" *)
(*    blank   ""               bad     anything nft cannot parse           *)
(* A row's installed_at, which only orders the listing, is left out.       *)
(***************************************************************************)
EXTENDS Naturals, Sequences

CONSTANTS Keys,      \* (token_id, nonce) pairs
          Nets,      \* the networks the targets name
          Ports,     \* the port numbers a request can carry
          MaxTime    \* bound on the clock

ASSUME MaxTimeAssumption == MaxTime \in Nat

VARIABLES now,       \* now_epoch()
          peak,      \* history: the latest time the clock has shown
          replay,    \* keys of the replay table
          grants,    \* rows of the grants table
          accepted   \* history: the rows committed by install_grant, in order

storeVars == <<now, peak, replay, grants, accepted>>

Forms  == {"host", "host32", "prefix", "blank", "bad"}
Target == [net : Nets, form : Forms]

\* The daemon passes any string as proto; two spellings stand for the case
\* folding and one for the unknown protocols.
Request == [key : Keys, exp : Nat, proto : {"tcp", "udp", "UDP", "other"},
            targets : SUBSET Target, ports : SUBSET Ports]
Row     == [key : Keys, exp : Nat, proto : {"tcp", "udp"},
            targets : SUBSET Target, ports : SUBSET Ports]

\* (Mutant: the protocol is stored as it was sent.)
AnyProto(p) == p

\* (proto or "tcp").lower(), then everything but tcp and udp becomes tcp.
NormProto(p) == IF p \in {"udp", "UDP"} THEN "udp" ELSE "tcp"
RowOf(req)   == [req EXCEPT !.proto = NormProto(@)]

Expired(g, t) == g.exp <= t
ActiveRows(t) == {g \in grants : ~Expired(g, t)}

ExpiredRows(t) == {g \in grants : Expired(g, t)}

-----------------------------------------------------------------------------
\* compute_active_sets: three independent sets; the rows they came from are
\* forgotten.  Replacing "/32" by nothing turns a host32 into a host.
AllowSets == [addrs : SUBSET Target, tcp : SUBSET Ports, udp : SUBSET Ports]
NoSets    == [addrs |-> {}, tcp |-> {}, udp |-> {}]

Strip(t) == IF t.form = "host32" THEN [t EXCEPT !.form = "host"] ELSE t

SetsOf(rows) ==
  [addrs |-> {Strip(t) : t \in UNION {g.targets : g \in rows}},
   tcp   |-> UNION {g.ports : g \in {r \in rows : r.proto # "udp"}},
   udp   |-> UNION {g.ports : g \in {r \in rows : r.proto = "udp"}}]

ActiveSets == SetsOf(ActiveRows(now))

-----------------------------------------------------------------------------
StoreInit == /\ now = 0 /\ peak = 0
             /\ replay = {}
             /\ grants = {}
             /\ accepted = <<>>

\* (Mutant: INSERT OR REPLACE.)
OverwriteGrant(g) ==
  /\ replay' = replay \union {g.key}
  /\ grants' = grants \union {g}
  /\ accepted' = Append(accepted, g)
  /\ UNCHANGED <<now, peak>>

\* The transaction of install_grant: both rows or neither.  The replay row's
\* primary key is the whole replay protection.
CommitGrant(g) ==
  /\ g.key \notin replay
  /\ replay' = replay \union {g.key}
  /\ grants' = grants \union {g}
  /\ accepted' = Append(accepted, g)
  /\ UNCHANGED <<now, peak>>

\* (Mutant: the replay table is pruned along with the grants.)
DeleteBoth(cutoff) ==
  /\ grants' = grants \ ExpiredRows(cutoff)
  /\ replay' = replay \ {g.key : g \in ExpiredRows(cutoff)}
  /\ UNCHANGED <<now, peak, accepted>>

\* The DELETE of prune_expired; the replay table is never pruned.
DeleteExpired(cutoff) ==
  /\ grants' = grants \ ExpiredRows(cutoff)
  /\ UNCHANGED <<now, peak, replay, accepted>>

\* The wall clock, time.time(): it runs, and it may be set back.
ClockTick ==
  /\ now < MaxTime
  /\ now' = now + 1
  /\ peak' = IF peak < now' THEN now' ELSE peak
  /\ UNCHANGED <<replay, grants, accepted>>

ClockBack ==
  /\ now' \in 0..(now - 1)
  /\ UNCHANGED <<peak, replay, grants, accepted>>

StoreTypeOK ==
  /\ now \in Nat /\ peak \in Nat
  /\ replay \in SUBSET Keys
  /\ grants \in SUBSET Row
  /\ accepted \in Seq(Row)
=============================================================================
