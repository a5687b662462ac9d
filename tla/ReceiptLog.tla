----------------------------- MODULE ReceiptLog -----------------------------
(***************************************************************************)
(* The hash-chained ledger of inception-mount/fs/governance.go.  append,   *)
(* Entries and Verify hold one mutex, so each is one step.  The ledger     *)
(* lives in memory only: a new mount starts an empty one.                  *)
(***************************************************************************)
EXTENDS Naturals, Sequences

VARIABLES all,     \* the receipts, in order
          last     \* the hash of the newest one

logVars == <<all, last>>

NoHash == <<>>

\* SHA-256 as a function without collisions whose value is never "".
Sha256(payload) == <<payload>>

\* (Mutant: the verdict is not among the fields that are hashed.)
PayloadNoVerdict(r) == <<r.seq, r.prev, r.ts, r.subject, r.space, r.op, r.path>>

Payload(r) == <<r.seq, r.prev, r.ts, r.subject, r.space, r.op, r.path, r.verdict>>

\* What append takes from its caller, and what it makes of it.
Sealed(d) ==
  LET r == [seq |-> Len(all), prev |-> last, ts |-> d.ts, subject |-> d.subject,
            space |-> d.space, op |-> d.op, path |-> d.path, verdict |-> d.verdict]
  IN  [seq |-> r.seq, prev |-> r.prev, ts |-> r.ts, subject |-> r.subject,
       space |-> r.space, op |-> r.op, path |-> r.path, verdict |-> r.verdict,
       hash |-> Sha256(Payload(r))]

LogInit == all = <<>> /\ last = NoHash

\* (Mutant: the head of the chain is advanced only for what was allowed.)
AppendKeepsLast(d) ==
  /\ all' = Append(all, Sealed(d))
  /\ last' = IF d.verdict = "deny" THEN last ELSE Sealed(d).hash

AppendReceipt(d) ==
  /\ all' = Append(all, Sealed(d))
  /\ last' = Sealed(d).hash

\* Verify's loop: each link points at the hash before it, and its own hash
\* is the one its fields give.
Verifies(log) ==
  \A i \in 1..Len(log) :
    /\ log[i].prev = (IF i = 1 THEN NoHash ELSE log[i - 1].hash)
    /\ log[i].hash = Sha256(Payload(log[i]))

Verify == Verifies(all)
=============================================================================
