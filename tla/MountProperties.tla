-------------------------- MODULE MountProperties --------------------------
(***************************************************************************)
(* What the governed mount promises: of its receipts, of its lease, and of *)
(* the versions it freezes and retires.                                    *)
(***************************************************************************)
EXTENDS InceptionFS

\* The chain holds: Verify, called at any moment of any interleaving of
\* callers, returns nil, and receipt i carries sequence number i.
ChainVerifies == Verify /\ \A i \in 1..Len(all) : all[i].seq = i - 1

\* The log is tamper-evident (governance.go:77): Verify fails when a field of
\* any receipt is changed; when a receipt other than the newest is changed and
\* given the hash of its new fields; and when one other than the newest is
\* taken out.
Forged(r) ==
  ({[r EXCEPT !.verdict = v] : v \in {"allow", "deny", "error"}}
     \union {[r EXCEPT !.op = o] : o \in {"read", "write", "list", "stat", "commit"}}
     \union {[r EXCEPT !.path = [@ EXCEPT !.name = n]] : n \in 0..MaxNode}
     \union {[r EXCEPT !.subject = u] : u \in {"agent", "<no-lease>"}}
     \union {[r EXCEPT !.ts = t] : t \in 0..MaxTime}) \ {r}
Resealed(r) == [r EXCEPT !.hash = Sha256(Payload(r))]
TakenOut(log, i) == [j \in 1..(Len(log) - 1) |-> IF j < i THEN log[j] ELSE log[j + 1]]
TamperEvident ==
  \A i \in 1..Len(all) :
    /\ \A r \in Forged(all[i]) :
         /\ ~ Verifies([all EXCEPT ![i] = r])
         /\ i < Len(all) => ~ Verifies([all EXCEPT ![i] = Resealed(r)])
    /\ i < Len(all) => ~ Verifies(TakenOut(all, i))

\* Exactly one receipt per decided call, allowed, denied or failed: the calls
\* the membrane has decided are those in the log and those still on their
\* way to it, Commit's long way included.
Owing == {p \in Procs : pc[p] \in {"receipt", "walk", "hash", "mkdir", "copy"}}
OneReceiptPerCall == gated = Len(all) + Cardinality(Owing)

\* "No lease => no access" (governance.go:31): without a lease for this space
\* that carries the write capability nothing changes the tree and nothing is
\* ever frozen, whatever the callers do.
Writable == lease # NoLease /\ lease.space = Space /\ lease.canWrite
NoLeaseNoAccess == Writable \/ (root = Tree0 /\ versions = NoVersions)

\* The methods the seam overrides (inceptionfs.go) keep that promise: it holds
\* wherever no caller uses a method promoted from the backend.
OnlyGoverned == \A p \in Procs : \A c \in CallsOf[p] : c.m \notin Promoted
FailClosed == OnlyGoverned => NoLeaseNoAccess

\* Through those methods nothing is written that is not accounted for: every
\* write on its way to the backend, and every file open for writing, whose
\* contents then change without coming back to the seam, has a receipt of its
\* own in the log that allows a write.
AllowedWrites == {i \in 1..Len(all) : all[i].op = "write" /\ all[i].verdict = "allow"}
Writing == {p \in Procs : pc[p] = "backend" /\ OpOf(call[p]) = "write"}
Holding == {p \in Procs : handle[p].write}
WritesReceipted ==
  OnlyGoverned => Cardinality(Writing) + Cardinality(Holding) <= Cardinality(AllowedWrites)

\* The lease's hard expiry (governance.go:64): once it is past and the writes
\* let in before it are through, with no file open for writing, nothing gets
\* in any more for as long as the clock reads past it: the tree stays as it is,
\* nothing is frozen, and no call or handle is left that could do either.
Lapsed == lease # NoLease /\ lease.expiry # 0 /\ now > lease.expiry
LetIn(p) ==
  \/ pc[p] \in {"walk", "hash", "mkdir", "copy"}
  \/ pc[p] \in {"receipt", "backend"} /\ loc[p].verdict = "allow" /\ IsWrite(OpOf(call[p]))
Drained == \A p \in Procs : ~ LetIn(p) /\ ~ handle[p].write
ExpiryCloses ==
  [][OnlyGoverned /\ Lapsed /\ Drained =>
       Drained' /\ root' = root /\ DOMAIN versions' \subseteq Held]_vars

-----------------------------------------------------------------------------
\* A version Commit has returned is immutable (backend/snapshot.go), whoever
\* commits: once no Commit is copying under its ID, none ever does until it is
\* pruned, and no later Commit, write, fault or restart adds to its files or
\* alters one of them.  Two Commits of one tree that both find no directory
\* copy into the same one; the first to return leaves it to the other.
NeverAltered(id) ==
  \A n \in DOMAIN versions'[id].files :
    n \in DOMAIN versions[id].files /\ versions'[id].files[n] = versions[id].files[n]
Settled(id) == \A p \in Procs : pc[p] \in {"mkdir", "copy"} => loc[p].tree # id
VersionsImmutable ==
  [][\A id \in returned \intersect returned' :
       Settled(id) => NeverAltered(id) /\ Settled(id)']_vars

\* "Commit freezes the space's current state" (inceptionfs.go:52): the files
\* held under the ID a commit receipt pins are those that were hashed to get
\* the ID.
Regular(files) == [n \in {k \in DOMAIN files : files[k] # Dir} |-> files[n]]
Pinned == {all[i].path.version : i \in {k \in 1..Len(all) :
             all[k].op = "commit" /\ all[k].verdict = "allow"}}
Contents(id) == [n \in DOMAIN id |-> IF id[n] \in Files THEN id[n] ELSE id[n].through]
FrozenIsContent ==
  \A id \in Pinned \intersect Held : Regular(versions[id].files) = Contents(id)

\* Retention never takes the store below KeepLast versions and takes nothing
\* at all under the zero policy, whatever is committed between List and the
\* deletions it plans.
KeepsLast ==
  [][Held \subseteq DOMAIN versions'
       \/ (~ ZeroPolicy /\ Cardinality(DOMAIN versions') >= KeepLast)]_vars

\* Tick "prunes at most MaxPrunePerTick".
BoundedTick == MaxPrunePerTick > 0 => ret.done + Len(ret.plan) <= MaxPrunePerTick

\* Repeated ticks drive the held set to the policy: once no more is
\* committed, the plan is empty and stays so.
WithinPolicy == \A plan \in Plans(versions, now) : plan = <<>>
Converges == <>[]WithinPolicy
=============================================================================
