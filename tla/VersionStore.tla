---------------------------- MODULE VersionStore ----------------------------
(***************************************************************************)
(* The portable version substrate: DevSnapshotter's store of frozen trees  *)
(* (backend/dev.go) and the retention loop over it (retention.go,          *)
(* retain.go).                                                             *)
(*                                                                         *)
(* A tree is a function from the paths of its files to their contents.     *)
(* hashTree is taken to have no collisions, so a version's ID is the tree  *)
(* that was hashed; what the store holds under that ID is whatever was     *)
(* copied there, which need not be the same tree.                          *)
(***************************************************************************)
EXTENDS Integers, Sequences, FiniteSets

CONSTANTS KeepLast,          \* RetentionPolicy.KeepLast
          KeepSince,         \* RetentionPolicy.KeepSince, in clock ticks
          MaxPrunePerTick,   \* 0 is unbounded
          MaxTicks,          \* Converge's maxTicks; 1 is a single Tick
          RetainerRuns,      \* whether the retention loop is run at all
          StoreFaults        \* which failures occur: of a copy, a listing, a
                             \* deletion, and a clock that is set back

ASSUME RetentionAssumption ==
  /\ KeepLast \in Nat
  /\ KeepSince \in Nat
  /\ MaxPrunePerTick \in Nat
  /\ MaxTicks \in Nat \ {0}
  /\ RetainerRuns \in BOOLEAN
  /\ StoreFaults \subseteq {"copy", "list", "prune", "clock"}

VARIABLES now,        \* the clock
          versions,   \* ID -> the files frozen under it and the directory's mtime
          ret         \* the retention loop: its step, plan, result, ticks, time

storeVars == <<versions, ret>>

NoFiles == [p \in {} |-> {}]
NoVersions == [id \in {} |-> {}]
IdleRetainer == [pc |-> "idle", plan |-> <<>>, done |-> 0, ticks |-> 0, at |-> 0]

StoreInit ==
  /\ now = 0
  /\ versions = NoVersions
  /\ ret = IdleRetainer

Held == DOMAIN versions

With(f, x, y) == [z \in DOMAIN f \union {x} |-> IF z = x THEN y ELSE f[z]]
Without(f, x) == [z \in DOMAIN f \ {x} |-> f[z]]

-----------------------------------------------------------------------------
\* copyTreeReadOnly visits the root of the tree, or one of its files.  The
\* destination directory is made again if it is gone; its mtime is the time
\* an entry was last added to it.
MakeDest(id) ==
  versions' = IF id \in Held THEN versions
                ELSE With(versions, id, [files |-> NoFiles, created |-> now])

CopyFile(id, p, content) ==
  LET frozen == IF id \in Held THEN versions[id].files ELSE NoFiles
  IN  versions' = With(versions, id,
                       [files |-> With(frozen, p, content),
                        created |-> IF p \in DOMAIN frozen THEN versions[id].created
                                                           ELSE now])

-----------------------------------------------------------------------------
\* RetentionPolicy.Plan.  The sort is by Created, newest first; versions of
\* the same time stay in List's order, that of their hashes, so any order.
Newest(vs) ==
  {s \in [1..Cardinality(DOMAIN vs) -> DOMAIN vs] :
     \A i, j \in DOMAIN s :
       i < j => s[i] # s[j] /\ vs[s[i]].created >= vs[s[j]].created}

\* (Mutant: the comparison is off by one.)
KeepOneLess(i) == KeepLast > 0 /\ i < KeepLast

WithinLast(i) == KeepLast > 0 /\ i <= KeepLast

WithinSince(created, at) == KeepSince > 0 /\ at - created <= KeepSince

ZeroPolicy == KeepLast = 0 /\ KeepSince = 0

\* The versions of the sorted sequence s that the policy does not keep.
PruneIndices(vs, s, at) ==
  {i \in DOMAIN s : ~ (ZeroPolicy \/ WithinLast(i) \/ WithinSince(vs[s[i]].created, at))}

\* Both reasons to keep a version are monotone along the sorted sequence, so
\* what is pruned is its tail, in the same order.
Plans(vs, at) ==
  {LET I == PruneIndices(vs, s, at)
   IN  SubSeq(s, Len(s) - Cardinality(I) + 1, Len(s)) : s \in Newest(vs)}

\* (Mutant: a plan that is too long is refused instead of shortened.)
Refused(plan) ==
  IF MaxPrunePerTick > 0 /\ Len(plan) > MaxPrunePerTick THEN <<>> ELSE plan

\* (Mutant: the bound is off by one.)
OneTooMany(plan) ==
  IF MaxPrunePerTick > 0 /\ Len(plan) > MaxPrunePerTick
    THEN SubSeq(plan, 1, MaxPrunePerTick + 1)
    ELSE plan

Truncated(plan) ==
  IF MaxPrunePerTick > 0 /\ Len(plan) > MaxPrunePerTick
    THEN SubSeq(plan, 1, MaxPrunePerTick)
    ELSE plan

-----------------------------------------------------------------------------
\* Converge(now, maxTicks) is called.
StartRetain ==
  /\ RetainerRuns
  /\ ret.pc = "idle"
  /\ ret' = [IdleRetainer EXCEPT !.pc = "list", !.ticks = MaxTicks, !.at = now]
  /\ UNCHANGED versions

\* Tick: List and Plan.
TickList ==
  /\ ret.pc = "list"
  /\ \E plan \in Plans(versions, ret.at) :
       ret' = [ret EXCEPT !.pc = "prune", !.plan = Truncated(plan), !.done = 0]
  /\ UNCHANGED versions

\* Tick: Apply deletes one version after the other.
PruneOne ==
  /\ ret.pc = "prune"
  /\ ret.plan # <<>>
  /\ versions' = Without(versions, Head(ret.plan))
  /\ ret' = [ret EXCEPT !.plan = Tail(@), !.done = @ + 1]

\* The end of a Tick: Converge returns when it pruned nothing, or when the
\* ticks are used up, and runs the next one otherwise.
TickEnd ==
  /\ ret.pc = "prune"
  /\ ret.plan = <<>>
  /\ ret' = IF ret.done = 0 \/ ret.ticks = 1
              THEN IdleRetainer
              ELSE [ret EXCEPT !.pc = "list", !.ticks = @ - 1]
  /\ UNCHANGED versions

\* A List error ends the loop with nothing pruned; a Prune error ends it
\* where it is, some files of the version gone, and the directory they were
\* in changed by that.
ListFails ==
  /\ "list" \in StoreFaults
  /\ ret.pc = "list"
  /\ ret' = IdleRetainer
  /\ UNCHANGED versions

PruneFails ==
  /\ "prune" \in StoreFaults
  /\ ret.pc = "prune"
  /\ ret.plan # <<>>
  /\ LET id == Head(ret.plan) IN
       /\ id \in Held
       /\ \E gone \in SUBSET DOMAIN versions[id].files :
            versions' = [versions EXCEPT
                           ![id].files = [p \in DOMAIN @ \ gone |-> @[p]],
                           ![id].created = IF gone = {} THEN @ ELSE now]
  /\ ret' = IdleRetainer

RetainStep == StartRetain \/ TickList \/ PruneOne \/ TickEnd \/ ListFails \/ PruneFails
=============================================================================
