--------------------------- MODULE VersionProofs ---------------------------
(***************************************************************************)
(* Proofs about frozen versions: what the retention loop may take, that a  *)
(* version stays as Commit returned it, and that a replica is complete.    *)
(***************************************************************************)
EXTENDS Replicator, MountSeamProofs

Elements(s) == {s[i] : i \in 1..Len(s)}

\* The retention loop's record, and the versions that its plan spares.
RetShape ==
  /\ DOMAIN ret = {"pc", "plan", "done", "ticks", "at"}
  /\ ret.done \in Nat
  /\ \E R : ret.plan \in Seq(R)

Spared == Held \ Elements(ret.plan)
PlanSpares == ret.plan # <<>> => ~ ZeroPolicy /\ Cardinality(Spared) >= KeepLast

RetainInv == IsFiniteSet(Held) /\ RetShape /\ PlanSpares /\ BoundedTick

\* LEMMA: a part of a sequence.
LEMMA PartOfSeq ==
  ASSUME NEW R, NEW s \in Seq(R), NEW m \in 1..(Len(s) + 1), NEW n \in Nat, n <= Len(s),
         m <= n + 1
  PROVE  LET t == SubSeq(s, m, n) IN
           /\ t \in Seq(R) /\ Len(t) = n - m + 1
           /\ \A i \in 1..Len(t) : t[i] = s[m + i - 1]
OBVIOUS

\* LEMMA: the tail of a sequence that is not empty.
LEMMA TailFacts ==
  ASSUME NEW R, NEW s \in Seq(R), s # <<>>
  PROVE  /\ Tail(s) \in Seq(R) /\ Len(Tail(s)) = Len(s) - 1
         /\ Len(s) \in Nat \ {0}
         /\ Elements(s) = Elements(Tail(s)) \union {Head(s)}
<1>1. /\ Tail(s) \in Seq(R) /\ Len(Tail(s)) = Len(s) - 1 /\ Len(s) \in Nat \ {0}
      /\ \A i \in 1..Len(Tail(s)) : Tail(s)[i] = s[i + 1]
      /\ Head(s) = s[1]
  OBVIOUS
<1>2. ASSUME NEW x \in Elements(s)
      PROVE  x \in Elements(Tail(s)) \union {Head(s)}
  <2>1. PICK i \in 1..Len(s) : x = s[i]
    BY DEF Elements
  <2>2. CASE i # 1
    <3>1. i - 1 \in 1..Len(Tail(s)) /\ Tail(s)[i - 1] = s[i]
      BY <1>1, <2>2
    <3>. QED  BY <2>1, <3>1 DEF Elements
  <2>. QED  BY <1>1, <2>1, <2>2
<1>3. ASSUME NEW x \in Elements(Tail(s)) \union {Head(s)}
      PROVE  x \in Elements(s)
  <2>1. CASE x = Head(s)
    BY <1>1, <2>1 DEF Elements
  <2>2. CASE x \in Elements(Tail(s))
    <3>1. PICK i \in 1..Len(Tail(s)) : x = Tail(s)[i]
      BY <2>2 DEF Elements
    <3>2. i + 1 \in 1..Len(s)
      BY <1>1
    <3>. QED  BY <1>1, <3>1, <3>2 DEF Elements
  <2>. QED  BY <2>1, <2>2
<1>. QED  BY <1>1, <1>2, <1>3

\* LEMMA: a plan is a sequence of versions held, empty under the zero policy,
\* and spares the KeepLast newest (retention.go, RetentionPolicy.Plan).
LEMMA PlanFacts ==
  ASSUME NEW vs, NEW at, IsFiniteSet(DOMAIN vs), NEW plan \in Plans(vs, at)
  PROVE  /\ plan \in Seq(DOMAIN vs)
         /\ plan # <<>> => ~ ZeroPolicy
         /\ plan # <<>> => Cardinality(DOMAIN vs \ Elements(plan)) >= KeepLast
<1>. DEFINE D == DOMAIN vs
            n == Cardinality(D)
<1>1. PICK s \in Newest(vs) :
        plan = SubSeq(s, Len(s) - Cardinality(PruneIndices(vs, s, at)) + 1, Len(s))
  BY DEF Plans
<1>. DEFINE I == PruneIndices(vs, s, at)
            k == Cardinality(I)
            m == n - k
<1>2. n \in Nat
  BY FS_CardinalityType
<1>3. /\ s \in [1..n -> D]
      /\ \A i, j \in 1..n : i < j => s[i] # s[j]
  BY DEF Newest
<1>4. s \in Seq(D) /\ Len(s) = n /\ DOMAIN s = 1..n
  BY <1>2, <1>3
<1>5. I \in SUBSET (1..n)
  BY <1>4 DEF PruneIndices
<1>6. IsFiniteSet(1..n) /\ Cardinality(1..n) = n
  BY <1>2, FS_Interval
<1>7. IsFiniteSet(I) /\ k \in Nat /\ k <= n
  BY <1>5, <1>6, FS_Subset, FS_CardinalityType
<1>8. /\ plan \in Seq(D) /\ Len(plan) = k
      /\ \A i \in 1..k : plan[i] = s[m + i]
  <2>1. m + 1 \in 1..(Len(s) + 1) /\ n <= Len(s) /\ m + 1 <= n + 1
    BY <1>2, <1>4, <1>7
  <2>2. plan = SubSeq(s, m + 1, n)
    BY <1>1, <1>4
  <2>. HIDE DEF m, n, k, D
  <2>3. plan \in Seq(D) /\ Len(plan) = n - (m + 1) + 1
        /\ \A i \in 1..Len(plan) : plan[i] = s[(m + 1) + i - 1]
    BY <1>2, <1>4, <2>1, <2>2, PartOfSeq
  <2>. QED  BY <1>2, <1>7, <2>3 DEF m
<1>9. ASSUME plan # <<>>
      PROVE  ~ ZeroPolicy /\ m \in Nat /\ m >= KeepLast
  <2>1. k # 0
    BY <1>8, <1>9
  <2>2. PICK i \in I : TRUE
    BY <1>7, <2>1, FS_EmptySet
  <2>3. ~ ZeroPolicy
    BY <2>2 DEF PruneIndices
  <2>4. I \in SUBSET ((KeepLast + 1)..n)
    <3>. SUFFICES ASSUME NEW j \in I PROVE j \in (KeepLast + 1)..n
      OBVIOUS
    <3>1. j \in 1..n /\ ~ WithinLast(j)
      BY <1>4 DEF PruneIndices
    <3>. QED  BY <1>2, <3>1, RetentionAssumption DEF WithinLast
  <2>5. i \in (KeepLast + 1)..n
    BY <2>2, <2>4
  <2>6. KeepLast \in Nat /\ KeepLast + 1 <= n
    BY <1>2, <2>5, RetentionAssumption
  <2>7. /\ IsFiniteSet((KeepLast + 1)..n)
        /\ Cardinality((KeepLast + 1)..n) = n - KeepLast
    <3>. HIDE DEF n
    <3>. QED  BY <1>2, <2>6, FS_Interval
  <2>8. k <= n - KeepLast
    BY <2>4, <2>7, FS_Subset
  <2>. HIDE DEF n, k
  <2>. QED  BY <1>2, <1>7, <2>3, <2>6, <2>8
<1>10. ASSUME plan # <<>>
       PROVE  Cardinality(D \ Elements(plan)) >= KeepLast
  <2>. DEFINE T == D \ Elements(plan)
              f == [i \in 1..m |-> s[i]]
  <2>1. m \in Nat /\ m >= KeepLast /\ m <= n
    BY <1>2, <1>7, <1>9, <1>10
  <2>2. IsFiniteSet(T) /\ Cardinality(T) \in Nat
    BY FS_Subset, FS_CardinalityType
  <2>3. ASSUME NEW i \in 1..m
        PROVE  s[i] \in T
    <3>1. i \in 1..n /\ s[i] \in D
      BY <1>2, <1>3, <2>1
    <3>2. ASSUME NEW j \in 1..k
          PROVE  s[i] # plan[j]
      <4>1. m + j \in 1..n /\ i < m + j
        BY <1>2, <1>7, <2>1
      <4>. QED  BY <1>3, <1>8, <3>1, <4>1
    <3>. QED  BY <1>8, <3>1, <3>2 DEF Elements
  <2>4. f \in Injection(1..m, T)
    <3>1. f \in [1..m -> T]
      BY <2>3
    <3>2. ASSUME NEW i \in 1..m, NEW j \in 1..m, i # j
          PROVE  f[i] # f[j]
      <4>1. i \in 1..n /\ j \in 1..n /\ (i < j \/ j < i)
        BY <1>2, <2>1, <3>2
      <4>. QED  BY <1>3, <4>1
    <3>3. DOMAIN f = 1..m
      OBVIOUS
    <3>. HIDE DEF f, m, T
    <3>. QED  BY <3>1, <3>2, <3>3 DEF Injection, IsInjective
  <2>5. Cardinality(1..m) <= Cardinality(T)
    <3>. HIDE DEF f, T, m
    <3>. QED  BY <2>2, <2>4, FS_Injection
  <2>6. Cardinality(1..m) = m
    <3>. HIDE DEF m
    <3>. QED  BY <2>1, FS_Interval
  <2>. HIDE DEF m, T
  <2>. QED  BY <2>1, <2>2, <2>5, <2>6, RetentionAssumption DEF T
<1>. QED  BY <1>8, <1>9, <1>10

\* LEMMA: what a caller's step and a restart do to the versions held: nothing,
\* or one more (dev.go, copyTreeReadOnly).
LEMMA CallersOnlyAdd ==
  ASSUME [Next]_vars, ~ Retain
  PROVE  /\ ret' = ret
         /\ DOMAIN versions' = Held \/ \E id : DOMAIN versions' = Held \union {id}
<1>1. CASE UNCHANGED vars \/ Tick \/ StepBack \/ Restart
  BY <1>1 DEF vars, Tick, StepBack, Restart, storeVars, Held
<1>2. ASSUME NEW p \in Procs, CopyStart(p) \/ CopyEntry(p) \/ CutShort(p)
      PROVE  /\ ret' = ret
             /\ DOMAIN versions' = Held \/ \E id : DOMAIN versions' = Held \union {id}
  BY <1>2 DEF CopyStart, CopyEntry, CutShort, CommitStep, MakeDest, CopyFile, With, Held
<1>3. ASSUME NEW p \in Procs,
             Invoke(p) \/ Step(p) \/ HandleWrite(p) \/ HandleClose(p),
             ~ CopyStart(p), ~ CopyEntry(p), ~ CutShort(p)
      PROVE  ret' = ret /\ versions' = versions
  BY <1>3 DEF Step, Invoke, HandleWrite, HandleClose, Check, WriteReceipt, OpenBackend,
       RenameBackend, RemoveBackend, LookBackend, ChrootBackend, BackendDone,
       MkdirAll, TempFile, Symlink, Readlink, WalkStart, HashFile, StatDest,
       CopyDone, SnapshotFails, CutShort, CommitStep, storeVars
<1>. QED  BY <1>1, <1>2, <1>3 DEF Next, Held

\* LEMMA: the part of a plan that a tick takes on (retain.go, Tick).
LEMMA TruncatedFacts ==
  ASSUME NEW R, NEW plan \in Seq(R)
  PROVE  LET t == Truncated(plan) IN
           /\ t \in Seq(R)
           /\ MaxPrunePerTick > 0 => Len(t) <= MaxPrunePerTick
           /\ Elements(t) \subseteq Elements(plan)
           /\ t # <<>> => plan # <<>>
<1>. DEFINE b == MaxPrunePerTick
            t == SubSeq(plan, 1, b)
<1>1. b \in Nat /\ Len(plan) \in Nat
  BY RetentionAssumption
<1>2. CASE b > 0 /\ Len(plan) > b
  <2>1. /\ t \in Seq(R) /\ Len(t) = b
        /\ \A i \in 1..b : t[i] = plan[i] /\ i \in 1..Len(plan)
    <3>1. 1 \in 1..(Len(plan) + 1) /\ b <= Len(plan) /\ 1 <= b + 1
      BY <1>1, <1>2
    <3>2. t \in Seq(R) /\ Len(t) = b - 1 + 1 /\ \A i \in 1..Len(t) : t[i] = plan[1 + i - 1]
      BY <1>1, <3>1, PartOfSeq
    <3>. QED  BY <1>1, <1>2, <3>2
  <2>2. Truncated(plan) = t /\ plan # <<>>
    BY <1>1, <1>2 DEF Truncated
  <2>. HIDE DEF t
  <2>. QED  BY <1>1, <2>1, <2>2 DEF Elements
<1>3. CASE ~ (b > 0 /\ Len(plan) > b)
  BY <1>1, <1>3 DEF Truncated
<1>. QED  BY <1>2, <1>3

\* LEMMA: taking from a plan that spares KeepLast versions leaves them, and
\* planning anew spares them again.
LEMMA RetainKeeps ==
  ASSUME RetainInv, RetainStep
  PROVE  /\ RetainInv'
         /\ Held \subseteq DOMAIN versions'
              \/ (~ ZeroPolicy /\ Cardinality(DOMAIN versions') >= KeepLast)
<1>. DEFINE Kept == Held \subseteq DOMAIN versions'
                      \/ (~ ZeroPolicy /\ Cardinality(DOMAIN versions') >= KeepLast)
<1>1. /\ IsFiniteSet(Held) /\ RetShape /\ PlanSpares /\ BoundedTick /\ ret.done \in Nat
      /\ DOMAIN ret = {"pc", "plan", "done", "ticks", "at"}
      /\ MaxPrunePerTick \in Nat
  BY RetentionAssumption DEF RetainInv, RetShape
<1>2. ASSUME ret'.plan = <<>>, ret'.done = 0, Held' = Held,
             DOMAIN ret' = {"pc", "plan", "done", "ticks", "at"}
      PROVE  RetainInv' /\ Kept
  <2>1. <<>> \in Seq({}) /\ Len(<<>>) = 0
    OBVIOUS
  <2>2. RetShape' /\ BoundedTick' /\ PlanSpares'
    BY <1>1, <1>2, <2>1 DEF RetShape, BoundedTick, PlanSpares
  <2>. QED  BY <1>1, <1>2, <2>2 DEF RetainInv, Held
<1>3. CASE StartRetain \/ ListFails \/ PruneFails
  <2>1. Held' = Held
    BY <1>3 DEF StartRetain, ListFails, PruneFails, Held
  <2>2. /\ ret'.plan = <<>> /\ ret'.done = 0
        /\ DOMAIN ret' = {"pc", "plan", "done", "ticks", "at"}
    <3>1. \/ ret' = IdleRetainer
          \/ ret' = [IdleRetainer EXCEPT !.pc = "list", !.ticks = MaxTicks, !.at = now]
      BY <1>3 DEF StartRetain, ListFails, PruneFails
    <3>2. /\ DOMAIN IdleRetainer = {"pc", "plan", "done", "ticks", "at"}
          /\ IdleRetainer.plan = <<>> /\ IdleRetainer.done = 0
      BY DEF IdleRetainer
    <3>. QED  BY <3>1, <3>2
  <2>. QED  BY <1>2, <2>1, <2>2
<1>4. CASE TickList
  <2>1. PICK plan \in Plans(versions, ret.at) :
          ret' = [ret EXCEPT !.pc = "prune", !.plan = Truncated(plan), !.done = 0]
    BY <1>4 DEF TickList
  <2>. DEFINE t == Truncated(plan)
  <2>2. /\ plan \in Seq(Held)
        /\ plan # <<>> => ~ ZeroPolicy
        /\ plan # <<>> => Cardinality(Held \ Elements(plan)) >= KeepLast
    BY <1>1, PlanFacts DEF Held
  <2>3. /\ t \in Seq(Held) /\ (MaxPrunePerTick > 0 => Len(t) <= MaxPrunePerTick)
        /\ Elements(t) \subseteq Elements(plan)
        /\ t # <<>> => plan # <<>>
        /\ Len(t) \in Nat
    BY <2>2, TruncatedFacts
  <2>. HIDE DEF t
  <2>4. /\ ret'.plan = t /\ ret'.done = 0 /\ versions' = versions
        /\ DOMAIN ret' = {"pc", "plan", "done", "ticks", "at"}
    BY <1>1, <1>4, <2>1 DEF TickList, t
  <2>5. t # <<>> => Cardinality(Held \ Elements(t)) >= KeepLast
    <3>. SUFFICES ASSUME t # <<>> PROVE Cardinality(Held \ Elements(t)) >= KeepLast
      OBVIOUS
    <3>1. IsFiniteSet(Held \ Elements(t))
      BY <1>1, FS_Subset
    <3>2. Held \ Elements(plan) \in SUBSET (Held \ Elements(t))
      BY <2>3
    <3>3. Cardinality(Held \ Elements(plan)) <= Cardinality(Held \ Elements(t))
      BY <3>1, <3>2, FS_Subset
    <3>4. IsFiniteSet(Held \ Elements(plan))
      BY <1>1, FS_Subset
    <3>5. /\ Cardinality(Held \ Elements(plan)) \in Nat
          /\ Cardinality(Held \ Elements(t)) \in Nat
      BY <3>1, <3>4, FS_CardinalityType
    <3>. QED  BY <2>2, <2>3, <3>3, <3>5, RetentionAssumption
  <2>6. RetShape' /\ BoundedTick' /\ PlanSpares'
    BY <1>1, <2>2, <2>3, <2>4, <2>5 DEF RetShape, BoundedTick, PlanSpares, Spared, Held
  <2>. QED  BY <1>1, <2>4, <2>6 DEF RetainInv, Held
<1>5. CASE PruneOne
  <2>1. PICK R : ret.plan \in Seq(R)
    BY <1>1 DEF RetShape
  <2>. DEFINE h == Head(ret.plan)
              t == Tail(ret.plan)
  <2>2. /\ t \in Seq(R) /\ Len(t) = Len(ret.plan) - 1 /\ Len(ret.plan) \in Nat \ {0}
        /\ Elements(ret.plan) = Elements(t) \union {h}
    BY <1>5, <2>1, TailFacts DEF PruneOne
  <2>3. /\ ret'.plan = t /\ ret'.done = ret.done + 1
        /\ DOMAIN ret' = {"pc", "plan", "done", "ticks", "at"}
        /\ Held' = Held \ {h}
    BY <1>1, <1>5 DEF PruneOne, Without, Held
  <2>. HIDE DEF h, t
  <2>4. Spared' = Spared
    BY <2>2, <2>3 DEF Spared
  <2>5. ~ ZeroPolicy /\ Cardinality(Spared) >= KeepLast
    BY <1>1, <1>5 DEF PruneOne, PlanSpares
  <2>6. IsFiniteSet(Held') /\ IsFiniteSet(Spared)
    BY <1>1, <2>3, FS_Subset DEF Spared
  <2>7. Cardinality(Held') >= KeepLast
    <3>1. Spared \in SUBSET Held'
      BY <2>4 DEF Spared
    <3>2. /\ Cardinality(Spared) <= Cardinality(Held')
          /\ Cardinality(Spared) \in Nat /\ Cardinality(Held') \in Nat
      BY <2>6, <3>1, FS_Subset, FS_CardinalityType
    <3>. QED  BY <2>5, <3>2, RetentionAssumption
  <2>8. RetShape' /\ BoundedTick' /\ PlanSpares'
    BY <1>1, <2>2, <2>3, <2>4, <2>5 DEF RetShape, BoundedTick, PlanSpares
  <2>. QED  BY <2>5, <2>6, <2>7, <2>8 DEF RetainInv, Held
<1>6. CASE TickEnd
  <2>1. CASE ret' = IdleRetainer
    <3>1. Held' = Held
      BY <1>6 DEF TickEnd, Held
    <3>2. /\ ret'.plan = <<>> /\ ret'.done = 0
          /\ DOMAIN ret' = {"pc", "plan", "done", "ticks", "at"}
      BY <2>1 DEF IdleRetainer
    <3>. QED  BY <1>2, <3>1, <3>2
  <2>2. CASE ret' = [ret EXCEPT !.pc = "list", !.ticks = @ - 1]
    <3>1. /\ ret'.plan = ret.plan /\ ret'.done = ret.done
          /\ DOMAIN ret' = DOMAIN ret
      BY <1>1, <2>2
    <3>2. versions' = versions
      BY <1>6 DEF TickEnd
    <3>. QED  BY <1>1, <3>1, <3>2 DEF RetainInv, RetShape, BoundedTick, PlanSpares,
                Spared, Held
  <2>. QED  BY <1>6, <2>1, <2>2 DEF TickEnd
<1>. QED  BY <1>3, <1>4, <1>5, <1>6 DEF RetainStep

\* LEMMA: the loop's bookkeeping is inductive, whatever is committed between
\* List and the deletions it plans.
LEMMA RetainInvStep ==
  ASSUME RetainInv, [Next]_vars
  PROVE  /\ RetainInv'
         /\ Held \subseteq DOMAIN versions'
              \/ (~ ZeroPolicy /\ Cardinality(DOMAIN versions') >= KeepLast)
<1>1. CASE Retain
  BY <1>1, RetainKeeps DEF Retain
<1>2. CASE ~ Retain
  <2>1. ret' = ret /\ Held \subseteq Held' /\ IsFiniteSet(Held')
    <3>1. IsFiniteSet(Held)
      BY DEF RetainInv
    <3>2. \A id : IsFiniteSet(Held \union {id})
      BY <3>1, FS_AddElement
    <3>. QED  BY <1>2, <3>1, <3>2, CallersOnlyAdd DEF Held
  <2>2. IsFiniteSet(Spared') /\ Spared \in SUBSET Spared'
    BY <2>1, FS_Subset DEF Spared
  <2>3. PlanSpares'
    <3>1. IsFiniteSet(Spared)
      BY <2>2, FS_Subset
    <3>2. /\ Cardinality(Spared) <= Cardinality(Spared')
          /\ Cardinality(Spared) \in Nat /\ Cardinality(Spared') \in Nat
      BY <2>2, <3>1, FS_Subset, FS_CardinalityType
    <3>. QED  BY <2>1, <3>2, RetentionAssumption DEF RetainInv, PlanSpares
  <2>. QED  BY <2>1, <2>3 DEF RetainInv, RetShape, BoundedTick, Held
<1>. QED  BY <1>1, <1>2

\* LEMMA: the loop's bookkeeping holds at the start.
LEMMA RetainInvInit == Init => RetainInv
<1>. SUFFICES ASSUME Init PROVE RetainInv
  OBVIOUS
<1>1. Held = {} /\ ret = IdleRetainer
  BY DEF Init, StoreInit, Held, NoVersions
<1>2. <<>> \in Seq({}) /\ Len(<<>>) = 0
  OBVIOUS
<1>3. RetShape /\ PlanSpares /\ BoundedTick
  BY <1>1, <1>2, RetentionAssumption DEF RetShape, PlanSpares, BoundedTick, IdleRetainer
<1>. QED  BY <1>1, <1>3, FS_EmptySet DEF RetainInv

\* THEOREM: a tick never takes more than MaxPrunePerTick versions (retain.go,
\* Tick), for any policy and any number of versions.
THEOREM TickIsBounded == Spec => []BoundedTick
<1>1. RetainInv /\ [Next]_vars => RetainInv'
  BY RetainInvStep
<1>2. RetainInv => BoundedTick
  BY DEF RetainInv
<1>. QED  BY RetainInvInit, <1>1, <1>2, PTL DEF Spec

\* THEOREM: the retention loop never takes the store below KeepLast versions,
\* and nothing under the zero policy, although commits and faults come between
\* List and the deletions (retention.go, Plan and Apply).
THEOREM RetentionKeepsLast == Spec => KeepsLast
<1>1. RetainInv /\ [Next]_vars => RetainInv'
  BY RetainInvStep
<1>2. RetainInv /\ [Next]_vars
        => [Held \subseteq DOMAIN versions'
              \/ (~ ZeroPolicy /\ Cardinality(DOMAIN versions') >= KeepLast)]_vars
  BY RetainInvStep
<1>. QED  BY RetainInvInit, <1>1, <1>2, PTL DEF Spec, KeepsLast

-----------------------------------------------------------------------------
\* What is held under an ID: a tree of files and directories.
StoreShape == Held \subseteq Trees /\ versions \in [Held -> Frozen]

\* LEMMA: what a walk can read of a node is a file or a directory (dev.go).
LEMMA ReadableIsFrozen ==
  ASSUME SeamTypeOK, NEW n \in Nodes, NEW m \in Follow(n), ~ Unreadable(n, m)
  PROVE  root[m] \in Files \union {Dir}
<1>1. CASE root[n] = Dir
  <2>1. root[n] \notin Links
    BY <1>1, MountAssumption
  <2>. QED  BY <1>1, <2>1 DEF Follow
<1>. QED  BY <1>1 DEF Unreadable

\* LEMMA: a file more makes a version of a version (dev.go, copyTreeReadOnly).
LEMMA CopiedIsFrozen ==
  ASSUME SeamTypeOK, StoreShape, NEW id, NEW n \in Nodes, NEW x \in Files \union {Dir},
         CopyFile(id, n, x)
  PROVE  \E v \in Frozen : versions' = With(versions, id, v)
<1>. DEFINE frozen == IF id \in Held THEN versions[id].files ELSE NoFiles
            made == IF n \in DOMAIN frozen THEN versions[id].created ELSE now
            v == [files |-> With(frozen, n, x), created |-> made]
<1>1. versions' = With(versions, id, v)
  BY DEF CopyFile
<1>2. CASE id \in Held
  <2>1. versions[id] \in Frozen
    BY <1>2 DEF StoreShape
  <2>. QED
    <3>1. frozen \in FrozenTrees /\ made \in 0..MaxTime
      BY <1>2, <2>1 DEF Frozen, SeamTypeOK
    <3>. HIDE DEF frozen, made
    <3>2. PICK S \in SUBSET Nodes : frozen \in [S -> Files \union {Dir}]
      BY <3>1 DEF FrozenTrees
    <3>3. With(frozen, n, x) \in [S \union {n} -> Files \union {Dir}]
      BY <3>2 DEF With
    <3>4. With(frozen, n, x) \in FrozenTrees
      BY <3>2, <3>3 DEF FrozenTrees
    <3>5. v \in Frozen
      BY <3>1, <3>4 DEF Frozen
    <3>. HIDE DEF v
    <3>. QED  BY <1>1, <3>5
<1>3. CASE id \notin Held
  <2>1. frozen = NoFiles /\ DOMAIN NoFiles = {} /\ made = now
    BY <1>3 DEF NoFiles
  <2>. HIDE DEF frozen, made
  <2>2. With(frozen, n, x) \in [{n} -> Files \union {Dir}]
    BY <2>1 DEF With
  <2>3. With(frozen, n, x) \in FrozenTrees
    BY <2>2 DEF FrozenTrees
  <2>4. v \in Frozen
    BY <2>1, <2>3 DEF Frozen, SeamTypeOK
  <2>. HIDE DEF v
  <2>. QED  BY <1>1, <2>4
<1>. QED  BY <1>2, <1>3

\* LEMMA: which steps of a caller change the store, and how.
LEMMA CopySteps ==
  ASSUME SeamTypeOK, StoreShape, NEW p \in Procs,
         Invoke(p) \/ Step(p) \/ HandleWrite(p) \/ HandleClose(p)
  PROVE  \/ versions' = versions
         \/ /\ pc[p] \in {"mkdir", "copy"}
            /\ \E v \in Frozen : versions' = With(versions, loc[p].tree, v)
<1>1. loc[p] \in Locals
  BY DEF SeamTypeOK, CallTypeOK
<1>2. NoFiles \in FrozenTrees
  <2>1. NoFiles \in [{} -> Files \union {Dir}]
    BY DEF NoFiles
  <2>. QED  BY <2>1 DEF FrozenTrees
<1>3. CASE CopyStart(p)
  <2>. DEFINE v == [files |-> NoFiles, created |-> now]
  <2>1. v \in Frozen
    BY <1>2 DEF Frozen, SeamTypeOK
  <2>2. versions' = versions \/ versions' = With(versions, loc[p].tree, v)
    BY <1>3 DEF CopyStart, MakeDest
  <2>3. pc[p] = "mkdir"
    BY <1>3 DEF CopyStart
  <2>. HIDE DEF v
  <2>. QED  BY <2>1, <2>2, <2>3
<1>4. CASE CopyEntry(p)
  <2>n. PICK n : n = First(loc[p].todo)
    OBVIOUS
  <2>1. n \in Nodes /\ pc[p] = "copy"
    BY <1>1, <1>4, <2>n, FirstIsMember DEF CopyEntry, Locals
  <2>2. \/ versions' = versions
        \/ \E m \in Follow(n) : ~ Unreadable(n, m) /\ CopyFile(loc[p].tree, n, root[m])
    BY <1>4, <2>n DEF CopyEntry
  <2>3. ASSUME NEW m \in Follow(n), ~ Unreadable(n, m), CopyFile(loc[p].tree, n, root[m])
        PROVE  \E v \in Frozen : versions' = With(versions, loc[p].tree, v)
    BY <2>1, <2>3, ReadableIsFrozen, CopiedIsFrozen
  <2>. QED  BY <2>1, <2>2, <2>3
<1>5. CASE CutShort(p)
  <2>n. PICK n : n = First(loc[p].todo)
    OBVIOUS
  <2>1. n \in Nodes /\ pc[p] = "copy"
    BY <1>1, <1>5, <2>n, FirstIsMember DEF CutShort, Locals
  <2>2. CopyFile(loc[p].tree, n, Empty) /\ Empty \in Files
    BY <1>5, <2>n DEF CutShort, Files
  <2>. QED  BY <2>1, <2>2, CopiedIsFrozen
<1>6. ASSUME ~ CopyStart(p), ~ CopyEntry(p), ~ CutShort(p)
      PROVE  versions' = versions
  BY <1>6 DEF Step, Invoke, HandleWrite, HandleClose, Check, WriteReceipt, OpenBackend,
       RenameBackend, RemoveBackend, LookBackend, ChrootBackend, BackendDone,
       MkdirAll, TempFile, Symlink, Readlink, WalkStart, HashFile, StatDest,
       CopyDone, SnapshotFails, CommitStep, storeVars
<1>. QED  BY <1>3, <1>4, <1>5, <1>6

\* LEMMA: the retention loop takes whole versions, or, when a deletion fails,
\* some files of one, and changes no file that it leaves.
LEMMA RetainSteps ==
  ASSUME SeamTypeOK, StoreShape, RetainStep
  PROVE  /\ DOMAIN versions' \subseteq Held
         /\ versions' \in [DOMAIN versions' -> Frozen]
         /\ \A id \in DOMAIN versions' : NeverAltered(id)
<1>1. CASE UNCHANGED versions
  BY <1>1 DEF StoreShape, Held, NeverAltered
<1>2. CASE PruneOne
  BY <1>2 DEF PruneOne, Without, StoreShape, Held, NeverAltered
<1>3. CASE PruneFails
  <2>. DEFINE k == Head(ret.plan)
  <2>1. k \in Held
    BY <1>3 DEF PruneFails
  <2>2. PICK gone \in SUBSET DOMAIN versions[k].files :
          versions' = [versions EXCEPT
                         ![k].files = [n \in DOMAIN @ \ gone |-> @[n]],
                         ![k].created = IF gone = {} THEN @ ELSE now]
    BY <1>3 DEF PruneFails
  <2>. HIDE DEF k
  <2>3. versions[k] \in Frozen /\ versions \in [Held -> Frozen]
    BY <2>1 DEF StoreShape
  <2>. DEFINE rest == [n \in DOMAIN versions[k].files \ gone |-> versions[k].files[n]]
              made == IF gone = {} THEN versions[k].created ELSE now
              v == [versions[k] EXCEPT !.files = rest, !.created = made]
  <2>4. rest \in FrozenTrees
    <3>1. PICK S \in SUBSET Nodes : versions[k].files \in [S -> Files \union {Dir}]
      BY <2>3 DEF FrozenTrees, Frozen
    <3>2. rest \in [S \ gone -> Files \union {Dir}]
      BY <3>1
    <3>. HIDE DEF rest
    <3>. QED  BY <3>1, <3>2 DEF FrozenTrees
  <2>5. made \in 0..MaxTime
    BY <2>3 DEF Frozen, SeamTypeOK
  <2>6. \A n \in DOMAIN rest : n \in DOMAIN versions[k].files /\ rest[n] = versions[k].files[n]
    OBVIOUS
  <2>7. versions' = [versions EXCEPT ![k] = v]
    BY <2>1, <2>2, <2>3 DEF Frozen, Held
  <2>. HIDE DEF rest, made
  <2>8. v \in Frozen /\ v.files = rest
    BY <2>3, <2>4, <2>5 DEF Frozen
  <2>. HIDE DEF v
  <2>9. DOMAIN versions' = Held /\ versions' \in [Held -> Frozen]
    BY <2>3, <2>7, <2>8 DEF Held
  <2>10. ASSUME NEW id \in Held PROVE NeverAltered(id)
    <3>1. CASE id = k
      <4>1. versions'[id].files = rest
        BY <2>1, <2>3, <2>7, <2>8, <3>1
      <4>. QED  BY <2>6, <3>1, <4>1 DEF NeverAltered
    <3>2. CASE id # k
      <4>1. versions'[id] = versions[id]
        BY <2>3, <2>7, <3>2
      <4>. QED  BY <4>1 DEF NeverAltered
    <3>. QED  BY <3>1, <3>2
  <2>. QED  BY <2>9, <2>10
<1>. QED  BY <1>1, <1>2, <1>3 DEF RetainStep, StartRetain, TickList, TickEnd, ListFails

\* LEMMA: the store stays a store of trees.
LEMMA StoreShapeStep ==
  ASSUME SeamTypeOK, StoreShape, [Next]_vars
  PROVE  StoreShape'
<1>1. CASE Retain
  BY <1>1, RetainSteps DEF Retain, StoreShape, Held
<1>2. CASE versions' = versions
  BY <1>2 DEF StoreShape, Held
<1>3. ASSUME NEW p \in Procs,
             Invoke(p) \/ Step(p) \/ HandleWrite(p) \/ HandleClose(p)
      PROVE  StoreShape'
  <2>1. loc[p].tree \in Trees
    BY DEF SeamTypeOK, CallTypeOK, Locals
  <2>2. ASSUME NEW id \in Trees, NEW v \in Frozen, versions' = With(versions, id, v)
        PROVE  StoreShape'
    BY <2>2 DEF With, StoreShape, Held
  <2>. QED  BY <1>2, <1>3, <2>1, <2>2, CopySteps
<1>. QED  BY <1>1, <1>2, <1>3 DEF Next, Restart, Tick, StepBack, vars, storeVars

-----------------------------------------------------------------------------
\* The loop has ticks left while it is at work.
TicksLeft == ret.pc # "idle" => ret.ticks # 0

\* LEMMA: a sequence over a set is one over a larger set.
LEMMA SeqOfMore ==
  ASSUME NEW R, NEW Q, R \subseteq Q, NEW s \in Seq(R)
  PROVE  s \in Seq(Q)
<1>1. s \in [1..Len(s) -> Q] /\ Len(s) \in Nat
  OBVIOUS
<1>. QED  BY <1>1

\* LEMMA: the retention loop keeps to its kind (retain.go, Tick and Converge).
LEMMA RetainerStep ==
  ASSUME SeamTypeOK, Held \subseteq Trees, IsFiniteSet(Held), ret \in Retainer, TicksLeft,
         RetainStep
  PROVE  ret' \in Retainer /\ TicksLeft'
<1>1. /\ ret.pc \in {"idle", "list", "prune"} /\ ret.plan \in Seq(Trees)
      /\ ret.done \in Nat /\ ret.ticks \in 0..MaxTicks /\ ret.at \in 0..MaxTime
  BY DEF Retainer
<1>2. MaxTicks \in Nat \ {0} /\ MaxTime \in Nat /\ now \in 0..MaxTime
  BY RetentionAssumption, MountAssumption DEF SeamTypeOK
<1>3. IdleRetainer \in Retainer /\ IdleRetainer.pc = "idle"
  <2>1. <<>> \in Seq(Trees)
    OBVIOUS
  <2>. QED  BY <1>2, <2>1 DEF IdleRetainer, Retainer
<1>4. CASE ret' = IdleRetainer
  BY <1>3, <1>4 DEF TicksLeft
<1>5. CASE StartRetain
  <2>1. ret' = [IdleRetainer EXCEPT !.pc = "list", !.ticks = MaxTicks, !.at = now]
    BY <1>5 DEF StartRetain
  <2>2. ret'.ticks = MaxTicks
    BY <1>3, <2>1 DEF Retainer
  <2>3. ret' \in Retainer
    <3>1. MaxTicks \in 0..MaxTicks
      BY <1>2
    <3>3. \A r \in Retainer : \A u \in 0..MaxTicks :
            [r EXCEPT !.pc = "list", !.ticks = u, !.at = now] \in Retainer
      BY <1>2 DEF Retainer
    <3>. QED  BY <1>3, <2>1, <3>1, <3>3
  <2>. QED  BY <1>2, <2>2, <2>3 DEF TicksLeft
<1>6. CASE TickList
  <2>1. PICK plan \in Plans(versions, ret.at) :
          ret' = [ret EXCEPT !.pc = "prune", !.plan = Truncated(plan), !.done = 0]
    BY <1>6 DEF TickList
  <2>2. plan \in Seq(Held)
    BY PlanFacts DEF Held
  <2>3. Truncated(plan) \in Seq(Trees)
    <3>1. Truncated(plan) \in Seq(Held)
      BY <2>2, TruncatedFacts
    <3>. QED  BY <3>1, SeqOfMore
  <2>4. ret.ticks # 0
    BY <1>6 DEF TickList, TicksLeft
  <2>5. PICK t : t = Truncated(plan)
    OBVIOUS
  <2>6. ret' = [ret EXCEPT !.pc = "prune", !.plan = t, !.done = 0] /\ t \in Seq(Trees)
    BY <2>1, <2>3, <2>5
  <2>7. ret'.ticks = ret.ticks /\ ret' \in Retainer
    BY <1>1, <2>6 DEF Retainer
  <2>. QED  BY <2>4, <2>7 DEF TicksLeft
<1>7. CASE PruneOne
  <2>1. Tail(ret.plan) \in Seq(Trees)
    BY <1>1, <1>7, TailFacts DEF PruneOne
  <2>2. ret' = [ret EXCEPT !.plan = Tail(ret.plan), !.done = ret.done + 1]
    BY <1>7 DEF PruneOne
  <2>3. ret'.pc = ret.pc /\ ret'.ticks = ret.ticks
    BY <2>2 DEF Retainer
  <2>4. ret.done + 1 \in Nat
    BY <1>1
  <2>5. ret' \in Retainer
    BY <1>1, <2>1, <2>2, <2>4 DEF Retainer
  <2>. QED  BY <2>3, <2>5 DEF TicksLeft
<1>8. CASE TickEnd
  <2>1. CASE ret.done = 0 \/ ret.ticks = 1
    BY <1>4, <1>8, <2>1 DEF TickEnd
  <2>2. CASE ~ (ret.done = 0 \/ ret.ticks = 1)
    <3>1. ret' = [ret EXCEPT !.pc = "list", !.ticks = ret.ticks - 1]
      BY <1>8, <2>2 DEF TickEnd
    <3>2. ret.ticks # 0 /\ ret.ticks # 1
      BY <1>8, <2>2 DEF TickEnd, TicksLeft
    <3>3. ret.ticks - 1 \in 0..MaxTicks /\ ret.ticks - 1 # 0
      BY <1>1, <1>2, <3>2
    <3>4. ret'.ticks = ret.ticks - 1
      BY <3>1 DEF Retainer
    <3>. QED  BY <1>1, <3>1, <3>3, <3>4 DEF Retainer, TicksLeft
  <2>. QED  BY <2>1, <2>2
<1>. QED  BY <1>4, <1>5, <1>6, <1>7, <1>8 DEF RetainStep, ListFails, PruneFails

\* LEMMA: what a step adds to the versions returned is held (inceptionfs.go,
\* Commit).
LEMMA ReturnedSteps ==
  ASSUME SeamTypeOK, NEW p \in Procs,
         Invoke(p) \/ Step(p) \/ HandleWrite(p) \/ HandleClose(p)
  PROVE  returned' \subseteq returned \union Held
<1>1. CASE WriteReceipt(p)
  BY <1>1 DEF WriteReceipt
<1>2. CASE ~ WriteReceipt(p)
  <2>1. returned' = returned
    BY <1>2 DEF Step, Invoke, HandleWrite, HandleClose, Check, OpenBackend,
         RenameBackend, RemoveBackend, LookBackend, ChrootBackend, BackendDone,
         MkdirAll, TempFile, Symlink, Readlink, WalkStart, HashFile, StatDest,
         CopyStart, CopyEntry, CopyDone, SnapshotFails, CutShort, CommitStep, histVars
  <2>. QED  BY <2>1
<1>. QED  BY <1>1, <1>2

\* LEMMA: the types of the store, the loop and what was returned are inductive.
LEMMA StoreTypeStep ==
  ASSUME SeamTypeOK, StoreTypeOK, TicksLeft, [Next]_vars
  PROVE  StoreTypeOK' /\ TicksLeft'
<1>1. StoreShape /\ StoreShape' /\ IsFiniteSet(Held) /\ ret \in Retainer /\ returned \subseteq Held
  BY StoreShapeStep DEF StoreTypeOK, StoreShape
<1>2. CASE Retain
  <2>1. RetainStep /\ returned' = returned \intersect DOMAIN versions'
    BY <1>2 DEF Retain
  <2>2. ret' \in Retainer /\ TicksLeft'
    BY <1>1, <2>1, RetainerStep DEF StoreShape
  <2>3. IsFiniteSet(Held')
    BY <1>1, <2>1, RetainOnlyTakes, FS_Subset DEF Held
  <2>. QED  BY <1>1, <2>1, <2>2, <2>3 DEF StoreTypeOK, StoreShape, Held
<1>3. CASE ~ Retain
  <2>1. ret' = ret /\ Held \subseteq Held' /\ IsFiniteSet(Held')
    <3>1. \A id : IsFiniteSet(Held \union {id})
      BY <1>1, FS_AddElement
    <3>. QED  BY <1>1, <1>3, <3>1, CallersOnlyAdd DEF Held
  <2>2. ret' \in Retainer /\ TicksLeft'
    BY <1>1, <2>1 DEF Retainer, TicksLeft
  <2>3. returned' \subseteq returned \union Held
    <3>1. CASE \E p \in Procs : Invoke(p) \/ Step(p) \/ HandleWrite(p) \/ HandleClose(p)
      BY <3>1, ReturnedSteps
    <3>2. CASE Restart \/ Tick \/ StepBack \/ UNCHANGED vars
      BY <3>2 DEF Restart, Tick, StepBack, vars, histVars
    <3>. QED  BY <1>3, <3>1, <3>2 DEF Next
  <2>. QED  BY <1>1, <2>1, <2>2, <2>3 DEF StoreTypeOK, StoreShape
<1>. QED  BY <1>2, <1>3

\* LEMMA: they hold at the start.
LEMMA StoreTypeInit ==
  ASSUME Init
  PROVE  StoreTypeOK /\ TicksLeft
<1>1. Held = {} /\ versions = NoVersions /\ ret = IdleRetainer /\ returned = {}
  BY DEF Init, StoreInit, Held, NoVersions
<1>2. ret \in Retainer /\ TicksLeft
  <2>1. <<>> \in Seq(Trees)
    OBVIOUS
  <2>. QED  BY <1>1, <2>1, RetentionAssumption, MountAssumption
            DEF IdleRetainer, Retainer, TicksLeft
<1>3. versions \in [Held -> Frozen]
  BY <1>1 DEF NoVersions
<1>. QED  BY <1>1, <1>2, <1>3, FS_EmptySet DEF StoreTypeOK

\* THEOREM: every value the mount keeps stays of its kind: calls, tree and
\* handles, the receipts and the head of the chain, the versions, the retention
\* loop and its plan, and the versions returned, which are held (fs and backend
\* of inception-mount).
THEOREM MountTypeCorrect == Spec => []TypeOK
<1>. DEFINE Inv == SeamTypeOK /\ LogTypeOK /\ StoreTypeOK /\ TicksLeft
<1>1. Init => Inv
  BY TypeInit, LogTypeInit, StoreTypeInit
<1>2. Inv /\ [Next]_vars => Inv'
  BY TypeNext, LogTypeStep, StoreTypeStep
<1>3. Inv => TypeOK
  BY DEF TypeOK
<1>. HIDE DEF Inv
<1>. QED  BY <1>1, <1>2, <1>3, PTL DEF Spec

-----------------------------------------------------------------------------
Copying == {"mkdir", "copy"}

\* LEMMA: a Commit that copies under an ID was at it before, or found nothing
\* under the ID (dev.go, Snapshot).
LEMMA CopyOrigin ==
  ASSUME SeamTypeOK, NEW p \in Procs,
         Invoke(p) \/ Step(p) \/ HandleWrite(p) \/ HandleClose(p),
         NEW q \in Procs, pc'[q] \in Copying
  PROVE  /\ loc'[q].tree = loc[q].tree
         /\ pc[q] \in Copying \/ loc[q].tree \notin Held
<1>1. pc \in [Procs -> Labels] /\ loc \in [Procs -> Locals] /\ call \in [Procs -> Call]
  BY DEF SeamTypeOK, CallTypeOK
<1>. DEFINE Goal == /\ loc'[q].tree = loc[q].tree
                    /\ pc[q] \in Copying \/ loc[q].tree \notin Held
<1>2. ASSUME NEW l, NEW x, Goto(p, l, x),
             l \in Copying => /\ x.tree = loc[p].tree
                              /\ pc[p] \in Copying \/ loc[p].tree \notin Held
      PROVE  Goal
  <2>1. CASE q = p
    BY <1>1, <1>2, <2>1 DEF Goto
  <2>2. CASE q # p
    BY <1>1, <1>2, <2>2 DEF Goto
  <2>. QED  BY <2>1, <2>2
<1>3. CASE Invoke(p)
  <2>1. PICK k \in CallsOf[p] : pc' = [pc EXCEPT ![p] = FirstStep(k)] /\ loc' = loc
    BY <1>3 DEF Invoke
  <2>2. FirstStep(k) \notin Copying
    BY DEF FirstStep, Copying
  <2>. QED  BY <1>1, <2>1, <2>2
<1>4. CASE HandleWrite(p) \/ HandleClose(p)
  BY <1>4 DEF HandleWrite, HandleClose, procVars
<1>5. CASE \/ Check(p) \/ WriteReceipt(p)
           \/ OpenBackend(p) \/ RenameBackend(p) \/ RemoveBackend(p) \/ LookBackend(p)
           \/ ChrootBackend(p) \/ MkdirAll(p) \/ TempFile(p) \/ Symlink(p) \/ Readlink(p)
           \/ WalkStart(p) \/ HashFile(p) \/ CopyDone(p) \/ SnapshotFails(p) \/ CutShort(p)
  <2>1. \E l, x : Goto(p, l, x) /\ l \notin Copying
    <3>1. CASE Check(p) \/ WriteReceipt(p)
      BY <3>1 DEF Check, WriteReceipt, Return, Copying
    <3>2. CASE \/ OpenBackend(p) \/ RenameBackend(p) \/ RemoveBackend(p) \/ LookBackend(p)
               \/ ChrootBackend(p) \/ MkdirAll(p) \/ TempFile(p) \/ Symlink(p) \/ Readlink(p)
      <4>1. Goto(p, "idle", NoLocals)
        BY <3>2 DEF OpenBackend, RenameBackend, RemoveBackend, LookBackend,
             ChrootBackend, BackendDone, MkdirAll, TempFile, Symlink, Readlink, Return
      <4>. QED  BY <4>1 DEF Copying
    <3>3. CASE WalkStart(p) \/ HashFile(p) \/ CopyDone(p) \/ SnapshotFails(p) \/ CutShort(p)
      <4>1. Fail(p) => \E x : Goto(p, "receipt", x)
        BY DEF Fail
      <4>2. \E l \in {"hash", "receipt"} : \E x : Goto(p, l, x)
        BY <3>3, <4>1 DEF WalkStart, HashFile, CopyDone, SnapshotFails, CutShort
      <4>. QED  BY <4>2 DEF Copying
    <3>. QED  BY <1>5, <3>1, <3>2, <3>3
  <2>. QED  BY <1>2, <2>1
<1>6. CASE StatDest(p)
  <2>1. CASE loc[p].tree \in Held
    <3>1. Goto(p, "receipt", loc[p])
      BY <1>6, <2>1 DEF StatDest, AlreadyFrozen
    <3>. QED  BY <1>2, <3>1 DEF Copying
  <2>2. CASE loc[p].tree \notin Held
    <3>1. Goto(p, "mkdir", loc[p])
      BY <1>6, <2>2 DEF StatDest, AlreadyFrozen
    <3>. QED  BY <1>2, <2>2, <3>1
  <2>. QED  BY <2>1, <2>2
<1>7. CASE CopyStart(p) \/ CopyEntry(p)
  <2>1. pc[p] \in Copying
    BY <1>7 DEF CopyStart, CopyEntry, Copying
  <2>2. Fail(p) \/ \E T : Goto(p, "copy", [loc[p] EXCEPT !.todo = T])
    BY <1>7 DEF CopyStart, CopyEntry
  <2>3. \A T : [loc[p] EXCEPT !.todo = T].tree = loc[p].tree
    BY <1>1 DEF Locals
  <2>4. CASE Fail(p)
    BY <1>2, <2>4 DEF Fail, Copying
  <2>. QED  BY <1>2, <2>1, <2>2, <2>3, <2>4
<1>. QED  BY <1>3, <1>4, <1>5, <1>6, <1>7 DEF Step

VersionInv == SeamTypeOK /\ StoreTypeOK /\ TicksLeft

\* LEMMA: what is known of the versions is inductive.
LEMMA VersionInvStep ==
  ASSUME VersionInv, [Next]_vars
  PROVE  VersionInv'
BY TypeNext, StoreTypeStep DEF VersionInv

\* LEMMA: it holds at the start.
LEMMA VersionInvInit == Init => VersionInv
BY TypeInit, StoreTypeInit DEF VersionInv

\* LEMMA: no step alters a version that has been returned and is settled, and
\* none unsettles it: whoever comes to copy it finds it there.
LEMMA ReturnedStays ==
  ASSUME VersionInv, [Next]_vars, NEW id \in returned \intersect returned', Settled(id)
  PROVE  NeverAltered(id) /\ Settled(id)'
<1>1. /\ SeamTypeOK /\ StoreShape /\ id \in Held
      /\ VersionInv' /\ id \in DOMAIN versions'
  BY VersionInvStep DEF VersionInv, StoreTypeOK, StoreShape, Held
<1>2. CASE UNCHANGED <<versions, pc, loc>>
  BY <1>2 DEF NeverAltered, Settled
<1>3. CASE Retain
  <2>1. UNCHANGED <<pc, loc>>
    BY <1>3 DEF Retain, procVars
  <2>2. NeverAltered(id)
    BY <1>1, <1>3, RetainSteps DEF Retain
  <2>. QED  BY <2>1, <2>2 DEF Settled
<1>4. CASE Restart
  <2>1. versions' = versions /\ pc' = [p \in Procs |-> "idle"]
    BY <1>4 DEF Restart, storeVars
  <2>. QED  BY <2>1 DEF NeverAltered, Settled
<1>5. ASSUME NEW p \in Procs,
             Invoke(p) \/ Step(p) \/ HandleWrite(p) \/ HandleClose(p)
      PROVE  NeverAltered(id) /\ Settled(id)'
  <2>1. ASSUME versions' = versions PROVE NeverAltered(id)
    BY <2>1 DEF NeverAltered
  <2>2. ASSUME NEW v \in Frozen, pc[p] \in {"mkdir", "copy"},
               versions' = With(versions, loc[p].tree, v)
        PROVE  NeverAltered(id)
    <3>1. loc[p].tree # id
      BY <2>2 DEF Settled
    <3>2. versions'[id] = versions[id]
      BY <1>1, <2>2, <3>1 DEF With, Held
    <3>. QED  BY <3>2 DEF NeverAltered
  <2>3. NeverAltered(id)
    BY <1>1, <1>5, <2>1, <2>2, CopySteps
  <2>4. ASSUME NEW q \in Procs, pc'[q] \in {"mkdir", "copy"}
        PROVE  loc'[q].tree # id
    <3>1. /\ loc'[q].tree = loc[q].tree
          /\ pc[q] \in Copying \/ loc[q].tree \notin Held
      BY <1>1, <1>5, <2>4, CopyOrigin DEF Copying
    <3>. QED  BY <1>1, <3>1 DEF Copying, Settled
  <2>. QED  BY <2>3, <2>4 DEF Settled
<1>. QED  BY <1>2, <1>3, <1>4, <1>5 DEF Next, Tick, StepBack, vars, storeVars, procVars

\* THEOREM: a version that Commit has returned and that no Commit is copying is
\* not altered until it is pruned, by no write, restart, fault or later Commit,
\* and no Commit comes to copy it again, for any number of callers that commit
\* at once (backend/dev.go, Snapshot and copyTreeReadOnly).
THEOREM ReturnedNeverAltered == Spec => VersionsImmutable
<1>1. VersionInv /\ [Next]_vars => VersionInv'
  BY VersionInvStep
<1>2. VersionInv /\ [Next]_vars
        => [\A id \in returned \intersect returned' :
              Settled(id) => NeverAltered(id) /\ Settled(id)']_vars
  BY ReturnedStays
<1>. QED  BY VersionInvInit, <1>1, <1>2, PTL DEF Spec, VersionsImmutable

-----------------------------------------------------------------------------
\* What the two ends of a transfer keep.
TransferShape ==
  /\ DOMAIN sender = {"step", "id", "kept", "todo", "stat"}
  /\ sender.kept \in BOOLEAN
  /\ sender.kept => sender.id \in returned /\ Settled(sender.id)
  /\ sender.todo \subseteq Nodes
  /\ sender.step = "body" => sender.todo # {} /\ sender.stat \in Files
  /\ sender.step = "nil" => sender.todo = {}
  /\ DOMAIN stream = {"entries", "ended"} /\ stream.ended \in BOOLEAN
  /\ \E R : stream.entries \in Seq(R)
  /\ receiver = "nil" => stream.entries = <<>> /\ stream.ended

\* The version may still arrive in full: it is as it was when Send began, but
\* for files that a failed deletion took, and Receive has met no error.
Live == sender.kept /\ receiver # "error"

OnTheWay(n, v) == \E i \in 1..Len(stream.entries) : stream.entries[i] = Entry(n, v)
Arrived(n, v) == n \in DOMAIN Target /\ Target[n] = v
Sent(n, v) == OnTheWay(n, v) \/ Arrived(n, v)

\* An entry that is whole tells what the source holds ...
StreamTrue ==
  Live => \A i \in 1..Len(stream.entries) :
            LET e == stream.entries[i]
            IN  e.body = Torn \/ e.node \notin DOMAIN Source \/ e.body = Source[e.node]

\* ... a file is to be visited, on its way or there ...
NoneMissed ==
  Live /\ sender.step \in {"visit", "body", "nil"} =>
    \A n \in DOMAIN Source : Source[n] = Dir \/ n \in sender.todo \/ Sent(n, Source[n])

\* ... and the file being sent is the one whose size was announced; of an
\* empty one the header is all there is.
BodyTrue ==
  Live /\ sender.step = "body" =>
    LET n == First(sender.todo) IN
      n \in DOMAIN Source => /\ Source[n] = sender.stat
                             /\ sender.stat = Empty => Sent(n, Empty)

TransferInv == TransferShape /\ StreamTrue /\ NoneMissed /\ BodyTrue
ReplicaInv == VersionInv /\ TransferInv

\* LEMMA: what Send reads of a version is a tree.
LEMMA SourceTree ==
  ASSUME VersionInv
  PROVE  /\ DOMAIN Source \subseteq Nodes
         /\ \A n \in DOMAIN Source : Source[n] \in Files \union {Dir}
<1>1. Source = NoFiles \/ Source \in FrozenTrees
  BY DEF Source, VersionInv, StoreTypeOK, Frozen
<1>. QED  BY <1>1 DEF NoFiles, FrozenTrees

\* LEMMA: an entry put into the stream is on its way, and so is what was.
LEMMA PutFacts ==
  ASSUME TransferShape, NEW e, stream'.entries = Append(stream.entries, e), Target' = Target
  PROVE  /\ \E R : stream'.entries \in Seq(R)
         /\ \A n, v : Sent(n, v) => Sent(n, v)'
         /\ \A n, v : e = Entry(n, v) => Sent(n, v)'
         /\ \A i \in 1..Len(stream'.entries) :
              stream'.entries[i] = e
                \/ \E j \in 1..Len(stream.entries) : stream'.entries[i] = stream.entries[j]
<1>1. PICK R : stream.entries \in Seq(R)
  BY DEF TransferShape
<1>. DEFINE s == stream.entries
            t == stream'.entries
<1>2. /\ t \in Seq(R \union {e}) /\ Len(t) = Len(s) + 1 /\ Len(s) \in Nat
      /\ \A i \in 1..Len(s) : t[i] = s[i]
      /\ t[Len(s) + 1] = e
  BY <1>1, AppendFacts
<1>3. \A i \in 1..Len(s) : i \in 1..Len(t)
  BY <1>2
<1>4. Len(s) + 1 \in 1..Len(t)
  BY <1>2
<1>5. \A i \in 1..Len(t) : i = Len(s) + 1 \/ i \in 1..Len(s)
  BY <1>2
<1>6. ASSUME NEW n, NEW v, Sent(n, v)
      PROVE  Sent(n, v)'
  <2>1. CASE Arrived(n, v)
    BY <2>1 DEF Sent, Arrived
  <2>2. CASE OnTheWay(n, v)
    BY <2>2, <1>2, <1>3 DEF Sent, OnTheWay, Entry
  <2>. QED  BY <1>6, <2>1, <2>2 DEF Sent
<1>7. ASSUME NEW n, NEW v, e = Entry(n, v)
      PROVE  Sent(n, v)'
  BY <1>2, <1>4, <1>7 DEF Sent, OnTheWay, Entry
<1>8. \E Q : t \in Seq(Q)
  BY <1>2
<1>. HIDE DEF s, t
<1>9. \A i \in 1..Len(t) : t[i] = e \/ \E j \in 1..Len(s) : t[i] = s[j]
  BY <1>2, <1>5
<1>. QED  BY <1>6, <1>7, <1>8, <1>9 DEF s, t

\* LEMMA: while the mount goes on, a version that is kept only loses files, and
\* the transfer is as true of it as before.
LEMMA TransferMount ==
  ASSUME ReplicaInv, MountStep
  PROVE  TransferInv'
<1>1. VersionInv /\ VersionInv' /\ TransferShape
  BY VersionInvStep DEF ReplicaInv, MountStep, TransferInv
<1>2. /\ UNCHANGED <<stream, receiver, replica>>
      /\ sender' = [sender EXCEPT !.kept = sender.kept /\ sender.id \in returned']
      /\ Next
  BY DEF MountStep
<1>3. /\ DOMAIN sender' = {"step", "id", "kept", "todo", "stat"}
      /\ sender'.step = sender.step /\ sender'.id = sender.id
      /\ sender'.todo = sender.todo /\ sender'.stat = sender.stat
      /\ sender'.kept = (sender.kept /\ sender.id \in returned')
  BY <1>1, <1>2 DEF TransferShape
<1>4. TransferShape'
  <2>1. PICK k : k = sender.id
    OBVIOUS
  <2>2. sender'.kept => k \in returned' /\ Settled(k)'
    BY <1>1, <1>2, <1>3, <2>1, ReturnedStays DEF TransferShape
  <2>3. sender'.kept => sender'.id \in returned' /\ Settled(sender.id)'
    BY <1>3, <2>1, <2>2 DEF Settled
  <2>4. sender'.kept \in BOOLEAN
    BY <1>1, <1>3 DEF TransferShape
  <2>. QED  BY <1>1, <1>2, <1>3, <2>3, <2>4 DEF TransferShape
<1>5. Target' = Target
  BY <1>2, <1>3 DEF Target
<1>6. \A n, v : Sent(n, v)' <=> Sent(n, v)
  BY <1>2, <1>5 DEF Sent, OnTheWay, Arrived, Entry
<1>7. ASSUME Live'
      PROVE  /\ Live
             /\ \A n \in DOMAIN Source' : n \in DOMAIN Source /\ Source'[n] = Source[n]
  <2>1. sender.kept /\ sender.id \in returned' /\ receiver # "error"
    BY <1>2, <1>3, <1>7 DEF Live
  <2>2. sender.id \in returned /\ sender.id \in Held /\ sender.id \in DOMAIN versions'
    BY <1>1, <2>1 DEF TransferShape, VersionInv, StoreTypeOK, Held
  <2>3. NeverAltered(sender.id)
    BY <1>1, <1>2, <2>1, <2>2, ReturnedStays DEF TransferShape
  <2>4. Source = versions[sender.id].files /\ Source' = versions'[sender.id].files
    BY <1>3, <2>2 DEF Source, Held
  <2>. QED  BY <2>1, <2>3, <2>4 DEF Live, NeverAltered
<1>8. StreamTrue'
  <2>. SUFFICES ASSUME Live', NEW i \in 1..Len(stream'.entries)
                PROVE  LET e == stream'.entries[i] IN
                         e.body = Torn \/ e.node \notin DOMAIN Source' \/ e.body = Source'[e.node]
    BY DEF StreamTrue
  <2>. QED  BY <1>2, <1>7 DEF ReplicaInv, TransferInv, StreamTrue
<1>9. NoneMissed'
  <2>. SUFFICES ASSUME Live', sender'.step \in {"visit", "body", "nil"},
                       NEW n \in DOMAIN Source'
                PROVE  Source'[n] = Dir \/ n \in sender'.todo \/ Sent(n, Source[n])'
    BY <1>6, <1>7 DEF NoneMissed
  <2>. QED  BY <1>3, <1>6, <1>7 DEF ReplicaInv, TransferInv, NoneMissed
<1>10. BodyTrue'
  <2>. DEFINE n == First(sender.todo)
  <2>. SUFFICES ASSUME Live', sender'.step = "body", n \in DOMAIN Source'
                PROVE  Source'[n] = sender.stat /\ (sender.stat = Empty => Sent(n, Empty)')
    BY <1>3 DEF BodyTrue, First
  <2>. QED  BY <1>3, <1>6, <1>7 DEF ReplicaInv, TransferInv, BodyTrue
<1>. QED  BY <1>4, <1>8, <1>9, <1>10 DEF TransferInv

\* LEMMA: a transfer begins with nothing sent.
LEMMA TransferStart ==
  ASSUME ReplicaInv, StartTransfer
  PROVE  TransferInv'
<1>1. PICK id \in Held : sender' = Sender("walk", id, id \in returned /\ Settled(id))
  BY DEF StartTransfer
<1>2. /\ stream' = [entries |-> <<>>, ended |-> FALSE] /\ receiver' = "next"
      /\ UNCHANGED <<returned, pc, loc>>
  BY DEF StartTransfer, vars
<1>3. /\ DOMAIN sender' = {"step", "id", "kept", "todo", "stat"}
      /\ sender'.step = "walk" /\ sender'.id = id /\ sender'.todo = {}
      /\ sender'.kept = (id \in returned /\ Settled(id))
  BY <1>1 DEF Sender
<1>4. /\ DOMAIN stream' = {"entries", "ended"} /\ stream'.ended = FALSE
      /\ stream'.entries = <<>> /\ Len(stream'.entries) = 0
      /\ stream'.entries \in Seq({})
  BY <1>2
<1>5. TransferShape'
  <2>1. sender'.kept \in BOOLEAN
    BY <1>3
  <2>2. sender'.kept => sender'.id \in returned' /\ Settled(sender.id)'
    BY <1>2, <1>3 DEF Settled
  <2>3. \E R : stream'.entries \in Seq(R)
    BY <1>4
  <2>. QED  BY <1>2, <1>3, <1>4, <2>1, <2>2, <2>3 DEF TransferShape
<1>. QED  BY <1>3, <1>4, <1>5 DEF TransferInv, StreamTrue, NoneMissed, BodyTrue

\* What a step of Send leaves alone, and what is known then.
SendLeaves ==
  /\ UNCHANGED <<returned, pc, loc, receiver, replica>>
  /\ sender'.id = sender.id /\ sender'.kept = sender.kept
  /\ Source' = Source /\ Target' = Target

\* LEMMA: no step of Send touches the store, the version it sends or the replica.
LEMMA SendLeavesStore ==
  ASSUME TransferShape,
         SendWalk \/ SendHeader \/ SendBody \/ SendDone \/ Break \/ Hangup
  PROVE  /\ SendLeaves
         /\ DOMAIN sender' = {"step", "id", "kept", "todo", "stat"}
<1>1. UNCHANGED <<returned, pc, loc, versions, receiver, replica>>
  BY DEF SendWalk, SendHeader, SendBody, SendDone, Break, Hangup, vars
<1>2. /\ sender'.id = sender.id /\ sender'.kept = sender.kept
      /\ DOMAIN sender' = {"step", "id", "kept", "todo", "stat"}
  <2>1. ASSUME NEW s, NEW t,
               \/ sender' = [sender EXCEPT !.step = s, !.todo = t]
               \/ sender' = [sender EXCEPT !.todo = t]
               \/ sender' = [sender EXCEPT !.step = s, !.stat = t]
               \/ sender' = sender
        PROVE  /\ sender'.id = sender.id /\ sender'.kept = sender.kept
               /\ DOMAIN sender' = {"step", "id", "kept", "todo", "stat"}
    BY <2>1 DEF TransferShape
  <2>2. CASE SendWalk
    BY <2>1, <2>2 DEF SendWalk, SendReturns
  <2>3. CASE SendHeader
    BY <2>1, <2>3 DEF SendHeader, SendReturns
  <2>4. CASE SendBody
    BY <2>1, <2>4 DEF SendBody, SendReturns
  <2>5. CASE SendDone \/ Break \/ Hangup
    BY <2>1, <2>5 DEF SendDone, Break, Hangup, SendReturns
  <2>. QED  BY <2>2, <2>3, <2>4, <2>5
<1>3. Source' = Source /\ Target' = Target
  BY <1>1, <1>2 DEF Source, Target, Held
<1>. QED  BY <1>1, <1>2, <1>3 DEF SendLeaves

\* LEMMA: when no entry is added, all that was sent stays sent.
LEMMA StreamStays ==
  ASSUME TransferInv, SendLeaves, stream'.entries = stream.entries
  PROVE  /\ \A n, v : Sent(n, v)' <=> Sent(n, v)
         /\ StreamTrue'
<1>1. \A n, v : Sent(n, v)' <=> Sent(n, v)
  BY DEF SendLeaves, Sent, OnTheWay, Arrived, Entry
<1>2. Live' = Live
  BY DEF SendLeaves, Live
<1>. QED  BY <1>1, <1>2 DEF SendLeaves, TransferInv, StreamTrue

\* LEMMA: when an entry is added that is torn or true, the stream stays true.
LEMMA StreamGrows ==
  ASSUME TransferInv, SendLeaves, NEW n, NEW v, Put(n, v) \/ Cut(Entry(n, v)),
         v = Torn \/ n \notin DOMAIN Source \/ v = Source[n]
  PROVE  /\ \A k, w : Sent(k, w) => Sent(k, w)'
         /\ Sent(n, v)'
         /\ StreamTrue'
         /\ \E R : stream'.entries \in Seq(R)
         /\ DOMAIN stream' = {"entries", "ended"} /\ stream'.ended \in BOOLEAN
<1>1. /\ stream'.entries = Append(stream.entries, Entry(n, v))
      /\ DOMAIN stream' = {"entries", "ended"} /\ stream'.ended \in BOOLEAN
  <2>1. CASE Put(n, v)
    BY <2>1 DEF Put, TransferInv, TransferShape
  <2>2. CASE Cut(Entry(n, v))
    <3>1. PICK e : e = Entry(n, v)
      OBVIOUS
    <3>. QED  BY <2>2, <3>1 DEF Cut
  <2>. QED  BY <2>1, <2>2
<1>2. Target' = Target /\ Source' = Source /\ Live' = Live /\ TransferShape
  BY DEF SendLeaves, Live, TransferInv
<1>3. /\ \E R : stream'.entries \in Seq(R)
      /\ \A k, w : Sent(k, w) => Sent(k, w)'
      /\ Sent(n, v)'
      /\ \A i \in 1..Len(stream'.entries) :
           stream'.entries[i] = Entry(n, v)
             \/ \E j \in 1..Len(stream.entries) : stream'.entries[i] = stream.entries[j]
  BY <1>1, <1>2, PutFacts
<1>4. ASSUME Live, NEW i \in 1..Len(stream'.entries)
      PROVE  LET e == stream'.entries[i] IN
               e.body = Torn \/ e.node \notin DOMAIN Source \/ e.body = Source[e.node]
  <2>1. CASE stream'.entries[i] = Entry(n, v)
    BY <2>1 DEF Entry
  <2>2. CASE \E j \in 1..Len(stream.entries) : stream'.entries[i] = stream.entries[j]
    BY <1>4, <2>2 DEF TransferInv, StreamTrue
  <2>. QED  BY <1>3, <2>1, <2>2
<1>. QED  BY <1>1, <1>2, <1>3, <1>4 DEF StreamTrue

\* LEMMA: Send fails, or goes on without a new entry.
LEMMA SendOn ==
  ASSUME TransferInv, SendLeaves,
         DOMAIN sender' = {"step", "id", "kept", "todo", "stat"},
         DOMAIN stream' = {"entries", "ended"}, stream'.entries = stream.entries,
         stream'.ended \in BOOLEAN, stream.ended => stream'.ended,
         sender'.todo \subseteq Nodes,
         sender'.step = "nil" => sender'.todo = {},
         sender'.step = "error" \/ (sender'.step \in {"visit", "nil"} /\
           (Live => \A n \in DOMAIN Source :
              Source[n] = Dir \/ n \in sender'.todo \/ Sent(n, Source[n])))
  PROVE  TransferInv'
<1>1. (\A n, v : Sent(n, v)' <=> Sent(n, v)) /\ StreamTrue'
  BY StreamStays
<1>2. Live' = Live /\ Source' = Source
  BY DEF SendLeaves, Live
<1>3. TransferShape'
  BY DEF TransferInv, TransferShape, SendLeaves, Settled
<1>4. NoneMissed'
  <2>. SUFFICES ASSUME Live', sender'.step \in {"visit", "body", "nil"}, NEW n \in DOMAIN Source'
                PROVE  Source'[n] = Dir \/ n \in sender'.todo \/ Sent(n, Source[n])'
    BY DEF NoneMissed
  <2>1. Source[n] = Dir \/ n \in sender'.todo \/ Sent(n, Source[n])
    BY <1>2
  <2>. QED  BY <1>1, <1>2, <2>1
<1>5. BodyTrue'
  BY DEF BodyTrue
<1>. QED  BY <1>1, <1>3, <1>4, <1>5 DEF TransferInv

\* LEMMA: closing the archive adds no entry (replicate.go, tw.Close).
LEMMA CloseFacts ==
  ASSUME TransferShape, Close
  PROVE  /\ DOMAIN stream' = {"entries", "ended"} /\ stream'.ended \in BOOLEAN
         /\ stream'.entries = stream.entries /\ (stream.ended => stream'.ended)
BY DEF Close, NoMoreComes, TransferShape

\* LEMMA: the walk begins, or finds the version gone.
LEMMA TransferWalk ==
  ASSUME ReplicaInv, SendWalk
  PROVE  TransferInv'
<1>1. TransferInv /\ VersionInv /\ TransferShape
  BY DEF ReplicaInv, TransferInv
<1>2. SendLeaves /\ DOMAIN sender' = {"step", "id", "kept", "todo", "stat"}
  BY <1>1, SendLeavesStore
<1>3. \/ /\ sender' = [sender EXCEPT !.step = "visit", !.todo = DOMAIN Source]
         /\ stream' = stream
      \/ sender' = [sender EXCEPT !.step = "error", !.todo = {}] /\ Close
  BY DEF SendWalk, SendReturns
<1>4. CASE /\ sender' = [sender EXCEPT !.step = "visit", !.todo = DOMAIN Source]
           /\ stream' = stream
  <2>1. sender'.step = "visit" /\ sender'.todo = DOMAIN Source
    BY <1>1, <1>4 DEF TransferShape
  <2>2. sender'.todo \subseteq Nodes
    BY <1>1, <2>1, SourceTree
  <2>3. DOMAIN stream' = {"entries", "ended"} /\ stream'.ended \in BOOLEAN
    BY <1>1, <1>4 DEF TransferShape
  <2>. QED  BY <1>1, <1>2, <1>4, <2>1, <2>2, <2>3, SendOn
<1>5. CASE sender' = [sender EXCEPT !.step = "error", !.todo = {}] /\ Close
  <2>1. sender'.step = "error" /\ sender'.todo = {}
    BY <1>1, <1>5 DEF TransferShape
  <2>2. /\ DOMAIN stream' = {"entries", "ended"} /\ stream'.ended \in BOOLEAN
        /\ stream'.entries = stream.entries /\ (stream.ended => stream'.ended)
    BY <1>1, <1>5, CloseFacts
  <2>. QED  BY <1>1, <1>2, <2>1, <2>2, SendOn
<1>. QED  BY <1>3, <1>4, <1>5

\* LEMMA: the walk has visited everything.
LEMMA TransferDone ==
  ASSUME ReplicaInv, SendDone
  PROVE  TransferInv'
<1>1. TransferInv /\ TransferShape
  BY DEF ReplicaInv, TransferInv
<1>2. SendLeaves /\ DOMAIN sender' = {"step", "id", "kept", "todo", "stat"}
  BY <1>1, SendLeavesStore
<1>3. sender.step = "visit" /\ sender.todo = {}
  BY DEF SendDone
<1>4. sender'.step = "nil" /\ sender'.todo = {}
  BY <1>1 DEF SendDone, SendReturns, TransferShape
<1>5. /\ DOMAIN stream' = {"entries", "ended"} /\ stream'.ended \in BOOLEAN
      /\ stream'.entries = stream.entries /\ (stream.ended => stream'.ended)
  BY <1>1, CloseFacts DEF SendDone
<1>6. Live => \A n \in DOMAIN Source :
                Source[n] = Dir \/ n \in sender'.todo \/ Sent(n, Source[n])
  BY <1>1, <1>3 DEF TransferInv, NoneMissed
<1>. QED  BY <1>1, <1>2, <1>4, <1>5, <1>6, SendOn

\* LEMMA: a file's turn: it is passed over, announced, or gone (replicate.go,
\* Send).
LEMMA TransferHeader ==
  ASSUME ReplicaInv, SendHeader
  PROVE  TransferInv'
<1>. DEFINE n == First(sender.todo)
<1>1. TransferInv /\ VersionInv /\ TransferShape
  BY DEF ReplicaInv, TransferInv
<1>2. SendLeaves /\ DOMAIN sender' = {"step", "id", "kept", "todo", "stat"}
  BY <1>1, SendLeavesStore
<1>3. sender.step = "visit" /\ sender.todo # {} /\ n \in sender.todo
  BY <1>1, FirstIsMember DEF SendHeader, TransferShape
<1>4. CASE n \notin DOMAIN Source
  <2>1. SendReturns("error") /\ Close
    BY <1>4 DEF SendHeader
  <2>2. sender'.step = "error" /\ sender'.todo = {}
    BY <1>1, <2>1 DEF SendReturns, TransferShape
  <2>3. /\ DOMAIN stream' = {"entries", "ended"} /\ stream'.ended \in BOOLEAN
        /\ stream'.entries = stream.entries /\ (stream.ended => stream'.ended)
    BY <1>1, <2>1, CloseFacts
  <2>. QED  BY <1>1, <1>2, <2>2, <2>3, SendOn
<1>5. CASE n \in DOMAIN Source /\ Source[n] = Dir
  <2>1. sender' = [sender EXCEPT !.todo = sender.todo \ {n}] /\ stream' = stream
    BY <1>5 DEF SendHeader
  <2>2. sender'.step = "visit" /\ sender'.todo = sender.todo \ {n}
    BY <1>1, <1>3, <2>1 DEF TransferShape
  <2>3. DOMAIN stream' = {"entries", "ended"} /\ stream'.ended \in BOOLEAN
        /\ sender'.todo \subseteq Nodes
    BY <1>1, <2>1, <2>2 DEF TransferShape
  <2>4. Live => \A k \in DOMAIN Source :
                  Source[k] = Dir \/ k \in sender'.todo \/ Sent(k, Source[k])
    BY <1>1, <1>3, <1>5, <2>2 DEF TransferInv, NoneMissed
  <2>. QED  BY <1>1, <1>2, <2>1, <2>2, <2>3, <2>4, SendOn
<1>6. CASE n \in DOMAIN Source /\ Source[n] # Dir /\ (stream.ended \/ Unfilled)
  <2>1. SendReturns("error") /\ stream' = stream
    BY <1>6 DEF SendHeader
  <2>2. sender'.step = "error" /\ sender'.todo = {}
    BY <1>1, <2>1 DEF SendReturns, TransferShape
  <2>3. DOMAIN stream' = {"entries", "ended"} /\ stream'.ended \in BOOLEAN
    BY <1>1, <2>1 DEF TransferShape
  <2>. QED  BY <1>1, <1>2, <2>1, <2>2, <2>3, SendOn
<1>7. CASE n \in DOMAIN Source /\ Source[n] # Dir /\ ~ (stream.ended \/ Unfilled)
  <2>1. /\ sender' = [sender EXCEPT !.step = "body", !.stat = Source[n]]
        /\ IF Source[n] = Empty THEN Put(n, Empty) ELSE stream' = stream
    BY <1>7 DEF SendHeader
  <2>2. /\ sender'.step = "body" /\ sender'.todo = sender.todo /\ sender'.stat = Source[n]
        /\ Source[n] \in Files
    <3>1. Source[n] \in Files
      BY <1>1, <1>7, SourceTree
    <3>. QED  BY <1>1, <2>1, <3>1 DEF TransferShape
  <2>3. /\ \A k, w : Sent(k, w) => Sent(k, w)'
        /\ Source[n] = Empty => Sent(n, Empty)'
        /\ StreamTrue'
        /\ \E R : stream'.entries \in Seq(R)
        /\ DOMAIN stream' = {"entries", "ended"} /\ stream'.ended \in BOOLEAN
    <3>1. CASE Source[n] = Empty
      BY <1>1, <1>2, <2>1, <3>1, StreamGrows
    <3>2. CASE Source[n] # Empty
      <4>1. stream' = stream
        BY <2>1, <3>2
      <4>. QED  BY <1>1, <1>2, <3>2, <4>1, StreamStays DEF TransferShape
    <3>. QED  BY <3>1, <3>2
  <2>4. receiver' # "nil" /\ Live' = Live /\ Source' = Source
    BY <1>1, <1>2, <1>7 DEF TransferShape, SendLeaves, Live
  <2>5. TransferShape'
    BY <1>1, <1>2, <1>3, <2>2, <2>3, <2>4 DEF TransferShape, SendLeaves, Settled
  <2>6. NoneMissed'
    BY <1>1, <1>3, <2>2, <2>3, <2>4 DEF TransferInv, NoneMissed
  <2>7. BodyTrue'
    <3>. SUFFICES ASSUME Live', n \in DOMAIN Source'
                  PROVE  /\ Source'[n] = sender'.stat
                         /\ sender'.stat = Empty => Sent(n, Empty)'
      BY <2>2 DEF BodyTrue, First
    <3>. QED  BY <2>2, <2>3, <2>4
  <2>. QED  BY <2>3, <2>5, <2>6, <2>7 DEF TransferInv
<1>. QED  BY <1>4, <1>5, <1>6, <1>7

\* LEMMA: a file's content is sent, or the walk ends (replicate.go, Send).
LEMMA TransferBody ==
  ASSUME ReplicaInv, SendBody
  PROVE  TransferInv'
<1>n. PICK n : n = First(sender.todo)
  OBVIOUS
<1>v. PICK v : v = IF n \in DOMAIN Source /\ Source[n] \in Data THEN Source[n] ELSE Torn
  OBVIOUS
<1>1. TransferInv /\ VersionInv /\ TransferShape
  BY DEF ReplicaInv, TransferInv
<1>2. SendLeaves /\ DOMAIN sender' = {"step", "id", "kept", "todo", "stat"}
  BY <1>1, SendLeavesStore
<1>3. sender.step = "body" /\ n \in sender.todo /\ sender.stat \in Files
  BY <1>1, <1>n, FirstIsMember DEF SendBody, TransferShape
<1>4. \/ stream.ended /\ stream' = stream
      \/ /\ ~ stream.ended /\ sender.stat = Empty
         /\ \E b \in BOOLEAN : stream' = [stream EXCEPT !.ended = b]
      \/ ~ stream.ended /\ sender.stat # Empty /\ Put(n, v)
  BY <1>1, <1>n, <1>v DEF SendBody, TransferShape
<1>5. v = Torn \/ n \notin DOMAIN Source \/ v = Source[n]
  BY <1>v
<1>6. /\ \A k, w : Sent(k, w) => Sent(k, w)'
      /\ ~ stream.ended /\ sender.stat # Empty => Sent(n, v)'
      /\ StreamTrue'
      /\ \E R : stream'.entries \in Seq(R)
      /\ DOMAIN stream' = {"entries", "ended"} /\ stream'.ended \in BOOLEAN
      /\ stream.ended => stream' = stream
  <2>1. CASE stream.ended /\ stream' = stream
    BY <1>1, <1>2, <2>1, StreamStays DEF TransferShape
  <2>2. CASE /\ ~ stream.ended /\ sender.stat = Empty
             /\ \E b \in BOOLEAN : stream' = [stream EXCEPT !.ended = b]
    <3>1. /\ stream'.entries = stream.entries
          /\ DOMAIN stream' = {"entries", "ended"} /\ stream'.ended \in BOOLEAN
      BY <1>1, <2>2 DEF TransferShape
    <3>2. \E R : stream'.entries \in Seq(R)
      BY <1>1, <3>1 DEF TransferShape
    <3>3. (\A k, w : Sent(k, w)' <=> Sent(k, w)) /\ StreamTrue'
      BY <1>1, <1>2, <3>1, StreamStays
    <3>. QED  BY <2>2, <3>1, <3>2, <3>3
  <2>3. CASE ~ stream.ended /\ sender.stat # Empty /\ Put(n, v)
    <3>. QED  BY <1>1, <1>2, <1>5, <2>3, StreamGrows
  <2>. QED  BY <1>4, <2>1, <2>2, <2>3
<1>7. Live' = Live /\ Source' = Source /\ (receiver' = "nil" => stream.ended)
  BY <1>1, <1>2 DEF TransferShape, SendLeaves, Live
<1>8. ASSUME sender'.todo \subseteq Nodes, sender'.step \notin {"body", "nil"}
      PROVE  TransferShape' /\ BodyTrue'
  BY <1>1, <1>2, <1>6, <1>7, <1>8 DEF TransferShape, SendLeaves, BodyTrue, Settled
<1>9. \/ SendReturns("error")
      \/ /\ n \in DOMAIN Source /\ ~ (stream.ended /\ sender.stat # Empty)
         /\ sender' = [sender EXCEPT !.step = "visit", !.todo = sender.todo \ {n}]
  BY <1>n DEF SendBody
<1>10. CASE SendReturns("error")
  <2>1. sender'.step = "error" /\ sender'.todo = {}
    BY <1>1, <1>10 DEF SendReturns, TransferShape
  <2>. QED  BY <1>6, <1>8, <2>1 DEF TransferInv, NoneMissed
<1>11. CASE /\ n \in DOMAIN Source /\ ~ (stream.ended /\ sender.stat # Empty)
            /\ sender' = [sender EXCEPT !.step = "visit", !.todo = sender.todo \ {n}]
  <2>1. sender'.step = "visit" /\ sender'.todo = sender.todo \ {n}
    BY <1>1, <1>11 DEF TransferShape
  <2>2. sender'.todo \subseteq Nodes
    BY <1>1, <2>1 DEF TransferShape
  <2>3. Live => Sent(n, Source[n])'
    <3>. SUFFICES ASSUME Live PROVE Sent(n, Source[n])'
      OBVIOUS
    <3>1. Source[n] = sender.stat /\ (sender.stat = Empty => Sent(n, Empty))
      BY <1>1, <1>3, <1>11, <1>n DEF TransferInv, BodyTrue
    <3>2. CASE sender.stat = Empty
      <4>1. Sent(n, Empty)'
        BY <1>6, <3>1, <3>2
      <4>. QED  BY <1>7, <3>1, <3>2, <4>1
    <3>3. CASE sender.stat # Empty
      <4>1. v = Source[n] /\ Sent(n, v)'
        BY <1>1, <1>3, <1>6, <1>11, <1>v, <3>1, <3>3 DEF Files, TransferShape
      <4>. QED  BY <1>7, <4>1
    <3>. QED  BY <3>2, <3>3
  <2>4. ASSUME Live', NEW k \in DOMAIN Source'
        PROVE  Source'[k] = Dir \/ k \in sender'.todo \/ Sent(k, Source[k])'
    <3>1. CASE k = n
      BY <1>7, <2>3, <2>4, <3>1
    <3>2. CASE k # n
      <4>1. Source[k] = Dir \/ k \in sender.todo \/ Sent(k, Source[k])
        BY <1>1, <1>3, <1>7, <2>4 DEF TransferInv, NoneMissed
      <4>2. k \in sender.todo => k \in sender'.todo
        BY <2>1, <3>2
      <4>. QED  BY <1>6, <1>7, <4>1, <4>2
    <3>. QED  BY <3>1, <3>2
  <2>5. NoneMissed'
    BY <2>4 DEF NoneMissed
  <2>. QED  BY <1>6, <1>8, <2>1, <2>2, <2>5 DEF TransferInv
<1>. QED  BY <1>9, <1>10, <1>11

\* LEMMA: a connection that breaks, or is closed after Send, loses no entry, and
\* leaves at most a torn one.
LEMMA TransferBreak ==
  ASSUME ReplicaInv, Break \/ Hangup
  PROVE  TransferInv'
<1>1. TransferInv /\ TransferShape
  BY DEF ReplicaInv, TransferInv
<1>2. SendLeaves /\ sender' = sender
  BY <1>1, SendLeavesStore DEF Break, Hangup
<1>3. /\ ~ stream.ended
      /\ stream' = [stream EXCEPT !.ended = TRUE] \/ \E n : Cut(Entry(n, Torn))
  BY DEF Break, Hangup, NoMoreComes, CutHeader
<1>4. /\ \A k, w : Sent(k, w) => Sent(k, w)'
      /\ StreamTrue'
      /\ \E R : stream'.entries \in Seq(R)
      /\ DOMAIN stream' = {"entries", "ended"} /\ stream'.ended \in BOOLEAN
  <2>1. CASE stream' = [stream EXCEPT !.ended = TRUE]
    <3>1. /\ stream'.entries = stream.entries
          /\ DOMAIN stream' = {"entries", "ended"} /\ stream'.ended \in BOOLEAN
      BY <1>1, <2>1 DEF TransferShape
    <3>2. \E R : stream'.entries \in Seq(R)
      BY <1>1, <3>1 DEF TransferShape
    <3>. QED  BY <1>1, <1>2, <3>1, <3>2, StreamStays
  <2>2. ASSUME NEW n, Cut(Entry(n, Torn))
        PROVE  /\ \A k, w : Sent(k, w) => Sent(k, w)'
               /\ StreamTrue'
               /\ \E R : stream'.entries \in Seq(R)
               /\ DOMAIN stream' = {"entries", "ended"} /\ stream'.ended \in BOOLEAN
    BY <1>1, <1>2, <2>2, StreamGrows
  <2>. QED  BY <1>3, <2>1, <2>2
<1>5. Live' = Live /\ Source' = Source /\ receiver' # "nil"
  BY <1>1, <1>2, <1>3 DEF TransferShape, SendLeaves, Live
<1>6. TransferShape'
  BY <1>1, <1>2, <1>4, <1>5 DEF TransferShape, SendLeaves, Settled
<1>7. NoneMissed'
  <2>. SUFFICES ASSUME Live', sender'.step \in {"visit", "body", "nil"},
                       NEW k \in DOMAIN Source'
                PROVE  Source'[k] = Dir \/ k \in sender'.todo \/ Sent(k, Source[k])'
    BY DEF NoneMissed
  <2>1. Source[k] = Dir \/ k \in sender.todo \/ Sent(k, Source[k])
    BY <1>1, <1>2, <1>5 DEF TransferInv, NoneMissed
  <2>. QED  BY <1>2, <1>4, <1>5, <2>1
<1>8. BodyTrue'
  <2>. SUFFICES ASSUME Live', sender'.step = "body", NEW n, n = First(sender.todo),
                       n \in DOMAIN Source'
                PROVE  Source'[n] = sender.stat /\ (sender.stat = Empty => Sent(n, Empty)')
    BY <1>2 DEF BodyTrue, First
  <2>1. Source[n] = sender.stat /\ (sender.stat = Empty => Sent(n, Empty))
    BY <1>1, <1>2, <1>5 DEF TransferInv, BodyTrue
  <2>. QED  BY <1>4, <1>5, <2>1
<1>. QED  BY <1>4, <1>6, <1>7, <1>8 DEF TransferInv

\* LEMMA: an entry taken from the stream is unpacked whole, or Receive fails
\* (replicate.go, Receive).
LEMMA TransferEntry ==
  ASSUME ReplicaInv, ReceiveEntry
  PROVE  TransferInv'
<1>1. TransferInv /\ TransferShape
  BY DEF ReplicaInv, TransferInv
<1>2. PICK R : stream.entries \in Seq(R)
  BY <1>1 DEF TransferShape
<1>3. PICK e : e = Head(stream.entries)
  OBVIOUS
<1>0. CASE receiver' = "error" /\ stream' = stream
  BY <1>0, <1>1 DEF ReceiveEntry, vars, TransferInv, TransferShape, StreamTrue, NoneMissed,
       BodyTrue, Live, Settled
<1>. SUFFICES ASSUME ~ (receiver' = "error" /\ stream' = stream) PROVE TransferInv'
  BY <1>0
<1>4. /\ receiver = "next" /\ stream.entries # <<>>
      /\ UNCHANGED <<sender, versions, returned, pc, loc>>
      /\ stream' = [stream EXCEPT !.entries = Tail(stream.entries)]
      /\ receiver' = "next" /\ e.body # Torn /\ Unpack(e)
  BY <1>3 DEF ReceiveEntry, WriteTarget, vars, CutHeader, Entry
<1>5. /\ stream'.entries = Tail(stream.entries) /\ stream'.ended = stream.ended
      /\ DOMAIN stream' = {"entries", "ended"}
  BY <1>1, <1>4 DEF TransferShape
<1>. DEFINE s == stream.entries
            t == stream'.entries
<1>6. /\ t \in Seq(R) /\ Len(s) \in Nat \ {0} /\ Len(t) = Len(s) - 1
      /\ \A i \in 1..Len(t) : t[i] = s[i + 1]
      /\ e = s[1]
  BY <1>2, <1>3, <1>4, <1>5
<1>7. Source' = Source
  BY <1>4 DEF Source, Held
<1>8. TransferShape'
  <2>1. \E Q : stream'.entries \in Seq(Q)
    BY <1>6
  <2>. QED  BY <1>1, <1>4, <1>5, <2>1 DEF TransferShape, Settled
<1>9. Live' => Live /\ e.body # Torn /\ Unpack(e)
  BY <1>4 DEF Live
<1>10. ASSUME Live', NEW n \in DOMAIN Source, Sent(n, Source[n])
       PROVE  Sent(n, Source[n])'
  <2>1. Target' = With(Target, e.node, e.body)
    BY <1>4, <1>9, <1>10 DEF Unpack, Target, With
  <2>2. e.node = n => e.body = Source[n]
    <3>1. 1 \in 1..Len(s)
      BY <1>6
    <3>. QED  BY <1>1, <1>6, <1>9, <1>10, <3>1 DEF TransferInv, StreamTrue
  <2>3. ASSUME Arrived(n, Source[n]) \/ e.node = n
        PROVE  Sent(n, Source[n])'
    BY <1>7, <2>1, <2>2, <2>3 DEF Sent, Arrived, With
  <2>4. ASSUME NEW i \in 1..Len(s), s[i] = Entry(n, Source[n])
        PROVE  Sent(n, Source[n])'
    <3>1. CASE i = 1
      BY <1>6, <2>3, <2>4, <3>1 DEF Entry
    <3>2. CASE i # 1
      <4>1. i - 1 \in 1..Len(t) /\ t[i - 1] = s[i]
        BY <1>6, <3>2
      <4>. QED  BY <1>7, <2>4, <4>1 DEF Sent, OnTheWay, Entry
    <3>. QED  BY <3>1, <3>2
  <2>. QED  BY <1>10, <2>3, <2>4 DEF Sent, OnTheWay
<1>11. StreamTrue'
  <2>. SUFFICES ASSUME Live', NEW i \in 1..Len(stream'.entries)
                PROVE  LET x == stream'.entries[i] IN
                         x.body = Torn \/ x.node \notin DOMAIN Source' \/ x.body = Source'[x.node]
    BY DEF StreamTrue
  <2>1. i + 1 \in 1..Len(s) /\ t[i] = s[i + 1]
    BY <1>6
  <2>. QED  BY <1>1, <1>7, <1>9, <2>1 DEF TransferInv, StreamTrue
<1>12. NoneMissed'
  <2>. SUFFICES ASSUME Live', sender'.step \in {"visit", "body", "nil"},
                       NEW n \in DOMAIN Source'
                PROVE  Source'[n] = Dir \/ n \in sender'.todo \/ Sent(n, Source[n])'
    BY DEF NoneMissed
  <2>1. Source[n] = Dir \/ n \in sender.todo \/ Sent(n, Source[n])
    BY <1>1, <1>4, <1>7, <1>9 DEF TransferInv, NoneMissed
  <2>. QED  BY <1>4, <1>7, <1>10, <2>1
<1>13. BodyTrue'
  <2>. SUFFICES ASSUME Live', sender'.step = "body", NEW n, n = First(sender.todo),
                       n \in DOMAIN Source'
                PROVE  Source'[n] = sender.stat /\ (sender.stat = Empty => Sent(n, Empty)')
    BY <1>4 DEF BodyTrue, First
  <2>1. Source[n] = sender.stat /\ (sender.stat = Empty => Sent(n, Empty))
    BY <1>1, <1>4, <1>7, <1>9 DEF TransferInv, BodyTrue
  <2>2. sender.stat = Empty => Sent(n, Source[n])'
    BY <1>7, <1>10, <2>1
  <2>. QED  BY <1>7, <2>1, <2>2
<1>. QED  BY <1>8, <1>11, <1>12, <1>13 DEF TransferInv

\* LEMMA: Receive ends, with an error or with nothing left in the stream.
LEMMA TransferEnd ==
  ASSUME ReplicaInv, ReceiveEnd \/ ReceiveFails
  PROVE  TransferInv'
<1>1. TransferInv /\ TransferShape
  BY DEF ReplicaInv, TransferInv
<1>2. UNCHANGED <<sender, stream, versions, returned, pc, loc>> /\ receiver = "next"
  BY DEF ReceiveEnd, ReceiveFails, vars
<1>3. CASE ReceiveFails
  <2>1. receiver' = "error"
    BY <1>3 DEF ReceiveFails
  <2>. QED  BY <1>1, <1>2, <2>1 DEF TransferInv, TransferShape, StreamTrue, NoneMissed,
              BodyTrue, Live, Settled
<1>4. CASE ReceiveEnd
  <2>1. /\ receiver' = "nil" /\ stream.entries = <<>> /\ stream.ended
        /\ Source' = Source /\ Target' = Target
    BY <1>2, <1>4 DEF ReceiveEnd, Source, Target, Held
  <2>2. Live' = Live
    BY <1>2, <2>1 DEF Live
  <2>3. \A n, v : Sent(n, v)' <=> Sent(n, v)
    BY <1>2, <2>1 DEF Sent, OnTheWay, Arrived, Entry
  <2>4. TransferShape' /\ StreamTrue'
    BY <1>1, <1>2, <2>1, <2>2 DEF TransferInv, TransferShape, StreamTrue, Settled
  <2>5. NoneMissed' /\ BodyTrue'
    BY <1>1, <1>2, <2>1, <2>2, <2>3 DEF TransferInv, NoneMissed, BodyTrue
  <2>. QED  BY <2>4, <2>5 DEF TransferInv
<1>. QED  BY <1>3, <1>4

\* LEMMA: what is known of a transfer is inductive.
LEMMA ReplicaStep ==
  ASSUME ReplicaInv, [RNext]_rVars
  PROVE  ReplicaInv'
<1>1. VersionInv'
  <2>1. [Next]_vars
    BY DEF RNext, MountStep, StartTransfer, SendStep, SendWalk, SendHeader, SendBody,
         SendDone, Break, Hangup, ReceiveStep, ReceiveEntry, ReceiveEnd, ReceiveFails, rVars
  <2>. QED  BY <2>1, VersionInvStep DEF ReplicaInv
<1>2. CASE UNCHANGED rVars
  BY <1>1, <1>2 DEF rVars, replVars, vars, ReplicaInv, TransferInv, TransferShape, StreamTrue,
       NoneMissed, BodyTrue, Live, Sent, OnTheWay, Arrived, Source, Target, Held, Entry, Settled
<1>. QED  BY <1>1, <1>2, TransferMount, TransferStart, TransferWalk, TransferHeader,
            TransferBody, TransferDone, TransferBreak, TransferEntry, TransferEnd
          DEF RNext, SendStep, ReceiveStep, ReplicaInv

\* LEMMA: it holds at the start.
LEMMA ReplicaInit == RInit => ReplicaInv
<1>. SUFFICES ASSUME RInit PROVE TransferInv
  BY VersionInvInit DEF RInit, ReplicaInv
<1>1. /\ DOMAIN sender = {"step", "id", "kept", "todo", "stat"}
      /\ sender.kept = FALSE /\ sender.todo = {} /\ sender.step = "nil"
  BY DEF RInit, Sender
<1>2. /\ DOMAIN stream = {"entries", "ended"} /\ stream.ended = TRUE
      /\ stream.entries = <<>> /\ stream.entries \in Seq({})
  BY DEF RInit
<1>3. TransferShape
  BY <1>1, <1>2 DEF TransferShape
<1>. QED  BY <1>1, <1>3 DEF TransferInv, StreamTrue, NoneMissed, BodyTrue, Live

\* THEOREM: when Send and Receive both return nil, the replica has every file
\* the source still holds of a version that was settled when Send began, whatever the
\* connection, the disks, the retention loop, other commits and earlier attempts
\* did (backend/replicate.go, Send and Receive).
THEOREM ReplicaIsComplete == RSpec => []ReplicaComplete
<1>1. ReplicaInv /\ [RNext]_rVars => ReplicaInv'
  BY ReplicaStep
<1>2. ReplicaInv => ReplicaComplete
  <2>. SUFFICES ASSUME ReplicaInv, sender.step = "nil", receiver = "nil", sender.kept,
                       NEW n \in DOMAIN Regular(Source)
                PROVE  n \in DOMAIN Target /\ Target[n] = Regular(Source)[n]
    BY DEF ReplicaComplete
  <2>1. n \in DOMAIN Source /\ Source[n] # Dir /\ Regular(Source)[n] = Source[n]
    BY DEF Regular
  <2>2. Live /\ stream.entries = <<>> /\ sender.todo = {}
    BY DEF ReplicaInv, TransferInv, TransferShape, Live
  <2>3. Sent(n, Source[n])
    BY <2>1, <2>2 DEF ReplicaInv, TransferInv, NoneMissed
  <2>4. ~ OnTheWay(n, Source[n])
    BY <2>2 DEF OnTheWay
  <2>. QED  BY <2>1, <2>3, <2>4 DEF Sent, Arrived
<1>. QED  BY ReplicaInit, <1>1, <1>2, PTL DEF RSpec
=============================================================================
