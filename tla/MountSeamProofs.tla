-------------------------- MODULE MountSeamProofs --------------------------
(***************************************************************************)
(* Proofs about what gets through the seam of the governed mount: writes   *)
(* and their receipts, the lease's expiry, and the bound on a retention    *)
(* tick.  As in MountProofs, for any callers, calls, nodes, leases,        *)
(* policy and faults.                                                      *)
(***************************************************************************)
EXTENDS MountProofs

\* What gate lets through to the backend: an allowed call, never Commit.
ThroughGate ==
  \A p \in Procs : pc[p] = "backend" => call[p].m # "Commit" /\ loc[p].verdict = "allow"

\* LEMMA: a step of a caller other than the five backend calls and the receipt
\* sends nobody to the backend and calls nobody back from it.
LEMMA BackendStays ==
  ASSUME SeamTypeOK, NEW p \in Procs,
         Invoke(p) \/ Step(p) \/ HandleWrite(p) \/ HandleClose(p),
         ~ WriteReceipt(p), ~ OpenBackend(p), ~ RenameBackend(p), ~ RemoveBackend(p),
         ~ LookBackend(p), ~ ChrootBackend(p)
  PROVE  /\ pc[p] # "backend" /\ pc'[p] # "backend"
         /\ \A q \in Procs \ {p} : pc'[q] = pc[q] /\ call'[q] = call[q] /\ loc'[q] = loc[q]
         /\ all' = all
<1>. DEFINE Else == \A q \in Procs \ {p} :
                      pc'[q] = pc[q] /\ call'[q] = call[q] /\ loc'[q] = loc[q]
<1>1. pc \in [Procs -> Labels] /\ loc \in [Procs -> Locals] /\ call \in [Procs -> Call]
  BY DEF SeamTypeOK, CallTypeOK
<1>2. CASE Invoke(p)
  <2>1. PICK c \in CallsOf[p] : /\ call' = [call EXCEPT ![p] = c]
                                /\ pc' = [pc EXCEPT ![p] = FirstStep(c)]
    BY <1>2 DEF Invoke
  <2>2. FirstStep(c) # "backend"
    BY DEF FirstStep
  <2>. QED  BY <1>1, <1>2, <2>1, <2>2 DEF Invoke, logVars, histVars
<1>3. CASE HandleWrite(p) \/ HandleClose(p)
  BY <1>1, <1>3 DEF HandleWrite, HandleClose, procVars, logVars, histVars
<1>4. ASSUME NEW l \in Labels \ {"backend"}, NEW x, Goto(p, l, x), pc[p] # "backend"
      PROVE  /\ pc[p] # "backend" /\ pc'[p] # "backend"
             /\ Else
  BY <1>1, <1>4 DEF Goto
<1>5. CASE Check(p)
  <2>1. \E l \in {"walk", "receipt"} : \E x : Goto(p, l, x)
    BY <1>5 DEF Check
  <2>2. pc[p] = "check" /\ all' = all
    BY <1>5 DEF Check, logVars
  <2>. QED  BY <1>4, <2>1, <2>2 DEF Labels
<1>6. CASE MkdirAll(p) \/ TempFile(p) \/ Symlink(p) \/ Readlink(p)
  <2>1. \E x : Goto(p, "idle", x)
    BY <1>6 DEF MkdirAll, TempFile, Symlink, Readlink, Return
  <2>2. pc[p] = "promoted" /\ all' = all
    BY <1>6 DEF MkdirAll, TempFile, Symlink, Readlink, logVars, histVars
  <2>. QED  BY <1>4, <2>1, <2>2 DEF Labels
<1>7. CASE \/ WalkStart(p) \/ HashFile(p) \/ StatDest(p) \/ CopyStart(p)
           \/ CopyEntry(p) \/ CopyDone(p) \/ SnapshotFails(p) \/ CutShort(p)
  <2>1. \E l \in OwingLabels : \E x : Goto(p, l, x)
    BY <1>7 DEF WalkStart, HashFile, StatDest, CopyStart, CopyEntry, CopyDone,
         SnapshotFails, CutShort, Fail, OwingLabels
  <2>2. pc[p] \in OwingLabels /\ all' = all
    BY <1>7 DEF WalkStart, HashFile, StatDest, CopyStart, CopyEntry, CopyDone,
         SnapshotFails, CutShort, CommitStep, logVars, histVars, OwingLabels
  <2>. QED  BY <1>4, <2>1, <2>2 DEF Labels, OwingLabels
<1>. QED  BY <1>2, <1>3, <1>5, <1>6, <1>7 DEF Step

\* LEMMA: what a backend call does to the caller and the log.
LEMMA BackendCall ==
  ASSUME SeamTypeOK, NEW p \in Procs,
         \/ OpenBackend(p) \/ RenameBackend(p) \/ RemoveBackend(p)
         \/ LookBackend(p) \/ ChrootBackend(p)
  PROVE  /\ pc[p] = "backend" /\ pc' = [pc EXCEPT ![p] = "idle"]
         /\ loc' = [loc EXCEPT ![p] = NoLocals] /\ call' = call
         /\ UNCHANGED <<all, now, versions, ret, lease>>
BY DEF OpenBackend, RenameBackend, RemoveBackend, LookBackend, ChrootBackend,
     BackendDone, Return, Goto, logVars, storeVars

\* LEMMA: what the receipt step does to the caller and the log.
LEMMA ReceiptCall ==
  ASSUME SeamTypeOK, NEW p \in Procs, WriteReceipt(p)
  PROVE  /\ pc[p] = "receipt" /\ call' = call
         /\ all' = Append(all, Sealed(Decision(p)))
         /\ IF loc[p].verdict = "allow" /\ call[p].m # "Commit"
              THEN pc' = [pc EXCEPT ![p] = "backend"] /\ loc' = [loc EXCEPT ![p] = loc[p]]
              ELSE pc' = [pc EXCEPT ![p] = "idle"] /\ loc' = [loc EXCEPT ![p] = NoLocals]
         /\ UNCHANGED <<now, versions, ret, lease, root, handle>>
BY DEF WriteReceipt, AppendReceipt, Goto, Return, storeVars, treeVars

\* LEMMA: only what is allowed gets through to the backend.
LEMMA ThroughGateStep == SeamTypeOK /\ ThroughGate /\ [Next]_vars => ThroughGate'
<1>. SUFFICES ASSUME SeamTypeOK, ThroughGate, [Next]_vars PROVE ThroughGate'
  OBVIOUS
<1>1. pc \in [Procs -> Labels] /\ loc \in [Procs -> Locals] /\ call \in [Procs -> Call]
  BY DEF SeamTypeOK, CallTypeOK
<1>2. ASSUME NEW p \in Procs,
             Invoke(p) \/ Step(p) \/ HandleWrite(p) \/ HandleClose(p)
      PROVE  ThroughGate'
  <2>1. CASE WriteReceipt(p)
    BY <1>1, <2>1, ReceiptCall DEF ThroughGate
  <2>2. CASE \/ OpenBackend(p) \/ RenameBackend(p) \/ RemoveBackend(p)
             \/ LookBackend(p) \/ ChrootBackend(p)
    BY <1>1, <2>2, BackendCall DEF ThroughGate
  <2>. QED  BY <1>2, <2>1, <2>2, BackendStays DEF ThroughGate
<1>3. CASE Restart
  BY <1>3 DEF Restart, ThroughGate
<1>4. CASE Retain \/ Tick \/ StepBack \/ UNCHANGED vars
  BY <1>4 DEF Retain, Tick, StepBack, vars, procVars, ThroughGate
<1>. QED  BY <1>2, <1>3, <1>4 DEF Next

-----------------------------------------------------------------------------
WriteInv == SeamTypeOK /\ ThroughGate /\ IsLog /\ WritesReceipted

\* LEMMA: Commit alone is receipted as a commit.
LEMMA CommitAlone ==
  ASSUME NEW c \in Call
  PROVE  /\ c.m = "Commit" => OpOf(c) = "commit"
         /\ c.m # "Commit" => (IsWrite(OpOf(c)) <=> OpOf(c) = "write")
BY DEF OpOf, IsWrite

\* LEMMA: a receipt appended to the log is one more allowed write, or none.
LEMMA OneMoreReceipt ==
  ASSUME IsLog, NEW r, all' = Append(all, r)
  PROVE  /\ IsLog'
         /\ IsFiniteSet(AllowedWrites) /\ Cardinality(AllowedWrites) \in Nat
         /\ Cardinality(AllowedWrites') =
              IF r.op = "write" /\ r.verdict = "allow"
                THEN Cardinality(AllowedWrites) + 1 ELSE Cardinality(AllowedWrites)
<1>1. PICK R : all \in Seq(R)
  BY DEF IsLog
<1>. DEFINE n == Len(all)
<1>2. /\ n \in Nat /\ all' \in Seq(R \union {r}) /\ Len(all') = n + 1
      /\ \A i \in 1..n : all'[i] = all[i]
      /\ all'[n + 1] = r
  BY <1>1, AppendFacts
<1>3. IsFiniteSet(1..n)
  BY <1>2, FS_Interval
<1>4. IsFiniteSet(AllowedWrites) /\ Cardinality(AllowedWrites) \in Nat
  BY <1>3, FS_Subset, FS_CardinalityType DEF AllowedWrites
<1>5. AllowedWrites' = IF r.op = "write" /\ r.verdict = "allow"
                         THEN AllowedWrites \union {n + 1} ELSE AllowedWrites
  BY <1>2 DEF AllowedWrites
<1>6. n + 1 \notin AllowedWrites
  BY <1>2 DEF AllowedWrites
<1>7. Cardinality(AllowedWrites \union {n + 1}) = Cardinality(AllowedWrites) + 1
  BY <1>4, <1>6, FS_AddElement
<1>8. IsLog'
  BY <1>2 DEF IsLog
<1>. QED  BY <1>4, <1>5, <1>7, <1>8

\* LEMMA: an opened file is the only thing that gives a caller a handle, and
\* one that can be written to only to a caller whose call is a write.
LEMMA HandlesOpened ==
  ASSUME SeamTypeOK, NEW p \in Procs, OpenBackend(p)
  PROVE  /\ Holding' \subseteq Holding \union {p}
         /\ p \notin Writing => Holding' \subseteq Holding
<1>1. /\ pc[p] = "backend" /\ call[p].m \in Opening /\ call[p] \in Call
      /\ handle \in [Procs -> [node : Nodes \union {0}, write : BOOLEAN]]
  BY DEF OpenBackend, SeamTypeOK, CallTypeOK, TreeTypeOK
<1>2. \/ handle' = handle
      \/ \E n : handle' = [handle EXCEPT ![p] =
           [node |-> n, write |-> FlagsOf(call[p]) \intersect {"WRONLY", "RDWR"} # {}]]
  BY DEF OpenBackend
<1>3. Holding' \subseteq Holding \union {p}
  BY <1>1, <1>2 DEF Holding
<1>4. ASSUME p \notin Writing PROVE Holding' \subseteq Holding
  <2>1. ~ IsWrite(OpOf(call[p]))
    BY <1>1, <1>4, CommitAlone DEF Writing, Opening
  <2>2. FlagsOf(call[p]) = {}
    BY <1>1, <2>1, ReadOpensNothing
  <2>. QED  BY <1>1, <1>2, <2>2 DEF Holding
<1>. QED  BY <1>3, <1>4

\* LEMMA: no other step of a caller that keeps to the governed methods opens a
\* file.
LEMMA HandlesStay ==
  ASSUME SeamTypeOK, OnlyGoverned, NEW p \in Procs,
         Invoke(p) \/ Step(p) \/ HandleWrite(p) \/ HandleClose(p), ~ OpenBackend(p)
  PROVE  Holding' \subseteq Holding
<1>1. /\ handle \in [Procs -> [node : Nodes \union {0}, write : BOOLEAN]]
      /\ call[p].m \notin Promoted
  <2>1. NoCall.m \notin Promoted
    BY DEF NoCall, Promoted
  <2>. QED  BY <2>1 DEF SeamTypeOK, CallTypeOK, TreeTypeOK, OnlyGoverned
<1>2. CASE RenameBackend(p)
  <2>1. handle' = handle \/ \E from, to : Relabel(from, to)
    BY <1>2 DEF RenameBackend
  <2>2. ASSUME NEW q \in Procs, NEW from, NEW to, Relabel(from, to), handle'[q].write
        PROVE  handle[q].write
    BY <1>1, <2>2 DEF Relabel, NoHandle
  <2>. QED  BY <2>1, <2>2 DEF Holding
<1>3. CASE RemoveBackend(p)
  BY <1>1, <1>3 DEF RemoveBackend, Holding, NoHandle
<1>4. CASE HandleClose(p)
  BY <1>1, <1>4 DEF HandleClose, Holding, NoHandle
<1>5. CASE Invoke(p) \/ HandleWrite(p) \/ Check(p) \/ WriteReceipt(p)
  BY <1>5 DEF Invoke, HandleWrite, Check, WriteReceipt, treeVars, Holding
<1>6. CASE LookBackend(p) \/ ChrootBackend(p)
  BY <1>6 DEF LookBackend, ChrootBackend, treeVars, Holding
<1>7. CASE \/ WalkStart(p) \/ HashFile(p) \/ StatDest(p) \/ CopyStart(p)
           \/ CopyEntry(p) \/ CopyDone(p) \/ SnapshotFails(p) \/ CutShort(p)
  <2>1. CommitStep(p)
    BY <1>7 DEF WalkStart, HashFile, StatDest, CopyStart, CopyEntry, CopyDone,
         SnapshotFails, CutShort
  <2>. QED  BY <2>1 DEF CommitStep, treeVars, Holding
<1>8. ~ (\/ MkdirAll(p) \/ TempFile(p) \/ Symlink(p) \/ Readlink(p))
  BY <1>1 DEF MkdirAll, TempFile, Symlink, Readlink, Promoted
<1>. QED  BY <1>2, <1>3, <1>4, <1>5, <1>6, <1>7, <1>8 DEF Step

\* LEMMA: the sets the accounts are kept in are finite.
LEMMA AccountsFinite ==
  /\ IsFiniteSet(Writing) /\ Cardinality(Writing) \in Nat
  /\ IsFiniteSet(Holding) /\ Cardinality(Holding) \in Nat
  /\ IsFiniteSet(Writing') /\ Cardinality(Writing') \in Nat
  /\ IsFiniteSet(Holding') /\ Cardinality(Holding') \in Nat
<1>1. /\ Writing \subseteq Procs /\ Holding \subseteq Procs
      /\ Writing' \subseteq Procs /\ Holding' \subseteq Procs
  BY DEF Writing, Holding
<1>. QED  BY <1>1, MountAssumption, FS_Subset, FS_CardinalityType

\* LEMMA: an element more is at most one more.
LEMMA OneMoreAtMost ==
  ASSUME NEW S, IsFiniteSet(S), NEW x
  PROVE  /\ IsFiniteSet(S \union {x}) /\ Cardinality(S \union {x}) \in Nat
         /\ Cardinality(S \union {x}) <= Cardinality(S) + 1
<1>1. Cardinality(S) \in Nat
  BY FS_CardinalityType
<1>2. /\ IsFiniteSet(S \union {x})
      /\ Cardinality(S \union {x}) = IF x \in S THEN Cardinality(S) ELSE Cardinality(S) + 1
  BY FS_AddElement
<1>. QED  BY <1>1, <1>2

\* LEMMA: so are the allowed writes of the log.
LEMMA AllowedFinite ==
  ASSUME IsLog
  PROVE  IsFiniteSet(AllowedWrites) /\ Cardinality(AllowedWrites) \in Nat
<1>1. PICK R : all \in Seq(R)
  BY DEF IsLog
<1>2. IsFiniteSet(1..Len(all))
  BY <1>1, FS_Interval
<1>. QED  BY <1>2, FS_Subset, FS_CardinalityType DEF AllowedWrites

\* LEMMA: a step that appends no receipt, lets no write in and opens no file
\* keeps the accounts.
LEMMA AccountsKept ==
  ASSUME IsLog, WritesReceipted, all' = all, Writing' \subseteq Writing, Holding' \subseteq Holding
  PROVE  WritesReceipted'
<1>1. /\ Cardinality(Writing') <= Cardinality(Writing)
      /\ Cardinality(Holding') <= Cardinality(Holding)
  BY AccountsFinite, FS_Subset
<1>2. AllowedWrites' = AllowedWrites
  BY DEF AllowedWrites
<1>3. ASSUME OnlyGoverned
      PROVE  Cardinality(Writing') + Cardinality(Holding') <= Cardinality(AllowedWrites')
  <2>1. Cardinality(Writing) + Cardinality(Holding) <= Cardinality(AllowedWrites)
    BY <1>3 DEF WritesReceipted
  <2>. QED  BY <1>1, <1>2, <2>1, AccountsFinite, AllowedFinite
<1>. QED  BY <1>3 DEF WritesReceipted, OnlyGoverned

\* THEOREM: through the governed methods nothing is written that is not
\* accounted for: there is an allowed write in the log for each write on its way
\* to the backend and each file open for writing, for any callers and any
\* interleaving of their calls (fs/inceptionfs.go, gate).
THEOREM WritesAreReceipted == Spec => []WritesReceipted
<1>1. Init => WriteInv
  <2>. SUFFICES ASSUME Init PROVE ThroughGate /\ IsLog /\ WritesReceipted
    BY TypeInit DEF WriteInv
  <2>1. all \in Seq({}) /\ Len(all) = 0
    BY DEF Init, LogInit
  <2>2. AllowedWrites = {} /\ Writing = {} /\ Holding = {} /\ ThroughGate
    BY <2>1 DEF Init, AllowedWrites, Writing, Holding, ThroughGate, NoHandle
  <2>3. IsLog
    BY <2>1 DEF IsLog
  <2>. QED  BY <2>2, <2>3, FS_EmptySet DEF WritesReceipted
<1>2. WriteInv /\ [Next]_vars => WriteInv'
  <2>. SUFFICES ASSUME WriteInv, [Next]_vars PROVE IsLog' /\ (OnlyGoverned => WritesReceipted')
    BY TypeNext, ThroughGateStep DEF WriteInv, WritesReceipted, OnlyGoverned
  <2>1. /\ SeamTypeOK /\ ThroughGate /\ IsLog /\ WritesReceipted
        /\ pc \in [Procs -> Labels] /\ loc \in [Procs -> Locals]
        /\ call \in [Procs -> Call]
    BY DEF WriteInv, SeamTypeOK, CallTypeOK
  <2>2. CASE all' = all /\ Writing' \subseteq Writing
             /\ (OnlyGoverned => Holding' \subseteq Holding)
    BY <2>1, <2>2, AccountsKept DEF IsLog
  <2>4. ASSUME NEW p \in Procs, WriteReceipt(p)
        PROVE  IsLog' /\ WritesReceipted'
    <3>. DEFINE r == Sealed(Decision(p))
                through == loc[p].verdict = "allow" /\ call[p].m # "Commit"
                counted == r.op = "write" /\ r.verdict = "allow"
    <3>1. r.op = OpOf(call[p]) /\ r.verdict = loc[p].verdict
      BY SealedFacts DEF Decision
    <3>2. counted => through
      BY <2>1, <3>1, CommitAlone
    <3>3. /\ pc[p] = "receipt" /\ call' = call /\ handle' = handle
          /\ all' = Append(all, r)
          /\ pc' = [pc EXCEPT ![p] = IF through THEN "backend" ELSE "idle"]
      BY <2>1, <2>4, ReceiptCall
    <3>4. p \notin Writing /\ Writing' = IF counted THEN Writing \union {p} ELSE Writing
      <4>1. p \notin Writing
        BY <3>3 DEF Writing
      <4>2. ASSUME NEW q \in Procs
            PROVE  q \in Writing' <=> (q \in Writing \/ (q = p /\ counted))
        <5>1. CASE q # p
          BY <2>1, <3>3, <5>1 DEF Writing
        <5>2. CASE q = p
          BY <2>1, <3>1, <3>2, <3>3, <5>2 DEF Writing
        <5>. QED  BY <5>1, <5>2
      <4>3. Writing' \subseteq Procs /\ Writing \subseteq Procs
        BY DEF Writing
      <4>. QED  BY <4>1, <4>2, <4>3
    <3>5. /\ IsLog' /\ Cardinality(AllowedWrites) \in Nat
          /\ Cardinality(AllowedWrites') =
               IF counted THEN Cardinality(AllowedWrites) + 1 ELSE Cardinality(AllowedWrites)
      BY <2>1, <3>3, OneMoreReceipt
    <3>6. Cardinality(Writing') =
            IF counted THEN Cardinality(Writing) + 1 ELSE Cardinality(Writing)
      BY <3>4, AccountsFinite, FS_AddElement
    <3>7. Holding' = Holding
      BY <3>3 DEF Holding
    <3>. HIDE DEF counted
    <3>8. OnlyGoverned =>
            Cardinality(Writing) + Cardinality(Holding) <= Cardinality(AllowedWrites)
      BY <2>1 DEF WritesReceipted
    <3>9. OnlyGoverned =>
            Cardinality(Writing') + Cardinality(Holding') <= Cardinality(AllowedWrites')
      BY <3>5, <3>6, <3>7, <3>8, AccountsFinite
    <3>. QED  BY <3>5, <3>9 DEF WritesReceipted, OnlyGoverned
  <2>5. ASSUME NEW p \in Procs, OnlyGoverned,
               \/ OpenBackend(p) \/ RenameBackend(p) \/ RemoveBackend(p)
               \/ LookBackend(p) \/ ChrootBackend(p)
        PROVE  WritesReceipted'
    <3>1. pc[p] = "backend" /\ pc' = [pc EXCEPT ![p] = "idle"] /\ call' = call /\ all' = all
      BY <2>1, <2>5, BackendCall
    <3>2. Writing' = Writing \ {p}
      BY <2>1, <3>1 DEF Writing
    <3>3. CASE p \in Writing /\ OpenBackend(p)
      <4>1. Cardinality(Writing') = Cardinality(Writing) - 1
        BY <3>2, <3>3, AccountsFinite, FS_RemoveElement
      <4>2. Holding' \subseteq Holding \union {p}
        BY <2>1, <3>3, HandlesOpened
      <4>3. /\ IsFiniteSet(Holding \union {p})
            /\ Cardinality(Holding \union {p}) <= Cardinality(Holding) + 1
        BY AccountsFinite, OneMoreAtMost
      <4>4. Cardinality(Holding') <= Cardinality(Holding) + 1
        <5>1. /\ Cardinality(Holding') <= Cardinality(Holding \union {p})
              /\ Cardinality(Holding \union {p}) \in Nat
          BY <4>2, <4>3, FS_Subset, FS_CardinalityType
        <5>. QED  BY <4>3, <5>1, AccountsFinite
      <4>5. AllowedWrites' = AllowedWrites /\ Cardinality(AllowedWrites) \in Nat
        <5>1. AllowedWrites' = AllowedWrites
          BY <3>1 DEF AllowedWrites
        <5>. QED  BY <2>1, <5>1, AllowedFinite
      <4>6. Cardinality(Writing) + Cardinality(Holding) <= Cardinality(AllowedWrites)
        BY <2>1, <2>5 DEF WritesReceipted
      <4>7. Cardinality(Writing') + Cardinality(Holding') <= Cardinality(AllowedWrites')
        BY <4>1, <4>4, <4>5, <4>6, AccountsFinite
      <4>. QED  BY <4>7 DEF WritesReceipted
    <3>4. CASE ~ (p \in Writing /\ OpenBackend(p))
      <4>1. Holding' \subseteq Holding
        BY <2>1, <2>5, <3>4, HandlesOpened, HandlesStay DEF Step
      <4>. QED  BY <2>1, <3>1, <3>2, <4>1, AccountsKept
    <3>. QED  BY <3>3, <3>4
  <2>6. ASSUME NEW p \in Procs,
               Invoke(p) \/ Step(p) \/ HandleWrite(p) \/ HandleClose(p)
        PROVE  IsLog' /\ (OnlyGoverned => WritesReceipted')
    <3>1. ASSUME ~ WriteReceipt(p), ~ OpenBackend(p), ~ RenameBackend(p),
                 ~ RemoveBackend(p), ~ LookBackend(p), ~ ChrootBackend(p)
          PROVE  /\ all' = all /\ Writing' \subseteq Writing
                 /\ OnlyGoverned => Holding' \subseteq Holding
      <4>1. all' = all /\ Writing' = Writing
        BY <2>1, <2>6, <3>1, BackendStays DEF Writing
      <4>. QED  BY <2>1, <2>6, <3>1, <4>1, HandlesStay
    <3>2. CASE \/ OpenBackend(p) \/ RenameBackend(p) \/ RemoveBackend(p)
               \/ LookBackend(p) \/ ChrootBackend(p)
      <4>1. IsLog'
        BY <2>1, <3>2, BackendCall DEF IsLog
      <4>. QED  BY <2>5, <3>2, <4>1
    <3>. QED  BY <2>2, <2>4, <3>1, <3>2
  <2>7. CASE Restart
    <3>1. all' \in Seq({}) /\ Len(all') = 0
      BY <2>7 DEF Restart
    <3>2. Writing' = {} /\ AllowedWrites' = {} /\ Holding' = {}
      BY <2>7, <3>1 DEF Restart, Writing, AllowedWrites, Holding, NoHandle
    <3>3. IsLog'
      BY <3>1 DEF IsLog
    <3>. QED  BY <3>2, <3>3, FS_EmptySet DEF WritesReceipted
  <2>8. CASE Retain \/ Tick \/ StepBack \/ UNCHANGED vars
    <3>1. all' = all /\ Writing' = Writing /\ Holding' = Holding
      BY <2>8 DEF Retain, Tick, StepBack, vars, logVars, procVars, treeVars, Writing, Holding
    <3>. QED  BY <2>2, <3>1
  <2>. QED  BY <2>6, <2>7, <2>8 DEF Next
<1>3. WriteInv => WritesReceipted
  BY DEF WriteInv
<1>. QED  BY <1>1, <1>2, <1>3, PTL DEF Spec

-----------------------------------------------------------------------------
\* What stays shut once the lease has lapsed, and what a step may do then.
Closed == Drained' /\ root' = root /\ DOMAIN versions' \subseteq Held

\* LEMMA: the membrane lets nothing in under a lease that has lapsed
\* (Membrane.Check).
LEMMA LapsedRefuses ==
  ASSUME SeamTypeOK, Lapsed, NEW op
  PROVE  ~ Allows(lease, op, now)
<1>1. now \in Nat /\ lease.expiry \in Nat
  BY MountAssumption DEF SeamTypeOK, Lapsed, Lease
<1>. QED  BY <1>1 DEF Lapsed, Allows

\* LEMMA: under a lapsed lease no step of a caller lets a write in, changes the
\* tree or freezes anything.
LEMMA ClosedToCallers ==
  ASSUME SeamTypeOK, ThroughGate, OnlyGoverned, Lapsed, Drained, NEW p \in Procs,
         Invoke(p) \/ Step(p) \/ HandleWrite(p) \/ HandleClose(p)
  PROVE  Drained' /\ root' = root /\ versions' = versions
<1>1. /\ call[p] \in Call /\ pc \in [Procs -> Labels] /\ loc \in [Procs -> Locals]
      /\ handle \in [Procs -> [node : Nodes \union {0}, write : BOOLEAN]]
      /\ call \in [Procs -> Call]
      /\ call[p].m \notin Promoted
  <2>1. NoCall.m \notin Promoted
    BY DEF NoCall, Promoted
  <2>. QED  BY <2>1 DEF SeamTypeOK, CallTypeOK, TreeTypeOK, OnlyGoverned
<1>2. CASE Invoke(p)
  <2>1. PICK c \in CallsOf[p] : /\ call' = [call EXCEPT ![p] = c]
                                /\ pc' = [pc EXCEPT ![p] = FirstStep(c)]
    BY <1>2 DEF Invoke
  <2>2. FirstStep(c) \in {"idle", "check"}
    BY DEF FirstStep, OnlyGoverned
  <2>. QED  BY <1>1, <1>2, <2>1, <2>2 DEF Invoke, Drained, LetIn, treeVars, storeVars
<1>3. CASE Check(p)
  <2>1. ~ Allows(lease, OpOf(call[p]), now)
    BY LapsedRefuses
  <2>2. Goto(p, "receipt", [NoLocals EXCEPT !.verdict = "deny"])
    BY <1>3, <2>1 DEF Check
  <2>3. UNCHANGED <<root, versions, handle>>
    BY <1>3 DEF Check, treeVars, storeVars
  <2>. QED  BY <1>1, <2>2, <2>3 DEF Goto, NoLocals, Drained, LetIn
<1>4. CASE WriteReceipt(p)
  <2>1. loc[p].verdict = "allow" => ~ IsWrite(OpOf(call[p]))
    BY <1>4 DEF WriteReceipt, Drained, LetIn
  <2>2. \/ Goto(p, "backend", loc[p])
        \/ Goto(p, "idle", NoLocals)
    BY <1>4 DEF WriteReceipt, Return
  <2>3. UNCHANGED <<root, versions, handle>>
    BY <1>4 DEF WriteReceipt, treeVars, storeVars
  <2>. QED  BY <1>1, <2>1, <2>2, <2>3 DEF Goto, Drained, LetIn
<1>5. CASE \/ OpenBackend(p) \/ RenameBackend(p) \/ RemoveBackend(p)
           \/ LookBackend(p) \/ ChrootBackend(p)
  <2>1. pc[p] = "backend" /\ ~ IsWrite(OpOf(call[p]))
    BY <1>5, BackendCall DEF ThroughGate, Drained, LetIn
  <2>2. /\ call[p].m \in Opening => FlagsOf(call[p]) = {}
        /\ call[p].m \notin {"Rename", "Remove"}
    BY <1>1, <2>1, ReadOpensNothing
  <2>3. /\ pc' = [pc EXCEPT ![p] = "idle"] /\ loc' = [loc EXCEPT ![p] = NoLocals]
        /\ call' = call /\ versions' = versions
    BY <1>5, BackendCall
  <2>4. CASE OpenBackend(p)
    <3>1. FlagsOf(call[p]) = {}
      BY <2>2, <2>4 DEF OpenBackend
    <3>2. \/ UNCHANGED <<root, handle>>
          \/ /\ root' = root
             /\ \E n : handle' = [handle EXCEPT ![p] = [node |-> n, write |-> FALSE]]
      BY <2>4, <3>1 DEF OpenBackend
    <3>. QED  BY <1>1, <2>3, <3>2 DEF Drained, LetIn
  <2>5. CASE LookBackend(p) \/ ChrootBackend(p)
    <3>1. UNCHANGED <<root, handle>>
      BY <2>5 DEF LookBackend, ChrootBackend, treeVars
    <3>. QED  BY <1>1, <2>3, <3>1 DEF Drained, LetIn
  <2>. QED  BY <1>5, <2>2, <2>4, <2>5 DEF RenameBackend, RemoveBackend
<1>6. CASE HandleClose(p)
  BY <1>1, <1>6 DEF HandleClose, Drained, LetIn, procVars, storeVars, NoHandle
<1>7. ~ HandleWrite(p)
  BY DEF HandleWrite, Drained
<1>8. ~ (\/ MkdirAll(p) \/ TempFile(p) \/ Symlink(p) \/ Readlink(p))
  BY <1>1 DEF MkdirAll, TempFile, Symlink, Readlink, Promoted
<1>9. ~ (\/ WalkStart(p) \/ HashFile(p) \/ StatDest(p)
         \/ CopyStart(p) \/ CopyEntry(p) \/ CopyDone(p) \/ SnapshotFails(p) \/ CutShort(p))
  BY DEF WalkStart, HashFile, StatDest, CopyStart, CopyEntry, CopyDone, SnapshotFails, CutShort,
       Drained, LetIn
<1>. QED  BY <1>2, <1>3, <1>4, <1>5, <1>6, <1>7, <1>8, <1>9 DEF Step

\* LEMMA: the retention loop only takes versions away (retention.go).
LEMMA RetainOnlyTakes ==
  ASSUME RetainStep
  PROVE  DOMAIN versions' \subseteq Held
BY DEF RetainStep, StartRetain, TickList, PruneOne, TickEnd, ListFails, PruneFails,
     Without, Held

\* THEOREM: once the lease has expired and the writes let in before are
\* through, the governed methods change nothing and freeze nothing for as long
\* as the clock reads past the expiry (fs/governance.go, Membrane.Check and the
\* lease's hard expiry).
THEOREM ExpiryShutsMount == Spec => ExpiryCloses
<1>1. Init => SeamTypeOK /\ ThroughGate
  BY TypeInit DEF Init, ThroughGate
<1>2. SeamTypeOK /\ ThroughGate /\ [Next]_vars => (SeamTypeOK /\ ThroughGate)'
  BY TypeNext, ThroughGateStep
<1>3. SeamTypeOK /\ ThroughGate /\ [Next]_vars
        => [OnlyGoverned /\ Lapsed /\ Drained => Closed]_vars
  <2>. SUFFICES ASSUME SeamTypeOK, ThroughGate, [Next]_vars, OnlyGoverned, Lapsed, Drained
                PROVE  Closed
    OBVIOUS
  <2>2. CASE \E p \in Procs : Invoke(p) \/ Step(p) \/ HandleWrite(p) \/ HandleClose(p)
    BY <2>2, ClosedToCallers DEF Closed, Held
  <2>3. CASE Retain
    <3>1. UNCHANGED <<root, handle, pc, call, loc>>
      BY <2>3 DEF Retain, treeVars, procVars
    <3>2. DOMAIN versions' \subseteq Held
      BY <2>3, RetainOnlyTakes DEF Retain
    <3>. QED  BY <3>1, <3>2 DEF Closed, Drained, LetIn
  <2>4. CASE Restart
    BY <2>4 DEF Restart, Closed, Drained, LetIn, Held, storeVars, NoHandle
  <2>5. CASE Tick \/ StepBack \/ UNCHANGED vars
    BY <2>5 DEF Tick, StepBack, vars, Closed, Drained, LetIn, Held, storeVars, treeVars, procVars
  <2>. QED  BY <2>2, <2>3, <2>4, <2>5 DEF Next
<1>. QED  BY <1>1, <1>2, <1>3, PTL DEF Spec, ExpiryCloses, Closed
=============================================================================
