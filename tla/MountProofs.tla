---------------------------- MODULE MountProofs ----------------------------
(***************************************************************************)
(* Proofs about the governed mount for any number of callers, calls,       *)
(* nodes and leases, any retention policy and any choice of faults.        *)
(***************************************************************************)
EXTENDS MountProperties, FiniteSetTheorems, WellFoundedInduction, TLAPS

\* The log is a sequence, of receipts whose kind does not matter.
IsLog == \E R : all \in Seq(R)

\* last is the hash at the head of the chain: what append relies on.
HeadIsLast == last = IF all = <<>> THEN NoHash ELSE all[Len(all)].hash

ChainInv == IsLog /\ HeadIsLast /\ ChainVerifies

-----------------------------------------------------------------------------
\* LEMMA: what a step does to the log.  It appends the receipt of one call,
\* empties the log (a restart), or leaves it.
LEMMA LogSteps ==
  ASSUME [Next]_vars
  PROVE  \/ UNCHANGED logVars
         \/ \E p \in Procs : WriteReceipt(p) /\ AppendReceipt(Decision(p))
         \/ all' = <<>> /\ last' = NoHash
<1>1. CASE UNCHANGED vars
  BY <1>1 DEF vars, logVars
<1>2. CASE Tick \/ StepBack
  BY <1>2 DEF Tick, StepBack
<1>3. CASE Restart
  BY <1>3 DEF Restart
<1>4. CASE Retain
  BY <1>4 DEF Retain
<1>5. ASSUME NEW p \in Procs, WriteReceipt(p)
      PROVE  AppendReceipt(Decision(p))
  BY <1>5 DEF WriteReceipt
<1>6. ASSUME NEW p \in Procs,
             Invoke(p) \/ Step(p) \/ HandleWrite(p) \/ HandleClose(p),
             ~ WriteReceipt(p)
      PROVE  UNCHANGED logVars
  BY <1>6 DEF Step, Invoke, HandleWrite, HandleClose, Check, OpenBackend,
       RenameBackend, RemoveBackend, LookBackend, ChrootBackend, BackendDone,
       MkdirAll, TempFile, Symlink, Readlink, WalkStart, HashFile, StatDest,
       CopyStart, CopyEntry, CopyDone, SnapshotFails, CutShort, CommitStep
<1>. QED  BY <1>1, <1>2, <1>3, <1>4, <1>5, <1>6 DEF Next

\* LEMMA: appending to a sequence, whatever it holds.
LEMMA AppendFacts ==
  ASSUME NEW R, NEW s \in Seq(R), NEW r
  PROVE  /\ Append(s, r) \in Seq(R \union {r})
         /\ Len(Append(s, r)) = Len(s) + 1
         /\ Len(s) \in Nat
         /\ \A i \in 1..Len(s) : Append(s, r)[i] = s[i]
         /\ Append(s, r)[Len(s) + 1] = r
         /\ Append(s, r) # <<>>
<1>1. s \in Seq(R \union {r})
  OBVIOUS
<1>2. Append(s, r) \in Seq(R \union {r}) /\ Len(Append(s, r)) = Len(s) + 1
  BY <1>1
<1>3. /\ Len(s) \in Nat
      /\ \A i \in 1..Len(s) : Append(s, r)[i] = s[i]
      /\ Append(s, r)[Len(s) + 1] = r
  BY <1>1
<1>4. Append(s, r) # <<>>
  BY <1>2, <1>3
<1>. QED  BY <1>2, <1>3, <1>4

\* LEMMA: a sealed receipt hashes its own fields (governance.go, append).
LEMMA SealedFacts ==
  ASSUME NEW d
  PROVE  /\ Sealed(d).seq = Len(all) /\ Sealed(d).prev = last
         /\ Sealed(d).ts = d.ts
         /\ Sealed(d).op = d.op /\ Sealed(d).verdict = d.verdict
         /\ Sealed(d).hash = Sha256(Payload(Sealed(d)))
BY DEF Sealed, Payload, Sha256

\* LEMMA: append keeps the chain (governance.go, append against Verify).
LEMMA AppendKeepsChain ==
  ASSUME ChainInv, NEW d, AppendReceipt(d)
  PROVE  ChainInv'
<1>1. PICK R : all \in Seq(R)
  BY DEF ChainInv, IsLog
<1>. DEFINE n == Len(all)
            r == Sealed(d)
<1>2. all' = Append(all, r) /\ last' = r.hash
  BY DEF AppendReceipt
<1>3. /\ all' \in Seq(R \union {r}) /\ n \in Nat /\ Len(all') = n + 1
      /\ \A i \in 1..n : all'[i] = all[i]
      /\ all'[n + 1] = r /\ all' # <<>>
  BY <1>1, <1>2, AppendFacts
<1>4. IsLog' /\ HeadIsLast'
  BY <1>2, <1>3 DEF IsLog, HeadIsLast
<1>5. r.prev = (IF n = 0 THEN NoHash ELSE all[n].hash)
  <2>1. (all = <<>>) <=> n = 0
    BY <1>1
  <2>. QED  BY <2>1, SealedFacts DEF ChainInv, HeadIsLast
<1>6. ASSUME NEW i \in 1..Len(all')
      PROVE  /\ all'[i].prev = (IF i = 1 THEN NoHash ELSE all'[i - 1].hash)
             /\ all'[i].hash = Sha256(Payload(all'[i]))
             /\ all'[i].seq = i - 1
  <2>1. CASE i \in 1..n
    <3>1. i = 1 \/ i - 1 \in 1..n
      BY <2>1, <1>3
    <3>. QED  BY <2>1, <3>1, <1>3 DEF ChainInv, ChainVerifies, Verify, Verifies, Verifies
  <2>2. CASE i = n + 1
    <3>1. i - 1 = n /\ (i = 1 <=> n = 0)
      BY <2>2, <1>3
    <3>2. n = 0 \/ n \in 1..n
      BY <1>3
    <3>. QED  BY <2>2, <3>1, <3>2, <1>3, <1>5, SealedFacts
  <2>. QED  BY <2>1, <2>2, <1>3
<1>. QED  BY <1>4, <1>6 DEF ChainInv, ChainVerifies, Verify, Verifies, Payload, Sha256

\* THEOREM: Verify returns nil in every reachable state, and the sequence
\* numbers have no gap (governance.go, append and Verify).
THEOREM ChainAlwaysVerifies == Spec => []ChainVerifies
<1>1. Init => ChainInv
  <2>. SUFFICES ASSUME Init PROVE ChainInv
    OBVIOUS
  <2>1. all = <<>> /\ last = NoHash
    BY DEF Init, LogInit
  <2>2. all \in Seq({}) /\ Len(all) = 0
    BY <2>1
  <2>. QED  BY <2>1, <2>2 DEF ChainInv, IsLog, HeadIsLast, ChainVerifies, Verify, Verifies, Verifies
<1>2. ChainInv /\ [Next]_vars => ChainInv'
  <2>. SUFFICES ASSUME ChainInv, [Next]_vars PROVE ChainInv'
    OBVIOUS
  <2>1. CASE UNCHANGED logVars
    BY <2>1 DEF logVars, ChainInv, IsLog, HeadIsLast, ChainVerifies, Verify, Verifies,
         Payload, Sha256
  <2>2. CASE \E d : AppendReceipt(d)
    BY <2>2, AppendKeepsChain
  <2>3. CASE all' = <<>> /\ last' = NoHash
    <3>1. all' \in Seq({}) /\ Len(all') = 0
      BY <2>3
    <3>. QED  BY <2>3, <3>1 DEF ChainInv, IsLog, HeadIsLast, ChainVerifies, Verify, Verifies, Verifies
  <2>. QED  BY <2>1, <2>2, <2>3, LogSteps
<1>3. ChainInv => ChainVerifies
  BY DEF ChainInv
<1>. QED  BY <1>1, <1>2, <1>3, PTL DEF Spec

-----------------------------------------------------------------------------
\* LEMMA: the name a call gives stands for a node of the tree.
LEMMA NodeType ==
  ASSUME CallTypeOK, NEW p \in Procs
  PROVE  Node(p) \in Nodes /\ ToNode(p) \in Nodes
<1>1. CASE call[p] = NoCall
  BY <1>1, MountAssumption DEF Node, ToNode, NodeOf, NoCall, Nodes
<1>2. CASE call[p] \in CallsOf[p]
  BY <1>2, MountAssumption DEF Node, ToNode
<1>. QED  BY <1>1, <1>2 DEF CallTypeOK

\* LEMMA: links lead to nodes of the tree.
LEMMA FollowType ==
  ASSUME NEW n \in Nodes, NEW m \in Follow(n)
  PROVE  m \in Nodes
BY MountAssumption DEF Follow

\* LEMMA: a walk's next name is one of those it has yet to visit.
LEMMA FirstIsMember ==
  ASSUME NEW S \in SUBSET Nodes, S # {}
  PROVE  First(S) \in S
<1>1. S \subseteq Nat
  BY MountAssumption DEF Nodes
<1>2. \E n \in S : \A k \in S : ~ (<<k, n>> \in OpToRel(<, Nat))
  BY <1>1, NatLessThanWellFounded, WFMin
<1>3. \A k, n \in Nat : k < n => <<k, n>> \in OpToRel(<, Nat)
  BY DEF OpToRel
<1>4. \A k, n \in Nat : k < n \/ n <= k
  OBVIOUS
<1>5. \E n \in S : \A k \in S : n <= k
  BY <1>1, <1>2, <1>3, <1>4, Zenon
<1>. QED  BY <1>5 DEF First

\* LEMMA: adding a file to a tree gives a tree.
LEMMA WithType ==
  ASSUME NEW t \in Trees, NEW n \in Nodes, NEW c \in Files \union [through : Files]
  PROVE  With(t, n, c) \in Trees
<1>1. PICK S \in SUBSET Nodes : t \in [S -> Files \union [through : Files]]
  BY DEF Trees
<1>2. With(t, n, c) \in [S \union {n} -> Files \union [through : Files]]
  BY <1>1 DEF With
<1>. QED  BY <1>1, <1>2 DEF Trees

\* LEMMA: no locals are locals.
LEMMA NoLocalsType ==
  /\ NoLocals \in Locals
  /\ \A v \in {"none", "allow", "deny", "error"} :
       [NoLocals EXCEPT !.verdict = v] \in Locals
<1>1. NoFiles \in [{} -> Files \union [through : Files]]
  BY DEF NoFiles
<1>2. NoFiles \in Trees
  BY <1>1 DEF Trees
<1>. QED  BY <1>2 DEF NoLocals, Locals

\* LEMMA: going on to a step of the same call keeps the caller typed.
LEMMA GotoType ==
  ASSUME CallTypeOK, NEW p \in Procs, NEW l \in Labels, NEW x \in Locals,
         Goto(p, l, x),
         l \in {"receipt", "backend"} => x.verdict # "none",
         l \in {"walk", "hash", "mkdir", "copy"} => x.verdict = "allow"
  PROVE  CallTypeOK'
BY DEF CallTypeOK, Goto

\* LEMMA: a call that returns, or fails, leaves the caller typed.
LEMMA ReturnType ==
  ASSUME CallTypeOK, NEW p \in Procs, Return(p) \/ Fail(p)
  PROVE  CallTypeOK'
<1>1. CASE Return(p)
  BY <1>1, GotoType, NoLocalsType DEF Return, Labels
<1>2. CASE Fail(p)
  <2>1. [NoLocals EXCEPT !.verdict = "error"].verdict = "error"
    BY DEF NoLocals
  <2>. QED  BY <1>2, <2>1, GotoType, NoLocalsType DEF Fail, Labels
<1>. QED  BY <1>1, <1>2

\* LEMMA: the steps of a call, one by one, keep the caller typed.
LEMMA CallSteps ==
  ASSUME SeamTypeOK, NEW p \in Procs, Invoke(p) \/ Step(p)
  PROVE  CallTypeOK'
<1>. USE DEF SeamTypeOK
<1>1. CASE Invoke(p)
  <2>1. PICK c \in CallsOf[p] : /\ call' = [call EXCEPT ![p] = c]
                                /\ pc' = [pc EXCEPT ![p] = FirstStep(c)]
    BY <1>1 DEF Invoke
  <2>2. c \in Call /\ loc' = loc
    BY <1>1, MountAssumption DEF Invoke
  <2>3. pc'[p] \in {"promoted", "idle", "check"} /\ pc' \in [Procs -> Labels]
    BY <2>1 DEF CallTypeOK, Labels, FirstStep
  <2>. QED  BY <2>1, <2>2, <2>3 DEF CallTypeOK
<1>2. CASE Check(p)
  <2>1. PICK l \in {"walk", "receipt"}, v \in {"allow", "deny"} :
          Goto(p, l, [NoLocals EXCEPT !.verdict = v]) /\ (l = "walk" => v = "allow")
    BY <1>2 DEF Check
  <2>2. [NoLocals EXCEPT !.verdict = v].verdict = v
    BY DEF NoLocals
  <2>. QED  BY <2>1, <2>2, GotoType, NoLocalsType DEF Labels
<1>3. CASE WriteReceipt(p)
  <2>1. CASE Return(p)
    BY <2>1, ReturnType
  <2>2. CASE Goto(p, "backend", loc[p]) /\ loc[p].verdict = "allow"
    BY <2>2, GotoType DEF Labels, CallTypeOK
  <2>. QED  BY <1>3, <2>1, <2>2 DEF WriteReceipt
<1>4. CASE \/ OpenBackend(p) \/ RenameBackend(p) \/ RemoveBackend(p)
           \/ LookBackend(p) \/ ChrootBackend(p)
           \/ MkdirAll(p) \/ TempFile(p) \/ Symlink(p) \/ Readlink(p)
  BY <1>4, ReturnType DEF OpenBackend, RenameBackend, RemoveBackend, LookBackend,
       ChrootBackend, BackendDone, MkdirAll, TempFile, Symlink, Readlink
<1>5. loc[p] \in Locals /\ Present \in SUBSET Nodes
  BY DEF CallTypeOK, Present
<1>6. CASE WalkStart(p) \/ CopyStart(p)
  <2>1. [loc[p] EXCEPT !.todo = Present] \in Locals
    BY <1>5 DEF Locals
  <2>2. [loc[p] EXCEPT !.todo = Present].verdict = "allow"
    BY <1>5, <1>6 DEF WalkStart, CopyStart, CallTypeOK, Locals
  <2>. QED  BY <1>6, <2>1, <2>2, GotoType DEF WalkStart, CopyStart, Labels
<1>7. CASE HashFile(p)
  <2>. DEFINE n == First(loc[p].todo)
  <2>1. n \in Nodes
    BY <1>5, <1>7, FirstIsMember DEF HashFile, Locals
  <2>2. CASE Fail(p)
    BY <2>2, ReturnType
  <2>3. CASE ~ Fail(p)
    <3>1. PICK m \in Follow(n) :
            /\ ~ Unreadable(n, m)
            /\ Goto(p, "hash",
                    [loc[p] EXCEPT !.todo = @ \ {n},
                       !.tree = IF Counts(root[n]) THEN With(@, n, Hashed(n, m)) ELSE @])
      BY <1>7, <2>3 DEF HashFile
    <3>. DEFINE t == IF Counts(root[n]) THEN With(loc[p].tree, n, Hashed(n, m))
                                        ELSE loc[p].tree
                x == [loc[p] EXCEPT !.todo = @ \ {n}, !.tree = t]
    <3>2. Counts(root[n]) => Hashed(n, m) \in Files \union [through : Files]
      BY <3>1 DEF Unreadable, Counts, Hashed
    <3>3. t \in Trees
      BY <1>5, <2>1, <3>2, WithType DEF Locals
    <3>4. x \in Locals /\ x.verdict = "allow"
      BY <1>5, <1>7, <3>3 DEF Locals, HashFile, CallTypeOK
    <3>5. Goto(p, "hash", x)
      BY <3>1, <1>5 DEF Locals
    <3>. QED  BY <3>4, <3>5, GotoType DEF Labels
  <2>. QED  BY <2>2, <2>3
<1>8. CASE StatDest(p) \/ CopyDone(p)
  <2>1. loc[p].verdict = "allow"
    BY <1>8 DEF StatDest, CopyDone, CallTypeOK
  <2>. QED  BY <1>8, <1>5, <2>1, GotoType DEF StatDest, CopyDone, Labels
<1>9. CASE CopyEntry(p)
  <2>1. CASE Fail(p)
    BY <2>1, ReturnType
  <2>2. CASE \E n : Goto(p, "copy", [loc[p] EXCEPT !.todo = @ \ {n}])
    <3>1. loc[p].verdict = "allow"
      BY <1>9 DEF CopyEntry, CallTypeOK
    <3>2. \A n : /\ [loc[p] EXCEPT !.todo = @ \ {n}] \in Locals
                 /\ [loc[p] EXCEPT !.todo = @ \ {n}].verdict = "allow"
      BY <1>5, <3>1 DEF Locals
    <3>. QED  BY <2>2, <3>2, GotoType DEF Labels
  <2>. QED  BY <1>9, <2>1, <2>2 DEF CopyEntry
<1>10. CASE SnapshotFails(p) \/ CutShort(p)
  BY <1>10, ReturnType DEF SnapshotFails, CutShort
<1>. QED  BY <1>1, <1>2, <1>3, <1>4, <1>6, <1>7, <1>8, <1>9, <1>10 DEF Step

\* LEMMA: every step keeps the tree, the handles and the mounts typed.
LEMMA TreeSteps ==
  ASSUME SeamTypeOK, NEW p \in Procs,
         Invoke(p) \/ Step(p) \/ HandleWrite(p) \/ HandleClose(p)
  PROVE  TreeTypeOK'
<1>. USE DEF SeamTypeOK
<1>1. Node(p) \in Nodes /\ ToNode(p) \in Nodes /\ 0 \notin Nodes
  BY NodeType, MountAssumption DEF Nodes
<1>2. {Empty, Dir, Absent} \subseteq Entries /\ Data \subseteq Entries
  BY DEF Entries, Files
<1>3. CASE OpenBackend(p)
  <2>. DEFINE w == FlagsOf(call[p]) \intersect {"WRONLY", "RDWR"} # {}
  <2>1. w \in BOOLEAN
    OBVIOUS
  <2>2. PICK n \in Nodes :
        \/ UNCHANGED <<root, handle>>
        \/ /\ root' \in {root, [root EXCEPT ![n] = Empty]}
           /\ handle' = [handle EXCEPT ![p] = [node |-> n, write |-> w]]
    BY <1>1, <1>3, FollowType DEF OpenBackend
  <2>3. root' \in [Nodes -> Entries]
    BY <1>1, <1>2, <2>2 DEF TreeTypeOK
  <2>4. handle' \in [Procs -> [node : Nodes \union {0}, write : BOOLEAN]]
    <3>. HIDE DEF w
    <3>. QED  BY <2>1, <2>2 DEF TreeTypeOK
  <2>. QED  BY <1>3, <2>3, <2>4 DEF OpenBackend, TreeTypeOK
<1>4. CASE RenameBackend(p)
  <2>. DEFINE old == Node(p)
              new == ToNode(p)
  <2>1. CASE UNCHANGED <<root, handle>>
    BY <1>4, <2>1 DEF RenameBackend, TreeTypeOK
  <2>2. CASE /\ root' = [root EXCEPT ![new] = root[old], ![old] = Absent]
             /\ Relabel(old, new)
    <3>1. root' \in [Nodes -> Entries]
      BY <1>1, <1>2, <2>2 DEF TreeTypeOK
    <3>2. ASSUME NEW q \in Procs
          PROVE  handle'[q] \in [node : Nodes \union {0}, write : BOOLEAN]
      BY <1>1, <2>2 DEF TreeTypeOK, Relabel, NoHandle
    <3>3. handle' \in [Procs -> [node : Nodes \union {0}, write : BOOLEAN]]
      BY <3>2, <2>2 DEF Relabel
    <3>. QED  BY <1>4, <3>1, <3>3 DEF RenameBackend, TreeTypeOK
  <2>. QED  BY <1>4, <2>1, <2>2 DEF RenameBackend
<1>5. CASE RemoveBackend(p)
  BY <1>1, <1>2, <1>5 DEF RemoveBackend, TreeTypeOK, NoHandle
<1>6. CASE LookBackend(p) \/ ChrootBackend(p)
  BY <1>6 DEF LookBackend, ChrootBackend, TreeTypeOK, treeVars
<1>7. CASE MkdirAll(p)
  BY <1>1, <1>2, <1>7 DEF MkdirAll, TreeTypeOK
<1>8. CASE TempFile(p)
  BY <1>2, <1>8 DEF TempFile, TreeTypeOK
<1>8a. CASE Symlink(p)
  <2>1. [link |-> ToNode(p)] \in Entries
    BY <1>1 DEF Entries, Links
  <2>. QED  BY <1>1, <1>8a, <2>1 DEF Symlink, TreeTypeOK
<1>8b. CASE Readlink(p)
  BY <1>8b DEF Readlink, treeVars, TreeTypeOK
<1>9. CASE HandleWrite(p)
  BY <1>2, <1>9 DEF HandleWrite, TreeTypeOK
<1>10. CASE HandleClose(p)
  BY <1>10 DEF HandleClose, TreeTypeOK, NoHandle
<1>11. CASE \/ Invoke(p) \/ Check(p) \/ WriteReceipt(p) \/ WalkStart(p) \/ HashFile(p)
            \/ StatDest(p) \/ CopyStart(p) \/ CopyEntry(p) \/ CopyDone(p)
            \/ SnapshotFails(p) \/ CutShort(p)
  <2>1. UNCHANGED treeVars
    BY <1>11 DEF Invoke, Check, WriteReceipt, WalkStart, HashFile, StatDest, CopyStart,
         CopyEntry, CopyDone, SnapshotFails, CutShort, CommitStep
  <2>. QED  BY <2>1 DEF treeVars, TreeTypeOK
<1>. QED  BY <1>3, <1>4, <1>5, <1>6, <1>7, <1>8, <1>8a, <1>8b, <1>9, <1>10, <1>11 DEF Step

\* LEMMA: the clock, the lease and the counters.
LEMMA CounterSteps ==
  ASSUME SeamTypeOK, NEW p \in Procs,
         Invoke(p) \/ Step(p) \/ HandleWrite(p) \/ HandleClose(p)
  PROVE  /\ UNCHANGED <<now, lease>>
         /\ used' \in [Procs -> Nat] /\ \A q \in Procs : used'[q] <= MaxCalls[q]
         /\ gated' \in Nat
<1>1. CASE Invoke(p)
  <2>1. /\ used \in [Procs -> Nat] /\ used' = [used EXCEPT ![p] = @ + 1]
        /\ used[p] < MaxCalls[p] /\ MaxCalls \in [Procs -> Nat]
        /\ \A q \in Procs : used[q] <= MaxCalls[q]
    BY <1>1, MountAssumption DEF Invoke, SeamTypeOK
  <2>2. used' \in [Procs -> Nat] /\ \A q \in Procs : used'[q] <= MaxCalls[q]
    BY <2>1
  <2>3. UNCHANGED <<now, lease, gated>>
    BY <1>1 DEF Invoke, histVars
  <2>. QED  BY <2>2, <2>3 DEF SeamTypeOK
<1>2. CASE HandleWrite(p) \/ HandleClose(p)
  BY <1>2 DEF HandleWrite, HandleClose, SeamTypeOK, histVars
<1>3. CASE \/ OpenBackend(p) \/ RenameBackend(p) \/ RemoveBackend(p)
           \/ LookBackend(p) \/ ChrootBackend(p)
  BY <1>3 DEF OpenBackend, RenameBackend, RemoveBackend, LookBackend, ChrootBackend,
       BackendDone, SeamTypeOK
<1>4. CASE \/ Check(p) \/ WriteReceipt(p)
           \/ MkdirAll(p) \/ TempFile(p) \/ Symlink(p) \/ Readlink(p)
  BY <1>4 DEF Check, WriteReceipt, MkdirAll, TempFile, Symlink, Readlink, SeamTypeOK, histVars
<1>5. CASE \/ WalkStart(p) \/ HashFile(p) \/ StatDest(p) \/ CopyStart(p)
           \/ CopyEntry(p) \/ CopyDone(p) \/ SnapshotFails(p) \/ CutShort(p)
  BY <1>5 DEF WalkStart, HashFile, StatDest, CopyStart, CopyEntry, CopyDone,
       SnapshotFails, CutShort, CommitStep, SeamTypeOK, histVars
<1>. QED  BY <1>1, <1>2, <1>3, <1>4, <1>5 DEF Step

\* LEMMA: the type invariant holds at the start.
LEMMA TypeInit == Init => SeamTypeOK
<1>. SUFFICES ASSUME Init PROVE SeamTypeOK
  OBVIOUS
<1>1. NoCall \in Call
  BY DEF NoCall, Call, Governed, Opening, Looking
<1>2. CallTypeOK
  BY <1>1, NoLocalsType DEF Init, CallTypeOK, Labels
<1>3. TreeTypeOK
  BY MountAssumption DEF Init, TreeTypeOK, NoHandle
<1>. QED  BY <1>2, <1>3, MountAssumption DEF Init, StoreInit, SeamTypeOK

\* LEMMA: the type invariant is inductive.
LEMMA TypeNext == SeamTypeOK /\ [Next]_vars => SeamTypeOK'
<1>. SUFFICES ASSUME SeamTypeOK, [Next]_vars PROVE SeamTypeOK'
  OBVIOUS
<1>1. ASSUME NEW p \in Procs,
             Invoke(p) \/ Step(p) \/ HandleWrite(p) \/ HandleClose(p)
      PROVE  SeamTypeOK'
  <2>1. CallTypeOK'
    <3>1. CASE UNCHANGED procVars
      BY <3>1 DEF procVars, SeamTypeOK, CallTypeOK
    <3>2. CASE HandleWrite(p) \/ HandleClose(p)
      BY <3>1, <3>2 DEF HandleWrite, HandleClose
    <3>. QED  BY <1>1, <3>2, CallSteps
  <2>. QED  BY <1>1, <2>1, TreeSteps, CounterSteps DEF SeamTypeOK
<1>2. CASE Retain
  BY <1>2 DEF Retain, procVars, treeVars, SeamTypeOK, CallTypeOK, TreeTypeOK
<1>3. CASE Restart
  <2>1. CallTypeOK'
    BY <1>3, NoLocalsType DEF Restart, SeamTypeOK, CallTypeOK, Labels
  <2>2. TreeTypeOK'
    BY <1>3 DEF Restart, SeamTypeOK, TreeTypeOK, NoHandle
  <2>. QED  BY <1>3, <2>1, <2>2 DEF Restart, SeamTypeOK
<1>4. CASE Tick \/ StepBack
  <2>1. now' \in 0..MaxTime
    BY <1>4, MountAssumption DEF Tick, StepBack, SeamTypeOK
  <2>. QED  BY <1>4, <2>1 DEF Tick, StepBack, procVars, treeVars, histVars, SeamTypeOK,
              CallTypeOK, TreeTypeOK
<1>5. CASE UNCHANGED vars
  BY <1>5 DEF vars, SeamTypeOK, CallTypeOK, TreeTypeOK
<1>. QED  BY <1>1, <1>2, <1>3, <1>4, <1>5 DEF Next

-----------------------------------------------------------------------------
\* LEMMA: a receipt is a decision on some call (governance.go, append).
LEMMA DecisionType ==
  ASSUME SeamTypeOK, NEW p \in Procs, pc[p] = "receipt"
  PROVE  /\ Decision(p).ts \in 0..MaxTime
         /\ Decision(p).subject \in {"agent", "<no-lease>"} /\ Decision(p).space = Space
         /\ Decision(p).op \in {"read", "write", "list", "stat", "commit"}
         /\ Decision(p).path \in [name : Nat, version : Trees]
         /\ Decision(p).verdict \in {"allow", "deny", "error"}
<1>1. /\ call[p] \in Call /\ loc[p] \in Locals /\ loc[p].verdict # "none"
      /\ now \in 0..MaxTime /\ lease \in Leases
  BY DEF SeamTypeOK, CallTypeOK
<1>2. lease = NoLease \/ lease.subject = "agent"
  BY <1>1, MountAssumption DEF Lease
<1>3. OpOf(call[p]) \in {"read", "write", "list", "stat", "commit"}
  BY DEF OpOf
<1>4. call[p].path \in Nat /\ loc[p].tree \in Trees
  BY <1>1 DEF Call, Locals
<1>5. NoFiles \in Trees
  BY NoLocalsType DEF NoLocals, Locals
<1>6. loc[p].verdict \in {"allow", "deny", "error"}
  BY <1>1 DEF Locals
<1>. QED  BY <1>1, <1>2, <1>3, <1>4, <1>5, <1>6 DEF Decision

\* LEMMA: the log is a sequence of receipts at the start.
LEMMA LogTypeInit == Init => LogTypeOK
<1>. SUFFICES ASSUME Init PROVE LogTypeOK
  OBVIOUS
<1>1. all = <<>> /\ last = NoHash
  BY DEF Init, LogInit
<1>. QED  BY <1>1 DEF LogTypeOK, Hashes

\* LEMMA: and stays one.
LEMMA LogTypeStep == SeamTypeOK /\ LogTypeOK /\ [Next]_vars => LogTypeOK'
<1>. SUFFICES ASSUME SeamTypeOK, LogTypeOK, [Next]_vars PROVE LogTypeOK'
  OBVIOUS
<1>1. CASE UNCHANGED logVars
  BY <1>1 DEF logVars, LogTypeOK, Receipt, Hashes
<1>2. CASE all' = <<>> /\ last' = NoHash
  BY <1>2 DEF LogTypeOK, Hashes
<1>3. ASSUME NEW p \in Procs, WriteReceipt(p), AppendReceipt(Decision(p))
      PROVE  LogTypeOK'
  <2>. DEFINE d == Decision(p)
              r == Sealed(d)
              n == Len(all)
  <2>1. pc[p] = "receipt"
    BY <1>3 DEF WriteReceipt
  <2>2. /\ d.ts \in 0..MaxTime /\ d.subject \in {"agent", "<no-lease>"} /\ d.space = Space
        /\ d.op \in {"read", "write", "list", "stat", "commit"}
        /\ d.path \in [name : Nat, version : Trees]
        /\ d.verdict \in {"allow", "deny", "error"}
    BY <2>1, DecisionType
  <2>. HIDE DEF d
  <2>3. all' = Append(all, r) /\ last' = r.hash
    BY <1>3 DEF AppendReceipt, d
  <2>4. all \in Seq(Receipt) /\ last \in Hashes
    BY DEF LogTypeOK
  <2>5. /\ n \in Nat /\ Len(all') = n + 1
        /\ \A i \in 1..n : all'[i] = all[i] /\ i \in 1..Len(all')
        /\ all'[n + 1] = r /\ n + 1 \in 1..Len(all')
    BY <2>3, <2>4, AppendFacts
  <2>6. Hashes \subseteq Hashes' /\ r.hash \in Hashes'
    BY <2>5 DEF Hashes
  <2>7. Receipt \subseteq Receipt'
    BY <2>6 DEF Receipt
  <2>8. r \in Receipt'
    <3>. DEFINE h == Sha256(Payload(r))
    <3>1. h \in Hashes'
      BY <2>6, SealedFacts
    <3>2. r = [seq |-> n, prev |-> last, ts |-> d.ts, subject |-> d.subject,
               space |-> d.space, op |-> d.op, path |-> d.path, verdict |-> d.verdict,
               hash |-> h]
      BY DEF Sealed, Payload, Sha256
    <3>. HIDE DEF h, r
    <3>. QED  BY <2>2, <2>4, <2>5, <2>6, <3>1, <3>2 DEF Receipt
  <2>. HIDE DEF r
  <2>9. all' \in Seq(Receipt')
    BY <2>3, <2>4, <2>7, <2>8
  <2>. QED  BY <2>3, <2>6, <2>9 DEF LogTypeOK
<1>. QED  BY <1>1, <1>2, <1>3, LogSteps

\* LEMMA: a forged receipt has its old hash and prev, and other fields.
LEMMA ForgedFacts ==
  ASSUME NEW r \in Receipt, NEW f \in Forged(r)
  PROVE  f.hash = r.hash /\ f.prev = r.prev /\ Payload(f) # Payload(r)
<1>1. CASE \E v : f = [r EXCEPT !.verdict = v]
  BY <1>1 DEF Receipt, Forged, Payload
<1>2. CASE \E v : f = [r EXCEPT !.op = v]
  BY <1>2 DEF Receipt, Forged, Payload
<1>3. CASE \E v : f = [r EXCEPT !.path = v]
  BY <1>3 DEF Receipt, Forged, Payload
<1>4. CASE \E v : f = [r EXCEPT !.subject = v]
  BY <1>4 DEF Receipt, Forged, Payload
<1>5. CASE \E v : f = [r EXCEPT !.ts = v]
  BY <1>5 DEF Receipt, Forged, Payload
<1>. QED  BY <1>1, <1>2, <1>3, <1>4, <1>5 DEF Forged

\* LEMMA: a chain that verifies does not once it is tampered with
\* (governance.go, Verify).
LEMMA ChainTells ==
  ASSUME LogTypeOK, ChainVerifies
  PROVE  TamperEvident
<1>. SUFFICES ASSUME NEW i \in 1..Len(all)
              PROVE  /\ \A r \in Forged(all[i]) :
                          /\ ~ Verifies([all EXCEPT ![i] = r])
                          /\ i < Len(all) => ~ Verifies([all EXCEPT ![i] = Resealed(r)])
                     /\ i < Len(all) => ~ Verifies(TakenOut(all, i))
  BY DEF TamperEvident
<1>n. PICK n : n = Len(all)
  OBVIOUS
<1>1. /\ all \in Seq(Receipt) /\ n \in Nat /\ DOMAIN all = 1..n /\ i \in 1..n
      /\ \A j \in 1..n : all[j] \in Receipt
  BY <1>n DEF LogTypeOK
<1>2. ASSUME NEW j \in 1..n
      PROVE  /\ all[j].prev = (IF j = 1 THEN NoHash ELSE all[j - 1].hash)
             /\ all[j].hash = Sha256(Payload(all[j]))
             /\ all[j].seq = j - 1
  BY <1>n DEF ChainVerifies, Verify, Verifies
<1>3. \A p, q : Sha256(p) = Sha256(q) => p = q
  BY DEF Sha256
<1>4. ASSUME NEW r \in Forged(all[i])
      PROVE  /\ ~ Verifies([all EXCEPT ![i] = r])
             /\ i < n => ~ Verifies([all EXCEPT ![i] = Resealed(r)])
  <2>1. r.hash = all[i].hash /\ Payload(r) # Payload(all[i])
    BY <1>1, ForgedFacts
  <2>2. Sha256(Payload(r)) # all[i].hash
    BY <1>1, <1>2, <1>3, <2>1
  <2>3. ASSUME NEW f
        PROVE  /\ Len([all EXCEPT ![i] = f]) = n
               /\ [all EXCEPT ![i] = f][i] = f
               /\ i < n => [all EXCEPT ![i] = f][i + 1] = all[i + 1]
    <3>1. [all EXCEPT ![i] = f] \in Seq(Receipt \union {f})
      BY <1>1
    <3>2. DOMAIN [all EXCEPT ![i] = f] = 1..n
      BY <1>1
    <3>. QED  BY <1>1, <3>1, <3>2
  <2>4. ~ Verifies([all EXCEPT ![i] = r])
    <3>1. ASSUME Verifies([all EXCEPT ![i] = r])
          PROVE  r.hash = Sha256(Payload(r))
      BY <1>1, <2>3, <3>1 DEF Verifies
    <3>. QED  BY <2>1, <2>2, <3>1
  <2>5. ASSUME i < n, Verifies([all EXCEPT ![i] = Resealed(r)])
        PROVE  FALSE
    <3>. DEFINE g == Resealed(r)
    <3>1. i + 1 \in 1..n /\ i + 1 # 1 /\ (i + 1) - 1 = i
      BY <1>1, <2>5
    <3>2. /\ Len([all EXCEPT ![i] = g]) = n
          /\ [all EXCEPT ![i] = g][i] = g /\ [all EXCEPT ![i] = g][i + 1] = all[i + 1]
      BY <2>3, <2>5
    <3>. HIDE DEF g
    <3>3. all[i + 1].prev = g.hash
      BY <2>5, <3>1, <3>2 DEF Verifies, g
    <3>4. all[i + 1].prev = all[i].hash
      BY <1>2, <3>1
    <3>5. g.hash = Sha256(Payload(r))
      <4>1. "hash" \in DOMAIN r
        BY <1>1 DEF Forged, Receipt
      <4>. QED  BY <4>1 DEF g, Resealed
    <3>. QED  BY <2>2, <3>3, <3>4, <3>5
  <2>. QED  BY <2>4, <2>5
<1>5. ASSUME i < n, Verifies(TakenOut(all, i))
      PROVE  FALSE
  <2>. DEFINE t == TakenOut(all, i)
  <2>1. /\ i + 1 \in 1..n /\ i + 1 # 1 /\ (i + 1) - 1 = i
        /\ i \in 1..(n - 1) /\ n - 1 \in Nat
        /\ i = 1 \/ (i - 1 \in 1..n /\ i - 1 \in 1..(n - 1) /\ i - 1 < i)
    BY <1>1, <1>5
  <2>2. t \in Seq(Receipt) /\ Len(t) = n - 1
    <3>1. \A j \in 1..(n - 1) : (IF j < i THEN all[j] ELSE all[j + 1]) \in Receipt
      BY <1>1, <2>1
    <3>2. t \in [1..(n - 1) -> Receipt]
      BY <1>n, <3>1 DEF TakenOut
    <3>. HIDE DEF t
    <3>. QED  BY <2>1, <3>2
  <2>3. t[i] = all[i + 1] /\ (i # 1 => t[i - 1] = all[i - 1])
    BY <1>n, <1>1, <2>1 DEF TakenOut
  <2>. HIDE DEF t
  <2>4. all[i + 1].prev = (IF i = 1 THEN NoHash ELSE all[i - 1].hash)
    BY <1>5, <2>1, <2>2, <2>3 DEF Verifies, t
  <2>5. all[i + 1].prev = Sha256(Payload(all[i]))
    BY <1>1, <1>2, <2>1
  <2>6. CASE i = 1
    <3>1. PICK x : x = Payload(all[i])
      OBVIOUS
    <3>2. <<x>> = <<>>
      BY <2>4, <2>5, <2>6, <3>1 DEF Sha256, NoHash
    <3>3. Len(<<x>>) = 1 /\ Len(<<>>) = 0
      OBVIOUS
    <3>. QED  BY <3>2, <3>3
  <2>7. CASE i # 1
    <3>1. Payload(all[i - 1]) = Payload(all[i])
      BY <1>2, <1>3, <2>1, <2>4, <2>5, <2>7
    <3>2. all[i - 1].seq = all[i].seq
      BY <3>1 DEF Payload
    <3>. QED  BY <1>1, <1>2, <2>1, <2>7, <3>2
  <2>. QED  BY <2>6, <2>7
<1>. QED  BY <1>n, <1>4, <1>5

\* THEOREM: the log is tamper-evident: Verify fails on a log with a field of a
\* receipt changed, with a receipt before the newest changed and resealed, or
\* with one taken out (fs/governance.go:77, append and Verify).
THEOREM LogIsTamperEvident == Spec => []TamperEvident
<1>. DEFINE Inv == SeamTypeOK /\ LogTypeOK
<1>1. Init => Inv
  BY TypeInit, LogTypeInit
<1>2. Inv /\ [Next]_vars => Inv'
  BY TypeNext, LogTypeStep
<1>3. Inv /\ ChainVerifies => TamperEvident
  BY ChainTells
<1>. HIDE DEF Inv
<1>. QED  BY <1>1, <1>2, <1>3, ChainAlwaysVerifies, PTL DEF Spec

-----------------------------------------------------------------------------
\* Nothing can be written: no caller holds a file open for writing, none is
\* inside Snapshot, and no write is past the membrane.
Shut ==
  /\ root = Tree0 /\ versions = NoVersions
  /\ \A p \in Procs :
       /\ ~ handle[p].write
       /\ pc[p] \in {"idle", "check", "receipt", "backend"}
       /\ pc[p] = "backend" => loc[p].verdict = "allow"
       /\ pc[p] \in {"receipt", "backend"} /\ loc[p].verdict = "allow"
            => ~ IsWrite(OpOf(call[p]))

FailInv == SeamTypeOK /\ (OnlyGoverned /\ ~ Writable => Shut)

\* LEMMA: the membrane refuses a write without the capability (Membrane.Check).
LEMMA MembraneRefuses ==
  ASSUME ~ Writable, NEW op, NEW t, Allows(lease, op, t)
  PROVE  ~ IsWrite(op)
BY DEF Writable, Allows

\* LEMMA: a call that is not a write asks the backend for nothing that changes
\* the tree.
LEMMA ReadOpensNothing ==
  ASSUME NEW c \in Call, ~ IsWrite(OpOf(c))
  PROVE  /\ c.m \in Opening => FlagsOf(c) = {}
         /\ c.m \notin {"Create", "Rename", "Remove", "Commit"}
<1>1. c.flags \subseteq WriteFlags
  BY DEF Call
<1>2. c.m \notin {"Create", "Rename", "Remove", "Commit"}
  BY DEF OpOf, IsWrite
<1>3. CASE c.m = "OpenFile"
  <2>1. ~ AskToWrite(c.flags)
    BY <1>3 DEF OpOf, IsWrite
  <2>2. c.flags = {}
    BY <1>1, <2>1 DEF AskToWrite
  <2>. QED  BY <1>2, <1>3, <2>2 DEF FlagsOf
<1>. QED  BY <1>2, <1>3 DEF FlagsOf, Opening

\* LEMMA: no step of a caller opens what is shut.
LEMMA ShutStep ==
  ASSUME SeamTypeOK, Shut, OnlyGoverned, ~ Writable, NEW p \in Procs,
         Invoke(p) \/ Step(p) \/ HandleWrite(p) \/ HandleClose(p)
  PROVE  Shut'
<1>1. /\ call[p] \in Call /\ pc \in [Procs -> Labels] /\ loc \in [Procs -> Locals]
      /\ handle \in [Procs -> [node : Nodes \union {0}, write : BOOLEAN]]
      /\ call \in [Procs -> Call]
  BY DEF SeamTypeOK, CallTypeOK, TreeTypeOK
<1>2. CASE Invoke(p)
  <2>1. PICK c \in CallsOf[p] : /\ call' = [call EXCEPT ![p] = c]
                                /\ pc' = [pc EXCEPT ![p] = FirstStep(c)]
    BY <1>2 DEF Invoke
  <2>2. FirstStep(c) \in {"idle", "check"}
    BY DEF FirstStep, OnlyGoverned
  <2>. QED  BY <1>1, <1>2, <2>1, <2>2 DEF Invoke, Shut, treeVars, storeVars
<1>3. CASE Check(p)
  <2>. DEFINE ok == Allows(lease, OpOf(call[p]), now)
              x == [NoLocals EXCEPT !.verdict = IF ok THEN "allow" ELSE "deny"]
  <2>1. ok => ~ IsWrite(OpOf(call[p]))
    BY MembraneRefuses
  <2>2. ok => call[p].m # "Commit"
    BY <2>1, <1>1, ReadOpensNothing
  <2>3. x.verdict = "allow" => ok
    BY DEF NoLocals
  <2>4. Goto(p, "receipt", x)
    BY <1>3, <2>2 DEF Check
  <2>5. /\ pc' = [pc EXCEPT ![p] = "receipt"] /\ loc' = [loc EXCEPT ![p] = x]
        /\ call' = call
    BY <2>4 DEF Goto
  <2>6. UNCHANGED <<root, versions, handle>>
    BY <1>3 DEF Check, treeVars, storeVars
  <2>. HIDE DEF x, ok
  <2>. QED  BY <1>1, <2>1, <2>3, <2>5, <2>6 DEF Shut
<1>4. CASE WriteReceipt(p)
  <2>1. \/ Goto(p, "backend", loc[p]) /\ loc[p].verdict = "allow"
        \/ Goto(p, "idle", NoLocals)
    BY <1>4 DEF WriteReceipt, Return
  <2>2. UNCHANGED <<root, versions, handle>> /\ pc[p] = "receipt"
    BY <1>4 DEF WriteReceipt, treeVars, storeVars
  <2>. QED  BY <1>1, <2>1, <2>2 DEF Shut, Goto
<1>5. CASE \/ OpenBackend(p) \/ RenameBackend(p) \/ RemoveBackend(p)
           \/ LookBackend(p) \/ ChrootBackend(p)
  <2>1. pc[p] = "backend" /\ ~ IsWrite(OpOf(call[p]))
    BY <1>5 DEF OpenBackend, RenameBackend, RemoveBackend, LookBackend,
         ChrootBackend, Shut
  <2>2. /\ call[p].m \in Opening => FlagsOf(call[p]) = {}
        /\ call[p].m \notin {"Rename", "Remove"}
    BY <1>1, <2>1, ReadOpensNothing
  <2>3. Goto(p, "idle", NoLocals) /\ versions' = versions
    BY <1>5 DEF OpenBackend, RenameBackend, RemoveBackend, LookBackend,
         ChrootBackend, BackendDone, Return, storeVars
  <2>4. CASE OpenBackend(p)
    <3>1. FlagsOf(call[p]) = {}
      BY <2>2, <2>4 DEF OpenBackend
    <3>2. \/ UNCHANGED <<root, handle>>
          \/ /\ root' = root
             /\ \E n : handle' = [handle EXCEPT ![p] = [node |-> n, write |-> FALSE]]
      BY <2>4, <3>1 DEF OpenBackend
    <3>. QED  BY <1>1, <2>3, <3>2 DEF Shut, Goto
  <2>5. CASE LookBackend(p) \/ ChrootBackend(p)
    <3>1. UNCHANGED <<root, handle>>
      BY <2>5 DEF LookBackend, ChrootBackend, treeVars
    <3>. QED  BY <1>1, <2>3, <3>1 DEF Shut, Goto
  <2>. QED  BY <1>5, <2>2, <2>4, <2>5 DEF RenameBackend, RemoveBackend
<1>6. CASE HandleClose(p)
  BY <1>1, <1>6 DEF HandleClose, Shut, procVars, storeVars, NoHandle
<1>7. ~ HandleWrite(p)
  BY DEF HandleWrite, Shut
<1>8. ~ (\/ MkdirAll(p) \/ TempFile(p) \/ Symlink(p) \/ Readlink(p)
         \/ WalkStart(p) \/ HashFile(p) \/ StatDest(p)
         \/ CopyStart(p) \/ CopyEntry(p) \/ CopyDone(p) \/ SnapshotFails(p) \/ CutShort(p))
  BY DEF MkdirAll, TempFile, Symlink, Readlink, WalkStart, HashFile, StatDest,
       CopyStart, CopyEntry, CopyDone, SnapshotFails, CutShort, Shut
<1>. QED  BY <1>2, <1>3, <1>4, <1>5, <1>6, <1>7, <1>8 DEF Step

\* LEMMA: the retention loop makes no version.
LEMMA RetainMakesNothing ==
  ASSUME RetainStep, versions = NoVersions
  PROVE  versions' = NoVersions
<1>1. CASE PruneOne
  BY <1>1 DEF PruneOne, Without, NoVersions
<1>2. CASE PruneFails
  BY <1>2 DEF PruneFails, Held, NoVersions
<1>. QED  BY <1>1, <1>2 DEF RetainStep, StartRetain, TickList, TickEnd, ListFails

\* THEOREM: without a lease for this space that carries the write capability,
\* no governed method changes the tree or freezes a version, through handles,
\* sub-mounts and restarts included (fs/governance.go, "FAIL-CLOSED").
THEOREM MountFailsClosed == Spec => []FailClosed
<1>1. Init => FailInv
  <2>1. Init => Shut
    BY DEF Init, StoreInit, Shut, NoHandle
  <2>. QED  BY <2>1, TypeInit DEF FailInv
<1>2. FailInv /\ [Next]_vars => FailInv'
  <2>. SUFFICES ASSUME FailInv, [Next]_vars, OnlyGoverned, ~ Writable' PROVE Shut'
    BY TypeNext DEF FailInv, OnlyGoverned
  <2>1. SeamTypeOK
    BY DEF FailInv
  <2>2. lease' = lease
    <3>1. ASSUME NEW p \in Procs,
                 Invoke(p) \/ Step(p) \/ HandleWrite(p) \/ HandleClose(p)
          PROVE  lease' = lease
      BY <3>1, <2>1, CounterSteps
    <3>. QED  BY <3>1 DEF Next, Retain, Restart, Tick, StepBack, vars
  <2>3. ~ Writable /\ Shut
    BY <2>2 DEF Writable, FailInv
  <2>4. CASE \E p \in Procs : Invoke(p) \/ Step(p) \/ HandleWrite(p) \/ HandleClose(p)
    BY <2>1, <2>3, <2>4, ShutStep
  <2>5. CASE Retain
    BY <2>3, <2>5, RetainMakesNothing DEF Retain, Shut, treeVars, procVars
  <2>6. CASE Restart
    BY <2>3, <2>6 DEF Restart, Shut, storeVars, NoHandle, NoLocals
  <2>7. CASE Tick \/ StepBack \/ UNCHANGED vars
    BY <2>3, <2>7 DEF Tick, StepBack, vars, Shut, storeVars, treeVars, procVars
  <2>. QED  BY <2>4, <2>5, <2>6, <2>7 DEF Next
<1>3. FailInv => FailClosed
  BY DEF FailInv, FailClosed, NoLeaseNoAccess, Shut
<1>. QED  BY <1>1, <1>2, <1>3, PTL DEF Spec

-----------------------------------------------------------------------------
CountInv == SeamTypeOK /\ IsLog /\ OneReceiptPerCall

OwingLabels == {"receipt", "walk", "hash", "mkdir", "copy"}

\* LEMMA: apart from the decision and the receipt, no step of a caller changes
\* what is decided, what is receipted, or who owes a receipt.
LEMMA OwingStays ==
  ASSUME SeamTypeOK, NEW p \in Procs,
         Invoke(p) \/ Step(p) \/ HandleWrite(p) \/ HandleClose(p),
         ~ Check(p), ~ WriteReceipt(p)
  PROVE  UNCHANGED <<all, gated>> /\ Owing' = Owing
<1>1. pc \in [Procs -> Labels]
  BY DEF SeamTypeOK, CallTypeOK
<1>2. CASE Invoke(p)
  <2>1. PICK c \in CallsOf[p] : pc' = [pc EXCEPT ![p] = FirstStep(c)]
    BY <1>2 DEF Invoke
  <2>2. FirstStep(c) \notin OwingLabels
    BY DEF FirstStep, OwingLabels
  <2>3. pc[p] = "idle" /\ UNCHANGED <<all, gated>>
    BY <1>2 DEF Invoke, logVars, histVars
  <2>. QED  BY <1>1, <2>1, <2>2, <2>3 DEF Owing, OwingLabels
<1>3. CASE HandleWrite(p) \/ HandleClose(p)
  BY <1>3 DEF HandleWrite, HandleClose, logVars, procVars, histVars, Owing
<1>4. CASE \/ OpenBackend(p) \/ RenameBackend(p) \/ RemoveBackend(p) \/ LookBackend(p)
           \/ ChrootBackend(p) \/ MkdirAll(p) \/ TempFile(p) \/ Symlink(p) \/ Readlink(p)
  <2>1. pc[p] \in {"backend", "promoted"} /\ UNCHANGED <<all, gated>>
    BY <1>4 DEF OpenBackend, RenameBackend, RemoveBackend, LookBackend, ChrootBackend,
         BackendDone, MkdirAll, TempFile, Symlink, Readlink, logVars, histVars
  <2>2. pc' = [pc EXCEPT ![p] = "idle"]
    BY <1>4 DEF OpenBackend, RenameBackend, RemoveBackend, LookBackend, ChrootBackend,
         BackendDone, MkdirAll, TempFile, Symlink, Readlink, Return, Goto
  <2>. QED  BY <1>1, <2>1, <2>2 DEF Owing
<1>5. CASE \/ WalkStart(p) \/ HashFile(p) \/ StatDest(p) \/ CopyStart(p)
           \/ CopyEntry(p) \/ CopyDone(p) \/ SnapshotFails(p) \/ CutShort(p)
  <2>1. pc[p] \in OwingLabels /\ UNCHANGED <<all, gated>>
    BY <1>5 DEF WalkStart, HashFile, StatDest, CopyStart, CopyEntry, CopyDone,
         SnapshotFails, CutShort, CommitStep, logVars, histVars, OwingLabels
  <2>2. \E l \in OwingLabels : pc' = [pc EXCEPT ![p] = l]
    BY <1>5 DEF WalkStart, HashFile, StatDest, CopyStart, CopyEntry, CopyDone,
         SnapshotFails, CutShort, Fail, Goto, OwingLabels
  <2>. QED  BY <1>1, <2>1, <2>2 DEF Owing, OwingLabels
<1>. QED  BY <1>2, <1>3, <1>4, <1>5 DEF Step

\* THEOREM: every call the membrane decides leaves exactly one receipt, however
\* many callers there are (fs/inceptionfs.go, gate and Commit: "exactly ONE
\* receipt").
THEOREM ReceiptForEachCall == Spec => []OneReceiptPerCall
<1>1. Init => CountInv
  <2>. SUFFICES ASSUME Init PROVE IsLog /\ OneReceiptPerCall
    BY TypeInit DEF CountInv
  <2>1. all \in Seq({}) /\ Len(all) = 0 /\ gated = 0 /\ Owing = {}
    BY DEF Init, LogInit, Owing
  <2>2. IsLog
    BY <2>1 DEF IsLog
  <2>. QED  BY <2>1, <2>2, FS_EmptySet DEF OneReceiptPerCall
<1>2. CountInv /\ [Next]_vars => CountInv'
  <2>. SUFFICES ASSUME CountInv, [Next]_vars PROVE IsLog' /\ OneReceiptPerCall'
    BY TypeNext DEF CountInv
  <2>1. /\ SeamTypeOK /\ pc \in [Procs -> Labels] /\ gated \in Nat
        /\ gated = Len(all) + Cardinality(Owing)
    BY DEF CountInv, SeamTypeOK, CallTypeOK, OneReceiptPerCall
  <2>2. PICK R : all \in Seq(R)
    BY DEF CountInv, IsLog
  <2>3. IsFiniteSet(Owing) /\ Cardinality(Owing) \in Nat
    BY MountAssumption, FS_Subset, FS_CardinalityType DEF Owing
  <2>4. CASE UNCHANGED <<all, gated>> /\ Owing' = Owing
    BY <2>1, <2>2, <2>4 DEF IsLog, OneReceiptPerCall
  <2>5. ASSUME NEW p \in Procs, Check(p)
        PROVE  IsLog' /\ OneReceiptPerCall'
    <3>1. /\ all' = all /\ gated' = gated + 1 /\ pc[p] = "check"
          /\ \E l \in {"walk", "receipt"} : pc' = [pc EXCEPT ![p] = l]
      BY <2>5 DEF Check, Goto, logVars
    <3>2. p \notin Owing /\ Owing' = Owing \union {p}
      BY <2>1, <3>1 DEF Owing
    <3>3. Cardinality(Owing') = Cardinality(Owing) + 1
      BY <2>3, <3>2, FS_AddElement
    <3>4. IsLog'
      BY <2>2, <3>1 DEF IsLog
    <3>. QED  BY <2>1, <2>2, <2>3, <3>1, <3>3, <3>4 DEF OneReceiptPerCall
  <2>6. ASSUME NEW p \in Procs, WriteReceipt(p)
        PROVE  IsLog' /\ OneReceiptPerCall'
    <3>1. /\ all' = Append(all, Sealed(Decision(p))) /\ gated' = gated
          /\ pc[p] = "receipt"
          /\ \E l \in {"backend", "idle"} : pc' = [pc EXCEPT ![p] = l]
      BY <2>6 DEF WriteReceipt, AppendReceipt, Goto, Return
    <3>2. p \in Owing /\ Owing' = Owing \ {p}
      BY <2>1, <3>1 DEF Owing
    <3>3. Cardinality(Owing') = Cardinality(Owing) - 1
      BY <2>3, <3>2, FS_RemoveElement
    <3>4. all' \in Seq(R \union {Sealed(Decision(p))}) /\ Len(all') = Len(all) + 1
      BY <2>2, <3>1, AppendFacts
    <3>5. IsLog'
      BY <3>4 DEF IsLog
    <3>6. Len(all) \in Nat
      BY <2>2
    <3>. QED  BY <2>1, <2>3, <3>1, <3>3, <3>4, <3>5, <3>6 DEF OneReceiptPerCall
  <2>7. CASE Restart
    <3>1. all' \in Seq({}) /\ Len(all') = 0 /\ gated' = 0 /\ Owing' = {}
      BY <2>7 DEF Restart, Owing
    <3>2. IsLog'
      BY <3>1 DEF IsLog
    <3>. QED  BY <3>1, <3>2, FS_EmptySet DEF OneReceiptPerCall
  <2>8. CASE Retain \/ Tick \/ StepBack \/ UNCHANGED vars
    <3>1. UNCHANGED <<all, gated>> /\ Owing' = Owing
      BY <2>8 DEF Retain, Tick, StepBack, vars, logVars, procVars, histVars, Owing
    <3>. QED  BY <2>4, <3>1
  <2>9. ASSUME NEW p \in Procs,
               Invoke(p) \/ Step(p) \/ HandleWrite(p) \/ HandleClose(p)
        PROVE  IsLog' /\ OneReceiptPerCall'
    BY <2>1, <2>4, <2>5, <2>6, <2>9, OwingStays
  <2>. QED  BY <2>7, <2>8, <2>9 DEF Next
<1>3. CountInv => OneReceiptPerCall
  BY DEF CountInv
<1>. QED  BY <1>1, <1>2, <1>3, PTL DEF Spec
=============================================================================
