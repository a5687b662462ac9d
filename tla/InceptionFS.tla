---------------------------- MODULE InceptionFS ----------------------------
(***************************************************************************)
(* The governed mount, inception-mount/fs: one InceptionFS over a backend  *)
(* tree, one lease, one receipt log, and a DevSnapshotter behind Commit.   *)
(* go-nfs serves each request in a goroutine of its own and agents call    *)
(* the methods in process, so several calls run at once.  A call is cut    *)
(* into the membrane's check, the receipt, and the backend call; Commit    *)
(* into one step per directory entry that hashTree and copyTreeReadOnly    *)
(* visit.                                                                  *)
(*                                                                         *)
(* Nodes of the tree are numbered in the order filepath.Walk visits them.  *)
(* A name given to the sub-mount that Chroot returns is relative to it:    *)
(* name i stands for node i + SubBase.                                     *)
(***************************************************************************)
EXTENDS ReceiptLog, VersionStore

CONSTANTS Procs,       \* the callers
          CallsOf,     \* the calls each may make
          MaxCalls,    \* how many calls each makes at most (a bound)
          MaxTime,     \* where the clock stops (a bound)
          MaxNode,     \* the nodes are 1..MaxNode
          SubBase,     \* where the sub-mount's nodes start
          Data,        \* what may be written to a file
          Empty,       \* a file just created or truncated
          Dir, Absent, \* a node that is a directory, or nothing
          Tree0,       \* the tree the mount is started over
          Leases,      \* the leases it may be started with
          NoLease, Space,
          HasSnapshotter,   \* whether WithSnapshotter was called
          Superuser,        \* whether it may open a read-only file for writing
          Restarts          \* whether the mount process may stop and start again

Nodes == 1..MaxNode
Files == Data \union {Empty}
Links == [link : Nodes]     \* a symbolic link to another node
Entries == Files \union {Dir, Absent} \union Links

Lease == [subject : {"agent"}, space : {Space, "elsewhere"}, canRead : BOOLEAN,
          canWrite : BOOLEAN, expiry : Nat]

WriteFlags == {"WRONLY", "RDWR", "CREATE", "APPEND", "TRUNC"}

\* The methods InceptionFS overrides, and those it promotes from the backend.
Opening == {"Open", "OpenFile", "Create"}
Looking == {"ReadDir", "Stat", "Lstat"}
Governed == Opening \union Looking \union {"Rename", "Remove", "Chroot", "Commit"}
Promoted == {"MkdirAll", "TempFile", "Symlink", "Readlink"}

Call == [m : Governed \union Promoted, view : {"mount", "sub"},
         path : Nat, to : Nat, flags : SUBSET WriteFlags]
NoCall == [m |-> "Stat", view |-> "mount", path |-> 1, to |-> 1, flags |-> {}]

\* The node a name means to a mount.
NodeOf(view, path) == IF view = "mount" THEN path ELSE path + SubBase

ASSUME MountAssumption ==
  /\ IsFiniteSet(Procs)
  /\ MaxCalls \in [Procs -> Nat] /\ MaxTime \in Nat /\ MaxNode \in Nat \ {0} /\ SubBase \in Nat
  /\ CallsOf \in [Procs -> SUBSET Call]
  /\ \A p \in Procs : \A c \in CallsOf[p] :
       NodeOf(c.view, c.path) \in Nodes /\ NodeOf(c.view, c.to) \in Nodes
  /\ Tree0 \in [Nodes -> Entries]
  /\ Leases \subseteq Lease \union {NoLease}
  /\ NoLease \notin Lease
  /\ Dir \notin Files /\ Absent \notin Files /\ Dir # Absent
  /\ ({Dir, Absent} \union Files) \intersect Links = {}
  /\ HasSnapshotter \in BOOLEAN /\ Superuser \in BOOLEAN /\ Restarts \in BOOLEAN

VARIABLES lease,     \* the mount's lease; it never changes
          root,      \* the backend tree
          views,     \* the mounts callers hold
          handle,    \* the open file of each caller
          pc, call, loc,   \* its current call
          used,      \* the calls it has made
          gated,     \* history: calls the membrane has decided
          returned   \* history: the versions Commit returned and nothing pruned

procVars == <<pc, call, loc>>
treeVars == <<root, handle, views>>
histVars == <<gated, returned>>
vars == <<all, last, now, versions, ret, lease, root, views, handle,
          pc, call, loc, used, gated, returned>>

NoHandle == [node |-> 0, write |-> FALSE]
NoLocals == [verdict |-> "none", todo |-> {}, tree |-> NoFiles]

Init ==
  /\ LogInit
  /\ StoreInit
  /\ lease \in Leases
  /\ root = Tree0
  /\ views = {"mount"}
  /\ handle = [p \in Procs |-> NoHandle]
  /\ pc = [p \in Procs |-> "idle"]
  /\ call = [p \in Procs |-> NoCall]
  /\ loc = [p \in Procs |-> NoLocals]
  /\ used = [p \in Procs |-> 0]
  /\ gated = 0 /\ returned = {}

-----------------------------------------------------------------------------
\* (Mutant: OpenFile looks at the access mode only.)
AskByMode(flags) == flags \intersect {"WRONLY", "RDWR"} # {}

AskToWrite(flags) == flags \intersect WriteFlags # {}

\* The class of access of a call.
OpOf(c) ==
  CASE c.m = "OpenFile" -> IF AskToWrite(c.flags) THEN "write" ELSE "read"
    [] c.m = "Open" -> "read"
    [] c.m \in {"Create", "Rename", "Remove"} -> "write"
    [] c.m \in {"ReadDir", "Chroot"} -> "list"
    [] c.m = "Commit" -> "commit"
    [] OTHER -> "stat"

IsWrite(op) == op \in {"write", "commit"}

\* What the backend is asked for.
FlagsOf(c) == CASE c.m = "Create" -> {"RDWR", "CREATE", "TRUNC"}
                [] c.m = "OpenFile" -> c.flags
                [] OTHER -> {}

\* (Mutant: a commit is let in however old the lease is.)
CommitAnyTime(l, op, t) ==
  /\ l # NoLease
  /\ l.space = Space
  /\ op = "commit" \/ l.expiry = 0 \/ t <= l.expiry
  /\ IF IsWrite(op) THEN l.canWrite ELSE l.canRead

\* Membrane.Check.
Allows(l, op, t) ==
  /\ l # NoLease
  /\ l.space = Space
  /\ l.expiry = 0 \/ t <= l.expiry
  /\ IF IsWrite(op) THEN l.canWrite ELSE l.canRead

Goto(p, label, locals) ==
  /\ pc' = [pc EXCEPT ![p] = label]
  /\ loc' = [loc EXCEPT ![p] = locals]
  /\ UNCHANGED call

Return(p) == Goto(p, "idle", NoLocals)

-----------------------------------------------------------------------------
\* Promoted methods go straight to the backend; Commit without a snapshotter,
\* which a sub-mount never has, returns an error at once.
FirstStep(c) ==
  CASE c.m \in Promoted -> "promoted"
    [] c.m = "Commit" /\ ~ (HasSnapshotter /\ c.view = "mount") -> "idle"
    [] OTHER -> "check"

\* A method is called.
Invoke(p) ==
  /\ pc[p] = "idle"
  /\ used[p] < MaxCalls[p]
  /\ \E c \in CallsOf[p] :
       /\ c.view \in views
       /\ call' = [call EXCEPT ![p] = c]
       /\ pc' = [pc EXCEPT ![p] = FirstStep(c)]
  /\ used' = [used EXCEPT ![p] = @ + 1]
  /\ UNCHANGED <<logVars, now, storeVars, lease, treeVars, loc, histVars>>

\* What a call asks the log to record.  A successful Commit names the
\* version, everything else the path as the caller gave it.
Decision(p) ==
  LET c == call[p]
      pinned == c.m = "Commit" /\ loc[p].verdict = "allow"
  IN  [ts |-> now,
       subject |-> IF lease = NoLease THEN "<no-lease>" ELSE lease.subject,
       space |-> Space,
       op |-> OpOf(c),
       path |-> [name |-> IF c.m = "Commit" THEN 0 ELSE c.path,
                 version |-> IF pinned THEN loc[p].tree ELSE NoFiles],
       verdict |-> loc[p].verdict]

\* (Mutant: Commit goes through gate as every other call does.)
CommitThroughGate(p) ==
  /\ pc[p] = "check"
  /\ LET ok == Allows(lease, OpOf(call[p]), now)
     IN  /\ Goto(p, IF ok /\ call[p].m = "Commit" THEN "walk" ELSE "receipt",
                 [NoLocals EXCEPT !.verdict = IF ok THEN "allow" ELSE "deny"])
         /\ IF ok /\ call[p].m = "Commit" THEN AppendReceipt(Decision(p))
                                          ELSE UNCHANGED logVars
  /\ gated' = gated + 1
  /\ UNCHANGED <<now, storeVars, lease, treeVars, used, returned>>

\* gate and Commit: the membrane decides, by the clock it reads now.
Check(p) ==
  /\ pc[p] = "check"
  /\ LET ok == Allows(lease, OpOf(call[p]), now)
     IN  Goto(p, IF ok /\ call[p].m = "Commit" THEN "walk" ELSE "receipt",
              [NoLocals EXCEPT !.verdict = IF ok THEN "allow" ELSE "deny"])
  /\ gated' = gated + 1
  /\ UNCHANGED <<logVars, now, storeVars, lease, treeVars, used, returned>>

\* (Mutant: gate's error is not looked at.)
DenyAndGoOn(p) ==
  /\ pc[p] = "receipt"
  /\ AppendReceipt(Decision(p))
  /\ IF call[p].m # "Commit" THEN Goto(p, "backend", loc[p]) ELSE Return(p)
  /\ UNCHANGED <<now, storeVars, lease, treeVars, used, histVars>>

\* The receipt; then a denied call returns, an allowed one goes on to the
\* backend, and Commit returns the version or the error.
WriteReceipt(p) ==
  /\ pc[p] = "receipt"
  /\ AppendReceipt(Decision(p))
  /\ IF loc[p].verdict = "allow" /\ call[p].m # "Commit"
       THEN Goto(p, "backend", loc[p])
       ELSE Return(p)
  /\ returned' = IF loc[p].verdict = "allow" /\ call[p].m = "Commit"
                   THEN returned \union ({loc[p].tree} \intersect Held)
                   ELSE returned
  /\ UNCHANGED <<now, storeVars, lease, treeVars, used, gated>>

-----------------------------------------------------------------------------
\* The backend calls.  An open file stays the same file when it is renamed,
\* and belongs to no node any more once it is removed or replaced.
Relabel(from, to) ==
  handle' = [p \in Procs |->
               CASE handle[p].node = from -> [handle[p] EXCEPT !.node = to]
                 [] handle[p].node = to -> NoHandle
                 [] OTHER -> handle[p]]

Node(p) == NodeOf(call[p].view, call[p].path)
ToNode(p) == NodeOf(call[p].view, call[p].to)

\* Opening a node follows the links from it, to the one node at their end; a
\* loop leads to a link again.
Hop(n) == IF root[n] \in Links THEN root[n].link ELSE n
Follow(n) ==
  IF root[n] \notin Links
    THEN {n}
    ELSE {way[MaxNode] : way \in {w \in [0..MaxNode -> Nodes] :
            w[0] = n /\ \A i \in 1..MaxNode : w[i] = Hop(w[i - 1])}}

BackendDone(p) ==
  /\ Return(p)
  /\ UNCHANGED <<logVars, now, storeVars, lease, used, gated, returned>>

OpenBackend(p) ==
  /\ pc[p] = "backend"
  /\ call[p].m \in Opening
  /\ LET f == FlagsOf(call[p]) IN
       \E n \in Follow(Node(p)) :
         IF root[n] \in {Dir} \union Links \/ (root[n] = Absent /\ "CREATE" \notin f)
           THEN UNCHANGED <<root, handle>>
           ELSE /\ root' = IF root[n] = Absent \/ "TRUNC" \in f
                             THEN [root EXCEPT ![n] = Empty] ELSE root
                /\ handle' = [handle EXCEPT ![p] =
                      [node |-> n, write |-> f \intersect {"WRONLY", "RDWR"} # {}]]
  /\ UNCHANGED views
  /\ BackendDone(p)

RenameBackend(p) ==
  /\ pc[p] = "backend"
  /\ call[p].m = "Rename"
  /\ LET old == Node(p)
         new == ToNode(p)
         ok == /\ old # new
               /\ root[old] # Absent
               /\ (root[new] = Absent \/ (root[old] = Dir) = (root[new] = Dir))
     IN  IF ok
           THEN root' = [root EXCEPT ![new] = root[old], ![old] = Absent] /\ Relabel(old, new)
           ELSE UNCHANGED <<root, handle>>
  /\ UNCHANGED views
  /\ BackendDone(p)

RemoveBackend(p) ==
  /\ pc[p] = "backend"
  /\ call[p].m = "Remove"
  /\ root' = [root EXCEPT ![Node(p)] = Absent]
  /\ handle' = [q \in Procs |-> IF handle[q].node = Node(p) THEN NoHandle ELSE handle[q]]
  /\ UNCHANGED views
  /\ BackendDone(p)

\* ReadDir, Stat and Lstat only look.  Chroot wraps the sub-tree with the
\* same lease and the same log, and without the snapshotter.
LookBackend(p) ==
  /\ pc[p] = "backend"
  /\ call[p].m \in Looking
  /\ UNCHANGED treeVars
  /\ BackendDone(p)

ChrootBackend(p) ==
  /\ pc[p] = "backend"
  /\ call[p].m = "Chroot"
  /\ views' = views \union {"sub"}
  /\ UNCHANGED <<root, handle>>
  /\ BackendDone(p)

\* The promoted methods that change the tree.
MkdirAll(p) ==
  /\ pc[p] = "promoted"
  /\ call[p].m = "MkdirAll"
  /\ root' = IF root[Node(p)] = Absent THEN [root EXCEPT ![Node(p)] = Dir] ELSE root
  /\ Return(p)
  /\ UNCHANGED <<logVars, now, storeVars, lease, views, handle, used, histVars>>

TempFile(p) ==
  /\ pc[p] = "promoted"
  /\ call[p].m = "TempFile"
  /\ \E n \in Nodes :
       /\ root[n] = Absent
       /\ root' = [root EXCEPT ![n] = Empty]
       /\ handle' = [handle EXCEPT ![p] = [node |-> n, write |-> TRUE]]
  /\ Return(p)
  /\ UNCHANGED <<logVars, now, storeVars, lease, views, used, histVars>>

Symlink(p) ==
  /\ pc[p] = "promoted"
  /\ call[p].m = "Symlink"
  /\ root' = IF root[Node(p)] = Absent
               THEN [root EXCEPT ![Node(p)] = [link |-> ToNode(p)]] ELSE root
  /\ Return(p)
  /\ UNCHANGED <<logVars, now, storeVars, lease, views, handle, used, histVars>>

Readlink(p) ==
  /\ pc[p] = "promoted"
  /\ call[p].m = "Readlink"
  /\ Return(p)
  /\ UNCHANGED <<logVars, now, storeVars, lease, treeVars, used, histVars>>

\* A caller between two calls writes to the file it holds, or closes it: the
\* file is the backend's own and does not come back to the seam.
HandleWrite(p) ==
  /\ pc[p] = "idle"
  /\ handle[p].write /\ handle[p].node \in Nodes
  /\ \E d \in Data : root' = [root EXCEPT ![handle[p].node] = d]
  /\ UNCHANGED <<logVars, now, storeVars, lease, views, handle, procVars, used, histVars>>

HandleClose(p) ==
  /\ pc[p] = "idle"
  /\ handle[p] # NoHandle
  /\ handle' = [handle EXCEPT ![p] = NoHandle]
  /\ UNCHANGED <<logVars, now, storeVars, lease, root, views, procVars, used, histVars>>

-----------------------------------------------------------------------------
\* Commit with a DevSnapshotter.  A walk reads the names first and then
\* visits them in order; a name that is gone by then ends it with an error.
First(S) == CHOOSE n \in S : \A k \in S : n <= k

Present == {n \in Nodes : root[n] # Absent}

CommitStep(p) == UNCHANGED <<logVars, now, ret, lease, treeVars, used, histVars>>

Fail(p) == Goto(p, "receipt", [NoLocals EXCEPT !.verdict = "error"])

\* (Mutant: directories are hashed as files are.)
CountsAll(entry) == TRUE

Counts(entry) == entry # Dir

\* A walk does not follow links, opening what it meets does: it fails where
\* no file is at their end.  The hash takes in that there was a link, by its
\* mode, and the content of the file.
Unreadable(n, m) == root[m] \notin Files /\ root[n] # Dir
Hashed(n, m) == IF root[n] \in Links THEN [through |-> root[m]] ELSE root[m]

\* hashTree: the names, and then one file after the other; directories do
\* not count.
WalkStart(p) ==
  /\ pc[p] = "walk"
  /\ Goto(p, "hash", [loc[p] EXCEPT !.todo = Present])
  /\ UNCHANGED versions
  /\ CommitStep(p)

HashFile(p) ==
  /\ pc[p] = "hash"
  /\ loc[p].todo # {}
  /\ LET n == First(loc[p].todo) IN
       \E m \in Follow(n) :
         IF Unreadable(n, m)
           THEN Fail(p)
           ELSE Goto(p, "hash",
                     [loc[p] EXCEPT !.todo = @ \ {n},
                        !.tree = IF Counts(root[n]) THEN With(@, n, Hashed(n, m)) ELSE @])
  /\ UNCHANGED versions
  /\ CommitStep(p)

\* (Mutant: the copy is made whether or not the version is there already.)
NeverFrozen(id) == FALSE

AlreadyFrozen(id) == id \in Held

\* Snapshot returns a version whose directory exists as it is.
StatDest(p) ==
  /\ pc[p] = "hash"
  /\ loc[p].todo = {}
  /\ Goto(p, IF AlreadyFrozen(loc[p].tree) THEN "receipt" ELSE "mkdir", loc[p])
  /\ UNCHANGED versions
  /\ CommitStep(p)

\* copyTreeReadOnly visits the root, which makes the directory and then
\* reads the names ...
CopyStart(p) ==
  /\ pc[p] = "mkdir"
  /\ MakeDest(loc[p].tree)
  /\ Goto(p, "copy", [loc[p] EXCEPT !.todo = Present])
  /\ CommitStep(p)

\* ... and then the entries.  A file that is already there is read-only.
Taken(id, n) ==
  id \in Held /\ n \in DOMAIN versions[id].files /\ root[n] # Dir /\ ~ Superuser

CopyEntry(p) ==
  /\ pc[p] = "copy"
  /\ loc[p].todo # {}
  /\ LET n == First(loc[p].todo)
         id == loc[p].tree
     IN  \E m \in Follow(n) :
           IF Unreadable(n, m) \/ Taken(id, n)
             THEN Fail(p) /\ UNCHANGED versions
             ELSE /\ CopyFile(id, n, root[m])
                  /\ Goto(p, "copy", [loc[p] EXCEPT !.todo = @ \ {n}])
  /\ CommitStep(p)

CopyDone(p) ==
  /\ pc[p] = "copy"
  /\ loc[p].todo = {}
  /\ Goto(p, "receipt", loc[p])
  /\ UNCHANGED versions
  /\ CommitStep(p)

\* Reading the tree or writing the copy fails; what is copied stays.
SnapshotFails(p) ==
  /\ "copy" \in StoreFaults
  /\ pc[p] \in {"walk", "hash", "mkdir", "copy"}
  /\ Fail(p)
  /\ UNCHANGED versions
  /\ CommitStep(p)

\* io.Copy fails within a file: what was written of it, taken to be nothing,
\* stays as well.
CutShort(p) ==
  /\ "copy" \in StoreFaults
  /\ pc[p] = "copy"
  /\ loc[p].todo # {}
  /\ LET n == First(loc[p].todo)
         id == loc[p].tree
     IN  /\ root[n] # Dir /\ ~ Taken(id, n)
         /\ \E m \in Follow(n) : ~ Unreadable(n, m)
         /\ CopyFile(id, n, Empty)
  /\ Fail(p)
  /\ CommitStep(p)

-----------------------------------------------------------------------------
\* The retention loop runs in the daemon beside the mount.
Retain ==
  /\ RetainStep
  /\ returned' = returned \intersect DOMAIN versions'
  /\ UNCHANGED <<logVars, now, lease, treeVars, procVars, used, gated>>

\* The mount process stops, at any step of any call, and is started again:
\* the tree and the versions stay, the log and everything else is new.
Restart ==
  /\ Restarts
  /\ all' = <<>> /\ last' = NoHash
  /\ views' = {"mount"}
  /\ handle' = [p \in Procs |-> NoHandle]
  /\ pc' = [p \in Procs |-> "idle"]
  /\ loc' = [p \in Procs |-> NoLocals]
  /\ gated' = 0
  /\ UNCHANGED <<now, storeVars, lease, root, call, used, returned>>

Tick ==
  /\ now < MaxTime
  /\ now' = now + 1
  /\ UNCHANGED <<logVars, storeVars, lease, treeVars, procVars, used, histVars>>

\* time.Now().UTC() and a file's mtime are wall-clock time: it may be set back.
StepBack ==
  /\ "clock" \in StoreFaults
  /\ \E t \in 0..MaxTime : t < now /\ now' = t
  /\ UNCHANGED <<logVars, storeVars, lease, treeVars, procVars, used, histVars>>

\* What moves a call on, once it is made.
Step(p) ==
  \/ Check(p) \/ WriteReceipt(p)
  \/ OpenBackend(p) \/ RenameBackend(p) \/ RemoveBackend(p)
  \/ LookBackend(p) \/ ChrootBackend(p)
  \/ MkdirAll(p) \/ TempFile(p) \/ Symlink(p) \/ Readlink(p)
  \/ WalkStart(p) \/ HashFile(p) \/ StatDest(p)
  \/ CopyStart(p) \/ CopyEntry(p) \/ CopyDone(p)
  \/ SnapshotFails(p) \/ CutShort(p)

Next ==
  \/ \E p \in Procs : Invoke(p) \/ Step(p) \/ HandleWrite(p) \/ HandleClose(p)
  \/ Retain
  \/ Restart
  \/ Tick
  \/ StepBack

Spec == Init /\ [][Next]_vars

\* A goroutine runs on, the daemon calls the retention loop again and again,
\* and the clock advances; nobody has to make a call.
FairSpec == /\ Spec
            /\ \A p \in Procs : WF_vars(Step(p))
            /\ WF_vars(Retain)
            /\ WF_vars(Tick)

-----------------------------------------------------------------------------
Labels == {"idle", "check", "receipt", "backend", "promoted", "walk", "hash",
           "mkdir", "copy"}

Trees == UNION {[S -> Files \union [through : Files]] : S \in SUBSET Nodes}
Locals == [verdict : {"none", "allow", "deny", "error"}, todo : SUBSET Nodes, tree : Trees]

CallTypeOK ==
  /\ pc \in [Procs -> Labels]
  /\ call \in [Procs -> Call]
  /\ loc \in [Procs -> Locals]
  /\ \A p \in Procs :
       /\ call[p] = NoCall \/ call[p] \in CallsOf[p]
       /\ pc[p] \in {"receipt", "backend"} => loc[p].verdict # "none"
       /\ pc[p] \in {"walk", "hash", "mkdir", "copy"} => loc[p].verdict = "allow"

TreeTypeOK ==
  /\ root \in [Nodes -> Entries]
  /\ views \subseteq {"mount", "sub"}
  /\ handle \in [Procs -> [node : Nodes \union {0}, write : BOOLEAN]]

SeamTypeOK ==
  /\ now \in 0..MaxTime
  /\ lease \in Leases
  /\ CallTypeOK
  /\ TreeTypeOK
  /\ used \in [Procs -> Nat] /\ \A p \in Procs : used[p] <= MaxCalls[p]
  /\ gated \in Nat

\* A receipt is a decision on some call, and the hashes it carries are those
\* of the log.
Hashes == {NoHash} \union {all[i].hash : i \in 1..Len(all)}
Receipt == [seq : Nat, prev : Hashes, ts : 0..MaxTime,
            subject : {"agent", "<no-lease>"}, space : {Space},
            op : {"read", "write", "list", "stat", "commit"},
            path : [name : Nat, version : Trees],
            verdict : {"allow", "deny", "error"}, hash : Hashes]

LogTypeOK == all \in Seq(Receipt) /\ last \in Hashes

\* A version is a tree of files and directories under the ID of a tree; the
\* loop's plan names such IDs; what Commit returned is held.
FrozenTrees == UNION {[S -> Files \union {Dir}] : S \in SUBSET Nodes}
Frozen == [files : FrozenTrees, created : 0..MaxTime]
Retainer == [pc : {"idle", "list", "prune"}, plan : Seq(Trees), done : Nat,
             ticks : 0..MaxTicks, at : 0..MaxTime]

StoreTypeOK ==
  /\ Held \subseteq Trees /\ IsFiniteSet(Held)
  /\ versions \in [Held -> Frozen]
  /\ ret \in Retainer
  /\ returned \subseteq Held

\* Every value the mount keeps is of its kind: the calls, the tree and the
\* handles; the receipts and the head of their chain; the versions, the
\* retention loop over them, and what Commit returned.
TypeOK == SeamTypeOK /\ LogTypeOK /\ StoreTypeOK
=============================================================================
