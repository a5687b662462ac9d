# A verification of SourceOS

This directory holds TLA+ specifications of the programs in this repository that
keep state, run beside one another, or can be interrupted: the egress gate, the
inception mount with its version store and replicator, the truth plane tools, and the
coreos-assembler wrapper.  Each is modelled step by step from its source,
model-checked with TLC on small instances, and its safety properties are proved
for instances of any size with TLAPS.

`PROJECT.json` is the index: components, runs, the source lines of every
definition, a mutant for every property, findings, hazards and theorems.  Paths
in it and below are relative to the directory that holds the repository as
`src/`; the short names used here (`store.py`, `dev.go`) are unique in it.

Contents

1. The system
2. The modules
3. The egress gate
4. The inception mount
5. The truth plane
6. The build wrapper
7. What is proved
8. What is only model-checked, and what is not modelled
9. Disagreements between code and documents
10. Plan

## 1. The system

SourceOS is an immutable, image-based Linux distribution.  Most of the
repository is declarative (channels, flavors, butane and NixOS files, systemd
units, schemas).  These parts are programs:

| Part | Code | State | Operations | Shares |
|---|---|---|---|---|
| egress gate store | `src/sourceos_gate/store.py` | SQLite tables `replay` and `grants` | install, prune, list active, compute sets | one file for daemon and CLI |
| nft layer | `nft.py`, `nft/sourceos-egress.nft` | three kernel sets behind a default-drop baseline | apply a script, list a set, check the baseline | one ruleset on the host |
| gate operations | `egress.py`, `daemon.py`, `protocol.py`, `audit.py`, the CLI and `egressctl` in `tools/` | an append-only audit log, the connections of clients | install, prune, apply, verify, snapshot, health | the three of the above |
| governance seam | `inception-mount/fs` | lease, hash-chained receipts (memory only), open handles | the billy file system methods, Chroot, Commit | the backend tree |
| version store, retention | `inception-mount/backend` | a directory per frozen version, named by the hash of its tree | Snapshot, List, Plan, Prune, Tick, Converge | the store root, also with a running Commit |
| replicator, btrfs substrate | `replicate.go`, `btrfs_*.go` | none of their own | Send, Receive; privileged ioctls | the store root |
| truth plane | `sourceos_truth_surface.py`, `sourceos_delta_surface.py`, `sourceos_incident.py`, `sourceos_truth_plane_tick.py`, `sourceos_truth_plane_smoke.py` | JSON documents in time-stamped directories, the pointer directory `LATEST` | emit a surface, compare two, report an incident, tick, smoke run | one store for operators and the timer |
| build wrapper | `cosa/build.py` | a cosa work directory, a provenance stub | validate, build | work directory, stub path, the repository being edited; an evidence gate reads the stub |
| the rest | identity hooks, capability validator, compression evaluator | none | one-shot scripts | - |

What makes these parts correct, and hard to test:

* **Gate.**  A `(token_id, nonce)` is accepted once, for ever, although two
  processes install at the same time, prunes delete rows, and any step can be
  the last one before a crash.  The kernel's allowlists are always those of one
  set of accepted grants.  The log and the answers tell the truth, also when a
  later stage of the same request fails, and what a client was told stays true
  after the daemon has died or the power has failed.
* **Mount.**  Every decided call leaves one receipt in a chain that verifies,
  although check, receipt and effect are separate steps of concurrent
  goroutines.  Without the capability nothing changes.  A version is what its
  hash says, never changes, and is retired only by policy, although freezing is
  two walks over a live tree and retiring is a loop over an old listing.  A
  version replicated without an error is whole at the other node.
* **Truth plane.**  A decision is about surfaces that exist and a permit was
  earned, although files are emptied before they are written and any process
  can be killed in between.  Every tool ends.
* **Wrapper.**  What the evidence gate admits was built, whatever failed, and
  from a base that was not there before.
* **Clocks.**  Every part stamps wall-clock time, which can be set back.

The hazards are listed one by one, with their source lines and the properties
that would catch them, under `hazards` in `PROJECT.json`.  Three more are
visible in the models and no property is stated of them, because the documents
promise nothing that could be: a Rename is receipted for one of its two paths,
a restart forgets the receipts, and the wrapper finds out after the build that a
target lies outside the repository (section 9).

## 2. The modules

| Module | What it is |
|---|---|
| `GrantLedger` | abstract: each key accepted once, a held grant let go of only after its expiry |
| `GateStore` | `store.py`: the two tables, one operator per transaction or query, the clock |
| `NftSets` | `nft.py` and the baseline: scripts, what nft makes of them, listings |
| `EgressGate` | the requests of daemon and CLI as steps of processes; faults; the gate's properties |
| `EgressDurability` | extends `EgressGate` by WAL, checkpoints and power failures |
| `GateClient` | composes it with `egressctl` clients and the daemon's socket |
| `EgressGateProofs` | theorems about `EgressGate`: store, kernel, log, refinement of `GrantLedger` |
| `EgressAnswerProofs` | theorems about what the gate answers and records |
| `GateClientProofs` | theorems about clients, daemon and power failures |
| `ReceiptLog` | the ledger of `governance.go` |
| `VersionStore` | `dev.go`'s store and the retention loop of `retention.go`, `retain.go` |
| `InceptionFS` | composes the two: callers, membrane, backend tree, Commit, restart |
| `MountProperties` | properties of the mount |
| `MountProofs`, `MountSeamProofs` | theorems about receipts, leases and expiry |
| `Replicator` | composes the mount with Send, a stream that may break, and Receive |
| `VersionProofs` | theorems about versions, retention and replicas, and the types of the whole mount |
| `TruthPlane` | the five tools as processes over one store |
| `TruthProperties`, `TruthProofs` | their properties and theorems |
| `CosaBuild`, `CosaProperties`, `CosaProofs` | the wrapper, what an admitted stub means, and its proofs |
| `MC...` | small instances for TLC |

Every component is cut into steps at the points where another process, the
clock or a failure can come between: one step per SQLite transaction or query,
per external command, per file system call that others can see, per append to a
log.  Operators marked "(Mutant: ...)" are plausible bugs; they are not used by
the specifications, and stand beside the definition they would replace.

## 3. The egress gate

**State.**  `replay` and `grants` are the two tables, `accepted` the history of
committed grants, `now` the clock and `peak` the latest time it has shown;
`baseline` and `kernel` are the ruleset, `asOf` the time its sets were computed;
`audit` is the log.  Each process has a step (`pc`), its request (`call`), its
local variables (`loc`: the prune cutoff and count, the computed sets, what
verify has listed) and its last answer.  The daemon serves one request at a time
because every gate call in `handle_client` is synchronous; a CLI invocation is
another process.

**Actions.**

| Code | Actions |
|---|---|
| decode and dispatch (`daemon.py`, the CLI's `main`) | `Begin`, `ReadOnly`, `Refuse` |
| `install_grant` | `CheckExpiry`, `Insert` or `InsertRefused`, `AuditInstall`, then apply if asked |
| `prune` | `CountExpired`, `Delete`, `AuditPrune`, then apply if asked |
| `apply` | `RequireBaseline`, `ComputeSets`, `CheckApply`, `RunScript`, `AuditApply` |
| `verify` | `RequireBaseline`, `ComputeSets`, `CheckVerify`, `ListAddrs`, `ListTcp`, `ListUdp`, `AuditVerify` |
| what can go wrong | `StoreFails`, `AuditFails`, `NftMissing` (no nft binary: answered `internal`), `Crash`, `RulesetChange`, `StepBack` (the clock is set back) |
| WAL and power (`GateStore.connect`) | `DOpen`, `DClose`, `DReport`, `DCheckpoint`, `DCrash`, `PowerLoss` |
| `egressctl` (`send`, `main`) | `Connect`, `ConnectRefused`, `Receive`, `NoResponse`, `Interrupt` |
| the daemon's event loop (`serve`, `handle_client`) | `Accept`, `Serve`, `Work`, `Respond`, `Die`, `Restart`, `Outage` |

A target is a network in one of the written forms the code or nft tells apart
(host, host with `/32`, prefix, blank, unparsable); a protocol is normalised as
`install_grant` does it.  The five nft commands of `require_baseline` are one
check, and so are reading the cutoff and counting.

**The clock.**  `time.time()` may step back.  Then a row that was not pruned is
active again, and what was refused as expired may be accepted; so "expired" in
an answer means expired at some time the clock has shown (`peak`), the ledger
lets go of a grant once its expiry was seen, and the kernel's sets are those of
the grants unexpired at `asOf`, not now.

**Clients.**  `egressctl` connects, sends a line and waits without a timeout.
The daemon takes connections and lines only between two requests, since a
request never awaits.  An interrupted client leaves its line in the socket,
where it is still served; a daemon that dies drops what it had accepted.
`Connect` is one step for connect and sendall: a client interrupted between the
two sends nothing, and the daemon's `readline` then gets an empty line and ends
the connection.
Whether other connections survive depends on whose the listening socket is
(systemd's or the daemon's), so the model leaves both open.

**The extra brace.**  Every `add element` line that `apply_sets` writes closes
one brace more than it opens, so nft refuses it.  `ExtraBraceOK = FALSE` is nft
as it is, in `gate_clients`; `TRUE` lets the other runs see what the rest of the
code does.

| Run | Properties | Shows |
|---|---|---|
| `gate_race` | `TypeOK`, `NoReplay`, `KernelIsOneView`, `AuditSound`, `AnswerTellsStore`, `LedgerSpec` | two processes race for one key with two different grants, prune and apply, under every fault and with a target nft refuses |
| `gate_one_writer` | `AppliedIsCurrent`, `VerifiedIsTrue`, `AuditComplete`, `CallsReturn` | where one process writes the kernel and nothing fails, ok answers mean what they say, the log is complete, every request is answered |
| `gate_clients` | `GrantsStayKeyed`, `ToldIsDurable`, `ClientsReturn` | two clients of one daemon that both install a grant, one of them with apply, and prune; interrupts, deaths and restarts, power failures, nft as it is |

*Bounds.*  Two processes, two keys, two networks, two valid ports and an invalid
one, a clock of two or three seconds, in `gate_clients` two clients.  Every property is about at most two
grants or two processes at a time; two keys let a grant and a competitor for its
key meet a third, unrelated one, and the clock crosses every expiry with another
grant still active.  `MaxAccepted` bounds the history that power failures make
grow.  Two clients that want the same key are what it takes for one to be told
what is true of the other.  *Fairness*: for `CallsReturn`, a request under way
goes on, since nothing in the gate waits for another request, and the clock
runs; nobody has to send requests.  For `ClientsReturn`, weakly, the daemon goes
on with a request and is restarted when it has died (`Restart=on-failure`), and
a client reads what has come; strongly, each connection is accepted and its line
served in its turn, because asyncio runs the callbacks of all ready sockets in
order: other requests can delay a client, again and again, but not shut it out.

*Durability.*  A connection is opened per operation; the last one to close
checkpoints the WAL.  With `synchronous=NORMAL` a commit is on disk only after
that.  `ToldIsDurable` holds while the daemon is the only process because its
closing connection is always the last; it does not with a CLI beside it
(section 9).

## 4. The inception mount

**State.**  `lease` (fixed at start), `root` (the backend tree; its nodes are
numbered in the order of the walk), `views` (the mount and the sub-mount
`Chroot` returns), `handle`, the receipts `all` with the head `last`, `versions`
(from the ID, which is the hashed tree itself, to the files frozen under it and
the directory's time), `ret` (the retention loop), and per caller `pc`, `call`,
`loc`.  `gated` and `returned` are histories.

**Actions.**

| Code | Actions |
|---|---|
| a method of `InceptionFS` | `Invoke`, `Check` (the membrane), `WriteReceipt`, then `OpenBackend`, `RenameBackend`, `RemoveBackend`, `LookBackend` or `ChrootBackend` |
| methods promoted from the embedded backend | `MkdirAll`, `TempFile`, `Symlink`, `Readlink`, with no check and no receipt |
| `Commit`, `Snapshot` | `WalkStart`, `HashFile`, `StatDest`, `CopyStart`, `CopyEntry`, `CopyDone`, `SnapshotFails`, `CutShort` (a copy fails within a file), then `WriteReceipt` |
| writes through an open handle | `HandleWrite`, `HandleClose` |
| `Converge`, `Tick`, `Plan`, `Apply` | `StartRetain`, `TickList`, `PruneOne`, `TickEnd`, `ListFails`, `PruneFails` |
| the process stops and is started again; the wall clock | `Restart`; `Tick`, `StepBack` (it is set back) |

Opening a path follows symbolic links; the walks see a link as a file and read
through it, so a version holds a copy of what the link pointed to, under a hash
that knows it was a link, and a link to nothing makes Snapshot fail (`Follow`,
`Hashed`, `Unreadable`).  SHA-256 has no collisions.  The walks are over a tree
of one directory; a listing is one step; `RemoveAll` is one step unless it fails half way; versions
with equal times are sorted in any order, since List's order is that of hashes.
A deletion that fails half way, like a copy, renews the directory's time.

**Receipts.**  `time.Now().UTC()` drops Go's monotonic reading, so receipts need
not be in the order of their stamps, and no property says they are.  What the
chain is for is that it cannot be tampered with unnoticed (`governance.go:77`):
`TamperEvident` says that `Verify` fails on every log with a changed field, with
an inner receipt changed and hashed anew, or with an inner receipt taken out.
It says no more, because `Verify` does not compare the newest hash with `last`:
a newest receipt that is rewritten and hashed anew, or cut off, goes unnoticed.
The fields that are joined with `|` are taken to contain none.
`WritesReceipted` is about the seam: a write that is on its way through an
overriding method, and a file open for writing, each have an allowed receipt of
their own.  What is written through that file afterwards (`HandleWrite`) comes
back to no method and has no receipt of its own, and the promoted methods have
none at all (section 9), which is why the property is about callers that use the
overriding methods.

| Run | Properties | Shows |
|---|---|---|
| `mount_seam` | `ChainVerifies`, `TamperEvident`, `OneReceiptPerCall`, `WritesReceipted`, `FailClosed`, `ExpiryCloses` | two callers at once, under no lease and four kinds of lease, with a clock that is set back; while the lease has lapsed only what was let in before takes effect |
| `mount_commit` | `VersionsImmutable`, `KeepsLast` | two callers commit, one of them also writes; retention, copies that fail or are cut short, failing listings and deletions, restarts, a clock that is set back |
| `mount_converge` | `TypeOK`, `BoundedTick`, `Converges` | the promoted methods too, links included; bounded ticks reach the policy and stay there |
| `replicate` | `ReplicaComplete`, `TransfersEnd` | a version is sent, and sent again into what a failed attempt left, while it is pruned under Send, the stream breaks anywhere and nobody need close it |
| `claim_lease` (violated) | `NoLeaseNoAccess` | `MkdirAll` changes the tree with no lease |
| `claim_frozen` (violated) | `FrozenIsContent` | a write between the two walks freezes another tree than the one pinned |

*Bounds.*  Two callers, one with one call and the other with two (in
`mount_converge` one caller with three), two nodes, one data value besides the
empty file, a clock up to 2 (before, at and after the expiry of the lease and of
the retention window; up to 1 in `mount_commit`, whose policy counts versions
and not time), up to three versions.  Two nodes are enough for a walk to have a
before and an after; two calls for one to find what another left.
*Fairness*: for `Converges`, a goroutine runs on, the daemon calls the loop
again and again, the clock advances; its run does not set the clock back, since
versions that a clock calls new again are kept again.  For `TransfersEnd`, Send
and Receive run on; nobody has to close the stream.  Deadlock is not checked,
because callers stop after `MaxCalls`.

**Versions.**  `VersionsImmutable` is about a version that was returned and is
settled, that is, under whose ID no Commit is copying: then none ever does, and
its files stay as they are until it is pruned.  Of two Commits that both find no
directory, both copy into the same one; the version the first returns is not
settled until the other is through (section 9).

**Replication.**  `sender`, `stream`, `receiver` and `replica` are Send, the tar
stream, Receive and the directory at the other node.  `SendWalk`, `SendHeader`,
`SendBody` and `SendDone` are the walk, `ReceiveEntry`, `ReceiveEnd` and
`ReceiveFails` the loop, `Break` the transport; the mount and its retention loop
run beside them (`MountStep`).  A tar reader takes an end at the boundary of an
entry for the end of the archive, with or without a trailer, so a stream is its
entries, whether the last is filled, and that it has ended: by the trailer, by
`Break`, or because the caller of Send closes `w` (`Hangup`, which need not
happen).  `Send` only defers `tw.Close`, which writes no trailer after an entry
that was announced and not filled (`Unfilled`, `Close`): a file that is gone or
shorter when it is opened leaves the stream open in the middle of an entry, and
if it was the last and merely shorter, Send even returns nil.  `TransfersEnd`
therefore says that Send returns, and Receive too, unless it waits for the rest
of such an entry on a stream nobody has closed.  `Receive`
returns nil for a part of a version; that the replica is complete
takes Send's nil as well, which is what `ReplicaComplete` says, of a version
that was returned and settled when Send began.  The run has a
tree of a file, a directory and an empty file, which is every case of the walk,
and two transfers, the second over the leavings of the first.  Receive runs as
root there; otherwise a second attempt fails on the read-only files of the first
(`Superuser = FALSE`).  A transport that accepts bytes and loses them is not
modelled.

## 5. The truth plane

**State.**  `files` gives each path of the layout a stage (no directory, a
directory, an empty file, a whole document, the overlay of two) and the document
in it; `emitted` is the history of surfaces; each process has its arguments, the
document it is about to write and what it has read.

**Actions.**  `Start`; `InitStore` (the tick's first statement);
`BuildSurface`, `BuildDelta`, `BuildIncident`; `MakeDir`, `OpenFile`,
`WriteFile` (`_write_json`); `ListSurfaces` (`_latest_two_surfaces`),
`ReadFrom`, `ReadTo`, `PointLatest`; `SmokeFirst`, `SmokeSecond`, `SmokeStore`,
`SmokeReport` (the smoke harness: it builds two surfaces, stores both, compares
what it has in memory and ends with an incident event); `Kill`; `Tick`,
`StepBack` (`time.gmtime()` is set back).

`write_text` truncates and writes in one `write` call; when two processes have
the same file open, the longer text may stick out behind the shorter.
`HasInitStore` says whether `gate.init_store`, which the tick calls and no
module defines at this commit, exists; `truth_crowd` supplies it to look at
everything after that call.

| Run | Properties | Shows |
|---|---|---|
| `truth_crowd` | `TypeOK`, `DeltaSound`, `LatestIsNewest`, `TickComparesOwn`, `Ends` | a timer and an operator, who also runs the smoke harness, in the same seconds and directories, killed anywhere, while the clock is set back |
| `claim_tick` (violated) | `TicksSucceed` | at this commit the first tick fails |

The clock may be set back at any time.  Then a tick's directory need not be the
one named last, and `LATEST`, which the tick then points at its own surface, is
not the surface with the latest stamp.  `LatestIsNewest` therefore speaks of the
order in which surfaces were emitted, and holds whatever the clock did.
`TickComparesOwn` has to exclude the case: a tick below a directory of a later
time compares that directory with `LATEST`, and its own surface with nothing.

*Bounds.*  Two processes, two runs of the timer and one of the operator (a smoke
run, with the fixed times and identifiers of `--deterministic`, emits two
surfaces), two seconds, one plane: enough for two surfaces in one second, for two
in two, for two in the wrong order, for a comparison that meets a file at every
stage, and for a tick that finds `LATEST` empty.  *Fairness*: a process
that runs goes on running; nobody has to start one.  Deadlock is not checked,
because processes stop after `MaxRuns`.

## 6. The build wrapper

**State.**  The manifests and flavors that are there; the host; the latest base
build of each work directory and its number; the provenance files; the
processes; `made`, the history of what each run built.

**Actions.**  `Begin` (resolve, validate, semantic checks; the target's file may
be gone), `CheckHost` (`builder_available`, `plan_commands`), `RunCommand`,
`CommandFails`, `CommandRaises`, `BuildProvenance`, `OpenProvenance`,
`WriteProvenance`; around them `Edit`, `CosaGone`, `Kill`.  cosa, git and the
evidence gate are external: `cosa build` needs the manifest when it runs and
becomes the latest build of its work directory; `buildextend` makes an image of
the latest build; the gate admits a stub that says PASS and lists no blockers.
The revision and the digests in the stub are left out: they are read from the
work tree after the build, nothing ties them to what cosa read (section 9), and
no state depends on them.

`cosa_shared` checks `PassMeansBuilt` and `FreshImages` with two processes of
two runs each, two work directories of which one is shared, one stub path,
formats that the base build makes and formats that it does not, a host with and
one without KVM, and files that are deleted and restored.  `FreshImages` is what
holds of a directory that is shared (the default, `/srv/cosa`, is) and kept: an
admitted run's images are of its own base or of one that was made after it,
never of one it found there.  Two runs per process let an earlier run of the
same process, of the other, and one under way leave a base.  Deadlock is not
checked, because processes stop after `MaxRuns`.

## 7. What is proved

Every safety invariant and action property that a passing run checks is also a
theorem.  Unless the last column says otherwise they hold for any number of
processes, callers, keys, requests and runs, under all faults, a clock that is set
back included, and for any clock bound.  They rest on the named ASSUMEs of the
modules (requests are such as the parsers let through, bounds are naturals,
marker values differ from data), which TLC evaluates in the runs.

| Theorem | Statement | Inductive invariant | Where |
|---|---|---|---|
| `EgressGateProofs!TypeCorrect` | every state is well typed, the table finite | `IType` | |
| `!ReplayProtection` | `NoReplay` | `StoreInv`: every accepted key is in `replay`; without it a fresh key could be one accepted before | |
| `!KernelShowsOneView` | `KernelIsOneView` | `ViewInv`: the sets each process carries are those of accepted grants unexpired at the time it read them, since they are read in one step and used in a later one | |
| `!AuditTellsTruth` | `AuditSound` | `ViewInv`: a process about to record an install has committed it | |
| `!ImplementsLedger` | `Spec => GrantLedger!Spec`, table for table | `CutoffInv`: no cutoff is later than the latest time the clock has shown, also after it was set back, so a late DELETE drops only grants whose expiry was seen | |
| `EgressAnswerProofs!AnswersAreTrue` | `AnswerTellsStore` | `PathInv`, a process is at a step of its own request; `AnswerInv`, an install that has reached its apply stage is committed and recorded | |
| `!AuditMissesNothing` | `AuditComplete` | each accepted grant is recorded or owed by the process that committed it | `LogKept` |
| `!VerifyIsRight` | `VerifiedIsTrue` | `VerifyInv`: what verify has listed so far is still what the kernel holds | `OneWriter` |
| `!OkMeansAdmitted` | `AppliedIsCurrent` | `AppliedInv`: the sets on their way to the kernel already cover every active grant | `OneWriter`, clock not set back |
| `GateClientProofs!NoGrantWithoutKey` | `GrantsStayKeyed` | itself, with types | |
| `!ToldIsTrue` | `ToldIsDurable` | `DaemonInv`, what is committed is on the disk once the connection is closed, before the answer; `ToldInv`, of two clients at most one holds a key, whether it is being served, has its answer on the way, or has it | the daemon alone, as `GateClient` has it |
| `MountProofs!ChainAlwaysVerifies` | `ChainVerifies` | `ChainInv`: the head is the hash of the newest receipt | |
| `!LogIsTamperEvident` | `TamperEvident` | types and a chain that verifies; the hash tells payloads apart (`Sha256` is injective by definition) | |
| `!MountFailsClosed` | `FailClosed` | `Shut`: besides an unchanged tree and store, no handle is open for writing and no call past the membrane is a write | |
| `!ReceiptForEachCall` | `OneReceiptPerCall` | `CountInv` | |
| `MountSeamProofs!WritesAreReceipted` | `WritesReceipted` | `WriteInv`: nobody is at the backend but through the membrane, with an allowed verdict; a call that opens a file for writing turns its claim on a receipt into the handle's | |
| `!ExpiryShutsMount` | `ExpiryCloses` | types and `ThroughGate` | |
| `VersionProofs!MountTypeCorrect` | `TypeOK`: every variable, receipts, versions and retention included | itself, with a count of the ticks left (`TicksLeft`) | |
| `!TickIsBounded` | `BoundedTick` | `RetainInv` | |
| `!RetentionKeepsLast` | `KeepsLast` | `RetainInv`: the versions a plan spares are at least `KeepLast`, whatever was committed since it was listed | |
| `!ReturnedNeverAltered` | `VersionsImmutable` | `VersionInv`: types, in which every returned version is held, so that a Commit which would come to copy it finds it | |
| `!ReplicaIsComplete` | `ReplicaComplete` | `ReplicaInv`: what is left of the source is in the replica, on the stream, or still to be walked; the stream carries what the source holds | |
| `TruthProofs!StoreTypeCorrect` | `TypeOK` | `PlaneInv` | |
| `!DecisionsAreSound` | `DeltaSound` | `PlaneInv`: what is stored, what was read and what is about to be written are surfaces that were emitted, or decisions about such | |
| `!PointerIsNewest` | `LatestIsNewest` | `TimerInv`: identifiers are drawn in the order in which surfaces are emitted; while a timer alone has run, its surface is the one emitted last, it is stored before the listing, what LATEST holds was emitted before, and the pointer is right when a tick ended well | `TimersOnly` |
| `!TicksCompareTheirOwn` | `TickComparesOwn` | `TimerInv` | `TimersOnly` |
| `CosaProofs!AdmittedWasBuilt` | `PassMeansBuilt` | `BuildInv`: the commands of the plan before the next one have left what they make, a reporting run that is not dry is complete, and a filed stub's run is over | |
| `!ImagesAreFresh` | `FreshImages` | `OwnInv`: once a run is past its base build, the latest base of its work directory is its own or one with a later number | |

The hypotheses of the last column are about the instance.  Each is satisfied by
the run that checks the property, and TLC finds the statement violated on an
instance without it:

* `LogKept` (no crash, the log can be written; `gate_one_writer`): otherwise an
  effect can stay without its record (section 9).
* `OneWriter(w)` (only `w` is root, installs and verifies, nobody else touches
  the ruleset; others may prune, read and try to apply; `gate_one_writer`):
  another writer can change the kernel between verify's three listings, and an
  install elsewhere makes an earlier apply out of date.  `OkMeansAdmitted` also
  needs a clock that is not set back, which makes expired grants active again.
* `TimersOnly` (a process that ticks does nothing else, on one plane, as the
  systemd timer does; `truth_crowd`): the two properties are about a store that
  one timer alone has used; the same process emitting a surface with a time
  stamp of its own, or ticking on a second plane, would break both.

No theorem has a hypothesis about the CLI beside `GateClient`'s daemon, because
that module has no other process; with one, the daemon's closing connection need
not be the last, and `ToldIsDurable` fails (section 9).

Each proof goes the same way: lemmas say what any step does to one part of the
state (`StoreSteps`, `LogSteps`, `ActMoves`, `ActMakes`, ...), the preservation
of an invariant follows action by action, and the temporal theorem combines the
two facts.  Every statement was model-checked before it was proved.
The plan of the wrapper (`PlanCommands`) is covered by lemmas of its own: every
format that has to be extended has a rank among those that do (`NthOfRank`), so
running the whole plan leaves every format of a valid target (`PlanCovers`).

## 8. What is only model-checked, and what is not modelled

Only model-checked: the liveness properties `CallsReturn`, `ClientsReturn`,
`Converges`, `TransfersEnd` and `Ends` (fairness and ENABLED are out of the
prover's reach).  What a recursive definition computes for every input cannot be
proved either (induction over data and RECURSIVE operators are out of reach);
the modules with theorems use none, which is why the wrapper's plan picks the
formats to extend by rank and not with `SelectSeq`.

Not modelled:

* the btrfs substrate: each of its methods is one privileged ioctl or pipe whose
  behaviour is the kernel's;
* directories within directories, and the NFS server in front of the mount,
  which is a library and only calls the methods modelled here;
* the smoke harness's `--validate` (an external schema checker) and
  `--egress-demo` (a sequence of the gate's requests);
* `installed_at`, fingerprints, placeholder signatures, formatting and logs;
* comparisons of documents that are not surfaces (`sourceos_delta_surface.py`
  takes any JSON file, and permits one that has neither evidence nor governance);
* a power failure's effect on the truth plane's files, which are not synced;
* the revision and the digests in a provenance stub;
* stateless scripts and declarative files: the identity hooks print or write one
  file; `validate_package.py`, `cc_eval.py` and `fog-preflight.sh` read files
  once, one after another, and print a verdict, so there is no state, no other
  actor and no order of steps to get wrong.

## 9. Disagreements between code and documents

With a run that shows them (`findings` in `PROJECT.json`): the promoted methods
(`claim_lease`), the two walks of Snapshot (`claim_frozen`), the missing
`init_store` (`claim_tick`).

Met while modelling, and visible in the models as actions, in a constant or in
the guard of a property, without a run of their own:

* The extra brace (`nft.py:80`) makes nft refuse every apply with an active
  grant, so that the gate never admits anything (`ExtraBraceOK = FALSE`);
  `docs/TRUTH_PLANE_RUNBOOK.md:140` says "the gate can apply allowlist changes".
* `store.py:143` forgets which ports belong to which targets and the chain tests
  the sets independently, so two grants admit a target of one at a port of the
  other; `docs/TRUTH_PLANE.md:215` says "only for granted targets/ports within
  TTL".
* Nothing applies when a grant expires (`egress.py:62`); `docs/TRUTH_PLANE.md:111`
  says "When TTL expires, rules are removed".
* `nft -j` lists a prefix as an object, so verify fails for every CIDR target
  (`nft.py:111`); `docs/TRUTH_PLANE_RUNBOOK.md:178` says targets are "IP/CIDR".
* A crash between an effect and its audit record leaves the effect without one
  (`egress.py:46`); `docs/TRUTH_PLANE.md:24` says "every meaningful action emits
  an immutable record".  Hence the guard of `AuditComplete`.
* With several processes a power failure can make the store forget an install
  that was reported (`store.py:45`); `docs/TRUTH_PLANE.md:87` says "Replay-cache
  prevents grant reuse".  Hence one daemon and no CLI in `gate_clients`.
* A call that was let in takes effect after the lease's expiry
  (`inceptionfs.go:83`); `governance.go:38` says "hard expiry".
  `ExpiryCloses` says that nothing else does.
* Symlink is promoted as well, so a link can be made with no lease; what it
  points to is then opened under the receipt of the link's own path.
* What is written through a file that was opened under a lease, and what the
  promoted methods write, has no receipt of its own (`inceptionfs.go:26` and
  112); `governance.go:46` says "writes still emit receipts".  Hence the form of
  `WritesReceipted`.
* `Receive` returns nil for a stream that ended at the boundary of an entry,
  and `Send` writes a trailer even when its walk failed between two entries
  (`replicate.go:31`); `replicate.go:18` says "Receive reconstructs a version".
* `Send` leaves the stream without a trailer, and open, after an entry that it
  announced and could not fill, and drops the error of `tw.Close`; Receive then
  waits until the caller of Send closes `w`, which nothing says it has to
  (`replicate.go:30`).  Hence the exception in `TransfersEnd`.
* Rename is checked and receipted for the old path only (`inceptionfs.go:144`);
  `governance.go:78` says "the mount's whole access history is verifiable".
* A failed copy leaves a directory that the next Snapshot takes for the version
  (`dev.go:62`), also when a file in it was cut short; of two Commits of one tree
  the second may return what the first is still filling, or copy over what the
  first has returned; retention can delete it meanwhile.  Comments say
  "content-identical version already frozen" and "immutable snapshot".  Hence
  `Settled` in `VersionsImmutable`.
* Committing earlier content again does not renew its time, so retention prunes
  the version committed last before older ones (`dev.go:63`);
  `retention.go:22` says "keep the N most-recent versions".
* Two documents of one kind in one second leave one (`sourceos_truth_surface.py:263`).
* `LATEST` sorts after every time stamp, so a tick would compare the newest
  surface with the previous copy, in that order
  (`sourceos_truth_plane_tick.py:55`); line 9 says "between the latest two".
  `TickComparesOwn` says what holds, in the direction the code has it.  After the
  clock was set back a tick compares neither side with its own surface.
* A smoke run without `--deterministic` usually has both surfaces in one second,
  so the second overwrites the first, to which the delta then refers.  Its
  egress demo uses fixed tokens and nonces, so on the same store it succeeds
  once and is answered replay ever after.
* `python tools/sourceos_truth_plane_smoke.py`, as the documents have it, ends
  with "No module named 'tools'" unless the repository's root is on Python's
  path; the same holds of the tick.
* `sourceos_delta_surface.py:201` stores every delta under `system.sealed`.
* The wrapper digests its inputs, and asks git for the revision, after the build
  (`build.py:255`), so an edit meanwhile is attested as the input of the build;
  the digests are not in the model.
* Two runs with the default work directory may extend one another's base
  (`build.py:341`); `FreshImages` says what remains.
* A target file outside the repository builds and then raises
  (`build.py:246`); `cosa/WIRING.md:47` says "on success the wrapper emits".

## 10. Plan

Done: sections 3 to 7.  The order was by what fails worst: the gate decides what
leaves the host, the mount what an agent may change, the truth plane and the
wrapper what is permitted and promoted.  What remains of the code is either
external, declarative or stateless (section 8), and every safety property that
is checked is proved.  What could still be proved:

1. The hypotheses, weakened where the code allows it: `TimersOnly`, for
   operators who never give a time or an identifier of their own.
2. The liveness properties by hand-written arguments: what each step of a fair
   process decreases, as an invariant that a prover can check.
