----------------------------- MODULE MCMount -----------------------------
(***************************************************************************)
(* Small instances of the governed mount.                                  *)
(***************************************************************************)
EXTENDS MountProperties, TLC

CONSTANTS a, b,     \* callers
          x         \* what they write

C(m, view, path, to, flags) ==
  [m |-> m, view |-> view, path |-> path, to |-> to, flags |-> flags]
On(m, path) == C(m, "mount", path, path, {})
Sub(m, path) == C(m, "sub", path, path, {})
Commit == On("Commit", 1)

L(space, r, w, exp) == [subject |-> "agent", space |-> space, canRead |-> r,
                        canWrite |-> w, expiry |-> exp]
ReadOnlyLease  == L(Space, TRUE, FALSE, 0)
ReadWriteLease == L(Space, TRUE, TRUE, 0)
Expiring       == L(Space, TRUE, TRUE, 1)
WriteOnly      == L(Space, FALSE, TRUE, 0)
OtherSpace     == L("elsewhere", TRUE, TRUE, 0)

Once == [p \in Procs |-> 1]
Twice == [p \in Procs |-> 2]
OnceAndTwice == a :> 1 @@ b :> 2
Thrice == [p \in Procs |-> 3]

\* Two callers at once, on every kind of lease.
SeamCalls ==
  a :> {C("OpenFile", "mount", 1, 1, {"TRUNC"}), On("Create", 2), On("Remove", 1), Commit}
    @@ b :> {C("Rename", "mount", 1, 2, {}), On("Chroot", 2), Sub("Create", 1)}
SeamLeases == {NoLease, ReadOnlyLease, Expiring, WriteOnly, OtherSpace}
OneLease == {ReadWriteLease}
OneFile == <<x, Absent>>

\* One caller commits while another changes the tree.
CommitCalls ==
  a :> {Commit}
    @@ b :> {On("Create", 2), On("Remove", 1)}

\* Two commit at once, one of them changing the tree as well.
TwoCommitters == a :> {Commit} @@ b :> {C("OpenFile", "mount", 1, 1, {"TRUNC"}), Commit}

\* One caller, in turn: the ways to change the tree, to look at it, and Commit.
AloneCalls ==
  a :> {On("Create", 1), On("Create", 2), On("MkdirAll", 2), On("TempFile", 2),
        C("Symlink", "mount", 2, 1, {}), On("Readlink", 2), On("Open", 2), On("Lstat", 1),
        Commit}

\* A caller that only makes directories.
MkdirCalls == a :> {On("MkdirAll", 2)}
=============================================================================
