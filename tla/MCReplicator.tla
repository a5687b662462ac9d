---------------------------- MODULE MCReplicator ----------------------------
(***************************************************************************)
(* A small instance of the replicator over one mount.                      *)
(***************************************************************************)
EXTENDS Replicator, MCMount

\* One caller commits a tree of a file, a directory and an empty file.
CommitOnly == a :> {Commit}
SmallTree == <<x, Dir, Empty>>
=============================================================================
