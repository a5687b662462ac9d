--------------------------- MODULE CosaProperties ---------------------------
(* What a provenance stub that the evidence gate admits may be relied on for. *)
EXTENDS CosaBuild

(* The evidence gate (external): PASS and no blockers; the hash of the     *)
(* inputs is never empty.                                                  *)
Admitted == {o \in Outputs : /\ provs[o].is = "whole"
                             /\ provs[o].doc.result = "PASS"
                             /\ provs[o].doc.blockers = {}}

(* cmd_build: a stub that is admitted belongs to a run that really built   *)
(* every format its target declares, whatever failed, was killed, or wrote *)
(* to the same file in between; no dry run is ever admitted.               *)
PassMeansBuilt ==
  \A o \in Admitted : LET doc == provs[o].doc IN
    \A f \in Range(doc.target.formats) : \E m \in made[doc.run] : m.fmt = f

(* cmd_build: the images of an admitted run are images of its own base     *)
(* build, or of a later one that was made meanwhile in the same work       *)
(* directory (/srv/cosa unless another is named); never of one that was    *)
(* there before, whichever commands of this or of earlier runs failed.     *)
FreshImages ==
  \A o \in Admitted : LET run == provs[o].doc.run IN
    \A m \in made[run] : \E own \in made[run] :
      /\ own.base.run = run /\ own.dir = m.dir
      /\ own.base = m.base \/ own.base.n < m.base.n
=============================================================================
