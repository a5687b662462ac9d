-------------------------- MODULE TruthProperties --------------------------
(***************************************************************************)
(* What the documents in the store may be relied on for, and what the      *)
(* repository's documentation says of them.                                *)
(***************************************************************************)
EXTENDS TruthPlane

SurfaceDocs ==
  [type : {"TruthSurface"}, id : Ids, plane : Planes, created : Stamps,
   required : SUBSET STRING, present : SUBSET STRING, risk : Nat, threshold : Nat,
   needsApproval : BOOLEAN, approved : BOOLEAN]
DeltaDocs ==
  [type : {"DeltaSurface"}, id : Ids, from : Ids, to : Ids, created : Stamps,
   status : {"permit", "deny", "needs_more_evidence"}]
IncidentDocs ==
  [type : {"IncidentEvent"}, id : Ids, event : Events, created : Stamps]

Docs == SurfaceDocs \cup DeltaDocs \cup IncidentDocs

(* The documents that belong at a path of each kind. *)
DocsAt(path) ==
  CASE path[1] = "surfaces" -> SurfaceDocs
    [] path[1] = "deltas" -> DeltaDocs
    [] path[1] = "incidents" -> IncidentDocs
    [] OTHER -> Docs

(* Each file holds a document of the kind its place in the layout is for,  *)
(* or no document at all, and so does what each process is about to write  *)
(* there: the tools never mix up their directories.                        *)
TypeOK ==
  /\ now \in Stamps
  /\ uuids \in Nat
  /\ files \in [Paths -> [is : Stages, doc : Docs \cup {None}]]
  /\ \A path \in Paths :
       files[path].doc \in IF files[path].is = "whole" THEN DocsAt(path) ELSE {None}
  /\ \A p \in Procs : procs[p].pc \in {"mkdir", "open", "write"} =>
       procs[p].path \in Paths /\ procs[p].doc \in DocsAt(procs[p].path)
  /\ emitted \subseteq SurfaceDocs

-----------------------------------------------------------------------------
(* compute_gate and build_delta: a decision in the store is one about      *)
(* surfaces that were really emitted, never about a file caught half       *)
(* written; a permit was given to a surface with all its required          *)
(* evidence, within the risk threshold, and approved if it had to be.      *)
Earned(s) == Missing(s) = {} /\ s.risk <= s.threshold /\ (s.needsApproval => s.approved)

Sound(d, surfaces) ==
  \E s, t \in surfaces :
    s.id = d.from /\ t.id = d.to /\ (d.status = "permit" => Earned(t))

DeltaSound ==
  \A path \in Paths :
    files[path].is = "whole" /\ files[path].doc.type = "DeltaSurface"
      => Sound(files[path].doc, emitted)

(* The random identifiers are numbered in the order they were drawn, so    *)
(* that one of two surfaces was emitted before the other.                  *)
Before(s, t) == s.id[1] = "uuid" /\ t.id[1] = "uuid" => s.id[2] < t.id[2]

(* sourceos_truth_plane_tick.py, main: as long as nobody but one timer has *)
(* used the store, whenever a tick has ended well LATEST holds, whole, the *)
(* surface of the directory of its own time stamp, and every surface in    *)
(* another directory was emitted before it: also after ticks that were     *)
(* killed anywhere, and also when the clock was set back, so that          *)
(* directories named after later times are there.                          *)
LatestIsNewest ==
  \A p \in Procs :
    /\ procs[p].result = <<"tick", "ok">>
    /\ \A q \in Procs \ {p} : procs[q].runs = 0
    => \A plane \in Planes : Dirs(plane) # {} =>
         LET latest == files[SurfacePath(plane, LATEST)] IN
         /\ latest.is = "whole"
         /\ files[SurfacePath(plane, latest.doc.created)] = latest
         /\ \A d \in Stamps \ {latest.doc.created} :
              Readable(SurfacePath(plane, d))
                => Before(files[SurfacePath(plane, d)].doc, latest.doc)

(* sourceos_truth_plane_tick.py, _latest_two_surfaces: as long as nobody   *)
(* but one timer has used the store, and no directory has the name of a    *)
(* later time than the tick's own (as it has once the clock was set back,  *)
(* when the tick compares that one with LATEST and its own with nothing),  *)
(* the delta that a tick writes compares the surface this tick emitted     *)
(* with the one LATEST still holds, its own on the `from' side, or, before *)
(* there is a LATEST, with that of an older directory, its own on the `to' *)
(* side; and the other one was emitted before, by another tick.            *)
TickComparesOwn ==
  \A p \in Procs : LET q == procs[p] IN
    /\ q.pc \in {"mkdir", "open", "write"}
    /\ q.job.tool = "tick" /\ q.doc.type = "DeltaSurface"
    /\ \A o \in Procs \ {p} : procs[o].runs = 0
    /\ \A d \in Dirs(q.job.plane) \ {LATEST} : d <= q.surface.created
    => \E d \in Dirs(q.job.plane) \ {q.surface.created} :
         LET other == files[SurfacePath(q.job.plane, d)].doc IN
         /\ LATEST \in Dirs(q.job.plane) => d = LATEST
         /\ IF d = LATEST
            THEN q.doc.from = q.surface.id /\ q.doc.to = other.id
            ELSE q.doc.from = other.id /\ q.doc.to = q.surface.id
         /\ Before(other, q.surface)

(* Every tool that was started ends, also when what it has to read is      *)
(* being written, was left half written, or is not there.                  *)
Ends == \A p \in Procs : ~At(p, "idle") ~> At(p, "idle")

-----------------------------------------------------------------------------
(* sourceos_truth_plane_tick.py:4, "a minimal, repeatable local pipeline": *)
(* a tick that is not killed does not fail.                                *)
TicksSucceed == \A p \in Procs : procs[p].result # <<"tick", "failed">>
=============================================================================
