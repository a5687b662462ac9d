----------------------------- MODULE TruthPlane -----------------------------
(***************************************************************************)
(* The truth plane: the tools that write truth surfaces, delta surfaces    *)
(* and incident events under one store root, and the tick that a systemd   *)
(* timer runs.                                                             *)
(*                                                                         *)
(*   tools/sourceos_truth_surface.py      emit a surface                   *)
(*   tools/sourceos_delta_surface.py      compare two surfaces and gate    *)
(*   tools/sourceos_incident.py           emit an incident event           *)
(*   tools/sourceos_truth_plane_tick.py   surface, delta, LATEST pointer   *)
(*   tools/sourceos_truth_plane_smoke.py  two surfaces, delta, incident    *)
(*                                                                         *)
(* Every run of a tool is a process of its own; nothing locks the store.   *)
(* A file is written by making its directory, opening it (which empties    *)
(* it) and writing its text, and others run between these steps.  The      *)
(* hashes and placeholder signatures that each document carries are        *)
(* functions of the document and are left out.                             *)
(***************************************************************************)
EXTENDS Naturals, FiniteSets

CONSTANTS
  Procs,       \* the processes: a timer, operators' shells
  RequestsOf,  \* what each process may be asked to run, as records
  Planes,      \* the planes in use, "system.sealed" among them
  Events,      \* the names of incident events in use
  Names,       \* the names operators give to documents (--id, --id-suffix)
  Outs,        \* the names of explicit output files (--out)
  HasInitStore,\* does sourceos_gate_egress define init_store, as the tick assumes?
  MayKill,     \* may processes be killed?
  None,        \* what a process or an empty file has instead of a job or a document
  MaxTime,     \* bound: the last second of the clock
  MaxRuns      \* bound: runs of each process

VARIABLES
  now,      \* the clock, in seconds
  uuids,    \* how many random identifiers were drawn
  files,    \* the store: what there is at each path
  procs,    \* the state of each process
  emitted   \* history: every surface that was ever built

vars == <<now, uuids, files, procs, emitted>>

-----------------------------------------------------------------------------
(* The layout of the store.  The time stamp of a document, in seconds, is  *)
(* the name of its directory; LATEST sorts after every time stamp.         *)

Stamps == 0..MaxTime
LATEST == MaxTime + 1

SurfacePath(plane, dir) == <<"surfaces", plane, dir>>
DeltaPath(plane, dir) == <<"deltas", plane, dir>>
IncidentPath(event, dir) == <<"incidents", event, dir>>
OutPath(name) == <<"out", name, 0>>

SurfacePaths == {SurfacePath(pl, d) : pl \in Planes, d \in Stamps \cup {LATEST}}
DeltaPaths == {DeltaPath(pl, d) : pl \in Planes, d \in Stamps}
IncidentPaths == {IncidentPath(e, d) : e \in Events, d \in Stamps}
Paths == SurfacePaths \cup DeltaPaths \cup IncidentPaths
           \cup {OutPath(o) : o \in Outs}

NoPath == <<"none", "none", 0>>
NoResult == <<"none", "none">>

(* A path has no directory, a directory without the file, an empty file,   *)
(* a whole document, or the overlay of two.                                *)
Stages == {"none", "dir", "empty", "whole", "garbled"}

Exists(path) == files[path].is \in {"empty", "whole", "garbled"}
Readable(path) == files[path].is = "whole"

-----------------------------------------------------------------------------
(* What the five tools are asked to do: their arguments, with the values   *)
(* they take for the ones not given.  An argument that may be absent is a  *)
(* set of at most one value.  The tick's options only add to its evidence. *)

SurfaceArgs(plane, id, at, required, present, risk, needsApproval, approved, out, print) ==
  [tool |-> "surface", plane |-> plane, id |-> id, at |-> at,
   required |-> required, present |-> present, risk |-> risk, threshold |-> 30,
   needsApproval |-> needsApproval, approved |-> approved,
   out |-> out, print |-> print]

TickArgs(plane, id, required, present) ==
  [tool |-> "tick", plane |-> plane, id |-> id, at |-> {},
   required |-> {"logs", "policy_decision"} \cup required,
   present |-> {"logs"} \cup present, risk |-> 0, threshold |-> 30,
   needsApproval |-> FALSE, approved |-> FALSE, out |-> {}, print |-> FALSE]

DeltaArgs(from, to, id, at, out, print) ==
  [tool |-> "delta", from |-> from, to |-> to, id |-> id, at |-> at,
   out |-> out, print |-> print]

IncidentArgs(event, id, at, out, print) ==
  [tool |-> "incident", event |-> event, id |-> id, at |-> at,
   out |-> out, print |-> print]

(* The smoke harness: the namespaces ns0 and ns1 of its two surfaces, and  *)
(* the identifier and time of its delta, all fixed under --deterministic   *)
(* and left open otherwise.  It has no --out and writes to the store only. *)
SmokeArgs(ids, at) ==
  LET ns(n) == SurfaceArgs("system.sealed", ids[n], at[n], {"logs", "policy_decision"},
                           {"logs", "policy_decision"}, 0, FALSE, FALSE, {}, FALSE)
  IN  [tool |-> "smoke", ns0 |-> ns(1), ns1 |-> ns(2), plane |-> "system.sealed",
       id |-> ids[3], at |-> at[3], event |-> "incident.freeze", out |-> {}, print |-> FALSE]

(* A random identifier, an event's named after its time, or a given one.   *)
GivenIds == Names \X {0}
Ids == ({"uuid", "evt"} \cup Names) \X Nat

SurfaceRequests ==
  [tool : {"surface", "tick"}, plane : Planes, id : SUBSET GivenIds, at : SUBSET Stamps,
   required : SUBSET STRING, present : SUBSET STRING, risk : Nat, threshold : Nat,
   needsApproval : BOOLEAN, approved : BOOLEAN, out : SUBSET Outs, print : BOOLEAN]

Requests ==
  SurfaceRequests
  \cup
  [tool : {"smoke"}, ns0 : SurfaceRequests, ns1 : SurfaceRequests, plane : Planes,
   id : SUBSET GivenIds, at : SUBSET Stamps, event : Events, out : SUBSET Outs, print : BOOLEAN]
  \cup
  [tool : {"delta"}, from : SurfacePaths, to : SurfacePaths, id : SUBSET GivenIds,
   at : SUBSET Stamps, out : SUBSET Outs, print : BOOLEAN]
  \cup
  [tool : {"incident"}, event : Events, id : SUBSET GivenIds,
   at : SUBSET Stamps, out : SUBSET Outs, print : BOOLEAN]

(* The requests are fewer than the tools' argument parsers let through: a  *)
(* comparison is asked for only of two places where the layout has         *)
(* surfaces, although --from and --to take any JSON file (and one without  *)
(* evidence or governance would be permitted).                             *)
ASSUME RequestsAssumption ==
  /\ \A p \in Procs : RequestsOf[p] \subseteq Requests
  /\ "uuid" \notin Names
  /\ "system.sealed" \in Planes
  /\ MaxTime \in Nat /\ MaxRuns \in [Procs -> Nat]

-----------------------------------------------------------------------------
(* Documents.                                                              *)

Given(arg, default) == IF arg = {} THEN default ELSE CHOOSE x \in arg : TRUE

(* A random identifier, and one that the operator chose. *)
Uuid == <<"uuid", uuids + 1>>
Named(name) == <<name, 0>>

(* _evidence_panel drops empty names. *)
Panel(names) == names \ {""}

(* build_surface *)
Surface(r) ==
  [type |-> "TruthSurface", id |-> Given(r.id, Uuid), plane |-> r.plane,
   created |-> Given(r.at, now),
   required |-> Panel(r.required), present |-> Panel(r.present),
   risk |-> r.risk, threshold |-> r.threshold,
   needsApproval |-> r.needsApproval, approved |-> r.approved]

Missing(s) == s.required \ s.present
TooRisky(s) == s.risk > s.threshold
Unapproved(s) == s.needsApproval /\ ~s.approved

(* (Mutant: the approval is asked for only above the threshold.) *)
ApprovalIfRisky(s) ==
  CASE Missing(s) # {} -> "needs_more_evidence"
    [] Missing(s) = {} /\ TooRisky(s) /\ Unapproved(s) -> "deny"
    [] OTHER -> "permit"

(* compute_gate: a denial overrides missing evidence. *)
Status(s) ==
  CASE TooRisky(s) \/ Unapproved(s) -> "deny"
    [] ~(TooRisky(s) \/ Unapproved(s)) /\ Missing(s) # {} -> "needs_more_evidence"
    [] OTHER -> "permit"

(* build_delta *)
Delta(r, id, from, to) ==
  [type |-> "DeltaSurface", id |-> id, from |-> from.id, to |-> to.id,
   created |-> Given(r.at, now), status |-> Status(to)]

(* The event that sourceos_incident emits. *)
Incident(r) ==
  [type |-> "IncidentEvent", id |-> Given(r.id, Uuid), event |-> r.event,
   created |-> Given(r.at, now)]

(* The event that ends a smoke run has the time of its delta and is named  *)
(* after it (under --deterministic both are fixed).                        *)
SmokeIncident(r, delta) ==
  [type |-> "IncidentEvent", id |-> <<"evt", delta.created>>, event |-> r.event,
   created |-> delta.created]

(* (Mutant: deltas are stored next to the surfaces.) *)
DeltaAmongSurfaces(r, d) ==
  CASE d.type = "IncidentEvent" -> IncidentPath(r.event, d.created)
    [] d.type # "IncidentEvent" /\ r.out # {} -> OutPath(Given(r.out, ""))
    [] d.type = "DeltaSurface" /\ r.out = {} -> SurfacePath("system.sealed", d.created)
    [] OTHER -> SurfacePath(r.plane, d.created)

(* Where a document goes: an explicit file, or the layout of its tool.     *)
DocPath(r, d) ==
  CASE r.out # {} -> OutPath(Given(r.out, ""))
    [] r.out = {} /\ d.type = "TruthSurface" -> SurfacePath(r.plane, d.created)
    [] r.out = {} /\ d.type = "IncidentEvent" -> IncidentPath(r.event, d.created)
    [] r.out = {} /\ d.type = "DeltaSurface" /\ r.tool = "tick" -> DeltaPath(r.plane, d.created)
    [] OTHER -> DeltaPath("system.sealed", d.created)

-----------------------------------------------------------------------------
(* The processes.                                                          *)

Idle(result) ==
  [pc |-> "idle", job |-> None, doc |-> None, path |-> NoPath, surface |-> None,
   from |-> None, to |-> None, pair |-> <<NoPath, NoPath>>,
   result |-> result, runs |-> 0]

Init ==
  /\ now = 0
  /\ uuids = 0
  /\ files = [path \in Paths |-> [is |-> "none", doc |-> None]]
  /\ procs = [p \in Procs |-> Idle(NoResult)]
  /\ emitted = {}

Job(p) == procs[p].job
At(p, label) == procs[p].pc = label
Become(p, fields) == procs' = [procs EXCEPT ![p] = fields]
Goto(p, label) == Become(p, [procs[p] EXCEPT !.pc = label])
Finish(p, result) ==
  Become(p, [Idle(<<Job(p).tool, result>>) EXCEPT !.runs = procs[p].runs])

(* Where a document goes is decided when it has been built: to the store,  *)
(* to an explicit file or to standard output.                              *)
StoreDoc(p, d) ==
  IF Job(p).print
  THEN Finish(p, "ok")
  ELSE Become(p, [procs[p] EXCEPT !.pc = "mkdir", !.doc = d,
                                  !.path = DocPath(Job(p), d),
                                  !.surface = IF d.type = "TruthSurface" THEN d ELSE @])

Start(p, r) ==
  /\ At(p, "idle")
  /\ procs[p].runs < MaxRuns[p]
  /\ Become(p, [procs[p] EXCEPT
       !.pc = CASE r.tool = "tick" -> "init"
                [] r.tool = "delta" -> "readFrom"
                [] OTHER -> "build",
       !.job = r, !.runs = @ + 1, !.result = NoResult,
       !.pair = IF r.tool = "delta" THEN <<r.from, r.to>> ELSE @])
  /\ UNCHANGED <<now, uuids, files, emitted>>

(* The tick's first statement: gate.init_store(root). *)
InitStore(p) ==
  /\ At(p, "init")
  /\ IF HasInitStore THEN Goto(p, "build") ELSE Finish(p, "failed")
  /\ UNCHANGED <<now, uuids, files, emitted>>

Drawn(arg) == uuids' = IF arg = {} THEN uuids + 1 ELSE uuids

BuildSurface(p) ==
  /\ At(p, "build")
  /\ Job(p).tool \in {"surface", "tick"}
  /\ emitted' = emitted \cup {Surface(Job(p))}
  /\ StoreDoc(p, Surface(Job(p)))
  /\ Drawn(Job(p).id)
  /\ UNCHANGED <<now, files>>

BuildIncident(p) ==
  /\ At(p, "build")
  /\ Job(p).tool = "incident"
  /\ StoreDoc(p, Incident(Job(p)))
  /\ Drawn(Job(p).id)
  /\ UNCHANGED <<now, files, emitted>>

(* The smoke harness builds both surfaces before it stores either, and     *)
(* reads the clock for each: in one second, the second overwrites the      *)
(* first.                                                                  *)
SmokeFirst(p) ==
  /\ At(p, "build")
  /\ Job(p).tool = "smoke"
  /\ LET s == Surface(Job(p).ns0) IN
       /\ emitted' = emitted \cup {s}
       /\ Become(p, [procs[p] EXCEPT !.pc = "build1", !.from = s])
  /\ Drawn(Job(p).ns0.id)
  /\ UNCHANGED <<now, files>>

SmokeSecond(p) ==
  /\ At(p, "build1")
  /\ LET s == Surface(Job(p).ns1) IN
       /\ emitted' = emitted \cup {s}
       /\ Become(p, [procs[p] EXCEPT !.pc = "mkdir", !.to = s, !.doc = procs[p].from,
                                     !.path = DocPath(Job(p), procs[p].from)])
  /\ Drawn(Job(p).ns1.id)
  /\ UNCHANGED <<now, files>>

SmokeStore(p) ==
  /\ At(p, "second")
  /\ StoreDoc(p, procs[p].to)
  /\ UNCHANGED <<now, uuids, files, emitted>>

SmokeReport(p) ==
  /\ At(p, "report")
  /\ StoreDoc(p, SmokeIncident(Job(p), procs[p].doc))
  /\ UNCHANGED <<now, uuids, files, emitted>>

(* _write_json: mkdir(parents, exist_ok), then write_text. *)
MakeDir(p) ==
  /\ At(p, "mkdir")
  /\ LET path == procs[p].path IN
       files' = [files EXCEPT ![path].is = IF @ = "none" THEN "dir" ELSE @]
  /\ Goto(p, "open")
  /\ UNCHANGED <<now, uuids, emitted>>

OpenFile(p) ==
  /\ At(p, "open")
  /\ files' = [files EXCEPT ![procs[p].path] = [is |-> "empty", doc |-> None]]
  /\ Goto(p, "write")
  /\ UNCHANGED <<now, uuids, emitted>>

(* (Mutant: the pointer is left alone when a delta was written.) *)
ThenEnd(p) ==
  IF Job(p).tool = "tick" /\ procs[p].path[1] = "surfaces" /\ procs[p].path[3] # LATEST
  THEN "list" ELSE "end"

(* What a tick does after each of the three files it writes, and a smoke   *)
(* run after each of its four; every other tool is done.                   *)
Then(p) ==
  LET kind == <<Job(p).tool, procs[p].path[1]>> IN
  CASE kind = <<"tick", "deltas">> -> "latest"
    [] kind = <<"tick", "surfaces">> /\ procs[p].path[3] # LATEST -> "list"
    [] kind = <<"smoke", "surfaces">> /\ procs[p].surface = None -> "second"
    [] kind = <<"smoke", "surfaces">> /\ procs[p].surface # None -> "delta"
    [] kind = <<"smoke", "deltas">> -> "report"
    [] OTHER -> "end"

(* The text goes to the start of the file.  If another process has filled  *)
(* the file since it was emptied here, the longer of the two texts sticks  *)
(* out behind the shorter.                                                 *)
WriteFile(p) ==
  /\ At(p, "write")
  /\ \E is \in IF files[procs[p].path].is = "empty"
                THEN {"whole"} ELSE {"whole", "garbled"} :
       files' = [files EXCEPT ![procs[p].path] =
                   [is |-> is, doc |-> IF is = "whole" THEN procs[p].doc ELSE None]]
  /\ IF Then(p) = "end" THEN Finish(p, "ok") ELSE Goto(p, Then(p))
  /\ UNCHANGED <<now, uuids, emitted>>

(* _latest_two_surfaces: the last two directories in the order of their    *)
(* names, and only if both have their file.                                *)
Dirs(plane) == {d \in Stamps \cup {LATEST} : files[SurfacePath(plane, d)].is # "none"}

(* (Mutant: the oldest directory is taken for the second newest.) *)
FirstAndLast(plane) ==
  {w \in Dirs(plane) \X Dirs(plane) :
     w[1] < w[2] /\ \A d \in Dirs(plane) : w[1] <= d /\ d <= w[2]}

LastTwo(plane) ==
  {w \in Dirs(plane) \X Dirs(plane) :
     w[1] < w[2] /\ \A d \in Dirs(plane) : d <= w[1] \/ d = w[2]}

LatestTwo(plane) ==
  {<<SurfacePath(plane, w[1]), SurfacePath(plane, w[2])>> :
     w \in {v \in LastTwo(plane) :
             Exists(SurfacePath(plane, v[1])) /\ Exists(SurfacePath(plane, v[2]))}}

ListSurfaces(p) ==
  /\ At(p, "list")
  /\ \/ \E pair \in LatestTwo(Job(p).plane) :
          Become(p, [procs[p] EXCEPT !.pc = "readFrom", !.pair = pair])
     \/ LatestTwo(Job(p).plane) = {} /\ Goto(p, "latest")
  /\ UNCHANGED <<now, uuids, files, emitted>>

(* (Mutant: a file that cannot be parsed is read again until it can.) *)
ReadAgain(p) ==
  /\ At(p, "readFrom")
  /\ IF Readable(procs[p].pair[1])
     THEN Become(p, [procs[p] EXCEPT !.pc = "readTo", !.from = files[procs[p].pair[1]].doc])
     ELSE Goto(p, "readFrom")
  /\ UNCHANGED <<now, uuids, files, emitted>>

(* Reading a file that is missing or is not one JSON document raises, and  *)
(* the process ends.                                                       *)
ReadFrom(p) ==
  /\ At(p, "readFrom")
  /\ IF Readable(procs[p].pair[1])
     THEN Become(p, [procs[p] EXCEPT !.pc = "readTo", !.from = files[procs[p].pair[1]].doc])
     ELSE Finish(p, "failed")
  /\ UNCHANGED <<now, uuids, files, emitted>>

ReadTo(p) ==
  /\ At(p, "readTo")
  /\ IF Readable(procs[p].pair[2])
     THEN Become(p, [procs[p] EXCEPT !.pc = "delta", !.to = files[procs[p].pair[2]].doc])
     ELSE Finish(p, "failed")
  /\ UNCHANGED <<now, uuids, files, emitted>>

(* The tick names its delta after the suffix that names its surface.       *)
BuildDelta(p) ==
  /\ At(p, "delta")
  /\ StoreDoc(p, Delta(Job(p), Given(Job(p).id, Uuid), procs[p].from, procs[p].to))
  /\ Drawn(Job(p).id)
  /\ UNCHANGED <<now, files, emitted>>

(* The pointer for operators: a second copy of the surface. *)
PointLatest(p) ==
  /\ At(p, "latest")
  /\ Become(p, [procs[p] EXCEPT !.pc = "mkdir", !.doc = procs[p].surface,
                                !.path = SurfacePath(Job(p).plane, LATEST)])
  /\ UNCHANGED <<now, uuids, files, emitted>>

(* A process is killed; what it has written stays. *)
Kill(p) ==
  /\ MayKill
  /\ ~At(p, "idle")
  /\ Finish(p, "killed")
  /\ UNCHANGED <<now, uuids, files, emitted>>

Tick ==
  /\ now < MaxTime
  /\ now' = now + 1
  /\ UNCHANGED <<uuids, files, procs, emitted>>

(* time.gmtime() is the wall clock, which can be set back. *)
StepBack ==
  /\ now' \in {t \in Stamps : t < now}
  /\ UNCHANGED <<uuids, files, procs, emitted>>

Step(p) ==
  \/ InitStore(p) \/ BuildSurface(p) \/ BuildIncident(p)
  \/ SmokeFirst(p) \/ SmokeSecond(p) \/ SmokeStore(p) \/ SmokeReport(p)
  \/ MakeDir(p) \/ OpenFile(p) \/ WriteFile(p)
  \/ ListSurfaces(p) \/ ReadFrom(p) \/ ReadTo(p) \/ BuildDelta(p) \/ PointLatest(p)

Next ==
  \/ Tick
  \/ StepBack
  \/ \E p \in Procs : Step(p) \/ Kill(p) \/ \E r \in RequestsOf[p] : Start(p, r)

Spec == Init /\ [][Next]_vars

(* A process that runs goes on running; nobody has to start one. *)
FairSpec == Spec /\ \A p \in Procs : WF_vars(Step(p))
=============================================================================
