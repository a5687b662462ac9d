---------------------------- MODULE TruthProofs ----------------------------
(***************************************************************************)
(* Proofs about the truth plane, for any processes, requests, planes and   *)
(* clock: every file holds what its place is for, and every decision in    *)
(* the store is sound, whatever is written, read or killed in between.     *)
(***************************************************************************)
EXTENDS TruthProperties, TLAPS

Labels == {"idle", "init", "build", "build1", "mkdir", "open", "write", "list",
           "readFrom", "readTo", "delta", "latest", "second", "report"}
Writing == {"mkdir", "open", "write"}
Reading == {"readFrom", "readTo"}
MaybeSurface == SurfaceDocs \cup {None}
MaybePath == SurfacePaths \cup {NoPath}

Tools == {"surface", "tick", "delta", "incident", "smoke"}
Results == (Tools \cup {"none"})
             \X {"none", "ok", "failed", "killed"}

ProcType ==
  [pc : Labels, job : Requests \cup {None}, doc : Docs \cup {None},
   path : Paths \cup {NoPath}, surface : MaybeSurface, from : MaybeSurface,
   to : MaybeSurface, pair : MaybePath \X MaybePath,
   result : Results, runs : Nat]

(* What a process holds at each of its steps, given the surfaces emitted   *)
(* so far: a process that writes has a document for the place it writes    *)
(* to, and what a process has read was emitted.                            *)
ProcOK(q, surfaces) ==
  /\ q \in ProcType
  /\ q.pc # "idle" => q.job \in Requests
  /\ q.pc \in {"init", "list", "latest"} => q.job.tool = "tick"
  /\ q.pc \in {"build1", "second", "report"} => q.job.tool = "smoke"
  /\ q.pc = "delta" => q.job.tool \in {"tick", "delta", "smoke"}
  /\ q.pc = "report" => q.doc \in DeltaDocs
  /\ q.pc \in Reading => q.job.tool \in {"tick", "delta"}
                         /\ q.pair[1] \in SurfacePaths /\ q.pair[2] \in SurfacePaths
  /\ q.pc \in Writing => /\ q.path \in Paths
                         /\ q.doc \in DocsAt(q.path)
                         /\ q.path[1] = "surfaces" => q.doc \in surfaces
                         /\ q.doc.type = "DeltaSurface" => Sound(q.doc, surfaces)
  /\ q.pc \notin {"idle", "init", "build"} /\ q.job.tool = "tick" => q.surface \in surfaces
  /\ q.pc \in {"readTo", "delta"} => q.from \in surfaces
  /\ q.pc = "delta" => q.to \in surfaces
  /\ q.pc \notin {"idle", "init", "build"} /\ q.job.tool = "smoke" => q.from \in surfaces
  /\ q.pc \notin {"idle", "init", "build", "build1"} /\ q.job.tool = "smoke" => q.to \in surfaces

FilesType(f) ==
  /\ f \in [Paths -> [is : Stages, doc : Docs \cup {None}]]
  /\ \A path \in Paths :
       f[path].doc \in IF f[path].is = "whole" THEN DocsAt(path) ELSE {None}

FilesOK(f, surfaces) ==
  /\ FilesType(f)
  /\ \A path \in Paths : f[path].is = "whole" =>
       /\ path[1] = "surfaces" => f[path].doc \in surfaces
       /\ f[path].doc.type = "DeltaSurface" => Sound(f[path].doc, surfaces)

(* The inductive invariant. *)
PlaneInv ==
  /\ now \in Stamps
  /\ uuids \in Nat
  /\ emitted \subseteq SurfaceDocs
  /\ FilesOK(files, emitted)
  /\ procs \in [Procs -> ProcType]
  /\ \A p \in Procs : ProcOK(procs[p], emitted)

-----------------------------------------------------------------------------
(* An optional argument or its default. *)
LEMMA GivenIn ==
  ASSUME NEW S, NEW arg \in SUBSET S, NEW d \in S
  PROVE  Given(arg, d) \in S
<1>1. CASE arg = {}
  BY <1>1 DEF Given
<1>2. CASE arg # {}
  <2>1. PICK x \in arg : TRUE
    BY <1>2
  <2>2. (CHOOSE y \in arg : TRUE) \in arg
    BY <2>1
  <2> QED
    BY <1>2, <2>2 DEF Given
<1> QED
  BY <1>1, <1>2

LEMMA GivenAreIds ==
  /\ SUBSET GivenIds \subseteq SUBSET Ids
  /\ \A id \in GivenIds : id[1] # "uuid"
  BY RequestsAssumption DEF GivenIds, Ids

(* A request is what its tool's argument parser yields. *)
LEMMA RequestKinds ==
  ASSUME NEW r \in Requests
  PROVE  /\ r.tool \in {"surface", "tick"} => r \in SurfaceRequests
         /\ r.tool \in {"surface", "tick", "smoke"} => r.plane \in Planes
         /\ r.tool = "smoke" => r.ns0 \in SurfaceRequests /\ r.ns1 \in SurfaceRequests
         /\ r.tool = "delta" => r.from \in SurfacePaths /\ r.to \in SurfacePaths
         /\ r.tool \in {"incident", "smoke"} => r.event \in Events
         /\ r.tool \in Tools
         /\ r.id \in SUBSET Ids /\ r.at \in SUBSET Stamps /\ r.out \in SUBSET Outs
  BY GivenAreIds DEF Requests, SurfaceRequests, Tools

LEMMA StampTypes ==
  ASSUME now \in Stamps, uuids \in Nat
  PROVE  Stamps \subseteq Nat /\ Uuid \in Ids /\ LATEST \in Nat /\ LATEST \notin Stamps
<1>1. Uuid \in Ids
  BY DEF Uuid, Ids
<1>2. Stamps \subseteq Nat /\ LATEST \in Nat /\ LATEST \notin Stamps
  BY RequestsAssumption DEF Stamps, LATEST
<1> QED
  BY <1>1, <1>2

(* build_surface makes a surface of the plane it was asked for. *)
LEMMA SurfaceType ==
  ASSUME now \in Stamps, uuids \in Nat, NEW r \in SurfaceRequests
  PROVE  Surface(r) \in SurfaceDocs
<1>0. r.id \in SUBSET Ids /\ r.at \in SUBSET Stamps
  BY GivenAreIds DEF SurfaceRequests
<1>1. Given(r.id, Uuid) \in Ids
  BY <1>0, GivenIn, StampTypes
<1>2. Given(r.at, now) \in Stamps
  BY <1>0, GivenIn
<1> QED
  BY <1>1, <1>2 DEF Surface, SurfaceDocs, SurfaceRequests, Panel

(* compute_gate permits only what has earned it. *)
LEMMA StatusEarned ==
  ASSUME NEW s \in SurfaceDocs
  PROVE  /\ Status(s) \in {"permit", "deny", "needs_more_evidence"}
         /\ Status(s) = "permit" => Earned(s)
<1>1. s.risk \in Nat /\ s.threshold \in Nat /\ s.needsApproval \in BOOLEAN /\ s.approved \in BOOLEAN
  BY DEF SurfaceDocs
<1> QED
  BY <1>1 DEF Status, Earned, TooRisky, Unapproved

(* build_delta names the two surfaces it was given and decides for the     *)
(* later one.                                                              *)
LEMMA DeltaType ==
  ASSUME now \in Stamps, uuids \in Nat, NEW r \in Requests, NEW id \in Ids,
         NEW surfaces \in SUBSET SurfaceDocs, NEW s \in surfaces, NEW t \in surfaces
  PROVE  Delta(r, id, s, t) \in DeltaDocs /\ Sound(Delta(r, id, s, t), surfaces)
<1>1. Given(r.at, now) \in Stamps
  BY GivenIn, RequestKinds
<1>2. s.id \in Ids /\ t.id \in Ids
  BY DEF SurfaceDocs
<1>3. t \in SurfaceDocs
  OBVIOUS
<1>4. Delta(r, id, s, t) \in DeltaDocs
  BY <1>1, <1>2, <1>3, StatusEarned DEF Delta, DeltaDocs
<1>5. /\ Delta(r, id, s, t).from = s.id
      /\ Delta(r, id, s, t).to = t.id
      /\ Delta(r, id, s, t).status = Status(t)
  BY DEF Delta
<1> QED
  BY <1>3, <1>4, <1>5, StatusEarned DEF Sound

LEMMA IncidentType ==
  ASSUME now \in Stamps, uuids \in Nat, NEW r \in Requests, r.tool = "incident"
  PROVE  Incident(r) \in IncidentDocs /\ Incident(r).event = r.event
<1>1. Given(r.id, Uuid) \in Ids
  BY GivenIn, RequestKinds, StampTypes
<1>2. Given(r.at, now) \in Stamps
  BY GivenIn, RequestKinds
<1> QED
  BY <1>1, <1>2, RequestKinds DEF Incident, IncidentDocs

-----------------------------------------------------------------------------
(* The layout puts every document where its kind belongs.                  *)
LEMMA PathKinds ==
  /\ \A path \in SurfacePaths : path[1] = "surfaces"
  /\ \A plane \in Planes, d \in Stamps \cup {LATEST} :
       SurfacePath(plane, d) \in SurfacePaths
  /\ \A plane \in Planes, d \in Stamps :
       DeltaPath(plane, d) \in DeltaPaths /\ DeltaPath(plane, d)[1] = "deltas"
  /\ \A e \in Events, d \in Stamps :
       IncidentPath(e, d) \in IncidentPaths /\ IncidentPath(e, d)[1] = "incidents"
  /\ \A o \in Outs : OutPath(o) \in Paths /\ OutPath(o)[1] = "out"
  /\ SurfacePaths \subseteq Paths /\ DeltaPaths \subseteq Paths /\ IncidentPaths \subseteq Paths
  BY DEF SurfacePaths, DeltaPaths, IncidentPaths, Paths, SurfacePath, DeltaPath,
         IncidentPath, OutPath

LEMMA DocPathType ==
  ASSUME NEW r \in Requests, NEW d \in Docs,
         d.type = "TruthSurface" => d \in SurfaceDocs /\ r.tool \in {"surface", "tick", "smoke"},
         d.type = "DeltaSurface" => d \in DeltaDocs /\ r.tool \in {"delta", "tick", "smoke"},
         d.type = "IncidentEvent" => d \in IncidentDocs /\ r.tool \in {"incident", "smoke"}
  PROVE  /\ DocPath(r, d) \in Paths
         /\ d \in DocsAt(DocPath(r, d))
         /\ DocPath(r, d)[1] = "surfaces" => d.type = "TruthSurface"
<1>0. d.type \in {"TruthSurface", "DeltaSurface", "IncidentEvent"} /\ d.created \in Stamps
  BY DEF Docs, SurfaceDocs, DeltaDocs, IncidentDocs
<1>1. CASE r.out # {}
  <2>1. PICK x \in r.out : TRUE
    BY <1>1
  <2>2. Given(r.out, "") \in r.out
    <3>1. (CHOOSE y \in r.out : TRUE) \in r.out
      BY <2>1
    <3> QED
      BY <1>1, <3>1 DEF Given
  <2>3. Given(r.out, "") \in Outs
    BY <2>2, RequestKinds
  <2>4. DocPath(r, d) = OutPath(Given(r.out, ""))
    BY <1>1 DEF DocPath
  <2> QED
    BY <2>3, <2>4, PathKinds DEF DocsAt
<1>2. CASE r.out = {} /\ d.type = "TruthSurface"
  <2>1. DocPath(r, d) = SurfacePath(r.plane, d.created)
    BY <1>2 DEF DocPath
  <2>2. r.plane \in Planes
    BY <1>2, RequestKinds
  <2> QED
    BY <1>0, <1>2, <2>1, <2>2, PathKinds DEF DocsAt
<1>3. CASE r.out = {} /\ d.type = "IncidentEvent"
  <2>1. DocPath(r, d) = IncidentPath(r.event, d.created)
    BY <1>3 DEF DocPath
  <2>2. r.event \in Events
    BY <1>3, RequestKinds
  <2> QED
    BY <1>0, <1>3, <2>1, <2>2, PathKinds DEF DocsAt
<1>4. CASE r.out = {} /\ d.type = "DeltaSurface" /\ r.tool = "tick"
  <2>1. DocPath(r, d) = DeltaPath(r.plane, d.created)
    BY <1>4 DEF DocPath
  <2>2. r.plane \in Planes
    BY <1>4, RequestKinds
  <2> QED
    BY <1>0, <1>4, <2>1, <2>2, PathKinds DEF DocsAt
<1>5. CASE r.out = {} /\ d.type = "DeltaSurface" /\ r.tool # "tick"
  <2>1. DocPath(r, d) = DeltaPath("system.sealed", d.created)
    BY <1>5 DEF DocPath
  <2> QED
    BY <1>0, <1>5, <2>1, PathKinds, RequestsAssumption DEF DocsAt
<1> QED
  BY <1>0, <1>1, <1>2, <1>3, <1>4, <1>5

-----------------------------------------------------------------------------
(* Surfaces are only ever added, so what was said of them stays true.      *)
LEMMA SoundGrows ==
  ASSUME NEW a, NEW b, a \subseteq b, NEW d, Sound(d, a)
  PROVE  Sound(d, b)
  BY DEF Sound

LEMMA ProcGrows ==
  ASSUME NEW a, NEW b, a \subseteq b, NEW q, ProcOK(q, a)
  PROVE  ProcOK(q, b)
<1>1. q.doc.type = "DeltaSurface" /\ Sound(q.doc, a) => Sound(q.doc, b)
  BY SoundGrows
<1> QED
  BY <1>1 DEF ProcOK

LEMMA FilesGrow ==
  ASSUME NEW a, NEW b, a \subseteq b, NEW f, FilesOK(f, a)
  PROVE  FilesOK(f, b)
<1>1. ASSUME NEW path \in Paths, Sound(f[path].doc, a) PROVE Sound(f[path].doc, b)
  BY <1>1, SoundGrows
<1> QED
  BY <1>1 DEF FilesOK

(* A process that ends, by itself or killed, holds nothing.                *)
LEMMA FinishOK ==
  ASSUME NEW surfaces, NEW p \in Procs, NEW result \in {"ok", "failed", "killed"},
         ProcOK(procs[p], surfaces), procs[p].job \in Requests
  PROVE  ProcOK([Idle(<<Job(p).tool, result>>) EXCEPT !.runs = procs[p].runs], surfaces)
<1>1. Job(p).tool \in Tools
  BY RequestKinds DEF Job
<1>2. procs[p].runs \in Nat
  BY DEF ProcOK, ProcType
<1> QED
  BY <1>1, <1>2 DEF Idle, Results, ProcOK, ProcType, Labels, MaybeSurface, MaybePath, Writing, Reading

(* A document that was built is put where it belongs, or printed.          *)
LEMMA StoreDocOK ==
  ASSUME NEW surfaces \in SUBSET SurfaceDocs, NEW p \in Procs, NEW d \in Docs,
         PlaneInv, ProcOK(procs[p], surfaces), procs[p].job \in Requests,
         d.type = "TruthSurface" => d \in surfaces /\ Job(p).tool \in {"surface", "tick", "smoke"},
         d.type = "DeltaSurface" => d \in DeltaDocs /\ Job(p).tool \in {"delta", "tick", "smoke"}
                                    /\ Sound(d, surfaces)
                                    /\ (Job(p).tool = "tick" => procs[p].surface \in surfaces),
         d.type = "IncidentEvent" => d \in IncidentDocs /\ Job(p).tool \in {"incident", "smoke"},
         Job(p).tool = "smoke" => procs[p].from \in surfaces /\ procs[p].to \in surfaces,
         StoreDoc(p, d)
  PROVE  procs' = [procs EXCEPT ![p] = procs'[p]] /\ ProcOK(procs'[p], surfaces)
<1>0. procs \in [Procs -> ProcType] /\ procs[p] \in ProcType
  BY DEF PlaneInv
<1>1. CASE Job(p).print
  <2> DEFINE q == [Idle(<<Job(p).tool, "ok">>) EXCEPT !.runs = procs[p].runs]
  <2>1. procs' = [procs EXCEPT ![p] = q]
    BY <1>1 DEF StoreDoc, Finish, Become
  <2>2. ProcOK(q, surfaces)
    BY FinishOK
  <2> QED
    BY <1>0, <2>1, <2>2
<1>2. CASE ~Job(p).print
  <2> DEFINE q == [procs[p] EXCEPT !.pc = "mkdir", !.doc = d, !.path = DocPath(Job(p), d),
                                   !.surface = IF d.type = "TruthSurface" THEN d ELSE @]
  <2>1. procs' = [procs EXCEPT ![p] = q]
    BY <1>2 DEF StoreDoc, Become
  <2>2. /\ DocPath(Job(p), d) \in Paths
        /\ d \in DocsAt(DocPath(Job(p), d))
        /\ DocPath(Job(p), d)[1] = "surfaces" => d.type = "TruthSurface"
    BY DocPathType DEF Job
  <2>3. q.pc = "mkdir" /\ q.doc = d /\ q.path = DocPath(Job(p), d) /\ q.job = Job(p)
        /\ q.surface = IF d.type = "TruthSurface" THEN d ELSE procs[p].surface
    BY <1>0 DEF ProcType, Job
  <2>8. q.from = procs[p].from /\ q.to = procs[p].to
    BY <1>0 DEF ProcType
  <2>4. q \in ProcType
    <3>1. (IF d.type = "TruthSurface" THEN d ELSE procs[p].surface) \in MaybeSurface
      BY <1>0 DEF ProcType, MaybeSurface
    <3> QED
      BY <1>0, <2>2, <3>1 DEF ProcType, Labels
  <2>5. d.type \in {"TruthSurface", "DeltaSurface", "IncidentEvent"}
    BY DEF Docs, SurfaceDocs, DeltaDocs, IncidentDocs
  <2>6. q.job.tool = "tick" => q.surface \in surfaces
    BY <2>3, <2>5
  <2>7. ProcOK(q, surfaces)
    BY <2>2, <2>3, <2>4, <2>6, <2>8 DEF ProcOK, Writing, Reading, Job
  <2> QED
    BY <1>0, <2>1, <2>7
<1> QED
  BY <1>1, <1>2

-----------------------------------------------------------------------------
LEMMA PlaneInit == Init => PlaneInv
<1> SUFFICES ASSUME Init PROVE PlaneInv
  OBVIOUS
<1>1. now \in Stamps /\ uuids \in Nat /\ emitted \subseteq SurfaceDocs
  BY RequestsAssumption DEF Init, Stamps
<1>2. FilesOK(files, emitted)
  BY DEF Init, FilesOK, FilesType, Stages
<1>3. Idle(NoResult) \in ProcType
  BY DEF Idle, NoResult, Results, ProcType, Labels, MaybeSurface, MaybePath
<1>4. ProcOK(Idle(NoResult), emitted)
  BY <1>3 DEF Idle, ProcOK, Writing, Reading
<1>5. procs = [p \in Procs |-> Idle(NoResult)]
  BY DEF Init
<1> QED
  BY <1>1, <1>2, <1>3, <1>4, <1>5 DEF PlaneInv

(* It is enough to look at the process that moves, the files and the       *)
(* surfaces: no step disturbs what another process holds.                  *)
LEMMA OneMoves ==
  ASSUME PlaneInv, NEW p \in Procs,
         now' \in Stamps, uuids' \in Nat, emitted \subseteq emitted',
         emitted' \subseteq SurfaceDocs, FilesOK(files', emitted'),
         procs' = [procs EXCEPT ![p] = procs'[p]], ProcOK(procs'[p], emitted')
  PROVE  PlaneInv'
<1>1. procs \in [Procs -> ProcType] /\ procs'[p] \in ProcType
  BY DEF PlaneInv, ProcOK
<1>2. procs' \in [Procs -> ProcType]
  BY <1>1
<1>3. ASSUME NEW o \in Procs PROVE ProcOK(procs'[o], emitted')
  <2>1. CASE o = p
    BY <2>1
  <2>2. CASE o # p
    <3>1. procs'[o] = procs[o] /\ ProcOK(procs[o], emitted)
      BY <1>1, <2>2 DEF PlaneInv
    <3> QED
      BY <3>1, ProcGrows
  <2> QED
    BY <2>1, <2>2
<1> QED
  BY <1>2, <1>3 DEF PlaneInv

(* The steps that touch neither files nor surfaces. *)
LEMMA LocalStep ==
  ASSUME PlaneInv, NEW p \in Procs, NEW q, procs' = [procs EXCEPT ![p] = q],
         ProcOK(q, emitted), UNCHANGED <<now, uuids, files, emitted>>
  PROVE  PlaneInv'
<1>1. procs' = [procs EXCEPT ![p] = procs'[p]] /\ procs'[p] = q
  BY DEF PlaneInv
<1>2. FilesOK(files', emitted') /\ ProcOK(procs'[p], emitted')
  BY <1>1 DEF PlaneInv
<1> QED
  BY <1>1, <1>2, OneMoves DEF PlaneInv

(* A step that writes to one file. *)
LEMMA WriteStep ==
  ASSUME PlaneInv, NEW path \in Paths, NEW c \in [is : Stages, doc : Docs \cup {None}],
         c.doc \in IF c.is = "whole" THEN DocsAt(path) ELSE {None},
         c.is = "whole" => /\ path[1] = "surfaces" => c.doc \in emitted
                           /\ c.doc.type = "DeltaSurface" => Sound(c.doc, emitted)
  PROVE  FilesOK([files EXCEPT ![path] = c], emitted)
  BY DEF PlaneInv, FilesOK, FilesType

LEMMA DocsAtDocs == \A path : DocsAt(path) \subseteq Docs
  BY DEF DocsAt, Docs

-----------------------------------------------------------------------------
(* One lemma per action. *)
LEMMA StartKeeps ==
  ASSUME PlaneInv, NEW p \in Procs, NEW r \in RequestsOf[p], Start(p, r)
  PROVE  PlaneInv'
<1> DEFINE q == [procs[p] EXCEPT
       !.pc = CASE r.tool = "tick" -> "init"
                [] r.tool = "delta" -> "readFrom"
                [] OTHER -> "build",
       !.job = r, !.runs = @ + 1, !.result = NoResult,
       !.pair = IF r.tool = "delta" THEN <<r.from, r.to>> ELSE @]
<1>1. procs[p] \in ProcType /\ r \in Requests
  BY RequestsAssumption DEF PlaneInv
<1>2. r.tool = "delta" => r.from \in SurfacePaths /\ r.to \in SurfacePaths
  BY <1>1, RequestKinds
<1>3. (IF r.tool = "delta" THEN <<r.from, r.to>> ELSE procs[p].pair) \in MaybePath \X MaybePath
  BY <1>1, <1>2 DEF ProcType, MaybePath
<1>4. q \in ProcType
  <2>1. (CASE r.tool = "tick" -> "init" [] r.tool = "delta" -> "readFrom" [] OTHER -> "build")
          \in Labels
    BY DEF Labels
  <2>2. procs[p].runs + 1 \in Nat
    BY <1>1 DEF ProcType
  <2>3. NoResult \in Results
    BY DEF Results, NoResult
  <2> QED
    BY <1>1, <1>3, <2>1, <2>2, <2>3 DEF ProcType
<1>5. ProcOK(q, emitted)
  <2>1. q.pc \in {"init", "readFrom", "build"} /\ q.job = r
        /\ (q.pc = "init" => r.tool = "tick")
        /\ (q.pc = "readFrom" => r.tool = "delta" /\ q.pair = <<r.from, r.to>>)
    BY <1>1 DEF ProcType
  <2> QED
    BY <1>1, <1>2, <1>4, <2>1 DEF ProcOK, Writing, Reading
<1> QED
  BY <1>5, LocalStep DEF Start, Become

LEMMA FinishKeeps ==
  ASSUME PlaneInv, NEW p \in Procs, ~At(p, "idle"), NEW result \in {"ok", "failed", "killed"},
         Finish(p, result), UNCHANGED <<now, uuids, files, emitted>>
  PROVE  PlaneInv'
<1>1. ProcOK(procs[p], emitted) /\ procs[p].job \in Requests
  BY DEF PlaneInv, ProcOK, At
<1>2. ProcOK([Idle(<<Job(p).tool, result>>) EXCEPT !.runs = procs[p].runs], emitted)
  BY <1>1, FinishOK
<1> QED
  BY <1>2, LocalStep DEF Finish, Become

LEMMA InitStoreKeeps ==
  ASSUME PlaneInv, NEW p \in Procs, InitStore(p)
  PROVE  PlaneInv'
<1>1. CASE HasInitStore
  <2>1. ProcOK(procs[p], emitted) /\ procs[p].pc = "init"
    BY DEF PlaneInv, InitStore, At
  <2>2. ProcOK([procs[p] EXCEPT !.pc = "build"], emitted)
    BY <2>1 DEF ProcOK, ProcType, Labels, Writing, Reading
  <2> QED
    BY <1>1, <2>2, LocalStep DEF InitStore, Goto, Become
<1>2. CASE ~HasInitStore
  BY <1>2, FinishKeeps DEF InitStore, At
<1> QED
  BY <1>1, <1>2

LEMMA BuildSurfaceKeeps ==
  ASSUME PlaneInv, NEW p \in Procs, BuildSurface(p)
  PROVE  PlaneInv'
<1> DEFINE s == Surface(Job(p))
<1>1. Job(p) \in Requests /\ procs[p].job \in Requests
  BY DEF PlaneInv, ProcOK, BuildSurface, At, Job
<1>2. s \in SurfaceDocs /\ s.type = "TruthSurface"
  <2>1. s \in SurfaceDocs
    BY <1>1, SurfaceType, RequestKinds DEF PlaneInv, BuildSurface
  <2> QED
    BY <2>1 DEF SurfaceDocs
<1>3. emitted' = emitted \cup {s} /\ emitted' \subseteq SurfaceDocs
  BY <1>2 DEF BuildSurface, PlaneInv
<1>4. ProcOK(procs[p], emitted') /\ FilesOK(files', emitted')
  BY <1>3, ProcGrows, FilesGrow DEF PlaneInv, BuildSurface
<1>5. procs' = [procs EXCEPT ![p] = procs'[p]] /\ ProcOK(procs'[p], emitted')
  <2>1. s \in Docs /\ s \in emitted' /\ Job(p).tool \in {"surface", "tick"} /\ StoreDoc(p, s)
    BY <1>2, <1>3 DEF Docs, BuildSurface
  <2> HIDE DEF s
  <2> QED
    BY <1>1, <1>2, <1>3, <1>4, <2>1, StoreDocOK
<1>6. now' \in Stamps /\ uuids' \in Nat
  BY DEF PlaneInv, BuildSurface, Drawn
<1> QED
  BY <1>3, <1>4, <1>5, <1>6, OneMoves

LEMMA BuildIncidentKeeps ==
  ASSUME PlaneInv, NEW p \in Procs, BuildIncident(p)
  PROVE  PlaneInv'
<1> DEFINE d == Incident(Job(p))
<1>1. Job(p) \in Requests /\ procs[p].job \in Requests
  BY DEF PlaneInv, ProcOK, BuildIncident, At, Job
<1>2. d \in IncidentDocs /\ d.type = "IncidentEvent"
  <2>1. d \in IncidentDocs
    BY <1>1, IncidentType DEF PlaneInv, BuildIncident
  <2> QED
    BY <2>1 DEF IncidentDocs
<1>3. ProcOK(procs[p], emitted) /\ FilesOK(files', emitted') /\ emitted' = emitted
      /\ emitted \subseteq SurfaceDocs
  BY DEF PlaneInv, BuildIncident
<1>4. procs' = [procs EXCEPT ![p] = procs'[p]] /\ ProcOK(procs'[p], emitted)
  <2>1. d \in Docs /\ Job(p).tool = "incident" /\ StoreDoc(p, d)
    BY <1>2 DEF Docs, BuildIncident
  <2> HIDE DEF d
  <2> QED
    BY <1>1, <1>2, <1>3, <2>1, StoreDocOK
<1>5. now' \in Stamps /\ uuids' \in Nat
  BY DEF PlaneInv, BuildIncident, Drawn
<1> QED
  BY <1>3, <1>4, <1>5, OneMoves

LEMMA BuildDeltaKeeps ==
  ASSUME PlaneInv, NEW p \in Procs, BuildDelta(p)
  PROVE  PlaneInv'
<1> DEFINE d == Delta(Job(p), Given(Job(p).id, Uuid), procs[p].from, procs[p].to)
<1>1. /\ Job(p) \in Requests /\ procs[p].job \in Requests
      /\ Job(p).tool \in {"tick", "delta", "smoke"}
      /\ procs[p].from \in emitted /\ procs[p].to \in emitted
      /\ Job(p).tool = "tick" => procs[p].surface \in emitted
  BY DEF PlaneInv, ProcOK, BuildDelta, At, Job, Reading
<1>2. Given(Job(p).id, Uuid) \in Ids
  BY <1>1, GivenIn, RequestKinds, StampTypes DEF PlaneInv
<1>3. d \in DeltaDocs /\ Sound(d, emitted) /\ d.type = "DeltaSurface"
  <2>1. d \in DeltaDocs /\ Sound(d, emitted)
    BY <1>1, <1>2, DeltaType DEF PlaneInv
  <2> QED
    BY <2>1 DEF DeltaDocs
<1>4. ProcOK(procs[p], emitted) /\ FilesOK(files', emitted') /\ emitted' = emitted
      /\ emitted \subseteq SurfaceDocs
  BY DEF PlaneInv, BuildDelta
<1>5. procs' = [procs EXCEPT ![p] = procs'[p]] /\ ProcOK(procs'[p], emitted)
  <2>1. d \in Docs /\ StoreDoc(p, d)
    BY <1>3 DEF Docs, BuildDelta
  <2> HIDE DEF d
  <2> QED
    BY <1>1, <1>3, <1>4, <2>1, StoreDocOK
<1>6. now' \in Stamps /\ uuids' \in Nat
  BY DEF PlaneInv, BuildDelta, Drawn
<1> QED
  BY <1>4, <1>5, <1>6, OneMoves

(* What the smoke harness emits joins the surfaces. *)
LEMMA SmokeEmits ==
  ASSUME PlaneInv, NEW p \in Procs, NEW r \in SurfaceRequests,
         emitted' = emitted \cup {Surface(r)}, Drawn(r.id), UNCHANGED <<now, files>>
  PROVE  /\ Surface(r) \in SurfaceDocs /\ Surface(r) \in emitted'
         /\ emitted \subseteq emitted' /\ emitted' \subseteq SurfaceDocs
         /\ now' \in Stamps /\ uuids' \in Nat
         /\ FilesOK(files', emitted') /\ ProcOK(procs[p], emitted')
<1>1. Surface(r) \in SurfaceDocs
  BY SurfaceType DEF PlaneInv
<1>2. emitted \subseteq emitted' /\ emitted' \subseteq SurfaceDocs
  BY <1>1 DEF PlaneInv
<1>3. FilesOK(files', emitted') /\ ProcOK(procs[p], emitted')
  BY <1>2, FilesGrow, ProcGrows DEF PlaneInv
<1>4. now' \in Stamps /\ uuids' \in Nat
  BY DEF PlaneInv, Drawn
<1> QED
  BY <1>1, <1>2, <1>3, <1>4

LEMMA SmokeFirstKeeps ==
  ASSUME PlaneInv, NEW p \in Procs, SmokeFirst(p)
  PROVE  PlaneInv'
<1> DEFINE s == Surface(Job(p).ns0)
           q == [procs[p] EXCEPT !.pc = "build1", !.from = s]
<1>1. procs[p] \in ProcType /\ procs \in [Procs -> ProcType]
      /\ procs[p].job \in Requests /\ procs[p].job.tool = "smoke"
  BY DEF PlaneInv, ProcOK, SmokeFirst, At, Job
<1>2. Job(p).ns0 \in SurfaceRequests
  BY <1>1, RequestKinds DEF Job
<1>3. /\ s \in SurfaceDocs /\ s \in emitted'
      /\ emitted \subseteq emitted' /\ emitted' \subseteq SurfaceDocs
      /\ now' \in Stamps /\ uuids' \in Nat
      /\ FilesOK(files', emitted')
  BY <1>2, SmokeEmits DEF SmokeFirst
<1>4. procs' = [procs EXCEPT ![p] = q]
  BY DEF SmokeFirst, Become
<1> HIDE DEF s
<1>5. q \in ProcType
  BY <1>1, <1>3 DEF ProcType, Labels, MaybeSurface
<1>6. q.pc = "build1" /\ q.job = procs[p].job /\ q.from = s
  BY <1>1 DEF ProcType
<1>7. ProcOK(q, emitted')
  BY <1>1, <1>3, <1>5, <1>6 DEF ProcOK, Writing, Reading
<1> HIDE DEF q
<1>8. procs' = [procs EXCEPT ![p] = procs'[p]] /\ ProcOK(procs'[p], emitted')
  BY <1>1, <1>4, <1>7
<1> QED
  BY <1>3, <1>8, OneMoves

LEMMA SmokeSecondKeeps ==
  ASSUME PlaneInv, NEW p \in Procs, SmokeSecond(p)
  PROVE  PlaneInv'
<1> DEFINE s == Surface(Job(p).ns1)
           d == procs[p].from
           q == [procs[p] EXCEPT !.pc = "mkdir", !.to = s, !.doc = d, !.path = DocPath(Job(p), d)]
<1>1. /\ procs[p] \in ProcType /\ procs \in [Procs -> ProcType]
      /\ procs[p].job \in Requests /\ procs[p].job.tool = "smoke"
      /\ d \in emitted
  BY DEF PlaneInv, ProcOK, SmokeSecond, At
<1>2. Job(p).ns1 \in SurfaceRequests
  BY <1>1, RequestKinds DEF Job
<1>3. /\ s \in SurfaceDocs /\ s \in emitted'
      /\ emitted \subseteq emitted' /\ emitted' \subseteq SurfaceDocs
      /\ now' \in Stamps /\ uuids' \in Nat
      /\ FilesOK(files', emitted')
  BY <1>2, SmokeEmits DEF SmokeSecond
<1>4. procs' = [procs EXCEPT ![p] = q]
  BY DEF SmokeSecond, Become
<1>5. d \in SurfaceDocs /\ d.type = "TruthSurface" /\ d \in Docs /\ d \in emitted'
  BY <1>1, <1>3 DEF SurfaceDocs, Docs
<1>6. DocPath(Job(p), d) \in Paths /\ d \in DocsAt(DocPath(Job(p), d))
  BY <1>1, <1>5, DocPathType DEF Job
<1> HIDE DEF s, d
<1>7. q \in ProcType
  BY <1>1, <1>3, <1>5, <1>6 DEF ProcType, Labels, MaybeSurface
<1>8. /\ q.pc = "mkdir" /\ q.job = procs[p].job /\ q.from = procs[p].from
      /\ q.to = s /\ q.doc = d /\ q.path = DocPath(Job(p), d)
  BY <1>1 DEF ProcType
<1>9. ProcOK(q, emitted')
  BY <1>1, <1>3, <1>5, <1>6, <1>7, <1>8 DEF d, ProcOK, Writing, Reading
<1> HIDE DEF q
<1>10. procs' = [procs EXCEPT ![p] = procs'[p]] /\ ProcOK(procs'[p], emitted')
  BY <1>1, <1>4, <1>9
<1> QED
  BY <1>3, <1>10, OneMoves

LEMMA SmokeStoreKeeps ==
  ASSUME PlaneInv, NEW p \in Procs, SmokeStore(p)
  PROVE  PlaneInv'
<1> DEFINE d == procs[p].to
<1>1. /\ ProcOK(procs[p], emitted) /\ procs[p].job \in Requests
      /\ Job(p).tool = "smoke" /\ procs[p].from \in emitted /\ d \in emitted
      /\ emitted \in SUBSET SurfaceDocs
  BY DEF PlaneInv, ProcOK, SmokeStore, At, Job
<1>2. d \in Docs /\ d.type = "TruthSurface" /\ StoreDoc(p, d)
  BY <1>1 DEF Docs, SurfaceDocs, SmokeStore
<1> HIDE DEF d
<1>3. procs' = [procs EXCEPT ![p] = procs'[p]] /\ ProcOK(procs'[p], emitted)
  BY <1>1, <1>2, StoreDocOK DEF d
<1> QED
  BY <1>1, <1>3, OneMoves DEF SmokeStore, PlaneInv

LEMMA SmokeReportKeeps ==
  ASSUME PlaneInv, NEW p \in Procs, SmokeReport(p)
  PROVE  PlaneInv'
<1> DEFINE d == SmokeIncident(Job(p), procs[p].doc)
<1>1. /\ ProcOK(procs[p], emitted) /\ procs[p].job \in Requests /\ procs[p].doc \in DeltaDocs
      /\ Job(p).tool = "smoke" /\ procs[p].from \in emitted /\ procs[p].to \in emitted
      /\ emitted \in SUBSET SurfaceDocs
  BY DEF PlaneInv, ProcOK, SmokeReport, At, Job
<1>2. Job(p).event \in Events
  BY <1>1, RequestKinds DEF Job
<1>3. procs[p].doc.created \in Stamps /\ Stamps \subseteq Nat
  BY <1>1, StampTypes DEF DeltaDocs, PlaneInv
<1>4. d \in IncidentDocs
  <2>1. <<"evt", procs[p].doc.created>> \in Ids
    BY <1>3 DEF Ids
  <2> QED
    BY <1>2, <1>3, <2>1 DEF SmokeIncident, IncidentDocs
<1>5. d \in Docs /\ d.type = "IncidentEvent" /\ StoreDoc(p, d)
  BY <1>4 DEF Docs, IncidentDocs, SmokeReport
<1> HIDE DEF d
<1>6. procs' = [procs EXCEPT ![p] = procs'[p]] /\ ProcOK(procs'[p], emitted)
  BY <1>1, <1>4, <1>5, StoreDocOK
<1> QED
  BY <1>1, <1>6, OneMoves DEF SmokeReport, PlaneInv

LEMMA MakeDirKeeps ==
  ASSUME PlaneInv, NEW p \in Procs, MakeDir(p)
  PROVE  PlaneInv'
<1>1. ProcOK(procs[p], emitted) /\ procs[p].pc = "mkdir" /\ procs \in [Procs -> ProcType]
  BY DEF PlaneInv, MakeDir, At
<1>2. ProcOK([procs[p] EXCEPT !.pc = "open"], emitted)
  BY <1>1 DEF ProcOK, ProcType, Labels, Writing, Reading
<1>3. procs[p].path \in Paths
  BY <1>1 DEF ProcOK, Writing
<1> DEFINE path == procs[p].path
           c == [is |-> IF files[path].is = "none" THEN "dir" ELSE files[path].is,
                 doc |-> files[path].doc]
<1>4. /\ files[path] \in [is : Stages, doc : Docs \cup {None}]
      /\ files[path].doc \in IF files[path].is = "whole" THEN DocsAt(path) ELSE {None}
      /\ files[path].is = "whole" =>
           /\ path[1] = "surfaces" => files[path].doc \in emitted
           /\ files[path].doc.type = "DeltaSurface" => Sound(files[path].doc, emitted)
  BY <1>3 DEF PlaneInv, FilesOK, FilesType
<1>5. FilesOK(files', emitted)
  <2>1. [files[path] EXCEPT !.is = IF @ = "none" THEN "dir" ELSE @] = c
    BY <1>4
  <2>2. files' = [files EXCEPT ![path] = c]
    <3>1. files' = [files EXCEPT ![path] =
                      [files[path] EXCEPT !.is = IF @ = "none" THEN "dir" ELSE @]]
      BY DEF MakeDir
    <3> QED
      BY <2>1, <3>1
  <2>3. c \in [is : Stages, doc : Docs \cup {None}]
    BY <1>4 DEF Stages
  <2>4. c.doc = files[path].doc /\ (c.is = "whole" <=> files[path].is = "whole")
    OBVIOUS
  <2>5. path \in Paths
    BY <1>3
  <2> HIDE DEF c, path
  <2>6. FilesOK([files EXCEPT ![path] = c], emitted)
    BY <1>4, <2>3, <2>4, <2>5, WriteStep
  <2> QED
    BY <2>2, <2>6
<1>6. procs' = [procs EXCEPT ![p] = procs'[p]] /\ ProcOK(procs'[p], emitted)
  BY <1>1, <1>2 DEF MakeDir, Goto, Become
<1> QED
  BY <1>5, <1>6, OneMoves DEF MakeDir, PlaneInv

LEMMA OpenFileKeeps ==
  ASSUME PlaneInv, NEW p \in Procs, OpenFile(p)
  PROVE  PlaneInv'
<1>1. ProcOK(procs[p], emitted) /\ procs[p].pc = "open" /\ procs \in [Procs -> ProcType]
  BY DEF PlaneInv, OpenFile, At
<1>2. ProcOK([procs[p] EXCEPT !.pc = "write"], emitted)
  BY <1>1 DEF ProcOK, ProcType, Labels, Writing, Reading
<1>3. procs[p].path \in Paths
  BY <1>1 DEF ProcOK, Writing
<1>4. FilesOK(files', emitted)
  BY <1>3, WriteStep DEF OpenFile, Stages
<1>5. procs' = [procs EXCEPT ![p] = procs'[p]] /\ ProcOK(procs'[p], emitted)
  BY <1>1, <1>2 DEF OpenFile, Goto, Become
<1> QED
  BY <1>4, <1>5, OneMoves DEF OpenFile, PlaneInv

LEMMA WriteFileKeeps ==
  ASSUME PlaneInv, NEW p \in Procs, WriteFile(p)
  PROVE  PlaneInv'
<1>1. ProcOK(procs[p], emitted) /\ procs[p].pc = "write" /\ procs \in [Procs -> ProcType]
  BY DEF PlaneInv, WriteFile, At
<1>2. /\ procs[p].path \in Paths /\ procs[p].doc \in DocsAt(procs[p].path)
      /\ procs[p].path[1] = "surfaces" => procs[p].doc \in emitted
      /\ procs[p].doc.type = "DeltaSurface" => Sound(procs[p].doc, emitted)
      /\ procs[p].job \in Requests
      /\ procs[p].doc \in Docs
  BY <1>1, DocsAtDocs DEF ProcOK, Writing
<1>3. FilesOK(files', emitted)
  <2>1. PICK is \in {"whole", "garbled"} :
          files' = [files EXCEPT ![procs[p].path] =
                      [is |-> is, doc |-> IF is = "whole" THEN procs[p].doc ELSE None]]
    BY DEF WriteFile
  <2> DEFINE c == [is |-> is, doc |-> IF is = "whole" THEN procs[p].doc ELSE None]
  <2>2. /\ c \in [is : Stages, doc : Docs \cup {None}]
        /\ c.is = "whole" => c.doc = procs[p].doc
        /\ c.is # "whole" => c.doc = None
    BY <1>2 DEF Stages
  <2>3. files' = [files EXCEPT ![procs[p].path] = c]
    BY <2>1
  <2> HIDE DEF c
  <2> QED
    BY <1>2, <2>2, <2>3, WriteStep
<1>4. procs' = [procs EXCEPT ![p] = procs'[p]] /\ ProcOK(procs'[p], emitted)
  <2>1. CASE Then(p) = "end"
    <3>1. ProcOK([Idle(<<Job(p).tool, "ok">>) EXCEPT !.runs = procs[p].runs], emitted)
      BY <1>1, <1>2, FinishOK
    <3> QED
      BY <1>1, <2>1, <3>1 DEF WriteFile, Finish, Become
  <2>2. CASE Then(p) # "end"
    <3>1. \/ Then(p) \in {"latest", "list"} /\ procs[p].job.tool = "tick"
          \/ Then(p) \in {"second", "delta"} /\ procs[p].job.tool = "smoke"
          \/ Then(p) = "report" /\ procs[p].job.tool = "smoke" /\ procs[p].path[1] = "deltas"
      BY <2>2 DEF Then, Job
    <3>2. /\ procs[p].job.tool = "tick" => procs[p].surface \in emitted
          /\ procs[p].job.tool = "smoke" => procs[p].from \in emitted /\ procs[p].to \in emitted
          /\ Then(p) = "report" => procs[p].doc \in DeltaDocs
      BY <1>1, <1>2, <3>1 DEF ProcOK, DocsAt
    <3>3. [procs[p] EXCEPT !.pc = Then(p)] \in ProcType
      BY <1>1, <3>1 DEF ProcType, Labels
    <3>4. ProcOK([procs[p] EXCEPT !.pc = Then(p)], emitted)
      <4> DEFINE q == [procs[p] EXCEPT !.pc = Then(p)]
      <4>1. q.pc = Then(p) /\ q.job = procs[p].job /\ q.surface = procs[p].surface
            /\ q.from = procs[p].from /\ q.to = procs[p].to /\ q.doc = procs[p].doc
        BY <1>1 DEF ProcType
      <4> HIDE DEF q
      <4>2. ProcOK(q, emitted)
        BY <1>2, <3>1, <3>2, <3>3, <4>1 DEF q, ProcOK, Writing, Reading
      <4> QED
        BY <4>2 DEF q
    <3> QED
      BY <1>1, <2>2, <3>4 DEF WriteFile, Goto, Become
  <2> QED
    BY <2>1, <2>2
<1> QED
  BY <1>3, <1>4, OneMoves DEF WriteFile, PlaneInv

LEMMA ListKeeps ==
  ASSUME PlaneInv, NEW p \in Procs, ListSurfaces(p)
  PROVE  PlaneInv'
<1>1. /\ ProcOK(procs[p], emitted) /\ procs[p].pc = "list"
      /\ procs[p] \in ProcType /\ procs[p].job \in Requests
      /\ procs[p].job.tool = "tick" /\ procs[p].surface \in emitted
  BY DEF PlaneInv, ProcOK, ListSurfaces, At
<1>2. ASSUME NEW pair \in LatestTwo(Job(p).plane),
             procs' = [procs EXCEPT ![p] = [procs[p] EXCEPT !.pc = "readFrom", !.pair = pair]]
      PROVE  PlaneInv'
  <2>1. Job(p).plane \in Planes
    BY <1>1, RequestKinds DEF Job
  <2>2. PICK w \in LastTwo(Job(p).plane) :
          pair = <<SurfacePath(Job(p).plane, w[1]), SurfacePath(Job(p).plane, w[2])>>
    BY DEF LatestTwo
  <2>3. w[1] \in Stamps \cup {LATEST} /\ w[2] \in Stamps \cup {LATEST}
    BY DEF LastTwo, Dirs
  <2>4. pair[1] \in SurfacePaths /\ pair[2] \in SurfacePaths /\ pair = <<pair[1], pair[2]>>
    BY <2>1, <2>2, <2>3, PathKinds
  <2> DEFINE q == [procs[p] EXCEPT !.pc = "readFrom", !.pair = pair]
  <2>5. q \in ProcType
    BY <1>1, <2>4 DEF ProcType, Labels, MaybePath
  <2>6. q.pc = "readFrom" /\ q.pair = pair /\ q.job = procs[p].job /\ q.surface = procs[p].surface
    BY <1>1 DEF ProcType
  <2>7. ProcOK(q, emitted)
    BY <1>1, <2>4, <2>5, <2>6 DEF ProcOK, Writing, Reading
  <2> QED
    BY <1>2, <2>7, LocalStep DEF ListSurfaces
<1>3. ASSUME Goto(p, "latest") PROVE PlaneInv'
  <2>1. ProcOK([procs[p] EXCEPT !.pc = "latest"], emitted)
    BY <1>1 DEF ProcOK, ProcType, Labels, Writing, Reading
  <2> QED
    BY <1>3, <2>1, LocalStep DEF ListSurfaces, Goto, Become
<1> QED
  BY <1>2, <1>3 DEF ListSurfaces, Become

LEMMA ReadFromKeeps ==
  ASSUME PlaneInv, NEW p \in Procs, ReadFrom(p)
  PROVE  PlaneInv'
<1>1. /\ ProcOK(procs[p], emitted) /\ procs[p].pc = "readFrom"
      /\ procs[p] \in ProcType /\ procs[p].pair[1] \in SurfacePaths
  BY DEF PlaneInv, ProcOK, ReadFrom, At, Reading
<1>2. CASE Readable(procs[p].pair[1])
  <2> DEFINE s == files[procs[p].pair[1]].doc
  <2>1. procs[p].pair[1] \in Paths /\ procs[p].pair[1][1] = "surfaces"
    BY <1>1, PathKinds
  <2>2. s \in emitted /\ s \in MaybeSurface
    BY <1>2, <2>1 DEF PlaneInv, FilesOK, Readable, MaybeSurface
  <2> HIDE DEF s
  <2>3. ProcOK([procs[p] EXCEPT !.pc = "readTo", !.from = s], emitted)
    BY <1>1, <2>2 DEF ProcOK, ProcType, Labels, Writing, Reading
  <2> QED
    BY <1>2, <2>3, LocalStep DEF ReadFrom, Become, s
<1>3. CASE ~Readable(procs[p].pair[1])
  BY <1>3, FinishKeeps DEF ReadFrom, At
<1> QED
  BY <1>2, <1>3

LEMMA ReadToKeeps ==
  ASSUME PlaneInv, NEW p \in Procs, ReadTo(p)
  PROVE  PlaneInv'
<1>1. /\ ProcOK(procs[p], emitted) /\ procs[p].pc = "readTo"
      /\ procs[p] \in ProcType /\ procs[p].pair[2] \in SurfacePaths
  BY DEF PlaneInv, ProcOK, ReadTo, At, Reading
<1>2. CASE Readable(procs[p].pair[2])
  <2> DEFINE s == files[procs[p].pair[2]].doc
  <2>1. procs[p].pair[2] \in Paths /\ procs[p].pair[2][1] = "surfaces"
    BY <1>1, PathKinds
  <2>2. s \in emitted /\ s \in MaybeSurface
    BY <1>2, <2>1 DEF PlaneInv, FilesOK, Readable, MaybeSurface
  <2> HIDE DEF s
  <2>3. ProcOK([procs[p] EXCEPT !.pc = "delta", !.to = s], emitted)
    BY <1>1, <2>2 DEF ProcOK, ProcType, Labels, Writing, Reading
  <2> QED
    BY <1>2, <2>3, LocalStep DEF ReadTo, Become, s
<1>3. CASE ~Readable(procs[p].pair[2])
  BY <1>3, FinishKeeps DEF ReadTo, At
<1> QED
  BY <1>2, <1>3

LEMMA PointLatestKeeps ==
  ASSUME PlaneInv, NEW p \in Procs, PointLatest(p)
  PROVE  PlaneInv'
<1> DEFINE path == SurfacePath(Job(p).plane, LATEST)
           q == [procs[p] EXCEPT !.pc = "mkdir", !.doc = procs[p].surface, !.path = path]
<1>1. /\ ProcOK(procs[p], emitted) /\ procs[p].pc = "latest"
      /\ procs[p] \in ProcType /\ procs[p].job \in Requests
      /\ procs[p].job.tool = "tick" /\ procs[p].surface \in emitted
  BY DEF PlaneInv, ProcOK, PointLatest, At
<1>2. path \in Paths /\ path[1] = "surfaces"
  <2>1. Job(p).plane \in Planes
    BY <1>1, RequestKinds DEF Job
  <2> QED
    BY <2>1, PathKinds
<1>3. /\ procs[p].surface \in SurfaceDocs
      /\ procs[p].surface.type = "TruthSurface"
      /\ procs[p].surface \in Docs
      /\ procs[p].surface \in DocsAt(path)
  <2>1. procs[p].surface \in SurfaceDocs
    BY <1>1 DEF PlaneInv
  <2>2. procs[p].surface.type = "TruthSurface"
    BY <2>1 DEF SurfaceDocs
  <2> QED
    BY <1>2, <2>1, <2>2 DEF Docs, DocsAt
<1> HIDE DEF path
<1>4. q \in ProcType
  BY <1>1, <1>2, <1>3 DEF ProcType, Labels
<1>5. q.pc = "mkdir" /\ q.doc = procs[p].surface /\ q.path = path
      /\ q.job = procs[p].job /\ q.surface = procs[p].surface
  BY <1>1 DEF ProcType
<1>6. ProcOK(q, emitted)
  BY <1>1, <1>2, <1>3, <1>4, <1>5 DEF ProcOK, Writing, Reading
<1> QED
  BY <1>6, LocalStep DEF PointLatest, Become, path

LEMMA PlaneNext == PlaneInv /\ [Next]_vars => PlaneInv'
<1> SUFFICES ASSUME PlaneInv, [Next]_vars PROVE PlaneInv'
  OBVIOUS
<1>1. CASE Tick \/ StepBack
  <2>1. now' \in Stamps
    BY <1>1, RequestsAssumption DEF Tick, StepBack, PlaneInv, Stamps
  <2> QED
    BY <1>1, <2>1 DEF Tick, StepBack, PlaneInv
<1>2. ASSUME NEW p \in Procs, Step(p) PROVE PlaneInv'
  BY <1>2, InitStoreKeeps, BuildSurfaceKeeps, BuildIncidentKeeps, MakeDirKeeps,
     OpenFileKeeps, WriteFileKeeps, ListKeeps, ReadFromKeeps, ReadToKeeps,
     BuildDeltaKeeps, PointLatestKeeps, SmokeFirstKeeps, SmokeSecondKeeps,
     SmokeStoreKeeps, SmokeReportKeeps DEF Step
<1>3. ASSUME NEW p \in Procs, Kill(p) PROVE PlaneInv'
  BY <1>3, FinishKeeps DEF Kill
<1>4. ASSUME NEW p \in Procs, NEW r \in RequestsOf[p], Start(p, r) PROVE PlaneInv'
  BY <1>4, StartKeeps
<1>5. CASE UNCHANGED vars
  BY <1>5 DEF vars, PlaneInv
<1> QED
  BY <1>1, <1>2, <1>3, <1>4, <1>5 DEF Next

-----------------------------------------------------------------------------
(* Every file of the store, whoever writes it and whoever is killed while  *)
(* writing, holds a document of the kind its place is for, or none.        *)
THEOREM StoreTypeCorrect == Spec => []TypeOK
<1>1. PlaneInv => TypeOK
  BY DEF PlaneInv, FilesOK, FilesType, ProcOK, TypeOK, Writing
<1> QED
  BY <1>1, PlaneInit, PlaneNext, PTL DEF Spec

(* Every decision in the store is about surfaces that were emitted, and a  *)
(* permit was earned (compute_gate, build_delta, and the reads before      *)
(* them), for any number of tools, ticks and kills at once.                *)
THEOREM DecisionsAreSound == Spec => []DeltaSound
<1>1. PlaneInv => DeltaSound
  BY DEF PlaneInv, FilesOK, DeltaSound
<1> QED
  BY <1>1, PlaneInit, PlaneNext, PTL DEF Spec

-----------------------------------------------------------------------------
(* The surfaces whose identifiers were drawn are numbered in the order     *)
(* they were emitted, and none is numbered past the last draw.             *)
DrawnInOrder == \A s \in emitted : s.id[1] = "uuid" => s.id[2] <= uuids

(* A timer that has the store to itself: what holds of its process q and   *)
(* the files f, when all it runs are ticks on the plane pl.  The clock has *)
(* no part in it.                                                          *)
TickJob(r, pl) ==
  r.tool = "tick" /\ r.plane = pl /\ r.at = {} /\ r.out = {} /\ r.print = FALSE

AllDirs == Stamps \cup {LATEST}
There(d, f, pl) == f[SurfacePath(pl, d)].is # "none"
IsNewest(d, f, pl) == \A e \in Stamps : There(e, f, pl) => e <= d
OwnPath(q, pl) == SurfacePath(pl, q.surface.created)
IsStored(q, f, pl) == f[OwnPath(q, pl)] = [is |-> "whole", doc |-> q.surface]

(* Every surface in another directory was emitted before that of q. *)
IsLast(q, f, pl) ==
  \A d \in AllDirs \ {q.surface.created} :
    f[SurfacePath(pl, d)].is = "whole" => Before(f[SurfacePath(pl, d)].doc, q.surface)

(* The directory that q's own surface is compared with: the pointer, once  *)
(* there is one, and until then an older directory.                        *)
Partner(d, q, f, pl) ==
  /\ d \in AllDirs \ {q.surface.created} /\ There(d, f, pl)
  /\ There(LATEST, f, pl) => d = LATEST

(* If no directory is named after a later time, q lists its own surface    *)
(* and its partner, has read its own, has read both, and compares them.    *)
Lists(q, f, pl) ==
  IsNewest(q.surface.created, f, pl) =>
    \E d \in AllDirs :
      /\ Partner(d, q, f, pl)
      /\ q.pair = IF d = LATEST THEN <<OwnPath(q, pl), SurfacePath(pl, d)>>
                                ELSE <<SurfacePath(pl, d), OwnPath(q, pl)>>
HasRead(q, f, pl) ==
  IsNewest(q.surface.created, f, pl) =>
    \E d \in AllDirs :
      /\ Partner(d, q, f, pl)
      /\ IF d = LATEST
         THEN q.from = q.surface /\ q.pair[2] = SurfacePath(pl, d)
         ELSE /\ f[SurfacePath(pl, d)].is = "whole" /\ q.from = f[SurfacePath(pl, d)].doc
              /\ q.pair[2] = OwnPath(q, pl)
HasBoth(q, f, pl) ==
  IsNewest(q.surface.created, f, pl) =>
    \E d \in AllDirs :
      /\ Partner(d, q, f, pl) /\ f[SurfacePath(pl, d)].is = "whole"
      /\ IF d = LATEST
         THEN q.from = q.surface /\ q.to = f[SurfacePath(pl, d)].doc
         ELSE q.from = f[SurfacePath(pl, d)].doc /\ q.to = q.surface
Compares(q, f, pl) ==
  IsNewest(q.surface.created, f, pl) =>
    \E d \in AllDirs :
      /\ Partner(d, q, f, pl) /\ f[SurfacePath(pl, d)].is = "whole"
      /\ IF d = LATEST
         THEN q.doc.from = q.surface.id /\ q.doc.to = f[SurfacePath(pl, d)].doc.id
         ELSE q.doc.from = f[SurfacePath(pl, d)].doc.id /\ q.doc.to = q.surface.id

(* The three files of a tick: its surface, the delta, and the pointer.     *)
WritesOwn(q, pl) == q.path = OwnPath(q, pl) /\ q.doc = q.surface
WritesDelta(q, f, pl) ==
  IsStored(q, f, pl) /\ q.path[1] = "deltas" /\ Compares(q, f, pl)
WritesLatest(q, f, pl) ==
  IsStored(q, f, pl) /\ q.path = SurfacePath(pl, LATEST) /\ q.doc = q.surface

OthersEmpty(f, pl) ==
  \A other \in Planes \ {pl}, d \in AllDirs : ~There(d, f, other)

PointerRight(f, pl) ==
  \E s \in SurfaceDocs :
    /\ f[SurfacePath(pl, LATEST)] = [is |-> "whole", doc |-> s]
    /\ f[SurfacePath(pl, s.created)] = [is |-> "whole", doc |-> s]
    /\ \A d \in Stamps \ {s.created} :
         f[SurfacePath(pl, d)].is = "whole" => Before(f[SurfacePath(pl, d)].doc, s)

Early == {"idle", "init", "build"}
Stored == {"list", "readFrom", "readTo", "delta", "latest"}

TimerOK(q, f, pl) ==
  /\ q.pc # "idle" => TickJob(q.job, pl)
  /\ OthersEmpty(f, pl)
  /\ q.pc \notin Early => IsLast(q, f, pl)
  /\ q.pc \in Writing => WritesOwn(q, pl) \/ WritesDelta(q, f, pl) \/ WritesLatest(q, f, pl)
  /\ q.pc = "write" => f[q.path].is = "empty"
  /\ q.pc \in Stored => IsStored(q, f, pl)
  /\ q.pc = "readFrom" => Lists(q, f, pl)
  /\ q.pc = "readTo" => HasRead(q, f, pl)
  /\ q.pc = "delta" => HasBoth(q, f, pl)
  /\ q.pc = "idle" /\ q.result = <<"tick", "ok">> => PointerRight(f, pl)

OnlyTimer(p) == \A o \in Procs \ {p} : procs[o].runs = 0
IsTimer(p, pl) == \A r \in RequestsOf[p] : TickJob(r, pl)

(* What a process is running it was asked to run, a process that has run   *)
(* nothing is idle, and a result is that of something it was asked for.    *)
JobOK(p, q) ==
  /\ q.runs = 0 => q.pc = "idle"
  /\ q.pc # "idle" => q.job \in RequestsOf[p] /\ q.result = NoResult
  /\ q.result # NoResult => \E r \in RequestsOf[p] : q.result[1] = r.tool

(* The inductive invariant. *)
TimerInv ==
  /\ PlaneInv
  /\ DrawnInOrder
  /\ \A p \in Procs : JobOK(p, procs[p])
  /\ \A p \in Procs, pl \in Planes :
       IsTimer(p, pl) /\ OnlyTimer(p) => TimerOK(procs[p], files, pl)

-----------------------------------------------------------------------------
(* A process that runs moves itself alone, and either goes on with its job *)
(* or ends with a result of it.                                            *)
Moves(q, next) ==
  /\ q.pc # "idle" /\ next.runs = q.runs
  /\ \/ next.pc # "idle" /\ next.job = q.job /\ next.result = q.result
     \/ next.pc = "idle" /\ next.result[1] = q.job.tool

LEMMA FinishMoves ==
  ASSUME NEW p \in Procs, NEW result, procs \in [Procs -> ProcType],
         procs[p].pc # "idle", Finish(p, result)
  PROVE  procs' = [procs EXCEPT ![p] = procs'[p]] /\ Moves(procs[p], procs'[p])
  BY DEF Finish, Become, Idle, Moves, Job

LEMMA GotoMoves ==
  ASSUME NEW p \in Procs, NEW q, procs \in [Procs -> ProcType],
         procs[p].pc # "idle", q.pc # "idle", q.runs = procs[p].runs,
         q.job = procs[p].job, q.result = procs[p].result, Become(p, q)
  PROVE  procs' = [procs EXCEPT ![p] = procs'[p]] /\ Moves(procs[p], procs'[p])
  BY DEF Become, Moves

LEMMA StoreMoves ==
  ASSUME NEW p \in Procs, NEW d, procs \in [Procs -> ProcType],
         procs[p].pc # "idle", StoreDoc(p, d)
  PROVE  procs' = [procs EXCEPT ![p] = procs'[p]] /\ Moves(procs[p], procs'[p])
<1>1. CASE Job(p).print
  BY <1>1, FinishMoves DEF StoreDoc
<1>2. CASE ~Job(p).print
  <2> DEFINE q == [procs[p] EXCEPT !.pc = "mkdir", !.doc = d,
                                   !.path = DocPath(Job(p), d),
                                   !.surface = IF d.type = "TruthSurface" THEN d ELSE @]
  <2>1. procs[p] \in ProcType
    OBVIOUS
  <2>2. q.pc # "idle" /\ q.runs = procs[p].runs /\ q.job = procs[p].job /\ q.result = procs[p].result
    BY <2>1 DEF ProcType
  <2>3. Become(p, q)
    BY <1>2 DEF StoreDoc
  <2> HIDE DEF q
  <2> QED
    BY <2>2, <2>3, GotoMoves
<1> QED
  BY <1>1, <1>2

LEMMA StepMoves ==
  ASSUME PlaneInv, NEW p \in Procs, Step(p) \/ Kill(p)
  PROVE  procs' = [procs EXCEPT ![p] = procs'[p]] /\ Moves(procs[p], procs'[p])
<1>0. procs \in [Procs -> ProcType] /\ procs[p] \in ProcType
  BY DEF PlaneInv
<1>1. CASE Kill(p)
  BY <1>0, <1>1, FinishMoves DEF Kill, At
<1>2. CASE BuildSurface(p) \/ BuildIncident(p) \/ SmokeStore(p) \/ SmokeReport(p) \/ BuildDelta(p)
  BY <1>0, <1>2, StoreMoves
  DEF BuildSurface, BuildIncident, SmokeStore, SmokeReport, BuildDelta, At
<1>3. ASSUME NEW label, label # "idle", procs[p].pc # "idle", Goto(p, label)
      PROVE  procs' = [procs EXCEPT ![p] = procs'[p]] /\ Moves(procs[p], procs'[p])
  <2> DEFINE q == [procs[p] EXCEPT !.pc = label]
  <2>1. q.pc # "idle" /\ q.runs = procs[p].runs /\ q.job = procs[p].job /\ q.result = procs[p].result
    BY <1>0, <1>3 DEF ProcType
  <2>2. Become(p, q)
    BY <1>3 DEF Goto
  <2> HIDE DEF q
  <2> QED
    BY <1>0, <1>3, <2>1, <2>2, GotoMoves
<1>4. CASE InitStore(p)
  BY <1>0, <1>3, <1>4, FinishMoves DEF InitStore, At
<1>5. CASE MakeDir(p) \/ OpenFile(p)
  BY <1>3, <1>5 DEF MakeDir, OpenFile, At
<1>6. CASE WriteFile(p)
  <2>1. Then(p) # "idle"
    BY DEF Then
  <2> QED
    BY <1>0, <1>3, <1>6, <2>1, FinishMoves DEF WriteFile, At
<1>7. CASE ListSurfaces(p)
  BY <1>0, <1>3, <1>7 DEF ListSurfaces, At, Become, Moves, ProcType
<1>8. CASE ReadFrom(p)
  BY <1>0, <1>8, FinishMoves DEF ReadFrom, At, Become, Moves, ProcType
<1>9. CASE ReadTo(p)
  BY <1>0, <1>9, FinishMoves DEF ReadTo, At, Become, Moves, ProcType
<1>10. CASE PointLatest(p)
  BY <1>0, <1>10 DEF PointLatest, At, Become, Moves, ProcType
<1>11. CASE SmokeFirst(p)
  BY <1>0, <1>11 DEF SmokeFirst, At, Become, Moves, ProcType
<1>12. CASE SmokeSecond(p)
  BY <1>0, <1>12 DEF SmokeSecond, At, Become, Moves, ProcType
<1> QED
  BY <1>1, <1>2, <1>4, <1>5, <1>6, <1>7, <1>8, <1>9, <1>10, <1>11, <1>12 DEF Step

-----------------------------------------------------------------------------
(* No two documents of the layout have the same place. *)
LEMMA PathsApart ==
  /\ \A a, b, d, e : SurfacePath(a, d) = SurfacePath(b, e) => a = b /\ d = e
  /\ \A a, d : SurfacePath(a, d)[1] = "surfaces" /\ SurfacePath(a, d)[3] = d
  /\ "surfaces" # "deltas"
  BY DEF SurfacePath

(* A write leaves the other files alone. *)
LEMMA SurfaceKept ==
  ASSUME NEW f, DOMAIN f = Paths, NEW pl \in Planes, NEW x, NEW c, NEW d \in AllDirs,
         x # SurfacePath(pl, d)
  PROVE  [f EXCEPT ![x] = c][SurfacePath(pl, d)] = f[SurfacePath(pl, d)]
  BY PathKinds DEF AllDirs

(* What a tick compares stays the same as long as the surfaces do. *)
LEMMA ComparesKept ==
  ASSUME NEW f, NEW g, NEW pl \in Planes, NEW q,
         \A d \in AllDirs : g[SurfacePath(pl, d)] = f[SurfacePath(pl, d)],
         Compares(q, f, pl)
  PROVE  Compares(q, g, pl)
<1> SUFFICES ASSUME IsNewest(q.surface.created, g, pl)
             PROVE  \E d \in AllDirs :
                      /\ Partner(d, q, g, pl) /\ g[SurfacePath(pl, d)].is = "whole"
                      /\ IF d = LATEST
                         THEN q.doc.from = q.surface.id /\ q.doc.to = g[SurfacePath(pl, d)].doc.id
                         ELSE q.doc.from = g[SurfacePath(pl, d)].doc.id /\ q.doc.to = q.surface.id
  BY DEF Compares
<1>1. IsNewest(q.surface.created, f, pl)
  BY DEF IsNewest, There, AllDirs
<1>2. PICK d \in AllDirs :
        /\ Partner(d, q, f, pl) /\ f[SurfacePath(pl, d)].is = "whole"
        /\ IF d = LATEST
           THEN q.doc.from = q.surface.id /\ q.doc.to = f[SurfacePath(pl, d)].doc.id
           ELSE q.doc.from = f[SurfacePath(pl, d)].doc.id /\ q.doc.to = q.surface.id
  BY <1>1 DEF Compares
<1>3. LATEST \in AllDirs
  BY DEF AllDirs
<1>4. Partner(d, q, g, pl)
  BY <1>2, <1>3 DEF Partner, There
<1>5. g[SurfacePath(pl, d)] = f[SurfacePath(pl, d)]
  OBVIOUS
<1> QED
  BY <1>2, <1>4, <1>5

LEMMA OthersAround ==
  ASSUME NEW f, DOMAIN f = Paths, NEW pl \in Planes, NEW x \in Paths, NEW c,
         x[1] = "deltas" \/ \E e : x = SurfacePath(pl, e),
         OthersEmpty(f, pl)
  PROVE  OthersEmpty([f EXCEPT ![x] = c], pl)
<1> DEFINE g == [f EXCEPT ![x] = c]
<1>1. ASSUME NEW other \in Planes \ {pl}, NEW d \in AllDirs
      PROVE  ~There(d, g, other)
  <2>1. x # SurfacePath(other, d)
    BY PathsApart
  <2>2. g[SurfacePath(other, d)] = f[SurfacePath(other, d)]
    BY <2>1, SurfaceKept
  <2> QED
    BY <2>2 DEF OthersEmpty, There
<1> QED
  BY <1>1 DEF OthersEmpty

(* What a timer's process holds once its surface is built. *)
LEMMA TimerHolds ==
  ASSUME PlaneInv, NEW p \in Procs, NEW pl \in Planes, TimerOK(procs[p], files, pl),
         procs[p].pc \notin Early
  PROVE  /\ procs[p] \in ProcType /\ procs \in [Procs -> ProcType]
         /\ procs[p].surface \in SurfaceDocs /\ procs[p].surface.created \in Stamps
         /\ OwnPath(procs[p], pl) \in Paths
         /\ TickJob(procs[p].job, pl)
<1>1. procs[p] \in ProcType /\ procs \in [Procs -> ProcType] /\ ProcOK(procs[p], emitted)
      /\ emitted \subseteq SurfaceDocs
  BY DEF PlaneInv
<1>2. TickJob(procs[p].job, pl)
  BY DEF TimerOK, Early
<1>3. procs[p].surface \in SurfaceDocs
  BY <1>1, <1>2 DEF ProcOK, TickJob, Early
<1>4. procs[p].surface.created \in Stamps
  BY <1>3 DEF SurfaceDocs
<1> QED
  BY <1>1, <1>2, <1>3, <1>4, PathKinds DEF OwnPath

(* What is said of a tick's surface, document and path is all that matters *)
(* of it here.                                                             *)
LEMMA SameWrites ==
  ASSUME NEW q, NEW r, r.surface = q.surface, r.doc = q.doc, r.path = q.path, NEW f, NEW pl
  PROVE  /\ IsLast(q, f, pl) => IsLast(r, f, pl)
         /\ WritesOwn(q, pl) => WritesOwn(r, pl)
         /\ WritesDelta(q, f, pl) => WritesDelta(r, f, pl)
         /\ WritesLatest(q, f, pl) => WritesLatest(r, f, pl)
<1>1. IsLast(q, f, pl) => IsLast(r, f, pl)
  BY DEF IsLast
<1>2. OwnPath(r, pl) = OwnPath(q, pl) /\ (IsStored(q, f, pl) => IsStored(r, f, pl))
  BY DEF IsStored, OwnPath
<1>3. Compares(q, f, pl) => Compares(r, f, pl)
  BY DEF Compares, Partner
<1> QED
  BY <1>1, <1>2, <1>3 DEF WritesOwn, WritesDelta, WritesLatest

LEMMA SameStored ==
  ASSUME NEW q, NEW r, r.surface = q.surface, NEW f, NEW pl
  PROVE  /\ IsLast(q, f, pl) => IsLast(r, f, pl)
         /\ IsStored(q, f, pl) => IsStored(r, f, pl)
         /\ OwnPath(r, pl) = OwnPath(q, pl)
  BY DEF IsLast, IsStored, OwnPath

(* A timer's write, whatever it leaves at its path, is to its own surface, *)
(* to a delta or to the pointer, and spares what it has stored.            *)
LEMMA TimerWrites ==
  ASSUME PlaneInv, NEW p \in Procs, NEW pl \in Planes, TimerOK(procs[p], files, pl),
         procs[p].pc \in Writing, NEW c
  PROVE  LET q == procs[p]
             f == [files EXCEPT ![q.path] = c] IN
         /\ q.path \in Paths /\ f[q.path] = c
         /\ OthersEmpty(f, pl)
         /\ (c.is = "whole" => c = files[q.path] \/ q.path # SurfacePath(pl, LATEST))
              => IsLast(q, f, pl)
         /\ WritesDelta(q, files, pl) => WritesDelta(q, f, pl)
         /\ WritesLatest(q, files, pl) => WritesLatest(q, f, pl)
<1> DEFINE q == procs[p]
           f == [files EXCEPT ![q.path] = c]
<1>1. q.pc \notin Early
  BY DEF Writing, Early
<1>2. /\ q.surface.created \in Stamps /\ OwnPath(q, pl) \in Paths
      /\ DOMAIN files = Paths /\ now \in Stamps /\ uuids \in Nat
      /\ q.path \in Paths
  BY <1>1, TimerHolds DEF PlaneInv, ProcOK, FilesOK, FilesType
<1>3. /\ IsLast(q, files, pl) /\ OthersEmpty(files, pl)
      /\ (WritesOwn(q, pl) \/ WritesDelta(q, files, pl) \/ WritesLatest(q, files, pl))
  BY <1>1 DEF TimerOK
<1>4. LATEST \notin Stamps /\ q.surface.created \in AllDirs /\ LATEST \in AllDirs
  BY <1>2, StampTypes DEF AllDirs
<1>5. q.path[1] = "deltas" \/ q.path = OwnPath(q, pl) \/ q.path = SurfacePath(pl, LATEST)
  BY <1>3 DEF WritesOwn, WritesDelta, WritesLatest
<1>6. q.path[1] = "deltas" \/ \E e : q.path = SurfacePath(pl, e)
  BY <1>5 DEF OwnPath
<1>7. OthersEmpty(f, pl)
  BY <1>2, <1>3, <1>6, OthersAround
<1>8. q.path[1] = "deltas" => \A d \in AllDirs : f[SurfacePath(pl, d)] = files[SurfacePath(pl, d)]
  BY <1>2, SurfaceKept, PathsApart
<1>9. ASSUME c.is = "whole" => c = files[q.path] \/ q.path # SurfacePath(pl, LATEST)
      PROVE  IsLast(q, f, pl)
  <2> SUFFICES ASSUME NEW d \in AllDirs \ {q.surface.created},
                      f[SurfacePath(pl, d)].is = "whole"
               PROVE  Before(f[SurfacePath(pl, d)].doc, q.surface)
    BY DEF IsLast
  <2>1. f[SurfacePath(pl, d)] = files[SurfacePath(pl, d)]
    <3>1. CASE q.path = SurfacePath(pl, d)
      <4>1. d = LATEST
        BY <1>5, <3>1, PathsApart DEF OwnPath
      <4>2. f[SurfacePath(pl, d)] = c
        BY <1>2, <3>1
      <4> HIDE DEF f
      <4> QED
        BY <1>9, <3>1, <4>1, <4>2
    <3>2. CASE q.path # SurfacePath(pl, d)
      BY <1>2, <3>2, SurfaceKept
    <3> QED
      BY <3>1, <3>2
  <2> HIDE DEF f
  <2> QED
    BY <1>3, <2>1 DEF IsLast
<1>10. ASSUME WritesDelta(q, files, pl) PROVE WritesDelta(q, f, pl)
  <2>1. q.path[1] = "deltas" /\ IsStored(q, files, pl) /\ Compares(q, files, pl)
    BY <1>10 DEF WritesDelta
  <2>2. IsStored(q, f, pl)
    BY <1>4, <1>8, <2>1 DEF IsStored, OwnPath
  <2> HIDE DEF f
  <2>3. Compares(q, f, pl)
    BY <1>8, <2>1, ComparesKept
  <2> QED
    BY <2>1, <2>2, <2>3 DEF WritesDelta
<1>11. WritesLatest(q, files, pl) => WritesLatest(q, f, pl)
  <2>1. q.path = SurfacePath(pl, LATEST) => q.path # OwnPath(q, pl)
    BY <1>2, <1>4, PathsApart DEF OwnPath
  <2> QED
    BY <1>2, <2>1 DEF WritesLatest, IsStored
<1> QED
  BY <1>2, <1>7, <1>9, <1>10, <1>11

-----------------------------------------------------------------------------
(* Ending badly, and starting over, leave the store as it is. *)
LEMMA TimerEnds ==
  ASSUME PlaneInv, NEW p \in Procs, NEW pl \in Planes, TimerOK(procs[p], files, pl),
         NEW result \in {"failed", "killed"}, Finish(p, result)
  PROVE  TimerOK(procs'[p], files, pl)
<1> DEFINE q == [Idle(<<Job(p).tool, result>>) EXCEPT !.runs = procs[p].runs]
<1>1. q.pc = "idle" /\ q.result = <<Job(p).tool, result>>
  BY DEF Idle
<1>2. procs'[p] = q
  BY DEF Finish, Become, PlaneInv
<1> HIDE DEF q
<1> QED
  BY <1>1, <1>2 DEF TimerOK, Early, Writing, Stored

LEMMA TimerStarts ==
  ASSUME PlaneInv, NEW p \in Procs, NEW pl \in Planes, TimerOK(procs[p], files, pl),
         IsTimer(p, pl), NEW r \in RequestsOf[p], Start(p, r)
  PROVE  TimerOK(procs'[p], files', pl)
<1> DEFINE q == [procs[p] EXCEPT
       !.pc = CASE r.tool = "tick" -> "init"
                [] r.tool = "delta" -> "readFrom"
                [] OTHER -> "build",
       !.job = r, !.runs = @ + 1, !.result = NoResult,
       !.pair = IF r.tool = "delta" THEN <<r.from, r.to>> ELSE @]
<1>1. TickJob(r, pl) /\ r.tool = "tick"
  BY DEF IsTimer, TickJob
<1>2. procs[p] \in ProcType /\ procs \in [Procs -> ProcType]
  BY DEF PlaneInv
<1>3. q.pc = "init" /\ q.job = r
  BY <1>1, <1>2 DEF ProcType
<1>4. procs'[p] = q /\ files' = files
  BY <1>2 DEF Start, Become
<1> HIDE DEF q
<1> QED
  BY <1>1, <1>3, <1>4 DEF TimerOK, Early, Writing, Stored

LEMMA TimerInits ==
  ASSUME PlaneInv, NEW p \in Procs, NEW pl \in Planes, TimerOK(procs[p], files, pl),
         InitStore(p)
  PROVE  TimerOK(procs'[p], files', pl)
<1>1. CASE HasInitStore
  <2> DEFINE q == [procs[p] EXCEPT !.pc = "build"]
  <2>1. procs[p] \in ProcType /\ procs \in [Procs -> ProcType]
    BY DEF PlaneInv
  <2>2. q.pc = "build" /\ q.job = procs[p].job /\ procs[p].pc = "init"
    BY <2>1 DEF ProcType, InitStore, At
  <2>3. procs'[p] = q /\ files' = files
    BY <1>1, <2>1 DEF InitStore, Goto, Become
  <2> HIDE DEF q
  <2> QED
    BY <2>2, <2>3 DEF TimerOK, Early, Writing, Stored
<1>2. CASE ~HasInitStore
  BY <1>2, TimerEnds DEF InitStore
<1> QED
  BY <1>1, <1>2

(* The surface of a tick has a new identifier, or one given to it. *)
LEMMA SurfaceIsLast ==
  ASSUME PlaneInv, DrawnInOrder, NEW r \in SurfaceRequests, NEW s \in emitted
  PROVE  Before(s, Surface(r))
<1>1. s \in SurfaceDocs /\ uuids \in Nat
  BY DEF PlaneInv
<1>2. s.id \in Ids
  BY <1>1 DEF SurfaceDocs
<1>3. s.id[2] \in Nat
  BY <1>2 DEF Ids
<1>4. CASE r.id = {}
  <2>1. Surface(r).id = <<"uuid", uuids + 1>>
    BY <1>4 DEF Surface, Given, Uuid
  <2>2. s.id[1] = "uuid" => s.id[2] <= uuids
    BY DEF DrawnInOrder
  <2> QED
    BY <1>1, <1>3, <2>1, <2>2 DEF Before
<1>5. CASE r.id # {}
  <2>1. r.id \in SUBSET GivenIds
    BY DEF SurfaceRequests
  <2>2. PICK x \in r.id : TRUE
    BY <1>5
  <2>3. (CHOOSE y \in r.id : TRUE) \in r.id
    BY <2>2
  <2>4. Given(r.id, Uuid) \in GivenIds
    BY <1>5, <2>1, <2>3 DEF Given
  <2>5. Surface(r).id[1] # "uuid"
    BY <2>4, GivenAreIds DEF Surface
  <2> QED
    BY <2>5 DEF Before
<1> QED
  BY <1>4, <1>5

LEMMA TimerBuilds ==
  ASSUME PlaneInv, DrawnInOrder, NEW p \in Procs, NEW pl \in Planes,
         TimerOK(procs[p], files, pl), BuildSurface(p)
  PROVE  TimerOK(procs'[p], files', pl)
<1> DEFINE d == Surface(Job(p))
           q == [procs[p] EXCEPT !.pc = "mkdir", !.doc = d, !.path = DocPath(Job(p), d),
                                 !.surface = IF d.type = "TruthSurface" THEN d ELSE @]
<1>1. procs[p] \in ProcType /\ procs \in [Procs -> ProcType] /\ procs[p].pc = "build"
  BY DEF PlaneInv, BuildSurface, At
<1>2. TickJob(Job(p), pl) /\ Job(p) \in SurfaceRequests
  <2>1. TickJob(Job(p), pl)
    BY <1>1 DEF TimerOK, Job
  <2>2. Job(p) \in Requests
    BY <1>1 DEF PlaneInv, ProcOK, Job
  <2> QED
    BY <2>1, <2>2, RequestKinds DEF TickJob
<1>3. d.type = "TruthSurface" /\ d.created = now
  BY <1>2 DEF Surface, Given, TickJob
<1>4. DocPath(Job(p), d) = SurfacePath(pl, now)
  BY <1>2, <1>3 DEF DocPath, TickJob
<1>5. procs'[p] = q /\ files' = files
  BY <1>1, <1>2 DEF BuildSurface, StoreDoc, Become, TickJob
<1>6. ASSUME NEW e \in AllDirs, files[SurfacePath(pl, e)].is = "whole"
      PROVE  Before(files[SurfacePath(pl, e)].doc, d)
  <2>1. SurfacePath(pl, e) \in Paths /\ SurfacePath(pl, e)[1] = "surfaces"
    BY PathKinds DEF AllDirs
  <2>2. files[SurfacePath(pl, e)].doc \in emitted
    BY <1>6, <2>1 DEF PlaneInv, FilesOK
  <2> QED
    BY <1>2, <2>2, SurfaceIsLast
<1> HIDE DEF d
<1>7. q.pc = "mkdir" /\ q.job = procs[p].job /\ q.doc = d /\ q.surface = d
      /\ q.path = SurfacePath(pl, now)
  BY <1>1, <1>3, <1>4 DEF ProcType
<1> HIDE DEF q
<1>8. WritesOwn(q, pl)
  BY <1>3, <1>7 DEF WritesOwn, OwnPath
<1>9. IsLast(q, files, pl)
  BY <1>6, <1>7 DEF IsLast
<1>10. TickJob(q.job, pl) /\ OthersEmpty(files, pl)
  BY <1>2, <1>7 DEF TimerOK, Job
<1> QED
  BY <1>5, <1>7, <1>8, <1>9, <1>10 DEF TimerOK, Early, Writing, Stored

LEMMA TimerMakesDir ==
  ASSUME PlaneInv, NEW p \in Procs, NEW pl \in Planes, TimerOK(procs[p], files, pl),
         MakeDir(p)
  PROVE  TimerOK(procs'[p], files', pl)
<1> DEFINE q == [procs[p] EXCEPT !.pc = "open"]
           c == [files[procs[p].path] EXCEPT !.is = IF @ = "none" THEN "dir" ELSE @]
<1>1. procs[p].pc = "mkdir"
  BY DEF MakeDir, At
<1>2. procs[p] \in ProcType /\ procs \in [Procs -> ProcType] /\ TickJob(procs[p].job, pl)
  BY <1>1, TimerHolds DEF Early
<1>3. /\ q.pc = "open" /\ q.job = procs[p].job /\ q.surface = procs[p].surface
      /\ q.path = procs[p].path /\ q.doc = procs[p].doc
  BY <1>2 DEF ProcType
<1>4. procs'[p] = q /\ files' = [files EXCEPT ![procs[p].path] = c]
  BY <1>2 DEF MakeDir, Goto, Become
<1>5. c.is = "whole" => c = files[procs[p].path]
  <2>1. files[procs[p].path] \in [is : Stages, doc : Docs \cup {None}]
    BY <1>1 DEF PlaneInv, ProcOK, FilesOK, FilesType, Writing
  <2> QED
    BY <2>1
<1> HIDE DEF q, c
<1>6. /\ OthersEmpty(files', pl) /\ IsLast(procs[p], files', pl)
      /\ WritesDelta(procs[p], files, pl) => WritesDelta(procs[p], files', pl)
      /\ WritesLatest(procs[p], files, pl) => WritesLatest(procs[p], files', pl)
  BY <1>1, <1>4, <1>5, TimerWrites DEF Writing
<1>7. WritesOwn(procs[p], pl) \/ WritesDelta(procs[p], files, pl) \/ WritesLatest(procs[p], files, pl)
  BY <1>1 DEF TimerOK, Writing
<1>8. /\ WritesOwn(q, pl) \/ WritesDelta(q, files', pl) \/ WritesLatest(q, files', pl)
      /\ IsLast(q, files', pl)
  BY <1>3, <1>6, <1>7, SameWrites
<1> QED
  BY <1>2, <1>3, <1>4, <1>6, <1>8 DEF TimerOK, Early, Writing, Stored

LEMMA TimerOpens ==
  ASSUME PlaneInv, NEW p \in Procs, NEW pl \in Planes, TimerOK(procs[p], files, pl),
         OpenFile(p)
  PROVE  TimerOK(procs'[p], files', pl)
<1> DEFINE q == [procs[p] EXCEPT !.pc = "write"]
           c == [is |-> "empty", doc |-> None]
<1>1. procs[p].pc = "open"
  BY DEF OpenFile, At
<1>2. procs[p] \in ProcType /\ procs \in [Procs -> ProcType] /\ TickJob(procs[p].job, pl)
  BY <1>1, TimerHolds DEF Early
<1>3. /\ q.pc = "write" /\ q.job = procs[p].job /\ q.surface = procs[p].surface
      /\ q.path = procs[p].path /\ q.doc = procs[p].doc
  BY <1>2 DEF ProcType
<1>4. procs'[p] = q /\ files' = [files EXCEPT ![procs[p].path] = c]
  BY <1>2 DEF OpenFile, Goto, Become
<1>5. c.is = "empty"
  OBVIOUS
<1> HIDE DEF q, c
<1>6. /\ OthersEmpty(files', pl) /\ IsLast(procs[p], files', pl) /\ files'[procs[p].path] = c
      /\ WritesDelta(procs[p], files, pl) => WritesDelta(procs[p], files', pl)
      /\ WritesLatest(procs[p], files, pl) => WritesLatest(procs[p], files', pl)
  BY <1>1, <1>4, <1>5, TimerWrites DEF Writing
<1>7. WritesOwn(procs[p], pl) \/ WritesDelta(procs[p], files, pl) \/ WritesLatest(procs[p], files, pl)
  BY <1>1 DEF TimerOK, Writing
<1>8. /\ WritesOwn(q, pl) \/ WritesDelta(q, files', pl) \/ WritesLatest(q, files', pl)
      /\ IsLast(q, files', pl)
  BY <1>3, <1>6, <1>7, SameWrites
<1> QED
  BY <1>2, <1>3, <1>4, <1>5, <1>6, <1>8 DEF TimerOK, Early, Writing, Stored

(* Nobody fills the file between the timer's two steps, so its text is     *)
(* whole; when it is the pointer's, the pointer is a copy of the newest.   *)
LEMMA TimerWritesText ==
  ASSUME PlaneInv, NEW p \in Procs, NEW pl \in Planes, TimerOK(procs[p], files, pl),
         WriteFile(p)
  PROVE  TimerOK(procs'[p], files', pl)
<1> DEFINE q == procs[p]
           c == [is |-> "whole", doc |-> q.doc]
<1>1. q.pc = "write"
  BY DEF WriteFile, At
<1>2. /\ q \in ProcType /\ procs \in [Procs -> ProcType] /\ TickJob(q.job, pl)
      /\ q.surface.created \in Stamps /\ LATEST \notin Stamps
      /\ now \in Stamps /\ uuids \in Nat
  BY <1>1, TimerHolds, StampTypes DEF Early, PlaneInv
<1>3. /\ files[q.path].is = "empty" /\ IsLast(q, files, pl) /\ q.surface \in SurfaceDocs
  BY <1>1, TimerHolds DEF TimerOK, Early
<1>4. files' = [files EXCEPT ![q.path] = c]
  BY <1>3 DEF WriteFile
<1>5. c.is = "whole"
  OBVIOUS
<1> HIDE DEF c
<1>6. /\ q.path \in Paths /\ files'[q.path] = c
      /\ OthersEmpty(files', pl)
      /\ q.path # SurfacePath(pl, LATEST) => IsLast(q, files', pl)
      /\ WritesDelta(q, files, pl) => WritesDelta(q, files', pl)
      /\ WritesLatest(q, files, pl) => WritesLatest(q, files', pl)
  BY <1>1, <1>4, TimerWrites DEF Writing
<1>7. ASSUME NEW label \in {"list", "latest"}, Goto(p, label), IsStored(q, files', pl),
             IsLast(q, files', pl)
      PROVE  TimerOK(procs'[p], files', pl)
  <2> DEFINE r == [procs[p] EXCEPT !.pc = label]
  <2>1. r.pc = label /\ r.job = q.job /\ r.surface = q.surface
    BY <1>2 DEF ProcType
  <2>2. procs'[p] = r
    BY <1>2, <1>7 DEF Goto, Become
  <2> HIDE DEF r, q
  <2>3. IsStored(r, files', pl) /\ IsLast(r, files', pl)
    BY <1>7, <2>1, SameStored
  <2> QED
    BY <1>2, <1>6, <2>1, <2>2, <2>3 DEF TimerOK, Early, Writing, Stored
<1>8. CASE WritesOwn(q, pl)
  <2>1. q.path[1] = "surfaces" /\ q.path[3] # LATEST
    BY <1>2, <1>8, PathsApart DEF WritesOwn, OwnPath
  <2>2. Then(p) = "list"
    BY <1>2, <2>1 DEF Then, TickJob, Job
  <2>3. IsStored(q, files', pl)
    BY <1>6, <1>8 DEF WritesOwn, IsStored, c
  <2>4. q.path # SurfacePath(pl, LATEST)
    BY <2>1, PathsApart
  <2> QED
    BY <1>6, <1>7, <2>2, <2>3, <2>4 DEF WriteFile
<1>9. CASE WritesDelta(q, files, pl)
  <2>1. q.path[1] = "deltas" /\ IsStored(q, files', pl)
    BY <1>6, <1>9 DEF WritesDelta
  <2>2. Then(p) = "latest"
    BY <1>2, <2>1 DEF Then, TickJob, Job
  <2>3. q.path # SurfacePath(pl, LATEST)
    BY <2>1, PathsApart
  <2> QED
    BY <1>6, <1>7, <2>1, <2>2, <2>3 DEF WriteFile
<1>10. CASE WritesLatest(q, files, pl)
  <2>1. q.path = SurfacePath(pl, LATEST) /\ IsStored(q, files', pl) /\ q.doc = q.surface
    BY <1>6, <1>10 DEF WritesLatest
  <2>2. q.path[1] = "surfaces" /\ q.path[3] = LATEST
    BY <2>1, PathsApart
  <2>3. Then(p) = "end"
    BY <1>2, <2>2 DEF Then, TickJob, Job
  <2>4. PointerRight(files', pl)
    <3> DEFINE t == q.surface
    <3>1. files'[SurfacePath(pl, t.created)] = [is |-> "whole", doc |-> t]
      BY <2>1 DEF IsStored, OwnPath
    <3>2. files'[SurfacePath(pl, LATEST)] = [is |-> "whole", doc |-> t]
      BY <1>6, <2>1 DEF c
    <3>3. ASSUME NEW d \in Stamps \ {t.created}, files'[SurfacePath(pl, d)].is = "whole"
          PROVE  Before(files'[SurfacePath(pl, d)].doc, t)
      <4>1. d \in AllDirs \ {q.surface.created} /\ q.path # SurfacePath(pl, d)
        BY <1>2, <2>1, PathsApart DEF AllDirs
      <4>2. DOMAIN files = Paths
        BY DEF PlaneInv, FilesOK, FilesType
      <4>3. files'[SurfacePath(pl, d)] = files[SurfacePath(pl, d)]
        BY <1>4, <4>1, <4>2, SurfaceKept
      <4> QED
        BY <1>3, <3>3, <4>1, <4>3 DEF IsLast
    <3>4. t \in SurfaceDocs
      BY <1>3
    <3> HIDE DEF t, q
    <3> QED
      BY <3>1, <3>2, <3>3, <3>4 DEF PointerRight
  <2> DEFINE r == [Idle(<<Job(p).tool, "ok">>) EXCEPT !.runs = procs[p].runs]
  <2>5. r.pc = "idle"
    BY DEF Idle
  <2>6. procs'[p] = r
    BY <1>2, <2>3 DEF WriteFile, Finish, Become
  <2> HIDE DEF r
  <2> QED
    BY <1>6, <2>4, <2>5, <2>6 DEF TimerOK, Early, Writing, Stored
<1> QED
  BY <1>1, <1>8, <1>9, <1>10 DEF TimerOK, Writing

(* If no directory has the name of a later time, the tick's own surface is *)
(* the newest below the pointer, so it is one of the last two, and the     *)
(* other is the pointer or, without one, an older directory.               *)
LEMMA ListsOwn ==
  ASSUME PlaneInv, NEW pl \in Planes, NEW q, q.surface.created \in Stamps,
         IsStored(q, files, pl), IsNewest(q.surface.created, files, pl),
         NEW w \in LastTwo(pl),
         q.pair = <<SurfacePath(pl, w[1]), SurfacePath(pl, w[2])>>
  PROVE  Lists(q, files, pl)
<1> DEFINE d == q.surface.created
<1>1. /\ w[1] \in Dirs(pl) /\ w[2] \in Dirs(pl) /\ w[1] < w[2]
      /\ \A e \in Dirs(pl) : e <= w[1] \/ e = w[2]
  BY DEF LastTwo
<1>2. \A e : e \in Dirs(pl) <=> e \in AllDirs /\ There(e, files, pl)
  BY DEF Dirs, AllDirs, There
<1>3. d \in Dirs(pl)
  <2>1. files[SurfacePath(pl, d)].is = "whole" /\ d \in Stamps
    BY DEF IsStored, OwnPath
  <2> HIDE DEF d
  <2> QED
    BY <1>2, <2>1 DEF AllDirs, There
<1>4. /\ AllDirs \subseteq Nat /\ LATEST \in Nat /\ \A e \in Stamps : e < LATEST
      /\ \A e \in AllDirs : e <= LATEST /\ (e < LATEST => e \in Stamps)
  BY RequestsAssumption DEF AllDirs, Stamps, LATEST
<1>5. CASE There(LATEST, files, pl)
  <2>1. LATEST \in Dirs(pl)
    BY <1>2, <1>5 DEF AllDirs
  <2>2. w[2] = LATEST
    <3>1. w[1] \in Nat /\ w[2] \in Nat /\ w[2] <= LATEST
      BY <1>1, <1>2, <1>4
    <3>2. LATEST <= w[1] \/ LATEST = w[2]
      BY <1>1, <2>1
    <3>3. ~(LATEST <= w[1])
      BY <1>1, <1>4, <3>1
    <3> QED
      BY <3>2, <3>3
  <2>3. w[1] \in Stamps /\ There(w[1], files, pl)
    BY <1>1, <1>2, <1>4, <2>2
  <2>4. w[1] <= d
    BY <2>3 DEF IsNewest
  <2>5. d < LATEST
    BY <1>4
  <2>6. d <= w[1] /\ d \in Nat /\ w[1] \in Nat
    <3>1. d \in Nat /\ w[1] \in Nat
      BY <1>1, <1>2, <1>3, <1>4
    <3>2. d <= w[1] \/ d = LATEST
      BY <1>1, <1>3, <2>2
    <3> HIDE DEF d
    <3>3. d # LATEST
      BY <1>4, <2>5, <3>1
    <3> QED
      BY <3>1, <3>2, <3>3
  <2>7. w[1] = d /\ LATEST # d
    <3> HIDE DEF d
    <3> QED
      BY <1>4, <2>4, <2>5, <2>6
  <2>8. Partner(LATEST, q, files, pl) /\ LATEST \in AllDirs
    BY <1>5, <2>7 DEF Partner, AllDirs
  <2>9. q.pair = <<OwnPath(q, pl), SurfacePath(pl, LATEST)>>
    BY <2>2, <2>7 DEF OwnPath
  <2> QED
    BY <2>8, <2>9 DEF Lists
<1>6. CASE ~There(LATEST, files, pl)
  <2>1. w[1] \in Stamps /\ w[2] \in Stamps /\ There(w[1], files, pl) /\ There(w[2], files, pl)
    BY <1>1, <1>2, <1>6 DEF AllDirs
  <2>2. w[2] <= d
    BY <2>1 DEF IsNewest
  <2>3. d \in Nat /\ w[1] \in Nat /\ w[2] \in Nat /\ (d <= w[1] \/ d = w[2])
    BY <1>1, <1>2, <1>3, <1>4
  <2>4. d = w[2] /\ w[1] # d /\ w[1] # LATEST
    <3> HIDE DEF d
    <3> QED
      BY <1>1, <1>4, <2>1, <2>2, <2>3
  <2>5. Partner(w[1], q, files, pl) /\ w[1] \in AllDirs
    BY <1>6, <2>1, <2>4 DEF Partner, AllDirs
  <2>6. q.pair = <<SurfacePath(pl, w[1]), OwnPath(q, pl)>>
    BY <2>4 DEF OwnPath
  <2> QED
    BY <2>4, <2>5, <2>6 DEF Lists
<1> QED
  BY <1>5, <1>6

LEMMA TimerLists ==
  ASSUME PlaneInv, NEW p \in Procs, NEW pl \in Planes, TimerOK(procs[p], files, pl),
         ListSurfaces(p)
  PROVE  TimerOK(procs'[p], files', pl)
<1> DEFINE q == procs[p]
<1>1. q.pc = "list"
  BY DEF ListSurfaces, At
<1>2. /\ q \in ProcType /\ procs \in [Procs -> ProcType] /\ TickJob(q.job, pl)
      /\ q.surface.created \in Stamps
  BY <1>1, TimerHolds DEF Early
<1>3. IsLast(q, files, pl) /\ IsStored(q, files, pl) /\ OthersEmpty(files, pl)
  BY <1>1 DEF TimerOK, Early, Stored
<1>4. files' = files
  BY DEF ListSurfaces
<1>5. CASE Goto(p, "latest")
  <2> DEFINE r == [procs[p] EXCEPT !.pc = "latest"]
  <2>1. r.pc = "latest" /\ r.job = q.job /\ r.surface = q.surface
    BY <1>2 DEF ProcType
  <2>2. procs'[p] = r
    BY <1>2, <1>5 DEF Goto, Become
  <2> HIDE DEF r, q
  <2>3. IsStored(r, files, pl) /\ IsLast(r, files, pl)
    BY <1>3, <2>1, SameStored
  <2> QED
    BY <1>2, <1>3, <1>4, <2>1, <2>2, <2>3 DEF TimerOK, Early, Writing, Stored
<1>6. ASSUME NEW pair \in LatestTwo(Job(p).plane),
             Become(p, [procs[p] EXCEPT !.pc = "readFrom", !.pair = pair])
      PROVE  TimerOK(procs'[p], files', pl)
  <2>1. Job(p).plane = pl
    BY <1>2 DEF TickJob, Job
  <2>2. PICK w \in LastTwo(pl) : pair = <<SurfacePath(pl, w[1]), SurfacePath(pl, w[2])>>
    BY <2>1 DEF LatestTwo
  <2> DEFINE r == [procs[p] EXCEPT !.pc = "readFrom", !.pair = pair]
  <2>3. r.pc = "readFrom" /\ r.job = q.job /\ r.surface = q.surface /\ r.pair = pair
    BY <1>2 DEF ProcType
  <2>4. procs'[p] = r
    BY <1>2, <1>6 DEF Become
  <2> HIDE DEF r, q
  <2>5. IsStored(r, files, pl) /\ IsLast(r, files, pl)
    BY <1>3, <2>3, SameStored
  <2>6. Lists(r, files, pl)
    <3>1. CASE IsNewest(r.surface.created, files, pl)
      BY <1>2, <2>2, <2>3, <2>5, <3>1, ListsOwn
    <3>2. CASE ~IsNewest(r.surface.created, files, pl)
      BY <3>2 DEF Lists
    <3> QED
      BY <3>1, <3>2
  <2> QED
    BY <1>2, <1>3, <1>4, <2>3, <2>4, <2>5, <2>6 DEF TimerOK, Early, Writing, Stored
<1> QED
  BY <1>5, <1>6 DEF ListSurfaces

LEMMA TimerReadsFrom ==
  ASSUME PlaneInv, NEW p \in Procs, NEW pl \in Planes, TimerOK(procs[p], files, pl),
         ReadFrom(p)
  PROVE  TimerOK(procs'[p], files', pl)
<1> DEFINE q == procs[p]
           r == [procs[p] EXCEPT !.pc = "readTo", !.from = files[procs[p].pair[1]].doc]
<1>1. q.pc = "readFrom"
  BY DEF ReadFrom, At
<1>2. /\ q \in ProcType /\ procs \in [Procs -> ProcType] /\ TickJob(q.job, pl)
  BY <1>1, TimerHolds DEF Early
<1>3. /\ IsLast(q, files, pl) /\ IsStored(q, files, pl) /\ OthersEmpty(files, pl)
      /\ Lists(q, files, pl)
  BY <1>1 DEF TimerOK, Early, Stored
<1>4. files' = files
  BY DEF ReadFrom
<1>5. CASE Readable(q.pair[1])
  <2>1. r.pc = "readTo" /\ r.job = q.job /\ r.surface = q.surface /\ r.pair = q.pair
        /\ r.from = files[q.pair[1]].doc
    BY <1>2 DEF ProcType
  <2>2. procs'[p] = r
    BY <1>2, <1>5 DEF ReadFrom, Become
  <2> HIDE DEF r, q
  <2>3. IsStored(r, files, pl) /\ IsLast(r, files, pl)
    BY <1>3, <2>1, SameStored
  <2>4. ASSUME IsNewest(q.surface.created, files, pl)
        PROVE  \E d \in AllDirs :
                 /\ Partner(d, q, files, pl)
                 /\ IF d = LATEST
                    THEN r.from = q.surface /\ q.pair[2] = SurfacePath(pl, d)
                    ELSE /\ files[SurfacePath(pl, d)].is = "whole"
                         /\ r.from = files[SurfacePath(pl, d)].doc
                         /\ q.pair[2] = OwnPath(q, pl)
    <3>1. PICK d \in AllDirs :
            /\ Partner(d, q, files, pl)
            /\ q.pair = IF d = LATEST THEN <<OwnPath(q, pl), SurfacePath(pl, d)>>
                                      ELSE <<SurfacePath(pl, d), OwnPath(q, pl)>>
      BY <1>3, <2>4 DEF Lists
    <3>2. CASE d = LATEST
      <4>1. q.pair[1] = OwnPath(q, pl) /\ q.pair[2] = SurfacePath(pl, d)
        BY <3>1, <3>2
      <4>2. r.from = q.surface
        BY <1>3, <2>1, <4>1 DEF IsStored
      <4> QED
        BY <3>1, <3>2, <4>1, <4>2
    <3>3. CASE d # LATEST
      <4>1. q.pair[1] = SurfacePath(pl, d) /\ q.pair[2] = OwnPath(q, pl)
        BY <3>1, <3>3
      <4>2. files[SurfacePath(pl, d)].is = "whole"
        BY <1>5, <4>1 DEF Readable
      <4> QED
        BY <2>1, <3>1, <3>3, <4>1, <4>2
    <3> QED
      BY <3>2, <3>3
  <2>5. HasRead(r, files, pl)
    BY <2>1, <2>4 DEF HasRead, Partner, OwnPath
  <2> QED
    BY <1>2, <1>3, <1>4, <2>1, <2>2, <2>3, <2>5 DEF TimerOK, Early, Writing, Stored
<1>6. CASE ~Readable(q.pair[1])
  BY <1>4, <1>6, TimerEnds DEF ReadFrom
<1> QED
  BY <1>5, <1>6

LEMMA TimerReadsTo ==
  ASSUME PlaneInv, NEW p \in Procs, NEW pl \in Planes, TimerOK(procs[p], files, pl),
         ReadTo(p)
  PROVE  TimerOK(procs'[p], files', pl)
<1> DEFINE q == procs[p]
           r == [procs[p] EXCEPT !.pc = "delta", !.to = files[procs[p].pair[2]].doc]
<1>1. q.pc = "readTo"
  BY DEF ReadTo, At
<1>2. /\ q \in ProcType /\ procs \in [Procs -> ProcType] /\ TickJob(q.job, pl)
  BY <1>1, TimerHolds DEF Early
<1>3. /\ IsLast(q, files, pl) /\ IsStored(q, files, pl) /\ OthersEmpty(files, pl)
      /\ HasRead(q, files, pl)
  BY <1>1 DEF TimerOK, Early, Stored
<1>4. files' = files
  BY DEF ReadTo
<1>5. CASE Readable(q.pair[2])
  <2>1. r.pc = "delta" /\ r.job = q.job /\ r.surface = q.surface /\ r.from = q.from
        /\ r.to = files[q.pair[2]].doc
    BY <1>2 DEF ProcType
  <2>2. procs'[p] = r
    BY <1>2, <1>5 DEF ReadTo, Become
  <2> HIDE DEF r, q
  <2>3. IsStored(r, files, pl) /\ IsLast(r, files, pl)
    BY <1>3, <2>1, SameStored
  <2>4. ASSUME IsNewest(q.surface.created, files, pl)
        PROVE  \E d \in AllDirs :
                 /\ Partner(d, q, files, pl) /\ files[SurfacePath(pl, d)].is = "whole"
                 /\ IF d = LATEST
                    THEN q.from = q.surface /\ r.to = files[SurfacePath(pl, d)].doc
                    ELSE q.from = files[SurfacePath(pl, d)].doc /\ r.to = q.surface
    <3>1. PICK d \in AllDirs :
            /\ Partner(d, q, files, pl)
            /\ IF d = LATEST
               THEN q.from = q.surface /\ q.pair[2] = SurfacePath(pl, d)
               ELSE /\ files[SurfacePath(pl, d)].is = "whole"
                    /\ q.from = files[SurfacePath(pl, d)].doc
                    /\ q.pair[2] = OwnPath(q, pl)
      BY <1>3, <2>4 DEF HasRead
    <3>2. CASE d = LATEST
      BY <1>5, <2>1, <3>1, <3>2 DEF Readable
    <3>3. CASE d # LATEST
      <4>1. r.to = q.surface
        BY <1>3, <2>1, <3>1, <3>3 DEF IsStored
      <4> QED
        BY <3>1, <3>3, <4>1
    <3> QED
      BY <3>2, <3>3
  <2>5. HasBoth(r, files, pl)
    BY <2>1, <2>4 DEF HasBoth, Partner
  <2> QED
    BY <1>2, <1>3, <1>4, <2>1, <2>2, <2>3, <2>5 DEF TimerOK, Early, Writing, Stored
<1>6. CASE ~Readable(q.pair[2])
  BY <1>4, <1>6, TimerEnds DEF ReadTo
<1> QED
  BY <1>5, <1>6

LEMMA TimerCompares ==
  ASSUME PlaneInv, NEW p \in Procs, NEW pl \in Planes, TimerOK(procs[p], files, pl),
         BuildDelta(p)
  PROVE  TimerOK(procs'[p], files', pl)
<1> DEFINE q == procs[p]
           d == Delta(Job(p), Given(Job(p).id, Uuid), q.from, q.to)
           r == [procs[p] EXCEPT !.pc = "mkdir", !.doc = d, !.path = DocPath(Job(p), d),
                                 !.surface = IF d.type = "TruthSurface" THEN d ELSE @]
<1>1. q.pc = "delta"
  BY DEF BuildDelta, At
<1>2. /\ q \in ProcType /\ procs \in [Procs -> ProcType] /\ TickJob(q.job, pl)
  BY <1>1, TimerHolds DEF Early
<1>3. /\ IsLast(q, files, pl) /\ IsStored(q, files, pl) /\ OthersEmpty(files, pl)
      /\ HasBoth(q, files, pl)
  BY <1>1 DEF TimerOK, Early, Stored
<1>4. files' = files
  BY DEF BuildDelta
<1>5. d.type = "DeltaSurface" /\ d.from = q.from.id /\ d.to = q.to.id
  BY DEF Delta
<1>6. procs'[p] = r
  BY <1>2 DEF BuildDelta, StoreDoc, Become, TickJob, Job
<1> HIDE DEF d
<1>7. DocPath(Job(p), d) = DeltaPath(pl, d.created)
  BY <1>2, <1>5 DEF DocPath, TickJob, Job
<1>8. r.pc = "mkdir" /\ r.job = q.job /\ r.doc = d /\ r.surface = q.surface
      /\ r.path = DeltaPath(pl, d.created)
  BY <1>2, <1>5, <1>7 DEF ProcType
<1> HIDE DEF r, q
<1>9. IsStored(r, files, pl) /\ IsLast(r, files, pl)
  BY <1>3, <1>8, SameStored
<1>10. ASSUME IsNewest(q.surface.created, files, pl)
       PROVE  \E e \in AllDirs :
                /\ Partner(e, q, files, pl) /\ files[SurfacePath(pl, e)].is = "whole"
                /\ IF e = LATEST
                   THEN d.from = q.surface.id /\ d.to = files[SurfacePath(pl, e)].doc.id
                   ELSE d.from = files[SurfacePath(pl, e)].doc.id /\ d.to = q.surface.id
  <2>1. PICK e \in AllDirs :
          /\ Partner(e, q, files, pl) /\ files[SurfacePath(pl, e)].is = "whole"
          /\ IF e = LATEST
             THEN q.from = q.surface /\ q.to = files[SurfacePath(pl, e)].doc
             ELSE q.from = files[SurfacePath(pl, e)].doc /\ q.to = q.surface
    BY <1>3, <1>10 DEF HasBoth
  <2> QED
    BY <1>5, <2>1
<1>11. Compares(r, files, pl)
  BY <1>8, <1>10 DEF Compares, Partner
<1>12. WritesDelta(r, files, pl)
  BY <1>8, <1>9, <1>11 DEF WritesDelta, DeltaPath
<1> QED
  BY <1>2, <1>3, <1>4, <1>6, <1>8, <1>9, <1>12 DEF TimerOK, Early, Writing, Stored

LEMMA TimerPoints ==
  ASSUME PlaneInv, NEW p \in Procs, NEW pl \in Planes, TimerOK(procs[p], files, pl),
         PointLatest(p)
  PROVE  TimerOK(procs'[p], files', pl)
<1> DEFINE q == procs[p]
           r == [procs[p] EXCEPT !.pc = "mkdir", !.doc = procs[p].surface,
                                 !.path = SurfacePath(Job(p).plane, LATEST)]
<1>1. q.pc = "latest"
  BY DEF PointLatest, At
<1>2. /\ q \in ProcType /\ procs \in [Procs -> ProcType] /\ TickJob(q.job, pl)
  BY <1>1, TimerHolds DEF Early
<1>3. IsLast(q, files, pl) /\ IsStored(q, files, pl) /\ OthersEmpty(files, pl)
  BY <1>1 DEF TimerOK, Early, Stored
<1>4. files' = files /\ procs'[p] = r
  BY <1>2 DEF PointLatest, Become
<1>5. r.pc = "mkdir" /\ r.job = q.job /\ r.doc = q.surface /\ r.surface = q.surface
      /\ r.path = SurfacePath(pl, LATEST)
  BY <1>2 DEF ProcType, TickJob, Job
<1> HIDE DEF r, q
<1>6. IsStored(r, files, pl) /\ IsLast(r, files, pl)
  BY <1>3, <1>5, SameStored
<1>7. WritesLatest(r, files, pl)
  BY <1>5, <1>6 DEF WritesLatest
<1> QED
  BY <1>2, <1>3, <1>4, <1>5, <1>6, <1>7 DEF TimerOK, Early, Writing, Stored

LEMMA TimerSteps ==
  ASSUME PlaneInv, DrawnInOrder, NEW p \in Procs, NEW pl \in Planes,
         TimerOK(procs[p], files, pl), Step(p) \/ Kill(p)
  PROVE  TimerOK(procs'[p], files', pl)
<1>1. CASE Kill(p)
  BY <1>1, TimerEnds DEF Kill
<1>2. CASE BuildIncident(p) \/ SmokeFirst(p) \/ SmokeSecond(p) \/ SmokeStore(p) \/ SmokeReport(p)
  <2>1. procs[p].pc \in {"build", "build1", "second", "report"}
    BY <1>2 DEF BuildIncident, SmokeFirst, SmokeSecond, SmokeStore, SmokeReport, At
  <2>2. procs[p].job.tool = "tick"
    BY <2>1 DEF TimerOK, TickJob
  <2>3. ProcOK(procs[p], emitted)
    BY DEF PlaneInv
  <2>4. procs[p].pc = "build"
    BY <2>1, <2>2, <2>3 DEF ProcOK
  <2> QED
    BY <1>2, <2>2, <2>4 DEF BuildIncident, SmokeFirst, SmokeSecond, SmokeStore, SmokeReport, At, Job
<1> QED
  BY <1>1, <1>2, TimerInits, TimerBuilds, TimerMakesDir, TimerOpens, TimerWritesText,
     TimerLists, TimerReadsFrom, TimerReadsTo, TimerCompares, TimerPoints DEF Step

(* No step numbers a surface past the last draw. *)
LEMMA DrawnGrow ==
  ASSUME PlaneInv, DrawnInOrder, uuids' \in Nat, uuids <= uuids', emitted' = emitted
  PROVE  DrawnInOrder'
<1> SUFFICES ASSUME NEW s \in emitted, s.id[1] = "uuid" PROVE s.id[2] <= uuids'
  BY DEF DrawnInOrder
<1>1. uuids \in Nat /\ s \in SurfaceDocs
  BY DEF PlaneInv
<1>2. s.id \in Ids
  BY <1>1 DEF SurfaceDocs
<1>3. s.id[2] \in Nat
  BY <1>2 DEF Ids
<1>4. s.id[2] <= uuids
  BY DEF DrawnInOrder
<1> QED
  BY <1>1, <1>3, <1>4

LEMMA DrawnEmits ==
  ASSUME PlaneInv, DrawnInOrder, NEW r \in SurfaceRequests, Drawn(r.id),
         emitted' = emitted \cup {Surface(r)}
  PROVE  DrawnInOrder'
<1>1. uuids \in Nat
  BY DEF PlaneInv
<1>2. uuids' \in Nat /\ uuids <= uuids' /\ (r.id = {} => uuids' = uuids + 1)
  BY <1>1 DEF Drawn
<1> SUFFICES ASSUME NEW s \in emitted', s.id[1] = "uuid" PROVE s.id[2] <= uuids'
  BY DEF DrawnInOrder
<1>3. CASE s \in emitted
  <2>1. s \in SurfaceDocs
    BY <1>3 DEF PlaneInv
  <2>2. s.id \in Ids
    BY <2>1 DEF SurfaceDocs
  <2>3. s.id[2] \in Nat
    BY <2>2 DEF Ids
  <2>4. s.id[2] <= uuids
    BY <1>3 DEF DrawnInOrder
  <2> QED
    BY <1>1, <1>2, <2>3, <2>4
<1>4. CASE s = Surface(r) /\ r.id = {}
  <2>1. s.id = <<"uuid", uuids + 1>>
    BY <1>4 DEF Surface, Given, Uuid
  <2> QED
    BY <1>1, <1>2, <1>4, <2>1
<1>5. CASE s = Surface(r) /\ r.id # {}
  <2>1. r.id \in SUBSET GivenIds
    BY DEF SurfaceRequests
  <2>2. PICK x \in r.id : TRUE
    BY <1>5
  <2>3. (CHOOSE y \in r.id : TRUE) \in r.id
    BY <2>2
  <2>4. s.id \in GivenIds
    BY <1>5, <2>1, <2>3 DEF Surface, Given
  <2> QED
    BY <2>4, GivenAreIds
<1> QED
  BY <1>3, <1>4, <1>5

LEMMA DrawnNext ==
  ASSUME PlaneInv, DrawnInOrder, [Next]_vars
  PROVE  DrawnInOrder'
<1>0. uuids \in Nat
  BY DEF PlaneInv
<1>1. CASE uuids' = uuids /\ emitted' = emitted
  BY <1>0, <1>1, DrawnGrow
<1>2. ASSUME NEW p \in Procs, BuildIncident(p) \/ BuildDelta(p) PROVE DrawnInOrder'
  BY <1>0, <1>2, DrawnGrow DEF BuildIncident, BuildDelta, Drawn
<1>3. ASSUME NEW p \in Procs, BuildSurface(p) \/ SmokeFirst(p) \/ SmokeSecond(p)
      PROVE  DrawnInOrder'
  <2>1. procs[p].pc \in {"build", "build1"} /\ ProcOK(procs[p], emitted)
    BY <1>3 DEF PlaneInv, BuildSurface, SmokeFirst, SmokeSecond, At
  <2>2. Job(p) \in Requests /\ (procs[p].pc = "build1" => Job(p).tool = "smoke")
    BY <2>1 DEF ProcOK, Job
  <2>3. CASE BuildSurface(p)
    <3>1. Job(p) \in SurfaceRequests
      BY <2>2, <2>3, RequestKinds DEF BuildSurface
    <3> QED
      BY <2>3, <3>1, DrawnEmits DEF BuildSurface
  <2>4. CASE SmokeFirst(p)
    <3>1. Job(p).ns0 \in SurfaceRequests
      BY <2>2, <2>4, RequestKinds DEF SmokeFirst
    <3> QED
      BY <2>4, <3>1, DrawnEmits DEF SmokeFirst
  <2>5. CASE SmokeSecond(p)
    <3>1. Job(p).ns1 \in SurfaceRequests
      BY <2>2, <2>5, RequestKinds DEF SmokeSecond, At
    <3> QED
      BY <2>5, <3>1, DrawnEmits DEF SmokeSecond
  <2> QED
    BY <1>3, <2>3, <2>4, <2>5
<1>4. ASSUME NEW p \in Procs, Step(p) PROVE DrawnInOrder'
  <2>1. CASE BuildIncident(p) \/ BuildDelta(p) \/ BuildSurface(p) \/ SmokeFirst(p) \/ SmokeSecond(p)
    BY <1>2, <1>3, <2>1
  <2>2. CASE uuids' = uuids /\ emitted' = emitted
    BY <1>1, <2>2
  <2> QED
    BY <1>4, <2>1, <2>2 DEF Step, InitStore, SmokeStore, SmokeReport, MakeDir, OpenFile,
       WriteFile, ListSurfaces, ReadFrom, ReadTo, PointLatest
<1> QED
  BY <1>1, <1>4 DEF Next, vars, Tick, StepBack, Kill, Start

-----------------------------------------------------------------------------
LEMMA TimerInit == Init => TimerInv
<1> SUFFICES ASSUME Init PROVE TimerInv
  OBVIOUS
<1>1. PlaneInv
  BY PlaneInit
<1>2. ASSUME NEW p \in Procs
      PROVE  procs[p].pc = "idle" /\ procs[p].result = NoResult
  BY DEF Init, Idle
<1>3. ASSUME NEW p \in Procs PROVE JobOK(p, procs[p])
  BY <1>2 DEF JobOK
<1>4. ASSUME NEW p \in Procs, NEW pl \in Planes
      PROVE  TimerOK(procs[p], files, pl)
  <2>1. \A a \in Planes, d \in AllDirs : files[SurfacePath(a, d)].is = "none"
    BY PathKinds DEF Init, AllDirs
  <2>2. OthersEmpty(files, pl)
    BY <2>1 DEF OthersEmpty, There
  <2>3. NoResult # <<"tick", "ok">>
    BY DEF NoResult
  <2> QED
    BY <1>2, <2>2, <2>3 DEF TimerOK, Early, Writing, Stored
<1>5. DrawnInOrder
  BY DEF Init, DrawnInOrder
<1> QED
  BY <1>1, <1>3, <1>4, <1>5 DEF TimerInv

(* A step of one process keeps every process's job in order, and, when it  *)
(* leaves p the only one to have run, was p's.                             *)
LEMMA JobStep ==
  ASSUME TimerInv, NEW o \in Procs, Step(o) \/ Kill(o)
  PROVE  /\ \A p \in Procs : JobOK(p, procs'[p])
         /\ \A p \in Procs : OnlyTimer(p)' => OnlyTimer(p) /\ o = p
<1>1. PlaneInv /\ \A p \in Procs : JobOK(p, procs[p])
  BY DEF TimerInv
<1>2. procs' = [procs EXCEPT ![o] = procs'[o]] /\ Moves(procs[o], procs'[o])
      /\ procs \in [Procs -> ProcType]
  BY <1>1, StepMoves DEF PlaneInv
<1>3. JobOK(o, procs'[o])
  <2>1. procs[o].pc # "idle" /\ procs[o].job \in RequestsOf[o] /\ procs[o].runs # 0
        /\ procs[o].result = NoResult
    BY <1>1, <1>2 DEF JobOK, Moves
  <2> QED
    BY <1>2, <2>1 DEF JobOK, Moves
<1>4. ASSUME NEW p \in Procs, p # o PROVE procs'[p] = procs[p]
  BY <1>2, <1>4
<1>5. procs[o].runs # 0 /\ procs'[o].runs = procs[o].runs
  BY <1>1, <1>2 DEF JobOK, Moves
<1>6. ASSUME NEW p \in Procs, OnlyTimer(p)' PROVE OnlyTimer(p) /\ o = p
  <2>1. o = p
    BY <1>5, <1>6 DEF OnlyTimer
  <2> QED
    BY <1>4, <1>6, <2>1 DEF OnlyTimer
<1> QED
  BY <1>1, <1>3, <1>4, <1>6

LEMMA JobStart ==
  ASSUME TimerInv, NEW o \in Procs, NEW r \in RequestsOf[o], Start(o, r)
  PROVE  /\ \A p \in Procs : JobOK(p, procs'[p])
         /\ \A p \in Procs : OnlyTimer(p)' => OnlyTimer(p) /\ o = p
<1> DEFINE q == [procs[o] EXCEPT
       !.pc = CASE r.tool = "tick" -> "init"
                [] r.tool = "delta" -> "readFrom"
                [] OTHER -> "build",
       !.job = r, !.runs = @ + 1, !.result = NoResult,
       !.pair = IF r.tool = "delta" THEN <<r.from, r.to>> ELSE @]
<1>1. PlaneInv /\ \A p \in Procs : JobOK(p, procs[p])
  BY DEF TimerInv
<1>2. procs[o] \in ProcType /\ procs \in [Procs -> ProcType] /\ procs[o].runs \in Nat
  BY <1>1 DEF PlaneInv, ProcType
<1>3. procs' = [procs EXCEPT ![o] = q]
  BY DEF Start, Become
<1>4. q.job = r /\ q.runs = procs[o].runs + 1 /\ q.result = NoResult
  BY <1>2 DEF ProcType
<1> HIDE DEF q
<1>6. q.runs # 0
  BY <1>2, <1>4
<1>7. JobOK(o, q)
  BY <1>4, <1>6 DEF JobOK
<1>8. procs'[o] = q /\ \A p \in Procs : p # o => procs'[p] = procs[p]
  BY <1>2, <1>3
<1>9. ASSUME NEW p \in Procs, OnlyTimer(p)' PROVE OnlyTimer(p) /\ o = p
  <2>1. o = p
    BY <1>6, <1>8, <1>9 DEF OnlyTimer
  <2> QED
    BY <1>8, <1>9, <2>1 DEF OnlyTimer
<1> QED
  BY <1>1, <1>7, <1>8, <1>9

LEMMA TimerNext == TimerInv /\ [Next]_vars => TimerInv'
<1> SUFFICES ASSUME TimerInv, [Next]_vars PROVE TimerInv'
  OBVIOUS
<1>0. /\ PlaneInv /\ PlaneInv' /\ DrawnInOrder /\ DrawnInOrder'
      /\ \A p \in Procs : JobOK(p, procs[p])
  BY PlaneNext, DrawnNext DEF TimerInv
<1>1. CASE Tick \/ StepBack
  <2>1. procs' = procs /\ files' = files
    BY <1>1 DEF Tick, StepBack
  <2> QED
    BY <1>0, <2>1 DEF TimerInv, IsTimer, OnlyTimer
<1>2. ASSUME NEW o \in Procs, Step(o) \/ Kill(o) PROVE TimerInv'
  <2>1. ASSUME NEW p \in Procs, NEW pl \in Planes, IsTimer(p, pl), OnlyTimer(p)'
        PROVE  TimerOK(procs'[p], files', pl)
    BY <1>0, <1>2, <2>1, JobStep, TimerSteps DEF TimerInv
  <2> QED
    BY <1>0, <1>2, <2>1, JobStep DEF TimerInv, IsTimer
<1>3. ASSUME NEW o \in Procs, NEW r \in RequestsOf[o], Start(o, r) PROVE TimerInv'
  <2>1. ASSUME NEW p \in Procs, NEW pl \in Planes, IsTimer(p, pl), OnlyTimer(p)'
        PROVE  TimerOK(procs'[p], files', pl)
    BY <1>0, <1>3, <2>1, JobStart, TimerStarts DEF TimerInv
  <2> QED
    BY <1>0, <1>3, <2>1, JobStart DEF TimerInv, IsTimer
<1>4. CASE UNCHANGED vars
  BY <1>0, <1>4 DEF vars, TimerInv, IsTimer, OnlyTimer
<1> QED
  BY <1>1, <1>2, <1>3, <1>4 DEF Next

-----------------------------------------------------------------------------
(* A process that ticks does nothing else, and ticks on one plane: the     *)
(* timer unit, whose command line is fixed.                                *)
TimersOnly ==
  \A p \in Procs : (\E r \in RequestsOf[p] : r.tool = "tick") =>
    \E pl \in Planes : IsTimer(p, pl)

(* While nobody but one timer has used the store, whenever a tick has      *)
(* ended well the pointer LATEST is a copy of the surface emitted last,    *)
(* after any number of ticks, some of them killed at any step, and however *)
(* the clock was set (sourceos_truth_plane_tick.py, main).                 *)
THEOREM PointerIsNewest ==
  ASSUME TimersOnly
  PROVE  Spec => []LatestIsNewest
<1>1. TimerInv => LatestIsNewest
  <2> DEFINE latest(plane) == files[SurfacePath(plane, LATEST)]
  <2> SUFFICES ASSUME TimerInv, NEW p \in Procs, procs[p].result = <<"tick", "ok">>,
                      OnlyTimer(p), NEW plane \in Planes, Dirs(plane) # {}
               PROVE  /\ latest(plane).is = "whole"
                      /\ files[SurfacePath(plane, latest(plane).doc.created)] = latest(plane)
                      /\ \A d \in Stamps \ {latest(plane).doc.created} :
                           Readable(SurfacePath(plane, d))
                             => Before(files[SurfacePath(plane, d)].doc, latest(plane).doc)
    BY DEF LatestIsNewest, OnlyTimer
  <2>1. procs[p].result # NoResult /\ procs[p].result[1] = "tick"
    BY DEF NoResult
  <2>2. procs[p].pc = "idle" /\ \E r \in RequestsOf[p] : r.tool = "tick"
    BY <2>1 DEF TimerInv, JobOK
  <2>3. PICK pl \in Planes : IsTimer(p, pl)
    BY <2>2 DEF TimersOnly
  <2>4. TimerOK(procs[p], files, pl)
    BY <2>3 DEF TimerInv
  <2>5. PICK d \in Stamps \cup {LATEST} : files[SurfacePath(plane, d)].is # "none"
    BY DEF Dirs
  <2>6. plane = pl
    BY <2>4, <2>5 DEF TimerOK, OthersEmpty, There, AllDirs
  <2>7. PICK s \in SurfaceDocs :
          /\ files[SurfacePath(pl, LATEST)] = [is |-> "whole", doc |-> s]
          /\ files[SurfacePath(pl, s.created)] = [is |-> "whole", doc |-> s]
          /\ \A e \in Stamps \ {s.created} :
               files[SurfacePath(pl, e)].is = "whole" => Before(files[SurfacePath(pl, e)].doc, s)
    BY <2>2, <2>4 DEF TimerOK, PointerRight
  <2>8. latest(plane).is = "whole" /\ latest(plane).doc = s
    BY <2>6, <2>7
  <2> HIDE DEF latest
  <2>9. files[SurfacePath(plane, s.created)] = latest(plane)
    BY <2>6, <2>7 DEF latest
  <2> QED
    BY <2>6, <2>7, <2>8, <2>9 DEF Readable
<1> QED
  BY <1>1, TimerInit, TimerNext, PTL DEF Spec

(* While nobody but one timer has used the store, and no directory is      *)
(* named after a later time than the tick's own, the delta that a tick     *)
(* writes compares the surface this very tick emitted with the one the     *)
(* pointer holds, or an older one, that an earlier tick emitted            *)
(* (_latest_two_surfaces).                                                 *)
THEOREM TicksCompareTheirOwn ==
  ASSUME TimersOnly
  PROVE  Spec => []TickComparesOwn
<1>1. TimerInv => TickComparesOwn
  <2> DEFINE q(p) == procs[p]
             Goal(p) ==
               \E d \in Dirs(q(p).job.plane) \ {q(p).surface.created} :
                 LET other == files[SurfacePath(q(p).job.plane, d)].doc IN
                 /\ LATEST \in Dirs(q(p).job.plane) => d = LATEST
                 /\ IF d = LATEST
                    THEN q(p).doc.from = q(p).surface.id /\ q(p).doc.to = other.id
                    ELSE q(p).doc.from = other.id /\ q(p).doc.to = q(p).surface.id
                 /\ Before(other, q(p).surface)
  <2> SUFFICES ASSUME TimerInv, NEW p \in Procs, procs[p].pc \in Writing,
                      procs[p].job.tool = "tick", procs[p].doc.type = "DeltaSurface",
                      OnlyTimer(p),
                      \A d \in Dirs(procs[p].job.plane) \ {LATEST} : d <= procs[p].surface.created
               PROVE  Goal(p)
    BY DEF TickComparesOwn, OnlyTimer, Writing
  <2>1. procs[p].job \in RequestsOf[p] /\ PlaneInv
    BY DEF TimerInv, JobOK, Writing
  <2>2. PICK pl \in Planes : IsTimer(p, pl)
    BY <2>1 DEF TimersOnly
  <2>3. TimerOK(procs[p], files, pl)
    BY <2>2 DEF TimerInv
  <2>4. procs[p].surface \in SurfaceDocs /\ procs[p].job.plane = pl /\ IsLast(procs[p], files, pl)
    BY <2>1, <2>3, TimerHolds DEF Writing, Early, TimerOK, TickJob
  <2>5. procs[p].doc # procs[p].surface
    BY <2>4 DEF SurfaceDocs
  <2>6. Compares(procs[p], files, pl)
    BY <2>3, <2>5 DEF TimerOK, WritesOwn, WritesDelta, WritesLatest
  <2>7. \A e : e \in Dirs(pl) <=> e \in AllDirs /\ There(e, files, pl)
    BY DEF Dirs, AllDirs, There
  <2>8. IsNewest(procs[p].surface.created, files, pl)
    <3>1. now \in Stamps /\ uuids \in Nat
      BY <2>1 DEF PlaneInv
    <3> QED
      BY <2>4, <2>7, <3>1, StampTypes DEF IsNewest, AllDirs
  <2>9. PICK d \in AllDirs :
          /\ Partner(d, procs[p], files, pl) /\ files[SurfacePath(pl, d)].is = "whole"
          /\ IF d = LATEST
             THEN /\ procs[p].doc.from = procs[p].surface.id
                  /\ procs[p].doc.to = files[SurfacePath(pl, d)].doc.id
             ELSE /\ procs[p].doc.from = files[SurfacePath(pl, d)].doc.id
                  /\ procs[p].doc.to = procs[p].surface.id
    BY <2>6, <2>8 DEF Compares
  <2>10. /\ d \in Dirs(pl) \ {procs[p].surface.created}
         /\ LATEST \in Dirs(pl) => d = LATEST
    BY <2>7, <2>9 DEF Partner
  <2>11. Before(files[SurfacePath(pl, d)].doc, procs[p].surface)
    BY <2>4, <2>9, <2>10 DEF IsLast
  <2> QED
    BY <2>4, <2>9, <2>10, <2>11
<1> QED
  BY <1>1, TimerInit, TimerNext, PTL DEF Spec
=============================================================================
