----------------------------- MODULE CosaBuild -----------------------------
(***************************************************************************)
(* cosa/build.py: the wrapper that validates a BuildTarget, runs           *)
(* coreos-assembler where it can, and writes the provenance stub on which  *)
(* the evidence gate decides a promotion.                                  *)
(*                                                                         *)
(* Several runs of the wrapper may be under way on one host, in one work   *)
(* directory or in several, while developers go on editing the repository. *)
(* coreos-assembler, git and the evidence gate are external.               *)
(***************************************************************************)
EXTENDS Naturals, Sequences, FiniteSets, Functions

CONSTANTS
  Builders,    \* the processes that run the wrapper
  RequestsOf,  \* what each may be asked, as records
  Files,       \* the manifests and flavors of the repository
  Hosts,       \* the hosts considered: Linux? /dev/kvm? cosa on PATH?
  Workdirs,    \* cosa work directories
  Outputs,     \* the provenance files in use
  MayEdit,     \* do developers touch the repository meanwhile?
  MayFail,     \* may cosa's commands fail, cosa go away, a wrapper be killed?
  MaxRuns      \* bound: runs of each process

VARIABLES
  files,  \* the manifests and flavors that are there
  host,   \* the host
  work,   \* the latest base build in each work directory, and its number
  provs,  \* the provenance files
  procs,  \* the state of each process
  made    \* history: what each run has built, [fmt, base, dir] records

vars == <<files, host, work, provs, procs, made>>

-----------------------------------------------------------------------------
(* Targets and plans.  A target is a record of what build.py looks at:     *)
(* header (apiVersion, kind and metadata.name are right), arch, formats,   *)
(* repos (the formats katelloRepos names), manifest, flavor, and inside    *)
(* (its file is in the repository).                                        *)

BaseFormats == {"ostree", "qemu"}
ExtendFormats == {"metal", "iso", "qcow2", "oci", "raw"}

(* The formats that build-target.schema.json lists. *)
SchemaFormats == {"ostree", "qemu", "metal", "iso", "qcow2", "oci", "raw"}

(* validate_target: the schema and the built-in fallback agree on these.   *)
ValidTarget(t) ==
  /\ t.header
  /\ t.arch \in {"x86_64", "aarch64"}
  /\ t.formats # <<>>
  /\ Range(t.formats) \subseteq SchemaFormats

SemanticChecks(t) ==
  /\ t.repos \subseteq Range(t.formats)
  /\ {t.flavor, t.manifest} \subseteq files

BuilderAvailable == host.linux /\ host.kvm /\ host.cosa

Command(op) == [op |-> op, fmt |-> "none"]

(* The formats that the base build does not make, in the order in which    *)
(* the target lists them.                                                  *)
ToExtend(t) == {i \in DOMAIN t.formats : t.formats[i] \in ExtendFormats}
Nth(I, k) == CHOOSE i \in I : Cardinality({j \in I : j <= i}) = k
Extensions(t) ==
  [k \in 1..Cardinality(ToExtend(t)) |->
     [op |-> "buildextend", fmt |-> t.formats[Nth(ToExtend(t), k)]]]

PlanCommands(t) ==
  <<Command("init"), Command("fetch"), Command("build")>> \o Extensions(t)

(* What the two subcommands may be asked: --target, and for a build        *)
(* --workdir, --emit-provenance (a set of at most one file) and --dry-run. *)
Targets ==
  [header : BOOLEAN, arch : STRING, formats : Seq(STRING), repos : SUBSET STRING,
   manifest : Files, flavor : Files, inside : BOOLEAN]
Requests ==
  [cmd : {"validate"}, target : Targets]
  \cup
  [cmd : {"build"}, target : Targets, workdir : Workdirs, emit : SUBSET Outputs, dry : BOOLEAN]

ASSUME RequestsAssumption ==
  /\ \A b \in Builders : RequestsOf[b] \subseteq Requests
  /\ IsFiniteSet(Builders)
  /\ MaxRuns \in Nat

-----------------------------------------------------------------------------
(* The processes.  A run is named by its process and its number.           *)

NoBase == [run |-> <<"none", 0>>, n |-> 0]
NoRequest == [cmd |-> "none"]
NoDoc == [result |-> "none"]

Idle(outcome, runs) ==
  [pc |-> "idle", req |-> NoRequest, plan |-> <<>>, next |-> 1, dry |-> FALSE,
   doc |-> NoDoc, outcome |-> outcome, runs |-> runs]

Init ==
  /\ files = Files
  /\ host \in Hosts
  /\ work = [w \in Workdirs |-> NoBase]
  /\ provs = [o \in Outputs |-> [is |-> "none", doc |-> NoDoc]]
  /\ procs = [b \in Builders |-> Idle("none", 0)]
  /\ made = [r \in Builders \X (1..MaxRuns) |-> {}]

At(b, label) == procs[b].pc = label
Req(b) == procs[b].req
Target(b) == procs[b].req.target
Run(b) == <<b, procs[b].runs>>

Become(b, fields) == procs' = [procs EXCEPT ![b] = fields]
Goto(b, label) == Become(b, [procs[b] EXCEPT !.pc = label])
Finish(b, outcome) == Become(b, Idle(outcome, procs[b].runs))

World == <<files, host>>

(* _resolve_target, validate_target, _semantic_checks; cmd_validate ends   *)
(* here.  A target whose file is gone exits as an invalid one does.        *)
Begin(b, r) ==
  /\ At(b, "idle")
  /\ procs[b].runs < MaxRuns
  /\ \E missing \in IF MayEdit THEN BOOLEAN ELSE {FALSE} :
       LET n == procs[b].runs + 1
           errs == missing \/ ~(ValidTarget(r.target) /\ SemanticChecks(r.target))
       IN  Become(b, IF errs \/ r.cmd = "validate"
                     THEN Idle(IF errs THEN "invalid" ELSE "ok", n)
                     ELSE [Idle("none", n) EXCEPT !.pc = "host", !.req = r])
  /\ UNCHANGED <<World, work, provs, made>>

(* (Mutant: a missing builder is only noticed when a command cannot run.)  *)
TrustTheFlag(b) ==
  /\ At(b, "host")
  /\ Become(b, [procs[b] EXCEPT !.pc = IF Req(b).dry \/ ~BuilderAvailable THEN "draft" ELSE "run",
                                !.plan = PlanCommands(Target(b)), !.dry = Req(b).dry])
  /\ UNCHANGED <<World, work, provs, made>>

(* builder_available and plan_commands; without a builder every run is a   *)
(* dry run.                                                                *)
CheckHost(b) ==
  /\ At(b, "host")
  /\ LET dry == Req(b).dry \/ ~BuilderAvailable IN
       Become(b, [procs[b] EXCEPT !.pc = IF dry THEN "draft" ELSE "run",
                                  !.plan = PlanCommands(Target(b)), !.dry = dry])
  /\ UNCHANGED <<World, work, provs, made>>

-----------------------------------------------------------------------------
(* coreos-assembler, in a work directory: the base build needs the         *)
(* manifest of the repository and becomes the latest build, the next in    *)
(* number; buildextend makes an image of the latest build.                 *)

Effect(b, c) ==
  LET w == Req(b).workdir
      base == [run |-> Run(b), n |-> work[w].n + 1]
  IN  CASE c.op = "build" ->
             /\ Target(b).manifest \in files
             /\ work' = [work EXCEPT ![w] = base]
             /\ made' = [made EXCEPT ![Run(b)] =
                           @ \cup {[fmt |-> f, base |-> base, dir |-> w] : f \in BaseFormats}]
        [] c.op = "buildextend" ->
             /\ work[w].n # 0
             /\ made' = [made EXCEPT ![Run(b)] = @ \cup {[fmt |-> c.fmt, base |-> work[w], dir |-> w]}]
             /\ UNCHANGED work
        [] OTHER -> UNCHANGED <<work, made>>

(* What follows the last command: the provenance, if it was asked for.     *)
Built(b) ==
  IF Req(b).emit # {} THEN Goto(b, "draft") ELSE Finish(b, "ok")

RunCommand(b) ==
  /\ At(b, "run")
  /\ host.cosa
  /\ Effect(b, procs[b].plan[procs[b].next])
  /\ IF procs[b].next = Len(procs[b].plan)
     THEN Built(b)
     ELSE Become(b, [procs[b] EXCEPT !.next = @ + 1])
  /\ UNCHANGED <<World, provs>>

(* (Mutant: the next command runs all the same.) *)
GoOn(b) ==
  /\ At(b, "run")
  /\ MayFail \/ Target(b).manifest \notin files
  /\ host.cosa
  /\ IF procs[b].next = Len(procs[b].plan)
     THEN Built(b)
     ELSE Become(b, [procs[b] EXCEPT !.next = @ + 1])
  /\ UNCHANGED <<World, work, provs, made>>

(* A command fails, as the base build does without its manifest; its       *)
(* return code is the wrapper's, and no provenance is written.             *)
CommandFails(b) ==
  /\ At(b, "run")
  /\ MayFail \/ Target(b).manifest \notin files
  /\ host.cosa
  /\ Finish(b, "failed")
  /\ UNCHANGED <<World, work, provs, made>>

(* cosa is gone since it was looked for: subprocess.run raises. *)
CommandRaises(b) ==
  /\ At(b, "run")
  /\ ~host.cosa
  /\ Finish(b, "raised")
  /\ UNCHANGED <<World, work, provs, made>>

-----------------------------------------------------------------------------
(* build_provenance.  Its ref is relative to the repository and raises for *)
(* a target outside.  The revision and the digests that it reads for the   *)
(* record are left out: no file that is missing stops it.                  *)

Draft(b) ==
  [run |-> Run(b), target |-> Target(b), planned |-> procs[b].plan, dryRun |-> procs[b].dry,
   result |-> IF procs[b].dry THEN "DRY_RUN" ELSE "PASS",
   blockers |-> IF procs[b].dry THEN {"builder-unavailable"} ELSE {}]

(* Without --emit-provenance the stub goes to standard output. *)
BuildProvenance(b) ==
  /\ At(b, "draft")
  /\ CASE ~Target(b).inside -> Finish(b, "raised")
       [] Target(b).inside /\ Req(b).emit = {} -> Finish(b, "ok")
       [] OTHER -> Become(b, [procs[b] EXCEPT !.pc = "open", !.doc = Draft(b)])
  /\ UNCHANGED <<World, work, provs, made>>

Output(b) == CHOOSE o \in Req(b).emit : TRUE

OpenProvenance(b) ==
  /\ At(b, "open")
  /\ provs' = [provs EXCEPT ![Output(b)] = [is |-> "empty", doc |-> NoDoc]]
  /\ Goto(b, "write")
  /\ UNCHANGED <<World, work, made>>

(* Another run that opened the same file may have written it first; what   *)
(* is left of the longer text then makes the file unreadable.              *)
WriteProvenance(b) ==
  /\ At(b, "write")
  /\ \E is \in IF provs[Output(b)].is = "empty" THEN {"whole"} ELSE {"whole", "garbled"} :
       provs' = [provs EXCEPT ![Output(b)] =
                   [is |-> is, doc |-> IF is = "whole" THEN procs[b].doc ELSE NoDoc]]
  /\ Finish(b, "ok")
  /\ UNCHANGED <<World, work, made>>

-----------------------------------------------------------------------------
(* The world around: developers, the host, the operator. *)

(* Somebody removes a manifest or a flavor, or puts it back. *)
Edit(f) ==
  /\ MayEdit
  /\ files' = IF f \in files THEN files \ {f} ELSE files \cup {f}
  /\ UNCHANGED <<host, work, provs, procs, made>>

CosaGone ==
  /\ MayFail
  /\ host.cosa
  /\ host' = [host EXCEPT !.cosa = FALSE]
  /\ UNCHANGED <<files, work, provs, procs, made>>

Kill(b) ==
  /\ MayFail
  /\ ~At(b, "idle")
  /\ Finish(b, "killed")
  /\ UNCHANGED <<World, work, provs, made>>

Step(b) ==
  \/ CheckHost(b) \/ RunCommand(b) \/ CommandFails(b) \/ CommandRaises(b)
  \/ BuildProvenance(b) \/ OpenProvenance(b) \/ WriteProvenance(b)

Next ==
  \/ \E b \in Builders : Step(b) \/ Kill(b) \/ \E r \in RequestsOf[b] : Begin(b, r)
  \/ (\E f \in Files : Edit(f)) \/ CosaGone

Spec == Init /\ [][Next]_vars
=============================================================================
