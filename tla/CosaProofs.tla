----------------------------- MODULE CosaProofs -----------------------------
(***************************************************************************)
(* Proofs about the build wrapper, for any processes, targets, work        *)
(* directories and provenance files, whatever fails and whoever edits the  *)
(* repository: an admitted stub belongs to a run that built what it says,  *)
(* and from no base build that is older than its own.                      *)
(***************************************************************************)
EXTENDS CosaProperties, FiniteSetTheorems, SequenceTheorems, TLAPS

Fields == {"pc", "req", "plan", "next", "dry", "doc", "outcome", "runs"}
DocFields == {"run", "target", "planned", "dryRun", "result", "blockers"}
Drafted == {"open", "write"}
Reporting == {"draft"} \cup Drafted
Labels == {"idle", "host", "run"} \cup Reporting
Runs == Builders \X (1..MaxRuns)

(* What a command leaves among the things its run has made, and what there *)
(* is when all the formats of a target were made.                          *)
Makes(M, f) == \E m \in M : m.fmt = f
Ran(c, M) ==
  /\ c.op = "build" => \A f \in BaseFormats : Makes(M, f)
  /\ c.op = "buildextend" => Makes(M, c.fmt)
Complete(t, M) == \A f \in Range(t.formats) : Makes(M, f)

ProcOK(b, q, M) ==
  /\ DOMAIN q = Fields
  /\ q.pc \in Labels /\ q.runs \in 0..MaxRuns /\ q.dry \in BOOLEAN
  /\ q.pc # "idle" => /\ q.runs >= 1 /\ q.req \in RequestsOf[b]
                      /\ q.req.cmd = "build" /\ ValidTarget(q.req.target)
  /\ q.pc = "host" => q.next = 1
  /\ q.pc = "run" => /\ ~q.dry /\ q.plan = PlanCommands(q.req.target)
                     /\ q.next \in 1..Len(q.plan)
                     /\ \A i \in 1..(q.next - 1) : Ran(q.plan[i], M[<<b, q.runs>>])
  /\ q.pc \in Reporting /\ ~q.dry => Complete(q.req.target, M[<<b, q.runs>>])
  /\ q.pc \in Drafted => /\ DOMAIN q.doc = DocFields
                         /\ q.doc.run = <<b, q.runs>> /\ q.doc.target = q.req.target
                         /\ q.doc.result = IF q.dry THEN "DRY_RUN" ELSE "PASS"

(* The run of a stub is over, and no later one has its number. *)
Over(run) ==
  LET q == procs[run[1]] IN run \in Runs /\ run[2] <= q.runs /\ (run[2] = q.runs => q.pc = "idle")

FiledOK(doc) ==
  Over(doc.run) /\ (doc.result = "PASS" => Complete(doc.target, made[doc.run]))

(* The inductive invariant. *)
BuildInv ==
  /\ DOMAIN procs = Builders /\ DOMAIN made = Runs
  /\ DOMAIN provs = Outputs /\ DOMAIN work = Workdirs
  /\ \A b \in Builders : ProcOK(b, procs[b], made)
  /\ \A o \in Outputs : provs[o].is = "whole" => FiledOK(provs[o].doc)

(* Among what a run has made there is a base build of its own in a work    *)
(* directory, and a given base there is that build or a later one.         *)
Own(M, run, base, w) ==
  \E o \in M : /\ o.base.run = run /\ o.base.n \in Nat /\ o.dir = w
               /\ o.base = base \/ o.base.n < base.n

(* Every image of a run is of such a base, and so is the latest base build *)
(* of the work directory that the run goes on to extend.                   *)
OwnInv ==
  /\ \A w \in Workdirs : work[w].n \in Nat
  /\ \A run \in Runs : \A m \in made[run] : Own(made[run], run, m.base, m.dir)
  /\ \A b \in Builders :
       LET w == procs[b].req.workdir IN
       procs[b].pc = "run" /\ procs[b].next > 3 => Own(made[Run(b)], Run(b), work[w], w)

-----------------------------------------------------------------------------
(* plan_commands: each format that has to be extended is, since it has a   *)
(* rank of its own among those that have to.                               *)
LEMMA NthOfRank ==
  ASSUME NEW I \in SUBSET Nat, IsFiniteSet(I), NEW i \in I
  PROVE  LET k == Cardinality({j \in I : j <= i}) IN k \in 1..Cardinality(I) /\ Nth(I, k) = i
<1> DEFINE Upto(a) == {j \in I : j <= a}
           k == Cardinality(Upto(i))
<1>1. ASSUME NEW a \in I
      PROVE  /\ IsFiniteSet(Upto(a)) /\ Cardinality(Upto(a)) \in Nat /\ Cardinality(I) \in Nat
             /\ Cardinality(Upto(a)) <= Cardinality(I) /\ a \in Upto(a)
  <2>1. Upto(a) \in SUBSET I
    OBVIOUS
  <2>2. IsFiniteSet(Upto(a)) /\ Cardinality(Upto(a)) <= Cardinality(I)
    BY <2>1, FS_Subset
  <2> HIDE DEF Upto
  <2>3. Cardinality(Upto(a)) \in Nat /\ Cardinality(I) \in Nat
    BY <2>2, FS_CardinalityType
  <2>4. a \in Upto(a)
    BY DEF Upto
  <2> QED
    BY <2>2, <2>3, <2>4
<1>2. ASSUME NEW a \in I, NEW c \in I, Cardinality(Upto(a)) = Cardinality(Upto(c)), a < c
      PROVE  FALSE
  <2>1. a \in Nat /\ c \in Nat
    OBVIOUS
  <2>2. Upto(a) \in SUBSET Upto(c)
    <3>1. ASSUME NEW j \in Upto(a) PROVE j \in I /\ j <= c
      <4>1. j \in I /\ j \in Nat /\ j <= a
        OBVIOUS
      <4> HIDE DEF Upto
      <4> QED
        BY <1>2, <2>1, <4>1
    <3> QED
      BY <3>1
  <2>3. c \in Upto(c) /\ c \notin Upto(a)
    BY <1>2, <2>1
  <2>4. IsFiniteSet(Upto(c))
    BY <1>1
  <2> HIDE DEF Upto
  <2> QED
    BY <1>2, <2>2, <2>3, <2>4, FS_Subset
<1>3. k # 0
  <2>1. IsFiniteSet(Upto(i)) /\ i \in Upto(i)
    BY <1>1
  <2> HIDE DEF Upto
  <2> QED
    BY <2>1, FS_EmptySet
<1>4. k \in 1..Cardinality(I)
  <2> HIDE DEF Upto
  <2> QED
    BY <1>1, <1>3
<1>5. Nth(I, k) = i
  <2>1. Nth(I, k) \in I /\ Cardinality(Upto(Nth(I, k))) = k
    BY DEF Nth
  <2>2. Nth(I, k) \in Nat /\ i \in Nat
    BY <2>1
  <2>3. ~(Nth(I, k) < i) /\ ~(i < Nth(I, k))
    <3> HIDE DEF Upto
    <3> QED
      BY <1>2, <2>1
  <2> HIDE DEF k
  <2> QED
    BY <2>2, <2>3
<1> QED
  BY <1>4, <1>5

LEMMA PlanShape ==
  ASSUME NEW t, t.formats \in Seq(STRING)
  PROVE  LET P == PlanCommands(t) IN
         /\ Len(P) \in Nat /\ Len(P) >= 3
         /\ P[1].op = "init" /\ P[2].op = "fetch" /\ P[3].op = "build"
         /\ \A i \in 4..Len(P) : P[i].op = "buildextend"
         /\ \A f \in Range(t.formats) \cap ExtendFormats :
              \E i \in 4..Len(P) : P[i].op = "buildextend" /\ P[i].fmt = f
<1> DEFINE I == ToExtend(t)
           n == Cardinality(I)
           X == Extensions(t)
           H == <<Command("init"), Command("fetch"), Command("build")>>
           P == H \o X
<1>1. I \in SUBSET Nat /\ IsFiniteSet(I) /\ n \in Nat
  <2>1. DOMAIN t.formats = 1..Len(t.formats) /\ Len(t.formats) \in Nat
    OBVIOUS
  <2>2. I \in SUBSET (1..Len(t.formats))
    BY <2>1 DEF ToExtend
  <2>3. IsFiniteSet(1..Len(t.formats))
    BY <2>1, FS_Interval
  <2>4. IsFiniteSet(I)
    BY <2>2, <2>3, FS_Subset
  <2> HIDE DEF I
  <2> QED
    BY <2>2, <2>4, FS_CardinalityType
<1>2. /\ X = [k \in 1..n |-> [op |-> "buildextend", fmt |-> t.formats[Nth(I, k)]]]
  BY DEF Extensions
<1> HIDE DEF n
<1>3. X \in Seq({X[k] : k \in 1..n}) /\ Len(X) = n
  <2>1. DOMAIN X = 1..n
    BY <1>2
  <2> HIDE DEF X
  <2>2. X = [k \in 1..n |-> X[k]]
    BY <1>2, <2>1
  <2> QED
    BY <1>1, <2>1, <2>2
<1>4. H \in Seq({H[k] : k \in 1..3}) /\ Len(H) = 3
      /\ H[1].op = "init" /\ H[2].op = "fetch" /\ H[3].op = "build"
  <2>1. H[1].op = "init" /\ H[2].op = "fetch" /\ H[3].op = "build" /\ Len(H) = 3
    BY DEF Command
  <2>2. H \in Seq({H[k] : k \in 1..3})
    BY DEF Command
  <2> QED
    BY <2>1, <2>2
<1> HIDE DEF H, X
<1> DEFINE S == {H[k] : k \in 1..3} \cup {X[k] : k \in 1..n}
<1>5. X \in Seq(S) /\ H \in Seq(S)
  BY <1>3, <1>4
<1> HIDE DEF S
<1>6. /\ Len(P) = 3 + n
      /\ \A i \in 1..3 : P[i] = H[i]
      /\ \A i \in 4..Len(P) : P[i] = X[i - 3]
  <2>1. Len(P) = Len(H) + Len(X) /\ \A i \in 1..(Len(H) + Len(X)) :
          P[i] = IF i <= Len(H) THEN H[i] ELSE X[i - Len(H)]
    BY <1>5, ConcatProperties
  <2> HIDE DEF P
  <2> QED
    BY <1>1, <1>3, <1>4, <2>1
<1>7. PlanCommands(t) = P
  BY DEF PlanCommands, H, X
<1> HIDE DEF P
<1>8. ASSUME NEW i \in 4..Len(P) PROVE P[i].op = "buildextend"
  <2>1. i - 3 \in 1..n /\ P[i] = X[i - 3]
    BY <1>1, <1>6
  <2> QED
    BY <1>2, <2>1
<1>9. ASSUME NEW f \in Range(t.formats) \cap ExtendFormats
      PROVE  \E i \in 4..Len(P) : P[i].op = "buildextend" /\ P[i].fmt = f
  <2>1. PICK d \in DOMAIN t.formats : t.formats[d] = f
    BY DEF Range
  <2>2. d \in I
    BY <2>1 DEF ToExtend
  <2>3. PICK k \in 1..n : Nth(I, k) = d
    <3> HIDE DEF I
    <3> QED
      BY <1>1, <2>2, NthOfRank DEF n
  <2>4. X[k] = [op |-> "buildextend", fmt |-> f]
    BY <1>2, <2>1, <2>3
  <2>5. k + 3 \in 4..Len(P) /\ P[k + 3] = X[k]
    BY <1>1, <1>6
  <2> QED
    BY <2>4, <2>5
<1> QED
  BY <1>1, <1>4, <1>6, <1>7, <1>8, <1>9

(* A run of the whole plan leaves every format of the target.              *)
LEMMA PlanCovers ==
  ASSUME NEW t, t.formats \in Seq(STRING), ValidTarget(t), NEW M,
         \A i \in 1..Len(PlanCommands(t)) : Ran(PlanCommands(t)[i], M)
  PROVE  Complete(t, M)
<1> DEFINE P == PlanCommands(t)
<1>1. /\ Len(P) \in Nat /\ Len(P) >= 3 /\ P[3].op = "build"
      /\ \A f \in Range(t.formats) \cap ExtendFormats :
           \E i \in 4..Len(P) : P[i].op = "buildextend" /\ P[i].fmt = f
  BY PlanShape
<1> HIDE DEF P
<1>2. \A i \in 1..Len(P) : Ran(P[i], M)
  BY DEF P
<1>3. ASSUME NEW f \in Range(t.formats) PROVE Makes(M, f)
  <2>1. CASE f \in BaseFormats
    <3>1. Ran(P[3], M)
      BY <1>1, <1>2
    <3> QED
      BY <1>1, <2>1, <3>1 DEF Ran
  <2>2. CASE f \in ExtendFormats
    <3>1. PICK i \in 4..Len(P) : P[i].op = "buildextend" /\ P[i].fmt = f
      BY <1>1, <2>2
    <3>2. Ran(P[i], M)
      BY <1>1, <1>2
    <3> QED
      BY <3>1, <3>2 DEF Ran
  <2>3. f \in SchemaFormats
    BY DEF ValidTarget
  <2> QED
    BY <2>1, <2>2, <2>3 DEF SchemaFormats, BaseFormats, ExtendFormats
<1> QED
  BY <1>3 DEF Complete

-----------------------------------------------------------------------------
LEMMA BuildRequests ==
  ASSUME NEW b \in Builders, NEW r \in RequestsOf[b], r.cmd = "build"
  PROVE  /\ r.target.formats \in Seq(STRING) /\ r.workdir \in Workdirs
         /\ r.emit \in SUBSET Outputs /\ r.dry \in BOOLEAN
<1>1. r \in Requests
  BY RequestsAssumption
<1>2. r \in [cmd : {"build"}, target : Targets, workdir : Workdirs, emit : SUBSET Outputs,
             dry : BOOLEAN]
  BY <1>1 DEF Requests
<1>3. r.target \in Targets
  BY <1>2
<1> QED
  BY <1>2, <1>3 DEF Targets

(* Between two runs a process holds nothing. *)
LEMMA IdleOK ==
  ASSUME NEW b, NEW M, NEW n \in 0..MaxRuns, NEW outcome
  PROVE  ProcOK(b, Idle(outcome, n), M) /\ Idle(outcome, n).pc = "idle" /\ Idle(outcome, n).runs = n
<1> DEFINE q == Idle(outcome, n)
<1>1. DOMAIN q = Fields /\ q.pc = "idle" /\ q.runs = n /\ q.dry = FALSE
  BY DEF Idle, Fields
<1> HIDE DEF q
<1>2. ProcOK(b, q, M)
  BY <1>1 DEF ProcOK, Labels, Reporting, Drafted
<1> QED
  BY <1>1, <1>2 DEF q

(* What a run has made is never taken away, so what was said of it stays.  *)
LEMMA MakesGrows ==
  ASSUME NEW A, NEW B, A \subseteq B
  PROVE  /\ \A f : Makes(A, f) => Makes(B, f)
         /\ \A c : Ran(c, A) => Ran(c, B)
         /\ \A t : Complete(t, A) => Complete(t, B)
  BY DEF Makes, Ran, Complete

LEMMA ProcGrows ==
  ASSUME NEW b, NEW q, NEW M, NEW N, ProcOK(b, q, M),
         q.pc # "idle" => M[<<b, q.runs>>] \subseteq N[<<b, q.runs>>]
  PROVE  ProcOK(b, q, N)
<1> DEFINE A == M[<<b, q.runs>>]
           B == N[<<b, q.runs>>]
<1>1. CASE q.pc = "idle"
  BY <1>1 DEF ProcOK, Reporting, Drafted
<1>2. CASE q.pc # "idle"
  <2>1. A \subseteq B
    BY <1>2
  <2> HIDE DEF A, B
  <2>2. (\A c : Ran(c, A) => Ran(c, B)) /\ (\A t : Complete(t, A) => Complete(t, B))
    BY <2>1, MakesGrows
  <2> QED
    BY <2>2 DEF ProcOK, A, B
<1> QED
  BY <1>1, <1>2

(* A process moves: its runs are numbered upwards, and a stub is filed by  *)
(* the last step of its run.                                               *)
LEMMA OneMoves ==
  ASSUME BuildInv, NEW b \in Builders, NEW q, procs' = [procs EXCEPT ![b] = q],
         DOMAIN made' = Runs, \A run \in Runs : made[run] \subseteq made'[run],
         ProcOK(b, q, made'),
         q.runs >= procs[b].runs,
         q.runs = procs[b].runs => procs[b].pc # "idle" \/ q.pc = "idle",
         DOMAIN provs' = Outputs, DOMAIN work' = Workdirs,
         \A o \in Outputs : provs'[o].is = "whole" =>
           \/ provs'[o] = provs[o]
           \/ provs'[o].doc = procs[b].doc /\ procs[b].pc = "write" /\ q.pc = "idle"
              /\ q.runs = procs[b].runs
  PROVE  BuildInv'
<1>1. /\ DOMAIN procs = Builders /\ \A c \in Builders : ProcOK(c, procs[c], made)
      /\ MaxRuns \in Nat
  BY RequestsAssumption DEF BuildInv
<1>2. /\ DOMAIN procs' = Builders /\ procs'[b] = q
      /\ \A c \in Builders : c # b => procs'[c] = procs[c]
  BY <1>1
<1>3. ASSUME NEW c \in Builders PROVE ProcOK(c, procs'[c], made')
  <2>1. CASE c = b
    BY <1>2, <2>1
  <2>2. CASE c # b
    <3>1. procs[c].pc # "idle" => <<c, procs[c].runs>> \in Runs
      BY <1>1 DEF ProcOK, Runs
    <3> QED
      BY <1>1, <1>2, <2>2, <3>1, ProcGrows
  <2> QED
    BY <2>1, <2>2
<1>4. procs[b].runs \in 0..MaxRuns /\ q.runs \in 0..MaxRuns
  BY <1>1 DEF ProcOK
<1>5. ASSUME NEW run \in Runs, Over(run)
      PROVE  run[2] <= procs'[run[1]].runs /\ (run[2] = procs'[run[1]].runs => procs'[run[1]].pc = "idle")
  <2>1. run[1] \in Builders /\ run[2] \in Nat
    BY <1>1 DEF Runs
  <2>2. CASE run[1] # b
    BY <1>2, <1>5, <2>1, <2>2 DEF Over
  <2>3. CASE run[1] = b
    <3>1. run[2] <= procs[b].runs /\ (run[2] = procs[b].runs => procs[b].pc = "idle")
      BY <1>5, <2>3 DEF Over
    <3> QED
      BY <1>1, <1>2, <1>4, <2>1, <2>3, <3>1
  <2> QED
    BY <2>2, <2>3
<1>6. ASSUME NEW o \in Outputs, provs'[o].is = "whole"
      PROVE  LET doc == provs'[o].doc
                 p == procs'[doc.run[1]] IN
             /\ doc.run \in Runs /\ doc.run[2] <= p.runs /\ (doc.run[2] = p.runs => p.pc = "idle")
             /\ doc.result = "PASS" => Complete(doc.target, made'[doc.run])
  <2> DEFINE doc == provs'[o].doc
  <2>1. CASE provs'[o] = provs[o]
    <3>1. Over(doc.run) /\ (doc.result = "PASS" => Complete(doc.target, made[doc.run]))
      BY <1>6, <2>1 DEF BuildInv, FiledOK
    <3>2. doc.run \in Runs
      BY <3>1 DEF Over
    <3> QED
      BY <1>5, <3>1, <3>2, MakesGrows
  <2>2. CASE doc = procs[b].doc /\ procs[b].pc = "write" /\ q.pc = "idle"
             /\ q.runs = procs[b].runs
    <3>1. /\ doc.run = <<b, procs[b].runs>> /\ doc.target = procs[b].req.target
          /\ doc.result = IF procs[b].dry THEN "DRY_RUN" ELSE "PASS"
          /\ ~procs[b].dry => Complete(procs[b].req.target, made[<<b, procs[b].runs>>])
          /\ procs[b].runs >= 1 /\ procs[b].dry \in BOOLEAN
      BY <1>1, <2>2 DEF ProcOK, Reporting, Drafted
    <3>2. doc.run \in Runs
      BY <1>1, <1>4, <3>1 DEF Runs
    <3>3. doc.result = "PASS" => Complete(doc.target, made[doc.run])
      BY <3>1
    <3>4. procs'[doc.run[1]] = q /\ doc.run[2] = q.runs
      BY <1>2, <2>2, <3>1
    <3> HIDE DEF doc
    <3> QED
      BY <1>4, <2>2, <3>2, <3>3, <3>4, MakesGrows DEF doc
  <2> QED
    BY <1>6, <2>1, <2>2
<1> QED
  BY <1>2, <1>3, <1>6 DEF BuildInv, FiledOK, Over

(* A step that only moves a process. *)
LEMMA LocalMove ==
  ASSUME BuildInv, NEW b \in Builders, NEW q, procs' = [procs EXCEPT ![b] = q],
         ProcOK(b, q, made), q.runs >= procs[b].runs,
         q.runs = procs[b].runs => procs[b].pc # "idle" \/ q.pc = "idle",
         UNCHANGED <<work, provs, made>>
  PROVE  BuildInv'
  BY OneMoves DEF BuildInv

LEMMA FinishKeeps ==
  ASSUME BuildInv, NEW b \in Builders, NEW outcome, Finish(b, outcome),
         UNCHANGED <<work, provs, made>>
  PROVE  BuildInv'
<1>1. procs[b].runs \in 0..MaxRuns /\ MaxRuns \in Nat
  BY RequestsAssumption DEF BuildInv, ProcOK
<1> DEFINE q == Idle(outcome, procs[b].runs)
<1>2. procs' = [procs EXCEPT ![b] = q]
  BY DEF Finish, Become
<1>3. ProcOK(b, q, made) /\ q.pc = "idle" /\ q.runs = procs[b].runs
  BY <1>1, IdleOK
<1> HIDE DEF q
<1>4. q.runs >= procs[b].runs
  BY <1>1, <1>3
<1> QED
  BY <1>2, <1>3, <1>4, LocalMove

-----------------------------------------------------------------------------
LEMMA BeginKeeps ==
  ASSUME BuildInv, NEW b \in Builders, NEW r \in RequestsOf[b], Begin(b, r)
  PROVE  BuildInv'
<1>0. PICK missing \in BOOLEAN :
        LET n == procs[b].runs + 1
            errs == missing \/ ~(ValidTarget(r.target) /\ SemanticChecks(r.target))
        IN  Become(b, IF errs \/ r.cmd = "validate"
                      THEN Idle(IF errs THEN "invalid" ELSE "ok", n)
                      ELSE [Idle("none", n) EXCEPT !.pc = "host", !.req = r])
  BY DEF Begin
<1> DEFINE n == procs[b].runs + 1
           errs == missing \/ ~(ValidTarget(r.target) /\ SemanticChecks(r.target))
           q == IF errs \/ r.cmd = "validate"
                THEN Idle(IF errs THEN "invalid" ELSE "ok", n)
                ELSE [Idle("none", n) EXCEPT !.pc = "host", !.req = r]
<1>1. /\ procs[b].runs \in 0..MaxRuns /\ MaxRuns \in Nat /\ procs[b].runs < MaxRuns
  BY RequestsAssumption DEF BuildInv, ProcOK, Begin
<1>2. n \in 1..MaxRuns /\ n \in 0..MaxRuns /\ n >= procs[b].runs /\ n # procs[b].runs
  BY <1>1
<1>3. procs' = [procs EXCEPT ![b] = q] /\ UNCHANGED <<work, provs, made>>
  BY <1>0 DEF Begin, Become
<1> HIDE DEF n
<1>4. CASE errs \/ r.cmd = "validate"
  <2>1. ProcOK(b, q, made) /\ q.runs = n
    BY <1>2, <1>4, IdleOK
  <2> HIDE DEF q
  <2> QED
    BY <1>2, <1>3, <2>1, LocalMove
<1>5. CASE ~(errs \/ r.cmd = "validate")
  <2> DEFINE i == Idle("none", n)
  <2>1. DOMAIN i = Fields /\ i.runs = n /\ i.dry = FALSE /\ i.next = 1
    BY DEF Idle, Fields
  <2>2. q = [i EXCEPT !.pc = "host", !.req = r]
    BY <1>5
  <2> HIDE DEF i, q
  <2>3. DOMAIN q = Fields /\ q.pc = "host" /\ q.runs = n /\ q.req = r /\ q.dry = FALSE /\ q.next = 1
    BY <2>1, <2>2 DEF Fields
  <2>4. r.cmd = "build" /\ ValidTarget(r.target)
    <3>1. r \in Requests
      BY RequestsAssumption
    <3>2. r.cmd \in {"validate", "build"}
      BY <3>1 DEF Requests
    <3> QED
      BY <1>5, <3>2
  <2>5. q.runs >= 1 /\ q.runs \in 0..MaxRuns /\ q.dry \in BOOLEAN /\ q.pc \in Labels
    <3>1. q.runs >= 1 /\ q.runs \in 0..MaxRuns
      BY <1>1, <1>2, <2>3
    <3>2. q.dry \in BOOLEAN
      BY <2>3
    <3>3. q.pc \in Labels
      BY <2>3 DEF Labels
    <3> QED
      BY <3>1, <3>2, <3>3
  <2>6. q.pc \notin {"idle", "run"} \cup Reporting /\ q.pc \notin Drafted
    BY <2>3 DEF Reporting, Drafted
  <2> HIDE DEF errs
  <2>7. ProcOK(b, q, made)
    BY <2>3, <2>4, <2>5, <2>6 DEF ProcOK
  <2> QED
    BY <1>2, <1>3, <2>3, <2>7, LocalMove
<1> QED
  BY <1>4, <1>5

(* What a process knows while it runs. *)
LEMMA Running ==
  ASSUME BuildInv, NEW b \in Builders, procs[b].pc # "idle"
  PROVE  /\ ProcOK(b, procs[b], made) /\ DOMAIN procs[b] = Fields
         /\ procs[b].runs \in 1..MaxRuns /\ MaxRuns \in Nat /\ Run(b) \in Runs
         /\ Req(b) \in RequestsOf[b] /\ Req(b).cmd = "build" /\ ValidTarget(Target(b))
         /\ Target(b).formats \in Seq(STRING) /\ Req(b).workdir \in Workdirs
         /\ Req(b).emit \in SUBSET Outputs /\ Req(b).dry \in BOOLEAN
<1>1. ProcOK(b, procs[b], made) /\ MaxRuns \in Nat
  BY RequestsAssumption DEF BuildInv
<1>2. /\ DOMAIN procs[b] = Fields /\ procs[b].runs \in 1..MaxRuns
      /\ Req(b) \in RequestsOf[b] /\ Req(b).cmd = "build" /\ ValidTarget(Target(b))
  BY <1>1 DEF ProcOK, Req, Target
<1>3. Run(b) \in Runs
  BY <1>2 DEF Run, Runs
<1>4. Target(b) = Req(b).target
  BY DEF Req, Target
<1> QED
  BY <1>1, <1>2, <1>3, <1>4, BuildRequests

LEMMA CheckHostKeeps ==
  ASSUME BuildInv, NEW b \in Builders, CheckHost(b)
  PROVE  BuildInv'
<1> DEFINE dry == Req(b).dry \/ ~BuilderAvailable
           q == [procs[b] EXCEPT !.pc = IF dry THEN "draft" ELSE "run",
                                 !.plan = PlanCommands(Target(b)), !.dry = dry]
<1>1. /\ procs[b].pc = "host" /\ procs' = [procs EXCEPT ![b] = q] /\ UNCHANGED <<work, provs, made>>
  BY DEF CheckHost, At, Become
<1>2. /\ DOMAIN procs[b] = Fields /\ procs[b].runs \in 1..MaxRuns /\ MaxRuns \in Nat
      /\ procs[b].next = 1 /\ procs[b].req \in RequestsOf[b] /\ procs[b].req.cmd = "build"
      /\ ValidTarget(procs[b].req.target) /\ Target(b).formats \in Seq(STRING)
  BY <1>1, Running DEF ProcOK
<1>3. dry \in BOOLEAN
  OBVIOUS
<1> HIDE DEF dry
<1>4. /\ DOMAIN q = Fields /\ q.pc = (IF dry THEN "draft" ELSE "run") /\ q.dry = dry
      /\ q.plan = PlanCommands(procs[b].req.target) /\ q.next = 1
      /\ q.runs = procs[b].runs /\ q.req = procs[b].req
  BY <1>2 DEF Fields, Target
<1>5. Len(PlanCommands(procs[b].req.target)) \in Nat /\ Len(PlanCommands(procs[b].req.target)) >= 3
  BY <1>2, PlanShape DEF Target
<1> HIDE DEF q
<1>6. /\ 1 \in 1..Len(q.plan) /\ \A i \in 1..(q.next - 1) : FALSE
      /\ q.runs >= 1 /\ q.runs \in 0..MaxRuns /\ q.runs >= procs[b].runs
  BY <1>2, <1>4, <1>5
<1>7. ProcOK(b, q, made)
  BY <1>2, <1>3, <1>4, <1>6 DEF ProcOK, Labels, Reporting, Drafted
<1> QED
  BY <1>1, <1>6, <1>7, LocalMove

(* What a command of coreos-assembler adds to what its run has made, and   *)
(* what it leaves in the work directory.                                   *)
Base(b) == [run |-> Run(b), n |-> work[Req(b).workdir].n + 1]

LEMMA EffectShape ==
  ASSUME BuildInv, NEW b \in Builders, procs[b].pc # "idle", NEW c,
         c.op \in {"init", "fetch", "build", "buildextend"}, Effect(b, c)
  PROVE  LET w == Req(b).workdir IN
         /\ DOMAIN made' = Runs /\ DOMAIN work' = Workdirs
         /\ \A run \in Runs : made[run] \subseteq made'[run]
         /\ \A run \in Runs : run # Run(b) => made'[run] = made[run]
         /\ Ran(c, made'[Run(b)])
         /\ \A m \in made'[Run(b)] \ made[Run(b)] :
              m.dir = w /\ (m.base = IF c.op = "build" THEN Base(b) ELSE work[w])
                        /\ c.op \in {"build", "buildextend"}
         /\ c.op = "build" => /\ work' = [work EXCEPT ![w] = Base(b)]
                             /\ \E o \in made'[Run(b)] : o.base = Base(b) /\ o.dir = w
         /\ c.op # "build" => work' = work
<1> DEFINE w == Req(b).workdir
           new == {[fmt |-> f, base |-> Base(b), dir |-> w] : f \in BaseFormats}
           one == [fmt |-> c.fmt, base |-> work[w], dir |-> w]
<1>1. Run(b) \in Runs /\ w \in Workdirs /\ DOMAIN made = Runs /\ DOMAIN work = Workdirs
  BY Running DEF BuildInv
<1>2. CASE c.op = "build"
  <2>1. /\ work' = [work EXCEPT ![w] = Base(b)]
        /\ made' = [made EXCEPT ![Run(b)] = @ \cup new]
    BY <1>2 DEF Effect, Base
  <2>2. \A f \in BaseFormats : \E m \in new : m.fmt = f
    <3>1. ASSUME NEW f \in BaseFormats PROVE \E m \in new : m.fmt = f
      <4> DEFINE m == [fmt |-> f, base |-> Base(b), dir |-> w]
      <4>1. m \in new /\ m.fmt = f
        OBVIOUS
      <4> HIDE DEF m, new
      <4> QED
        BY <4>1
    <3> QED
      BY <3>1
  <2>3. \A m \in new : m.dir = w /\ m.base = Base(b)
    OBVIOUS
  <2> HIDE DEF new, w
  <2>4. /\ DOMAIN made' = Runs /\ made'[Run(b)] = made[Run(b)] \cup new
        /\ \A run \in Runs : run # Run(b) => made'[run] = made[run]
        /\ DOMAIN work' = Workdirs
    BY <1>1, <2>1
  <2>5. Ran(c, made'[Run(b)])
    BY <1>2, <2>2, <2>4 DEF Ran, Makes
  <2>6. \E o \in made'[Run(b)] : o.base = Base(b) /\ o.dir = w
    <3>1. "qemu" \in BaseFormats
      BY DEF BaseFormats
    <3> QED
      BY <2>2, <2>3, <2>4, <3>1
  <2> QED
    BY <1>1, <1>2, <2>1, <2>3, <2>4, <2>5, <2>6 DEF w
<1>3. CASE c.op = "buildextend"
  <2>1. work' = work /\ made' = [made EXCEPT ![Run(b)] = @ \cup {one}]
    BY <1>3 DEF Effect
  <2>2. one.fmt = c.fmt /\ one.dir = w /\ one.base = work[w]
    OBVIOUS
  <2> HIDE DEF one, w
  <2>3. /\ DOMAIN made' = Runs /\ made'[Run(b)] = made[Run(b)] \cup {one}
        /\ \A run \in Runs : run # Run(b) => made'[run] = made[run]
    BY <1>1, <2>1
  <2>4. Ran(c, made'[Run(b)])
    BY <1>3, <2>2, <2>3 DEF Ran, Makes
  <2> QED
    BY <1>1, <1>3, <2>1, <2>2, <2>3, <2>4 DEF w
<1>4. CASE c.op \notin {"build", "buildextend"}
  <2>1. work' = work /\ made' = made
    BY <1>4 DEF Effect
  <2> QED
    BY <1>1, <1>4, <2>1 DEF Ran
<1> QED
  BY <1>2, <1>3, <1>4

(* The command that RunCommand runs. *)
LEMMA NextCommand ==
  ASSUME BuildInv, NEW b \in Builders, procs[b].pc = "run"
  PROVE  LET q == procs[b]
             c == q.plan[q.next] IN
         /\ q.next \in 1..Len(q.plan) /\ Len(q.plan) \in Nat
         /\ q.plan = PlanCommands(Target(b))
         /\ c.op \in {"init", "fetch", "build", "buildextend"}
         /\ c.op = "build" <=> q.next = 3
         /\ c.op = "buildextend" <=> q.next > 3
<1> DEFINE q == procs[b]
           n == q.next
           P == PlanCommands(Target(b))
<1>1. q.plan = P /\ n \in 1..Len(P) /\ Target(b).formats \in Seq(STRING)
  BY Running DEF ProcOK, Target
<1>2. /\ Len(P) \in Nat
      /\ P[1].op = "init" /\ P[2].op = "fetch" /\ P[3].op = "build"
      /\ \A i \in 4..Len(P) : P[i].op = "buildextend"
  BY <1>1, PlanShape
<1> HIDE DEF P, n
<1>3. n = 1 \/ n = 2 \/ n = 3 \/ n \in 4..Len(P)
  BY <1>1, <1>2
<1>4. P[n].op = CASE n = 1 -> "init" [] n = 2 -> "fetch" [] n = 3 -> "build" [] OTHER -> "buildextend"
  BY <1>2, <1>3
<1>5. /\ P[n].op \in {"init", "fetch", "build", "buildextend"}
      /\ P[n].op = "build" <=> n = 3
      /\ P[n].op = "buildextend" <=> n > 3
  BY <1>2, <1>3, <1>4
<1> QED
  BY <1>1, <1>2, <1>5 DEF n, P

LEMMA RunCommandKeeps ==
  ASSUME BuildInv, NEW b \in Builders, RunCommand(b)
  PROVE  BuildInv'
<1> DEFINE p == procs[b]
           c == p.plan[p.next]
           M == made'[Run(b)]
<1>1. p.pc = "run" /\ Effect(b, c) /\ provs' = provs
  BY DEF RunCommand, At
<1>2. /\ p.next \in 1..Len(p.plan) /\ Len(p.plan) \in Nat
      /\ p.plan = PlanCommands(Target(b))
      /\ c.op \in {"init", "fetch", "build", "buildextend"}
  BY <1>1, NextCommand
<1>3. /\ DOMAIN made' = Runs /\ DOMAIN work' = Workdirs
      /\ \A run \in Runs : made[run] \subseteq made'[run]
      /\ Ran(c, M)
  BY <1>1, <1>2, EffectShape
<1>4. /\ DOMAIN p = Fields /\ p.runs \in 1..MaxRuns /\ MaxRuns \in Nat /\ Run(b) \in Runs
      /\ p.req \in RequestsOf[b] /\ p.req.cmd = "build"
      /\ ValidTarget(Target(b)) /\ Target(b).formats \in Seq(STRING) /\ Target(b) = p.req.target
      /\ ~p.dry /\ p.dry \in BOOLEAN
      /\ \A i \in 1..(p.next - 1) : Ran(p.plan[i], made[Run(b)])
  BY <1>1, Running DEF ProcOK, Run, Req, Target
<1>5. \A i \in 1..p.next : Ran(p.plan[i], M)
  <2>1. ASSUME NEW i \in 1..p.next PROVE Ran(p.plan[i], M)
    <3>1. CASE i = p.next
      BY <1>3, <3>1
    <3>2. CASE i # p.next
      <4>1. i \in 1..(p.next - 1)
        BY <1>2, <3>2
      <4>2. Ran(p.plan[i], made[Run(b)]) /\ made[Run(b)] \subseteq M
        BY <1>3, <1>4, <4>1
      <4> QED
        BY <4>2, MakesGrows
    <3> QED
      BY <3>1, <3>2
  <2> QED
    BY <2>1
<1>6. ASSUME NEW q, ProcOK(b, q, made'), procs' = [procs EXCEPT ![b] = q], q.runs = p.runs
      PROVE  BuildInv'
  <2>1. q.runs >= procs[b].runs /\ procs[b].pc # "idle" /\ DOMAIN provs' = Outputs
    BY <1>1, <1>4, <1>6 DEF BuildInv
  <2> QED
    BY <1>1, <1>3, <1>6, <2>1, OneMoves
<1>7. CASE p.next # Len(p.plan)
  <2> DEFINE q == [p EXCEPT !.next = @ + 1]
  <2>1. procs' = [procs EXCEPT ![b] = q]
    BY <1>7 DEF RunCommand, Become
  <2>2. /\ DOMAIN q = Fields /\ q.pc = "run" /\ q.next = p.next + 1 /\ q.plan = p.plan
        /\ q.runs = p.runs /\ q.req = p.req /\ q.dry = p.dry
    BY <1>1, <1>4 DEF Fields
  <2> HIDE DEF q
  <2>3. q.next \in 1..Len(q.plan) /\ \A i \in 1..(q.next - 1) : Ran(q.plan[i], made'[<<b, q.runs>>])
    BY <1>2, <1>5, <1>7, <2>2 DEF Run
  <2>4. q.runs >= 1 /\ q.runs \in 0..MaxRuns
    BY <1>4, <2>2
  <2>5. ProcOK(b, q, made')
    <3>1. q.pc \in Labels /\ q.pc \notin Reporting /\ q.pc \notin Drafted /\ q.pc \notin {"idle", "host"}
      BY <2>2 DEF Labels, Reporting, Drafted
    <3> HIDE DEF p
    <3> QED
      BY <1>2, <1>4, <2>2, <2>3, <2>4, <3>1 DEF ProcOK
  <2> QED
    BY <1>6, <2>1, <2>2, <2>5
<1>8. CASE p.next = Len(p.plan) /\ Req(b).emit = {}
  <2>1. procs' = [procs EXCEPT ![b] = Idle("ok", p.runs)]
    BY <1>8 DEF RunCommand, Built, Finish, Become
  <2>2. p.runs \in 0..MaxRuns
    BY <1>4
  <2>3. ProcOK(b, Idle("ok", p.runs), made') /\ Idle("ok", p.runs).runs = p.runs
    BY <2>2, IdleOK
  <2> QED
    BY <1>6, <2>1, <2>3
<1>9. CASE p.next = Len(p.plan) /\ Req(b).emit # {}
  <2> DEFINE q == [p EXCEPT !.pc = "draft"]
  <2>1. procs' = [procs EXCEPT ![b] = q]
    BY <1>9 DEF RunCommand, Built, Goto, Become
  <2>2. /\ DOMAIN q = Fields /\ q.pc = "draft"
        /\ q.runs = p.runs /\ q.req = p.req /\ q.dry = p.dry
    BY <1>4 DEF Fields
  <2> HIDE DEF q
  <2>3. Complete(Target(b), M)
    BY <1>2, <1>4, <1>5, <1>9, PlanCovers
  <2>4. q.runs >= 1 /\ q.runs \in 0..MaxRuns
    BY <1>4, <2>2
  <2>5. ProcOK(b, q, made')
    <3>1. q.pc \in Labels /\ q.pc \notin Drafted /\ q.pc \notin {"idle", "host", "run"}
      BY <2>2 DEF Labels, Reporting, Drafted
    <3>2. M = made'[<<b, q.runs>>]
      BY <2>2 DEF Run
    <3> HIDE DEF p, M
    <3> QED
      BY <1>4, <2>2, <2>3, <2>4, <3>1, <3>2 DEF ProcOK
  <2> QED
    BY <1>6, <2>1, <2>2, <2>5
<1> QED
  BY <1>7, <1>8, <1>9

(* A run that reports goes on to its next look at the world.               *)
LEMMA ReportMoves ==
  ASSUME BuildInv, NEW b \in Builders, procs[b].pc \in Reporting, NEW q,
         procs' = [procs EXCEPT ![b] = q], UNCHANGED <<work, made>>,
         DOMAIN provs' = Outputs,
         \A o \in Outputs : provs'[o].is = "whole" => provs'[o] = provs[o],
         DOMAIN q = Fields, q.pc \in Drafted, q.req = procs[b].req, q.dry = procs[b].dry,
         q.runs = procs[b].runs,
         DOMAIN q.doc = DocFields, q.doc.run = Run(b), q.doc.target = Target(b),
         q.doc.result = IF procs[b].dry THEN "DRY_RUN" ELSE "PASS"
  PROVE  BuildInv'
<1>1. procs[b].pc # "idle" /\ q.pc # "idle" /\ q.pc \notin {"host", "run"}
      /\ q.pc \in Reporting /\ q.pc \in Labels
  BY DEF Reporting, Drafted, Labels
<1>2. /\ ProcOK(b, procs[b], made) /\ DOMAIN made = Runs /\ DOMAIN work = Workdirs
      /\ procs[b].runs \in 1..MaxRuns /\ MaxRuns \in Nat
  BY <1>1, Running DEF BuildInv
<1>3. /\ ~procs[b].dry => Complete(procs[b].req.target, made[<<b, procs[b].runs>>])
      /\ procs[b].dry \in BOOLEAN /\ procs[b].runs >= 1 /\ procs[b].req \in RequestsOf[b]
      /\ procs[b].req.cmd = "build" /\ ValidTarget(procs[b].req.target)
      /\ procs[b].runs \in 0..MaxRuns
  BY <1>1, <1>2 DEF ProcOK
<1>4. ProcOK(b, q, made')
  BY <1>1, <1>3 DEF ProcOK, Run, Target
<1>5. q.runs >= procs[b].runs
  BY <1>2
<1> QED
  BY <1>1, <1>2, <1>4, <1>5, OneMoves

LEMMA BuildProvenanceKeeps ==
  ASSUME BuildInv, NEW b \in Builders, BuildProvenance(b)
  PROVE  BuildInv'
<1>1. procs[b].pc = "draft" /\ procs[b].pc \in Reporting /\ procs[b].pc # "idle"
      /\ UNCHANGED <<work, provs, made>>
  BY DEF BuildProvenance, At, Reporting
<1>2. CASE Target(b).inside /\ Req(b).emit # {}
  <2> DEFINE d == Draft(b)
             q == [procs[b] EXCEPT !.pc = "open", !.doc = d]
  <2>1. procs' = [procs EXCEPT ![b] = q]
    BY <1>2 DEF BuildProvenance, Become
  <2>2. /\ DOMAIN d = DocFields /\ d.run = Run(b) /\ d.target = Target(b)
        /\ d.result = IF procs[b].dry THEN "DRY_RUN" ELSE "PASS"
    BY DEF Draft, DocFields
  <2> HIDE DEF d
  <2>3. DOMAIN procs[b] = Fields
    BY <1>1, Running
  <2>4. /\ DOMAIN q = Fields /\ q.pc = "open" /\ q.req = procs[b].req /\ q.dry = procs[b].dry
        /\ q.runs = procs[b].runs /\ q.doc = d
    BY <2>3 DEF Fields
  <2>5. q.pc \in Drafted
    BY <2>4 DEF Drafted
  <2> HIDE DEF q
  <2> QED
    BY <1>1, <2>1, <2>2, <2>4, <2>5, ReportMoves DEF BuildInv
<1>3. CASE ~(Target(b).inside /\ Req(b).emit # {})
  BY <1>1, <1>3, FinishKeeps DEF BuildProvenance
<1> QED
  BY <1>2, <1>3

(* The document in the making, and what it says already. *)
LEMMA DraftHolds ==
  ASSUME BuildInv, NEW b \in Builders, procs[b].pc \in Drafted
  PROVE  /\ procs[b].pc \in Reporting /\ procs[b].pc # "idle"
         /\ DOMAIN procs[b] = Fields /\ DOMAIN procs[b].doc = DocFields
         /\ procs[b].doc.run = Run(b) /\ procs[b].doc.target = Target(b)
         /\ procs[b].doc.result = IF procs[b].dry THEN "DRY_RUN" ELSE "PASS"
<1>1. procs[b].pc \in Reporting /\ procs[b].pc # "idle"
  BY DEF Reporting, Drafted
<1> QED
  BY <1>1, Running DEF ProcOK, Run, Target

LEMMA OpenKeeps ==
  ASSUME BuildInv, NEW b \in Builders, OpenProvenance(b)
  PROVE  BuildInv'
<1> DEFINE q == [procs[b] EXCEPT !.pc = "write"]
           x == [is |-> "empty", doc |-> NoDoc]
<1>1. procs[b].pc \in Drafted /\ "write" \in Drafted
  BY DEF OpenProvenance, At, Drafted
<1>2. /\ procs[b].pc \in Reporting
      /\ DOMAIN procs[b] = Fields /\ DOMAIN procs[b].doc = DocFields
      /\ procs[b].doc.run = Run(b) /\ procs[b].doc.target = Target(b)
      /\ procs[b].doc.result = IF procs[b].dry THEN "DRY_RUN" ELSE "PASS"
  BY <1>1, DraftHolds
<1>3. /\ DOMAIN q = Fields /\ q.pc = "write" /\ q.req = procs[b].req /\ q.dry = procs[b].dry
      /\ q.runs = procs[b].runs /\ q.doc = procs[b].doc
  BY <1>2 DEF Fields
<1>4. x.is # "whole"
  OBVIOUS
<1>5. /\ procs' = [procs EXCEPT ![b] = q] /\ UNCHANGED <<work, made>>
      /\ provs' = [provs EXCEPT ![Output(b)] = x]
  BY DEF OpenProvenance, Goto, Become
<1> HIDE DEF q, x
<1>6. DOMAIN provs' = Outputs /\ \A o \in Outputs : provs'[o].is = "whole" => provs'[o] = provs[o]
  BY <1>4, <1>5 DEF BuildInv
<1> QED
  BY <1>1, <1>2, <1>3, <1>5, <1>6, ReportMoves

LEMMA WriteKeeps ==
  ASSUME BuildInv, NEW b \in Builders, WriteProvenance(b)
  PROVE  BuildInv'
<1> DEFINE q == Idle("ok", procs[b].runs)
<1>1. procs[b].pc = "write" /\ procs' = [procs EXCEPT ![b] = q] /\ UNCHANGED <<work, made>>
  BY DEF WriteProvenance, At, Finish, Become
<1>2. procs[b].runs \in 0..MaxRuns /\ MaxRuns \in Nat
  BY RequestsAssumption DEF BuildInv, ProcOK
<1>3. ProcOK(b, q, made') /\ q.pc = "idle" /\ q.runs = procs[b].runs
  BY <1>2, IdleOK
<1> HIDE DEF q
<1>4. PICK is \in {"whole", "garbled"} :
        provs' = [provs EXCEPT ![Output(b)] =
                    [is |-> is, doc |-> IF is = "whole" THEN procs[b].doc ELSE NoDoc]]
  BY DEF WriteProvenance
<1> DEFINE x == [is |-> is, doc |-> IF is = "whole" THEN procs[b].doc ELSE NoDoc]
<1>5. x.is = "whole" => x.doc = procs[b].doc
  OBVIOUS
<1>6. provs' = [provs EXCEPT ![Output(b)] = x]
  BY <1>4
<1> HIDE DEF x
<1>7. DOMAIN provs' = Outputs /\ \A o \in Outputs : provs'[o].is = "whole" =>
        provs'[o] = provs[o] \/ provs'[o].doc = procs[b].doc
  BY <1>5, <1>6 DEF BuildInv
<1>8. q.runs >= procs[b].runs /\ DOMAIN made' = Runs /\ DOMAIN work' = Workdirs
      /\ \A run \in Runs : made[run] \subseteq made'[run]
  BY <1>1, <1>2, <1>3 DEF BuildInv
<1> QED
  BY <1>1, <1>3, <1>7, <1>8, OneMoves

-----------------------------------------------------------------------------
(* Developers and the host leave the wrapper's own state alone. *)
WorldStep ==
  (\E f \in Files : Edit(f)) \/ CosaGone

LEMMA WorldAlone ==
  ASSUME WorldStep \/ UNCHANGED vars
  PROVE  UNCHANGED <<work, provs, procs, made>>
  BY DEF WorldStep, Edit, CosaGone, vars

LEMMA BuildInit == Init => BuildInv
<1> SUFFICES ASSUME Init PROVE BuildInv
  OBVIOUS
<1>1. MaxRuns \in Nat /\ 0 \in 0..MaxRuns
  BY RequestsAssumption
<1>2. ASSUME NEW b \in Builders PROVE ProcOK(b, procs[b], made)
  BY <1>1, IdleOK DEF Init
<1>3. ASSUME NEW o \in Outputs PROVE provs[o].is # "whole"
  BY DEF Init
<1> QED
  BY <1>2, <1>3 DEF Init, BuildInv, Runs

LEMMA BuildNext == BuildInv /\ [Next]_vars => BuildInv'
<1> SUFFICES ASSUME BuildInv, [Next]_vars PROVE BuildInv'
  OBVIOUS
<1>1. CASE WorldStep \/ UNCHANGED vars
  <2>1. UNCHANGED <<work, provs, procs, made>>
    BY <1>1, WorldAlone
  <2> QED
    BY <2>1 DEF BuildInv, FiledOK, Over
<1>2. ASSUME NEW b \in Builders, Step(b) PROVE BuildInv'
  BY <1>2, CheckHostKeeps, RunCommandKeeps, FinishKeeps, BuildProvenanceKeeps,
     OpenKeeps, WriteKeeps
  DEF Step, CommandFails, CommandRaises
<1>3. ASSUME NEW b \in Builders, Kill(b) PROVE BuildInv'
  BY <1>3, FinishKeeps DEF Kill
<1>4. ASSUME NEW b \in Builders, NEW r \in RequestsOf[b], Begin(b, r) PROVE BuildInv'
  BY <1>4, BeginKeeps
<1> QED
  BY <1>1, <1>2, <1>3, <1>4 DEF Next, WorldStep

(* An admitted stub belongs to a run that built every format its target    *)
(* declares (cmd_build), for any targets, work directories and stub files, *)
(* whatever failed, was killed or wrote to the same file.                  *)
THEOREM AdmittedWasBuilt == Spec => []PassMeansBuilt
<1>1. BuildInv => PassMeansBuilt
  BY DEF BuildInv, FiledOK, Complete, Makes, PassMeansBuilt, Admitted
<1> QED
  BY <1>1, BuildInit, BuildNext, PTL DEF Spec

-----------------------------------------------------------------------------
(* How a process moves: it ends its run, begins one with the next number,  *)
(* or goes on with its request; it reaches an extension only by running    *)
(* the command before it.                                                  *)
Moves(p, q) ==
  \/ p.pc # "idle" /\ q.pc = "idle" /\ q.runs = p.runs
  \/ p.pc = "idle" /\ q.pc \in {"idle", "host"} /\ q.runs = p.runs + 1
  \/ /\ p.pc # "idle" /\ q.pc # "idle" /\ q.runs = p.runs /\ q.req = p.req
     /\ q.pc = "run" /\ q.next > 3 => p.pc = "run" /\ q.next = p.next + 1

Acts(b) == Step(b) \/ Kill(b) \/ \E r \in RequestsOf[b] : Begin(b, r)

LEMMA FinishMoves ==
  ASSUME BuildInv, NEW b \in Builders, procs[b].pc # "idle", NEW outcome, Finish(b, outcome)
  PROVE  procs' = [procs EXCEPT ![b] = procs'[b]] /\ Moves(procs[b], procs'[b])
<1> DEFINE q == Idle(outcome, procs[b].runs)
<1>1. procs' = [procs EXCEPT ![b] = q] /\ procs'[b] = q
  BY DEF Finish, Become, BuildInv
<1>2. q.pc = "idle" /\ q.runs = procs[b].runs
  BY DEF Idle
<1> HIDE DEF q
<1>3. Moves(procs[b], q)
  BY <1>2 DEF Moves
<1> QED
  BY <1>1, <1>3

LEMMA GoMoves ==
  ASSUME BuildInv, NEW b \in Builders, NEW q, Become(b, q),
         procs[b].pc # "idle", q.pc # "idle", q.runs = procs[b].runs, q.req = procs[b].req,
         q.pc = "run" /\ q.next > 3 => procs[b].pc = "run" /\ q.next = procs[b].next + 1
  PROVE  procs' = [procs EXCEPT ![b] = procs'[b]] /\ Moves(procs[b], procs'[b])
<1>1. procs' = [procs EXCEPT ![b] = q] /\ procs'[b] = q
  BY DEF Become, BuildInv
<1>2. Moves(procs[b], q)
  BY DEF Moves
<1> QED
  BY <1>1, <1>2

LEMMA ActFrame ==
  ASSUME NEW b \in Builders, Acts(b)
  PROVE  RunCommand(b) \/ UNCHANGED <<work, made>>
  BY DEF Acts, Step, Kill, Begin, CheckHost, CommandFails, CommandRaises, BuildProvenance,
         OpenProvenance, WriteProvenance

LEMMA ActMoves ==
  ASSUME BuildInv, NEW b \in Builders, Acts(b)
  PROVE  /\ procs' = [procs EXCEPT ![b] = procs'[b]]
         /\ Moves(procs[b], procs'[b])
<1> DEFINE p == procs[b]
<1>1. ASSUME NEW r \in RequestsOf[b], Begin(b, r)
      PROVE  procs' = [procs EXCEPT ![b] = procs'[b]] /\ Moves(p, procs'[b])
  <2>1. PICK q : /\ procs' = [procs EXCEPT ![b] = q]
                 /\ \/ \E outcome : q = Idle(outcome, p.runs + 1)
                    \/ q = [Idle("none", p.runs + 1) EXCEPT !.pc = "host", !.req = r]
    BY <1>1 DEF Begin, Become
  <2>2. q.pc \in {"idle", "host"} /\ q.runs = p.runs + 1
    <3>1. ASSUME NEW outcome, q = Idle(outcome, p.runs + 1)
          PROVE  q.pc = "idle" /\ q.runs = p.runs + 1
      BY <3>1 DEF Idle
    <3>2. ASSUME q = [Idle("none", p.runs + 1) EXCEPT !.pc = "host", !.req = r]
          PROVE  q.pc = "host" /\ q.runs = p.runs + 1
      BY <3>2 DEF Idle
    <3> QED
      BY <2>1, <3>1, <3>2
  <2>3. procs'[b] = q /\ p.pc = "idle"
    BY <1>1, <2>1 DEF BuildInv, Begin, At
  <2> QED
    BY <2>1, <2>2, <2>3 DEF Moves
<1>2. CASE Kill(b) \/ CommandFails(b) \/ CommandRaises(b) \/ WriteProvenance(b)
  BY <1>2, FinishMoves DEF Kill, CommandFails, CommandRaises, WriteProvenance, At
<1>3. p.pc # "idle" => DOMAIN p = Fields
  BY Running
<1>4. CASE CheckHost(b)
  <2> DEFINE dry == Req(b).dry \/ ~BuilderAvailable
             q == [procs[b] EXCEPT !.pc = IF dry THEN "draft" ELSE "run",
                                   !.plan = PlanCommands(Target(b)), !.dry = dry]
  <2>1. p.pc = "host" /\ Become(b, q)
    BY <1>4 DEF CheckHost, At
  <2>2. p.next = 1
    BY <2>1 DEF BuildInv, ProcOK
  <2> HIDE DEF dry
  <2>3. q.pc \in {"draft", "run"} /\ q.runs = p.runs /\ q.req = p.req /\ q.next = 1
    BY <1>3, <2>1, <2>2 DEF Fields
  <2> HIDE DEF q
  <2>4. ~(q.next > 3) /\ q.pc # "idle"
    BY <2>3
  <2> QED
    BY <2>1, <2>3, <2>4, GoMoves
<1>5. CASE RunCommand(b)
  <2>1. p.pc = "run" /\ DOMAIN p = Fields
    BY <1>3, <1>5 DEF RunCommand, At
  <2>2. CASE p.next = Len(p.plan) /\ Req(b).emit = {}
    BY <1>5, <2>1, <2>2, FinishMoves DEF RunCommand, Built
  <2>3. CASE p.next = Len(p.plan) /\ Req(b).emit # {}
    <3> DEFINE q == [procs[b] EXCEPT !.pc = "draft"]
    <3>1. Become(b, q)
      BY <1>5, <2>3 DEF RunCommand, Built, Goto
    <3>2. q.pc = "draft" /\ q.runs = p.runs /\ q.req = p.req
      BY <2>1 DEF Fields
    <3> HIDE DEF q
    <3> QED
      BY <2>1, <3>1, <3>2, GoMoves
  <2>4. CASE p.next # Len(p.plan)
    <3> DEFINE q == [procs[b] EXCEPT !.next = @ + 1]
    <3>1. Become(b, q)
      BY <1>5, <2>4 DEF RunCommand
    <3>2. q.pc = "run" /\ q.runs = p.runs /\ q.req = p.req /\ q.next = p.next + 1
      BY <2>1 DEF Fields
    <3> HIDE DEF q
    <3> QED
      BY <2>1, <3>1, <3>2, GoMoves
  <2> QED
    BY <2>2, <2>3, <2>4
<1>6. CASE BuildProvenance(b)
  <2>1. p.pc = "draft" /\ DOMAIN p = Fields
    BY <1>3, <1>6 DEF BuildProvenance, At
  <2>2. CASE Target(b).inside /\ Req(b).emit # {}
    <3> DEFINE q == [procs[b] EXCEPT !.pc = "open", !.doc = Draft(b)]
    <3>1. Become(b, q)
      BY <1>6, <2>2 DEF BuildProvenance
    <3>2. q.pc = "open" /\ q.runs = p.runs /\ q.req = p.req
      BY <2>1 DEF Fields
    <3> HIDE DEF q
    <3> QED
      BY <2>1, <3>1, <3>2, GoMoves
  <2>3. CASE ~(Target(b).inside /\ Req(b).emit # {})
    BY <1>6, <2>1, <2>3, FinishMoves DEF BuildProvenance
  <2> QED
    BY <2>2, <2>3
<1>7. CASE OpenProvenance(b)
  <2> DEFINE q == [procs[b] EXCEPT !.pc = "write"]
  <2>1. p.pc = "open" /\ DOMAIN p = Fields
    BY <1>3, <1>7 DEF OpenProvenance, At
  <2>2. q.pc = "write" /\ q.runs = p.runs /\ q.req = p.req
    BY <2>1 DEF Fields
  <2>3. Become(b, q)
    BY <1>7 DEF OpenProvenance, Goto
  <2> HIDE DEF q
  <2> QED
    BY <2>1, <2>2, <2>3, GoMoves
<1> QED
  BY <1>1, <1>2, <1>4, <1>5, <1>6, <1>7 DEF Acts, Step

(* Only a command that ran takes a run on to the next one. *)
LEMMA OnlyRunAdvances ==
  ASSUME BuildInv, NEW b \in Builders, Acts(b), procs[b].pc = "run", procs'[b].pc = "run"
  PROVE  RunCommand(b)
<1>1. ASSUME NEW outcome, Finish(b, outcome) PROVE FALSE
  <2>1. procs'[b] = Idle(outcome, procs[b].runs)
    BY <1>1 DEF Finish, Become, BuildInv
  <2> QED
    BY <2>1 DEF Idle
<1>2. ~Kill(b) /\ ~CommandFails(b) /\ ~CommandRaises(b)
  BY <1>1 DEF Kill, CommandFails, CommandRaises
<1> QED
  BY <1>2 DEF Acts, Step, Begin, CheckHost, BuildProvenance, OpenProvenance, WriteProvenance, At

-----------------------------------------------------------------------------
(* What an act of a process does to what was made and to the work          *)
(* directories: it adds to its own run, from its own base build or from    *)
(* the latest one of its work directory.                                   *)
LEMMA ActMakes ==
  ASSUME BuildInv, NEW b \in Builders, Acts(b)
  PROVE  LET w == Req(b).workdir
             q == procs[b] IN
         /\ \A run \in Runs : run # Run(b) => made'[run] = made[run]
         /\ q.pc # "run" => made' = made /\ work' = work
         /\ q.pc = "run" => \A m \in made'[Run(b)] \ made[Run(b)] :
              m.dir = w /\ (m.base = Base(b) \/ (q.next > 3 /\ m.base = work[w]))
         /\ work' = work \/ (q.pc = "run" /\ q.next = 3 /\ work' = [work EXCEPT ![w] = Base(b)])
         /\ RunCommand(b) /\ q.next = 3 =>
              /\ work' = [work EXCEPT ![w] = Base(b)]
              /\ \E o \in made'[Run(b)] : o.base = Base(b) /\ o.dir = w
         /\ \A run \in Runs : made[run] \subseteq made'[run]
<1> DEFINE q == procs[b]
           c == q.plan[q.next]
<1>1. CASE ~RunCommand(b)
  <2>1. made' = made /\ work' = work
    BY <1>1, ActFrame
  <2> QED
    BY <1>1, <2>1
<1>2. CASE RunCommand(b)
  <2>1. q.pc = "run" /\ q.pc # "idle" /\ Effect(b, c)
    BY <1>2 DEF RunCommand, At
  <2>2. /\ c.op \in {"init", "fetch", "build", "buildextend"}
        /\ c.op = "build" <=> q.next = 3
        /\ c.op = "buildextend" <=> q.next > 3
    BY <2>1, NextCommand
  <2> HIDE DEF c
  <2> QED
    BY <2>1, <2>2, EffectShape
<1> QED
  BY <1>1, <1>2

(* A process that acts changes no other, and its runs only go up. *)
LEMMA OthersStay ==
  ASSUME BuildInv, NEW b \in Builders, Acts(b)
  PROVE  /\ \A c \in Builders : c # b => procs'[c] = procs[c]
         /\ \A c \in Builders : procs[c].runs \in Nat /\ procs'[c].runs \in Nat
                                /\ procs[c].runs <= procs'[c].runs
<1>1. procs' = [procs EXCEPT ![b] = procs'[b]] /\ DOMAIN procs = Builders
      /\ Moves(procs[b], procs'[b])
  BY ActMoves DEF BuildInv
<1>2. \A c \in Builders : c # b => procs'[c] = procs[c]
  BY <1>1
<1>3. ASSUME NEW c \in Builders PROVE procs[c].runs \in Nat
  <2>1. procs[c].runs \in 0..MaxRuns
    BY DEF BuildInv, ProcOK
  <2> QED
    BY <2>1, RequestsAssumption
<1>4. procs'[b].runs = procs[b].runs \/ procs'[b].runs = procs[b].runs + 1
  BY <1>1 DEF Moves
<1> QED
  BY <1>2, <1>3, <1>4

LEMMA NextKinds ==
  ASSUME [Next]_vars
  PROVE  WorldStep \/ UNCHANGED vars \/ \E b \in Builders : Acts(b)
  BY DEF Next, WorldStep, Acts

(* What was a run's own build stays one, and stays older than what comes. *)
LEMMA OwnGrows ==
  ASSUME NEW M, NEW N, M \subseteq N, NEW run, NEW base, NEW w, Own(M, run, base, w)
  PROVE  /\ Own(N, run, base, w)
         /\ \A new : base.n \in Nat /\ new.n = base.n + 1 => Own(N, run, new, w)
<1>1. PICK o \in M : /\ o.base.run = run /\ o.base.n \in Nat /\ o.dir = w
                     /\ o.base = base \/ o.base.n < base.n
  BY DEF Own
<1>2. ASSUME NEW new, base.n \in Nat, new.n = base.n + 1 PROVE o.base.n < new.n
  <2>1. o.base.n <= base.n
    BY <1>1, <1>2
  <2> QED
    BY <1>1, <1>2, <2>1
<1> QED
  BY <1>1, <1>2 DEF Own

LEMMA OwnInit == Init => OwnInv
<1> SUFFICES ASSUME Init PROVE OwnInv
  OBVIOUS
<1>1. \A run \in Runs : made[run] = {}
  BY DEF Init, Runs
<1>2. \A b \in Builders : procs[b].pc = "idle"
  BY DEF Init, Idle
<1>3. \A w \in Workdirs : work[w].n = 0
  BY DEF Init, NoBase
<1> QED
  BY <1>1, <1>2, <1>3 DEF OwnInv

LEMMA OwnNext == BuildInv /\ OwnInv /\ [Next]_vars => OwnInv'
<1> SUFFICES ASSUME BuildInv, OwnInv, [Next]_vars PROVE OwnInv'
  OBVIOUS
<1>1. CASE WorldStep \/ UNCHANGED vars
  <2>1. UNCHANGED <<work, procs, made>>
    BY <1>1, WorldAlone
  <2> QED
    BY <2>1 DEF OwnInv, Run, Own
<1>2. ASSUME NEW b \in Builders, Acts(b) PROVE OwnInv'
  <2> DEFINE v == Req(b).workdir
  <2>1. Base(b).run = Run(b) /\ Base(b).n = work[v].n + 1
    BY DEF Base
  <2>2. procs[b].pc = "run" => v \in Workdirs /\ work[v].n \in Nat
    BY Running DEF OwnInv
  <2>3. DOMAIN work = Workdirs /\ \A run \in Runs : made[run] \subseteq made'[run]
    BY <1>2, ActMakes DEF BuildInv
  <2>4. \/ work' = work
        \/ procs[b].pc = "run" /\ procs[b].next = 3 /\ work' = [work EXCEPT ![v] = Base(b)]
    BY <1>2, ActMakes
  <2> HIDE DEF v
  <2>5. ASSUME NEW w \in Workdirs PROVE work'[w].n \in Nat
    BY <2>1, <2>2, <2>3, <2>4 DEF OwnInv
  <2>6. ASSUME NEW run \in Runs, NEW m \in made'[run]
        PROVE  Own(made'[run], run, m.base, m.dir)
    <3>1. CASE m \in made[run]
      <4>1. Own(made[run], run, m.base, m.dir)
        BY <3>1 DEF OwnInv
      <4> QED
        BY <2>3, <4>1, OwnGrows
    <3>2. CASE m \notin made[run]
      <4>1. run = Run(b)
        BY <1>2, <2>6, <3>2, ActMakes
      <4>2. procs[b].pc = "run"
        BY <1>2, <2>6, <3>2, ActMakes
      <4>3. /\ m.dir = v
            /\ m.base = Base(b) \/ (procs[b].next > 3 /\ m.base = work[v])
        BY <1>2, <2>6, <3>2, <4>1, <4>2, ActMakes DEF v
      <4>4. CASE m.base = Base(b)
        <5>1. m.base.run = run /\ m.base.n \in Nat
          BY <2>1, <2>2, <4>1, <4>2, <4>4
        <5> QED
          BY <2>6, <5>1 DEF Own
      <4>5. CASE procs[b].next > 3 /\ m.base = work[v]
        <5>1. Own(made[run], run, work[v], v)
          BY <4>1, <4>2, <4>5 DEF OwnInv, Req, v
        <5> QED
          BY <2>3, <4>3, <4>5, <5>1, OwnGrows
      <4> QED
        BY <4>3, <4>4, <4>5
    <3> QED
      BY <3>1, <3>2
  <2>7. ASSUME NEW c \in Builders, procs'[c].pc = "run", procs'[c].next > 3
        PROVE  LET w == procs'[c].req.workdir
                   run == <<c, procs'[c].runs>>
               IN  Own(made'[run], run, work'[w], w)
    <3>1. CASE c = b
      <4>1. /\ procs[b].pc = "run" /\ procs'[b].next = procs[b].next + 1
            /\ procs'[b].runs = procs[b].runs /\ procs'[b].req = procs[b].req
        BY <1>2, <2>7, <3>1, ActMoves DEF Moves
      <4>2. procs[b].next \in Nat
        BY <4>1, NextCommand
      <4>3. procs[b].next = 3 \/ procs[b].next > 3
        BY <2>7, <3>1, <4>1, <4>2
      <4>4. RunCommand(b)
        BY <1>2, <2>7, <3>1, <4>1, OnlyRunAdvances
      <4>5. procs'[b].req.workdir = v /\ <<b, procs'[b].runs>> = Run(b) /\ Run(b) \in Runs
        BY <4>1, Running DEF Req, Run, v
      <4>6. CASE procs[b].next = 3
        <5>1. work' = [work EXCEPT ![v] = Base(b)]
          BY <1>2, <4>4, <4>6, ActMakes DEF v
        <5>2. PICK o \in made'[Run(b)] : o.base = Base(b) /\ o.dir = v
          BY <1>2, <4>4, <4>6, ActMakes DEF v
        <5>3. work'[v] = Base(b) /\ Base(b).n \in Nat
          BY <2>1, <2>2, <2>3, <4>1, <5>1
        <5>4. Own(made'[Run(b)], Run(b), work'[v], v)
          BY <2>1, <5>2, <5>3 DEF Own
        <5> QED
          BY <3>1, <4>5, <5>4
      <4>7. CASE procs[b].next > 3
        <5>1. work' = work
          BY <2>4, <4>2, <4>7
        <5>2. Own(made[Run(b)], Run(b), work[v], v)
          BY <4>1, <4>7 DEF OwnInv, Req, v
        <5>3. Own(made'[Run(b)], Run(b), work'[v], v)
          BY <2>3, <4>5, <5>1, <5>2, OwnGrows
        <5> QED
          BY <3>1, <4>5, <5>3
      <4> QED
        BY <4>3, <4>6, <4>7
    <3>2. CASE c # b
      <4>1. procs'[c] = procs[c]
        BY <1>2, <3>2, OthersStay
      <4> DEFINE w == procs[c].req.workdir
      <4>2. Own(made[Run(c)], Run(c), work[w], w)
        BY <2>7, <4>1 DEF OwnInv
      <4>3. w \in Workdirs /\ Run(c) \in Runs /\ work[w].n \in Nat
        BY <2>7, <4>1, Running DEF Req, OwnInv
      <4>4. work'[w] = work[w] \/ work'[w].n = work[w].n + 1
        BY <2>1, <2>3, <2>4, <4>3
      <4> HIDE DEF w
      <4>5. Own(made'[Run(c)], Run(c), work'[w], w)
        <5>1. made[Run(c)] \subseteq made'[Run(c)]
          BY <2>3, <4>3
        <5>2. CASE work'[w] = work[w]
          BY <4>2, <5>1, <5>2, OwnGrows
        <5>3. CASE work'[w].n = work[w].n + 1
          BY <4>2, <4>3, <5>1, <5>3, OwnGrows
        <5> QED
          BY <4>4, <5>2, <5>3
      <4> QED
        BY <4>1, <4>5 DEF Run, w
    <3> QED
      BY <3>1, <3>2
  <2> QED
    BY <2>5, <2>6, <2>7 DEF OwnInv, Run
<1> QED
  BY <1>1, <1>2, NextKinds

(* No image of an admitted run is of a base build older than the run's own *)
(* (cmd_build), for any processes, shared or private work directories and  *)
(* numbers of runs, however they fail, are killed and follow one another.  *)
THEOREM ImagesAreFresh == Spec => []FreshImages
<1>1. BuildInv /\ OwnInv => FreshImages
  BY DEF BuildInv, FiledOK, Over, OwnInv, Own, FreshImages, Admitted
<1> QED
  BY <1>1, BuildInit, BuildNext, OwnInit, OwnNext, PTL DEF Spec
=============================================================================
