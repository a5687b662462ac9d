------------------------- MODULE EgressAnswerProofs -------------------------
(***************************************************************************)
(* What the answers of the egress gate and the order of its steps tell,    *)
(* proved for every set of keys, networks, ports, processes and requests.  *)
(* EgressGateProofs has the types, the store and the kernel sets.          *)
(***************************************************************************)
EXTENDS EgressGateProofs

\* The steps a request goes through, by its kind (egress.py: the body of each
\* gate method, apply included where install or prune ends with it).
ApplySteps  == {"baseline", "compute", "apply_sets", "script", "audit_apply"}
VerifySteps == {"baseline", "compute", "verify_sets", "list_addrs", "list_tcp",
                "list_udp", "audit_verify"}
StepsOf(c) ==
  CASE c.op = "install" -> InstallSteps \union (IF c.apply THEN ApplySteps ELSE {})
    [] c.op = "prune"   -> PruneSteps \union (IF c.apply THEN ApplySteps ELSE {})
    [] c.op = "apply"   -> ApplySteps
    [] c.op = "verify"  -> VerifySteps
    [] OTHER            -> {c.op}

\* A process is at a step of its own request, which is not answered yet.
PathInv ==
  \A p \in Procs : pc[p] # "idle" => pc[p] \in StepsOf(call[p]) /\ answer[p] = "none"

\* LEMMA: the kinds of requests.
LEMMA OpType ==
  ASSUME TypeOK, NEW p \in Procs
  PROVE  /\ call[p].op \in {"none", "install", "prune", "apply", "verify",
                            "snapshot", "health", "malformed"}
         /\ call[p].apply \in BOOLEAN
         /\ call[p].apply => call[p].op \in {"install", "prune"}
<1>1. call[p] \in Call \/ call[p] = NoCall
  BY DEF TypeOK, ProcTypeOK
<1>2. CASE call[p] = NoCall
  BY <1>2 DEF NoCall
<1>3. CASE call[p] \in [op : {"install"}, apply : BOOLEAN, grant : Request]
  BY <1>3
<1>4. CASE call[p] \in [op : {"prune"}, apply : BOOLEAN, grant : {NoGrant}]
  BY <1>4
<1>5. CASE call[p] \in [op : {"apply", "verify", "snapshot", "health", "malformed"},
                        apply : {FALSE}, grant : {NoGrant}]
  BY <1>5
<1>. QED  BY <1>1, <1>2, <1>3, <1>4, <1>5 DEF Call

\* LEMMA: which of a request's steps its kind can be told from.
LEMMA StepTells ==
  ASSUME TypeOK, NEW p \in Procs, pc[p] \in StepsOf(call[p])
  PROVE  /\ pc[p] \in {"apply_sets", "script", "audit_apply"} =>
              call[p].apply \/ call[p].op = "apply"
         /\ pc[p] \in VerifySteps \ ApplySteps => call[p].op = "verify"
         /\ pc[p] \in {"baseline", "compute"} =>
              call[p].apply \/ call[p].op \in {"apply", "verify"}
         /\ pc[p] \in {"health", "snapshot", "malformed"} => call[p].op = pc[p]
BY OpType DEF StepsOf, ApplySteps, VerifySteps, InstallSteps, PruneSteps

\* LEMMA: a request goes from step to step along its own path (egress.py).
LEMMA PathStep ==
  ASSUME IType, PathInv, [Next]_vars
  PROVE  PathInv'
<1>. USE DEF IType, TypeOK, ProcTypeOK
<1>. DEFINE Path(p) == pc'[p] # "idle" =>
                         pc'[p] \in StepsOf(call'[p]) /\ answer'[p] = "none"
<1>0. ASSUME NEW p \in Procs, Step(p) \/ Fault(p) PROVE Path(p)
  <2>0. pc[p] # "idle"
    BY <1>0 DEF Step, Fault, ReadOnly, Refuse, CheckExpiry, Insert, InsertRefused,
       AuditInstall, CountExpired, Delete, AuditPrune, RequireBaseline,
       ComputeSets, CheckApply, RunScript, AuditApply, CheckVerify, ListAddrs,
       ListTcp, ListUdp, AuditVerify, StoreFails, AuditFails, NftMissing, Crash
  <2>00. pc[p] \in StepsOf(call[p]) /\ answer[p] = "none"
    BY <2>0 DEF PathInv
  <2>1. ASSUME NEW code, Reply(p, code) PROVE Path(p)
    BY <2>1 DEF Reply
  <2>2. ASSUME NEW l \in StepsOf(call[p]), NEW x, Continue(p, l, x) PROVE Path(p)
    BY <2>2, <2>00 DEF Continue
  <2>. HIDE DEF Path
  <2>. USE OpType DEF StepsOf, ApplySteps, VerifySteps, InstallSteps, PruneSteps
  <2>3. CASE CheckExpiry(p) \/ Insert(p)
    <3>1. "insert" \in StepsOf(call[p]) /\ "audit_install" \in StepsOf(call[p])
      BY <2>3 DEF CheckExpiry, Insert
    <3>. QED  BY <2>1, <2>2, <2>3, <3>1 DEF CheckExpiry, Insert
  <2>4. CASE CountExpired(p) \/ Delete(p)
    <3>1. "delete" \in StepsOf(call[p]) /\ "audit_prune" \in StepsOf(call[p])
      BY <2>4 DEF CountExpired, Delete
    <3>. QED  BY <2>1, <2>2, <2>4, <3>1 DEF CountExpired, Delete
  <2>5. CASE AuditInstall(p) \/ AuditPrune(p)
    <3>1. call[p].apply => "baseline" \in StepsOf(call[p])
      BY <2>5
    <3>. QED  BY <2>1, <2>2, <2>5, <3>1 DEF AuditInstall, AuditPrune, ApplyOrReturn
  <2>6. CASE RequireBaseline(p)
    <3>1. "compute" \in StepsOf(call[p])
      BY <2>00, <2>6 DEF RequireBaseline
    <3>. QED  BY <2>1, <2>2, <2>6, <3>1 DEF RequireBaseline
  <2>7. CASE ComputeSets(p)
    <3>1. (IF call[p].op = "verify" THEN "verify_sets" ELSE "apply_sets")
             \in StepsOf(call[p])
      BY <2>00, <2>7 DEF ComputeSets
    <3>. QED  BY <2>2, <2>7, <3>1 DEF ComputeSets
  <2>8. CASE CheckApply(p) \/ RunScript(p)
    <3>1. "script" \in StepsOf(call[p]) /\ "audit_apply" \in StepsOf(call[p])
      BY <2>00, <2>8 DEF CheckApply, RunScript
    <3>2. \/ \E code : Reply(p, code)
          \/ \E l \in {"script", "audit_apply"} : Continue(p, l, loc[p])
      BY <2>8 DEF CheckApply, RunScript
    <3>. QED  BY <2>1, <2>2, <3>1, <3>2
  <2>9. CASE CheckVerify(p) \/ ListAddrs(p) \/ ListTcp(p) \/ ListUdp(p)
    <3>1. {"list_addrs", "list_tcp", "list_udp", "audit_verify"}
             \subseteq StepsOf(call[p])
      BY <2>00, <2>9 DEF CheckVerify, ListAddrs, ListTcp, ListUdp
    <3>. QED  BY <2>1, <2>2, <2>9, <3>1
              DEF CheckVerify, ListAddrs, ListTcp, ListUdp
  <2>10. CASE \/ ReadOnly(p) \/ Refuse(p) \/ InsertRefused(p) \/ AuditApply(p)
              \/ AuditVerify(p) \/ Fault(p)
    BY <2>1, <2>10 DEF ReadOnly, Refuse, InsertRefused, AuditApply, AuditVerify,
                       Fault, StoreFails, AuditFails, NftMissing, Crash
  <2>. QED  BY <1>0, <2>3, <2>4, <2>5, <2>6, <2>7, <2>8, <2>9, <2>10 DEF Step
<1>1. ASSUME NEW p \in Procs, Begin(p) PROVE Path(p)
  <2>1. PICK c \in CallsOf[p] : /\ call' = [call EXCEPT ![p] = c]
                                /\ pc' = [pc EXCEPT ![p] = FirstStep(c.op)]
    BY <1>1 DEF Begin
  <2>2. c \in Call
    BY <2>1, GateAssumption
  <2>3. FirstStep(c.op) \in StepsOf(c)
    BY <2>2 DEF Call, FirstStep, StepsOf, ApplySteps, VerifySteps, InstallSteps,
                PruneSteps
  <2>. QED  BY <1>1, <2>1, <2>3 DEF Begin
<1>2. ASSUME NEW q \in Procs, Begin(q) \/ Step(q) \/ Fault(q), NEW p \in Procs
      PROVE  Path(p)
  <2>1. CASE p = q
    BY <1>0, <1>1, <1>2, <2>1
  <2>2. CASE p # q
    BY <1>2, <2>2, OthersKeep DEF PathInv
  <2>. QED  BY <2>1, <2>2
<1>3. CASE RulesetChange \/ Tick \/ StepBack \/ UNCHANGED vars
  BY <1>3 DEF RulesetChange, Tick, StepBack, vars, procVars, PathInv
<1>4. \A p \in Procs : Path(p)
  BY <1>2, <1>3 DEF Next, PathInv
<1>. QED  BY <1>4 DEF PathInv

\* LEMMA: nothing is under way at the start.
LEMMA PathInit == Init => PathInv
BY DEF Init, PathInv

-----------------------------------------------------------------------------
\* The strengthening of AnswerTellsStore: an install that has reached its apply
\* stage asked for one, and its grant is committed and recorded already.
Installed(p) == Mine(p) \in AcceptedRows /\ InstallRecord(Mine(p)) \in audit
AnswerInv ==
  /\ AnswerTellsStore
  /\ \A p \in Procs : (call[p].op = "install" /\ pc[p] \in ApplySteps) => Installed(p)

\* LEMMA: the history, the replay table, the audit log and the latest time
\* shown only grow.
LEMMA Growth ==
  ASSUME IType, CutoffInv, [Next]_vars
  PROVE  /\ AcceptedRows \subseteq AcceptedRows'
         /\ replay \subseteq replay'
         /\ audit \subseteq audit'
         /\ peak <= peak'
<1>1. now \in Nat /\ peak \in Nat
  BY DEF IType, TypeOK, StoreTypeOK
<1>2. replay \subseteq replay' /\ peak <= peak'
  BY <1>1, StoreSteps DEF storeVars, Insert, CommitGrant, Delete, DeleteExpired,
                          Tick, ClockTick, StepBack, ClockBack
<1>3. audit \subseteq audit'
  BY AuditSteps DEF AuditInstall, AuditPrune, AuditApply, AuditVerify, Append2Audit
<1>. QED  BY <1>2, <1>3, AcceptedGrow

\* What a step of an install makes of its answer: it says what was found in the
\* store, or that the grant is recorded, or nothing.
Told(p) ==
  /\ call'[p] = call[p]
  /\ answer'[p] \in {"ok", "baseline_missing", "nft", "gate"} =>
       Mine(p) \in AcceptedRows' /\ InstallRecord(Mine(p)) \in audit'
  /\ answer'[p] \in {"baseline_missing", "nft", "gate"} => call[p].apply
  /\ answer'[p] = "replay" => Mine(p).key \in replay
  /\ answer'[p] = "expired" => Expired(Mine(p), peak)
  /\ pc'[p] \in ApplySteps =>
       Mine(p) \in AcceptedRows' /\ InstallRecord(Mine(p)) \in audit'

\* LEMMA: how an install is answered, step by step: with what it found in the
\* store, once it had recorded its grant, or with an error that says nothing
\* (egress.py, install_grant; protocol.py, map_error).
LEMMA InstallOutcome ==
  ASSUME IType, PathInv, ViewInv, CutoffInv, AnswerInv, NEW p \in Procs,
         Step(p) \/ Fault(p), call[p].op = "install"
  PROVE  Told(p)
<1>. USE DEF IType, TypeOK, ProcTypeOK
<1>. USE DEF Told
<1>0. [Next]_vars
  BY DEF Next
<1>1. /\ AcceptedRows \subseteq AcceptedRows' /\ audit \subseteq audit'
  BY <1>0, Growth
<1>2. pc[p] # "idle"
  BY DEF Step, Fault, ReadOnly, Refuse, CheckExpiry, Insert, InsertRefused,
     AuditInstall, CountExpired, Delete, AuditPrune, RequireBaseline,
     ComputeSets, CheckApply, RunScript, AuditApply, CheckVerify, ListAddrs,
     ListTcp, ListUdp, AuditVerify, StoreFails, AuditFails, NftMissing, Crash
<1>3. pc[p] \in InstallSteps \union (IF call[p].apply THEN ApplySteps ELSE {})
        /\ answer[p] = "none"
  BY <1>2 DEF PathInv, StepsOf
<1>4. pc[p] \in ApplySteps => Mine(p) \in AcceptedRows' /\ InstallRecord(Mine(p)) \in audit'
  BY <1>1 DEF AnswerInv, Installed
<1>5. "idle" \notin ApplySteps /\ ApplySteps \cap InstallSteps = {}
  BY DEF ApplySteps, InstallSteps
<1>6. ASSUME NEW code \in {"internal", "lost"}, Reply(p, code) PROVE Told(p)
  BY <1>5, <1>6 DEF Reply
<1>7. ASSUME NEW code \in {"ok", "baseline_missing", "nft", "gate"}, Reply(p, code),
             pc[p] \in ApplySteps
      PROVE  Told(p)
  BY <1>3, <1>4, <1>5, <1>7 DEF Reply
<1>8. ASSUME NEW l \in ApplySteps, NEW x, Continue(p, l, x), pc[p] \in ApplySteps
      PROVE  Told(p)
  BY <1>3, <1>4, <1>8 DEF Continue
<1>9. ASSUME NEW l \in InstallSteps, NEW x, Continue(p, l, x) PROVE Told(p)
  BY <1>3, <1>5, <1>9 DEF Continue
<1>10. CASE CheckExpiry(p)
  <2>1. CASE Expired(Mine(p), now) /\ Reply(p, "expired")
    <3>1. now \in Nat /\ peak \in Nat /\ now <= peak
      BY DEF StoreTypeOK, CutoffInv
    <3>2. Mine(p).exp \in Nat
      BY MineType DEF Row
    <3>3. Expired(Mine(p), peak)
      BY <2>1, <3>1, <3>2 DEF Expired
    <3>. QED  BY <1>5, <2>1, <3>3 DEF Reply
  <2>. HIDE DEF Told
  <2>2. CASE Continue(p, "insert", NoLocals)
    BY <1>9, <2>2 DEF InstallSteps
  <2>. QED  BY <1>10, <2>1, <2>2 DEF CheckExpiry
<1>11. CASE Insert(p)
  <2>. HIDE DEF Told
  <2>. QED  BY <1>9, <1>11 DEF Insert, InstallSteps
<1>12. CASE InsertRefused(p)
  BY <1>5, <1>12 DEF InsertRefused, Reply
<1>13. CASE AuditInstall(p)
  <2>1. Mine(p) \in AcceptedRows' /\ InstallRecord(Mine(p)) \in audit'
    BY <1>1, <1>13 DEF AuditInstall, Append2Audit, ViewInv
  <2>2. CASE Reply(p, "ok")
    BY <1>5, <2>1, <2>2 DEF Reply
  <2>3. CASE Continue(p, "baseline", NoLocals)
    BY <1>3, <2>1, <2>3 DEF Continue
  <2>. QED  BY <1>13, <2>2, <2>3 DEF AuditInstall, ApplyOrReturn
<1>. HIDE DEF Told
<1>14. CASE RequireBaseline(p)
  BY <1>7, <1>8, <1>14 DEF RequireBaseline, ApplySteps
<1>15. CASE ComputeSets(p)
  BY <1>8, <1>15 DEF ComputeSets, ApplySteps
<1>16. CASE CheckApply(p)
  <2>1. Reply(p, "gate") \/ Reply(p, "baseline_missing")
          \/ Continue(p, "script", loc[p])
    BY <1>16 DEF CheckApply
  <2>. QED  BY <1>7, <1>8, <1>16, <2>1 DEF CheckApply, ApplySteps
<1>17. CASE RunScript(p)
  BY <1>7, <1>8, <1>17 DEF RunScript, ApplySteps
<1>18. CASE AuditApply(p)
  BY <1>7, <1>18 DEF AuditApply, ApplySteps
<1>19. CASE Fault(p)
  BY <1>6, <1>19 DEF Fault, StoreFails, AuditFails, NftMissing, Crash
<1>20. CASE \/ ReadOnly(p) \/ Refuse(p) \/ CountExpired(p) \/ Delete(p) \/ AuditPrune(p)
            \/ CheckVerify(p) \/ ListAddrs(p) \/ ListTcp(p) \/ ListUdp(p)
            \/ AuditVerify(p)
  <2>1. pc[p] \notin InstallSteps \union ApplySteps
    BY <1>20 DEF InstallSteps, ApplySteps, ReadOnly, Refuse, CountExpired, Delete,
       AuditPrune, CheckVerify, ListAddrs, ListTcp, ListUdp, AuditVerify
  <2>. QED  BY <1>3, <2>1
<1>. QED  BY <1>10, <1>11, <1>12, <1>13, <1>14, <1>15, <1>16, <1>17, <1>18, <1>19,
             <1>20 DEF Step

\* LEMMA: the answer invariant is inductive.
LEMMA AnswerStep ==
  ASSUME IType, PathInv, ViewInv, CutoffInv, AnswerInv, [Next]_vars
  PROVE  AnswerInv'
<1>. USE DEF IType, TypeOK, ProcTypeOK
<1>. DEFINE Row1(p) == RowOf(call'[p].grant)
            Good(p) == call'[p].op = "install" =>
              /\ answer'[p] \in {"ok", "baseline_missing", "nft", "gate"} =>
                   Row1(p) \in AcceptedRows' /\ InstallRecord(Row1(p)) \in audit'
              /\ answer'[p] \in {"baseline_missing", "nft", "gate"} => call'[p].apply
              /\ answer'[p] = "replay" => Row1(p).key \in replay'
              /\ answer'[p] = "expired" => Expired(Row1(p), peak')
              /\ pc'[p] \in ApplySteps =>
                   Row1(p) \in AcceptedRows' /\ InstallRecord(Row1(p)) \in audit'
<1>1. /\ AcceptedRows \subseteq AcceptedRows' /\ audit \subseteq audit'
      /\ replay \subseteq replay' /\ peak <= peak'
  BY Growth
<1>2. ASSUME NEW p \in Procs, call[p].op = "install", Expired(Mine(p), peak)
      PROVE  Expired(Mine(p), peak')
  <2>1. Mine(p).exp \in Nat /\ peak \in Nat /\ peak' \in Nat
    BY <1>2, MineType, TypeStep DEF Row, StoreTypeOK
  <2>. QED  BY <1>1, <1>2, <2>1 DEF Expired
<1>3. ASSUME NEW p \in Procs, UNCHANGED <<pc[p], call[p], answer[p]>>
      PROVE  Good(p)
  <2>. SUFFICES ASSUME call[p].op = "install" PROVE Good(p)
    BY <1>3
  <2>1. Row1(p) = Mine(p)
    BY <1>3 DEF Mine
  <2>. QED  BY <1>1, <1>2, <1>3, <2>1 DEF AnswerInv, AnswerTellsStore, Installed
<1>4. ASSUME NEW p \in Procs, Step(p) \/ Fault(p) PROVE Good(p)
  <2>1. call' = call
    BY <1>4 DEF Step, Fault, ReadOnly, Refuse, CheckExpiry, Insert, InsertRefused,
       AuditInstall, CountExpired, Delete, AuditPrune, RequireBaseline,
       ComputeSets, CheckApply, RunScript, AuditApply, CheckVerify, ListAddrs,
       ListTcp, ListUdp, AuditVerify, StoreFails, AuditFails, NftMissing, Crash, Reply,
       Continue, ApplyOrReturn
  <2>. SUFFICES ASSUME call[p].op = "install" PROVE Good(p)
    BY <2>1
  <2>2. Row1(p) = Mine(p)
    BY <2>1 DEF Mine
  <2>. QED  BY <1>1, <1>2, <1>4, <2>1, <2>2, InstallOutcome DEF Told
<1>5. ASSUME NEW p \in Procs, Begin(p) PROVE Good(p)
  <2>1. answer'[p] = "none"
    BY <1>5 DEF Begin
  <2>2. pc'[p] \in ApplySteps => call'[p].op # "install"
    BY <1>5 DEF Begin, FirstStep, ApplySteps
  <2>. QED  BY <2>1, <2>2
<1>. HIDE DEF Good
<1>6. ASSUME NEW q \in Procs, Begin(q) \/ Step(q) \/ Fault(q), NEW p \in Procs
      PROVE  Good(p)
  BY <1>3, <1>4, <1>5, <1>6, OthersKeep
<1>7. ASSUME RulesetChange \/ Tick \/ StepBack \/ UNCHANGED vars, NEW p \in Procs
      PROVE  Good(p)
  BY <1>3, <1>7 DEF RulesetChange, Tick, StepBack, vars, procVars
<1>8. \A p \in Procs : Good(p)
  BY <1>6, <1>7 DEF Next
<1>. QED  BY <1>8 DEF Good, AnswerInv, AnswerTellsStore, Installed, Mine

\* Everything that holds of the gate whatever it is asked and whatever fails.
GateInv == IType /\ StoreInv /\ ViewInv /\ CutoffInv /\ PathInv

\* LEMMA: it holds at the start.
LEMMA GateInit == Init => GateInv
<1>1. Init => CutoffInv
  BY DEF Init, StoreInit, CutoffInv, NoLocals
<1>. QED  BY <1>1, TypeInit, StoreInvInit, ViewInvInit, PathInit DEF GateInv

\* LEMMA: and is inductive.
LEMMA GateStep == GateInv /\ [Next]_vars => GateInv'
BY TypeStep, StoreInvStep, ViewInvStep, CutoffStep, PathStep DEF GateInv

\* THEOREM: an answer to an install that says the grant is committed, or that
\* its key is taken or its time over, tells the truth about the store for as
\* long as it stands (protocol.py, map_error; egress.py, install_grant).
THEOREM AnswersAreTrue == Spec => []AnswerTellsStore
<1>1. Init => GateInv /\ AnswerInv
  BY GateInit DEF Init, AnswerInv, AnswerTellsStore, NoCall
<1>2. GateInv /\ AnswerInv /\ [Next]_vars => GateInv' /\ AnswerInv'
  BY GateStep, AnswerStep DEF GateInv
<1>3. AnswerInv => AnswerTellsStore
  BY DEF AnswerInv
<1>. QED  BY <1>1, <1>2, <1>3, PTL DEF Spec

-----------------------------------------------------------------------------
\* No record is lost: no process dies between an effect and its record, and the
\* log can be written.
LogKept == Faults \cap {"crash", "audit_io"} = {}

\* LEMMA: then a process that owes a record writes it before anything else.
LEMMA OwedIsWritten ==
  ASSUME LogKept, IType, [Next]_vars, NEW p \in Procs,
         pc[p] \in {"audit_install", "audit_apply"}
  PROVE  \/ pc'[p] = pc[p] /\ call'[p] = call[p] /\ loc'[p] = loc[p]
         \/ pc[p] = "audit_install" /\ AuditInstall(p)
         \/ pc[p] = "audit_apply" /\ AuditApply(p)
<1>1. ~Fault(p) /\ ~Begin(p)
  BY DEF LogKept, Fault, StoreFails, AuditFails, NftMissing, Crash, Begin
<1>2. Step(p) => AuditInstall(p) \/ AuditApply(p)
  BY DEF Step, ReadOnly, Refuse, CheckExpiry, Insert, InsertRefused, CountExpired,
     Delete, AuditPrune, RequireBaseline, ComputeSets, CheckApply, RunScript,
     CheckVerify, ListAddrs, ListTcp, ListUdp, AuditVerify
<1>3. AuditInstall(p) => pc[p] = "audit_install"
  BY DEF AuditInstall
<1>4. AuditApply(p) => pc[p] = "audit_apply"
  BY DEF AuditApply
<1>5. ASSUME NEW q \in Procs, q # p, Begin(q) \/ Step(q) \/ Fault(q)
      PROVE  pc'[p] = pc[p] /\ call'[p] = call[p] /\ loc'[p] = loc[p]
  BY <1>5, OthersKeep
<1>6. CASE RulesetChange \/ Tick \/ StepBack \/ UNCHANGED vars
  BY <1>6 DEF RulesetChange, Tick, StepBack, vars, procVars
<1>. QED  BY <1>1, <1>2, <1>3, <1>4, <1>5, <1>6 DEF Next

\* The two halves of AuditComplete.
Owed(g) == \/ InstallRecord(g) \in audit
           \/ \E p \in Procs : pc[p] = "audit_install" /\ Mine(p) = g
KernelAudited ==
  \/ kernel = NoSets
  \/ \E r \in audit : r.action = "apply" /\ kernel = Elements(r.sets)
  \/ \E p \in Procs : pc[p] = "audit_apply" /\ kernel = Elements(loc[p].view)

\* LEMMA: every commit is recorded, or owed by the process that made it.
LEMMA InstallsAudited ==
  ASSUME LogKept, GateInv, [Next]_vars, \A g \in AcceptedRows : Owed(g)
  PROVE  \A g \in AcceptedRows' : Owed(g)'
<1>. USE DEF GateInv
<1>1. audit \subseteq audit'
  BY Growth
<1>2. ASSUME NEW g \in AcceptedRows PROVE Owed(g)'
  <2>1. CASE InstallRecord(g) \in audit
    BY <1>1, <2>1 DEF Owed, InstallRecord
  <2>2. ASSUME NEW p \in Procs, pc[p] = "audit_install", Mine(p) = g
        PROVE  Owed(g)'
    <3>1. CASE AuditInstall(p)
      BY <2>2, <3>1 DEF AuditInstall, Append2Audit, Owed, InstallRecord
    <3>2. CASE pc'[p] = pc[p] /\ call'[p] = call[p]
      BY <2>2, <3>2 DEF Owed, Mine
    <3>. QED  BY <2>2, <3>1, <3>2, OwedIsWritten
  <2>. QED  BY <1>2, <2>1, <2>2 DEF Owed
<1>3. ASSUME NEW p \in Procs, Insert(p) PROVE Owed(Mine(p))'
  <2>1. pc'[p] = "audit_install" /\ call' = call
    BY <1>3 DEF Insert, Continue, IType, TypeOK, ProcTypeOK
  <2>. QED  BY <2>1 DEF Owed, Mine
<1>4. ASSUME NEW p \in Procs, Insert(p), NEW g \in AcceptedRows' PROVE Owed(g)'
  <2>1. g \in AcceptedRows \/ g = Mine(p)
    BY <1>4, InsertAccepts
  <2>2. call' = call
    BY <1>4 DEF Insert, Continue
  <2>3. g = Mine(p) => Owed(g)'
    BY <1>3, <1>4, <2>2 DEF Owed, Mine, InstallRecord
  <2>. QED  BY <1>2, <2>1, <2>3
<1>5. CASE UNCHANGED accepted
  <2>1. AcceptedRows' = AcceptedRows
    BY <1>5 DEF AcceptedRows
  <2>. QED  BY <1>2, <2>1
<1>. QED  BY <1>4, <1>5, StoreSteps DEF storeVars, Delete, DeleteExpired, Tick,
                                        ClockTick, StepBack, ClockBack

\* LEMMA: and so is what the kernel sets hold.
LEMMA KernelIsAudited ==
  ASSUME LogKept, GateInv, [Next]_vars, KernelAudited
  PROVE  KernelAudited'
<1>. USE DEF GateInv
<1>1. audit \subseteq audit'
  BY Growth
<1>2. CASE UNCHANGED kernel
  <2>1. CASE \E r \in audit : r.action = "apply" /\ kernel = Elements(r.sets)
    BY <1>1, <1>2, <2>1 DEF KernelAudited
  <2>2. ASSUME NEW p \in Procs, pc[p] = "audit_apply", kernel = Elements(loc[p].view)
        PROVE  KernelAudited'
    <3>1. CASE AuditApply(p)
      <4>1. ApplyRecord(loc[p].view) \in audit'
        BY <3>1 DEF AuditApply, Append2Audit
      <4>. QED  BY <1>2, <2>2, <4>1 DEF KernelAudited, ApplyRecord
    <3>2. CASE pc'[p] = pc[p] /\ loc'[p] = loc[p]
      BY <1>2, <2>2, <3>2 DEF KernelAudited
    <3>. QED  BY <2>2, <3>1, <3>2, OwedIsWritten
  <2>. QED  BY <1>2, <2>1, <2>2 DEF KernelAudited
<1>3. ASSUME NEW p \in Procs, RunScript(p), ~UNCHANGED kernel PROVE KernelAudited'
  <2>1. RunNft(Script(loc[p].view)) /\ Continue(p, "audit_apply", loc[p])
    BY <1>3 DEF RunScript
  <2>2. loc[p].view \in AllowSets
    BY DEF IType, TypeOK, ProcTypeOK, Locals
  <2>3. kernel' = Elements(loc[p].view)
    BY <2>1, <2>2, ScriptReplaces DEF IType, TypeOK
  <2>4. pc'[p] = "audit_apply" /\ loc'[p] = loc[p]
    BY <2>1 DEF Continue, IType, TypeOK, ProcTypeOK
  <2>. QED  BY <2>3, <2>4 DEF KernelAudited
<1>4. CASE RulesetChange
  BY <1>4 DEF RulesetChange, LoadBaseline, FlushRuleset, KernelAudited
<1>. QED  BY <1>2, <1>3, <1>4, NftSteps DEF nftVars

\* THEOREM: where no process dies and the log can be written, every committed
\* grant and whatever the kernel sets hold is in the audit log, or about to be
\* written to it by the process that did it; the store and the ruleset may
\* fail and the clock may step back (egress.py, install_grant and apply).
THEOREM AuditMissesNothing ==
  ASSUME LogKept
  PROVE  Spec => []AuditComplete
<1>. DEFINE Inv == (\A g \in AcceptedRows : Owed(g)) /\ KernelAudited
<1>1. Init => GateInv /\ Inv
  BY GateInit DEF Init, StoreInit, NftInit, AcceptedRows, KernelAudited
<1>2. GateInv /\ Inv /\ [Next]_vars => GateInv' /\ Inv'
  BY LogKept, GateStep, InstallsAudited, KernelIsAudited
<1>3. Inv => AuditComplete
  BY DEF AuditComplete, Owed, KernelAudited
<1>. HIDE DEF Inv
<1>. QED  BY <1>1, <1>2, <1>3, PTL DEF Spec

-----------------------------------------------------------------------------
\* One process, and no other, may apply, and it alone installs and verifies;
\* nobody else changes the ruleset.  Others may prune, read and try to apply.
OneWriter(w) ==
  /\ w \in Procs /\ Root \subseteq {w}
  /\ "ruleset" \notin Faults
  /\ \A p \in Procs \ {w} : \A c \in CallsOf[p] : c.op \notin {"install", "verify"}

\* Only root gets as far as the script (nft.py, apply_sets: require_root).
RootInv == \A p \in Procs : pc[p] \in {"script", "audit_apply"} => p \in Root

\* LEMMA: the root check comes before the script.
LEMMA RootStep ==
  ASSUME IType, RootInv, [Next]_vars
  PROVE  RootInv'
<1>. USE DEF IType, TypeOK, ProcTypeOK
<1>1. ASSUME NEW q \in Procs, NEW code, Reply(q, code) PROVE RootInv'
  BY <1>1 DEF Reply, RootInv
<1>2. ASSUME NEW q \in Procs, NEW l, l \notin {"script", "audit_apply"}, NEW x,
             Continue(q, l, x)
      PROVE  RootInv'
  BY <1>2 DEF Continue, RootInv
<1>3. ASSUME NEW q \in Procs, Begin(q) PROVE RootInv'
  <2>1. PICK c \in CallsOf[q] : pc' = [pc EXCEPT ![q] = FirstStep(c.op)]
    BY <1>3 DEF Begin
  <2>2. c \in Call
    BY <2>1, GateAssumption
  <2>3. FirstStep(c.op) \notin {"script", "audit_apply"}
    BY <2>2 DEF Call, FirstStep
  <2>. QED  BY <2>1, <2>3 DEF RootInv
<1>4. ASSUME NEW q \in Procs, CheckApply(q) PROVE RootInv'
  <2>1. \/ \E code : Reply(q, code)
        \/ q \in Root /\ Continue(q, "script", loc[q])
    BY <1>4 DEF CheckApply
  <2>2. CASE q \in Root /\ Continue(q, "script", loc[q])
    BY <2>2 DEF Continue, RootInv
  <2>. QED  BY <1>1, <2>1, <2>2
<1>5. ASSUME NEW q \in Procs, RunScript(q) PROVE RootInv'
  <2>1. Reply(q, "nft") \/ Continue(q, "audit_apply", loc[q])
    BY <1>5 DEF RunScript
  <2>2. CASE Continue(q, "audit_apply", loc[q])
    BY <1>5, <2>2 DEF RunScript, Continue, RootInv
  <2>. QED  BY <1>1, <2>1, <2>2
<1>6. ASSUME NEW q \in Procs, AuditInstall(q) \/ AuditPrune(q) PROVE RootInv'
  BY <1>1, <1>2, <1>6 DEF AuditInstall, AuditPrune, ApplyOrReturn
<1>7. ASSUME NEW q \in Procs,
             \/ CheckExpiry(q) \/ Insert(q) \/ CountExpired(q) \/ Delete(q)
             \/ RequireBaseline(q) \/ ComputeSets(q)
             \/ CheckVerify(q) \/ ListAddrs(q) \/ ListTcp(q) \/ ListUdp(q)
      PROVE  RootInv'
  BY <1>1, <1>2, <1>7 DEF CheckExpiry, Insert, CountExpired, Delete,
     RequireBaseline, ComputeSets, CheckVerify, ListAddrs, ListTcp, ListUdp
<1>8. ASSUME NEW q \in Procs,
             \/ ReadOnly(q) \/ Refuse(q) \/ InsertRefused(q) \/ AuditApply(q)
             \/ AuditVerify(q) \/ Fault(q)
      PROVE  RootInv'
  BY <1>1, <1>8 DEF ReadOnly, Refuse, InsertRefused, AuditApply, AuditVerify,
                    Fault, StoreFails, AuditFails, NftMissing, Crash
<1>9. CASE RulesetChange \/ Tick \/ StepBack \/ UNCHANGED vars
  BY <1>9 DEF RulesetChange, Tick, StepBack, vars, procVars, RootInv
<1>. QED  BY <1>3, <1>4, <1>5, <1>6, <1>7, <1>8, <1>9 DEF Next, Step

\* LEMMA: with one writer the kernel sets change with its scripts only.
LEMMA OneWriterScripts ==
  ASSUME NEW w, OneWriter(w), RootInv, [Next]_vars
  PROVE  UNCHANGED nftVars \/ RunScript(w)
<1>1. ~RulesetChange
  BY DEF RulesetChange, OneWriter
<1>2. ASSUME NEW p \in Procs, RunScript(p) PROVE p = w
  <2>1. p \in Root
    BY <1>2 DEF RunScript, RootInv
  <2>. QED  BY <2>1 DEF OneWriter
<1>. QED  BY <1>1, <1>2, NftSteps

\* LEMMA: and nobody else installs or verifies.
LEMMA OthersOnlyPrune ==
  ASSUME NEW w, OneWriter(w), IType, PathInv, NEW p \in Procs, p # w
  PROVE  /\ call[p].op \notin {"install", "verify"}
         /\ pc[p] \notin InstallSteps \union (VerifySteps \ ApplySteps)
<1>1. call[p].op \notin {"install", "verify"}
  BY DEF OneWriter, IType, TypeOK, ProcTypeOK, NoCall
<1>2. pc[p] # "idle" => pc[p] \notin VerifySteps \ ApplySteps
  BY <1>1, StepTells DEF PathInv, IType
<1>. QED  BY <1>1, <1>2 DEF IType, TypeOK, ProcTypeOK, VerifySteps

\* LEMMA: what a listing that agrees with the computed sets says of the kernel:
\* no prefix is in it, since its listing would not match, and hosts are listed
\* as they were added (nft.py, verify_sets).
LEMMA ListedTells ==
  ASSUME NEW rows \in SUBSET Row, NEW v \in AllowSets,
         LET k == Elements(SetsOf(rows)) IN
           [addrs |-> Listed(k.addrs), tcp |-> k.tcp, udp |-> k.udp] = v
  PROVE  Elements(SetsOf(rows)) = Elements(v)
<1>. DEFINE k == Elements(SetsOf(rows))
<1>0. k \in AllowSets
  BY SetsOfType
<1>1. \A t \in k.addrs : t.form # "host32" /\ t.form # "blank" /\ t \in Target
  <2>1. \A g \in rows : g.targets \subseteq Target
    BY DEF Row
  <2>2. \A t \in Target : Strip(t).form # "host32" /\ Strip(t) \in Target
    BY DEF Strip, Target, Forms
  <2>3. \A t \in SetsOf(rows).addrs : t.form # "host32" /\ t \in Target
    BY <2>1, <2>2 DEF SetsOf
  <2>4. k.addrs = {t \in SetsOf(rows).addrs : t.form # "blank"}
    BY SetsOfType DEF Elements, AllowSets
  <2>. QED  BY <2>3, <2>4
<1>2. Listed(k.addrs) = v.addrs /\ k.tcp = v.tcp /\ k.udp = v.udp
  OBVIOUS
<1>. HIDE DEF k
<1>3. \A t \in k.addrs : t.form # "prefix"
  <2>. SUFFICES ASSUME NEW t \in k.addrs, t.form = "prefix" PROVE FALSE
    OBVIOUS
  <2>1. [t EXCEPT !.form = "object"] \in v.addrs
    BY <1>2 DEF Listed
  <2>2. [t EXCEPT !.form = "object"].form = "object"
    BY <1>1 DEF Target
  <2>. QED  BY <2>1, <2>2 DEF AllowSets, Target, Forms
<1>4. Listed(k.addrs) = k.addrs
  BY <1>1, <1>3 DEF Listed, Strip
<1>5. v.addrs = {t \in v.addrs : t.form # "blank"}
  BY <1>1, <1>2, <1>4
<1>6. Elements(v) = v
  BY <1>5 DEF Elements, AllowSets
<1>7. k = v
  BY <1>0, <1>2, <1>4 DEF AllowSets
<1>. QED  BY <1>6, <1>7 DEF k

\* The strengthening of VerifiedIsTrue: what verify has listed so far is still
\* what the kernel holds.
VerifyInv(w) ==
  /\ pc[w] \in {"list_tcp", "list_udp"} =>
       loc[w].seen.addrs = Listed(kernel.addrs)
  /\ pc[w] = "list_udp" => loc[w].seen.tcp = kernel.tcp
  /\ pc[w] = "audit_verify" => kernel = Elements(loc[w].view)

\* LEMMA: the listing of the one writer stays true until it is compared.
LEMMA VerifyStep ==
  ASSUME NEW w, OneWriter(w), GateInv, RootInv, VerifyInv(w), [Next]_vars
  PROVE  VerifyInv(w)'
<1>. USE DEF GateInv, IType, TypeOK, ProcTypeOK, OneWriter
<1>. DEFINE Lists == {"list_tcp", "list_udp", "audit_verify"}
<1>1. ASSUME NEW code, Reply(w, code) PROVE VerifyInv(w)'
  BY <1>1 DEF Reply, VerifyInv
<1>2. ASSUME NEW l, l \notin Lists, NEW x, Continue(w, l, x) PROVE VerifyInv(w)'
  BY <1>2 DEF Continue, VerifyInv
<1>3. CASE Begin(w)
  <2>1. PICK c \in CallsOf[w] : pc' = [pc EXCEPT ![w] = FirstStep(c.op)]
    BY <1>3 DEF Begin
  <2>2. c \in Call
    BY <2>1, GateAssumption
  <2>3. FirstStep(c.op) \notin Lists
    BY <2>2 DEF Call, FirstStep
  <2>. QED  BY <2>1, <2>3 DEF VerifyInv
<1>4. CASE ListAddrs(w)
  <2>1. kernel' = kernel /\ loc[w] \in Locals
    BY <1>4 DEF ListAddrs, nftVars
  <2>2. CASE Continue(w, "list_tcp", [loc[w] EXCEPT !.seen.addrs = Listed(kernel.addrs)])
    <3>1. pc'[w] = "list_tcp" /\ loc'[w].seen.addrs = Listed(kernel.addrs)
      BY <2>1, <2>2 DEF Continue, Locals, ListedSets
    <3>. QED  BY <2>1, <3>1 DEF VerifyInv
  <2>. QED  BY <1>1, <1>4, <2>2 DEF ListAddrs
<1>5. CASE ListTcp(w)
  <2>1. kernel' = kernel /\ loc[w] \in Locals
    BY <1>5 DEF ListTcp, nftVars
  <2>2. CASE Continue(w, "list_udp", [loc[w] EXCEPT !.seen.tcp = kernel.tcp])
    <3>1. pc'[w] = "list_udp" /\ loc'[w].seen.tcp = kernel.tcp
            /\ loc'[w].seen.addrs = loc[w].seen.addrs
      BY <2>1, <2>2 DEF Continue, Locals, ListedSets
    <3>. QED  BY <1>5, <2>1, <3>1 DEF VerifyInv, ListTcp
  <2>. QED  BY <1>1, <1>5, <2>2 DEF ListTcp
<1>6. CASE ListUdp(w)
  <2>. DEFINE seen == [loc[w].seen EXCEPT !.udp = kernel.udp]
  <2>1. kernel' = kernel /\ loc[w] \in Locals
    BY <1>6 DEF ListUdp, nftVars
  <2>2. CASE seen = loc[w].view /\ Continue(w, "audit_verify", [loc[w] EXCEPT !.seen = seen])
    <3>1. pc'[w] = "audit_verify" /\ loc'[w].view = loc[w].view
      BY <2>1, <2>2 DEF Continue, Locals
    <3>2. loc[w].seen \in ListedSets /\ loc[w].view \in AllowSets
      BY <2>1 DEF Locals
    <3>3. loc[w].seen.addrs = Listed(kernel.addrs) /\ loc[w].seen.tcp = kernel.tcp
      BY <1>6 DEF ListUdp, VerifyInv
    <3>4. seen = [addrs |-> Listed(kernel.addrs), tcp |-> kernel.tcp, udp |-> kernel.udp]
      BY <3>2, <3>3 DEF ListedSets
    <3>5. PICK rows \in SUBSET UnexpiredRows(asOf) : kernel = Elements(SetsOf(rows))
      BY DEF ViewInv, KernelIsOneView
    <3>6. rows \in SUBSET Row
      BY <3>5 DEF UnexpiredRows, AcceptedRows, StoreTypeOK
    <3>7. kernel = Elements(loc[w].view)
      BY <2>2, <3>2, <3>4, <3>5, <3>6, ListedTells
    <3>. QED  BY <2>1, <3>1, <3>7 DEF VerifyInv
  <2>. QED  BY <1>1, <1>6, <2>2 DEF ListUdp
<1>7. CASE CheckApply(w) \/ RunScript(w)
  <2>1. \/ \E code : Reply(w, code)
        \/ \E l \in {"script", "audit_apply"} : Continue(w, l, loc[w])
    BY <1>7 DEF CheckApply, RunScript
  <2>. QED  BY <1>1, <1>2, <2>1
<1>8. CASE AuditInstall(w) \/ AuditPrune(w)
  BY <1>1, <1>2, <1>8 DEF AuditInstall, AuditPrune, ApplyOrReturn
<1>9. CASE \/ CheckExpiry(w) \/ Insert(w) \/ CountExpired(w) \/ Delete(w)
           \/ RequireBaseline(w) \/ ComputeSets(w) \/ CheckVerify(w)
  BY <1>1, <1>2, <1>9 DEF CheckExpiry, Insert, CountExpired, Delete,
     RequireBaseline, ComputeSets, CheckVerify
<1>10. CASE \/ ReadOnly(w) \/ Refuse(w) \/ InsertRefused(w) \/ AuditApply(w)
            \/ AuditVerify(w) \/ Fault(w)
  BY <1>1, <1>10 DEF ReadOnly, Refuse, InsertRefused, AuditApply, AuditVerify,
                     Fault, StoreFails, AuditFails, NftMissing, Crash
<1>11. ASSUME ~RunScript(w), pc'[w] = pc[w], loc'[w] = loc[w] PROVE VerifyInv(w)'
  <2>1. kernel' = kernel
    BY <1>11, OneWriterScripts DEF nftVars
  <2>. QED  BY <1>11, <2>1 DEF VerifyInv
<1>12. ASSUME NEW q \in Procs, q # w, Begin(q) \/ Step(q) \/ Fault(q), ~RunScript(w)
       PROVE  VerifyInv(w)'
  BY <1>11, <1>12, OthersKeep
<1>13. CASE ~RunScript(w) /\ (RulesetChange \/ Tick \/ StepBack \/ UNCHANGED vars)
  BY <1>11, <1>13 DEF RulesetChange, Tick, StepBack, vars, procVars
<1>. QED  BY <1>3, <1>4, <1>5, <1>6, <1>7, <1>8, <1>9, <1>10, <1>12, <1>13
          DEF Next, Step

\* THEOREM: with one writer, a verify that finds no difference is right: the
\* kernel holds the elements of the grants it computed, although it lists the
\* three sets one after another (nft.py, verify_sets).
THEOREM VerifyIsRight ==
  ASSUME NEW w, OneWriter(w)
  PROVE  Spec => []VerifiedIsTrue
<1>1. Init => GateInv /\ RootInv /\ VerifyInv(w)
  BY GateInit DEF Init, RootInv, VerifyInv, OneWriter
<1>2. GateInv /\ RootInv /\ VerifyInv(w) /\ [Next]_vars
        => GateInv' /\ RootInv' /\ VerifyInv(w)'
  BY GateStep, RootStep, VerifyStep DEF GateInv
<1>3. GateInv /\ VerifyInv(w) => VerifiedIsTrue
  BY OthersOnlyPrune DEF GateInv, VerifiedIsTrue, VerifyInv, VerifySteps, ApplySteps
<1>. QED  BY <1>1, <1>2, <1>3, PTL DEF Spec

-----------------------------------------------------------------------------
\* One triple of sets is within another.
Within(s, t) == s.addrs \subseteq t.addrs /\ s.tcp \subseteq t.tcp /\ s.udp \subseteq t.udp

\* LEMMA: more grants amount to larger sets (store.py, compute_active_sets).
LEMMA SetsGrow ==
  ASSUME NEW rows, NEW more, rows \subseteq more
  PROVE  Within(SetsOf(rows), SetsOf(more))
BY DEF Within, SetsOf

\* LEMMA: dropping the blanks keeps the order.
LEMMA ElementsGrow ==
  ASSUME NEW s \in AllowSets, NEW t \in AllowSets, Within(s, t)
  PROVE  Within(Elements(s), Elements(t))
BY DEF Within, Elements, AllowSets

\* LEMMA: while nobody installs and the clock does not step back, the active
\* grants only become fewer.
LEMMA ActiveShrink ==
  ASSUME IType, [Next]_vars, "clock" \notin Faults, \A p \in Procs : ~Insert(p)
  PROVE  /\ Within(ActiveSets', ActiveSets)
         /\ ActiveSets \in AllowSets /\ ActiveSets' \in AllowSets
<1>. DEFINE Left == {g \in grants' : ~Expired(g, now')}
<1>1. grants' \subseteq grants /\ now <= now' /\ now \in Nat /\ now' \in Nat
  BY StoreSteps DEF storeVars, Delete, DeleteExpired, Tick, ClockTick, StepBack,
     IType, TypeOK, StoreTypeOK
<1>2. Left \subseteq ActiveRows(now)
  <2>1. \A g \in grants : g.exp \in Nat
    BY DEF IType, TypeOK, StoreTypeOK, Row
  <2>. QED  BY <1>1, <2>1 DEF ActiveRows, Expired
<1>3. ActiveSets' = SetsOf(Left)
  BY DEF ActiveSets, ActiveRows
<1>4. ActiveRows(now) \in SUBSET Row
  BY DEF ActiveRows, IType, TypeOK, StoreTypeOK
<1>. QED  BY <1>2, <1>3, <1>4, SetsGrow, SetsOfType DEF ActiveSets

\* The strengthening of AppliedIsCurrent: already the sets on their way to the
\* kernel cover every grant that is active, and nobody but the writer has an
\* apply answered ok.
Applied(p) == call[p].apply \/ call[p].op = "apply"
AppliedInv(w) ==
  /\ pc[w] \in {"apply_sets", "script", "audit_apply"} => Within(ActiveSets, loc[w].view)
  /\ pc[w] = "audit_apply" => kernel = Elements(loc[w].view)
  /\ answer[w] = "ok" /\ Applied(w) => Within(Elements(ActiveSets), kernel)
  /\ \A p \in Procs \ {w} : answer[p] = "ok" => ~Applied(p)

\* LEMMA: who is answered ok, and for what.
LEMMA OkAnswers ==
  ASSUME GateInv, NEW p \in Procs, Begin(p) \/ Step(p) \/ Fault(p),
         answer'[p] = "ok", call'[p].apply \/ call'[p].op = "apply"
  PROVE  AuditApply(p)
<1>. USE DEF GateInv, IType, TypeOK, ProcTypeOK
<1>0. ~Begin(p)
  BY DEF Begin
<1>1. pc[p] # "idle" /\ call' = call
  BY <1>0 DEF Step, Fault, ReadOnly, Refuse, CheckExpiry, Insert, InsertRefused,
     AuditInstall, CountExpired, Delete, AuditPrune, RequireBaseline,
     ComputeSets, CheckApply, RunScript, AuditApply, CheckVerify, ListAddrs,
     ListTcp, ListUdp, AuditVerify, StoreFails, AuditFails, NftMissing, Crash, Reply,
     Continue, ApplyOrReturn
<1>2. pc[p] \in StepsOf(call[p]) /\ answer[p] = "none" /\ Applied(p)
  BY <1>1 DEF PathInv, Applied
<1>3. ~(\E l, x : Continue(p, l, x))
  BY <1>2 DEF Continue
<1>4. \A code : Reply(p, code) => code = "ok"
  BY DEF Reply
<1>5. ~ReadOnly(p) /\ ~AuditVerify(p)
  BY <1>2, StepTells, OpType DEF ReadOnly, AuditVerify, Applied, VerifySteps, ApplySteps
<1>6. ~AuditInstall(p) /\ ~AuditPrune(p)
  <2>1. AuditInstall(p) \/ AuditPrune(p) => call[p].apply
    BY <1>2 DEF AuditInstall, AuditPrune, InstallSteps, PruneSteps, Applied
  <2>. QED  BY <1>3, <2>1 DEF AuditInstall, AuditPrune, ApplyOrReturn
<1>7. ~Refuse(p) /\ ~InsertRefused(p) /\ ~Fault(p)
  BY <1>4 DEF Refuse, InsertRefused, Fault, StoreFails, AuditFails, NftMissing, Crash
<1>8. ~CheckExpiry(p) /\ ~Insert(p) /\ ~CountExpired(p) /\ ~Delete(p)
        /\ ~RequireBaseline(p) /\ ~ComputeSets(p)
  BY <1>3, <1>4 DEF CheckExpiry, Insert, CountExpired, Delete, RequireBaseline,
                    ComputeSets
<1>9. ~CheckApply(p)
  <2>1. CheckApply(p) => \/ Reply(p, "gate") \/ Reply(p, "baseline_missing")
                         \/ Continue(p, "script", loc[p])
    BY DEF CheckApply
  <2>. QED  BY <1>3, <1>4, <2>1
<1>10. ~RunScript(p) /\ ~CheckVerify(p) /\ ~ListAddrs(p) /\ ~ListTcp(p) /\ ~ListUdp(p)
  BY <1>3, <1>4 DEF RunScript, CheckVerify, ListAddrs, ListTcp, ListUdp
<1>. QED  BY <1>0, <1>5, <1>6, <1>7, <1>8, <1>9, <1>10 DEF Step

\* LEMMA: how a process gets to the steps that carry computed sets to the kernel.
LEMMA ApplyPath ==
  ASSUME IType, [Next]_vars, NEW p \in Procs,
         pc'[p] \in {"apply_sets", "script", "audit_apply"}
  PROVE  \/ ComputeSets(p) /\ pc'[p] = "apply_sets" /\ loc'[p].view = ActiveSets
         \/ /\ pc[p] \in {"apply_sets", "script", "audit_apply"} /\ loc'[p] = loc[p]
            /\ pc'[p] = "audit_apply" =>
                 \/ pc[p] = "audit_apply" /\ ~RunScript(p)
                 \/ RunScript(p) /\ RunNft(Script(loc[p].view))
<1>. USE DEF IType, TypeOK, ProcTypeOK
<1>. DEFINE L == {"apply_sets", "script", "audit_apply"}
<1>1. ASSUME NEW code, Reply(p, code) PROVE FALSE
  BY <1>1 DEF Reply
<1>2. ASSUME NEW l, NEW x, l \notin L, Continue(p, l, x) PROVE FALSE
  BY <1>2 DEF Continue
<1>3. ~Begin(p)
  <2>. SUFFICES ASSUME Begin(p) PROVE FALSE
    OBVIOUS
  <2>1. PICK c \in CallsOf[p] : pc' = [pc EXCEPT ![p] = FirstStep(c.op)]
    BY DEF Begin
  <2>2. c \in Call
    BY <2>1, GateAssumption
  <2>3. FirstStep(c.op) \notin L
    BY <2>2 DEF Call, FirstStep
  <2>. QED  BY <2>1, <2>3
<1>4. CASE ComputeSets(p)
  BY <1>4 DEF ComputeSets, Continue, NoLocals
<1>5. CASE CheckApply(p)
  <2>1. Continue(p, "script", loc[p])
    BY <1>1, <1>5 DEF CheckApply
  <2>. QED  BY <1>5, <2>1 DEF CheckApply, Continue
<1>6. CASE RunScript(p)
  <2>1. RunNft(Script(loc[p].view)) /\ Continue(p, "audit_apply", loc[p])
    BY <1>1, <1>6 DEF RunScript
  <2>. QED  BY <1>6, <2>1 DEF RunScript, Continue
<1>7. ~AuditInstall(p) /\ ~AuditPrune(p)
  BY <1>1, <1>2 DEF AuditInstall, AuditPrune, ApplyOrReturn
<1>8. ~(CheckExpiry(p) \/ Insert(p) \/ CountExpired(p) \/ Delete(p) \/ RequireBaseline(p)
          \/ CheckVerify(p) \/ ListAddrs(p) \/ ListTcp(p) \/ ListUdp(p))
  BY <1>1, <1>2 DEF CheckExpiry, Insert, CountExpired, Delete, RequireBaseline,
                    CheckVerify, ListAddrs, ListTcp, ListUdp
<1>9. ~(\/ ReadOnly(p) \/ Refuse(p) \/ InsertRefused(p) \/ AuditApply(p)
        \/ AuditVerify(p) \/ Fault(p))
  BY <1>1 DEF ReadOnly, Refuse, InsertRefused, AuditApply, AuditVerify, Fault,
              StoreFails, AuditFails, NftMissing, Crash
<1>10. ASSUME pc'[p] = pc[p], loc'[p] = loc[p], ~RunScript(p)
       PROVE  /\ pc[p] \in L /\ loc'[p] = loc[p]
              /\ pc'[p] = "audit_apply" => pc[p] = "audit_apply" /\ ~RunScript(p)
  BY <1>10
<1>11. ASSUME NEW q \in Procs, q # p, Begin(q) \/ Step(q) \/ Fault(q)
       PROVE  pc'[p] = pc[p] /\ loc'[p] = loc[p]
  BY <1>11, OthersKeep
<1>12. CASE RulesetChange \/ Tick \/ StepBack \/ UNCHANGED vars
  BY <1>6, <1>10, <1>12 DEF RulesetChange, Tick, StepBack, vars, procVars
<1>. QED  BY <1>3, <1>4, <1>5, <1>6, <1>7, <1>8, <1>9, <1>10, <1>11, <1>12
          DEF Next, Step

\* LEMMA: with one writer and a clock that runs forward, what was computed keeps
\* covering what is active.
LEMMA AppliedStep ==
  ASSUME NEW w, OneWriter(w), "clock" \notin Faults,
         GateInv, RootInv, AppliedInv(w), [Next]_vars
  PROVE  AppliedInv(w)'
<1>. USE DEF GateInv, IType, TypeOK, ProcTypeOK
<1>. w \in Procs
  BY DEF OneWriter
<1>1. ASSUME NEW p \in Procs \ {w}, answer'[p] = "ok"
      PROVE  ~(call'[p].apply \/ call'[p].op = "apply")
  <2>. SUFFICES ASSUME call'[p].apply \/ call'[p].op = "apply" PROVE FALSE
    OBVIOUS
  <2>1. CASE Begin(p) \/ Step(p) \/ Fault(p)
    <3>1. AuditApply(p)
      BY <1>1, <2>1, OkAnswers
    <3>2. p \in Root
      BY <3>1 DEF AuditApply, RootInv
    <3>. QED  BY <3>2 DEF OneWriter
  <2>2. ASSUME NEW q \in Procs, q # p, Begin(q) \/ Step(q) \/ Fault(q) PROVE FALSE
    BY <1>1, <2>2, OthersKeep DEF AppliedInv, Applied
  <2>3. CASE RulesetChange \/ Tick \/ StepBack \/ UNCHANGED vars
    BY <1>1, <2>3 DEF RulesetChange, Tick, StepBack, vars, procVars, AppliedInv, Applied
  <2>. QED  BY <2>1, <2>2, <2>3 DEF Next
<1>2. ASSUME NEW p \in Procs, Insert(p) PROVE AppliedInv(w)'
  <2>1. p = w
    BY <1>2, OthersOnlyPrune DEF Insert, InstallSteps
  <2>2. pc[w] = "insert" /\ Continue(w, "audit_install", NoLocals)
    BY <1>2, <2>1 DEF Insert
  <2>3. pc'[w] = "audit_install" /\ answer'[w] = "none"
    BY <2>2 DEF Continue, PathInv
  <2>. QED  BY <1>1, <2>3 DEF AppliedInv, Applied
<1>3. ASSUME \A p \in Procs : ~Insert(p) PROVE AppliedInv(w)'
  <2>1. /\ Within(ActiveSets', ActiveSets)
        /\ ActiveSets \in AllowSets /\ ActiveSets' \in AllowSets
    BY <1>3, ActiveShrink
  <2>2. loc[w].view \in AllowSets
    BY DEF Locals
  <2>3. ASSUME pc'[w] \in {"apply_sets", "script", "audit_apply"}
        PROVE  Within(ActiveSets', loc'[w].view)
    <3>1. loc'[w].view = ActiveSets \/ (loc'[w].view = loc[w].view
                                          /\ Within(ActiveSets, loc[w].view))
      BY <2>3, ApplyPath DEF AppliedInv
    <3>. QED  BY <2>1, <3>1 DEF Within
  <2>4. ASSUME pc'[w] = "audit_apply" PROVE kernel' = Elements(loc'[w].view)
    <3>1. loc'[w] = loc[w] /\ \/ pc[w] = "audit_apply" /\ ~RunScript(w)
                              \/ RunScript(w) /\ RunNft(Script(loc[w].view))
      BY <2>4, ApplyPath
    <3>2. CASE pc[w] = "audit_apply" /\ ~RunScript(w)
      BY <3>1, <3>2, OneWriterScripts DEF AppliedInv, nftVars
    <3>3. CASE RunNft(Script(loc[w].view))
      BY <2>2, <3>1, <3>3, ScriptReplaces
    <3>. QED  BY <3>1, <3>2, <3>3
  <2>5. ASSUME answer'[w] = "ok", call'[w].apply \/ call'[w].op = "apply"
        PROVE  Within(Elements(ActiveSets'), kernel')
    <3>1. CASE Begin(w) \/ Step(w) \/ Fault(w)
      <4>1. AuditApply(w)
        BY <2>5, <3>1, OkAnswers
      <4>2. kernel' = Elements(loc[w].view) /\ Within(ActiveSets, loc[w].view)
        BY <4>1 DEF AuditApply, AppliedInv, nftVars
      <4>3. Within(ActiveSets', loc[w].view)
        BY <2>1, <4>2 DEF Within
      <4>. QED  BY <2>1, <2>2, <4>2, <4>3, ElementsGrow
    <3>2. CASE ~(Begin(w) \/ Step(w) \/ Fault(w))
      <4>1. answer'[w] = answer[w] /\ call'[w] = call[w]
        BY <3>2, OthersKeep DEF Next, RulesetChange, Tick, StepBack, vars, procVars
      <4>2. kernel' = kernel
        BY <3>2, OneWriterScripts DEF Step, nftVars
      <4>3. Within(Elements(ActiveSets), kernel)
        BY <2>5, <4>1 DEF AppliedInv, Applied
      <4>4. Within(Elements(ActiveSets'), Elements(ActiveSets))
        BY <2>1, ElementsGrow
      <4>. QED  BY <4>2, <4>3, <4>4 DEF Within
    <3>. QED  BY <3>1, <3>2
  <2>6. \A p \in Procs \ {w} : answer'[p] = "ok" => ~Applied(p)'
    BY <1>1 DEF Applied
  <2>7. (pc[w] \in {"apply_sets", "script", "audit_apply"} => Within(ActiveSets, loc[w].view))'
    BY <2>3
  <2>8. (pc[w] = "audit_apply" => kernel = Elements(loc[w].view))'
    BY <2>4
  <2>9. (answer[w] = "ok" /\ Applied(w) => Within(Elements(ActiveSets), kernel))'
    BY <2>5 DEF Applied, Elements
  <2>. QED  BY <2>6, <2>7, <2>8, <2>9 DEF AppliedInv
<1>. QED  BY <1>2, <1>3

\* THEOREM: with one writer and a clock that is not set back, from the ok of an
\* apply until its next request every grant still active is admitted by the
\* kernel, also while others prune, and through crashes and failing writes
\* (egress.py, apply).
THEOREM OkMeansAdmitted ==
  ASSUME NEW w, OneWriter(w), "clock" \notin Faults
  PROVE  Spec => []AppliedIsCurrent
<1>1. Init => GateInv /\ RootInv /\ AppliedInv(w)
  BY GateInit DEF Init, RootInv, AppliedInv, OneWriter
<1>2. GateInv /\ RootInv /\ AppliedInv(w) /\ [Next]_vars
        => GateInv' /\ RootInv' /\ AppliedInv(w)'
  BY GateStep, RootStep, AppliedStep DEF GateInv
<1>3. AppliedInv(w) => AppliedIsCurrent
  BY DEF AppliedInv, AppliedIsCurrent, Applied, Within
<1>. QED  BY <1>1, <1>2, <1>3, PTL DEF Spec
=============================================================================
