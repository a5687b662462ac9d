-------------------------- MODULE EgressGateProofs --------------------------
(***************************************************************************)
(* Proofs about EgressGate for every set of keys, networks, ports,         *)
(* processes and requests, every clock bound and every choice of faults.   *)
(***************************************************************************)
EXTENDS EgressGate, FiniteSetTheorems, TLAPS

\* The grants table is finite: counting its expired rows gives a number.
IType == TypeOK /\ IsFiniteSet(grants)

-----------------------------------------------------------------------------
\* LEMMA: normalising the protocol makes a row of a request and keeps its key
\* and expiry (store.py, install_grant).
LEMMA RowOfType ==
  \A req \in Request : /\ RowOf(req) \in Row
                       /\ RowOf(req).key = req.key
                       /\ RowOf(req).exp = req.exp
BY DEF Request, Row, RowOf, NormProto

\* LEMMA: the sets computed from rows are well formed, and blanks apart so are
\* the elements a script adds (store.py, compute_active_sets).
LEMMA SetsOfType ==
  \A rows \in SUBSET Row : /\ SetsOf(rows) \in AllowSets
                           /\ Elements(SetsOf(rows)) \in AllowSets
<1>1. \A t \in Target : Strip(t) \in Target
  BY DEF Strip, Target, Forms
<1>2. ASSUME NEW rows \in SUBSET Row
      PROVE  SetsOf(rows) \in AllowSets
  <2>1. \A g \in rows : g.targets \in SUBSET Target /\ g.ports \in SUBSET Ports
    BY DEF Row
  <2>2. UNION {g.targets : g \in rows} \in SUBSET Target
    BY <2>1
  <2>3. {Strip(t) : t \in UNION {g.targets : g \in rows}} \in SUBSET Target
    BY <1>1, <2>2
  <2>4. /\ UNION {g.ports : g \in {r \in rows : r.proto # "udp"}} \in SUBSET Ports
        /\ UNION {g.ports : g \in {r \in rows : r.proto = "udp"}} \in SUBSET Ports
    BY <2>1
  <2>. QED  BY <2>3, <2>4 DEF SetsOf, AllowSets
<1>3. ASSUME NEW sets \in AllowSets
      PROVE  Elements(sets) \in AllowSets
  BY DEF Elements, AllowSets
<1>. QED  BY <1>2, <1>3

\* LEMMA: a process that is installing holds a request with a grant.
LEMMA MineType ==
  ASSUME TypeOK, NEW p \in Procs, call[p].op = "install"
  PROVE  Mine(p) \in Row /\ Mine(p) \in Offered
<1>1. call[p] \in CallsOf[p]
  BY DEF TypeOK, ProcTypeOK, NoCall
<1>2. call[p] \in Call
  BY <1>1, GateAssumption
<1>3. call[p].grant \in Request
  BY <1>2 DEF Call
<1>4. Mine(p) \in Offered
  BY <1>1 DEF Mine, Offered
<1>. QED  BY <1>3, <1>4, RowOfType DEF Mine

\* LEMMA: the empty locals are locals.
LEMMA NoLocalsType == NoLocals \in Locals /\ NoSets \in AllowSets
  BY DEF NoLocals, Locals, NoSets, AllowSets, ListedSets

\* LEMMA: the first step of a request belongs to it (daemon.py, the dispatch).
LEMMA FirstStepType ==
  \A c \in Call : /\ FirstStep(c.op) \in Labels
                  /\ FirstStep(c.op) \in InstallSteps => c.op = "install"
                  /\ FirstStep(c.op) \in PruneSteps => c.op = "prune"
<1>1. \A c \in Call : c.op \in {"install", "prune", "apply", "verify",
                               "snapshot", "health", "malformed"}
  BY DEF Call
<1>. QED  BY <1>1 DEF FirstStep, Labels, InstallSteps, PruneSteps

-----------------------------------------------------------------------------
\* LEMMA: going on to a step of the same request keeps the process typed.
LEMMA ContinueType ==
  ASSUME ProcTypeOK, NEW p \in Procs, NEW l \in Labels, NEW x \in Locals,
         Continue(p, l, x),
         l \in InstallSteps => call[p].op = "install",
         l \in PruneSteps => call[p].op = "prune"
  PROVE  ProcTypeOK'
BY DEF ProcTypeOK, Continue

\* LEMMA: so does answering.
LEMMA ReplyType ==
  ASSUME ProcTypeOK, NEW p \in Procs, NEW code \in Codes, Reply(p, code)
  PROVE  ProcTypeOK'
<1>1. "idle" \in Labels /\ "idle" \notin InstallSteps /\ "idle" \notin PruneSteps
  BY DEF Labels, InstallSteps, PruneSteps
<1>. QED  BY <1>1, NoLocalsType DEF ProcTypeOK, Reply

\* LEMMA: and so do the two ways an install or a prune goes on.
LEMMA ApplyOrReturnType ==
  ASSUME ProcTypeOK, NEW p \in Procs, ApplyOrReturn(p)
  PROVE  ProcTypeOK'
<1>1. CASE Continue(p, "baseline", NoLocals)
  BY <1>1, ContinueType, NoLocalsType DEF Labels, InstallSteps, PruneSteps
<1>2. CASE Reply(p, "ok")
  BY <1>2, ReplyType DEF Codes
<1>. QED  BY <1>1, <1>2 DEF ApplyOrReturn

\* LEMMA: the only steps that change the store are the transaction of an
\* install, the DELETE of a prune, and the clock.
LEMMA StoreSteps ==
  ASSUME [Next]_vars
  PROVE  \/ UNCHANGED storeVars
         \/ \E p \in Procs : Insert(p) \/ Delete(p)
         \/ Tick \/ StepBack
<1>1. CASE \E p \in Procs : Begin(p) \/ Step(p) \/ Fault(p)
  BY <1>1 DEF Begin, Step, Fault, ReadOnly, Refuse, CheckExpiry, InsertRefused,
     AuditInstall, CountExpired, AuditPrune, RequireBaseline, ComputeSets,
     CheckApply, RunScript, AuditApply, CheckVerify, ListAddrs, ListTcp,
     ListUdp, AuditVerify, StoreFails, AuditFails, NftMissing, Crash
<1>2. CASE RulesetChange
  BY <1>2 DEF RulesetChange
<1>3. CASE UNCHANGED vars
  BY <1>3 DEF vars, storeVars
<1>. QED  BY <1>1, <1>2, <1>3 DEF Next

\* LEMMA: the only steps that change the ruleset are the scripts and the
\* environment's.
LEMMA NftSteps ==
  ASSUME [Next]_vars
  PROVE  \/ UNCHANGED nftVars
         \/ \E p \in Procs : RunScript(p)
         \/ RulesetChange
<1>1. CASE \E p \in Procs : Begin(p) \/ Step(p) \/ Fault(p)
  BY <1>1 DEF Begin, Step, Fault, ReadOnly, Refuse, CheckExpiry, Insert,
     InsertRefused, AuditInstall, CountExpired, Delete, AuditPrune,
     RequireBaseline, ComputeSets, CheckApply, AuditApply, CheckVerify,
     ListAddrs, ListTcp, ListUdp, AuditVerify, StoreFails, AuditFails, NftMissing, Crash
<1>2. CASE Tick \/ StepBack
  BY <1>2 DEF Tick, StepBack
<1>3. CASE UNCHANGED vars
  BY <1>3 DEF vars, nftVars
<1>. QED  BY <1>1, <1>2, <1>3 DEF Next

-----------------------------------------------------------------------------
\* LEMMA: the store keeps its type and the grants table stays finite.
LEMMA StoreTypeStep ==
  ASSUME IType, [Next]_vars
  PROVE  StoreTypeOK' /\ IsFiniteSet(grants)'
<1>1. CASE UNCHANGED storeVars
  BY <1>1 DEF IType, TypeOK, StoreTypeOK, storeVars
<1>2. ASSUME NEW p \in Procs, Insert(p)
      PROVE  StoreTypeOK' /\ IsFiniteSet(grants)'
  <2>1. pc[p] \in InstallSteps /\ CommitGrant(Mine(p))
    BY <1>2 DEF Insert, InstallSteps
  <2>2. Mine(p) \in Row
    BY <2>1, MineType DEF IType, TypeOK, ProcTypeOK
  <2>3. Mine(p).key \in Keys
    BY <2>2 DEF Row
  <2>4. IsFiniteSet(grants \union {Mine(p)})
    BY FS_AddElement DEF IType
  <2>. QED  BY <2>1, <2>2, <2>3, <2>4 DEF IType, TypeOK, StoreTypeOK, CommitGrant
<1>3. ASSUME NEW p \in Procs, Delete(p)
      PROVE  StoreTypeOK' /\ IsFiniteSet(grants)'
  <2>1. DeleteExpired(loc[p].cutoff)
    BY <1>3 DEF Delete
  <2>2. IsFiniteSet(grants \ ExpiredRows(loc[p].cutoff))
    BY FS_Subset DEF IType
  <2>. QED  BY <2>1, <2>2 DEF IType, TypeOK, StoreTypeOK, DeleteExpired
<1>4. CASE Tick \/ StepBack
  BY <1>4 DEF Tick, ClockTick, StepBack, ClockBack, IType, TypeOK, StoreTypeOK
<1>. QED  BY <1>1, <1>2, <1>3, <1>4, StoreSteps

\* LEMMA: the elements of a script become the kernel sets, all three of them
\* (nft.py, apply_sets: every set is flushed first).
LEMMA ScriptReplaces ==
  ASSUME NftTypeOK, NEW sets \in AllowSets, RunNft(Script(sets))
  PROVE  kernel' = Elements(sets)
<1>1. kernel \in [addrs : SUBSET Target, tcp : SUBSET Ports, udp : SUBSET Ports]
  BY DEF NftTypeOK, AllowSets
<1>2. DOMAIN kernel = {"addrs", "tcp", "udp"}
  BY <1>1
<1>3. Elements(sets) \in AllowSets
  BY DEF Elements, AllowSets
<1>4. kernel' = [s \in {"addrs", "tcp", "udp"} |-> Elements(sets)[s]]
  BY <1>2 DEF RunNft, Script
<1>5. Elements(sets) = [s \in {"addrs", "tcp", "udp"} |-> Elements(sets)[s]]
  BY <1>3 DEF AllowSets
<1>. QED  BY <1>4, <1>5

\* LEMMA: the kernel sets keep their type.
LEMMA NftTypeStep ==
  ASSUME IType, [Next]_vars
  PROVE  NftTypeOK'
<1>1. CASE UNCHANGED nftVars
  BY <1>1 DEF IType, TypeOK, NftTypeOK, nftVars
<1>2. ASSUME NEW p \in Procs, RunScript(p)
      PROVE  NftTypeOK'
  <2>1. loc[p].view \in AllowSets
    BY DEF IType, TypeOK, ProcTypeOK, Locals
  <2>2. Elements(loc[p].view) \in AllowSets
    BY <2>1 DEF Elements, AllowSets
  <2>3. UNCHANGED kernel \/ RunNft(Script(loc[p].view))
    BY <1>2 DEF RunScript
  <2>4. UNCHANGED kernel \/ kernel' = Elements(loc[p].view)
    BY <2>1, <2>3, ScriptReplaces DEF IType, TypeOK
  <2>5. UNCHANGED baseline /\ asOf' \in {asOf, loc[p].cutoff}
    BY <1>2 DEF RunScript
  <2>6. loc[p].cutoff \in Nat
    BY DEF IType, TypeOK, ProcTypeOK, Locals
  <2>. QED  BY <2>2, <2>4, <2>5, <2>6 DEF IType, TypeOK, NftTypeOK
<1>3. CASE RulesetChange
  <2>1. asOf' = 0
    BY <1>3 DEF RulesetChange, LoadBaseline, FlushRuleset
  <2>2. baseline' \in BOOLEAN /\ kernel' \in AllowSets
    BY <1>3, NoLocalsType DEF RulesetChange, LoadBaseline, FlushRuleset
  <2>. QED  BY <2>1, <2>2 DEF NftTypeOK
<1>. QED  BY <1>1, <1>2, <1>3, NftSteps

\* LEMMA: the only steps that change the audit log are the four appends.
LEMMA AuditSteps ==
  ASSUME [Next]_vars
  PROVE  \/ UNCHANGED audit
         \/ \E p \in Procs : \/ AuditInstall(p) \/ AuditPrune(p)
                             \/ AuditApply(p) \/ AuditVerify(p)
<1>1. CASE \E p \in Procs : Begin(p) \/ Step(p) \/ Fault(p)
  BY <1>1 DEF Begin, Step, Fault, ReadOnly, Refuse, CheckExpiry, Insert,
     InsertRefused, CountExpired, Delete, RequireBaseline, ComputeSets,
     CheckApply, RunScript, CheckVerify, ListAddrs, ListTcp, ListUdp,
     StoreFails, AuditFails, NftMissing, Crash
<1>2. CASE RulesetChange \/ Tick \/ StepBack \/ UNCHANGED vars
  BY <1>2 DEF RulesetChange, Tick, StepBack, vars
<1>. QED  BY <1>1, <1>2 DEF Next

\* LEMMA: the steps that answer at once.
LEMMA ReplySteps ==
  ASSUME ProcTypeOK, NEW p \in Procs,
         \/ ReadOnly(p) \/ Refuse(p) \/ InsertRefused(p) \/ AuditApply(p)
         \/ AuditVerify(p) \/ StoreFails(p) \/ AuditFails(p)
         \/ NftMissing(p) \/ Crash(p)
  PROVE  ProcTypeOK'
<1>1. \E code \in Codes : Reply(p, code)
  BY DEF ReadOnly, Refuse, InsertRefused, AuditApply, AuditVerify, StoreFails,
     AuditFails, NftMissing, Crash, Codes
<1>. QED  BY <1>1, ReplyType

\* LEMMA: every step of a request keeps the processes typed.
LEMMA StepType ==
  ASSUME IType, NEW p \in Procs, Step(p)
  PROVE  ProcTypeOK'
<1>. ProcTypeOK /\ NftTypeOK /\ loc[p] \in Locals /\ NoLocals \in Locals
  BY NoLocalsType DEF IType, TypeOK, ProcTypeOK
<1>. USE DEF Labels, InstallSteps, PruneSteps, Codes
<1>1. CASE ReadOnly(p) \/ Refuse(p) \/ InsertRefused(p) \/ AuditApply(p)
             \/ AuditVerify(p)
  BY <1>1, ReplySteps
<1>2. CASE CheckExpiry(p)
  <2>1. call[p].op = "install"
    BY <1>2 DEF CheckExpiry, ProcTypeOK
  <2>2. Reply(p, "expired") \/ Continue(p, "insert", NoLocals)
    BY <1>2 DEF CheckExpiry
  <2>. QED  BY <2>1, <2>2, ReplyType, ContinueType
<1>3. CASE Insert(p)
  <2>1. call[p].op = "install" /\ Continue(p, "audit_install", NoLocals)
    BY <1>3 DEF Insert, ProcTypeOK
  <2>. QED  BY <2>1, ContinueType
<1>4. CASE AuditInstall(p) \/ AuditPrune(p)
  BY <1>4, ApplyOrReturnType DEF AuditInstall, AuditPrune
<1>5. CASE CountExpired(p)
  <2>1. call[p].op = "prune"
    BY <1>5 DEF CountExpired, ProcTypeOK
  <2>2. Cardinality(ExpiredRows(now)) \in Nat
    <3>1. IsFiniteSet(ExpiredRows(now))
      BY FS_Subset DEF IType, ExpiredRows
    <3>. QED  BY <3>1, FS_CardinalityType
  <2>3. [NoLocals EXCEPT !.cutoff = now,
                         !.found = Cardinality(ExpiredRows(now))] \in Locals
    BY <2>2 DEF NoLocals, Locals, IType, TypeOK, StoreTypeOK
  <2>. QED  BY <1>5, <2>1, <2>3, ContinueType DEF CountExpired
<1>6. CASE Delete(p)
  <2>1. call[p].op = "prune" /\ Continue(p, "audit_prune", loc[p])
    BY <1>6 DEF Delete, ProcTypeOK
  <2>. QED  BY <2>1, ContinueType
<1>7. CASE RequireBaseline(p)
  BY <1>7, ContinueType, ReplyType DEF RequireBaseline
<1>8. CASE ComputeSets(p)
  <2>1. ActiveSets \in AllowSets
    BY SetsOfType DEF ActiveSets, ActiveRows, IType, TypeOK, StoreTypeOK
  <2>2. [NoLocals EXCEPT !.cutoff = now, !.view = ActiveSets] \in Locals
    BY <2>1 DEF NoLocals, Locals, IType, TypeOK, StoreTypeOK
  <2>. QED  BY <1>8, <2>2, ContinueType DEF ComputeSets
<1>9. CASE CheckApply(p)
  <2>1. Reply(p, "gate") \/ Reply(p, "baseline_missing")
          \/ Continue(p, "script", loc[p])
    BY <1>9 DEF CheckApply
  <2>. QED  BY <2>1, ContinueType, ReplyType
<1>10. CASE RunScript(p)
  <2>1. Continue(p, "audit_apply", loc[p]) \/ Reply(p, "nft")
    BY <1>10 DEF RunScript
  <2>. QED  BY <2>1, ContinueType, ReplyType
<1>11. CASE CheckVerify(p)
  BY <1>11, ContinueType, ReplyType DEF CheckVerify
<1>12. CASE ListAddrs(p)
  <2>1. Listed(kernel.addrs) \in SUBSET [net : Nets, form : Forms \union {"object"}]
    BY DEF Listed, Strip, NftTypeOK, AllowSets, Target, Forms
  <2>2. [loc[p] EXCEPT !.seen.addrs = Listed(kernel.addrs)] \in Locals
    BY <2>1 DEF Locals, ListedSets
  <2>. QED  BY <1>12, <2>2, ContinueType, ReplyType DEF ListAddrs
<1>13. CASE ListTcp(p)
  <2>1. [loc[p] EXCEPT !.seen.tcp = kernel.tcp] \in Locals
    BY DEF Locals, ListedSets, NftTypeOK, AllowSets
  <2>. QED  BY <1>13, <2>1, ContinueType, ReplyType DEF ListTcp
<1>14. CASE ListUdp(p)
  <2>. DEFINE seen == [loc[p].seen EXCEPT !.udp = kernel.udp]
  <2>1. seen \in ListedSets
    BY DEF Locals, ListedSets, NftTypeOK, AllowSets
  <2>2. [loc[p] EXCEPT !.seen = seen] \in Locals
    BY <2>1 DEF Locals
  <2>3. Continue(p, "audit_verify", [loc[p] EXCEPT !.seen = seen])
          \/ Reply(p, "nft")
    BY <1>14 DEF ListUdp
  <2>. QED  BY <2>2, <2>3, ContinueType, ReplyType
<1>. QED  BY <1>1, <1>2, <1>3, <1>4, <1>5, <1>6, <1>7, <1>8, <1>9, <1>10, <1>11,
             <1>12, <1>13, <1>14 DEF Step

\* LEMMA: and so does everything else that happens.
LEMMA ProcTypeStep ==
  ASSUME IType, [Next]_vars
  PROVE  ProcTypeOK'
<1>1. ASSUME NEW p \in Procs, Begin(p)
      PROVE  ProcTypeOK'
  <2>1. PICK c \in CallsOf[p] : /\ call' = [call EXCEPT ![p] = c]
                                /\ pc' = [pc EXCEPT ![p] = FirstStep(c.op)]
    BY <1>1 DEF Begin
  <2>2. c \in Call
    BY <2>1, GateAssumption
  <2>3. UNCHANGED loc /\ answer' = [answer EXCEPT ![p] = "none"]
    BY <1>1 DEF Begin
  <2>. QED  BY <2>1, <2>2, <2>3, FirstStepType
            DEF IType, TypeOK, ProcTypeOK, Codes
<1>2. ASSUME NEW p \in Procs, Fault(p)
      PROVE  ProcTypeOK'
  BY <1>2, ReplySteps DEF Fault, IType, TypeOK
<1>3. CASE RulesetChange \/ Tick \/ StepBack \/ UNCHANGED vars
  BY <1>3 DEF RulesetChange, Tick, StepBack, vars, procVars, IType, TypeOK, ProcTypeOK
<1>. QED  BY <1>1, <1>2, <1>3, StepType DEF Next

\* LEMMA: the audit log holds well-formed records only.
LEMMA AuditTypeStep ==
  ASSUME IType, [Next]_vars
  PROVE  audit' \in SUBSET AuditRecord
<1>. USE DEF IType, TypeOK
<1>1. ASSUME NEW p \in Procs, AuditInstall(p)
      PROVE  audit' \in SUBSET AuditRecord
  <2>1. Mine(p) \in Row
    BY <1>1, MineType DEF AuditInstall, ProcTypeOK, InstallSteps
  <2>. QED  BY <1>1, <2>1
            DEF AuditInstall, Append2Audit, InstallRecord, AuditRecord
<1>2. ASSUME NEW p \in Procs, AuditPrune(p)
      PROVE  audit' \in SUBSET AuditRecord
  <2>1. loc[p].found \in Nat
    BY DEF ProcTypeOK, Locals
  <2>. QED  BY <1>2, <2>1 DEF AuditPrune, Append2Audit, PruneRecord, AuditRecord
<1>3. ASSUME NEW p \in Procs, AuditApply(p) \/ AuditVerify(p)
      PROVE  audit' \in SUBSET AuditRecord
  <2>1. loc[p].view \in AllowSets
    BY DEF ProcTypeOK, Locals
  <2>. QED  BY <1>3, <2>1 DEF AuditApply, AuditVerify, Append2Audit, ApplyRecord,
                              VerifyRecord, AuditRecord
<1>. QED  BY <1>1, <1>2, <1>3, AuditSteps

\* LEMMA: the inductive step of type correctness.
LEMMA TypeStep == IType /\ [Next]_vars => IType'
<1>. SUFFICES ASSUME IType, [Next]_vars PROVE IType'
  OBVIOUS
<1>. QED  BY StoreTypeStep, NftTypeStep, ProcTypeStep, AuditTypeStep
          DEF IType, TypeOK

\* LEMMA: it holds at the start.
LEMMA TypeInit == Init => IType
<1>. SUFFICES ASSUME Init PROVE IType
  OBVIOUS
<1>1. StoreTypeOK /\ IsFiniteSet(grants)
  BY FS_EmptySet DEF Init, StoreInit, StoreTypeOK
<1>2. NftTypeOK
  BY NoLocalsType DEF Init, NftInit, NftTypeOK
<1>3. ProcTypeOK
  BY NoLocalsType DEF Init, ProcTypeOK, NoCall, Labels, Codes, InstallSteps,
                      PruneSteps
<1>. QED  BY <1>1, <1>2, <1>3 DEF IType, TypeOK, Init

\* THEOREM: type correctness, and a finite grants table, whatever the faults.
THEOREM TypeCorrect == Spec => [](TypeOK /\ IsFiniteSet(grants))
<1>1. IType => TypeOK /\ IsFiniteSet(grants)
  BY DEF IType
<1>. QED  BY TypeInit, TypeStep, <1>1, PTL DEF Spec

-----------------------------------------------------------------------------
\* The strengthening of NoReplay: the replay table knows every key that was
\* ever accepted, and the grants table holds nothing that was not.
StoreInv ==
  /\ NoReplay
  /\ \A i \in 1..Len(accepted) : accepted[i].key \in replay
  /\ grants \subseteq AcceptedRows

\* LEMMA: the history of accepted grants only grows.
LEMMA AcceptedGrow ==
  ASSUME IType, [Next]_vars
  PROVE  AcceptedRows \subseteq AcceptedRows'
<1>1. CASE UNCHANGED accepted
  BY <1>1 DEF AcceptedRows
<1>2. ASSUME NEW p \in Procs, Insert(p)
      PROVE  AcceptedRows \subseteq AcceptedRows'
  <2>1. Mine(p) \in Row
    BY <1>2, MineType DEF Insert, IType, TypeOK, ProcTypeOK, InstallSteps
  <2>2. accepted' = Append(accepted, Mine(p)) /\ accepted \in Seq(Row)
    BY <1>2 DEF Insert, CommitGrant, IType, TypeOK, StoreTypeOK
  <2>3. /\ Len(accepted') = Len(accepted) + 1
        /\ \A i \in 1..Len(accepted) : accepted'[i] = accepted[i]
    BY <2>1, <2>2
  <2>4. Len(accepted) \in Nat
    BY <2>2
  <2>. QED  BY <2>3, <2>4 DEF AcceptedRows
<1>. QED  BY <1>1, <1>2, StoreSteps DEF storeVars, Delete, DeleteExpired, Tick,
                                        ClockTick, StepBack, ClockBack

\* LEMMA: an accepted grant is in the history from then on.
LEMMA InsertAccepts ==
  ASSUME IType, NEW p \in Procs, Insert(p)
  PROVE  AcceptedRows' = AcceptedRows \union {Mine(p)}
<1>1. Mine(p) \in Row
  BY MineType DEF Insert, IType, TypeOK, ProcTypeOK, InstallSteps
<1>2. accepted' = Append(accepted, Mine(p)) /\ accepted \in Seq(Row)
  BY DEF Insert, CommitGrant, IType, TypeOK, StoreTypeOK
<1>3. /\ Len(accepted') = Len(accepted) + 1
      /\ \A i \in 1..Len(accepted) : accepted'[i] = accepted[i]
      /\ accepted'[Len(accepted) + 1] = Mine(p)
      /\ Len(accepted) \in Nat
  BY <1>1, <1>2
<1>4. 1..Len(accepted') = 1..Len(accepted) \union {Len(accepted) + 1}
  BY <1>3
<1>. QED  BY <1>3, <1>4 DEF AcceptedRows

\* LEMMA: the store invariant is inductive.
LEMMA StoreInvStep ==
  ASSUME IType, StoreInv, [Next]_vars
  PROVE  StoreInv'
<1>1. CASE UNCHANGED storeVars
  BY <1>1 DEF StoreInv, NoReplay, AcceptedRows, storeVars
<1>2. ASSUME NEW p \in Procs, Insert(p)
      PROVE  StoreInv'
  <2>1. Mine(p) \in Row
    BY <1>2, MineType DEF Insert, IType, TypeOK, ProcTypeOK, InstallSteps
  <2>2. /\ accepted' = Append(accepted, Mine(p)) /\ accepted \in Seq(Row)
        /\ Mine(p).key \notin replay
        /\ replay' = replay \union {Mine(p).key}
        /\ grants' = grants \union {Mine(p)}
    BY <1>2 DEF Insert, CommitGrant, IType, TypeOK, StoreTypeOK
  <2>3. /\ Len(accepted') = Len(accepted) + 1
        /\ \A i \in 1..Len(accepted) : accepted'[i] = accepted[i]
        /\ accepted'[Len(accepted) + 1] = Mine(p)
        /\ Len(accepted) \in Nat
    BY <2>1, <2>2
  <2>4. NoReplay'
    <3>1. \A i \in 1..Len(accepted) :
            accepted'[i].key # accepted'[Len(accepted) + 1].key
      BY <2>2, <2>3 DEF StoreInv
    <3>2. \A i, j \in 1..Len(accepted) :
            accepted'[i].key = accepted'[j].key => i = j
      BY <2>3 DEF StoreInv, NoReplay
    <3>3. \A i \in 1..Len(accepted') :
            i \in 1..Len(accepted) \/ i = Len(accepted) + 1
      BY <2>3
    <3>. QED  BY <3>1, <3>2, <3>3 DEF NoReplay
  <2>5. \A i \in 1..Len(accepted') : accepted'[i].key \in replay'
    BY <2>2, <2>3 DEF StoreInv
  <2>6. grants' \subseteq AcceptedRows'
    BY <1>2, <2>2, InsertAccepts DEF StoreInv
  <2>. QED  BY <2>4, <2>5, <2>6 DEF StoreInv
<1>3. ASSUME NEW p \in Procs, Delete(p)
      PROVE  StoreInv'
  BY <1>3 DEF Delete, DeleteExpired, StoreInv, NoReplay, AcceptedRows
<1>4. CASE Tick \/ StepBack
  BY <1>4 DEF Tick, ClockTick, StepBack, ClockBack, StoreInv, NoReplay,
              AcceptedRows
<1>. QED  BY <1>1, <1>2, <1>3, <1>4, StoreSteps

\* LEMMA: it holds of the empty store.
LEMMA StoreInvInit == Init => StoreInv
BY DEF Init, StoreInit, StoreInv, NoReplay, AcceptedRows

\* THEOREM: no (token, nonce) is accepted twice, whatever the processes do,
\* in any interleaving and with any of the modelled faults.
THEOREM ReplayProtection == Spec => []NoReplay
<1>1. Init => IType /\ StoreInv
  BY TypeInit, StoreInvInit
<1>2. IType /\ StoreInv /\ [Next]_vars => IType' /\ StoreInv'
  BY TypeStep, StoreInvStep
<1>3. StoreInv => NoReplay
  BY DEF StoreInv
<1>. QED  BY <1>1, <1>2, <1>3, PTL DEF Spec

-----------------------------------------------------------------------------
\* What some set of accepted grants, unexpired at t, amounts to.
IsView(sets, t) == \E rows \in SUBSET UnexpiredRows(t) : sets = SetsOf(rows)

\* The strengthening of KernelIsOneView and AuditSound: the sets a process has
\* computed and still carries around are those of accepted grants too, as of
\* the clock reading it carries with them.
ViewInv ==
  /\ KernelIsOneView
  /\ AuditSound
  /\ \A p \in Procs : IsView(loc[p].view, loc[p].cutoff)
  /\ \A p \in Procs : pc[p] = "audit_install" => Mine(p) \in AcceptedRows

\* LEMMA: no grants amount to empty sets.
LEMMA NoSetsView == NoSets = SetsOf({}) /\ Elements(NoSets) = NoSets
  BY DEF NoSets, SetsOf, Elements

\* How a step may change the computed sets and the cutoff of a process.
GoodLocals(x, old) == \/ x.view = old.view /\ x.cutoff = old.cutoff
                      \/ x.view = NoSets /\ x.cutoff \in {0, now}
                      \/ x.view = ActiveSets /\ x.cutoff = now

\* LEMMA: a step leaves a process's computed sets alone, drops them, or reads
\* the store; it leaves its cutoff alone, drops it, or reads the clock
\* (egress.py, apply and verify; store.py, prune_expired).
LEMMA LocSteps ==
  ASSUME IType, [Next]_vars, NEW p \in Procs
  PROVE  GoodLocals(loc'[p], loc[p])
<1>. loc \in [Procs -> Locals] /\ NoLocals.view = NoSets
     /\ NoLocals.cutoff = 0
  BY DEF IType, TypeOK, ProcTypeOK, NoLocals
<1>1. ASSUME NEW q \in Procs, Step(q) \/ Fault(q)
      PROVE  GoodLocals(loc'[p], loc[p])
  <2>. GoodLocals(NoLocals, loc[q]) /\ GoodLocals(loc[q], loc[q])
    BY DEF GoodLocals
  <2>1. ASSUME NEW code, Reply(q, code)
        PROVE  GoodLocals(loc'[p], loc[p])
    BY <2>1 DEF Reply, GoodLocals
  <2>2. ASSUME NEW l, NEW x, Continue(q, l, x), GoodLocals(x, loc[q])
        PROVE  GoodLocals(loc'[p], loc[p])
    BY <2>2 DEF Continue, GoodLocals
  <2>3. CASE CountExpired(q)
    <3>1. GoodLocals([NoLocals EXCEPT !.cutoff = now,
                        !.found = Cardinality(ExpiredRows(now))], loc[q])
      BY DEF NoLocals, GoodLocals
    <3>. QED  BY <2>2, <2>3, <3>1 DEF CountExpired
  <2>4. CASE ComputeSets(q)
    <3>1. GoodLocals([NoLocals EXCEPT !.cutoff = now, !.view = ActiveSets],
                     loc[q])
      BY DEF NoLocals, GoodLocals
    <3>. QED  BY <2>2, <2>4, <3>1 DEF ComputeSets
  <2>5. CASE ListAddrs(q)
    <3>1. GoodLocals([loc[q] EXCEPT !.seen.addrs = Listed(kernel.addrs)], loc[q])
      BY DEF Locals, GoodLocals
    <3>. QED  BY <2>1, <2>2, <2>5, <3>1 DEF ListAddrs
  <2>6. CASE ListTcp(q)
    <3>1. GoodLocals([loc[q] EXCEPT !.seen.tcp = kernel.tcp], loc[q])
      BY DEF Locals, GoodLocals
    <3>. QED  BY <2>1, <2>2, <2>6, <3>1 DEF ListTcp
  <2>7. CASE ListUdp(q)
    <3>1. \A s : GoodLocals([loc[q] EXCEPT !.seen = s], loc[q])
      BY DEF Locals, GoodLocals
    <3>. QED  BY <2>1, <2>2, <2>7, <3>1 DEF ListUdp
  <2>8. CASE CheckApply(q)
    <3>1. Reply(q, "gate") \/ Reply(q, "baseline_missing")
            \/ Continue(q, "script", loc[q])
      BY <2>8 DEF CheckApply
    <3>. QED  BY <2>1, <2>2, <3>1
  <2>9. CASE RunScript(q)
    BY <2>1, <2>2, <2>9 DEF RunScript
  <2>10. CASE AuditInstall(q) \/ AuditPrune(q)
    BY <2>1, <2>2, <2>10 DEF AuditInstall, AuditPrune, ApplyOrReturn
  <2>11. CASE CheckExpiry(q) \/ Insert(q) \/ Delete(q) \/ RequireBaseline(q)
                \/ CheckVerify(q)
    BY <2>1, <2>2, <2>11 DEF CheckExpiry, Insert, Delete, RequireBaseline,
                             CheckVerify
  <2>12. CASE ReadOnly(q) \/ Refuse(q) \/ InsertRefused(q) \/ AuditApply(q)
                \/ AuditVerify(q) \/ Fault(q)
    BY <2>1, <2>12 DEF ReadOnly, Refuse, InsertRefused, AuditApply, AuditVerify,
                       Fault, StoreFails, AuditFails, NftMissing, Crash
  <2>. QED  BY <1>1, <2>3, <2>4, <2>5, <2>6, <2>7, <2>8, <2>9, <2>10, <2>11,
               <2>12 DEF Step
<1>2. CASE \E q \in Procs : Begin(q)
  BY <1>2 DEF Begin, GoodLocals
<1>3. CASE RulesetChange \/ Tick \/ StepBack \/ UNCHANGED vars
  BY <1>3 DEF RulesetChange, Tick, StepBack, vars, procVars, GoodLocals
<1>. QED  BY <1>1, <1>2, <1>3 DEF Next

\* LEMMA: a process does not touch the locals of another.
LEMMA OthersKeep ==
  ASSUME IType, NEW q \in Procs, Begin(q) \/ Step(q) \/ Fault(q),
         NEW p \in Procs, p # q
  PROVE  /\ pc'[p] = pc[p] /\ call'[p] = call[p]
         /\ loc'[p] = loc[p] /\ answer'[p] = answer[p]
<1>. USE DEF IType, TypeOK, ProcTypeOK
<1>1. ASSUME NEW code, Reply(q, code)
      PROVE  /\ pc'[p] = pc[p] /\ call'[p] = call[p]
             /\ loc'[p] = loc[p] /\ answer'[p] = answer[p]
  BY <1>1 DEF Reply
<1>2. ASSUME NEW l, NEW x, Continue(q, l, x)
      PROVE  /\ pc'[p] = pc[p] /\ call'[p] = call[p]
             /\ loc'[p] = loc[p] /\ answer'[p] = answer[p]
  BY <1>2 DEF Continue
<1>3. CASE Begin(q)
  BY <1>3 DEF Begin
<1>4. CASE CheckApply(q)
  <2>1. Reply(q, "gate") \/ Reply(q, "baseline_missing")
          \/ Continue(q, "script", loc[q])
    BY <1>4 DEF CheckApply
  <2>. QED  BY <1>1, <1>2, <2>1
<1>5. CASE AuditInstall(q) \/ AuditPrune(q)
  BY <1>1, <1>2, <1>5 DEF AuditInstall, AuditPrune, ApplyOrReturn
<1>6. CASE \/ CheckExpiry(q) \/ Insert(q) \/ CountExpired(q) \/ Delete(q)
           \/ RequireBaseline(q) \/ ComputeSets(q) \/ RunScript(q)
           \/ CheckVerify(q) \/ ListAddrs(q) \/ ListTcp(q) \/ ListUdp(q)
  BY <1>1, <1>2, <1>6 DEF CheckExpiry, Insert, CountExpired, Delete,
     RequireBaseline, ComputeSets, RunScript, CheckVerify, ListAddrs, ListTcp,
     ListUdp
<1>7. CASE \/ ReadOnly(q) \/ Refuse(q) \/ InsertRefused(q) \/ AuditApply(q)
           \/ AuditVerify(q) \/ Fault(q)
  BY <1>1, <1>7 DEF ReadOnly, Refuse, InsertRefused, AuditApply, AuditVerify,
                    Fault, StoreFails, AuditFails, NftMissing, Crash
<1>. QED  BY <1>3, <1>4, <1>5, <1>6, <1>7 DEF Step

\* LEMMA: only its transaction takes a process to the audit of an install.
LEMMA OweInstall ==
  ASSUME IType, [Next]_vars, NEW p \in Procs, pc'[p] = "audit_install"
  PROVE  Insert(p) \/ (pc[p] = "audit_install" /\ call'[p] = call[p])
<1>. USE DEF IType, TypeOK, ProcTypeOK
<1>1. ASSUME NEW code, Reply(p, code) PROVE FALSE
  BY <1>1 DEF Reply
<1>2. ASSUME NEW l, NEW x, l # "audit_install", Continue(p, l, x) PROVE FALSE
  BY <1>2 DEF Continue
<1>3. CASE Begin(p)
  <2>1. PICK c \in CallsOf[p] : pc' = [pc EXCEPT ![p] = FirstStep(c.op)]
    BY <1>3 DEF Begin
  <2>2. c \in Call
    BY <2>1, GateAssumption
  <2>3. c.op # "audit_install"
    BY <2>2 DEF Call
  <2>. QED  BY <2>1, <2>3 DEF FirstStep
<1>4. CASE CheckApply(p)
  <2>1. Reply(p, "gate") \/ Reply(p, "baseline_missing")
          \/ Continue(p, "script", loc[p])
    BY <1>4 DEF CheckApply
  <2>. QED  BY <1>1, <1>2, <2>1
<1>5. CASE AuditInstall(p) \/ AuditPrune(p)
  BY <1>1, <1>2, <1>5 DEF AuditInstall, AuditPrune, ApplyOrReturn
<1>6. CASE \/ CheckExpiry(p) \/ CountExpired(p) \/ Delete(p)
           \/ RequireBaseline(p) \/ ComputeSets(p) \/ RunScript(p)
           \/ CheckVerify(p) \/ ListAddrs(p) \/ ListTcp(p) \/ ListUdp(p)
  BY <1>1, <1>2, <1>6 DEF CheckExpiry, CountExpired, Delete, RequireBaseline,
     ComputeSets, RunScript, CheckVerify, ListAddrs, ListTcp, ListUdp
<1>7. CASE \/ ReadOnly(p) \/ Refuse(p) \/ InsertRefused(p) \/ AuditApply(p)
           \/ AuditVerify(p) \/ Fault(p)
  BY <1>1, <1>7 DEF ReadOnly, Refuse, InsertRefused, AuditApply, AuditVerify,
                    Fault, StoreFails, AuditFails, NftMissing, Crash
<1>8. ASSUME NEW q \in Procs, q # p, Begin(q) \/ Step(q) \/ Fault(q)
      PROVE  pc[p] = "audit_install" /\ call'[p] = call[p]
  BY <1>8, OthersKeep
<1>9. CASE RulesetChange \/ Tick \/ StepBack \/ UNCHANGED vars
  BY <1>9 DEF RulesetChange, Tick, StepBack, vars, procVars
<1>. QED  BY <1>3, <1>4, <1>5, <1>6, <1>7, <1>8, <1>9 DEF Next, Step

\* LEMMA: the view invariant is inductive.
LEMMA ViewInvStep ==
  ASSUME IType, StoreInv, ViewInv, [Next]_vars
  PROVE  ViewInv'
<1>1. AcceptedRows \subseteq AcceptedRows'
  BY AcceptedGrow
<1>. DEFINE Later(t) == {g \in AcceptedRows' : ~Expired(g, t)}
<1>2. \A t : UnexpiredRows(t) \subseteq Later(t)
  BY <1>1 DEF UnexpiredRows
<1>3. ASSUME NEW p \in Procs PROVE IsView(loc[p].view, loc[p].cutoff)'
  <2>. DEFINE Seen(sets, t) == \E rows \in SUBSET Later(t) :
                                 sets = SetsOf(rows)
  <2>. SUFFICES Seen(loc'[p].view, loc'[p].cutoff)
    BY DEF IsView, UnexpiredRows
  <2>1. Seen(ActiveSets, now)
    <3>1. ActiveRows(now) \in SUBSET UnexpiredRows(now)
      BY DEF ActiveRows, UnexpiredRows, StoreInv
    <3>. QED  BY <1>2, <3>1 DEF ActiveSets
  <2>2. \A t : Seen(NoSets, t)
    BY NoSetsView
  <2>3. Seen(loc[p].view, loc[p].cutoff)
    BY <1>2 DEF ViewInv, IsView
  <2>. HIDE DEF Seen
  <2>. QED  BY <2>1, <2>2, <2>3, LocSteps DEF GoodLocals
<1>4. KernelIsOneView'
  <2>. DEFINE Kept(k, t) == \E rows \in SUBSET Later(t) :
                              k = Elements(SetsOf(rows))
  <2>. SUFFICES Kept(kernel', asOf')
    BY DEF KernelIsOneView, UnexpiredRows
  <2>1. Kept(kernel, asOf)
    BY <1>2 DEF ViewInv, KernelIsOneView
  <2>2. ASSUME NEW p \in Procs, RunScript(p) PROVE Kept(kernel', asOf')
    <3>1. \/ UNCHANGED <<kernel, asOf>>
          \/ RunNft(Script(loc[p].view)) /\ asOf' = loc[p].cutoff
      BY <2>2 DEF RunScript
    <3>2. loc[p].view \in AllowSets
      BY DEF IType, TypeOK, ProcTypeOK, Locals
    <3>3. \/ UNCHANGED <<kernel, asOf>>
          \/ kernel' = Elements(loc[p].view) /\ asOf' = loc[p].cutoff
      BY <3>1, <3>2, ScriptReplaces DEF IType, TypeOK
    <3>4. PICK rows \in SUBSET UnexpiredRows(loc[p].cutoff) :
            loc[p].view = SetsOf(rows)
      BY DEF ViewInv, IsView
    <3>5. Kept(Elements(loc[p].view), loc[p].cutoff)
      BY <1>2, <3>4
    <3>. HIDE DEF Kept
    <3>. QED  BY <2>1, <3>3, <3>5
  <2>3. CASE RulesetChange
    <3>1. kernel' = Elements(SetsOf({}))
      BY <2>3, NoSetsView DEF RulesetChange, LoadBaseline, FlushRuleset
    <3>. QED  BY <3>1
  <2>. HIDE DEF Kept
  <2>. QED  BY <2>1, <2>2, <2>3, NftSteps DEF nftVars
<1>5. AuditSound'
  <2>1. ASSUME NEW r \in audit
        PROVE  /\ r.action = "grant.install" => r.grant \in AcceptedRows'
               /\ r.action \in {"apply", "verify"} =>
                    \E rows \in SUBSET AcceptedRows' : r.sets = SetsOf(rows)
    BY <1>1 DEF ViewInv, AuditSound
  <2>2. CASE UNCHANGED audit
    BY <2>1, <2>2 DEF AuditSound
  <2>3. ASSUME NEW p \in Procs, AuditInstall(p) PROVE AuditSound'
    <3>1. Mine(p) \in AcceptedRows'
      BY <1>1, <2>3 DEF AuditInstall, ViewInv
    <3>2. audit' = audit \union {InstallRecord(Mine(p))}
      BY <2>3 DEF AuditInstall, Append2Audit
    <3>. QED  BY <2>1, <3>1, <3>2 DEF AuditSound, InstallRecord
  <2>4. ASSUME NEW p \in Procs, AuditPrune(p) PROVE AuditSound'
    BY <2>1, <2>4 DEF AuditSound, AuditPrune, Append2Audit, PruneRecord
  <2>5. ASSUME NEW p \in Procs, AuditApply(p) \/ AuditVerify(p)
        PROVE  AuditSound'
    <3>1. PICK rows \in SUBSET AcceptedRows' : loc[p].view = SetsOf(rows)
      BY <1>1 DEF ViewInv, IsView, UnexpiredRows
    <3>2. PICK a \in {"apply", "verify"} :
            audit' = audit \union {[action |-> a, sets |-> loc[p].view]}
      BY <2>5 DEF AuditApply, AuditVerify, Append2Audit, ApplyRecord,
                  VerifyRecord
    <3>. QED  BY <2>1, <3>1, <3>2 DEF AuditSound
  <2>. QED  BY <2>2, <2>3, <2>4, <2>5, AuditSteps
<1>6. ASSUME NEW p \in Procs, pc'[p] = "audit_install"
      PROVE  Mine(p)' \in AcceptedRows'
  <2>1. CASE Insert(p)
    BY <2>1, InsertAccepts DEF Insert, Continue, Mine
  <2>2. CASE pc[p] = "audit_install" /\ call'[p] = call[p]
    BY <1>1, <2>2 DEF ViewInv, Mine
  <2>. QED  BY <1>6, <2>1, <2>2, OweInstall
<1>. QED  BY <1>3, <1>4, <1>5, <1>6 DEF ViewInv

\* LEMMA: it holds at the start.
LEMMA ViewInvInit == Init => ViewInv
<1>. SUFFICES ASSUME Init PROVE ViewInv
  OBVIOUS
<1>1. KernelIsOneView
  BY NoSetsView DEF Init, NftInit, KernelIsOneView
<1>2. \A p \in Procs : IsView(loc[p].view, loc[p].cutoff) /\ pc[p] # "audit_install"
  BY NoSetsView DEF Init, NoLocals, IsView
<1>. QED  BY <1>1, <1>2 DEF ViewInv, AuditSound, Init

\* THEOREM: the kernel sets are at all times exactly those of one set of
\* accepted grants, unexpired when the sets were computed (nft.py, apply_sets).
THEOREM KernelShowsOneView == Spec => []KernelIsOneView
<1>1. Init => IType /\ StoreInv /\ ViewInv
  BY TypeInit, StoreInvInit, ViewInvInit
<1>2. IType /\ StoreInv /\ ViewInv /\ [Next]_vars
        => IType' /\ StoreInv' /\ ViewInv'
  BY TypeStep, StoreInvStep, ViewInvStep
<1>3. ViewInv => KernelIsOneView
  BY DEF ViewInv
<1>. QED  BY <1>1, <1>2, <1>3, PTL DEF Spec

\* THEOREM: the audit log never records what did not happen: no install that
\* was not committed, no apply or verify of sets that are not those of
\* committed grants (egress.py: every append follows its effect).
THEOREM AuditTellsTruth == Spec => []AuditSound
<1>1. Init => IType /\ StoreInv /\ ViewInv
  BY TypeInit, StoreInvInit, ViewInvInit
<1>2. IType /\ StoreInv /\ ViewInv /\ [Next]_vars
        => IType' /\ StoreInv' /\ ViewInv'
  BY TypeStep, StoreInvStep, ViewInvStep
<1>3. ViewInv => AuditSound
  BY DEF ViewInv
<1>. QED  BY <1>1, <1>2, <1>3, PTL DEF Spec

-----------------------------------------------------------------------------
\* Neither the clock nor a reading of it is ahead of the latest time shown.
CutoffInv == now <= peak /\ \A p \in Procs : loc[p].cutoff <= peak

\* LEMMA: they stay behind it.
LEMMA CutoffStep ==
  ASSUME IType, CutoffInv, [Next]_vars
  PROVE  CutoffInv'
<1>. now \in Nat /\ peak \in Nat /\ now <= peak
  BY DEF IType, TypeOK, StoreTypeOK, CutoffInv
<1>1. \/ UNCHANGED <<now, peak>>
      \/ peak' = (IF peak < now' THEN now' ELSE peak) /\ now' = now + 1
      \/ peak' = peak /\ now' \in 0..(now - 1)
  BY StoreSteps DEF storeVars, Insert, CommitGrant, Delete, DeleteExpired,
                    Tick, ClockTick, StepBack, ClockBack
<1>2. peak' \in Nat /\ peak <= peak' /\ now' <= peak'
  BY <1>1
<1>3. ASSUME NEW p \in Procs PROVE loc'[p].cutoff <= peak'
  <2>1. loc[p].cutoff \in Nat /\ loc[p].cutoff <= peak
    BY DEF CutoffInv, IType, TypeOK, ProcTypeOK, Locals
  <2>. QED  BY <1>2, <2>1, LocSteps DEF GoodLocals
<1>. QED  BY <1>2, <1>3 DEF CutoffInv

\* THEOREM: the gate implements the ledger of grants: a key is accepted once
\* and for all, and a grant leaves the store only after its expiry.
THEOREM ImplementsLedger == Spec => LedgerSpec
<1>1. Init => IType /\ CutoffInv /\ Ledger!Init
  BY TypeInit DEF Init, StoreInit, CutoffInv, NoLocals, Ledger!Init
<1>2. ASSUME IType, CutoffInv, [Next]_vars
      PROVE  IType' /\ CutoffInv' /\ [Ledger!Next]_(Ledger!vars)
  <2>. SUFFICES [Ledger!Next]_(Ledger!vars)
    BY <1>2, TypeStep, CutoffStep
  <2>1. CASE UNCHANGED storeVars
    BY <2>1 DEF storeVars, Ledger!vars
  <2>2. ASSUME NEW p \in Procs, Insert(p) PROVE Ledger!Accept
    <3>1. Mine(p) \in Offered
      BY <1>2, <2>2, MineType DEF Insert, IType, TypeOK, ProcTypeOK, InstallSteps
    <3>. QED  BY <2>2, <3>1 DEF Insert, CommitGrant, Ledger!Accept
  <2>3. ASSUME NEW p \in Procs, Delete(p) PROVE Ledger!Drop
    <3>1. loc[p].cutoff \in Nat /\ loc[p].cutoff <= peak /\ peak \in Nat
      BY <1>2 DEF CutoffInv, IType, TypeOK, ProcTypeOK, StoreTypeOK, Locals
    <3>2. \A g \in grants : g.exp \in Nat
      BY <1>2 DEF IType, TypeOK, StoreTypeOK, Row
    <3>3. \A g \in ExpiredRows(loc[p].cutoff) : g.exp <= peak
      BY <3>1, <3>2 DEF ExpiredRows, Expired
    <3>4. ExpiredRows(loc[p].cutoff) \in SUBSET grants
      BY DEF ExpiredRows
    <3>5. /\ grants' = grants \ ExpiredRows(loc[p].cutoff)
          /\ UNCHANGED <<peak, replay>>
      BY <2>3 DEF Delete, DeleteExpired
    <3>. QED  BY <3>3, <3>4, <3>5 DEF Ledger!Drop
  <2>4. CASE Tick
    <3>1. now \in Nat /\ peak \in Nat /\ now <= peak
      BY <1>2 DEF CutoffInv, IType, TypeOK, StoreTypeOK
    <3>2. peak' \in {peak, peak + 1} /\ UNCHANGED <<replay, grants>>
      BY <2>4, <3>1 DEF Tick, ClockTick
    <3>. QED  BY <3>2 DEF Ledger!Next, Ledger!Advance, Ledger!vars
  <2>5. CASE StepBack
    BY <2>5 DEF StepBack, ClockBack, Ledger!vars
  <2>. QED  BY <1>2, <2>1, <2>2, <2>3, <2>4, <2>5, StoreSteps DEF Ledger!Next
<1>. QED  BY <1>1, <1>2, PTL DEF Spec, LedgerSpec, Ledger!Spec
=============================================================================
