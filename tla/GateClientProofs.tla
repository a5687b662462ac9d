-------------------------- MODULE GateClientProofs --------------------------
(***************************************************************************)
(* Proofs about GateClient: what survives crashes and power failures, and  *)
(* what a client may conclude from the answer it got, for every set of     *)
(* clients and requests.  A power failure is no step of EgressGate, so     *)
(* only the step lemmas of EgressGateProofs are used here, never its       *)
(* theorems.                                                               *)
(***************************************************************************)
EXTENDS GateClient, EgressAnswerProofs

\* The store as of the last checkpoint is a store.
DurableType == /\ durable \in [replay : SUBSET Keys, grants : SUBSET Row]
               /\ IsFiniteSet(durable.grants)

\* LEMMA: every step is one of the gate's, beside which the durable store
\* stays or becomes the present one, or a power failure.
LEMMA DurableSteps ==
  ASSUME [CNext]_cvars
  PROVE  \/ [Next]_vars /\ UNCHANGED durable
         \/ UNCHANGED vars /\ durable' = Store
         \/ PowerLoss
<1>1. Daemon \in Procs
  BY ClientAssumption
<1>2. CASE \E c \in Clients : \/ Connect(c) \/ ConnectRefused(c) \/ Receive(c)
                              \/ NoResponse(c) \/ Interrupt(c) \/ Accept(c)
                              \/ Respond(c)
  BY <1>2 DEF Connect, ConnectRefused, Receive, NoResponse, Interrupt, Accept,
              Respond, allVars, durVars
<1>3. ASSUME NEW c \in Clients, Serve(c)
      PROVE  [Next]_vars /\ UNCHANGED durable
  BY <1>1, <1>3 DEF Serve, Next, durVars
<1>4. CASE Work
  <2>1. CASE DOpen(Daemon)
    BY <1>1, <2>1 DEF DOpen, Next, Step
  <2>2. CASE DClose(Daemon)
    BY <2>2 DEF DClose
  <2>3. CASE DReport(Daemon)
    BY <1>1, <2>3 DEF DReport, Next, Step, durVars
  <2>4. CASE DOther(Daemon)
    BY <1>1, <2>4 DEF DOther, Next, durVars
  <2>. QED  BY <1>4, <2>1, <2>2, <2>3, <2>4 DEF Work, DStep
<1>5. CASE Die
  BY <1>1, <1>5 DEF Die, DCrash, Next, Fault, allVars, durVars
<1>6. CASE Restart \/ UNCHANGED cvars
  BY <1>6 DEF Restart, cvars, allVars, durVars
<1>7. CASE Outage
  BY <1>7 DEF Outage
<1>8. CASE Elsewhere
  BY <1>8 DEF Elsewhere, DTick, DCheckpoint, Next, durVars
<1>. QED  BY <1>2, <1>3, <1>4, <1>5, <1>6, <1>7, <1>8 DEF CNext

\* LEMMA: types survive, also a power failure: what it brings back is a store.
LEMMA DurableTypeStep ==
  ASSUME IType, DurableType, [CNext]_cvars
  PROVE  IType' /\ DurableType'
<1>1. CASE [Next]_vars /\ UNCHANGED durable
  BY <1>1, TypeStep DEF DurableType
<1>2. CASE UNCHANGED vars /\ durable' = Store
  <2>1. IType'
    BY <1>2, TypeStep
  <2>. QED  BY <1>2, <2>1 DEF DurableType, Store, IType, TypeOK, StoreTypeOK
<1>3. CASE PowerLoss
  <2>1. StoreTypeOK' /\ IsFiniteSet(grants)'
    BY <1>3 DEF PowerLoss, StoreTypeOK, IType, TypeOK, DurableType
  <2>2. NftTypeOK'
    BY <1>3, NoLocalsType DEF PowerLoss, NftTypeOK
  <2>3. ProcTypeOK'
    BY <1>3, NoLocalsType DEF PowerLoss, ProcTypeOK, IType, TypeOK, Labels, Codes,
       InstallSteps, PruneSteps
  <2>4. audit' \in SUBSET AuditRecord
    BY <1>3 DEF PowerLoss, IType, TypeOK
  <2>5. DurableType'
    BY <1>3 DEF PowerLoss, DurableType
  <2>. QED  BY <2>1, <2>2, <2>3, <2>4, <2>5 DEF IType, TypeOK
<1>. QED  BY <1>1, <1>2, <1>3, DurableSteps

\* LEMMA: they hold at the start.
LEMMA DurableTypeInit == CInit => IType /\ DurableType
BY TypeInit DEF CInit, DInit, DurableType, Store, IType, TypeOK, StoreTypeOK

\* THEOREM: no grant is ever in the store, or on the disk, without the replay
\* row that keeps it from being installed again, whatever crashes and power
\* failures come when (store.py, install_grant: one transaction).
THEOREM NoGrantWithoutKey == CSpec => []GrantsStayKeyed
<1>1. CInit => IType /\ DurableType /\ GrantsStayKeyed
  BY DurableTypeInit DEF CInit, DInit, Init, StoreInit, Store, GrantsStayKeyed
<1>2. ASSUME IType, DurableType, GrantsStayKeyed, [CNext]_cvars
      PROVE  GrantsStayKeyed'
  <2>1. CASE [Next]_vars /\ UNCHANGED durable
    <3>1. CASE UNCHANGED storeVars
      BY <1>2, <2>1, <3>1 DEF storeVars, GrantsStayKeyed
    <3>2. ASSUME NEW p \in Procs, Insert(p) PROVE GrantsStayKeyed'
      BY <1>2, <2>1, <3>2 DEF Insert, CommitGrant, GrantsStayKeyed
    <3>3. ASSUME NEW p \in Procs, Delete(p) PROVE GrantsStayKeyed'
      BY <1>2, <2>1, <3>3 DEF Delete, DeleteExpired, GrantsStayKeyed
    <3>4. CASE Tick \/ StepBack
      BY <1>2, <2>1, <3>4 DEF Tick, ClockTick, StepBack, ClockBack, GrantsStayKeyed
    <3>. QED  BY <2>1, <3>1, <3>2, <3>3, <3>4, StoreSteps
  <2>2. CASE UNCHANGED vars /\ durable' = Store
    BY <1>2, <2>2 DEF vars, Store, GrantsStayKeyed
  <2>3. CASE PowerLoss
    BY <1>2, <2>3 DEF PowerLoss, GrantsStayKeyed
  <2>. QED  BY <1>2, <2>1, <2>2, <2>3, DurableSteps
<1>3. IType /\ DurableType /\ GrantsStayKeyed /\ [CNext]_cvars
        => IType' /\ DurableType' /\ GrantsStayKeyed'
  BY <1>2, DurableTypeStep
<1>. QED  BY <1>1, <1>3, PTL DEF CSpec

-----------------------------------------------------------------------------
\* The steps at which the grant of an install is committed already.
PastCommit == ApplySteps \union {"audit_install"}

\* LEMMA: an install is past its commit only through it, and is answered that
\* it is only from there (egress.py, install_grant).
LEMMA InstallMoves ==
  ASSUME IType, PathInv, NEW p \in Procs, Step(p), ~Insert(p), call[p].op = "install",
         pc'[p] \in PastCommit \/ answer'[p] \in Committing
  PROVE  pc[p] \in PastCommit
<1>. USE DEF IType, TypeOK, ProcTypeOK
<1>. SUFFICES ASSUME pc[p] \notin PastCommit PROVE FALSE
  OBVIOUS
<1>1. pc[p] # "idle"
  BY DEF Step, ReadOnly, Refuse, CheckExpiry, Insert, InsertRefused,
     AuditInstall, CountExpired, Delete, AuditPrune, RequireBaseline,
     ComputeSets, CheckApply, RunScript, AuditApply, CheckVerify, ListAddrs,
     ListTcp, ListUdp, AuditVerify
<1>2. pc[p] \in {"check", "insert"} /\ answer[p] = "none"
  BY <1>1 DEF PathInv, StepsOf, InstallSteps, PastCommit
<1>3. CheckExpiry(p) \/ InsertRefused(p)
  BY <1>2 DEF Step, ReadOnly, Refuse, Insert, AuditInstall, CountExpired, Delete,
     AuditPrune, RequireBaseline, ComputeSets, CheckApply, RunScript, AuditApply,
     CheckVerify, ListAddrs, ListTcp, ListUdp, AuditVerify
<1>4. Reply(p, "expired") \/ Reply(p, "replay") \/ Continue(p, "insert", NoLocals)
  BY <1>3 DEF CheckExpiry, InsertRefused
<1>. QED  BY <1>2, <1>4 DEF Reply, Continue, PastCommit, ApplySteps, Committing

\* The daemon has the store to itself.  What it has committed is on the disk
\* once its connection is closed, and it answers only after that.
Stored(p) == Mine(p) \in AcceptedRows /\ Mine(p).key \in durable.replay
DaemonInv ==
  /\ PathInv
  /\ durable.replay \subseteq replay
  /\ open \subseteq {Daemon}
  /\ call[Daemon].op = "install" =>
       /\ pc[Daemon] = "audit_install" =>
            /\ Mine(Daemon) \in AcceptedRows /\ Mine(Daemon).key \in replay
            /\ Daemon \notin open => Stored(Daemon)
       /\ pc[Daemon] \in ApplySteps => Stored(Daemon)
       /\ answer[Daemon] \in Committing => Stored(Daemon)

\* LEMMA: what is on the disk stays, and so does the history; the table in
\* memory is never behind the disk.
LEMMA DiskGrows ==
  ASSUME IType, DurableType, DaemonInv, [CNext]_cvars
  PROVE  /\ durable.replay \subseteq durable'.replay
         /\ durable'.replay \subseteq replay'
         /\ AcceptedRows \subseteq AcceptedRows'
         /\ PathInv'
<1>1. CASE [Next]_vars /\ UNCHANGED durable
  <2>1. replay \subseteq replay'
    BY <1>1, StoreSteps DEF storeVars, Insert, CommitGrant, Delete, DeleteExpired,
                            Tick, ClockTick, StepBack, ClockBack
  <2>. QED  BY <1>1, <2>1, AcceptedGrow, PathStep DEF DaemonInv
<1>2. CASE UNCHANGED vars /\ durable' = Store
  <2>1. PathInv'
    BY <1>2, PathStep DEF DaemonInv
  <2>. QED  BY <1>2, <2>1 DEF DaemonInv, vars, Store, AcceptedRows
<1>3. CASE PowerLoss
  BY <1>3 DEF PowerLoss, AcceptedRows, PathInv
<1>. QED  BY <1>1, <1>2, <1>3, DurableSteps

\* LEMMA: the daemon invariant is inductive.
LEMMA DaemonStep ==
  ASSUME IType, DurableType, DaemonInv, [CNext]_cvars
  PROVE  DaemonInv'
<1>. USE DEF IType, TypeOK, ProcTypeOK
<1>. Daemon \in Procs /\ PathInv
  BY ClientAssumption DEF DaemonInv
<1>0. /\ durable.replay \subseteq durable'.replay /\ durable'.replay \subseteq replay'
      /\ AcceptedRows \subseteq AcceptedRows' /\ PathInv'
  BY DiskGrows
<1>. DEFINE row == RowOf(call'[Daemon].grant)
            Kept == row \in AcceptedRows' /\ row.key \in durable'.replay
            Fine == call'[Daemon].op = "install" =>
              /\ pc'[Daemon] = "audit_install" =>
                   /\ row \in AcceptedRows' /\ row.key \in replay'
                   /\ Daemon \notin open' => Kept
              /\ pc'[Daemon] \in ApplySteps => Kept
              /\ answer'[Daemon] \in Committing => Kept
<1>. SUFFICES open' \subseteq {Daemon} /\ Fine
  BY <1>0 DEF DaemonInv, Stored, Mine
<1>1. call'[Daemon] = call[Daemon] => row = Mine(Daemon)
  BY DEF Mine
<1>2. Stored(Daemon) /\ call'[Daemon] = call[Daemon] => Kept
  BY <1>0, <1>1 DEF Stored
<1>3. ASSUME UNCHANGED <<vars, open>>, durable' \in {durable, Store}
      PROVE  open' \subseteq {Daemon} /\ Fine
  <2>1. pc' = pc /\ call' = call /\ answer' = answer /\ replay' = replay
    BY <1>3 DEF vars
  <2>2. call[Daemon].op = "install" /\ pc[Daemon] = "audit_install" =>
          row \in AcceptedRows' /\ row.key \in replay'
    BY <1>0, <1>1, <2>1 DEF DaemonInv
  <2>. HIDE DEF row, Kept
  <2>. QED  BY <1>2, <1>3, <2>1, <2>2 DEF DaemonInv
<1>4. ASSUME NEW c \in Clients, Serve(c) PROVE open' \subseteq {Daemon} /\ Fine
  <2>1. PICK r \in CallsOf[Daemon] : /\ call' = [call EXCEPT ![Daemon] = r]
                                     /\ pc' = [pc EXCEPT ![Daemon] = FirstStep(r.op)]
    BY <1>4 DEF Serve, Begin
  <2>2. call'[Daemon].op = "install" => pc'[Daemon] = "check"
    BY <2>1 DEF FirstStep
  <2>3. answer'[Daemon] = "none" /\ open' = open
    BY <1>4 DEF Serve, Begin, durVars
  <2>. QED  BY <2>2, <2>3 DEF ApplySteps, Committing, DaemonInv
<1>5. CASE Work /\ DOpen(Daemon)
  <2>1. open' \subseteq {Daemon} /\ Daemon \in open' /\ UNCHANGED durable
    BY <1>5 DEF DOpen, DaemonInv
  <2>2. CASE Insert(Daemon)
    <3>1. /\ pc'[Daemon] = "audit_install" /\ call' = call
          /\ answer'[Daemon] = "none"
      BY <2>2 DEF Insert, Continue, DaemonInv, PathInv
    <3>2. Mine(Daemon) \in AcceptedRows' /\ Mine(Daemon).key \in replay'
      BY <2>2, InsertAccepts DEF Insert, CommitGrant
    <3>. QED  BY <1>1, <2>1, <3>1, <3>2 DEF ApplySteps, Committing
  <2>3. CASE CountExpired(Daemon)
    <3>1. call[Daemon].op = "prune" /\ call' = call
      BY <2>3 DEF CountExpired, PruneSteps, Continue
    <3>. QED  BY <2>1, <3>1
  <2>. QED  BY <1>5, <2>2, <2>3 DEF DOpen
<1>6. CASE Work /\ DClose(Daemon)
  <2>1. open' = {} /\ UNCHANGED vars /\ durable' = Store
    BY <1>6 DEF DClose, DaemonInv
  <2>2. pc' = pc /\ call' = call /\ answer' = answer /\ durable'.replay = replay
    BY <2>1 DEF vars, Store
  <2>3. call[Daemon].op = "install" /\ pc[Daemon] = "audit_install" =>
          row \in AcceptedRows' /\ row.key \in replay' /\ Kept
    BY <1>0, <1>1, <2>1, <2>2 DEF DaemonInv, vars
  <2>. HIDE DEF row, Kept
  <2>. QED  BY <1>2, <2>1, <2>2, <2>3 DEF DaemonInv
<1>7. CASE Work /\ DReport(Daemon)
  <2>1. AuditInstall(Daemon) /\ Daemon \notin open /\ UNCHANGED durVars
    BY <1>7 DEF DReport
  <2>2. pc[Daemon] = "audit_install" /\ call' = call /\ open' = open
          /\ call[Daemon].op = "install"
    BY <2>1 DEF AuditInstall, ApplyOrReturn, Continue, Reply, InstallSteps, durVars
  <2>3. Kept
    BY <1>2, <2>1, <2>2 DEF DaemonInv
  <2>4. pc'[Daemon] # "audit_install"
    BY <2>1 DEF AuditInstall, ApplyOrReturn, Continue, Reply
  <2>. QED  BY <2>2, <2>3, <2>4 DEF DaemonInv
<1>8. CASE Work /\ DOther(Daemon)
  <2>1. Step(Daemon) /\ open' = open /\ pc[Daemon] # "audit_install" /\ ~Insert(Daemon)
    BY <1>8 DEF DOther, durVars, Insert, CommitGrant
  <2>2. call' = call
    BY <2>1 DEF Step, ReadOnly, Refuse, CheckExpiry, InsertRefused, AuditInstall,
       CountExpired, Delete, AuditPrune, RequireBaseline, ComputeSets, CheckApply,
       RunScript, AuditApply, CheckVerify, ListAddrs, ListTcp, ListUdp,
       AuditVerify, Reply, Continue, ApplyOrReturn
  <2>3. [Next]_vars
    BY <2>1 DEF Next
  <2>4. pc'[Daemon] # "audit_install"
    BY <2>1, <2>3, OweInstall
  <2>5. ASSUME call[Daemon].op = "install",
               pc'[Daemon] \in ApplySteps \/ answer'[Daemon] \in Committing
        PROVE  Kept
    <3>1. pc[Daemon] \in ApplySteps
      BY <2>1, <2>5, InstallMoves DEF PastCommit
    <3>. QED  BY <1>2, <2>2, <2>5, <3>1 DEF DaemonInv
  <2>. HIDE DEF row, Kept
  <2>. QED  BY <2>1, <2>2, <2>4, <2>5 DEF DaemonInv
<1>9. CASE Die /\ DCrash(Daemon)
  <2>1. pc'[Daemon] = "idle" /\ answer'[Daemon] = "lost" /\ open' \subseteq open
    BY <1>9 DEF DCrash, Crash, Reply
  <2>. QED  BY <2>1 DEF ApplySteps, Committing, DaemonInv
<1>10. CASE Outage
  <2>1. pc'[Daemon] = "idle" /\ answer'[Daemon] = "lost" /\ open' = {}
    BY <1>10 DEF Outage, PowerLoss
  <2>. QED  BY <2>1 DEF ApplySteps, Committing
<1>11. CASE Elsewhere /\ DTick
  <2>1. pc' = pc /\ call' = call /\ answer' = answer /\ replay' = replay
          /\ UNCHANGED <<open, durable>>
    BY <1>11 DEF DTick, Tick, ClockTick, procVars, durVars
  <2>2. call[Daemon].op = "install" /\ pc[Daemon] = "audit_install" =>
          row \in AcceptedRows' /\ row.key \in replay'
    BY <1>0, <1>1, <2>1 DEF DaemonInv
  <2>. HIDE DEF row, Kept
  <2>. QED  BY <1>2, <2>1, <2>2 DEF DaemonInv
<1>. HIDE DEF Fine
<1>12. CASE \E c \in Clients : \/ Connect(c) \/ ConnectRefused(c) \/ Receive(c)
                              \/ NoResponse(c) \/ Interrupt(c) \/ Accept(c)
                              \/ Respond(c)
  BY <1>3, <1>12 DEF Connect, ConnectRefused, Receive, NoResponse, Interrupt,
                    Accept, Respond, allVars, durVars
<1>13. CASE Die /\ UNCHANGED allVars
  BY <1>3, <1>13 DEF allVars, durVars
<1>14. CASE Restart \/ UNCHANGED cvars
  BY <1>3, <1>14 DEF Restart, cvars, allVars, durVars
<1>15. CASE Elsewhere /\ DCheckpoint
  BY <1>3, <1>15 DEF DCheckpoint
<1>. QED  BY <1>4, <1>5, <1>6, <1>7, <1>8, <1>9, <1>10, <1>11, <1>12, <1>13, <1>14, <1>15
          DEF CNext, Work, DStep, Die, Elsewhere

-----------------------------------------------------------------------------
ClientType ==
  /\ ctl \in [Clients -> [req : Call \union {NoCall}, got : Codes \union {"unknown"},
                          waiting : BOOLEAN]]
  /\ conn \in [Clients -> ConnStates \union Codes]

\* What a step may make of a client and its connection: a request is new, or it
\* is the same and its answer was under way or is the daemon's.
Moves(c) ==
  \/ ctl'[c].got = "unknown" /\ conn'[c] \in {"queued", "free"}
  \/ /\ ctl'[c].req = ctl[c].req
     /\ ctl'[c].got \in Committing => {ctl[c].got, conn[c]} \cap Committing # {}
     /\ conn'[c] \in Committing =>
          conn[c] \in Committing \/ (conn[c] = "busy" /\ answer[Daemon] \in Committing)
     /\ conn'[c] = "busy" => Serve(c) \/ (conn[c] = "busy" /\ UNCHANGED call)

\* LEMMA: no connection state is an answer.
LEMMA StatesAreNoAnswers ==
  /\ ConnStates \cap Committing = {} /\ "busy" \notin Codes /\ "unknown" \notin Committing
  /\ Committing \subseteq Codes
BY DEF ConnStates, Committing, Codes

\* LEMMA: the steps of the clients themselves (egressctl, send).
LEMMA ClientMoves ==
  ASSUME ClientType, IType, NEW d \in Clients,
         \/ Connect(d) \/ ConnectRefused(d) \/ Receive(d) \/ NoResponse(d)
         \/ Interrupt(d) \/ Accept(d) \/ Respond(d),
         NEW c \in Clients
  PROVE  Moves(c) /\ ClientType'
<1>. USE DEF ClientType
<1>0. UNCHANGED call
  BY DEF Connect, ConnectRefused, Receive, NoResponse, Interrupt, Accept, Respond,
         allVars, vars
<1>1. \A req \in Sends[d] : req \in Call
  BY ClientAssumption, GateAssumption
<1>2. CASE Connect(d) \/ ConnectRefused(d)
  <2>1. PICK req \in Sends[d], b \in BOOLEAN :
          ctl' = [ctl EXCEPT ![d] = [req |-> req, got |-> "unknown", waiting |-> b]]
    BY <1>2 DEF Connect, ConnectRefused
  <2>2. conn[d] = "free" /\ (conn' = conn \/ conn' = [conn EXCEPT ![d] = "queued"])
    BY <1>2 DEF Connect, ConnectRefused, Move
  <2>3. ClientType'
    BY <1>1, <2>1, <2>2 DEF ConnStates
  <2>4. c = d => ctl'[c].got = "unknown" /\ conn'[c] \in {"queued", "free"}
    BY <2>1, <2>2
  <2>5. c # d => ctl'[c] = ctl[c] /\ conn'[c] = conn[c]
    BY <2>1, <2>2
  <2>. QED  BY <1>0, <2>3, <2>4, <2>5 DEF Moves
<1>3. CASE Receive(d)
  <2>1. /\ ctl' = [ctl EXCEPT ![d].got = conn[d], ![d].waiting = FALSE]
        /\ conn' = [conn EXCEPT ![d] = "free"] /\ conn[d] \in Codes
    BY <1>3 DEF Receive, Returned, Move, Responses
  <2>2. ClientType'
    BY <2>1 DEF ConnStates
  <2>3. ctl'[c].req = ctl[c].req /\ ctl'[c].got \in {ctl[c].got, conn[c]}
    BY <2>1
  <2>4. conn'[c] \in {conn[c], "free"}
    BY <2>1
  <2>. QED  BY <1>0, <2>2, <2>3, <2>4, StatesAreNoAnswers DEF Moves, ConnStates
<1>4. CASE NoResponse(d) \/ Interrupt(d)
  <2>1. /\ ctl' = [ctl EXCEPT ![d].got = "unknown", ![d].waiting = FALSE]
        /\ \E s \in {conn[d], "free"} : conn' = [conn EXCEPT ![d] = s]
    BY <1>4 DEF NoResponse, Interrupt, Returned, Move
  <2>2. ClientType'
    BY <2>1 DEF ConnStates
  <2>3. ctl'[c].req = ctl[c].req /\ ctl'[c].got \in {ctl[c].got, "unknown"}
    BY <2>1
  <2>4. conn'[c] \in {conn[c], "free"}
    BY <2>1
  <2>. QED  BY <1>0, <2>2, <2>3, <2>4, StatesAreNoAnswers DEF Moves, ConnStates
<1>5. CASE Accept(d)
  <2>1. conn' = [conn EXCEPT ![d] = "open"] /\ ctl' = ctl
    BY <1>5 DEF Accept, Move
  <2>2. ClientType'
    BY <2>1 DEF ConnStates
  <2>3. conn'[c] \in {conn[c], "open"}
    BY <2>1
  <2>. QED  BY <1>0, <2>1, <2>2, <2>3, StatesAreNoAnswers DEF Moves, ConnStates
<1>6. CASE Respond(d)
  <2>1. /\ conn[d] = "busy" /\ ctl' = ctl
        /\ \E s \in {answer[Daemon], "free"} : conn' = [conn EXCEPT ![d] = s]
    BY <1>6 DEF Respond, Move
  <2>2. answer[Daemon] \in Codes
    BY ClientAssumption DEF IType, TypeOK, ProcTypeOK
  <2>3. ClientType'
    BY <2>1, <2>2 DEF ConnStates
  <2>4. conn'[c] = conn[c] \/ (conn[c] = "busy" /\ conn'[c] \in {answer[Daemon], "free"})
    BY <2>1
  <2>. QED  BY <1>0, <2>1, <2>2, <2>3, <2>4, StatesAreNoAnswers DEF Moves, ConnStates
<1>. QED  BY <1>2, <1>3, <1>4, <1>5, <1>6

\* LEMMA: and what the daemon and its deaths do to them.
LEMMA AllMoves ==
  ASSUME ClientType, IType, [CNext]_cvars, NEW c \in Clients
  PROVE  Moves(c) /\ ClientType'
<1>. USE DEF ClientType
<1>1. ASSUME UNCHANGED <<ctl, conn, call>> PROVE Moves(c) /\ ClientType'
  BY <1>1 DEF Moves
<1>2. ASSUME NEW d \in Clients, Serve(d) PROVE Moves(c) /\ ClientType'
  <2>1. conn' = [conn EXCEPT ![d] = "busy"] /\ ctl' = ctl /\ conn[d] # "busy"
    BY <1>2 DEF Serve, Move
  <2>2. ClientType'
    BY <2>1 DEF ConnStates
  <2>3. conn[c] # "busy"
    BY <1>2 DEF Serve, LoopFree
  <2>4. conn'[c] \in Committing => conn[c] \in Committing
    BY <2>1, StatesAreNoAnswers DEF ConnStates
  <2>5. conn'[c] = "busy" => c = d
    BY <2>1, <2>3
  <2>. QED  BY <1>2, <2>1, <2>2, <2>4, <2>5 DEF Moves
<1>3. ASSUME UNCHANGED call, conn' \in [Clients -> ConnStates \union Codes],
             \A d \in Clients : conn'[d] \in {conn[d], "closed", "free"},
             ctl' \in [Clients -> [req : Call \union {NoCall},
                                   got : Codes \union {"unknown"}, waiting : BOOLEAN]],
             \A d \in Clients : /\ ctl'[d].req = ctl[d].req
                                /\ ctl'[d].got \in {ctl[d].got, "unknown"}
      PROVE  Moves(c) /\ ClientType'
  BY <1>3, StatesAreNoAnswers DEF Moves, ConnStates
<1>4. CASE Work
  <2>1. UNCHANGED <<ctl, conn>>
    BY <1>4 DEF Work, clientVars
  <2>2. UNCHANGED call
    BY <1>4 DEF Work, DStep, DOpen, DClose, DReport, DOther, vars,
       Step, ReadOnly, Refuse, CheckExpiry, Insert, InsertRefused,
       AuditInstall, CountExpired, Delete, AuditPrune, RequireBaseline,
       ComputeSets, CheckApply, RunScript, AuditApply, CheckVerify, ListAddrs,
       ListTcp, ListUdp, AuditVerify, Reply, Continue, ApplyOrReturn
  <2>. QED  BY <1>1, <2>1, <2>2
<1>5. CASE Die
  <2>1. UNCHANGED call /\ ctl' = ctl
    BY <1>5 DEF Die, DCrash, Crash, Reply, allVars, vars
  <2>2. PICK dropped : conn' = [d \in Clients |->
                       IF conn[d] \notin dropped THEN conn[d]
                         ELSE IF ctl[d].waiting THEN "closed" ELSE "free"]
    BY <1>5 DEF Die
  <2>3. \A d \in Clients : conn'[d] \in {conn[d], "closed", "free"}
    BY <2>2
  <2>4. conn' \in [Clients -> ConnStates \union Codes]
    BY <2>2 DEF ConnStates
  <2>. QED  BY <1>3, <2>1, <2>3, <2>4
<1>6. CASE Outage
  <2>1. UNCHANGED call /\ conn' = [d \in Clients |-> "free"]
    BY <1>6 DEF Outage, PowerLoss
  <2>2. ctl' = [d \in Clients |->
                  IF ctl[d].waiting THEN [ctl[d] EXCEPT !.got = "unknown", !.waiting = FALSE]
                                    ELSE ctl[d]]
    BY <1>6 DEF Outage
  <2>3. \A d \in Clients : /\ ctl'[d].req = ctl[d].req
                           /\ ctl'[d].got \in {ctl[d].got, "unknown"}
    BY <2>2
  <2>4. ctl' \in [Clients -> [req : Call \union {NoCall},
                              got : Codes \union {"unknown"}, waiting : BOOLEAN]]
    BY <2>2
  <2>. QED  BY <1>3, <2>1, <2>3, <2>4 DEF ConnStates
<1>7. CASE Restart \/ Elsewhere \/ UNCHANGED cvars
  BY <1>1, <1>7 DEF Restart, Elsewhere, DTick, Tick, DCheckpoint, clientVars, cvars,
                    allVars, vars, procVars
<1>. QED  BY <1>2, <1>4, <1>5, <1>6, <1>7, ClientMoves DEF CNext

-----------------------------------------------------------------------------
\* The strengthening of ToldIsDurable.  A connection in service belongs to the
\* request the daemon is at; an answer on its way is as good as one received;
\* and of the clients with one key at most one is past the commit, has the
\* answer on its way, or has got it.
OnDisk(c)   == RowOf(ctl[c].req.grant) \in AcceptedRows
                 /\ ctl[c].req.grant.key \in durable.replay
Answered(c) == ctl[c].got \in Committing \/ conn[c] \in Committing
Serving(c)  == conn[c] = "busy" /\ (pc[Daemon] \in PastCommit \/ answer[Daemon] \in Committing)
Holds(c)    == ctl[c].req.op = "install" /\ (Answered(c) \/ Serving(c))
ToldInv ==
  /\ \A c \in Clients : conn[c] = "busy" => call[Daemon] = ctl[c].req
  /\ \A c, d \in Clients : conn[c] = "busy" /\ conn[d] = "busy" => c = d
  /\ \A c \in Clients : ctl[c].req.op = "install" /\ Answered(c) => OnDisk(c)
  /\ \A c, d \in Clients : Holds(c) /\ Holds(d) /\ c # d =>
       ctl[c].req.grant.key # ctl[d].req.grant.key

\* LEMMA: the row of an install has the key of its request.
LEMMA KeyOfRequest ==
  ASSUME ClientType, NEW c \in Clients, ctl[c].req.op = "install"
  PROVE  RowOf(ctl[c].req.grant).key = ctl[c].req.grant.key
<1>1. ctl[c].req \in Call
  BY DEF ClientType, NoCall
<1>2. ctl[c].req.grant \in Request
  BY <1>1 DEF Call
<1>. QED  BY <1>2, RowOfType

\* LEMMA: who holds a key after a step held it before, but for the transaction
\* of the client in service.
LEMMA HoldsBack ==
  ASSUME IType, DurableType, ClientType, DaemonInv, ToldInv,
         [CNext]_cvars, NEW c \in Clients, Holds(c)'
  PROVE  /\ ctl'[c].req = ctl[c].req
         /\ Holds(c) \/ (Insert(Daemon) /\ conn[c] = "busy")
<1>. USE DEF IType, TypeOK, ProcTypeOK
<1>. Daemon \in Procs /\ PathInv
  BY ClientAssumption DEF DaemonInv
<1>1. Moves(c)
  BY AllMoves
<1>2. ctl'[c].req.op = "install"
        /\ (ctl'[c].got \in Committing \/ conn'[c] \in Committing
              \/ (conn'[c] = "busy"
                    /\ (pc'[Daemon] \in PastCommit \/ answer'[Daemon] \in Committing)))
  BY DEF Holds, Answered, Serving
<1>3. ctl'[c].req = ctl[c].req
  BY <1>1, <1>2 DEF Moves, Committing
<1>4. CASE ctl'[c].got \in Committing \/ conn'[c] \in Committing
  BY <1>1, <1>2, <1>3, <1>4 DEF Moves, Holds, Answered, Serving, Committing
<1>5. ASSUME conn'[c] = "busy", pc'[Daemon] \in PastCommit \/ answer'[Daemon] \in Committing
      PROVE  Holds(c) \/ (Insert(Daemon) /\ conn[c] = "busy")
  <2>1. ~Serve(c)
    <3>. SUFFICES ASSUME Serve(c) PROVE FALSE
      OBVIOUS
    <3>1. answer'[Daemon] = "none" /\ call'[Daemon] = ctl[c].req
      BY DEF Serve, Begin
    <3>2. pc'[Daemon] = "check"
      BY <1>2, <1>3, <3>1 DEF Serve, Begin, FirstStep
    <3>. QED  BY <1>5, <3>1, <3>2 DEF PastCommit, ApplySteps, Committing
  <2>2. conn[c] = "busy" /\ call[Daemon] = ctl[c].req
    BY <1>1, <1>5, <2>1 DEF Moves, ToldInv
  <2>3. call[Daemon].op = "install" /\ ctl[c].req.op = "install"
    BY <1>2, <1>3, <2>2
  <2>4. pc[Daemon] \in PastCommit \/ answer[Daemon] \in Committing => Holds(c)
    BY <2>2, <2>3 DEF Holds, Serving
  <2>5. CASE UNCHANGED <<pc, answer>>
    BY <1>5, <2>4, <2>5
  <2>6. CASE Work
    <3>1. CASE DClose(Daemon)
      BY <2>5, <3>1 DEF DClose, vars
    <3>2. CASE Step(Daemon)
      BY <1>5, <2>2, <2>3, <2>4, <3>2, InstallMoves
    <3>. QED  BY <2>6, <3>1, <3>2 DEF Work, DStep, DOpen, DReport, DOther, Step
  <2>7. ~DCrash(Daemon) /\ ~Outage
    BY <1>5 DEF DCrash, Crash, Reply, Outage, PowerLoss, PastCommit, ApplySteps,
                Committing
  <2>8. ASSUME NEW d \in Clients, Serve(d) PROVE FALSE
    BY <2>2, <2>8 DEF Serve, LoopFree
  <2>9. CASE \E d \in Clients : \/ Connect(d) \/ ConnectRefused(d) \/ Receive(d)
                                \/ NoResponse(d) \/ Interrupt(d) \/ Accept(d)
                                \/ Respond(d)
    BY <2>5, <2>9 DEF Connect, ConnectRefused, Receive, NoResponse, Interrupt,
                      Accept, Respond, allVars, vars
  <2>10. CASE Restart \/ Elsewhere \/ (Die /\ ~DCrash(Daemon)) \/ UNCHANGED cvars
    BY <2>5, <2>10 DEF Restart, Elsewhere, DTick, Tick, DCheckpoint, Die, cvars,
                       allVars, vars, procVars
  <2>. QED  BY <2>6, <2>7, <2>8, <2>9, <2>10 DEF CNext
<1>. QED  BY <1>2, <1>3, <1>4, <1>5

\* LEMMA: the client invariant is inductive.
LEMMA ToldStep ==
  ASSUME IType, DurableType, ClientType, DaemonInv, ToldInv,
         [CNext]_cvars
  PROVE  ToldInv'
<1>. USE DEF IType, TypeOK, ProcTypeOK
<1>. Daemon \in Procs
  BY ClientAssumption
<1>0. /\ durable.replay \subseteq durable'.replay /\ durable'.replay \subseteq replay'
      /\ AcceptedRows \subseteq AcceptedRows'
  BY DiskGrows
<1>1. ASSUME NEW c \in Clients, conn'[c] = "busy"
      PROVE  /\ call'[Daemon] = ctl'[c].req
             /\ conn[c] = "busy" \/ Serve(c)
  <2>1. ctl'[c].req = ctl[c].req /\ (Serve(c) \/ (conn[c] = "busy" /\ UNCHANGED call))
    BY <1>1, AllMoves DEF Moves
  <2>. QED  BY <2>1 DEF ToldInv, Serve
<1>2. ASSUME NEW c \in Clients, NEW d \in Clients, conn'[c] = "busy", conn'[d] = "busy"
      PROVE  c = d
  <2>1. CASE conn[c] = "busy" /\ conn[d] = "busy"
    BY <2>1 DEF ToldInv
  <2>2. ASSUME NEW e \in Clients, Serve(e) PROVE c = e /\ d = e
    <3>1. conn[c] # "busy" /\ conn[d] # "busy" /\ conn' = [conn EXCEPT ![e] = "busy"]
      BY <2>2 DEF Serve, LoopFree, Move
    <3>. QED  BY <1>2, <3>1 DEF ClientType
  <2>. QED  BY <1>1, <1>2, <2>1, <2>2
<1>3. ASSUME NEW c \in Clients, ctl'[c].req.op = "install",
             ctl'[c].got \in Committing \/ conn'[c] \in Committing
      PROVE  RowOf(ctl'[c].req.grant) \in AcceptedRows'
               /\ ctl'[c].req.grant.key \in durable'.replay
  <2>1. /\ ctl'[c].req = ctl[c].req
        /\ Answered(c) \/ (conn[c] = "busy" /\ answer[Daemon] \in Committing)
    BY <1>3, AllMoves DEF Moves, Answered, Committing
  <2>2. CASE Answered(c)
    BY <1>0, <1>3, <2>1, <2>2 DEF ToldInv, OnDisk
  <2>3. CASE conn[c] = "busy" /\ answer[Daemon] \in Committing
    <3>1. call[Daemon] = ctl[c].req /\ Stored(Daemon)
      BY <1>3, <2>1, <2>3 DEF ToldInv, DaemonInv
    <3>. QED  BY <1>0, <1>3, <2>1, <3>1, KeyOfRequest DEF Stored, Mine
  <2>. QED  BY <2>1, <2>2, <2>3
<1>4. ASSUME NEW c \in Clients, NEW d \in Clients, Holds(c)', Holds(d)', c # d
      PROVE  ctl'[c].req.grant.key # ctl'[d].req.grant.key
  <2>1. ctl'[c].req = ctl[c].req /\ ctl'[d].req = ctl[d].req
    BY <1>4, HoldsBack
  <2>2. CASE Holds(c) /\ Holds(d)
    BY <1>4, <2>1, <2>2 DEF ToldInv
  <2>3. ASSUME NEW a \in Clients, NEW b \in Clients, a # b, Holds(b),
               Insert(Daemon), conn[a] = "busy", ctl[a].req.op = "install"
        PROVE  ctl[a].req.grant.key # ctl[b].req.grant.key
    <3>1. call[Daemon] = ctl[a].req /\ conn[b] # "busy"
      BY <2>3 DEF ToldInv
    <3>2. Mine(Daemon).key = ctl[a].req.grant.key
      BY <2>3, <3>1, KeyOfRequest DEF Mine
    <3>3. Mine(Daemon).key \notin replay
      BY <2>3 DEF Insert, CommitGrant
    <3>4. ctl[b].req.grant.key \in replay
      BY <2>3, <3>1 DEF ToldInv, Holds, Serving, OnDisk, DaemonInv
    <3>. QED  BY <3>2, <3>3, <3>4
  <2>4. ctl[c].req.op = "install" /\ ctl[d].req.op = "install"
    BY <1>4, <2>1 DEF Holds
  <2>5. \/ Holds(c) /\ Holds(d)
        \/ Holds(c) /\ Insert(Daemon) /\ conn[d] = "busy"
        \/ Holds(d) /\ Insert(Daemon) /\ conn[c] = "busy"
    BY <1>4, HoldsBack DEF ToldInv
  <2>. QED  BY <1>4, <2>1, <2>2, <2>3, <2>4, <2>5
<1>. QED  BY <1>1, <1>2, <1>3, <1>4 DEF ToldInv, OnDisk, Answered

\* THEOREM: a client that was told its grant is installed can rely on it: the
\* grant was committed, its key is in the replay table on the disk for good, and
\* no other client was told the same of that key, through any interrupts,
\* crashes, restarts and power failures; the daemon has the store to itself, as
\* GateClient models it (daemon.py, handle_client; egressctl, send; store.py,
\* install_grant).
THEOREM ToldIsTrue == CSpec => []ToldIsDurable
<1>. DEFINE Inv == IType /\ DurableType /\ ClientType /\ DaemonInv /\ ToldInv
<1>1. CInit => Inv
  <2>. SUFFICES ASSUME CInit PROVE Inv
    OBVIOUS
  <2>1. IType /\ DurableType /\ PathInv
    BY DurableTypeInit, PathInit DEF CInit, DInit
  <2>2. ClientType
    BY DEF CInit, ClientType, ConnStates
  <2>3. /\ call[Daemon].op = "none" /\ open = {} /\ durable.replay = replay
        /\ \A c \in Clients : ctl[c].req.op = "none" /\ conn[c] = "free"
    BY ClientAssumption DEF CInit, DInit, Init, Store, NoCall
  <2>4. DaemonInv
    BY <2>1, <2>3 DEF DaemonInv
  <2>5. ToldInv
    BY <2>3 DEF ToldInv, Holds
  <2>. QED  BY <2>1, <2>2, <2>4, <2>5
<1>2. Inv /\ [CNext]_cvars => Inv'
  <2>. SUFFICES ASSUME Inv, [CNext]_cvars PROVE Inv'
    OBVIOUS
  <2>1. IType' /\ DurableType'
    BY DurableTypeStep
  <2>2. DaemonInv'
    BY DaemonStep
  <2>3. ToldInv'
    BY ToldStep
  <2>4. ClientType'
    <3>1. CASE Clients = {}
      <4>1. Work \/ Die \/ Restart \/ Outage \/ Elsewhere \/ UNCHANGED cvars
        BY <3>1 DEF CNext
      <4>2. /\ ctl' = ctl \/ ctl' = [c \in Clients |-> ctl'[c]]
            /\ conn' = conn \/ conn' = [c \in Clients |-> conn'[c]]
        BY <4>1 DEF Work, Die, Restart, Outage, Elsewhere, clientVars, cvars
      <4>. QED  BY <3>1, <4>2 DEF ClientType
    <3>2. CASE Clients # {}
      BY <3>2, AllMoves
    <3>. QED  BY <3>1, <3>2
  <2>. QED  BY <2>1, <2>2, <2>3, <2>4
<1>3. Inv => ToldIsDurable
  BY DEF ToldIsDurable, ToldInv, DaemonInv, OnDisk, Answered, Holds
<1>. HIDE DEF Inv
<1>. QED  BY <1>1, <1>2, <1>3, PTL DEF CSpec
=============================================================================
