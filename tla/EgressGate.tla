----------------------------- MODULE EgressGate -----------------------------
(***************************************************************************)
(* The egress gate: sourceos_gate/egress.py as it is called by the daemon  *)
(* (sourceos_gate/daemon.py) and by the CLI (tools/sourceos_gate_egress.py)*)
(* over one store, one nft ruleset and one audit log.                      *)
(*                                                                         *)
(* A process is the daemon, which runs one request at a time because every *)
(* gate call in handle_client is synchronous, or a CLI invocation.  A      *)
(* request is cut into steps at the points where another process, the      *)
(* clock or a failure can come between: one step per SQLite transaction or *)
(* query, per nft command and per audit append.                            *)
(***************************************************************************)
EXTENDS NftSets, FiniteSets

CONSTANTS Procs,     \* the daemon and the CLI invocations
          NetAdmin,  \* those that may run nft at all
          Root,      \* those with euid 0
          CallsOf,   \* the requests each process is given
          NoGrant,   \* the grant of a request that has none
          Faults     \* which failures the environment produces

FaultKinds == {"crash", "audit_io", "store_io", "no_nft", "ruleset", "clock"}

Call == [op : {"install"}, apply : BOOLEAN, grant : Request]
          \union [op : {"prune"}, apply : BOOLEAN, grant : {NoGrant}]
          \union [op : {"apply", "verify", "snapshot", "health", "malformed"},
                  apply : {FALSE}, grant : {NoGrant}]
NoCall == [op |-> "none", apply |-> FALSE, grant |-> NoGrant]

ASSUME GateAssumption ==
  /\ NetAdmin \subseteq Procs
  /\ Root \subseteq NetAdmin
  /\ CallsOf \in [Procs -> SUBSET Call]
  /\ Faults \subseteq FaultKinds

VARIABLES pc,        \* the next step of each process, "idle" between requests
          call,      \* its current or last request
          loc,       \* its local variables
          answer,    \* the code of its last answer
          audit      \* the records of the audit log, in no order

procVars == <<pc, call, loc, answer>>
vars == <<now, peak, replay, grants, accepted, baseline, kernel, asOf,
          pc, call, loc, answer, audit>>

\* cutoff is the time prune_expired or compute_active_sets read, found the
\* count of the former, view the three computed sets, seen what verify_sets
\* has listed so far.
NoLocals == [cutoff |-> 0, found |-> 0, view |-> NoSets, seen |-> NoSets]

\* The row a process's install_grant writes.
Mine(p) == RowOf(call[p].grant)

InstallRecord(g)  == [action |-> "grant.install", grant |-> g]
PruneRecord(n)    == [action |-> "grant.prune", removed |-> n]
ApplyRecord(sets) == [action |-> "apply", sets |-> sets]
VerifyRecord(sets) == [action |-> "verify", sets |-> sets]

-----------------------------------------------------------------------------
Continue(p, label, locals) ==
  /\ pc' = [pc EXCEPT ![p] = label]
  /\ loc' = [loc EXCEPT ![p] = locals]
  /\ UNCHANGED <<call, answer>>

\* The return of a request: a result, or the error code map_error gives.
Reply(p, code) ==
  /\ pc' = [pc EXCEPT ![p] = "idle"]
  /\ loc' = [loc EXCEPT ![p] = NoLocals]
  /\ answer' = [answer EXCEPT ![p] = code]
  /\ UNCHANGED call

Append2Audit(record) == audit' = audit \union {record}

\* install_grant and prune end with self.apply() when the request asks for it.
ApplyOrReturn(p) == IF call[p].apply THEN Continue(p, "baseline", NoLocals)
                                     ELSE Reply(p, "ok")

FirstStep(op) == CASE op = "install" -> "check"
                   [] op = "prune" -> "count"
                   [] op \in {"apply", "verify"} -> "baseline"
                   [] OTHER -> op

\* handle_client and main: the next request is decoded and dispatched.
Begin(p) ==
  /\ pc[p] = "idle"
  /\ \E c \in CallsOf[p] :
       /\ call' = [call EXCEPT ![p] = c]
       /\ pc' = [pc EXCEPT ![p] = FirstStep(c.op)]
  /\ answer' = [answer EXCEPT ![p] = "none"]
  /\ UNCHANGED <<storeVars, nftVars, loc, audit>>

\* The requests that change nothing: health, snapshot (a read), and those
\* refused before the gate is called, for a missing field or otherwise.
ReadOnly(p) ==
  /\ pc[p] \in {"health", "snapshot"}
  /\ Reply(p, "ok")
  /\ UNCHANGED <<storeVars, nftVars, audit>>

Refuse(p) ==
  /\ pc[p] = "malformed"
  /\ \E code \in {"invalid", "internal"} : Reply(p, code)
  /\ UNCHANGED <<storeVars, nftVars, audit>>

-----------------------------------------------------------------------------
\* (Mutant: the record is written before the grant is.)
AuditFirst(p) ==
  /\ pc[p] = "check"
  /\ IF Expired(Mine(p), now)
       THEN Reply(p, "expired") /\ UNCHANGED audit
       ELSE Continue(p, "insert", NoLocals) /\ Append2Audit(InstallRecord(Mine(p)))
  /\ UNCHANGED <<storeVars, nftVars>>

\* install_grant: the expiry check, before the transaction ...
CheckExpiry(p) ==
  /\ pc[p] = "check"
  /\ IF Expired(Mine(p), now) THEN Reply(p, "expired")
                              ELSE Continue(p, "insert", NoLocals)
  /\ UNCHANGED <<storeVars, nftVars, audit>>

\* ... the transaction ...
Insert(p) ==
  /\ pc[p] = "insert"
  /\ CommitGrant(Mine(p))
  /\ Continue(p, "audit_install", NoLocals)
  /\ UNCHANGED <<nftVars, audit>>

\* (Mutant: a duplicate is taken for a retry that has already succeeded.)
DuplicateIsOk(p) ==
  /\ pc[p] = "insert"
  /\ Mine(p).key \in replay
  /\ Reply(p, "ok")
  /\ UNCHANGED <<storeVars, nftVars, audit>>

\* (Mutant: the insertion is tried again until it succeeds.)
RetryForEver(p) ==
  /\ pc[p] = "insert"
  /\ Mine(p).key \in replay
  /\ Continue(p, "insert", NoLocals)
  /\ UNCHANGED <<storeVars, nftVars, audit>>

InsertRefused(p) ==
  /\ pc[p] = "insert"
  /\ Mine(p).key \in replay
  /\ Reply(p, "replay")
  /\ UNCHANGED <<storeVars, nftVars, audit>>

\* (Mutant: an install that applies leaves the record to the apply.)
AuditOnlyApply(p) ==
  /\ pc[p] = "audit_install"
  /\ IF call[p].apply THEN UNCHANGED audit
                      ELSE Append2Audit(InstallRecord(Mine(p)))
  /\ ApplyOrReturn(p)
  /\ UNCHANGED <<storeVars, nftVars>>

\* ... and its audit record.
AuditInstall(p) ==
  /\ pc[p] = "audit_install"
  /\ Append2Audit(InstallRecord(Mine(p)))
  /\ ApplyOrReturn(p)
  /\ UNCHANGED <<storeVars, nftVars>>

-----------------------------------------------------------------------------
\* prune: the clock is read and the expired rows counted, then whatever rows
\* that cutoff still covers are deleted, then the count is recorded.
CountExpired(p) ==
  /\ pc[p] = "count"
  /\ Continue(p, "delete", [NoLocals EXCEPT !.cutoff = now,
                              !.found = Cardinality(ExpiredRows(now))])
  /\ UNCHANGED <<storeVars, nftVars, audit>>

Delete(p) ==
  /\ pc[p] = "delete"
  /\ DeleteExpired(loc[p].cutoff)
  /\ Continue(p, "audit_prune", loc[p])
  /\ UNCHANGED <<nftVars, audit>>

AuditPrune(p) ==
  /\ pc[p] = "audit_prune"
  /\ Append2Audit(PruneRecord(loc[p].found))
  /\ ApplyOrReturn(p)
  /\ UNCHANGED <<storeVars, nftVars>>

-----------------------------------------------------------------------------
\* require_baseline: nft list fails as much for want of privilege as for want
\* of the table.
SeesBaseline(p) == baseline /\ p \in NetAdmin

\* apply and verify begin alike: the baseline, then the sets to work with.
RequireBaseline(p) ==
  /\ pc[p] = "baseline"
  /\ IF SeesBaseline(p) THEN Continue(p, "compute", NoLocals)
                        ELSE Reply(p, "baseline_missing")
  /\ UNCHANGED <<storeVars, nftVars, audit>>

ComputeSets(p) ==
  /\ pc[p] = "compute"
  /\ Continue(p, IF call[p].op = "verify" THEN "verify_sets" ELSE "apply_sets",
              [NoLocals EXCEPT !.cutoff = now, !.view = ActiveSets])
  /\ UNCHANGED <<storeVars, nftVars, audit>>

\* apply_sets: root, and the baseline once more.
CheckApply(p) ==
  /\ pc[p] = "apply_sets"
  /\ CASE p \notin Root -> Reply(p, "gate")
       [] p \in Root /\ ~SeesBaseline(p) -> Reply(p, "baseline_missing")
       [] OTHER -> Continue(p, "script", loc[p])
  /\ UNCHANGED <<storeVars, nftVars, audit>>

RunScript(p) ==
  /\ pc[p] = "script"
  /\ LET script == Script(loc[p].view) IN
       \/ /\ NftAccepts(script)
          /\ RunNft(script)
          /\ asOf' = loc[p].cutoff
          /\ Continue(p, "audit_apply", loc[p])
       \/ /\ ~NftAccepts(script)
          /\ Reply(p, "nft")
          /\ UNCHANGED <<kernel, asOf>>
  /\ UNCHANGED <<storeVars, baseline, audit>>

AuditApply(p) ==
  /\ pc[p] = "audit_apply"
  /\ Append2Audit(ApplyRecord(loc[p].view))
  /\ Reply(p, "ok")
  /\ UNCHANGED <<storeVars, nftVars>>

-----------------------------------------------------------------------------
\* verify_sets: the baseline once more, then the three sets, listed one by
\* one, and only then compared.
CheckVerify(p) ==
  /\ pc[p] = "verify_sets"
  /\ IF SeesBaseline(p) THEN Continue(p, "list_addrs", loc[p])
                        ELSE Reply(p, "baseline_missing")
  /\ UNCHANGED <<storeVars, nftVars, audit>>

ListAddrs(p) ==
  /\ pc[p] = "list_addrs"
  /\ IF baseline
       THEN Continue(p, "list_tcp",
                     [loc[p] EXCEPT !.seen.addrs = Listed(kernel.addrs)])
       ELSE Reply(p, "nft")
  /\ UNCHANGED <<storeVars, nftVars, audit>>

ListTcp(p) ==
  /\ pc[p] = "list_tcp"
  /\ IF baseline
       THEN Continue(p, "list_udp", [loc[p] EXCEPT !.seen.tcp = kernel.tcp])
       ELSE Reply(p, "nft")
  /\ UNCHANGED <<storeVars, nftVars, audit>>

\* (Mutant: only the TCP ports are compared.)
CompareTcp(p) ==
  /\ pc[p] = "list_udp"
  /\ IF baseline /\ loc[p].seen.tcp = loc[p].view.tcp
       THEN Continue(p, "audit_verify", loc[p])
       ELSE Reply(p, "nft")
  /\ UNCHANGED <<storeVars, nftVars, audit>>

ListUdp(p) ==
  /\ pc[p] = "list_udp"
  /\ LET seen == [loc[p].seen EXCEPT !.udp = kernel.udp] IN
       IF baseline /\ seen = loc[p].view
         THEN Continue(p, "audit_verify", [loc[p] EXCEPT !.seen = seen])
         ELSE Reply(p, "nft")
  /\ UNCHANGED <<storeVars, nftVars, audit>>

AuditVerify(p) ==
  /\ pc[p] = "audit_verify"
  /\ Append2Audit(VerifyRecord(loc[p].view))
  /\ Reply(p, "ok")
  /\ UNCHANGED <<storeVars, nftVars>>

-----------------------------------------------------------------------------
\* What can go wrong around the code.  An SQLite or an I/O error is no
\* GateError: the request is answered "internal" and nothing is undone.
StoreFails(p) ==
  /\ "store_io" \in Faults
  /\ pc[p] \in {"snapshot", "insert", "count", "delete", "compute"}
  /\ Reply(p, "internal")
  /\ UNCHANGED <<storeVars, nftVars, audit>>

AuditFails(p) ==
  /\ "audit_io" \in Faults
  /\ pc[p] \in {"audit_install", "audit_prune", "audit_apply", "audit_verify"}
  /\ Reply(p, "internal")
  /\ UNCHANGED <<storeVars, nftVars, audit>>

\* There is no nft to run: subprocess raises FileNotFoundError.  Only in
\* apply_sets does another check, that of the user, come first.
NftMissing(p) ==
  /\ "no_nft" \in Faults
  /\ \/ pc[p] \in {"baseline", "script", "verify_sets", "list_addrs", "list_tcp", "list_udp"}
     \/ pc[p] = "apply_sets" /\ p \in Root
  /\ Reply(p, "internal")
  /\ UNCHANGED <<storeVars, nftVars, audit>>

\* The process dies; an open transaction is rolled back, and systemd (or the
\* operator) starts it again with nothing but the store, which init keeps.
Crash(p) ==
  /\ "crash" \in Faults
  /\ pc[p] # "idle"
  /\ Reply(p, "lost")
  /\ UNCHANGED <<storeVars, nftVars, audit>>

\* The operator loads the baseline, or something flushes the ruleset.
RulesetChange ==
  /\ "ruleset" \in Faults
  /\ LoadBaseline \/ FlushRuleset
  /\ UNCHANGED <<storeVars, procVars, audit>>

Tick == ClockTick /\ UNCHANGED <<nftVars, procVars, audit>>

StepBack == /\ "clock" \in Faults
            /\ ClockBack
            /\ UNCHANGED <<nftVars, procVars, audit>>

-----------------------------------------------------------------------------
Init ==
  /\ StoreInit
  /\ NftInit
  /\ pc = [p \in Procs |-> "idle"]
  /\ call = [p \in Procs |-> NoCall]
  /\ loc = [p \in Procs |-> NoLocals]
  /\ answer = [p \in Procs |-> "none"]
  /\ audit = {}

\* The steps of a request once it is under way.
Step(p) ==
  \/ ReadOnly(p) \/ Refuse(p)
  \/ CheckExpiry(p) \/ Insert(p) \/ InsertRefused(p) \/ AuditInstall(p)
  \/ CountExpired(p) \/ Delete(p) \/ AuditPrune(p)
  \/ RequireBaseline(p) \/ ComputeSets(p)
  \/ CheckApply(p) \/ RunScript(p) \/ AuditApply(p)
  \/ CheckVerify(p) \/ ListAddrs(p) \/ ListTcp(p) \/ ListUdp(p) \/ AuditVerify(p)

Fault(p) == StoreFails(p) \/ AuditFails(p) \/ NftMissing(p) \/ Crash(p)

Next == \/ \E p \in Procs : Begin(p) \/ Step(p) \/ Fault(p)
        \/ RulesetChange
        \/ Tick \/ StepBack

Spec == Init /\ [][Next]_vars

\* A request under way goes on (nothing in the gate waits for another
\* request), and the clock runs.  Nobody has to send requests.
FairSpec == Spec /\ (\A p \in Procs : WF_vars(Step(p))) /\ WF_vars(Tick)

-----------------------------------------------------------------------------
Labels == {"idle", "check", "insert", "audit_install", "count", "delete",
           "audit_prune", "baseline", "compute", "apply_sets", "script",
           "audit_apply", "verify_sets", "list_addrs", "list_tcp", "list_udp",
           "audit_verify", "snapshot", "health", "malformed"}
Codes == {"none", "ok", "replay", "expired", "baseline_missing", "nft", "gate",
          "invalid", "internal", "lost"}

\* What list_set can report: besides targets, the text of a listed object.
ListedSets == [addrs : SUBSET [net : Nets, form : Forms \union {"object"}],
               tcp : SUBSET Ports, udp : SUBSET Ports]
Locals == [cutoff : Nat, found : Nat, view : AllowSets, seen : ListedSets]
AuditRecord == [action : {"grant.install"}, grant : Row]
                 \union [action : {"grant.prune"}, removed : Nat]
                 \union [action : {"apply", "verify"}, sets : AllowSets]

\* The steps that only a request of a given kind goes through.
InstallSteps == {"check", "insert", "audit_install"}
PruneSteps   == {"count", "delete", "audit_prune"}

\* Each process runs a request it was given, at a step that belongs to it.
ProcTypeOK ==
  /\ pc \in [Procs -> Labels]
  /\ call \in [Procs -> Call \union {NoCall}]
  /\ loc \in [Procs -> Locals]
  /\ answer \in [Procs -> Codes]
  /\ \A p \in Procs :
       /\ call[p] \in CallsOf[p] \union {NoCall}
       /\ pc[p] \in InstallSteps => call[p].op = "install"
       /\ pc[p] \in PruneSteps => call[p].op = "prune"

\* TYPE: the rows are normalised (store.py), the sets well formed (nft.py) and
\* the processes within their requests (egress.py: the order of the calls).
TypeOK ==
  /\ StoreTypeOK
  /\ NftTypeOK
  /\ ProcTypeOK
  /\ audit \in SUBSET AuditRecord

-----------------------------------------------------------------------------
AcceptedRows == {accepted[i] : i \in 1..Len(accepted)}

\* SAFETY: a (token, nonce) is accepted at most once, whatever processes
\* install it, prune it, retry it or crash (store.py, _record_replay).
NoReplay ==
  \A i, j \in 1..Len(accepted) :
    accepted[i].key = accepted[j].key => i = j

\* SAFETY: the kernel sets are always exactly what one set of accepted grants
\* amounts to, all of them unexpired by the clock reading the sets were
\* computed with: never a mixture of two applies, leftovers of an earlier one
\* or grants that had lapsed (store.py, compute_active_sets; nft.py,
\* apply_sets: three flushes and the adds in one script).
UnexpiredRows(t) == {g \in AcceptedRows : ~Expired(g, t)}
KernelIsOneView ==
  \E rows \in SUBSET UnexpiredRows(asOf) : kernel = Elements(SetsOf(rows))

\* SAFETY: the audit log tells no lies: an install record stands for a grant
\* that was committed, and the sets of an apply or verify record are those of
\* committed grants (egress.py: every append follows the effect it records).
AuditSound ==
  \A r \in audit :
    /\ r.action = "grant.install" => r.grant \in AcceptedRows
    /\ r.action \in {"apply", "verify"} =>
         \E rows \in SUBSET AcceptedRows : r.sets = SetsOf(rows)

\* SAFETY, where no process crashes and the log can be written: every
\* committed grant and the present content of the kernel sets are in the
\* audit log, unless the process that owes the record is about to write it
\* (egress.py, install_grant and apply).
AuditComplete ==
  /\ \A g \in AcceptedRows :
       \/ InstallRecord(g) \in audit
       \/ \E p \in Procs : pc[p] = "audit_install" /\ Mine(p) = g
  /\ \/ kernel = NoSets
     \/ \E r \in audit : r.action = "apply" /\ kernel = Elements(r.sets)
     \/ \E p \in Procs :
          pc[p] = "audit_apply" /\ kernel = Elements(loc[p].view)

\* SAFETY: what the answer to an install says about the store, for as long as
\* it stands: ok and every error of the apply stage mean that the grant is
\* committed and audited (so a retry will be answered "replay"); replay means
\* that the key was taken, expired that its time has been seen to pass, even
\* where the clock was set back since (protocol.py, map_error; egress.py,
\* install_grant).
AnswerTellsStore ==
  \A p \in Procs : call[p].op = "install" =>
    /\ answer[p] \in {"ok", "baseline_missing", "nft", "gate"} =>
         Mine(p) \in AcceptedRows /\ InstallRecord(Mine(p)) \in audit
    /\ answer[p] \in {"baseline_missing", "nft", "gate"} => call[p].apply
    /\ answer[p] = "replay" => Mine(p).key \in replay
    /\ answer[p] = "expired" => Expired(Mine(p), peak)

\* SAFETY, where one process installs and applies and the ruleset is left
\* alone: after an apply was answered ok, and until the next request, every
\* grant that is still active is admitted by the kernel (egress.py, apply).
AppliedIsCurrent ==
  \A p \in Procs :
    (answer[p] = "ok" /\ (call[p].apply \/ call[p].op = "apply")) =>
      LET due == Elements(ActiveSets) IN
        /\ due.addrs \subseteq kernel.addrs
        /\ due.tcp \subseteq kernel.tcp
        /\ due.udp \subseteq kernel.udp

\* SAFETY, in the same setting: when verify finds no difference, the kernel
\* holds the elements of the grants verify computed (nft.py, verify_sets).
VerifiedIsTrue ==
  \A p \in Procs :
    pc[p] = "audit_verify" => kernel = Elements(loc[p].view)

\* REFINEMENT: the gate implements the abstract ledger of grants: the replay
\* table is its used keys, the grants table what it holds, and its clock the
\* latest time the wall clock has shown, which never steps back.
Offered == {RowOf(c.grant) : c \in {d \in UNION {CallsOf[p] : p \in Procs} :
                                      d.op = "install"}}
Ledger == INSTANCE GrantLedger WITH Rows <- Offered, now <- peak,
                                    used <- replay, held <- grants
LedgerSpec == Ledger!Spec

\* LIVENESS: every request is answered, unless the process dies, in which
\* case it is available again (daemon.py, handle_client).
CallsReturn == \A p \in Procs : pc[p] # "idle" ~> pc[p] = "idle"
=============================================================================
