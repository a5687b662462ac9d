-------------------------- MODULE EgressDurability --------------------------
(***************************************************************************)
(* The egress gate and the disk.  store.py opens every connection with     *)
(* journal_mode=WAL and synchronous=NORMAL: a commit is atomic, but it is  *)
(* forced to disk only by a checkpoint, and SQLite checkpoints when the    *)
(* last open connection is closed.  A connection is opened per operation   *)
(* and closed when the Python function that opened it returns.  A power    *)
(* failure takes the store back to the last checkpoint; the audit log,     *)
(* which is never synced, may lose lines; the ruleset is gone.             *)
(***************************************************************************)
EXTENDS EgressGate

CONSTANT MaxAccepted  \* bound: no more power failures after so many commits

ASSUME DurabilityAssumption == MaxAccepted \in Nat

VARIABLES durable,    \* the store as of the last checkpoint
          open        \* the processes that hold a connection

durVars == <<durable, open>>
allVars == <<vars, durVars>>

Store == [replay |-> replay, grants |-> grants]

DInit == /\ Init
         /\ durable = Store
         /\ open = {}

\* The two operations another process can find half done hold a connection:
\* install_grant from its transaction, prune_expired from its COUNT.
DOpen(p) == /\ Insert(p) \/ CountExpired(p)
            /\ open' = open \union {p}
            /\ UNCHANGED durable

\* The function returns: the last connection to close checkpoints.
DClose(p) ==
  /\ p \in open
  /\ pc[p] \in {"audit_install", "audit_prune"}
  /\ open' = open \ {p}
  /\ durable' = IF open' = {} THEN Store ELSE durable
  /\ UNCHANGED vars

\* SQLite also checkpoints on its own account: when the log has grown, and
\* when a connection that only read is the last to close.
DCheckpoint == /\ durable # Store
               /\ durable' = Store
               /\ UNCHANGED <<vars, open>>

\* (Mutant: the report does not wait for the close.)
ReportEarly(p) == AuditInstall(p) /\ UNCHANGED durVars

\* After the close, never before, an install is recorded (and, later, answered).
DReport(p) == AuditInstall(p) /\ p \notin open /\ UNCHANGED durVars

\* A process that dies lets go of its connection without a checkpoint.
DCrash(p) == /\ Crash(p)
             /\ open' = open \ {p}
             /\ UNCHANGED durable

\* All the other steps of a request; failing writes and a changing ruleset
\* or clock are left to EgressGate.
DOther(p) ==
  /\ pc[p] \notin {"count", "audit_install"}
  /\ pc[p] = "insert" => Mine(p).key \in replay
  /\ pc[p] = "audit_prune" => p \notin open
  /\ Step(p)
  /\ UNCHANGED durVars

DTick == Tick /\ UNCHANGED durVars

\* (Mutant: a table of its own for the replay cache, synced on its own.)
SplitLoss ==
  /\ Len(accepted) < MaxAccepted
  /\ grants' = grants
  /\ replay' = durable.replay
  /\ \E kept \in SUBSET audit : audit' = kept
  /\ baseline' \in BOOLEAN
  /\ kernel' = NoSets /\ asOf' = 0
  /\ pc' = [p \in Procs |-> "idle"]
  /\ loc' = [p \in Procs |-> NoLocals]
  /\ answer' = [p \in Procs |-> "lost"]
  /\ open' = {}
  /\ UNCHANGED <<now, peak, accepted, call, durable>>

PowerLoss ==
  /\ Len(accepted) < MaxAccepted
  /\ grants' = durable.grants
  /\ replay' = durable.replay
  /\ \E kept \in SUBSET audit : audit' = kept
  /\ baseline' \in BOOLEAN
  /\ kernel' = NoSets /\ asOf' = 0
  /\ pc' = [p \in Procs |-> "idle"]
  /\ loc' = [p \in Procs |-> NoLocals]
  /\ answer' = [p \in Procs |-> "lost"]
  /\ open' = {}
  /\ UNCHANGED <<now, peak, accepted, call, durable>>

\* The steps of a request.  GateClient adds where requests come from.
DStep(p) == DOpen(p) \/ DClose(p) \/ DReport(p) \/ DOther(p)

-----------------------------------------------------------------------------
\* SAFETY: no power failure separates a grant from the replay row that keeps
\* it from being installed again: the two are written, lost and kept together
\* (store.py, install_grant: one transaction).
GrantsStayKeyed ==
  /\ \A g \in grants : g.key \in replay
  /\ \A g \in durable.grants : g.key \in durable.replay
=============================================================================
