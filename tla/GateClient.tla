----------------------------- MODULE GateClient -----------------------------
(***************************************************************************)
(* egressctl and the daemon it talks to: tools/sourceos_gate_egressctl.py  *)
(* over the unix socket of sourceos_gate/daemon.py, which works on the     *)
(* store of EgressDurability.                                              *)
(*                                                                         *)
(* A client connects, sends one line and waits for one line, without a     *)
(* timeout.  The daemon accepts connections and reads lines only between   *)
(* two requests, since a request never awaits.  A client that is           *)
(* interrupted leaves its line in the socket, where the daemon still finds *)
(* it; a daemon that dies drops every connection it had accepted.          *)
(*                                                                         *)
(* If the listening socket is systemd's (sourceos-gate-egress.socket), the *)
(* other connections survive the daemon and clients can connect while it   *)
(* is down; if it is the daemon's own, they are reset and connecting is    *)
(* refused.  Which it is, is left open at every such step, which covers    *)
(* both.                                                                   *)
(***************************************************************************)
EXTENDS EgressDurability

CONSTANTS Clients,     \* egressctl invocations
          Daemon,      \* the process that serves them
          Sends        \* the requests each client may be asked to send

ASSUME ClientAssumption ==
  /\ Daemon \in Procs
  /\ Sends \in [Clients -> SUBSET CallsOf[Daemon]]

VARIABLES ctl,    \* each client: its request, what it got, is it waiting?
          conn,   \* its connection, as far as the daemon has got with it
          up      \* is the daemon running?

clientVars == <<ctl, conn, up>>
cvars == <<allVars, clientVars>>

\* A client that ends without a response, for whatever reason, has learnt
\* nothing: it got "unknown".  A connection is in one of the states below, or
\* holds the response.
ConnStates == {"free", "queued", "open", "busy", "closed"}
Responses  == Codes \ {"none", "lost"}

Returned(c, code) == ctl' = [ctl EXCEPT ![c].got = code, ![c].waiting = FALSE]
Move(c, state) == conn' = [conn EXCEPT ![c] = state]

-----------------------------------------------------------------------------
\* main and send: connect, then sendall.
Connect(c) ==
  /\ ~ctl[c].waiting /\ conn[c] = "free"
  /\ \E req \in Sends[c] :
       ctl' = [ctl EXCEPT ![c] = [req |-> req, got |-> "unknown", waiting |-> TRUE]]
  /\ Move(c, "queued")
  /\ UNCHANGED <<allVars, up>>

\* Nobody listens: connect raises.
ConnectRefused(c) ==
  /\ ~ctl[c].waiting /\ conn[c] = "free"
  /\ ~up
  /\ \E req \in Sends[c] :
       ctl' = [ctl EXCEPT ![c] = [req |-> req, got |-> "unknown",
                                  waiting |-> FALSE]]
  /\ UNCHANGED <<allVars, conn, up>>

\* The response line has come.
Receive(c) ==
  /\ ctl[c].waiting /\ conn[c] \in Responses
  /\ Returned(c, conn[c])
  /\ Move(c, "free")
  /\ UNCHANGED <<allVars, up>>

\* End of file instead: RuntimeError("no response"), or a reset.
NoResponse(c) ==
  /\ ctl[c].waiting /\ conn[c] = "closed"
  /\ Returned(c, "unknown")
  /\ Move(c, "free")
  /\ UNCHANGED <<allVars, up>>

\* The user interrupts a waiting client.  What it sent stays sent.
Interrupt(c) ==
  /\ ctl[c].waiting
  /\ Returned(c, "unknown")
  /\ Move(c, IF conn[c] \in {"queued", "open", "busy"} THEN conn[c] ELSE "free")
  /\ UNCHANGED <<allVars, up>>

-----------------------------------------------------------------------------
\* The event loop runs between two requests only.
LoopFree == /\ up /\ pc[Daemon] = "idle"
            /\ \A c \in Clients : conn[c] # "busy"

Accept(c) ==
  /\ LoopFree /\ conn[c] = "queued"
  /\ Move(c, "open")
  /\ UNCHANGED <<allVars, ctl, up>>

\* handle_client reads the line and calls the gate, whether or not the client
\* is still there.
Serve(c) ==
  /\ LoopFree /\ conn[c] = "open"
  /\ Begin(Daemon)
  /\ call'[Daemon] = ctl[c].req
  /\ Move(c, "busy")
  /\ UNCHANGED <<durVars, ctl, up>>

Work == /\ up
        /\ DStep(Daemon)
        /\ UNCHANGED clientVars

\* (Mutant: only success is answered.)
RespondOk(c) ==
  /\ up /\ conn[c] = "busy" /\ pc[Daemon] = "idle"
  /\ answer[Daemon] = "ok"
  /\ Move(c, IF ctl[c].waiting THEN answer[Daemon] ELSE "free")
  /\ UNCHANGED <<allVars, ctl, up>>

\* The response is written; nobody reads it where the client has left.
Respond(c) ==
  /\ up /\ conn[c] = "busy" /\ pc[Daemon] = "idle"
  /\ Move(c, IF ctl[c].waiting THEN answer[Daemon] ELSE "free")
  /\ UNCHANGED <<allVars, ctl, up>>

\* The daemon dies, in a request or between two.
Die == /\ up
       /\ DCrash(Daemon) \/ (pc[Daemon] = "idle" /\ UNCHANGED allVars)
       /\ up' = FALSE
       /\ \E dropped \in {{"open", "busy"}, {"queued", "open", "busy"}} :
            conn' = [c \in Clients |->
                       IF conn[c] \notin dropped THEN conn[c]
                         ELSE IF ctl[c].waiting THEN "closed" ELSE "free"]
       /\ UNCHANGED ctl

\* Restart=on-failure: serve() runs init, which keeps the store, and listens.
Restart == /\ ~up
           /\ up' = TRUE
           /\ UNCHANGED <<allVars, ctl, conn>>

\* The clients that were waiting are gone with the power; what the others
\* were told is not forgotten.
Outage == /\ PowerLoss
          /\ up' = FALSE
          /\ conn' = [c \in Clients |-> "free"]
          /\ ctl' = [c \in Clients |->
                       IF ctl[c].waiting
                         THEN [ctl[c] EXCEPT !.got = "unknown", !.waiting = FALSE]
                         ELSE ctl[c]]

Elsewhere == (DTick \/ DCheckpoint) /\ UNCHANGED clientVars

-----------------------------------------------------------------------------
CInit == /\ DInit
         /\ ctl = [c \in Clients |-> [req |-> NoCall, got |-> "unknown",
                                      waiting |-> FALSE]]
         /\ conn = [c \in Clients |-> "free"]
         /\ up = TRUE

CNext == \/ \E c \in Clients : \/ Connect(c) \/ ConnectRefused(c) \/ Receive(c)
                               \/ NoResponse(c) \/ Interrupt(c)
                               \/ Accept(c) \/ Serve(c) \/ Respond(c)
         \/ Work \/ Die \/ Restart \/ Outage \/ Elsewhere

CSpec == CInit /\ [][CNext]_cvars

\* The daemon goes on with a request and is restarted when it dies; its event
\* loop takes every connection and every line in turn, which the other
\* connections can delay but not prevent; a client reads what has come.
CFairSpec ==
  /\ CSpec
  /\ WF_cvars(Work \/ Restart \/ \E c \in Clients : Respond(c))
  /\ \A c \in Clients : /\ SF_cvars(Accept(c) \/ Serve(c))
                         /\ WF_cvars(Receive(c) \/ NoResponse(c))

-----------------------------------------------------------------------------
\* The answers that say a grant is committed, all of apply's errors included.
Committing == {"ok", "baseline_missing", "nft", "gate"}

\* SAFETY: a client that was told its grant is installed was told the truth
\* about its own request, whatever other clients, crashes and power failures
\* came and come between: its grant was committed, the key is in the replay
\* table on the disk, and nobody else was told the same of that key
\* (daemon.py, handle_client; egressctl, send; store.py, install_grant).
ToldIsDurable ==
  \A c \in Clients :
    (ctl[c].req.op = "install" /\ ctl[c].got \in Committing) =>
      LET key == ctl[c].req.grant.key IN
        /\ RowOf(ctl[c].req.grant) \in AcceptedRows
        /\ key \in replay /\ key \in durable.replay
        /\ \A d \in Clients \ {c} :
             ctl[d].req.op = "install" /\ ctl[d].req.grant.key = key =>
               ctl[d].got \notin Committing

\* LIVENESS: a client does not wait for ever: it gets the response, or learns
\* that there is none, although it has no timeout and the daemon may die at
\* any point (egressctl, send; daemon.py, handle_client).
ClientsReturn == \A c \in Clients : ctl[c].waiting ~> ~ctl[c].waiting
=============================================================================
