----------------------------- MODULE Replicator -----------------------------
(***************************************************************************)
(* Moving a version to another node, DevReplicator in backend/replicate.go:*)
(* Send walks the frozen tree into a tar stream, Receive unpacks it under  *)
(* a directory.  The source is the version store of InceptionFS, where     *)
(* Commit fills versions and the retention loop deletes them meanwhile.    *)
(*                                                                         *)
(* What the receiver can tell of a stream is the sequence of its entries,  *)
(* whether the last one is filled, and that it has ended: by the trailer   *)
(* that tar.Writer.Close writes, by the connection breaking, or because    *)
(* the caller of Send closes w.  tar.Reader takes an end at an entry's     *)
(* boundary for the end of the archive, with or without the trailer.  A    *)
(* writer that broke says so at the next write.  Data are taken to be of   *)
(* one length.                                                             *)
(***************************************************************************)
EXTENDS MountProperties

CONSTANTS Torn,          \* what is in a file that was received in part
          MaxTransfers   \* how often somebody replicates a version (a bound)

ASSUME ReplicatorAssumption == Torn \notin Entries /\ MaxTransfers \in Nat

VARIABLES sender,    \* Send: its step, version, files to visit, the size it announced
          stream,    \* the entries on the way, and whether any more can come
          receiver,  \* Receive: its step
          replica,   \* what there is under each version's directory at the other node
          transfers  \* how many were started

replVars == <<sender, stream, receiver, replica, transfers>>
rVars == <<vars, replVars>>

\* kept is a history: Commit had returned the version before Send began, none
\* was copying under its ID any more, and it has not been pruned since.
Sender(step, id, kept) ==
  [step |-> step, id |-> id, kept |-> kept, todo |-> {}, stat |-> Empty]
Busy == {"walk", "visit", "body"}

RInit ==
  /\ Init
  /\ sender = Sender("nil", NoFiles, FALSE)
  /\ stream = [entries |-> <<>>, ended |-> TRUE]
  /\ receiver = "nil"
  /\ replica = NoVersions
  /\ transfers = 0

Source == IF sender.id \in Held THEN versions[sender.id].files ELSE NoFiles
Target == IF sender.id \in DOMAIN replica THEN replica[sender.id] ELSE NoFiles

Entry(n, body) == [node |-> n, body |-> body]
CutHeader == Entry(0, Torn)
Put(n, body) == stream' = [stream EXCEPT !.entries = Append(@, Entry(n, body))]
Cut(e) == stream' = [entries |-> Append(stream.entries, e), ended |-> TRUE]
NoMoreComes == stream' = [stream EXCEPT !.ended = TRUE]

\* The entry sent last announced more than was written: tar.Writer then writes
\* neither another header nor, when Send returns and closes it, the trailer.
Unfilled == stream.entries # <<>> /\ stream.entries[Len(stream.entries)].body = Torn
Close == IF Unfilled THEN UNCHANGED stream ELSE NoMoreComes
SendReturns(result) == sender' = [sender EXCEPT !.step = result, !.todo = {}]

-----------------------------------------------------------------------------
\* Somebody replicates a version the store lists, maybe again after a failure.
StartTransfer ==
  /\ transfers < MaxTransfers
  /\ sender.step \notin Busy /\ receiver # "next"
  /\ \E id \in Held : sender' = Sender("walk", id, id \in returned /\ Settled(id))
  /\ stream' = [entries |-> <<>>, ended |-> FALSE]
  /\ receiver' = "next"
  /\ transfers' = transfers + 1
  /\ UNCHANGED <<vars, replica>>

\* Walk reads the names ...
SendWalk ==
  /\ sender.step = "walk"
  /\ IF sender.id \in Held
       THEN sender' = [sender EXCEPT !.step = "visit", !.todo = DOMAIN Source]
            /\ UNCHANGED stream
       ELSE SendReturns("error") /\ Close
  /\ UNCHANGED <<vars, receiver, replica, transfers>>

\* ... and visits them.  A directory is passed over; the header of a file,
\* which is all there is of an empty one, fails on a stream that has ended and
\* after an entry that was not filled.
SendHeader ==
  /\ sender.step = "visit"
  /\ sender.todo # {}
  /\ LET n == First(sender.todo) IN
       CASE n \notin DOMAIN Source -> SendReturns("error") /\ Close
         [] n \in DOMAIN Source /\ Source[n] = Dir ->
              sender' = [sender EXCEPT !.todo = @ \ {n}] /\ UNCHANGED stream
         [] n \in DOMAIN Source /\ Source[n] # Dir /\ (stream.ended \/ Unfilled) ->
              SendReturns("error") /\ UNCHANGED stream
         [] OTHER ->
              /\ sender' = [sender EXCEPT !.step = "body", !.stat = Source[n]]
              /\ IF Source[n] = Empty THEN Put(n, Empty) ELSE UNCHANGED stream
  /\ UNCHANGED <<vars, receiver, replica, transfers>>

\* The file is opened and copied.  One that is gone, or longer than announced,
\* ends the walk; one that is gone or shorter leaves its entry unfilled.
SendBody ==
  /\ sender.step = "body"
  /\ LET n == First(sender.todo)
         here == n \in DOMAIN Source
         tooLong == here /\ sender.stat = Empty /\ Source[n] # Empty
         broken == stream.ended /\ sender.stat # Empty
     IN  /\ IF ~ here \/ tooLong \/ broken
              THEN SendReturns("error")
              ELSE sender' = [sender EXCEPT !.step = "visit", !.todo = @ \ {n}]
         /\ CASE stream.ended -> UNCHANGED stream
              [] ~ stream.ended /\ sender.stat = Empty ->
                   stream' = [stream EXCEPT !.ended = ~ here \/ tooLong]
              [] OTHER -> Put(n, IF here /\ Source[n] \in Data THEN Source[n] ELSE Torn)
  /\ UNCHANGED <<vars, receiver, replica, transfers>>

SendDone ==
  /\ sender.step = "visit"
  /\ sender.todo = {}
  /\ SendReturns("nil")
  /\ Close
  /\ UNCHANGED <<vars, receiver, replica, transfers>>

\* The connection breaks while Send is at work, between two entries or within
\* the one that is being written.
Break ==
  /\ sender.step \in Busy
  /\ ~ stream.ended
  /\ \/ NoMoreComes
     \/ sender.step = "visit" /\ ~ Unfilled /\ Cut(CutHeader)
     \/ sender.step = "body" /\ sender.stat # Empty /\ Cut(Entry(First(sender.todo), Torn))
  /\ UNCHANGED <<vars, sender, receiver, replica, transfers>>

\* Send has returned and left the stream open; its caller may close w, or not.
Hangup ==
  /\ sender.step \notin Busy
  /\ ~ stream.ended
  /\ NoMoreComes
  /\ UNCHANGED <<vars, sender, receiver, replica, transfers>>

-----------------------------------------------------------------------------
Unpack(e) == replica' = With(replica, sender.id, With(Target, e.node, e.body))

\* (Mutant: a file that is already there is taken for received.)
SkipExisting(e) ==
  IF e.node \in DOMAIN Target THEN UNCHANGED replica ELSE Unpack(e)

\* A file is created, or emptied, and filled as far as the stream goes.
WriteTarget(e) == Unpack(e)

\* Receive takes the next entry: it fails on a header that is cut short, on a
\* file it may not open for writing (they are made read-only), and, having
\* filled what there is, on a body that is cut short by the stream's end; it
\* waits for the rest of a body while the stream is open.
ReceiveEntry ==
  /\ receiver = "next"
  /\ stream.entries # <<>>
  /\ LET e == Head(stream.entries)
         denied == e.node \in DOMAIN Target /\ ~ Superuser
     IN  /\ e.body = Torn /\ ~ denied => stream.ended
         /\ IF e = CutHeader \/ denied THEN UNCHANGED replica ELSE WriteTarget(e)
         /\ IF denied \/ e.body = Torn
              THEN receiver' = "error" /\ UNCHANGED stream
              ELSE UNCHANGED receiver /\ stream' = [stream EXCEPT !.entries = Tail(@)]
  /\ UNCHANGED <<vars, sender, transfers>>

\* (Mutant: a stream without a trailer is waited on.)
WaitForTrailer ==
  /\ receiver = "next"
  /\ stream.entries = <<>> /\ sender.step = "nil"
  /\ receiver' = "nil"
  /\ UNCHANGED <<vars, sender, stream, replica, transfers>>

ReceiveEnd ==
  /\ receiver = "next"
  /\ stream.entries = <<>> /\ stream.ended
  /\ receiver' = "nil"
  /\ UNCHANGED <<vars, sender, stream, replica, transfers>>

\* The disk of the receiving node fails, or Receive is killed, maybe within a
\* file; what was unpacked stays.
ReceiveFails ==
  /\ receiver = "next"
  /\ receiver' = "error"
  /\ \/ UNCHANGED replica
     \/ /\ stream.entries # <<>> /\ Head(stream.entries) # CutHeader
        /\ Head(stream.entries).node \in DOMAIN Target => Superuser
        /\ Unpack(Entry(Head(stream.entries).node, Torn))
  /\ UNCHANGED <<vars, sender, stream, transfers>>

-----------------------------------------------------------------------------
\* The mount and its retention loop go on at the source.
MountStep ==
  /\ Next
  /\ sender' = [sender EXCEPT !.kept = @ /\ sender.id \in returned']
  /\ UNCHANGED <<stream, receiver, replica, transfers>>

SendStep == SendWalk \/ SendHeader \/ SendBody \/ SendDone
ReceiveStep == ReceiveEntry \/ ReceiveEnd

RNext ==
  \/ MountStep \/ StartTransfer
  \/ SendStep \/ Break \/ Hangup
  \/ ReceiveStep \/ ReceiveFails

RSpec == RInit /\ [][RNext]_rVars

\* Both functions run on; nobody has to start a transfer.
RFairSpec == RSpec /\ WF_rVars(SendStep) /\ WF_rVars(ReceiveStep)

-----------------------------------------------------------------------------
\* When Send and Receive of a version that Commit had returned have both
\* returned nil, every file the source still holds of it is at the other node
\* and is the same, whatever earlier attempts left behind there
\* (replicate.go:29 and 55).
ReplicaComplete ==
  sender.step = "nil" /\ receiver = "nil" /\ sender.kept =>
    LET held == Regular(Source)
    IN  \A n \in DOMAIN held : n \in DOMAIN Target /\ Target[n] = held[n]

\* No transfer hangs, also when the version is pruned under Send and when the
\* stream ends anywhere: Send returns, and so does Receive, but for one case,
\* that it waits for the rest of an entry which Send left unfilled when it
\* returned (replicate.go:30) and nobody has closed w.
Starved == /\ stream.entries # <<>> /\ Head(stream.entries).body = Torn
           /\ ~ stream.ended
TransfersEnd == sender.step \in Busy \/ receiver = "next" ~>
                  sender.step \notin Busy /\ (receiver # "next" \/ Starved)
=============================================================================
