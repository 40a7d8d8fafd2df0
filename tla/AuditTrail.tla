------------------------------ MODULE AuditTrail -------------------------------
(***************************************************************************)
(* How a resolution reaches the audit file, and what the exit sequence     *)
(* makes of it: the lifecycle sink of winvibe-app (lifecycle_sink.rs), its *)
(* bounded audit channel with one writer task (audit/sink.rs), the         *)
(* graceful shutdown of the hook server (winvibe-hook-server/server.rs)    *)
(* and the close handler (lib.rs).                                         *)
(*                                                                         *)
(* An approval is named by its audit record.  The sink spawns a task for   *)
(* each resolution, the task sends the record to the channel when there is *)
(* room, and the writer takes messages in order.  Every CloseRequested     *)
(* event starts a close sequence of its own.                               *)
(***************************************************************************)
EXTENDS Integers, Sequences, SequencesExt, FiniteSets

CONSTANTS
  Records,         \* the approvals, each with the record it may leave
  Closers,         \* the close requests of the user
  Capacity         \* of the audit channel: 256

ASSUME AuditAssumption == Capacity \in Nat \ {0}

VARIABLES
  accepting,  \* the flag of the runtime
  request,    \* record -> its submission: "none", "arrived", "open", "closed"
  record,     \* record -> how far it is on its way to the file
  channel,    \* the messages in the audit channel
  writer,     \* "running", "stopped"
  file,       \* the records in the audit file
  shutting,   \* the shutting_down flag of the server handle
  closer,     \* close request -> where its sequence is
  covered,    \* close request -> the records that were queued before its flush
  cancelled,  \* the approvals that a close sequence has cancelled
  window      \* "open", "closed": the event loop ends with the window

vars == <<accepting, request, record, channel, writer, file, shutting, closer,
          covered, cancelled, window>>

Message(kind, from) == [kind |-> kind, from |-> from]

Init ==
  /\ accepting = TRUE
  /\ request = [r \in Records |-> "none"]
  /\ record = [r \in Records |-> "none"]
  /\ channel = <<>>
  /\ writer = "running"
  /\ file = <<>>
  /\ shutting = FALSE
  /\ closer = [c \in Closers |-> "idle"]
  /\ covered = [c \in Closers |-> {}]
  /\ cancelled = {}
  /\ window = "open"

Pending == {r \in Records : record[r] = "pending"}
Running == window = "open"
HasRoom == Len(channel) < Capacity
At(c, pc) == closer[c] = pc
Goto(c, pc) == closer' = [closer EXCEPT ![c] = pc]

--------------------------------------------------------------------------------
(* Submissions, as far as the exit sequence meets them. *)

(* The flag is read first; the server takes no request once it is told to stop. *)
RequestArrives(r) ==
  /\ Running /\ accepting /\ ~ shutting
  /\ request[r] = "none"
  /\ request' = [request EXCEPT ![r] = "arrived"]
  /\ UNCHANGED <<accepting, record, channel, writer, file, shutting, closer, covered,
                 cancelled, window>>

(* At most one approval is pending: another is refused. *)
RequestEnqueued(r) ==
  /\ Running
  /\ request[r] = "arrived"
  /\ IF Pending = {}
       THEN /\ request' = [request EXCEPT ![r] = "open"]
            /\ record' = [record EXCEPT ![r] = "pending"]
       ELSE /\ request' = [request EXCEPT ![r] = "closed"]
            /\ UNCHANGED record
  /\ UNCHANGED <<accepting, channel, writer, file, shutting, closer, covered, cancelled,
                 window>>

(* The request is answered, at the latest when its wait is over. *)
RequestAnswered(r) ==
  /\ Running
  /\ request[r] = "open"
  /\ request' = [request EXCEPT ![r] = "closed"]
  /\ UNCHANGED <<accepting, record, channel, writer, file, shutting, closer, covered,
                 cancelled, window>>

--------------------------------------------------------------------------------
(* The sink and the audit channel. *)

(* approval_resolved spawns the task that will send the record. *)
Resolved(r) == record' = [record EXCEPT ![r] = "spawned"]

(* An expiry frees the slot; the sink is not called. *)
Expires(r) ==
  /\ Running
  /\ r \in Pending
  /\ record' = [record EXCEPT ![r] = "expired"]
  /\ UNCHANGED <<accepting, request, channel, writer, file, shutting, closer, covered,
                 cancelled, window>>

HudDecides(r) ==
  /\ Running
  /\ r \in Pending
  /\ Resolved(r)
  /\ UNCHANGED <<accepting, request, channel, writer, file, shutting, closer, covered,
                 cancelled, window>>

\* mutant of SendRecord: a full channel drops the record
SendRecordOrDrop(r) ==
  /\ Running
  /\ record[r] = "spawned"
  /\ IF writer = "running" /\ HasRoom
       THEN /\ channel' = Append(channel, Message("write", r))
            /\ record' = [record EXCEPT ![r] = "queued"]
       ELSE /\ record' = [record EXCEPT ![r] = "lost"]
            /\ UNCHANGED channel
  /\ UNCHANGED <<accepting, request, writer, file, shutting, closer, covered, cancelled,
                 window>>

\* mutant of SendRecord: the record is sent without waiting for room
SendRecordUnbounded(r) ==
  /\ Running /\ writer = "running"
  /\ record[r] = "spawned"
  /\ channel' = Append(channel, Message("write", r))
  /\ record' = [record EXCEPT ![r] = "queued"]
  /\ UNCHANGED <<accepting, request, writer, file, shutting, closer, covered, cancelled,
                 window>>

(* The task waits for room; when the receiver is gone the record is lost. *)
SendRecord(r) ==
  /\ Running
  /\ record[r] = "spawned"
  /\ \/ /\ writer = "running" /\ HasRoom
        /\ channel' = Append(channel, Message("write", r))
        /\ record' = [record EXCEPT ![r] = "queued"]
     \/ /\ writer = "stopped"
        /\ record' = [record EXCEPT ![r] = "lost"]
        /\ UNCHANGED channel
  /\ UNCHANGED <<accepting, request, writer, file, shutting, closer, covered, cancelled,
                 window>>

\* mutant of WriterWrites: the message is looked at but not taken
WriterWritesAgain ==
  /\ Running /\ writer = "running"
  /\ channel # <<>> /\ Head(channel).kind = "write"
  /\ file' = Append(file, Head(channel).from)
  /\ record' = [record EXCEPT ![Head(channel).from] = "written"]
  /\ UNCHANGED <<accepting, request, channel, writer, shutting, closer, covered,
                 cancelled, window>>

(* A failing write is ignored. *)
WriterWrites ==
  /\ Running /\ writer = "running"
  /\ channel # <<>> /\ Head(channel).kind = "write"
  /\ LET r == Head(channel).from
     IN \/ /\ file' = Append(file, r)
           /\ record' = [record EXCEPT ![r] = "written"]
        \/ /\ record' = [record EXCEPT ![r] = "failed"]
           /\ UNCHANGED file
  /\ channel' = Tail(channel)
  /\ UNCHANGED <<accepting, request, writer, shutting, closer, covered, cancelled,
                 window>>

\* mutant of WriterFlushes: the reply overtakes the queue
WriterFlushesEarly ==
  /\ Running /\ writer = "running"
  /\ \E k \in 1..Len(channel) :
       /\ channel[k].kind = "flush"
       /\ Goto(channel[k].from, "stop_audit")
       /\ channel' = RemoveAt(channel, k)
  /\ UNCHANGED <<accepting, request, record, writer, file, shutting, covered, cancelled,
                 window>>

WriterFlushes ==
  /\ Running /\ writer = "running"
  /\ channel # <<>> /\ Head(channel).kind = "flush"
  /\ Goto(Head(channel).from, "stop_audit")
  /\ channel' = Tail(channel)
  /\ UNCHANGED <<accepting, request, record, writer, file, shutting, covered, cancelled,
                 window>>

(* Where a close sequence goes on when its flush or shutdown has returned. *)
AfterReply(kind) == IF kind = "flush" THEN "stop_audit" ELSE "close"

Senders(kinds) == {channel[k].from : k \in {j \in 1..Len(channel) : channel[j].kind \in kinds}}

\* mutant of WriterStops: what is left in the channel is kept, unanswered
WriterStopsHoarding ==
  /\ Running /\ writer = "running"
  /\ channel # <<>> /\ Head(channel).kind = "shutdown"
  /\ writer' = "stopped"
  /\ Goto(Head(channel).from, "close")
  /\ channel' = Tail(channel)
  /\ UNCHANGED <<accepting, request, record, file, shutting, covered, cancelled,
                 window>>

(* The loop ends: the receiver and all that is queued behind are dropped.  A
   dropped flush or shutdown returns to its caller as a success. *)
WriterStops ==
  /\ Running /\ writer = "running"
  /\ channel # <<>> /\ Head(channel).kind = "shutdown"
  /\ writer' = "stopped"
  /\ closer' = [c \in Closers |->
       IF c \in Senders({"flush"}) THEN "stop_audit"
       ELSE IF c \in Senders({"shutdown"}) THEN "close" ELSE closer[c]]
  /\ record' = [r \in Records |->
       IF r \in Senders({"write"}) THEN "lost" ELSE record[r]]
  /\ channel' = <<>>
  /\ UNCHANGED <<accepting, request, file, shutting, covered, cancelled, window>>

--------------------------------------------------------------------------------
(* The close sequence: begin_shutdown, cancel_all_pending, server shutdown, audit
   flush, audit shutdown, window.close(). *)

CloseRequested(c) ==
  /\ Running
  /\ At(c, "idle")
  /\ Goto(c, "begin")
  /\ UNCHANGED <<accepting, request, record, channel, writer, file, shutting, covered,
                 cancelled, window>>

BeginShutdown(c) ==
  /\ Running
  /\ At(c, "begin")
  /\ accepting' = FALSE
  /\ Goto(c, "cancel")
  /\ UNCHANGED <<request, record, channel, writer, file, shutting, covered, cancelled,
                 window>>

CancelPending(c) ==
  /\ Running
  /\ At(c, "cancel")
  /\ IF Pending = {} THEN UNCHANGED record ELSE \E r \in Pending : Resolved(r)
  /\ cancelled' = cancelled \cup Pending
  /\ Goto(c, "stop_server")
  /\ UNCHANGED <<accepting, request, channel, writer, file, shutting, covered, window>>

(* The first caller waits for the open requests, any other returns at once. *)
StopServer(c) ==
  /\ Running
  /\ At(c, "stop_server")
  /\ shutting' = TRUE
  /\ Goto(c, IF shutting THEN "flush" ELSE "drain")
  /\ UNCHANGED <<accepting, request, record, channel, writer, file, covered, cancelled,
                 window>>

ServerDrained(c) ==
  /\ Running
  /\ At(c, "drain")
  /\ \A r \in Records : request[r] \in {"none", "closed"}
  /\ Goto(c, "flush")
  /\ UNCHANGED <<accepting, request, record, channel, writer, file, shutting, covered,
                 cancelled, window>>

(* Flush and shutdown wait for room in the channel, then for a reply. *)
Ask(c, kind, from, waiting) ==
  /\ Running
  /\ At(c, from)
  /\ \/ /\ writer = "running" /\ HasRoom
        /\ channel' = Append(channel, Message(kind, c))
        /\ Goto(c, waiting)
     \/ /\ writer = "stopped"
        /\ Goto(c, AfterReply(kind))
        /\ UNCHANGED channel

AskFlush(c) ==
  /\ Ask(c, "flush", "flush", "flushing")
  /\ covered' = [covered EXCEPT ![c] = Senders({"write"})]
  /\ UNCHANGED <<accepting, request, record, writer, file, shutting, cancelled, window>>

AskShutdown(c) ==
  /\ Ask(c, "shutdown", "stop_audit", "stopping_audit")
  /\ UNCHANGED <<accepting, request, record, writer, file, shutting, covered, cancelled,
                 window>>

(* window.close() ends the event loop, or raises CloseRequested once more: then the
   handler prevents it again and starts over. *)
CloseWindow(c) ==
  /\ Running
  /\ At(c, "close")
  /\ \/ Goto(c, "done") /\ window' = "closed"
     \/ Goto(c, "begin") /\ UNCHANGED window
  /\ UNCHANGED <<accepting, request, record, channel, writer, file, shutting, covered,
                 cancelled>>

CloserStep(c) ==
  \/ BeginShutdown(c) \/ CancelPending(c) \/ StopServer(c) \/ ServerDrained(c)
  \/ AskFlush(c) \/ AskShutdown(c) \/ CloseWindow(c)

WriterStep == WriterWrites \/ WriterFlushes \/ WriterStops

Next ==
  \/ \E r \in Records :
       RequestArrives(r) \/ RequestEnqueued(r) \/ RequestAnswered(r)
         \/ Expires(r) \/ HudDecides(r) \/ SendRecord(r)
  \/ WriterStep
  \/ \E c \in Closers : CloseRequested(c) \/ CloserStep(c)

(* tokio runs every task that is ready, the channel serves waiting senders in turn,
   requests are answered within 25 seconds; clients and the user owe nothing. *)
Fairness ==
  /\ WF_vars(WriterStep)
  /\ \A r \in Records :
       WF_vars(RequestEnqueued(r)) /\ WF_vars(RequestAnswered(r)) /\ SF_vars(SendRecord(r))
  /\ \A c \in Closers : SF_vars(CloserStep(c))

Spec == Init /\ [][Next]_vars
FairSpec == Spec /\ Fairness

--------------------------------------------------------------------------------
(* The type invariant. *)
TypeOK ==
  /\ accepting \in BOOLEAN
  /\ request \in [Records -> {"none", "arrived", "open", "closed"}]
  /\ record \in [Records -> {"none", "pending", "spawned", "queued", "written",
                             "failed", "lost", "expired"}]
  /\ channel \in Seq([kind : {"write"}, from : Records]
                       \cup [kind : {"flush", "shutdown"}, from : Closers])
  /\ Len(channel) <= Capacity
  /\ writer \in {"running", "stopped"}
  /\ file \in Seq(Records)
  /\ shutting \in BOOLEAN
  /\ closer \in [Closers -> {"idle", "begin", "cancel", "stop_server", "drain", "flush",
                             "flushing", "stop_audit", "stopping_audit", "close", "done"}]
  /\ covered \in [Closers -> SUBSET Records]
  /\ cancelled \subseteq Records
  /\ window \in {"open", "closed"}

(* A record is on its way once: what is queued is in the channel exactly once and
   not in the file, what is written is in the file exactly once. *)
RecordsOnce ==
  \A r \in Records :
    /\ Cardinality({k \in 1..Len(channel) : channel[k] = Message("write", r)})
         = (IF record[r] = "queued" THEN 1 ELSE 0)
    /\ Cardinality({k \in 1..Len(file) : file[k] = r})
         = (IF record[r] = "written" THEN 1 ELSE 0)

(* When the writer answers a flush, every record that was queued before it has been
   handed to the file system.  A flush that the shutdown of another close sequence
   drops returns Ok as well, and promises nothing. *)
FlushCovers ==
  [][\A c \in Closers : At(c, "flushing") /\ closer'[c] # "flushing" /\ writer' = "running" =>
       \A r \in covered[c] : record[r] \in {"written", "failed"}]_vars

(* Back-pressure never costs a record: one is lost only after some close sequence
   has asked the writer to stop. *)
LostOnlyAtExit ==
  (\E r \in Records : record[r] = "lost") => writer = "stopped"

(* Every close sequence runs to its end, however many are under way and whatever
   is in the channel: nobody waits for a reply that was dropped. *)
CloseSequencesEnd ==
  \A c \in Closers : closer[c] = "begin" ~> (closer[c] = "close" \/ window = "closed")

--------------------------------------------------------------------------------
(***************************************************************************)
(* What the design document says and the program does not do.              *)
(***************************************************************************)

(* Section 3.5, step 4: the process may exit only when the records of the approvals
   that the exit sequence cancelled have been handed to the file system.  What a late
   submission leaves, which was not cancelled, is left aside. *)
AuditCompleteAtExit ==
  window = "closed" => \A r \in cancelled : record[r] \in {"written", "failed"}
================================================================================
