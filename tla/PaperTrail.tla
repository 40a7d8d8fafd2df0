------------------------------ MODULE PaperTrail -------------------------------
(***************************************************************************)
(* What is left of an approval on disk: the diagnostic file of its id and  *)
(* the audit file of the day it was decided on, written by the lifecycle   *)
(* sink of winvibe-app (lifecycle_sink.rs, audit/, diagnostic/), and the   *)
(* clean-up that every start of the application runs over both             *)
(* directories (lib.rs, audit/cleanup.rs, diagnostic/cleanup.rs).          *)
(*                                                                         *)
(* The store is ApprovalStore, here across restarts: it starts empty with  *)
(* every boot, the files stay.  The trace ids that it draws are named by   *)
(* the boot and the revision they were drawn at.  The audit channel, its   *)
(* writer and the exit sequence are AuditTrail; here a record that was     *)
(* handed over is written, fails, or is lost with the process.             *)
(***************************************************************************)
EXTENDS ApprovalStore, FiniteSetsExt

CONSTANTS
  Traces,               \* the trace ids of the hooks: TRACEPARENT, or drawn by the hook
  HudTrace,             \* those that the HUD and the exit sequence draw
  AuditAge, DiagAge,    \* how long files are kept: 30 and 7 days
  TTL,
  MaxTime, MaxRevision, MaxBoots  \* bounds on the clock, submissions of a boot, boots

ASSUME TrailAssumption ==
  /\ {AuditAge, DiagAge, TTL, MaxTime, MaxRevision, MaxBoots} \subseteq Nat
  /\ HudTrace \notin Traces

VARIABLES
  store,    \* the approval store of the running process
  now,      \* the wall clock, which does not go back
  boot,     \* how many times the application was started
  running,  \* whether it runs
  request,  \* the submission under way
  resolver, \* "hud", "exit" -> the resolution it is about to announce, or None
  spawned,  \* audit records on their way to the file
  files,    \* name -> the entries of that file: {} when there is none
  cleaner,  \* the clean-up thread
  told,     \* history: the decisions that submissions were answered
  damaged   \* history: diagnostic files that miss a failed write or were deleted

vars == <<store, now, boot, running, request, resolver, spawned, files, cleaner,
          told, damaged>>
process == <<store, boot, running, request, resolver, spawned>>

None == [pc |-> "none"]

(* One diagnostic file per approval id, one audit file per day of decision. *)
DiagFile(id)   == <<"diagnostics", id>>
AuditFile(day) == <<"audit", day>>
Diagnostics == {DiagFile(id) : id \in Ids}
Audits      == {AuditFile(day) : day \in 0..MaxTime}
Names       == Audits \cup Diagnostics

Init ==
  /\ store = NewStore
  /\ now = 0
  /\ boot = 0
  /\ running = FALSE
  /\ request = None
  /\ resolver = [r \in {"hud", "exit"} |-> None]
  /\ spawned = {}
  /\ files = [f \in Names |-> {}]
  /\ cleaner = None
  /\ told = {}
  /\ damaged = {}

Drawn(revision) == <<boot, revision>>
TraceOf(id) == Drawn(store.by_id[id].trace_id)

(* Appending creates the file.  An error is logged and otherwise ignored. *)
AppendTo(name, entry) ==
  \/ /\ files' = [files EXCEPT ![name] = @ \cup {entry}]
     /\ UNCHANGED damaged
  \/ /\ damaged' = damaged \cup ({name} \cap Diagnostics)
     /\ UNCHANGED files

--------------------------------------------------------------------------------
(* Submissions: the entry of approval_pushed carries the trace of the request, not
   the one of the approval, which was drawn under the store lock. *)

Submit(id, fp, trace) ==
  LET expired == ExpireDuePending(store, now)
      outcome == EnqueueOutcome(expired, id, fp)
  IN /\ running /\ request = None /\ store.revision < MaxRevision
     /\ store' = Enqueue(expired, id, fp, now, TTL)
     /\ request' = CASE outcome = "Created"  -> [pc |-> "push", id |-> id, trace |-> trace]
                     [] outcome = "Existing" -> [pc |-> "repeat", id |-> id, trace |-> HudTrace]
                     [] OTHER                -> None
     /\ UNCHANGED <<now, boot, running, resolver, spawned, files, cleaner, told, damaged>>

\* mutant of Received: the entry carries the trace of the approval
ReceivedUnderOwnTrace(id, trace) ==
  [kind |-> "server.received", trace |-> TraceOf(id), at |-> now]

Received(id, trace) ==
  [kind |-> "server.received", trace |-> trace, at |-> now]

(* A resolver may have been faster: the entries of a file are in no fixed order. *)
Push ==
  /\ request.pc = "push"
  /\ AppendTo(DiagFile(request.id), Received(request.id, request.trace))
  /\ request' = [request EXCEPT !.pc = "wait"]
  /\ UNCHANGED <<store, now, boot, running, resolver, spawned, cleaner, told>>

(* The client that created the approval, or one that repeats it, is answered. *)
Answer ==
  LET id == request.id
      Verdict == [approval_trace |-> TraceOf(id), decision |-> store.by_id[id].state,
                  id |-> id,
                  trace |-> IF request.pc = "wait" THEN request.trace ELSE HudTrace]
  IN /\ request.pc \in {"wait", "repeat"}
     /\ told' = IF Knows(store, id) /\ IsDecided(store.by_id[id])
                  THEN told \cup {Verdict} ELSE told
     /\ request' = None
     /\ UNCHANGED <<store, now, boot, running, resolver, spawned, files, cleaner, damaged>>

(* Before the push the approval stays without an entry, and without an event. *)
HangUp ==
  /\ request.pc \in {"push", "wait"}
  /\ request' = None
  /\ UNCHANGED <<store, now, boot, running, resolver, spawned, files, cleaner, told, damaged>>

--------------------------------------------------------------------------------
(* Resolutions *)

\* mutant of Resolution: the approval is copied before it is decided
ResolutionCopiedEarly(s, id) ==
  [pc |-> "announce", id |-> id, fingerprint |-> s.by_id[id].fingerprint,
   decision |-> store.by_id[id].state, approval_trace |-> Drawn(s.by_id[id].trace_id),
   decision_trace |-> Drawn(s.revision), decided_on |-> now]

Resolution(s, id) ==
  [pc |-> "announce", id |-> id, fingerprint |-> s.by_id[id].fingerprint,
   decision |-> s.by_id[id].state, approval_trace |-> Drawn(s.by_id[id].trace_id),
   decision_trace |-> Drawn(s.revision), decided_on |-> now]

Resolves(r, id, resolved) ==
  /\ store' = resolved
  /\ resolver' = IF resolved # store /\ Knows(resolved, id) /\ IsDecided(resolved.by_id[id])
                   THEN [resolver EXCEPT ![r] = Resolution(resolved, id)] ELSE resolver
  /\ UNCHANGED <<now, boot, running, request, spawned, files, cleaner, told, damaged>>

HudDecides(id, decision) ==
  LET expired == ExpireDuePending(store, now)
  IN /\ running /\ resolver["hud"] = None
     /\ DecideOutcome(expired, id) = "Ok"
     /\ Resolves("hud", id, Decide(expired, id, decision))

ExitCancels ==
  /\ running /\ resolver["exit"] = None
  /\ store.active # NoId
  /\ Resolves("exit", store.active, Cancel(store, store.active))

TakesSnapshot ==
  /\ running
  /\ store' = ExpireDuePending(store, now)
  /\ UNCHANGED <<now, boot, running, request, resolver, spawned, files, cleaner, told, damaged>>

\* mutant of Decided: the entry names the resolver's trace twice
DecidedWithoutLink(a) ==
  [kind |-> "server.decided", trace |-> HudTrace, approval_trace |-> HudTrace, at |-> now]

Decided(a) ==
  [kind |-> "server.decided", trace |-> HudTrace, approval_trace |-> a.approval_trace,
   at |-> now]

\* mutant of AuditDecision: the two kinds that no user gave are merged
AuditDecisionMerged(decision) ==
  IF decision \in UserDecisions THEN decision ELSE "TimedOut"

AuditDecision(decision) == decision

AuditRecord(a) ==
  [id |-> a.id, fingerprint |-> a.fingerprint, decision |-> AuditDecision(a.decision),
   approval_trace |-> a.approval_trace, decision_trace |-> a.decision_trace,
   decided_on |-> a.decided_on]

(* approval_resolved: the diagnostic entry at once, the record by a spawned task. *)
Announce(r) ==
  LET a == resolver[r]
  IN /\ a # None
     /\ AppendTo(DiagFile(a.id), Decided(a))
     /\ spawned' = spawned \cup {AuditRecord(a)}
     /\ resolver' = [resolver EXCEPT ![r] = None]
     /\ UNCHANGED <<store, now, boot, running, request, cleaner, told>>

AuditEntry(record) == [kind |-> "audit", record |-> record, at |-> now]

(* The file is that of the day of the decision, whenever it is written. *)
WriteAudit ==
  /\ \E record \in spawned :
       /\ spawned' = spawned \ {record}
       /\ AppendTo(AuditFile(record.decided_on), AuditEntry(record))
  /\ UNCHANGED <<store, now, boot, running, request, resolver, cleaner, told>>

--------------------------------------------------------------------------------
(* The clean-up: a thread of its own, first over the audit files, then over the
   diagnostic ones.  A second instance runs it too before it fails to get the port. *)

Listing(directory) == {f \in directory : files[f] # {}}

Launch ==
  /\ cleaner = None
  /\ cleaner' = [pc |-> "look", directory |-> Audits, todo |-> Listing(Audits),
                 began |-> now, stuck |-> {}, file |-> <<>>, seen |-> {}]
  /\ \/ /\ ~ running /\ boot < MaxBoots
        /\ boot' = boot + 1 /\ running' = TRUE /\ store' = NewStore
     \/ running /\ UNCHANGED <<boot, running, store>>
  /\ UNCHANGED <<now, request, resolver, spawned, files, told, damaged>>

\* mutant of Modified: the time of creation
FirstWritten(f) == Min({e.at : e \in files[f]})

(* The mtime of a file is the time of the last append. *)
Modified(f) == Max({e.at : e \in files[f]})

\* mutant of MaxAge: the ages are swapped
MaxAgeSwapped(f) == IF f \in Audits THEN DiagAge ELSE AuditAge

MaxAge(f) == IF f \in Audits THEN AuditAge ELSE DiagAge

(* The mtime of one file is read and compared with the time.  A file that is gone
   by then is passed over. *)
Look ==
  /\ cleaner.pc = "look"
  /\ \E f \in cleaner.todo :
       cleaner' =
         IF files[f] # {} /\ now - Modified(f) > MaxAge(f)
           THEN [cleaner EXCEPT !.pc = "remove", !.file = f, !.seen = files[f]]
           ELSE [cleaner EXCEPT !.todo = @ \ {f}]
  /\ UNCHANGED <<process, now, files, told, damaged>>

(* What was appended since the look goes too.  A failure is logged. *)
Remove ==
  LET f == cleaner.file
      passed == [cleaner EXCEPT !.pc = "look", !.todo = @ \ {f}, !.file = <<>>, !.seen = {}]
  IN /\ cleaner.pc = "remove"
     /\ \/ /\ files' = [files EXCEPT ![f] = {}]
           /\ damaged' = damaged \cup ({f} \cap Diagnostics)
           /\ cleaner' = passed
        \/ /\ cleaner' = [passed EXCEPT !.stuck = @ \cup {f}]
           /\ UNCHANGED <<files, damaged>>
     /\ UNCHANGED <<process, now, told>>

NextDirectory ==
  /\ cleaner.pc = "look" /\ cleaner.todo = {}
  /\ cleaner' = IF cleaner.directory = Audits
                  THEN [cleaner EXCEPT !.directory = Diagnostics,
                                       !.todo = Listing(Diagnostics)]
                  ELSE None
  /\ UNCHANGED <<process, now, files, told, damaged>>

(* A second instance ends when the port is taken, its thread with it. *)
SecondInstanceEnds ==
  /\ running /\ cleaner # None
  /\ cleaner' = None
  /\ UNCHANGED <<process, now, files, told, damaged>>

(* The process ends, in the middle of anything. *)
Stop ==
  /\ running
  /\ running' = FALSE
  /\ request' = None /\ resolver' = [r \in {"hud", "exit"} |-> None] /\ spawned' = {}
  /\ cleaner' = None
  /\ UNCHANGED <<store, now, boot, files, told, damaged>>

Tick ==
  /\ now < MaxTime
  /\ now' = now + 1
  /\ UNCHANGED <<process, files, cleaner, told, damaged>>

CleanUp == Look \/ Remove \/ NextDirectory \/ SecondInstanceEnds

Next ==
  \/ \E id \in Ids, fp \in Fingerprints, t \in Traces : Submit(id, fp, t)
  \/ Push \/ Answer \/ HangUp
  \/ \E id \in Ids, d \in UserDecisions : HudDecides(id, d)
  \/ ExitCancels \/ TakesSnapshot
  \/ \E r \in {"hud", "exit"} : Announce(r)
  \/ WriteAudit
  \/ Launch \/ CleanUp \/ Stop \/ Tick

Spec == Init /\ [][Next]_vars

--------------------------------------------------------------------------------
(* The type invariant. *)
TypeOK ==
  LET Drawns   == (0..MaxBoots) \X Nat
      Days     == 0..MaxTime
      Record   == [id : Ids, fingerprint : Fingerprints, decision : Decisions,
                   approval_trace : Drawns, decision_trace : Drawns, decided_on : Days]
  IN /\ StoreType(store)
     /\ now \in Days /\ boot \in 0..MaxBoots /\ running \in BOOLEAN
     /\ \A r \in DOMAIN resolver : resolver[r] # None => AuditRecord(resolver[r]) \in Record
     /\ spawned \subseteq Record
     /\ \A f \in Names : \A e \in files[f] :
          /\ e.at \in Days
          /\ e.kind \in IF f \in Audits THEN {"audit"} ELSE {"server.received", "server.decided"}
     /\ damaged \subseteq Diagnostics
     /\ ~ running => request = None /\ spawned = {} /\ cleaner = None

Audited == {e.record : e \in UNION {files[f] : f \in Audits}}

(* One approval, one story: the audit file, the answers that hooks were given, and
   the history in the HUD agree on how it ended, whatever was evicted, resubmitted
   or restarted since. *)
OneStory ==
  \A r \in Audited :
    /\ \A v \in told : v.approval_trace = r.approval_trace => v.decision = r.decision
    /\ \A q \in Audited : q.approval_trace = r.approval_trace =>
         q.decision = r.decision /\ q.decision_trace = r.decision_trace
    /\ (running /\ Knows(store, r.id) /\ TraceOf(r.id) = r.approval_trace) =>
         store.by_id[r.id].state = r.decision

(* From an audit record one finds the entry of its resolution, in the diagnostic
   file of its id and by the trace of the approval, as long as that file is whole. *)
AuditLeadsToDiagnostics ==
  \A r \in Audited : DiagFile(r.id) \notin damaged =>
    \E e \in files[DiagFile(r.id)] :
      e.kind = "server.decided" /\ e.approval_trace = r.approval_trace

(* From the trace of a hook whose submission was decided one finds the file of its
   approval. *)
HookTraceLeadsToDiagnostics ==
  \A v \in told : v.trace \in Traces /\ DiagFile(v.id) \notin damaged =>
    \E e \in files[DiagFile(v.id)] : e.kind = "server.received" /\ e.trace = v.trace

(* Nothing that is younger than its time is deleted, except what was appended
   between the look at a file and its removal. *)
RetentionKept ==
  [][\A name \in Names : \A e \in files[name] \ files'[name] :
       \/ now - e.at > (IF e.kind = "audit" THEN AuditAge ELSE DiagAge)
       \/ e \notin cleaner.seen]_vars

(* A clean-up leaves no file that was too old when it began, unless its removal
   failed. *)
CleanUpIsThorough ==
  cleaner # None => \A f \in Names :
    LET Passed == cleaner.directory = Diagnostics /\ f \notin cleaner.todo
        TooOld == \A e \in files[f] :
                    cleaner.began - e.at > (IF e.kind = "audit" THEN AuditAge ELSE DiagAge)
    IN Passed /\ files[f] # {} /\ TooOld => f \in cleaner.stuck
================================================================================
