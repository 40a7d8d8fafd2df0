--------------------------- MODULE PaperTrailProofs ----------------------------
(***************************************************************************)
(* What the files tell of an approval, proved for any ids, payloads,       *)
(* traces, ages of files, number of days and of boots.  The invariant      *)
(* says that a trace that was drawn is never drawn again, that what was    *)
(* said of an approval under its trace fits what the store knows, and what *)
(* a clean-up has seen to so far.                                          *)
(***************************************************************************)
EXTENDS PaperTrail, ApprovalStoreLemmas, WellFoundedInduction

Resolvers == {"hud", "exit"}
Drawns    == (0..MaxBoots) \X Nat

Requests ==
  [pc : {"push", "wait", "repeat"}, id : Ids, trace : Traces \cup {HudTrace}]

Announcements ==
  [pc : {"announce"}, id : Ids, fingerprint : Fingerprints, decision : Decisions,
   approval_trace : Drawns, decision_trace : Drawns, decided_on : 0..MaxTime]

Records ==
  [id : Ids, fingerprint : Fingerprints, decision : Decisions,
   approval_trace : Drawns, decision_trace : Drawns, decided_on : 0..MaxTime]

IsCleaner(c) ==
  /\ DOMAIN c = {"pc", "directory", "todo", "began", "stuck", "file", "seen"}
  /\ c.pc \in {"look", "remove"}
  /\ c.directory \in {Audits, Diagnostics}
  /\ c.began \in 0..MaxTime

IsEntry(f, e) ==
  /\ e.at \in 0..MaxTime
  /\ e.kind \in IF f \in Audits THEN {"audit"} ELSE {"server.received", "server.decided"}

Typed ==
  /\ Sound(store)
  /\ now \in 0..MaxTime /\ boot \in 0..MaxBoots /\ running \in BOOLEAN
  /\ request \in {None} \cup Requests
  /\ resolver \in [Resolvers -> {None} \cup Announcements]
  /\ spawned \subseteq Records
  /\ DOMAIN files = Names
  /\ \A f \in Names : \A e \in files[f] : IsEntry(f, e)
  /\ cleaner = None \/ IsCleaner(cleaner)
  /\ damaged \subseteq Diagnostics
  /\ ~ running => /\ request = None /\ spawned = {} /\ cleaner = None
                  /\ \A r \in Resolvers : resolver[r] = None

(* A trace that some boot has drawn: not one that the store will draw. *)
Past(drawn) ==
  /\ drawn \in (0..boot) \X Nat
  /\ drawn[1] = boot => drawn[2] <= store.revision

(* What a resolver is about to announce, a record says, or the audit files hold. *)
Claim(a) == [of |-> a.approval_trace, decision |-> a.decision, by |-> a.decision_trace]
Resolutions == {resolver[r] : r \in Resolvers} \ {None}
Claims == {Claim(a) : a \in Resolutions \cup spawned \cup Audited}

FitsStore(trace, decision) ==
  /\ Past(trace)
  /\ decision \in Decisions
  /\ \A i \in DOMAIN store.by_id : TraceOf(i) = trace => store.by_id[i].state = decision

OneEnding ==
  /\ \A c \in Claims : FitsStore(c.of, c.decision)
  /\ \A v \in told : FitsStore(v.approval_trace, v.decision)
  /\ \A c, d \in Claims : c.of = d.of => c = d
  /\ \A c \in Claims, v \in told : v.approval_trace = c.of => v.decision = c.decision

(* The entries that a link promises, in a diagnostic file that is whole. *)
DecidedIsThere(id, trace) ==
  DiagFile(id) \notin damaged =>
    \E e \in files[DiagFile(id)] : e.kind = "server.decided" /\ e.approval_trace = trace

ReceivedIsThere(id, trace) ==
  DiagFile(id) \notin damaged =>
    \E e \in files[DiagFile(id)] : e.kind = "server.received" /\ e.trace = trace

Linked ==
  /\ \A r \in spawned \cup Audited : r.id \in Ids /\ DecidedIsThere(r.id, r.approval_trace)
  /\ \A v \in told : v.id \in Ids /\ (v.trace \in Traces => ReceivedIsThere(v.id, v.trace))
  /\ request.pc = "wait" => ReceivedIsThere(request.id, request.trace)

(* The files that a clean-up has behind it. *)
Age(e) == IF e.kind = "audit" THEN AuditAge ELSE DiagAge

Done(f) ==
  \/ f \in Audits /\ cleaner.directory = Diagnostics
  \/ f \in cleaner.directory /\ f \notin cleaner.todo

Thorough ==
  cleaner # None =>
    /\ cleaner.began <= now
    /\ cleaner.todo \subseteq cleaner.directory
    /\ cleaner.pc = "remove" =>
         /\ cleaner.file \in cleaner.todo
         /\ \A e \in cleaner.seen : e.at \in Nat /\ now - e.at > Age(e)
    /\ \A f \in Names : Done(f) /\ f \notin cleaner.stuck /\ files[f] # {} =>
         \E e \in files[f] : ~ cleaner.began - e.at > Age(e)

Inv == Typed /\ OneEnding /\ Linked /\ Thorough

--------------------------------------------------------------------------------
(* The bounds, one by one. *)
LEMMA Bounds ==
  /\ AuditAge \in Nat /\ DiagAge \in Nat /\ TTL \in Nat
  /\ MaxTime \in Nat /\ MaxBoots \in Nat
  /\ HudTrace \notin Traces
BY TrailAssumption

(* The names of the files of the two directories. *)
LEMMA FileNames ==
  /\ \A id \in Ids : DiagFile(id) \in Diagnostics
  /\ \A day \in 0..MaxTime : AuditFile(day) \in Audits
  /\ Audits \cap Diagnostics = {} /\ Names = Audits \cup Diagnostics
  /\ Audits # Diagnostics
<1>1. \A f \in Audits : f[1] = "audit"
  BY DEF Audits, AuditFile
<1>2. \A f \in Diagnostics : f[1] = "diagnostics"
  BY DEF Diagnostics, DiagFile
<1>3. AuditFile(0) \in Audits
  BY Bounds DEF Audits
<1> QED BY <1>1, <1>2, <1>3 DEF Audits, Diagnostics, Names

(* Naturals are well-founded, as a relation that the provers can look into. *)
Less == {pair \in Nat \X Nat : pair[1] < pair[2]}

LEMMA LessIsWellFounded == IsWellFoundedOn(Less, Nat)
BY NatLessThanWellFounded DEF OpToRel, Less

LEMMA LessIsLess == \A m, n \in Nat : <<m, n>> \in Less <=> m < n
BY DEF Less

(* The latest of some days is one of them: the last is the one that has the
   fewest after it. *)
LEMMA LatestIsLatest ==
  ASSUME NEW days, days \subseteq 0..MaxTime, days # {}
  PROVE  Max(days) \in days /\ \A day \in days : day <= Max(days)
<1> DEFINE left == {MaxTime - day : day \in days}
<1>1. \A day \in days : day \in Nat /\ MaxTime - day \in Nat
  BY Bounds
<1>2. left \subseteq Nat
  BY <1>1
<1>3. left # {}
  OBVIOUS
<1> HIDE DEF left
<1>4. PICK least \in left : \A n \in left : ~ (<<n, least>> \in Less)
  <2>1. \E x \in left : \A y \in left : ~ (<<y, x>> \in Less)
    BY <1>2, <1>3, LessIsWellFounded, WFMin, Zenon
  <2> QED BY <2>1
<1>5. ASSUME NEW n \in left PROVE least <= n
  <2>1. ~ (n < least) /\ n \in Nat /\ least \in Nat
    BY <1>2, <1>4, LessIsLess
  <2> QED BY <2>1
<1>6. PICK last \in days : least = MaxTime - last
  BY <1>4 DEF left
<1>7. ASSUME NEW day \in days PROVE last >= day
  <2>1. MaxTime - day \in left
    BY DEF left
  <2> QED BY <2>1, <1>1, <1>5, <1>6, Bounds
<1>8. Max(days) \in days /\ \A day \in days : Max(days) >= day
  BY <1>7 DEF Max
<1> QED BY <1>1, <1>8

(* A file is as old as its youngest entry. *)
LEMMA ModifiedIsLatest ==
  ASSUME Typed, NEW f \in Names, files[f] # {}
  PROVE  /\ \E e \in files[f] : e.at = Modified(f)
         /\ \A e \in files[f] : e.at <= Modified(f)
<1> DEFINE days == {e.at : e \in files[f]}
<1>1. days \subseteq 0..MaxTime /\ days # {}
  BY DEF Typed, IsEntry
<1>2. Modified(f) = Max(days)
  BY DEF Modified
<1>3. \A e \in files[f] : e.at \in days
  OBVIOUS
<1>4. \A day \in days : \E e \in files[f] : e.at = day
  OBVIOUS
<1> HIDE DEF days
<1> QED BY <1>1, <1>2, <1>3, <1>4, LatestIsLatest

--------------------------------------------------------------------------------
(* How the store of one boot evolves: an approval keeps its trace, and its decision
   once it has one; a new approval has a new trace. *)
KeepsTraces(s, r) ==
  /\ s.revision <= r.revision
  /\ \A i \in DOMAIN r.by_id :
       \/ /\ i \in DOMAIN s.by_id
          /\ r.by_id[i].trace_id = s.by_id[i].trace_id
          /\ IsDecided(s.by_id[i]) => r.by_id[i].state = s.by_id[i].state
       \/ r.by_id[i].trace_id > s.revision

(* To resolve the active approval changes its state alone. *)
LEMMA ResolveKeepsTraces ==
  ASSUME NEW s, Sound(s), s.active # NoId, NEW d \in Decisions
  PROVE  KeepsTraces(s, Resolve(s, s.active, d))
<1> DEFINE r == Resolve(s, s.active, d)
<1>1. /\ s.active \in DOMAIN s.by_id
      /\ r.revision = s.revision + 1
      /\ DOMAIN r.by_id = DOMAIN s.by_id \ Evicted(Append(s.cached_order, s.active))
      /\ \A x \in DOMAIN r.by_id :
           r.by_id[x] = IF x = s.active THEN Settled(s.by_id[x], d) ELSE s.by_id[x]
  BY ResolveShape
<1>2. \A x \in DOMAIN s.by_id : Settled(s.by_id[x], d).trace_id = s.by_id[x].trace_id
  BY SettledFields DEF Sound, StoreType
<1>3. KeepsDecisions({}, s, r) /\ s.revision \in Nat
  BY ResolveKeeps DEF Sound, StoreType
<1> HIDE DEF r
<1>4. KeepsTraces(s, r)
  BY <1>1, <1>2, <1>3 DEF KeepsTraces, KeepsDecisions
<1> QED BY <1>4 DEF r

(* So do a decision, a cancellation and an expiry, whatever they find. *)
LEMMA DecisionsKeepTraces ==
  ASSUME NEW s, Sound(s)
  PROVE  /\ \A t : KeepsTraces(s, ExpireDuePending(s, t))
         /\ \A id : \A d \in Decisions : KeepsTraces(s, Decide(s, id, d))
         /\ \A id : KeepsTraces(s, Cancel(s, id))
<1>1. KeepsTraces(s, s)
  BY DEF KeepsTraces, Sound, StoreType
<1>2. "TimedOut" \in Decisions /\ "Cancelled" \in Decisions
  BY DEF Decisions
<1>3. ASSUME NEW t PROVE KeepsTraces(s, ExpireDuePending(s, t))
  BY <1>1, <1>2, ResolveKeepsTraces DEF ExpireDuePending, IsDue
<1>4. ASSUME NEW id, NEW d \in Decisions PROVE KeepsTraces(s, Decide(s, id, d))
  BY <1>1, DecidableIsActive, ResolveKeepsTraces DEF Decide
<1>5. ASSUME NEW id PROVE KeepsTraces(s, Cancel(s, id))
  BY <1>1, <1>2, DecidableIsActive, ResolveKeepsTraces DEF Cancel
<1> QED BY <1>3, <1>4, <1>5

(* A submission draws a new trace or leaves the store. *)
LEMMA EnqueueKeepsTraces ==
  ASSUME NEW s, Sound(s), NEW id \in Ids, NEW fp \in Fingerprints,
         NEW t \in Nat, NEW ttl \in Nat
  PROVE  KeepsTraces(s, Enqueue(s, id, fp, t, ttl))
<1> DEFINE r == Enqueue(s, id, fp, t, ttl)
<1>1. s.revision \in Nat
  BY DEF Sound, StoreType
<1>2. CASE EnqueueOutcome(s, id, fp) # "Created"
  BY <1>1, <1>2 DEF Enqueue, KeepsTraces
<1>3. CASE EnqueueOutcome(s, id, fp) = "Created"
  <2>1. /\ r.revision = s.revision + 1
        /\ r.by_id = Insert(s.by_id, id, Created(s, fp, t + ttl))
    BY <1>3, EnqueueShape
  <2>2. Created(s, fp, t + ttl).trace_id = s.revision + 1
    BY DEF Created
  <2> HIDE DEF r
  <2>3. KeepsTraces(s, r)
    BY <1>1, <2>1, <2>2 DEF KeepsTraces, Insert
  <2> QED BY <2>3 DEF r
<1> QED BY <1>2, <1>3

(* One after the other. *)
LEMMA KeepsTracesTwice ==
  ASSUME NEW s, NEW e, NEW r, Sound(s), Sound(e), Sound(r),
         KeepsTraces(s, e), KeepsTraces(e, r)
  PROVE  KeepsTraces(s, r)
<1>1. s.revision \in Nat /\ e.revision \in Nat /\ r.revision \in Nat
  BY DEF Sound, StoreType
<1>2. \A i \in DOMAIN r.by_id : r.by_id[i].trace_id \in Nat
  BY DEF Sound, StoreType, Approval
<1> QED BY <1>1, <1>2 DEF KeepsTraces, IsDecided

(* What fits the store goes on fitting it. *)
LEMMA FittingStays ==
  ASSUME Sound(store), boot \in Nat, boot' = boot, KeepsTraces(store, store'),
         store'.revision \in Nat, NEW t, NEW d, FitsStore(t, d)
  PROVE  FitsStore(t, d)'
<1>1. store.revision \in Nat /\ store.revision <= store'.revision
  BY DEF Sound, StoreType, KeepsTraces
<1>2. Past(t)'
  BY <1>1 DEF FitsStore, Past
<1>3. ASSUME NEW i \in DOMAIN store'.by_id, TraceOf(i)' = t
      PROVE  store'.by_id[i].state = d
  <2>1. t = <<boot, store'.by_id[i].trace_id>>
    BY <1>3 DEF TraceOf, Drawn
  <2>2. ~ (store'.by_id[i].trace_id > store.revision)
    BY <1>1, <2>1 DEF FitsStore, Past
  <2>3. /\ i \in DOMAIN store.by_id
        /\ store'.by_id[i].trace_id = store.by_id[i].trace_id
        /\ IsDecided(store.by_id[i]) => store'.by_id[i].state = store.by_id[i].state
    BY <2>2 DEF KeepsTraces
  <2>4. store.by_id[i].state = d
    BY <2>1, <2>3 DEF FitsStore, TraceOf, Drawn
  <2> QED BY <2>3, <2>4 DEF FitsStore, IsDecided
<1> QED BY <1>2, <1>3 DEF FitsStore

--------------------------------------------------------------------------------
(* What the actions do to the store. *)
Moves == Sound(store)' /\ KeepsTraces(store, store')

(* The resolution that a resolver sets out to announce is that of an approval that was
   still pending. *)
Settles(r, id) ==
  /\ Moves
  /\ \/ resolver' = resolver
     \/ /\ id \in DOMAIN store.by_id /\ IsPending(store.by_id[id])
        /\ id \in DOMAIN store'.by_id /\ IsDecided(store'.by_id[id])
        /\ resolver' = [resolver EXCEPT ![r] = Resolution(store', id)]
  /\ running
  /\ UNCHANGED <<now, boot, running, request, spawned, files, cleaner, told, damaged>>

(* Both resolvers do that. *)
LEMMA ResolversSettle ==
  ASSUME Typed, \/ \E id \in Ids, d \in UserDecisions : HudDecides(id, d)
                \/ ExitCancels
  PROVE  \E r \in Resolvers, id \in Ids : Settles(r, id)
<1>1. ASSUME NEW id \in Ids, NEW d \in UserDecisions, HudDecides(id, d)
      PROVE  Settles("hud", id)
  <2> DEFINE expired == ExpireDuePending(store, now)
  <2>1. Sound(store) /\ d \in Decisions
    BY DEF Typed, Decisions
  <2>2. Sound(expired)
    BY <2>1, DecisionsAreKept
  <2>3. DecideOutcome(expired, id) = "Ok" /\ Resolves("hud", id, Decide(expired, id, d))
    BY <1>1 DEF HudDecides
  <2>4. expired.active = id /\ expired.active # NoId
    BY <2>2, <2>3, DecidableIsActive
  <2>5. expired = store
    <3>1. ASSUME IsDue(store, now) PROVE FALSE
      <4>1. expired = Resolve(store, store.active, "TimedOut")
        BY <3>1 DEF ExpireDuePending
      <4>2. store.active # NoId /\ "TimedOut" \in Decisions
        BY <3>1 DEF IsDue, Decisions
      <4> HIDE DEF expired
      <4>3. Resolve(store, store.active, "TimedOut").active = NoId
        BY <2>1, <4>2, ResolveFrees
      <4> QED BY <2>4, <4>1, <4>3
    <3> QED BY <3>1 DEF ExpireDuePending
  <2> HIDE DEF expired
  <2>6. id \in DOMAIN store.by_id /\ IsPending(store.by_id[id])
    BY <2>1, <2>4, <2>5, StoreAssumption DEF Sound, WellFormed, KnownIds, ActiveIsThePending
  <2>7. store' = Decide(store, id, d)
    BY <2>3, <2>5 DEF Resolves
  <2>8. Moves
    <3>1. Sound(Decide(store, id, d)) /\ KeepsTraces(store, Decide(store, id, d))
      BY <2>1, DecisionsAreKept, DecisionsKeepTraces
    <3> QED BY <2>7, <3>1 DEF Moves
  <2>9. /\ UNCHANGED <<now, boot, running, request, spawned, files, cleaner, told, damaged>>
        /\ \/ resolver' = resolver
           \/ /\ Knows(store', id) /\ IsDecided(store'.by_id[id])
              /\ resolver' = [resolver EXCEPT !["hud"] = Resolution(store', id)]
    BY <2>3, <2>5, <2>7 DEF Resolves
  <2>10. running
    BY <1>1 DEF HudDecides
  <2> QED BY <2>6, <2>8, <2>9, <2>10 DEF Settles, Knows
<1>2. ASSUME ExitCancels PROVE store.active \in Ids /\ Settles("exit", store.active)
  <2> DEFINE id == store.active
  <2>1. Sound(store) /\ id \in Ids /\ id # NoId
    BY <1>2 DEF ExitCancels, Typed, Sound, StoreType
  <2>2. Resolves("exit", id, Cancel(store, id))
    BY <1>2 DEF ExitCancels
  <2>3. id \in DOMAIN store.by_id /\ IsPending(store.by_id[id])
    BY <2>1 DEF Sound, WellFormed, KnownIds, ActiveIsThePending
  <2> HIDE DEF id
  <2>4. store' = Cancel(store, id)
    BY <2>2 DEF Resolves
  <2>5. Moves
    <3>1. Sound(Cancel(store, id)) /\ KeepsTraces(store, Cancel(store, id))
      BY <2>1, DecisionsAreKept, DecisionsKeepTraces
    <3> QED BY <2>4, <3>1 DEF Moves
  <2>6. /\ UNCHANGED <<now, boot, running, request, spawned, files, cleaner, told, damaged>>
        /\ \/ resolver' = resolver
           \/ /\ Knows(store', id) /\ IsDecided(store'.by_id[id])
              /\ resolver' = [resolver EXCEPT !["exit"] = Resolution(store', id)]
    BY <2>2, <2>4 DEF Resolves
  <2>7. running
    BY <1>2 DEF ExitCancels
  <2> QED BY <2>1, <2>3, <2>5, <2>6, <2>7 DEF Settles, Knows, id
<1> QED BY <1>1, <1>2 DEF Resolvers

(* A submission, which expires what is due and then enqueues, and a snapshot. *)
LEMMA SubmitMoves ==
  ASSUME Typed, NEW id \in Ids, NEW fp \in Fingerprints, NEW trace \in Traces,
         Submit(id, fp, trace)
  PROVE  Moves
<1> DEFINE expired == ExpireDuePending(store, now)
           enqueued == Enqueue(expired, id, fp, now, TTL)
<1>1. Sound(store) /\ now \in Nat /\ TTL \in Nat
  BY Bounds DEF Typed
<1>2. Sound(expired) /\ KeepsTraces(store, expired)
  BY <1>1, DecisionsAreKept, DecisionsKeepTraces
<1>3. store' = enqueued
  BY DEF Submit
<1> HIDE DEF expired
<1>4. Sound(enqueued) /\ KeepsTraces(expired, enqueued)
  BY <1>1, <1>2, EnqueueSound, EnqueueKeepsTraces
<1> HIDE DEF enqueued
<1> QED BY <1>1, <1>2, <1>3, <1>4, KeepsTracesTwice DEF Moves

LEMMA SnapshotMoves ==
  ASSUME Typed, TakesSnapshot
  PROVE  Moves
<1>1. /\ Sound(ExpireDuePending(store, now))
      /\ KeepsTraces(store, ExpireDuePending(store, now))
  BY DecisionsAreKept, DecisionsKeepTraces DEF Typed
<1>2. store' = ExpireDuePending(store, now)
  BY DEF TakesSnapshot
<1> QED BY <1>1, <1>2 DEF Moves

--------------------------------------------------------------------------------
(* What a resolution says has its type. *)
LEMMA ResolutionTyped ==
  ASSUME Typed, NEW s, Sound(s), NEW id \in DOMAIN s.by_id, IsDecided(s.by_id[id])
  PROVE  Resolution(s, id) \in Announcements
<1>1. /\ id \in Ids /\ s.by_id[id] \in Approval /\ s.revision \in Nat
  BY DEF Sound, StoreType
<1>2. /\ s.by_id[id].fingerprint \in Fingerprints
      /\ s.by_id[id].state \in Decisions
      /\ s.by_id[id].trace_id \in Nat
  BY <1>1 DEF Approval, IsDecided
<1>3. \A n \in Nat : Drawn(n) \in Drawns
  BY DEF Typed, Drawn, Drawns
<1> QED BY <1>1, <1>2, <1>3 DEF Resolution, Announcements, Typed

(* What is appended has the type of its file. *)
LEMMA AppendTyped ==
  ASSUME Typed, NEW name \in Names, NEW entry, IsEntry(name, entry), AppendTo(name, entry)
  PROVE  /\ DOMAIN files' = Names
         /\ \A f \in Names : \A e \in files'[f] : IsEntry(f, e)
         /\ damaged' \subseteq Diagnostics
BY DEF Typed, AppendTo

(* The process starts and stops in its type. *)
LEMMA NewCleanerTyped ==
  ASSUME Typed, Launch
  PROVE  IsCleaner(cleaner')
BY DEF Typed, Launch, IsCleaner

(* Every step of the clean-up keeps the type of its thread. *)
LEMMA CleanUpTyped ==
  ASSUME Typed, CleanUp
  PROVE  Typed'
<1>1. CASE Look
  <2>1. IsCleaner(cleaner)
    BY <1>1 DEF Look, Typed, None
  <2>2. IsCleaner(cleaner')
    BY <1>1, <2>1 DEF Look, IsCleaner
  <2>3. cleaner # None
    BY <1>1 DEF Look, None
  <2> QED BY <1>1, <2>2, <2>3 DEF Look, Typed, process
<1>2. CASE Remove
  <2> DEFINE f == cleaner.file
             passed == [cleaner EXCEPT !.pc = "look", !.todo = @ \ {f}, !.file = <<>>,
                                       !.seen = {}]
  <2>1. IsCleaner(cleaner) /\ cleaner # None
    BY <1>2 DEF Remove, Typed, None
  <2>2. IsCleaner(passed) /\ IsCleaner([passed EXCEPT !.stuck = @ \cup {f}])
    BY <2>1 DEF IsCleaner
  <2>3. IsCleaner(cleaner')
    BY <1>2, <2>2 DEF Remove
  <2>4. /\ DOMAIN files' = Names /\ damaged' \subseteq Diagnostics
        /\ \A g \in Names : files'[g] \subseteq files[g]
    BY <1>2 DEF Remove, Typed
  <2>5. UNCHANGED <<store, now, boot, running, request, resolver, spawned, told>>
    BY <1>2 DEF Remove, process
  <2> QED BY <2>1, <2>3, <2>4, <2>5 DEF Typed
<1>3. CASE NextDirectory
  <2>1. IsCleaner(cleaner) /\ cleaner # None
    BY <1>3 DEF NextDirectory, Typed, None
  <2>2. cleaner' = None \/ IsCleaner(cleaner')
    BY <1>3, <2>1 DEF NextDirectory, IsCleaner
  <2>3. UNCHANGED <<store, now, boot, running, request, resolver, spawned, files, told, damaged>>
    BY <1>3 DEF NextDirectory, process
  <2> QED BY <2>1, <2>2, <2>3 DEF Typed
<1>4. CASE SecondInstanceEnds
  BY <1>4 DEF SecondInstanceEnds, Typed, process
<1> QED BY <1>1, <1>2, <1>3, <1>4 DEF CleanUp

(* Types are kept. *)
LEMMA StepTyped == Typed /\ [Next]_vars => Typed'
<1> SUFFICES ASSUME Typed, [Next]_vars PROVE Typed'
  OBVIOUS
<1>1. ASSUME NEW id \in Ids, NEW fp \in Fingerprints, NEW t \in Traces, Submit(id, fp, t)
      PROVE  Typed'
  <2>1. Sound(store')
    BY <1>1, SubmitMoves DEF Moves
  <2>2. request' \in {None} \cup Requests
    BY <1>1 DEF Submit, Requests
  <2>3. UNCHANGED <<now, boot, running, resolver, spawned, files, cleaner, told, damaged>> /\ running
    BY <1>1 DEF Submit
  <2> QED BY <2>1, <2>2, <2>3 DEF Typed
<1>2. ASSUME Push PROVE Typed'
  <2>1. request \in Requests /\ running
    BY <1>2 DEF Push, Typed, None
  <2>2. request' \in Requests
    BY <1>2, <2>1 DEF Push, Requests
  <2>3. DiagFile(request.id) \in Names /\ DiagFile(request.id) \notin Audits
    BY <2>1, FileNames DEF Requests
  <2>4. IsEntry(DiagFile(request.id), Received(request.id, request.trace))
    BY <2>3 DEF IsEntry, Received, Typed
  <2>5. /\ DOMAIN files' = Names
        /\ \A f \in Names : \A e \in files'[f] : IsEntry(f, e)
        /\ damaged' \subseteq Diagnostics
    BY <1>2, <2>3, <2>4, AppendTyped DEF Push
  <2>6. UNCHANGED <<store, now, boot, running, resolver, spawned, cleaner, told>>
    BY <1>2 DEF Push
  <2> QED BY <2>1, <2>2, <2>5, <2>6 DEF Typed
<1>3. ASSUME Answer PROVE Typed'
  BY <1>3 DEF Answer, Typed
<1>4. ASSUME HangUp PROVE Typed'
  BY <1>4 DEF HangUp, Typed
<1>5. ASSUME \/ \E id \in Ids, d \in UserDecisions : HudDecides(id, d)
             \/ ExitCancels
      PROVE  Typed'
  <2>1. PICK r \in Resolvers, id \in Ids : Settles(r, id)
    BY <1>5, ResolversSettle
  <2>2. Sound(store')
    BY <2>1 DEF Settles, Moves
  <2>3. resolver' \in [Resolvers -> {None} \cup Announcements]
    <3>1. CASE resolver' = resolver
      BY <3>1 DEF Typed
    <3>2. CASE /\ id \in DOMAIN store'.by_id /\ IsDecided(store'.by_id[id])
               /\ resolver' = [resolver EXCEPT ![r] = Resolution(store', id)]
      <4>1. Resolution(store', id) \in Announcements
        BY <2>2, <3>2, ResolutionTyped
      <4> QED BY <3>2, <4>1 DEF Typed
    <3> QED BY <2>1, <3>1, <3>2 DEF Settles
  <2>4. /\ running
        /\ UNCHANGED <<now, boot, running, request, spawned, files, cleaner, told, damaged>>
    BY <2>1 DEF Settles
  <2> QED BY <2>2, <2>3, <2>4 DEF Typed
<1>6. ASSUME TakesSnapshot PROVE Typed'
  <2>1. Sound(store')
    BY <1>6, SnapshotMoves DEF Moves
  <2> QED BY <1>6, <2>1 DEF Typed, TakesSnapshot
<1>7. ASSUME NEW r \in Resolvers, Announce(r) PROVE Typed'
  <2> DEFINE a == resolver[r]
  <2>1. a \in Announcements
    BY <1>7 DEF Announce, Typed
  <2>2. DiagFile(a.id) \in Names /\ DiagFile(a.id) \notin Audits
    BY <2>1, FileNames DEF Announcements
  <2>3. IsEntry(DiagFile(a.id), Decided(a))
    BY <2>2 DEF IsEntry, Decided, Typed
  <2>4. /\ DOMAIN files' = Names
        /\ \A f \in Names : \A e \in files'[f] : IsEntry(f, e)
        /\ damaged' \subseteq Diagnostics
    BY <1>7, <2>2, <2>3, AppendTyped DEF Announce
  <2>5. AuditRecord(a) \in Records
    BY <2>1 DEF AuditRecord, AuditDecision, Announcements, Records
  <2>6. /\ spawned' = spawned \cup {AuditRecord(a)}
        /\ resolver' = [resolver EXCEPT ![r] = None]
        /\ UNCHANGED <<store, now, boot, running, request, cleaner, told>>
    BY <1>7 DEF Announce
  <2>7. running
    BY <1>7 DEF Announce, Typed
  <2> QED BY <2>4, <2>5, <2>6, <2>7 DEF Typed
<1>8. ASSUME WriteAudit PROVE Typed'
  <2>1. PICK record \in spawned :
          /\ spawned' = spawned \ {record}
          /\ AppendTo(AuditFile(record.decided_on), AuditEntry(record))
    BY <1>8 DEF WriteAudit
  <2>2. record \in Records
    BY DEF Typed
  <2>3. AuditFile(record.decided_on) \in Audits /\ AuditFile(record.decided_on) \in Names
    BY <2>2, FileNames DEF Records
  <2>4. IsEntry(AuditFile(record.decided_on), AuditEntry(record))
    BY <2>3 DEF IsEntry, AuditEntry, Typed
  <2>5. /\ DOMAIN files' = Names
        /\ \A f \in Names : \A e \in files'[f] : IsEntry(f, e)
        /\ damaged' \subseteq Diagnostics
    BY <2>1, <2>3, <2>4, AppendTyped
  <2>6. UNCHANGED <<store, now, boot, running, request, resolver, cleaner, told>>
    BY <1>8 DEF WriteAudit
  <2> QED BY <2>1, <2>5, <2>6 DEF Typed
<1>9. ASSUME Launch PROVE Typed'
  <2>1. Sound(store') /\ boot' \in 0..MaxBoots /\ running' = TRUE
    BY <1>9, NewStoreSound, Bounds DEF Launch, Typed
  <2>2. IsCleaner(cleaner')
    BY <1>9, NewCleanerTyped
  <2>3. UNCHANGED <<now, request, resolver, spawned, files, told, damaged>>
    BY <1>9 DEF Launch
  <2> QED BY <2>1, <2>2, <2>3 DEF Typed
<1>10. ASSUME CleanUp PROVE Typed'
  BY <1>10, CleanUpTyped
<1>11. ASSUME Stop PROVE Typed'
  BY <1>11 DEF Stop, Typed, Resolvers
<1>12. ASSUME Tick PROVE Typed'
  BY <1>12, Bounds DEF Tick, Typed, process
<1>13. ASSUME UNCHANGED vars PROVE Typed'
  BY <1>13 DEF vars, Typed
<1> QED
  BY <1>1, <1>2, <1>3, <1>4, <1>5, <1>6, <1>7, <1>8, <1>9, <1>10, <1>11, <1>12, <1>13
  DEF Next, Resolvers

--------------------------------------------------------------------------------
(* Where claims come from. *)
LEMMA ClaimsAre ==
  /\ \A c : c \in Claims <=>
       \/ \E r \in Resolvers : resolver[r] # None /\ c = Claim(resolver[r])
       \/ \E a \in spawned : c = Claim(a)
       \/ \E f \in Audits : \E e \in files[f] : c = Claim(e.record)
  /\ \A c : c \in Claims' <=>
       \/ \E r \in Resolvers : resolver'[r] # None /\ c = Claim(resolver'[r])
       \/ \E a \in spawned' : c = Claim(a)
       \/ \E f \in Audits : \E e \in files'[f] : c = Claim(e.record)
BY DEF Claims, Resolutions, Audited

(* Nothing new is claimed. *)
ClaimsStay == Claims' \subseteq Claims /\ told' = told

LEMMA StepClaims ==
  ASSUME Typed,
         \/ \E id \in Ids, fp \in Fingerprints, t \in Traces : Submit(id, fp, t)
         \/ Push \/ HangUp \/ TakesSnapshot
         \/ \E r \in Resolvers : Announce(r)
         \/ WriteAudit \/ Launch \/ CleanUp \/ Stop \/ Tick \/ UNCHANGED vars
  PROVE  ClaimsStay
<1>1. ASSUME \/ \E id \in Ids, fp \in Fingerprints, t \in Traces : Submit(id, fp, t)
             \/ HangUp \/ TakesSnapshot \/ Launch \/ Tick \/ UNCHANGED vars
      PROVE  ClaimsStay
  <2>1. UNCHANGED <<resolver, spawned, files, told>>
    BY <1>1 DEF Submit, HangUp, TakesSnapshot, Launch, Tick, process, vars
  <2> QED BY <2>1 DEF ClaimsStay, Claims, Resolutions, Audited
<1>2. ASSUME Push PROVE ClaimsStay
  <2>1. request \in Requests
    BY <1>2 DEF Push, Typed, None
  <2>2. DiagFile(request.id) \notin Audits
    BY <2>1, FileNames DEF Requests
  <2>3. \A f \in Audits : files'[f] = files[f]
    BY <1>2, <2>2, FileNames DEF Push, AppendTo, Typed
  <2>4. UNCHANGED <<resolver, spawned, told>>
    BY <1>2 DEF Push
  <2> QED BY <2>3, <2>4, ClaimsAre DEF ClaimsStay
<1>3. ASSUME NEW r \in Resolvers, Announce(r) PROVE ClaimsStay
  <2> DEFINE a == resolver[r]
  <2>1. a \in Announcements /\ a # None
    BY <1>3 DEF Announce, Typed
  <2>2. DiagFile(a.id) \notin Audits
    BY <2>1, FileNames DEF Announcements
  <2>3. \A f \in Audits : files'[f] = files[f]
    BY <1>3, <2>2, FileNames DEF Announce, AppendTo, Typed
  <2>4. Claim(AuditRecord(a)) = Claim(a)
    BY DEF Claim, AuditRecord, AuditDecision
  <2>5. /\ spawned' = spawned \cup {AuditRecord(a)} /\ told' = told
        /\ \A q \in Resolvers : resolver'[q] # None => resolver'[q] = resolver[q]
    BY <1>3 DEF Announce, Typed
  <2> QED BY <2>1, <2>3, <2>4, <2>5, ClaimsAre DEF ClaimsStay
<1>4. ASSUME WriteAudit PROVE ClaimsStay
  <2>1. PICK record \in spawned :
          /\ spawned' = spawned \ {record}
          /\ AppendTo(AuditFile(record.decided_on), AuditEntry(record))
    BY <1>4 DEF WriteAudit
  <2>2. AuditFile(record.decided_on) \in Names
    BY FileNames DEF Typed, Records
  <2>3. \A f \in Audits : \A e \in files'[f] : e \in files[f] \/ e.record = record
    BY <2>1, <2>2, FileNames DEF AppendTo, AuditEntry, Typed
  <2>4. UNCHANGED <<resolver, told>>
    BY <1>4 DEF WriteAudit
  <2> QED BY <2>1, <2>3, <2>4, ClaimsAre DEF ClaimsStay
<1>5. ASSUME CleanUp PROVE ClaimsStay
  <2>1. UNCHANGED <<resolver, spawned, told>>
    BY <1>5 DEF CleanUp, Look, Remove, NextDirectory, SecondInstanceEnds, process
  <2>2. \A f \in Audits : files'[f] \subseteq files[f]
    BY <1>5, FileNames DEF CleanUp, Look, Remove, NextDirectory, SecondInstanceEnds, Typed
  <2> QED BY <2>1, <2>2, ClaimsAre DEF ClaimsStay
<1>6. ASSUME Stop PROVE ClaimsStay
  <2>1. /\ spawned' = {} /\ UNCHANGED <<files, told>>
        /\ \A q \in Resolvers : resolver'[q] = None
    BY <1>6 DEF Stop, Resolvers
  <2> QED BY <2>1, ClaimsAre DEF ClaimsStay
<1> QED BY <1>1, <1>2, <1>3, <1>4, <1>5, <1>6

(* So what was claimed still fits, as long as the store only moves on. *)
LEMMA EndingStays ==
  ASSUME Typed, OneEnding, ClaimsStay, boot' = boot, Moves
  PROVE  OneEnding'
<1>1. /\ Sound(store) /\ boot \in Nat /\ boot' = boot /\ KeepsTraces(store, store')
      /\ store'.revision \in Nat
  BY DEF Typed, Moves, Sound, StoreType
<1>2. \A t, d : FitsStore(t, d) => FitsStore(t, d)'
  BY <1>1, FittingStays
<1>3. \A c \in Claims' : FitsStore(c.of, c.decision)'
  BY <1>2 DEF OneEnding, ClaimsStay
<1>4. \A v \in told' : FitsStore(v.approval_trace, v.decision)'
  BY <1>2 DEF OneEnding, ClaimsStay
<1> QED BY <1>3, <1>4 DEF OneEnding, ClaimsStay

(* A new store knows nothing of what was claimed before. *)
LEMMA LaunchEnding ==
  ASSUME Typed, OneEnding, Launch
  PROVE  OneEnding'
<1>1. ClaimsStay
  BY StepClaims
<1>2. CASE UNCHANGED <<boot, store>>
  <2>1. Moves
    BY <1>2 DEF Moves, KeepsTraces, Typed, Sound, StoreType
  <2> QED BY <1>1, <1>2, <2>1, EndingStays
<1>3. CASE boot' = boot + 1 /\ store' = NewStore
  <2>1. ASSUME NEW t, NEW d, FitsStore(t, d) PROVE FitsStore(t, d)'
    <3>1. Past(t)'
      BY <1>3, <2>1 DEF FitsStore, Past, Typed
    <3>2. DOMAIN store'.by_id = {}
      BY <1>3 DEF NewStore
    <3> QED BY <2>1, <3>1, <3>2 DEF FitsStore
  <2>2. \A c \in Claims' : FitsStore(c.of, c.decision)'
    BY <1>1, <2>1 DEF OneEnding, ClaimsStay
  <2>3. \A v \in told' : FitsStore(v.approval_trace, v.decision)'
    BY <1>1, <2>1 DEF OneEnding, ClaimsStay
  <2> QED BY <1>1, <2>2, <2>3 DEF OneEnding, ClaimsStay
<1> QED BY <1>2, <1>3 DEF Launch

(* What a client is told is what the store knows, so it agrees with every claim. *)
LEMMA AnswerEnding ==
  ASSUME Typed, OneEnding, Answer
  PROVE  OneEnding'
<1> DEFINE id == request.id
           trace == TraceOf(id)
           decision == store.by_id[id].state
<1>1. UNCHANGED <<store, boot, resolver, spawned, files>>
  BY DEF Answer
<1>2. Claims' = Claims /\ \A t, d : FitsStore(t, d)' <=> FitsStore(t, d)
  BY <1>1 DEF Claims, Resolutions, Audited, FitsStore, Past, TraceOf, Drawn
<1>3. CASE told' = told
  BY <1>2, <1>3 DEF OneEnding
<1>4. ASSUME id \in DOMAIN store.by_id, IsDecided(store.by_id[id])
      PROVE  FitsStore(trace, decision)
  <2>1. /\ store.by_id[id].trace_id \in Nat /\ store.by_id[id].trace_id <= store.revision
        /\ \A i \in DOMAIN store.by_id :
             store.by_id[i].trace_id = store.by_id[id].trace_id => i = id
    BY <1>4 DEF Typed, Sound, StoreType, WellFormed, TracesAreUnique
  <2>2. trace = <<boot, store.by_id[id].trace_id>>
    BY DEF TraceOf, Drawn
  <2>3. Past(trace)
    BY <2>1, <2>2 DEF Past, Typed
  <2>4. \A i \in DOMAIN store.by_id : TraceOf(i) = trace => i = id
    BY <2>1, <2>2 DEF TraceOf, Drawn
  <2> QED BY <1>4, <2>3, <2>4 DEF FitsStore, IsDecided
<1>5. ASSUME id \in DOMAIN store.by_id, IsDecided(store.by_id[id]),
             NEW v, v.approval_trace = trace, v.decision = decision,
             told' = told \cup {v}
      PROVE  OneEnding'
  <2>1. FitsStore(v.approval_trace, v.decision)
    BY <1>4, <1>5
  <2>2. \A c \in Claims : c.of = trace => c.decision = decision
    BY <1>5 DEF OneEnding, FitsStore
  <2> QED BY <1>2, <1>5, <2>1, <2>2 DEF OneEnding
<1>6. \/ told' = told
      \/ /\ id \in DOMAIN store.by_id /\ IsDecided(store.by_id[id])
         /\ \E v : /\ v.approval_trace = trace /\ v.decision = decision
                   /\ told' = told \cup {v}
  BY DEF Answer, Knows
<1> QED BY <1>3, <1>5, <1>6

(* A resolution is the first word on its approval: nothing that was said fits an
   approval that is pending. *)
LEMMA SettlesEnding ==
  ASSUME Typed, OneEnding, NEW r \in Resolvers, NEW id \in Ids, Settles(r, id)
  PROVE  OneEnding'
<1>1. UNCHANGED <<boot, spawned, files, told>> /\ Moves
  BY DEF Settles
<1>2. CASE resolver' = resolver
  <2>1. ClaimsStay
    BY <1>1, <1>2 DEF ClaimsStay, Claims, Resolutions, Audited
  <2> QED BY <1>1, <2>1, EndingStays
<1>3. ASSUME id \in DOMAIN store.by_id, IsPending(store.by_id[id]),
             id \in DOMAIN store'.by_id, IsDecided(store'.by_id[id]),
             resolver' = [resolver EXCEPT ![r] = Resolution(store', id)]
      PROVE  OneEnding'
  <2> PICK trace, decision : /\ trace = Drawn(store'.by_id[id].trace_id)
                             /\ decision = store'.by_id[id].state
    OBVIOUS
  <2>1. /\ Sound(store) /\ boot \in Nat /\ boot' = boot /\ KeepsTraces(store, store')
        /\ Sound(store') /\ store'.revision \in Nat /\ store.revision \in Nat
    BY <1>1 DEF Typed, Moves, Sound, StoreType
  <2>2. \A t, d : FitsStore(t, d) => FitsStore(t, d)'
    BY <2>1, FittingStays
  <2>3. /\ store'.by_id[id].trace_id \in Nat
        /\ store'.by_id[id].trace_id <= store'.revision
        /\ \A i \in DOMAIN store'.by_id :
             store'.by_id[i].trace_id = store'.by_id[id].trace_id => i = id
    BY <1>3, <2>1 DEF Sound, StoreType, WellFormed, TracesAreUnique
  <2>4. trace = <<boot, store'.by_id[id].trace_id>> /\ trace = TraceOf(id)'
    BY <2>1 DEF TraceOf, Drawn
  <2>5. FitsStore(trace, decision)'
    <3>1. Past(trace)'
      BY <2>1, <2>3, <2>4 DEF Past
    <3>2. \A i \in DOMAIN store'.by_id : TraceOf(i)' = trace => i = id
      BY <2>1, <2>3, <2>4 DEF TraceOf, Drawn
    <3> QED BY <1>3, <3>1, <3>2 DEF FitsStore, IsDecided
  <2>6. ASSUME NEW d, FitsStore(trace, d) PROVE FALSE
    <3>1. ~ (store'.by_id[id].trace_id > store.revision)
      BY <2>1, <2>3, <2>4, <2>6 DEF FitsStore, Past
    <3>2. store'.by_id[id].trace_id = store.by_id[id].trace_id
      BY <1>3, <2>1, <3>1 DEF KeepsTraces
    <3>3. store.by_id[id].state = d
      BY <1>3, <2>4, <2>6, <3>2 DEF FitsStore, TraceOf, Drawn
    <3> QED BY <1>3, <2>6, <3>3 DEF FitsStore, IsPending, Decisions, UserDecisions
  <2> DEFINE new == Claim(Resolution(store', id))
  <2>7. new.of = trace /\ new.decision = decision
    BY DEF Claim, Resolution
  <2>8. \A c \in Claims' : c \in Claims \/ c = new
    <3>1. \A q \in Resolvers :
            resolver'[q] = resolver[q] \/ resolver'[q] = Resolution(store', id)
      BY <1>3 DEF Typed
    <3> HIDE DEF new
    <3>2. new = Claim(Resolution(store', id))
      BY DEF new
    <3> QED BY <1>1, <3>1, <3>2, ClaimsAre
  <2> HIDE DEF new
  <2>9. \A c \in Claims : c.of # trace
    BY <2>6 DEF OneEnding
  <2>10. \A v \in told : v.approval_trace # trace
    BY <2>6 DEF OneEnding
  <2>11. \A c \in Claims' : FitsStore(c.of, c.decision)'
    BY <2>2, <2>5, <2>7, <2>8 DEF OneEnding
  <2>12. \A v \in told' : FitsStore(v.approval_trace, v.decision)'
    BY <1>1, <2>2 DEF OneEnding
  <2>13. \A c, d \in Claims' : c.of = d.of => c = d
    BY <2>7, <2>8, <2>9 DEF OneEnding
  <2>14. \A c \in Claims', v \in told' : v.approval_trace = c.of => v.decision = c.decision
    BY <1>1, <2>7, <2>8, <2>10 DEF OneEnding
  <2> QED BY <2>11, <2>12, <2>13, <2>14 DEF OneEnding
<1> QED BY <1>2, <1>3 DEF Settles

(* One approval has one ending, in whatever it is told. *)
LEMMA StepEnding == Typed /\ OneEnding /\ [Next]_vars => OneEnding'
<1> SUFFICES ASSUME Typed, OneEnding, [Next]_vars PROVE OneEnding'
  OBVIOUS
<1>1. ASSUME NEW id \in Ids, NEW fp \in Fingerprints, NEW t \in Traces, Submit(id, fp, t)
      PROVE  OneEnding'
  <2>1. ClaimsStay /\ Moves
    BY <1>1, StepClaims, SubmitMoves
  <2> QED BY <1>1, <2>1, EndingStays DEF Submit
<1>2. ASSUME TakesSnapshot PROVE OneEnding'
  <2>1. ClaimsStay /\ Moves
    BY <1>2, StepClaims, SnapshotMoves
  <2> QED BY <1>2, <2>1, EndingStays DEF TakesSnapshot
<1>3. ASSUME \/ Push \/ HangUp \/ \E r \in Resolvers : Announce(r)
             \/ WriteAudit \/ CleanUp \/ Stop \/ Tick \/ UNCHANGED vars
      PROVE  OneEnding'
  <2>1. ClaimsStay
    BY <1>3, StepClaims
  <2>2. UNCHANGED <<store, boot>>
    BY <1>3 DEF Push, HangUp, Announce, WriteAudit, CleanUp, Look, Remove, NextDirectory,
                SecondInstanceEnds, Stop, Tick, process, vars
  <2>3. Moves
    BY <2>2 DEF Moves, KeepsTraces, Typed, Sound, StoreType
  <2> QED BY <2>1, <2>2, <2>3, EndingStays
<1>4. ASSUME \/ \E id \in Ids, d \in UserDecisions : HudDecides(id, d)
             \/ ExitCancels
      PROVE  OneEnding'
  BY <1>4, ResolversSettle, SettlesEnding
<1> QED BY <1>1, <1>2, <1>3, <1>4, LaunchEnding, AnswerEnding DEF Next, Resolvers

--------------------------------------------------------------------------------
(* A diagnostic file that is whole only grows. *)
DiagnosticsGrow ==
  \A f \in Diagnostics \ damaged' : f \notin damaged /\ files[f] \subseteq files'[f]

LEMMA AppendGrows ==
  ASSUME Typed, NEW name \in Names, NEW entry, AppendTo(name, entry)
  PROVE  DiagnosticsGrow
BY FileNames DEF AppendTo, DiagnosticsGrow, Typed

LEMMA StepGrows == Typed /\ [Next]_vars => DiagnosticsGrow
<1> SUFFICES ASSUME Typed, [Next]_vars PROVE DiagnosticsGrow
  OBVIOUS
<1>1. ASSUME Push PROVE DiagnosticsGrow
  <2>1. DiagFile(request.id) \in Names
    BY <1>1, FileNames DEF Push, Typed, None, Requests
  <2> QED BY <1>1, <2>1, AppendGrows DEF Push
<1>2. ASSUME NEW r \in Resolvers, Announce(r) PROVE DiagnosticsGrow
  <2>1. DiagFile(resolver[r].id) \in Names
    BY <1>2, FileNames DEF Announce, Typed, Announcements
  <2> QED BY <1>2, <2>1, AppendGrows DEF Announce
<1>3. ASSUME WriteAudit PROVE DiagnosticsGrow
  <2>1. PICK record \in spawned : AppendTo(AuditFile(record.decided_on), AuditEntry(record))
    BY <1>3 DEF WriteAudit
  <2>2. AuditFile(record.decided_on) \in Names
    BY FileNames DEF Typed, Records
  <2> QED BY <2>1, <2>2, AppendGrows
<1>4. ASSUME Remove PROVE DiagnosticsGrow
  BY <1>4, FileNames DEF Remove, DiagnosticsGrow, Typed
<1>5. ASSUME UNCHANGED <<files, damaged>> PROVE DiagnosticsGrow
  BY <1>5 DEF DiagnosticsGrow
<1>6. \/ Push \/ \E r \in Resolvers : Announce(r)
      \/ WriteAudit \/ Remove \/ UNCHANGED <<files, damaged>>
  BY DEF Next, Submit, Answer, HangUp, HudDecides, ExitCancels, Resolves, TakesSnapshot,
         Launch, CleanUp, Look, NextDirectory, SecondInstanceEnds, Stop, Tick, Resolvers, vars
<1> QED BY <1>1, <1>2, <1>3, <1>4, <1>5, <1>6

(* What a link leads to stays there. *)
LEMMA LinksStay ==
  ASSUME DiagnosticsGrow, NEW id \in Ids, NEW trace
  PROVE  /\ DecidedIsThere(id, trace) => DecidedIsThere(id, trace)'
         /\ ReceivedIsThere(id, trace) => ReceivedIsThere(id, trace)'
<1>1. DiagFile(id) \in Diagnostics
  BY FileNames
<1> QED BY <1>1 DEF DiagnosticsGrow, DecidedIsThere, ReceivedIsThere

(* Records come from announcements, and the audit files hold no others. *)
LEMMA RecordsCome ==
  ASSUME Typed, [Next]_vars, NEW record \in (spawned \cup Audited)'
  PROVE  \/ record \in spawned \cup Audited
         \/ \E r \in Resolvers : Announce(r) /\ record = AuditRecord(resolver[r])
<1>1. /\ \A x : x \in Audited <=> \E f \in Audits : \E e \in files[f] : x = e.record
      /\ \A x : x \in Audited' <=> \E f \in Audits : \E e \in files'[f] : x = e.record
  BY DEF Audited
<1>2. ASSUME Push PROVE record \in spawned \cup Audited
  <2>1. request \in Requests
    BY <1>2 DEF Push, Typed, None
  <2>2. DiagFile(request.id) \notin Audits
    BY <2>1, FileNames DEF Requests
  <2>3. \A f \in Audits : files'[f] = files[f]
    BY <1>2, <2>2, FileNames DEF Push, AppendTo, Typed
  <2> QED BY <1>1, <1>2, <2>3 DEF Push
<1>3. ASSUME NEW r \in Resolvers, Announce(r)
      PROVE  record \in spawned \cup Audited \/ record = AuditRecord(resolver[r])
  <2>1. DiagFile(resolver[r].id) \notin Audits
    BY <1>3, FileNames DEF Announce, Typed, Announcements
  <2>2. \A f \in Audits : files'[f] = files[f]
    BY <1>3, <2>1, FileNames DEF Announce, AppendTo, Typed
  <2> QED BY <1>1, <1>3, <2>2 DEF Announce
<1>4. ASSUME WriteAudit PROVE record \in spawned \cup Audited
  <2>1. PICK a \in spawned :
          /\ spawned' = spawned \ {a}
          /\ AppendTo(AuditFile(a.decided_on), AuditEntry(a))
    BY <1>4 DEF WriteAudit
  <2>2. AuditFile(a.decided_on) \in Names
    BY FileNames DEF Typed, Records
  <2>3. \A f \in Audits : \A e \in files'[f] : e \in files[f] \/ e.record = a
    BY <2>1, <2>2, FileNames DEF AppendTo, AuditEntry, Typed
  <2> QED BY <1>1, <2>1, <2>3
<1>5. ASSUME Remove PROVE record \in spawned \cup Audited
  <2>1. \A f \in Audits : files'[f] \subseteq files[f]
    BY <1>5, FileNames DEF Remove, Typed
  <2>2. spawned' = spawned
    BY <1>5 DEF Remove, process
  <2> QED BY <1>1, <2>1, <2>2
<1>6. ASSUME files' = files, spawned' \subseteq spawned
      PROVE  record \in spawned \cup Audited
  BY <1>1, <1>6
<1>7. ASSUME Stop PROVE files' = files /\ spawned' \subseteq spawned
  BY <1>7 DEF Stop
<1>8. ASSUME \/ \E id \in Ids, fp \in Fingerprints, t \in Traces : Submit(id, fp, t)
             \/ Answer \/ HangUp
             \/ \E id \in Ids, d \in UserDecisions : HudDecides(id, d)
             \/ ExitCancels \/ TakesSnapshot
      PROVE  files' = files /\ spawned' = spawned
  BY <1>8 DEF Submit, Answer, HangUp, HudDecides, ExitCancels, Resolves, TakesSnapshot
<1>9. ASSUME \/ Launch \/ Look \/ NextDirectory \/ SecondInstanceEnds \/ Tick
             \/ UNCHANGED vars
      PROVE  files' = files /\ spawned' = spawned
  BY <1>9 DEF Launch, Look, NextDirectory, SecondInstanceEnds, Tick, vars, process
<1> QED BY <1>2, <1>3, <1>4, <1>5, <1>6, <1>7, <1>8, <1>9 DEF Next, CleanUp, Resolvers

(* The entry that an announcement writes is the one that its record leads to. *)
LEMMA AnnouncementIsLinked ==
  ASSUME Typed, NEW r \in Resolvers, Announce(r)
  PROVE  \E id, trace :
           /\ id \in Ids /\ id = resolver[r].id /\ trace = resolver[r].approval_trace
           /\ DecidedIsThere(id, trace)'
<1> PICK id, trace : id = resolver[r].id /\ trace = resolver[r].approval_trace
  OBVIOUS
<1>1. id \in Ids
  BY DEF Announce, Typed, Announcements
<1>2. DiagFile(id) \in Names /\ DiagFile(id) \in Diagnostics
  BY <1>1, FileNames
<1>3. \/ Decided(resolver[r]) \in files'[DiagFile(id)]
      \/ DiagFile(id) \in damaged'
  BY <1>2 DEF Announce, AppendTo, Typed
<1>4. /\ Decided(resolver[r]).kind = "server.decided"
      /\ Decided(resolver[r]).approval_trace = trace
  BY DEF Decided
<1>5. DecidedIsThere(id, trace)'
  BY <1>3, <1>4 DEF DecidedIsThere
<1> QED BY <1>1, <1>5

(* The same for the entry of a push. *)
LEMMA PushIsLinked ==
  ASSUME Typed, Push
  PROVE  /\ request \in Requests
         /\ request' = [request EXCEPT !.pc = "wait"]
         /\ \E id, trace : /\ id = request.id /\ trace = request.trace
                          /\ ReceivedIsThere(id, trace)'
<1> PICK id, trace : id = request.id /\ trace = request.trace
  OBVIOUS
<1>1. request \in Requests /\ request' = [request EXCEPT !.pc = "wait"]
  BY DEF Push, Typed, None
<1>2. DiagFile(id) \in Names /\ DiagFile(id) \in Diagnostics
  BY <1>1, FileNames DEF Requests
<1>3. \/ Received(id, trace) \in files'[DiagFile(id)]
      \/ DiagFile(id) \in damaged'
  BY <1>2 DEF Push, AppendTo, Typed
<1>4. Received(id, trace).kind = "server.received" /\ Received(id, trace).trace = trace
  BY DEF Received
<1>5. ReceivedIsThere(id, trace)'
  BY <1>3, <1>4 DEF ReceivedIsThere
<1> QED BY <1>1, <1>5

(* Whoever is told with a trace of its own has waited, after its push. *)
LEMMA StepLinked == Typed /\ Linked /\ [Next]_vars => Linked'
<1> SUFFICES ASSUME Typed, Linked, [Next]_vars PROVE Linked'
  OBVIOUS
<1>1. DiagnosticsGrow
  BY StepGrows
<1>2. ASSUME NEW record \in (spawned \cup Audited)'
      PROVE  record.id \in Ids /\ DecidedIsThere(record.id, record.approval_trace)'
  <2>1. CASE record \in spawned \cup Audited
    BY <1>1, <2>1, LinksStay DEF Linked
  <2>2. ASSUME NEW r \in Resolvers, Announce(r), record = AuditRecord(resolver[r])
        PROVE  record.id \in Ids /\ DecidedIsThere(record.id, record.approval_trace)'
    <3>1. record.id = resolver[r].id /\ record.approval_trace = resolver[r].approval_trace
      BY <2>2 DEF AuditRecord
    <3> QED BY <2>2, <3>1, AnnouncementIsLinked
  <2> QED BY <2>1, <2>2, RecordsCome
<1>3. request'.pc = "wait" => ReceivedIsThere(request.id, request.trace)'
  <2>1. CASE Push
    BY <2>1, PushIsLinked DEF Requests
  <2>2. CASE request' = request
    <3>1. request.pc = "wait" => request.id \in Ids
      BY DEF Typed, None, Requests
    <3> QED BY <1>1, <2>2, <3>1, LinksStay DEF Linked
  <2>3. CASE request'.pc # "wait"
    BY <2>3
  <2>4. ASSUME \/ \E id \in Ids, fp \in Fingerprints, t \in Traces : Submit(id, fp, t)
               \/ Answer \/ HangUp \/ Stop
        PROVE  request'.pc # "wait"
    BY <2>4 DEF Submit, Answer, HangUp, Stop, None
  <2> QED BY <2>1, <2>2, <2>3, <2>4
          DEF Next, HudDecides, ExitCancels, Resolves, TakesSnapshot, Announce, WriteAudit,
              Launch, CleanUp, Look, Remove, NextDirectory, SecondInstanceEnds, Tick,
              process, vars
<1>4. ASSUME NEW v \in told'
      PROVE  v.id \in Ids /\ (v.trace \in Traces => ReceivedIsThere(v.id, v.trace)')
  <2>1. CASE v \in told
    BY <1>1, <2>1, LinksStay DEF Linked
  <2>2. ASSUME Answer, v \notin told
        PROVE  v.id \in Ids /\ (v.trace \in Traces => ReceivedIsThere(v.id, v.trace)')
    <3>1. request \in Requests
      BY <2>2 DEF Answer, Typed, None
    <3>2. /\ v.id = request.id
          /\ v.trace = IF request.pc = "wait" THEN request.trace ELSE HudTrace
      BY <2>2 DEF Answer
    <3>3. v.trace \in Traces => request.pc = "wait" /\ v.trace = request.trace
      BY <3>2, Bounds
    <3> QED BY <1>1, <3>1, <3>2, <3>3, LinksStay DEF Linked, Requests
  <2>3. Answer \/ told' = told
    BY DEF Next, Submit, Push, HangUp, HudDecides, ExitCancels, Resolves, TakesSnapshot,
           Announce, WriteAudit, Launch, CleanUp, Look, Remove, NextDirectory,
           SecondInstanceEnds, Stop, Tick, process, vars
  <2> QED BY <2>1, <2>2, <2>3
<1> QED BY <1>2, <1>3, <1>4 DEF Linked

--------------------------------------------------------------------------------
(* Files that nobody removes only get entries, of the present day. *)
FilesGrow ==
  \A f \in Names :
    /\ files[f] \subseteq files'[f]
    /\ \A e \in files'[f] \ files[f] : e.at = now

LEMMA FilesOnlyGrow ==
  ASSUME Typed, [Next]_vars
  PROVE  Remove \/ FilesGrow
<1>1. ASSUME NEW name \in Names, NEW entry, entry.at = now, AppendTo(name, entry)
      PROVE  FilesGrow
  BY <1>1 DEF AppendTo, FilesGrow, Typed
<1>2. ASSUME Push PROVE FilesGrow
  <2>1. DiagFile(request.id) \in Names
    BY <1>2, FileNames DEF Push, Typed, None, Requests
  <2>2. Received(request.id, request.trace).at = now
    BY DEF Received
  <2> QED BY <1>1, <1>2, <2>1, <2>2 DEF Push
<1>3. ASSUME NEW r \in Resolvers, Announce(r) PROVE FilesGrow
  <2>1. DiagFile(resolver[r].id) \in Names
    BY <1>3, FileNames DEF Announce, Typed, Announcements
  <2>2. Decided(resolver[r]).at = now
    BY DEF Decided
  <2> QED BY <1>1, <1>3, <2>1, <2>2 DEF Announce
<1>4. ASSUME WriteAudit PROVE FilesGrow
  <2>1. PICK record \in spawned : AppendTo(AuditFile(record.decided_on), AuditEntry(record))
    BY <1>4 DEF WriteAudit
  <2>2. AuditFile(record.decided_on) \in Names /\ AuditEntry(record).at = now
    BY FileNames DEF Typed, Records, AuditEntry
  <2> QED BY <1>1, <2>1, <2>2
<1>5. ASSUME files' = files PROVE FilesGrow
  BY <1>5 DEF FilesGrow
<1>6. ASSUME \/ \E id \in Ids, fp \in Fingerprints, t \in Traces : Submit(id, fp, t)
             \/ Answer \/ HangUp
             \/ \E id \in Ids, d \in UserDecisions : HudDecides(id, d)
             \/ ExitCancels \/ TakesSnapshot
      PROVE  files' = files
  BY <1>6 DEF Submit, Answer, HangUp, HudDecides, ExitCancels, Resolves, TakesSnapshot
<1>7. ASSUME \/ Launch \/ Look \/ NextDirectory \/ SecondInstanceEnds \/ Stop \/ Tick
             \/ UNCHANGED vars
      PROVE  files' = files
  BY <1>7 DEF Launch, Look, NextDirectory, SecondInstanceEnds, Stop, Tick, vars
<1> QED BY <1>2, <1>3, <1>4, <1>5, <1>6, <1>7 DEF Next, CleanUp, Resolvers

(* The age that is compared is that of the entries' own kind. *)
LEMMA AgeIsMaxAge ==
  ASSUME Typed, NEW f \in Names, NEW e \in files[f]
  PROVE  Age(e) = MaxAge(f) /\ Age(e) \in Nat /\ e.at \in Nat
BY Bounds DEF Typed, IsEntry, Age, MaxAge

(* Others do not get in the way of a clean-up: time passes, and what is appended is
   young. *)
LEMMA OthersAreThorough ==
  ASSUME Typed, Typed', Thorough, FilesGrow, cleaner' = cleaner, now' >= now
  PROVE  Thorough'
<1> SUFFICES ASSUME cleaner # None PROVE Thorough'
  BY DEF Thorough
<1>1. IsCleaner(cleaner) /\ now \in Nat /\ now' \in Nat /\ cleaner.began \in Nat
  BY Bounds DEF Typed, IsCleaner
<1>2. cleaner.began <= now /\ cleaner.todo \subseteq cleaner.directory
  BY DEF Thorough
<1>3. ASSUME cleaner.pc = "remove"
      PROVE  /\ cleaner.file \in cleaner.todo
             /\ \A e \in cleaner.seen : e.at \in Nat /\ now' - e.at > Age(e)
  <2>1. \A e : Age(e) \in Nat
    BY Bounds DEF Age
  <2>2. /\ cleaner.file \in cleaner.todo
        /\ \A e \in cleaner.seen : e.at \in Nat /\ now - e.at > Age(e)
    BY <1>3 DEF Thorough
  <2> QED BY <1>1, <2>1, <2>2
<1>4. ASSUME NEW f \in Names, Done(f), f \notin cleaner.stuck, files'[f] # {}
      PROVE  \E e \in files'[f] : ~ cleaner.began - e.at > Age(e)
  <2>1. CASE files[f] # {}
    BY <1>4, <2>1 DEF Thorough, FilesGrow
  <2>2. CASE files[f] = {}
    <3>1. PICK e \in files'[f] : e.at = now
      BY <1>4, <2>2 DEF FilesGrow
    <3>2. Age(e) \in Nat
      BY Bounds DEF Age
    <3> QED BY <1>1, <1>2, <3>1, <3>2
  <2> QED BY <2>1, <2>2
<1>5. \A f : Done(f)' <=> Done(f)
  BY DEF Done
<1> QED BY <1>1, <1>2, <1>3, <1>4, <1>5 DEF Thorough, Age

(* A clean-up begins with all the audit files that there are. *)
LEMMA LaunchIsThorough ==
  ASSUME Typed, Launch
  PROVE  Thorough'
<1>1. /\ cleaner'.pc = "look" /\ cleaner'.directory = Audits
      /\ cleaner'.todo = Listing(Audits) /\ cleaner'.began = now
      /\ UNCHANGED <<now, files>>
  BY DEF Launch
<1>2. now <= now
  BY Bounds DEF Typed
<1>3. \A f \in Audits : f \in Listing(Audits) \/ files[f] = {}
  BY DEF Listing
<1>4. Listing(Audits) \subseteq Audits
  BY DEF Listing
<1>5. \A f : Done(f)' => f \in Audits /\ f \notin Listing(Audits)
  BY <1>1, FileNames DEF Done
<1> QED BY <1>1, <1>2, <1>3, <1>4, <1>5 DEF Thorough

(* A file that is passed over has a young entry; what is to go has none. *)
LEMMA LookIsThorough ==
  ASSUME Typed, Thorough, Look
  PROVE  Thorough'
<1>1. IsCleaner(cleaner) /\ cleaner # None
  BY DEF Look, Typed, None
<1>2. /\ cleaner.began <= now /\ cleaner.todo \subseteq cleaner.directory
      /\ now \in Nat /\ cleaner.began \in Nat
  BY <1>1, Bounds DEF Thorough, Typed, IsCleaner
<1>3. UNCHANGED <<now, files>>
  BY DEF Look
<1>4. PICK f \in cleaner.todo :
        cleaner' =
          IF files[f] # {} /\ now - Modified(f) > MaxAge(f)
            THEN [cleaner EXCEPT !.pc = "remove", !.file = f, !.seen = files[f]]
            ELSE [cleaner EXCEPT !.todo = @ \ {f}]
  BY DEF Look
<1>5. f \in Names
  BY <1>1, <1>2, FileNames DEF IsCleaner
<1>6. CASE files[f] # {} /\ now - Modified(f) > MaxAge(f)
  <2>1. /\ cleaner'.pc = "remove" /\ cleaner'.file = f /\ cleaner'.seen = files[f]
        /\ cleaner'.directory = cleaner.directory /\ cleaner'.todo = cleaner.todo
        /\ cleaner'.began = cleaner.began /\ cleaner'.stuck = cleaner.stuck
    BY <1>1, <1>4, <1>6 DEF IsCleaner
  <2>2. ASSUME NEW e \in files[f] PROVE e.at \in Nat /\ now - e.at > Age(e)
    <3>1. e.at <= Modified(f) /\ \E d \in files[f] : d.at = Modified(f)
      BY <1>5, ModifiedIsLatest
    <3>2. Modified(f) \in Nat
      BY <1>5, <3>1, AgeIsMaxAge
    <3> QED BY <1>2, <1>5, <1>6, <3>1, <3>2, AgeIsMaxAge
  <2>3. \A g : Done(g)' <=> Done(g)
    BY <2>1 DEF Done
  <2>4. /\ \A e : Age(e)' = Age(e)
        /\ \A g \in Names : Done(g) /\ g \notin cleaner.stuck /\ files[g] # {} =>
             \E e \in files[g] : ~ cleaner.began - e.at > Age(e)
    BY <1>1 DEF Age, Thorough
  <2> QED BY <1>2, <1>3, <2>1, <2>2, <2>3, <2>4 DEF Thorough
<1>7. CASE ~ (files[f] # {} /\ now - Modified(f) > MaxAge(f))
  <2>1. /\ cleaner'.todo = cleaner.todo \ {f} /\ cleaner'.pc = "look"
        /\ cleaner'.directory = cleaner.directory
        /\ cleaner'.began = cleaner.began /\ cleaner'.stuck = cleaner.stuck
    BY <1>1, <1>4, <1>7 DEF IsCleaner, Look
  <2>2. ASSUME files[f] # {} PROVE \E e \in files[f] : ~ cleaner.began - e.at > Age(e)
    <3>1. PICK e \in files[f] : e.at = Modified(f)
      BY <1>5, <2>2, ModifiedIsLatest
    <3>2. ~ now - e.at > Age(e) /\ Age(e) \in Nat /\ e.at \in Nat
      BY <1>5, <1>7, <2>2, <3>1, AgeIsMaxAge
    <3> QED BY <1>2, <3>2
  <2>3. \A g : Done(g)' => Done(g) \/ g = f
    BY <2>1 DEF Done
  <2>4. /\ \A e : Age(e)' = Age(e)
        /\ \A g \in Names : Done(g) /\ g \notin cleaner.stuck /\ files[g] # {} =>
             \E e \in files[g] : ~ cleaner.began - e.at > Age(e)
    BY <1>1 DEF Age, Thorough
  <2> QED BY <1>2, <1>3, <2>1, <2>2, <2>3, <2>4 DEF Thorough
<1> QED BY <1>6, <1>7

(* A file that is removed is empty, or stuck. *)
LEMMA RemoveIsThorough ==
  ASSUME Typed, Thorough, Remove
  PROVE  Thorough'
<1> DEFINE f == cleaner.file
<1>1. IsCleaner(cleaner) /\ cleaner # None /\ cleaner.pc = "remove"
  BY DEF Remove, Typed, None
<1>2. /\ cleaner.began <= now /\ cleaner.todo \subseteq cleaner.directory
      /\ f \in cleaner.todo
  BY <1>1 DEF Thorough
<1>3. /\ now' = now
      /\ cleaner'.pc = "look" /\ cleaner'.todo = cleaner.todo \ {f}
      /\ cleaner'.directory = cleaner.directory /\ cleaner'.began = cleaner.began
  BY <1>1 DEF Remove, IsCleaner
<1>4. \/ files' = [files EXCEPT ![f] = {}] /\ cleaner'.stuck = cleaner.stuck
      \/ files' = files /\ cleaner'.stuck = cleaner.stuck \cup {f}
  BY <1>1 DEF Remove, IsCleaner
<1>5. \A g : Done(g)' => Done(g) \/ g = f
  BY <1>3 DEF Done
<1>6. /\ \A e : Age(e)' = Age(e)
      /\ \A g \in Names : Done(g) /\ g \notin cleaner.stuck /\ files[g] # {} =>
           \E e \in files[g] : ~ cleaner.began - e.at > Age(e)
  BY <1>1 DEF Age, Thorough
<1>7. DOMAIN files = Names
  BY DEF Typed
<1>8. f \in Names
  BY <1>1, <1>2, FileNames DEF IsCleaner
<1> HIDE DEF f
<1>9. ASSUME NEW g \in Names, Done(g)', g \notin cleaner'.stuck, files'[g] # {}
      PROVE  \E e \in files'[g] : ~ cleaner.began - e.at > Age(e)
  <2>1. g # f /\ g \notin cleaner.stuck /\ files'[g] = files[g]
    BY <1>4, <1>7, <1>8, <1>9
  <2> QED BY <1>5, <1>6, <1>9, <2>1
<1> QED BY <1>2, <1>3, <1>6, <1>9 DEF Thorough

(* The diagnostic files are begun when no audit file is left to do. *)
LEMMA NextDirectoryIsThorough ==
  ASSUME Typed, Thorough, NextDirectory
  PROVE  Thorough'
<1>1. /\ IsCleaner(cleaner) /\ cleaner # None /\ cleaner.pc = "look" /\ cleaner.todo = {}
      /\ UNCHANGED <<now, files>>
  BY DEF NextDirectory, Typed, None
<1>2. CASE cleaner' = None
  BY <1>2 DEF Thorough
<1>3. CASE /\ cleaner.directory = Audits
           /\ cleaner' = [cleaner EXCEPT !.directory = Diagnostics,
                                         !.todo = Listing(Diagnostics)]
  <2>1. /\ cleaner'.pc = "look" /\ cleaner'.directory = Diagnostics
        /\ cleaner'.todo = Listing(Diagnostics)
        /\ cleaner'.began = cleaner.began /\ cleaner'.stuck = cleaner.stuck
    BY <1>1, <1>3 DEF IsCleaner
  <2>2. /\ \A e : Age(e)' = Age(e)
        /\ cleaner.began <= now
        /\ \A g \in Names : Done(g) /\ g \notin cleaner.stuck /\ files[g] # {} =>
             \E e \in files[g] : ~ cleaner.began - e.at > Age(e)
    BY <1>1 DEF Age, Thorough
  <2>3. \A g \in Names : Done(g)' => Done(g) \/ files[g] = {}
    BY <1>1, <1>3, <2>1 DEF Done, Listing
  <2>4. Listing(Diagnostics) \subseteq Diagnostics
    BY DEF Listing
  <2> QED BY <1>1, <2>1, <2>2, <2>3, <2>4 DEF Thorough
<1> QED BY <1>2, <1>3 DEF NextDirectory

(* A clean-up leaves nothing behind it that it should have removed. *)
LEMMA StepThorough == Typed /\ Typed' /\ Thorough /\ [Next]_vars => Thorough'
<1> SUFFICES ASSUME Typed, Typed', Thorough, [Next]_vars PROVE Thorough'
  OBVIOUS
<1>1. ASSUME cleaner' = cleaner, now' >= now PROVE Thorough'
  BY <1>1, FilesOnlyGrow, OthersAreThorough, RemoveIsThorough
<1>2. ASSUME \/ \E id \in Ids, fp \in Fingerprints, t \in Traces : Submit(id, fp, t)
             \/ Push \/ Answer \/ HangUp
             \/ \E id \in Ids, d \in UserDecisions : HudDecides(id, d)
             \/ ExitCancels \/ TakesSnapshot
             \/ \E r \in Resolvers : Announce(r)
             \/ WriteAudit \/ UNCHANGED vars
      PROVE  cleaner' = cleaner /\ now' = now
  BY <1>2 DEF Submit, Push, Answer, HangUp, HudDecides, ExitCancels, Resolves,
              TakesSnapshot, Announce, WriteAudit, vars
<1>3. ASSUME Tick PROVE cleaner' = cleaner /\ now' = now + 1
  BY <1>3 DEF Tick
<1>4. now \in Nat /\ now >= now /\ now + 1 >= now
  BY Bounds DEF Typed
<1>5. ASSUME Stop \/ SecondInstanceEnds PROVE Thorough'
  <2>1. cleaner' = None
    BY <1>5 DEF Stop, SecondInstanceEnds
  <2> QED BY <2>1 DEF Thorough
<1>6. \/ cleaner' = cleaner /\ now' >= now
      \/ Launch \/ Look \/ Remove \/ NextDirectory \/ Stop \/ SecondInstanceEnds
  BY <1>2, <1>3, <1>4 DEF Next, CleanUp, Resolvers
<1> QED
  BY <1>1, <1>5, <1>6, LaunchIsThorough, LookIsThorough, RemoveIsThorough,
     NextDirectoryIsThorough

--------------------------------------------------------------------------------
(* The invariant holds with nothing written, and every step keeps it. *)
LEMMA InitInv == Init => Inv
<1> SUFFICES ASSUME Init PROVE Inv
  OBVIOUS
<1>1. Typed
  <2>1. /\ \A f \in Names : files[f] = {}
        /\ DOMAIN files = Names
    BY DEF Init
  <2>2. store = NewStore /\ now = 0 /\ boot = 0 /\ running = FALSE
    BY DEF Init
  <2>3. /\ resolver \in [Resolvers -> {None} \cup Announcements]
        /\ \A r \in Resolvers : resolver[r] = None
    BY DEF Init, Resolvers
  <2>4. request = None /\ spawned = {} /\ cleaner = None /\ damaged = {}
    BY DEF Init
  <2>5. Sound(store)
    BY <2>2, NewStoreSound
  <2>6. now \in 0..MaxTime /\ boot \in 0..MaxBoots
    BY <2>2, Bounds
  <2>7. running \in BOOLEAN
    BY <2>2
  <2> QED BY <2>1, <2>3, <2>4, <2>5, <2>6, <2>7 DEF Typed
<1>2. Audited = {} /\ spawned = {} /\ told = {} /\ Resolutions = {}
  BY FileNames DEF Init, Audited, Resolutions, Resolvers
<1>3. Claims = {}
  BY <1>2 DEF Claims
<1>4. OneEnding
  BY <1>2, <1>3 DEF OneEnding
<1>5. Linked
  BY <1>2 DEF Init, Linked, None
<1>6. Thorough
  BY DEF Init, Thorough
<1> QED BY <1>1, <1>4, <1>5, <1>6 DEF Inv

LEMMA StepInv == Inv /\ [Next]_vars => Inv'
BY StepTyped, StepEnding, StepLinked, StepThorough DEF Inv

LEMMA InvHolds == Spec => []Inv
<1> QED BY InitInv, StepInv, PTL DEF Spec

(* The store, the records and the entries of all files have their types, and a
   process that ended has left nothing under way. *)
THEOREM TypeCorrect == Spec => []TypeOK
<1>1. ASSUME Inv PROVE TypeOK
  <2>1. /\ StoreType(store)
        /\ now \in 0..MaxTime /\ boot \in 0..MaxBoots /\ running \in BOOLEAN
        /\ spawned \subseteq Records
        /\ \A f \in Names : \A e \in files[f] : IsEntry(f, e)
        /\ damaged \subseteq Diagnostics
        /\ ~ running => request = None /\ spawned = {} /\ cleaner = None
    BY <1>1 DEF Inv, Typed, Sound
  <2>2. \A r \in DOMAIN resolver : resolver[r] # None => AuditRecord(resolver[r]) \in Records
    BY <1>1 DEF Inv, Typed, Announcements, Records, AuditRecord, AuditDecision
  <2> QED BY <2>1, <2>2 DEF TypeOK, Records, Drawns, IsEntry
<1> QED BY <1>1, InvHolds, PTL

(* One approval, one story: its audit records, the answers that hooks were given
   and the history in the HUD agree on its decision, and on who took it, over any
   number of evictions, resubmissions and restarts. *)
THEOREM OneStoryIsTold == Spec => []OneStory
<1>1. ASSUME Inv PROVE OneStory
  <2> SUFFICES ASSUME NEW r \in Audited
               PROVE  /\ \A v \in told : v.approval_trace = r.approval_trace =>
                           v.decision = r.decision
                      /\ \A q \in Audited : q.approval_trace = r.approval_trace =>
                           q.decision = r.decision /\ q.decision_trace = r.decision_trace
                      /\ (running /\ Knows(store, r.id) /\ TraceOf(r.id) = r.approval_trace) =>
                           store.by_id[r.id].state = r.decision
    BY DEF OneStory
  <2>1. \A q \in Audited : Claim(q) \in Claims
    BY DEF Claims
  <2>2. \A q : /\ Claim(q).of = q.approval_trace /\ Claim(q).decision = q.decision
               /\ Claim(q).by = q.decision_trace
    BY DEF Claim
  <2> QED BY <1>1, <2>1, <2>2 DEF Inv, OneEnding, FitsStore, Knows
<1> QED BY <1>1, InvHolds, PTL

(* From every audit record one finds the entry of its resolution, as long as the
   diagnostic file of its id misses no write and was not cleaned up. *)
THEOREM AuditIsLinked == Spec => []AuditLeadsToDiagnostics
<1>1. Inv => AuditLeadsToDiagnostics
  BY DEF Inv, Linked, DecidedIsThere, AuditLeadsToDiagnostics
<1> QED BY <1>1, InvHolds, PTL

(* From the trace of a hook that was answered with a decision one finds the file of
   its approval. *)
THEOREM HookTraceIsLinked == Spec => []HookTraceLeadsToDiagnostics
<1>1. Inv => HookTraceLeadsToDiagnostics
  BY DEF Inv, Linked, ReceivedIsThere, HookTraceLeadsToDiagnostics
<1> QED BY <1>1, InvHolds, PTL

(* A clean-up leaves no file that was too old when it began, unless its removal
   failed. *)
THEOREM CleanUpLeavesNothing == Spec => []CleanUpIsThorough
<1>1. ASSUME Inv PROVE CleanUpIsThorough
  <2> SUFFICES ASSUME cleaner # None, NEW f \in Names,
                      cleaner.directory = Diagnostics, f \notin cleaner.todo, files[f] # {},
                      \A e \in files[f] : cleaner.began - e.at > Age(e)
               PROVE  f \in cleaner.stuck
    BY DEF CleanUpIsThorough, Age
  <2>1. Done(f)
    BY FileNames DEF Done
  <2> QED BY <1>1, <2>1 DEF Inv, Thorough
<1> QED BY <1>1, InvHolds, PTL

(* Only a clean-up deletes, and only what was too old when it looked or was
   appended after it did. *)
THEOREM RetentionIsKept == Spec => RetentionKept
<1>1. ASSUME Inv, [Next]_vars
      PROVE  \A name \in Names : \A e \in files[name] \ files'[name] :
               \/ now - e.at > (IF e.kind = "audit" THEN AuditAge ELSE DiagAge)
               \/ e \notin cleaner.seen
  <2>1. CASE FilesGrow
    BY <2>1 DEF FilesGrow
  <2>2. CASE Remove
    <3>1. cleaner # None /\ cleaner.pc = "remove"
      BY <2>2 DEF Remove, None
    <3>2. \A e \in cleaner.seen : now - e.at > Age(e)
      BY <1>1, <3>1 DEF Inv, Thorough
    <3> QED BY <3>2 DEF Age
  <2> QED BY <1>1, <2>1, <2>2, FilesOnlyGrow DEF Inv
<1> QED BY <1>1, InvHolds, PTL DEF Spec, RetentionKept
================================================================================
