------------------------- MODULE ApprovalRuntimeProofs -------------------------
(***************************************************************************)
(* The safety properties of ApprovalRuntime, proved for any sets of        *)
(* callers, ids and payloads, any cache size and any ttl.  The store is    *)
(* reasoned about through the lemmas of ApprovalStoreLemmas only.          *)
(***************************************************************************)
EXTENDS ApprovalRuntime, ApprovalStoreLemmas, FiniteSetTheorems

(* What a call holds where it is: a submission its payload, a resolver the
   decision that it is going to announce. *)
CallsHold ==
  \A c \in Callers :
    /\ At(c, "enqueue") => call[c].arg \in Fingerprints
    /\ call[c].pc \in {"notify", "announce"} => call[c].arg \in Decisions

(* All that has been said of approvals: what clients were told, and what resolvers
   are about to announce. *)
Announcing == {c \in Resolvers : call[c].pc \in {"notify", "announce"}}
Said == told \cup {[trace |-> call[c].trace, decision |-> call[c].arg] : c \in Announcing}

(* It is consistent, about approvals that exist or have existed, and what the store
   still remembers of one of them agrees with it. *)
SaidConsistently ==
  /\ \A v, w \in Said : v.trace = w.trace => v.decision = w.decision
  /\ \A v \in Said : v.trace <= store.revision
  /\ \A v \in Said, i \in DOMAIN store.by_id :
       store.by_id[i].trace_id = v.trace => store.by_id[i].state = v.decision

Inv == TypeOK /\ StoreWellFormed /\ CallsHold /\ SaidConsistently

--------------------------------------------------------------------------------
(* Whatever a step does to the store under its lock is nothing, a creation, the
   expiry of the active approval followed by a creation, or the resolution of the
   active approval, by a user only while it is not due. *)
StoreStep ==
  \/ store' = store
  \/ \E id \in Ids, fp \in Fingerprints :
       /\ EnqueueOutcome(store, id, fp) = "Created"
       /\ store' = Enqueue(store, id, fp, now, TTL)
  \/ /\ store.active # NoId
     /\ \E id \in Ids, fp \in Fingerprints :
          /\ EnqueueOutcome(Resolve(store, store.active, "TimedOut"), id, fp) = "Created"
          /\ store' = Enqueue(Resolve(store, store.active, "TimedOut"), id, fp, now, TTL)
  \/ /\ store.active # NoId
     /\ \E d \in Decisions :
          /\ d \in UserDecisions => ~ IsDue(store, now)
          /\ store' = Resolve(store, store.active, d)

(* expire_due_pending, the first thing in most sections. *)
LEMMA ExpireCases ==
  ASSUME NEW s, Sound(s), NEW t
  PROVE  \/ ExpireDuePending(s, t) = s /\ ~ IsDue(s, t)
         \/ /\ s.active # NoId
            /\ ExpireDuePending(s, t) = Resolve(s, s.active, "TimedOut")
            /\ ExpireDuePending(s, t).active = NoId
<1>1. CASE ~ IsDue(s, t)
  BY <1>1 DEF ExpireDuePending
<1>2. CASE IsDue(s, t)
  <2>1. s.active # NoId /\ "TimedOut" \in Decisions
    BY <1>2 DEF IsDue, Decisions
  <2>2. Resolve(s, s.active, "TimedOut").active = NoId
    BY <2>1, ResolveShape
  <2> QED BY <1>2, <2>1, <2>2 DEF ExpireDuePending
<1> QED BY <1>1, <1>2

(* Every action does one of these to the store. *)
LEMMA StoreSteps ==
  ASSUME Inv, [Next]_vars
  PROVE  StoreStep
<1> USE RuntimeAssumption
<1> DEFINE expired == ExpireDuePending(store, now)
<1>1. Sound(store)
  BY DEF Inv, TypeOK, StoreWellFormed, Sound
<1>2. Sound(expired)
  BY <1>1, ExpireSound
<1>3. \/ expired = store /\ ~ IsDue(store, now)
      \/ /\ store.active # NoId
         /\ expired = Resolve(store, store.active, "TimedOut")
         /\ expired.active = NoId
  BY <1>1, ExpireCases
<1>4. "TimedOut" \in Decisions /\ "TimedOut" \notin UserDecisions
  BY DEF Decisions, UserDecisions
<1>5. "Cancelled" \in Decisions /\ "Cancelled" \notin UserDecisions
  BY DEF Decisions, UserDecisions
<1> HIDE DEF expired
<1>6. store' = expired => StoreStep
  BY <1>3, <1>4 DEF StoreStep
<1>7. ASSUME NEW c \in Handlers, SubmitEnqueue(c) PROVE StoreStep
  <2> DEFINE id == call[c].id
             fp == call[c].arg
  <2>1. store' = Enqueue(expired, id, fp, now, TTL)
    BY <1>7 DEF SubmitEnqueue, expired
  <2>2. id \in Ids /\ fp \in Fingerprints
    <3>1. c \in Callers /\ At(c, "enqueue")
      BY <1>7 DEF SubmitEnqueue, Callers
    <3> QED BY <3>1 DEF Inv, TypeOK, CallsHold, At
  <2> HIDE DEF id, fp
  <2>3. CASE EnqueueOutcome(expired, id, fp) = "Created"
    BY <2>1, <2>2, <2>3, <1>3 DEF StoreStep
  <2>4. CASE EnqueueOutcome(expired, id, fp) # "Created"
    BY <2>1, <2>4, <1>6 DEF Enqueue
  <2> QED BY <2>3, <2>4
<1>8. ASSUME NEW c \in Deciders, NEW id \in Ids, NEW d \in UserDecisions,
             DecideLocked(c, id, d)
      PROVE  StoreStep
  <2>1. store' = Decide(expired, id, d)
    BY <1>8 DEF DecideLocked, expired
  <2>2. CASE DecideOutcome(expired, id) = "Ok"
    <3>1. expired.active = id /\ expired.active # NoId
      BY <1>2, <2>2, DecidableIsActive
    <3>2. expired = store /\ ~ IsDue(store, now)
      BY <1>3, <3>1
    <3>3. store' = Resolve(store, store.active, d)
      BY <2>1, <2>2, <3>1, <3>2 DEF Decide
    <3> QED BY <3>1, <3>2, <3>3 DEF StoreStep, Decisions
  <2>3. CASE DecideOutcome(expired, id) # "Ok"
    BY <2>1, <2>3, <1>6 DEF Decide
  <2> QED BY <2>2, <2>3
<1>9. ASSUME CancelAll PROVE StoreStep
  <2>1. store' = Cancel(store, store.active)
    BY <1>9 DEF CancelAll
  <2>2. CASE DecideOutcome(store, store.active) = "Ok"
    <3>1. store.active # NoId
      BY <1>1, <2>2, DecidableIsActive
    <3> QED BY <2>1, <2>2, <3>1, <1>5 DEF Cancel, StoreStep
  <2>3. CASE DecideOutcome(store, store.active) # "Ok"
    BY <2>1, <2>3 DEF Cancel, StoreStep
  <2> QED BY <2>2, <2>3
<1>10. ASSUME TakeSnapshot PROVE StoreStep
  BY <1>10, <1>6 DEF TakeSnapshot, expired
<1>11. ASSUME NEW c \in Submitters, NEW id \in Ids, NEW fp \in Fingerprints,
              SubmitArrives(c, id, fp)
       PROVE  store' = store
  BY <1>11 DEF SubmitArrives
<1>12. ASSUME NEW c \in Pollers, NEW id \in Ids, PollCheck(c, id)
       PROVE  store' = store
  BY <1>12 DEF PollCheck
<1>13. ASSUME NEW c \in Handlers,
              \/ SubmitWatch(c) \/ SubmitPush(c) \/ SubmitExisting(c)
              \/ PollSubscribe(c) \/ WaitWakes(c) \/ WaitTimesOut(c) \/ Disconnect(c)
       PROVE  store' = store
  BY <1>13 DEF SubmitWatch, SubmitPush, SubmitExisting, PollSubscribe, WaitWakes,
               WaitTimesOut, Recheck, Disconnect
<1>14. ASSUME NEW c \in Resolvers, ResolverStep(c) PROVE store' = store
  BY <1>14 DEF ResolverStep, Notify, Announce
<1>15. BeginShutdown \/ Tick \/ UNCHANGED vars => store' = store
  BY DEF BeginShutdown, Tick, vars
<1> QED
  BY <1>7, <1>8, <1>9, <1>10, <1>11, <1>12, <1>13, <1>14, <1>15
  DEF Next, HandlerStep, StoreStep

(* How a store evolves: an approval of the new store was created since, or was
   known before and has kept its state unless it was pending. *)
Evolves(s, r) ==
  /\ s.revision <= r.revision
  /\ \A i \in DOMAIN r.by_id :
       \/ r.by_id[i].trace_id > s.revision
       \/ /\ i \in DOMAIN s.by_id
          /\ r.by_id[i].trace_id = s.by_id[i].trace_id
          /\ r.by_id[i].state = s.by_id[i].state \/ IsPending(s.by_id[i])

(* Resolving the active approval evolves the store. *)
LEMMA ResolveEvolves ==
  ASSUME NEW s, Sound(s), s.active # NoId, NEW d \in Decisions
  PROVE  Evolves(s, Resolve(s, s.active, d))
<1> DEFINE r == Resolve(s, s.active, d)
<1>1. /\ s.active \in DOMAIN s.by_id
      /\ r.revision = s.revision + 1
      /\ DOMAIN r.by_id =
           DOMAIN s.by_id \ Evicted(Append(s.cached_order, s.active))
      /\ \A x \in DOMAIN r.by_id :
           r.by_id[x] = IF x = s.active THEN Settled(s.by_id[x], d) ELSE s.by_id[x]
  BY ResolveShape
<1>2. /\ IsPending(s.by_id[s.active])
      /\ s.by_id[s.active] \in Approval
      /\ s.revision \in Nat
  BY <1>1 DEF Sound, WellFormed, ActiveIsThePending, StoreType
<1>3. Settled(s.by_id[s.active], d).trace_id = s.by_id[s.active].trace_id
  BY <1>2, SettledFields
<1> HIDE DEF r
<1>4. Evolves(s, r)
  BY <1>1, <1>2, <1>3 DEF Evolves
<1> QED BY <1>4 DEF r

(* Creating an approval, under a trace of its own, evolves the store. *)
LEMMA EnqueueEvolves ==
  ASSUME NEW s, Sound(s), NEW id \in Ids, NEW fp \in Fingerprints,
         NEW t \in Nat, NEW ttl \in Nat, EnqueueOutcome(s, id, fp) = "Created"
  PROVE  Evolves(s, Enqueue(s, id, fp, t, ttl))
<1> DEFINE r == Enqueue(s, id, fp, t, ttl)
           new == Created(s, fp, t + ttl)
<1>1. /\ id \notin DOMAIN s.by_id
      /\ r.revision = s.revision + 1
      /\ r.by_id = Insert(s.by_id, id, new)
  BY EnqueueShape
<1>2. new.trace_id = s.revision + 1 /\ s.revision \in Nat
  BY DEF Created, Sound, StoreType
<1> HIDE DEF r, new
<1>3. /\ DOMAIN r.by_id = DOMAIN s.by_id \cup {id}
      /\ r.by_id[id] = new
      /\ \A x \in DOMAIN s.by_id : r.by_id[x] = s.by_id[x]
  BY <1>1 DEF Insert
<1>4. Evolves(s, r)
  BY <1>1, <1>2, <1>3 DEF Evolves
<1> QED BY <1>4 DEF r

(* So do two changes in one critical section. *)
LEMMA EvolvesTwice ==
  ASSUME NEW s, NEW m, NEW r, Sound(s), Sound(m), Sound(r), Evolves(s, m), Evolves(m, r)
  PROVE  Evolves(s, r)
<1>1. s.revision \in Nat /\ m.revision \in Nat /\ r.revision \in Nat
  BY DEF Sound, StoreType
<1>2. \A i \in DOMAIN r.by_id : r.by_id[i].trace_id \in Nat
  BY <1>1 DEF Sound, WellFormed, TracesAreUnique
<1>3. s.revision <= r.revision
  BY <1>1 DEF Evolves
<1>4. ASSUME NEW i \in DOMAIN r.by_id, r.by_id[i].trace_id > m.revision
      PROVE  r.by_id[i].trace_id > s.revision
  BY <1>1, <1>2, <1>4 DEF Evolves
<1>5. ASSUME NEW i \in DOMAIN r.by_id, ~ (r.by_id[i].trace_id > m.revision)
      PROVE  \/ r.by_id[i].trace_id > s.revision
             \/ /\ i \in DOMAIN s.by_id
                /\ r.by_id[i].trace_id = s.by_id[i].trace_id
                /\ r.by_id[i].state = s.by_id[i].state \/ IsPending(s.by_id[i])
  BY <1>5 DEF Evolves, IsPending
<1> QED BY <1>3, <1>4, <1>5 DEF Evolves

(* A step keeps the store sound and evolves it. *)
LEMMA StoreEvolves ==
  ASSUME Sound(store), now \in Nat, StoreStep
  PROVE  Sound(store') /\ Evolves(store, store')
<1> USE RuntimeAssumption
<1>1. CASE store' = store
  <2>1. store.revision \in Nat
    BY DEF Sound, StoreType
  <2> QED BY <1>1, <2>1 DEF Evolves
<1>2. ASSUME NEW id \in Ids, NEW fp \in Fingerprints,
             EnqueueOutcome(store, id, fp) = "Created",
             store' = Enqueue(store, id, fp, now, TTL)
      PROVE  Sound(store') /\ Evolves(store, store')
  BY <1>2, EnqueueSound, EnqueueEvolves
<1>3. ASSUME store.active # NoId, NEW id \in Ids, NEW fp \in Fingerprints,
             EnqueueOutcome(Resolve(store, store.active, "TimedOut"), id, fp) = "Created",
             store' = Enqueue(Resolve(store, store.active, "TimedOut"), id, fp, now, TTL)
      PROVE  Sound(store') /\ Evolves(store, store')
  <2> DEFINE m == Resolve(store, store.active, "TimedOut")
  <2>1. Sound(m) /\ Evolves(store, m)
    BY <1>3, ResolveSound, ResolveEvolves DEF Decisions
  <2>2. Sound(store') /\ Evolves(m, store')
    BY <2>1, <1>3, EnqueueSound, EnqueueEvolves
  <2> QED BY <2>1, <2>2, EvolvesTwice
<1>4. ASSUME store.active # NoId, NEW d \in Decisions,
             store' = Resolve(store, store.active, d)
      PROVE  Sound(store') /\ Evolves(store, store')
  BY <1>4, ResolveSound, ResolveEvolves
<1> QED BY <1>1, <1>2, <1>3, <1>4 DEF StoreStep

--------------------------------------------------------------------------------
(* What the store itself says of the approvals that it remembers as decided. *)
Remembered(s) == {Verdict(s.by_id[i]) : i \in {j \in DOMAIN s.by_id : IsDecided(s.by_id[j])}}

(* Saying no more than was said before, or than the store now remembers, stays
   consistent: an approval that has been decided is never decided otherwise, and one
   that is created later is not confused with it. *)
LEMMA SayingStaysConsistent ==
  ASSUME TypeOK, StoreWellFormed, CallsHold, SaidConsistently, Sound(store'),
         Evolves(store, store'), Said' \subseteq Said \cup Remembered(store')
  PROVE  SaidConsistently'
<1>1. /\ store.revision \in Nat /\ store'.revision \in Nat
      /\ store.revision <= store'.revision
  BY DEF TypeOK, Sound, StoreType, Evolves
<1>2. ASSUME NEW v \in Said
      PROVE  v.trace \in Nat /\ v.decision # "Pending"
  <2>1. CASE v \in told
    BY <2>1 DEF TypeOK, Decisions, UserDecisions
  <2>2. ASSUME NEW c \in Announcing, v = [trace |-> call[c].trace, decision |-> call[c].arg]
        PROVE  v.trace \in Nat /\ v.decision # "Pending"
    <3>1. c \in Callers /\ call[c].trace \in Nat
      BY DEF Announcing, Callers, TypeOK
    <3>2. call[c].arg \in Decisions
      BY <3>1 DEF CallsHold, Announcing
    <3> QED BY <2>2, <3>1, <3>2 DEF Decisions, UserDecisions
  <2> QED BY <2>1, <2>2 DEF Said
<1>3. ASSUME NEW v \in Said, NEW i \in DOMAIN store'.by_id,
             store'.by_id[i].trace_id = v.trace
      PROVE  store'.by_id[i].state = v.decision
  <2>1. v.trace <= store.revision /\ v.trace \in Nat /\ v.decision # "Pending"
    BY <1>2 DEF SaidConsistently
  <2>2. ~ (store'.by_id[i].trace_id > store.revision)
    BY <2>1, <1>1, <1>3
  <2>3. /\ i \in DOMAIN store.by_id
        /\ store'.by_id[i].trace_id = store.by_id[i].trace_id
        /\ store'.by_id[i].state = store.by_id[i].state \/ IsPending(store.by_id[i])
    BY <2>2 DEF Evolves
  <2>4. store.by_id[i].state = v.decision
    BY <2>3, <1>3 DEF SaidConsistently
  <2> QED BY <2>1, <2>3, <2>4 DEF IsPending
<1>4. ASSUME NEW v \in Remembered(store'), NEW i \in DOMAIN store'.by_id,
             store'.by_id[i].trace_id = v.trace
      PROVE  store'.by_id[i].state = v.decision
  <2>1. PICK j \in DOMAIN store'.by_id : v = Verdict(store'.by_id[j])
    BY DEF Remembered
  <2>2. i = j
    BY <2>1, <1>4 DEF Verdict, Sound, WellFormed, TracesAreUnique
  <2> QED BY <2>1, <2>2 DEF Verdict
<1>5. ASSUME NEW v \in Remembered(store')
      PROVE  /\ v.trace <= store'.revision
             /\ \E j \in DOMAIN store'.by_id : v = Verdict(store'.by_id[j])
  <2>1. PICK j \in DOMAIN store'.by_id : v = Verdict(store'.by_id[j])
    BY DEF Remembered
  <2> QED BY <2>1, <1>1 DEF Verdict, Sound, WellFormed, TracesAreUnique
<1>6. \A v \in Said' : v.trace <= store'.revision
  <2>1. ASSUME NEW v \in Said PROVE v.trace <= store'.revision
    BY <1>1, <1>2 DEF SaidConsistently
  <2> QED BY <2>1, <1>5
<1>7. \A v \in Said', i \in DOMAIN store'.by_id :
        store'.by_id[i].trace_id = v.trace => store'.by_id[i].state = v.decision
  BY <1>3, <1>4
<1>8. ASSUME NEW v \in Remembered(store'), NEW w \in Said \cup Remembered(store'),
             v.trace = w.trace
      PROVE  v.decision = w.decision
  <2>1. PICK j \in DOMAIN store'.by_id : v = Verdict(store'.by_id[j])
    BY <1>5
  <2>2. store'.by_id[j].trace_id = w.trace /\ v.decision = store'.by_id[j].state
    BY <2>1, <1>8 DEF Verdict
  <2> QED BY <2>2, <1>3, <1>4
<1>9. \A v, w \in Said' : v.trace = w.trace => v.decision = w.decision
  <2>1. \A v, w \in Said : v.trace = w.trace => v.decision = w.decision
    BY DEF SaidConsistently
  <2> QED BY <2>1, <1>8
<1> QED BY <1>6, <1>7, <1>9 DEF SaidConsistently

--------------------------------------------------------------------------------
(* The types of a call's locals. *)
Call == [pc : PCs, id : Ids \cup {NoId},
         arg : Fingerprints \cup Decisions \cup {NoId}, trace : Nat]

(* A verdict that the store gives is a decision about some trace. *)
LEMMA VerdictType ==
  ASSUME Sound(store), NEW i \in DOMAIN store.by_id, IsDecided(store.by_id[i])
  PROVE  /\ Verdict(store.by_id[i]) \in [trace : Nat, decision : Decisions]
         /\ Verdict(store.by_id[i]) \in Remembered(store)
BY DEF Sound, StoreType, Approval, Verdict, IsDecided, Remembered

(* The steps of a call outside the store: what they do to the types, to what a call
   holds and to what has been said. *)
Harmless ==
  /\ TypeOK'
  /\ CallsHold'
  /\ Said' \subseteq Said \cup Remembered(store')

(* A call moves on, its locals being of their types; nothing else is touched but the
   histories, which receive what is well typed. *)
LEMMA CallMoves ==
  ASSUME Inv, Sound(store'), now' \in Nat, accepting' \in BOOLEAN,
         DOMAIN watchers' \subseteq Ids, watchers' \in [DOMAIN watchers' -> Nat],
         events' \in Seq([kind : {"pushed", "resolved"}, trace : Nat,
                          decision : {"Pending"} \cup Decisions]),
         told' \subseteq Said \cup Remembered(store'),
         late' \subseteq Nat,
         NEW c \in Callers, NEW k \in Call,
         k.id = NoId => k.pc \in {"idle", "cancel", "done"},
         k.pc = "enqueue" => k.arg \in Fingerprints,
         k.pc \in {"notify", "announce"} =>
           /\ k.arg \in Decisions
           /\ [trace |-> k.trace, decision |-> k.arg] \in Said \cup Remembered(store'),
         call' = [call EXCEPT ![c] = k]
  PROVE  Harmless
<1>1. /\ call \in [Callers -> Call]
      /\ \A d \in Callers : call[d].id = NoId => call[d].pc \in {"idle", "cancel", "done"}
      /\ told \subseteq [trace : Nat, decision : Decisions]
      /\ \A d \in Callers : /\ At(d, "enqueue") => call[d].arg \in Fingerprints
                            /\ call[d].pc \in {"notify", "announce"} =>
                                 call[d].arg \in Decisions
  BY DEF Inv, TypeOK, Call, CallsHold
<1>2. /\ call' \in [Callers -> Call]
      /\ call'[c] = k
      /\ \A d \in Callers \ {c} : call'[d] = call[d]
  BY <1>1
<1>3. Said \subseteq [trace : Nat, decision : Decisions]
  <2>1. ASSUME NEW d \in Announcing
        PROVE  [trace |-> call[d].trace, decision |-> call[d].arg]
                 \in [trace : Nat, decision : Decisions]
    <3>1. d \in Callers /\ call[d].pc \in {"notify", "announce"}
      BY DEF Announcing, Callers
    <3>2. call[d].trace \in Nat /\ call[d].arg \in Decisions
      BY <1>1, <3>1 DEF Call
    <3> QED BY <3>2
  <2> QED BY <2>1, <1>1 DEF Said
<1>4. Remembered(store') \subseteq [trace : Nat, decision : Decisions]
  BY DEF Remembered, Verdict, Sound, StoreType, Approval, IsDecided
<1>5. TypeOK'
  BY <1>1, <1>2, <1>3, <1>4 DEF TypeOK, Sound, Call
<1>6. CallsHold'
  BY <1>1, <1>2 DEF CallsHold, At
<1>7. ASSUME NEW d \in Announcing'
      PROVE  [trace |-> call'[d].trace, decision |-> call'[d].arg]
               \in Said \cup Remembered(store')
  <2>1. d \in Resolvers /\ d \in Callers /\ call'[d].pc \in {"notify", "announce"}
    BY DEF Announcing, Callers
  <2>2. CASE d = c
    BY <2>1, <2>2, <1>2
  <2>3. CASE d # c
    <3>1. call'[d] = call[d]
      BY <2>1, <2>3, <1>2
    <3>2. d \in Announcing
      BY <2>1, <3>1 DEF Announcing
    <3> QED BY <3>1, <3>2 DEF Said
  <2> QED BY <2>2, <2>3
<1>8. Said' \subseteq Said \cup Remembered(store')
  BY <1>7 DEF Said
<1> QED BY <1>5, <1>6, <1>8 DEF Harmless

(* Where it does not change the calls, a step is harmless if it keeps the types. *)
LEMMA CallsStay ==
  ASSUME Inv, Sound(store'), now' \in Nat, accepting' = accepting, watchers' = watchers,
         events' = events, late' = late, call' = call,
         told' \subseteq told \cup Remembered(store')
  PROVE  Harmless
<1>1. Remembered(store') \subseteq [trace : Nat, decision : Decisions]
  BY DEF Remembered, Verdict, Sound, StoreType, Approval, IsDecided
<1>2. TypeOK'
  BY <1>1 DEF Inv, TypeOK, Sound
<1>3. CallsHold'
  BY DEF Inv, CallsHold, At
<1>4. Said' \subseteq Said \cup Remembered(store')
  BY DEF Said, Announcing
<1> QED BY <1>2, <1>3, <1>4 DEF Harmless

(* A resolution of the active approval is what the store then remembers of it. *)
LEMMA ResolvedIsRemembered ==
  ASSUME NEW s, Sound(s), s.active # NoId, NEW d \in Decisions,
         Knows(Resolve(s, s.active, d), s.active)
  PROVE  LET r == Resolve(s, s.active, d)
         IN /\ [trace |-> r.by_id[s.active].trace_id, decision |-> d] \in Remembered(r)
            /\ r.by_id[s.active].trace_id \in Nat
<1> DEFINE r == Resolve(s, s.active, d)
<1>1. /\ s.active \in DOMAIN s.by_id
      /\ \A x \in DOMAIN r.by_id :
           r.by_id[x] = IF x = s.active THEN Settled(s.by_id[x], d) ELSE s.by_id[x]
  BY ResolveShape
<1>2. Sound(r)
  BY ResolveSound
<1>3. s.by_id[s.active] \in Approval
  BY <1>1 DEF Sound, StoreType
<1>4. s.active \in DOMAIN r.by_id
  BY DEF Knows
<1> HIDE DEF r
<1>5. r.by_id[s.active] = Settled(s.by_id[s.active], d)
  BY <1>1, <1>4
<1>6. r.by_id[s.active].state = d
  BY <1>3, <1>5, SettledFields
<1>7. [trace |-> r.by_id[s.active].trace_id, decision |-> d] \in Remembered(r)
  BY <1>4, <1>6 DEF Remembered, Verdict, IsDecided
<1>8. r.by_id[s.active].trace_id \in Nat
  BY <1>2, <1>4 DEF Sound, StoreType, Approval
<1> QED BY <1>7, <1>8 DEF r

(* Every step is harmless. *)
LEMMA StepsAreHarmless ==
  ASSUME Inv, [Next]_vars, Sound(store')
  PROVE  Harmless
<1> USE RuntimeAssumption
<1>1. /\ TypeOK /\ Sound(store) /\ StoreType(store) /\ StoreType(store')
      /\ call \in [Callers -> Call]
  BY DEF Inv, TypeOK, StoreWellFormed, Sound, Call
<1>2. /\ Submitters \subseteq Callers /\ Pollers \subseteq Callers
      /\ Deciders \subseteq Callers /\ Handlers \subseteq Callers
      /\ Resolvers \subseteq Callers /\ Closer \in Callers
  BY DEF Callers, Handlers, Resolvers
<1>3. Idle \in Call /\ [Idle EXCEPT !.pc = "done"] \in Call
  BY DEF Idle, Call, PCs
<1>4. store.revision \in Nat /\ store'.revision \in Nat
  BY <1>1 DEF StoreType
<1>5. ASSUME NEW c \in Submitters, NEW id \in Ids, NEW fp \in Fingerprints,
             SubmitArrives(c, id, fp)
      PROVE  Harmless
  <2> DEFINE k == [pc |-> "enqueue", id |-> id, arg |-> fp, trace |-> 0]
  <2>1. call' = [call EXCEPT ![c] = k]
    BY <1>5 DEF SubmitArrives, Begin
  <2>2. k \in Call /\ k.id # NoId
    BY StoreAssumption DEF Call, PCs
  <2> QED BY <1>1, <1>2, <1>5, <2>1, <2>2, CallMoves DEF SubmitArrives, TypeOK, Said
<1>6. ASSUME NEW c \in Handlers, SubmitEnqueue(c) PROVE Harmless
  <2> DEFINE k1 == [call[c] EXCEPT !.pc = "watch", !.trace = store'.revision]
             k2 == [call[c] EXCEPT !.pc = "existing"]
  <2>1. \/ call' = [call EXCEPT ![c] = k1]
        \/ call' = [call EXCEPT ![c] = k2]
        \/ call' = [call EXCEPT ![c] = Idle]
    BY <1>6 DEF SubmitEnqueue, Goto, Return
  <2>2. call[c].id # NoId
    BY <1>1, <1>2, <1>6 DEF SubmitEnqueue, At, TypeOK
  <2>3. k1 \in Call /\ k1.id # NoId /\ k1.pc = "watch"
    BY <1>1, <1>2, <1>4, <2>2 DEF Call, PCs
  <2>4. k2 \in Call /\ k2.id # NoId /\ k2.pc = "existing"
    BY <1>1, <1>2, <2>2 DEF Call, PCs
  <2>5. Idle.pc = "idle"
    BY DEF Idle
  <2> HIDE DEF k1, k2
  <2>6. \E k \in Call : /\ call' = [call EXCEPT ![c] = k]
                        /\ k.id = NoId => k.pc = "idle"
                        /\ k.pc \notin {"enqueue", "notify", "announce"}
    BY <1>3, <2>1, <2>3, <2>4, <2>5
  <2> QED BY <1>1, <1>2, <1>6, <2>6, CallMoves DEF SubmitEnqueue, TypeOK, Said
<1>7. ASSUME NEW c \in Handlers, SubmitWatch(c) PROVE Harmless
  <2> DEFINE k == [call[c] EXCEPT !.pc = "push"]
  <2>1. call' = [call EXCEPT ![c] = k]
    BY <1>7 DEF SubmitWatch, Goto
  <2>2. call[c].id \in Ids /\ call[c].trace \in Nat
    BY <1>1, <1>2, <1>7 DEF SubmitWatch, At, TypeOK, Call
  <2>3. k \in Call /\ k.id # NoId /\ k.pc = "push"
    BY <1>1, <1>2, <2>2, StoreAssumption DEF Call, PCs
  <2>4. DOMAIN watchers' \subseteq Ids /\ watchers' \in [DOMAIN watchers' -> Nat]
    BY <1>1, <1>7, <2>2 DEF SubmitWatch, Insert, TypeOK
  <2>5. late' \subseteq Nat
    BY <1>1, <1>7, <2>2 DEF SubmitWatch, TypeOK
  <2> HIDE DEF k
  <2> QED
    BY <1>1, <1>2, <1>7, <2>1, <2>3, <2>4, <2>5, CallMoves DEF SubmitWatch, TypeOK, Said
<1>8. ASSUME NEW c \in Handlers, SubmitPush(c) PROVE Harmless
  <2> DEFINE k == [call[c] EXCEPT !.pc = "wait"]
  <2>1. call' = [call EXCEPT ![c] = k]
    BY <1>8 DEF SubmitPush, Goto
  <2>2. call[c].id # NoId /\ call[c].trace \in Nat
    BY <1>1, <1>2, <1>8 DEF SubmitPush, At, TypeOK, Call
  <2>3. k \in Call /\ k.id # NoId /\ k.pc = "wait"
    BY <1>1, <1>2, <2>2 DEF Call, PCs
  <2>4. events' \in Seq([kind : {"pushed", "resolved"}, trace : Nat,
                         decision : {"Pending"} \cup Decisions])
    BY <1>1, <1>8, <2>2 DEF SubmitPush, TypeOK
  <2> HIDE DEF k
  <2> QED
    BY <1>1, <1>2, <1>8, <2>1, <2>3, <2>4, CallMoves DEF SubmitPush, TypeOK, Said
<1>9. ASSUME NEW c \in Handlers, SubmitExisting(c) \/ Recheck(c) PROVE Harmless
  <2>1. call' = [call EXCEPT ![c] = Idle]
    BY <1>9 DEF SubmitExisting, Recheck, Return
  <2>2. store' = store /\ Remembered(store') = Remembered(store)
    BY <1>9 DEF SubmitExisting, Recheck
  <2>3. told' \subseteq Said \cup Remembered(store')
    BY <1>1, <1>9, <2>2, VerdictType DEF SubmitExisting, Recheck, Knows, Said
  <2>4. Idle.pc = "idle"
    BY DEF Idle
  <2> QED
    BY <1>1, <1>2, <1>3, <1>9, <2>1, <2>3, <2>4, CallMoves
    DEF SubmitExisting, Recheck, TypeOK
<1>10. ASSUME NEW c \in Pollers, NEW id \in Ids, PollCheck(c, id) PROVE Harmless
  <2> DEFINE k == [pc |-> "subscribe", id |-> id, arg |-> NoId, trace |-> 0]
  <2>1. k \in Call /\ k.id # NoId
    BY StoreAssumption DEF Call, PCs
  <2>2. CASE Knows(store, id) /\ IsPending(store.by_id[id])
    <3>1. call' = [call EXCEPT ![c] = k]
      BY <1>10, <2>2 DEF PollCheck, Begin
    <3> QED
      BY <1>1, <1>2, <1>10, <2>1, <2>2, <3>1, CallMoves DEF PollCheck, TypeOK, Said
  <2>3. CASE ~ (Knows(store, id) /\ IsPending(store.by_id[id]))
    <3>1. store' = store /\ Remembered(store') = Remembered(store)
      BY <1>10 DEF PollCheck
    <3>2. Knows(store, id) => Verdict(store.by_id[id]) \in Remembered(store)
      <4>1. Knows(store, id) => IsDecided(store.by_id[id])
        BY <1>1, <2>3 DEF Knows, IsPending, IsDecided, StoreType, Approval
      <4> QED BY <1>1, <4>1, VerdictType DEF Knows
    <3>3. told' \subseteq told \cup Remembered(store')
      BY <1>10, <2>3, <3>1, <3>2 DEF PollCheck
    <3> QED BY <1>1, <1>10, <2>3, <3>3, CallsStay DEF PollCheck, TypeOK
  <2> QED BY <2>2, <2>3
<1>11. ASSUME NEW c \in Handlers, PollSubscribe(c) PROVE Harmless
  <2>1. call[c].id # NoId
    BY <1>1, <1>2, <1>11 DEF PollSubscribe, At, TypeOK
  <2>2. CASE call[c].id \in DOMAIN watchers
    <3> DEFINE k == [call[c] EXCEPT !.pc = "wait", !.trace = watchers[call[c].id]]
    <3>1. call' = [call EXCEPT ![c] = k]
      BY <1>11, <2>2 DEF PollSubscribe
    <3>2. watchers[call[c].id] \in Nat
      BY <1>1, <2>2 DEF TypeOK
    <3>3. k \in Call /\ k.id # NoId /\ k.pc = "wait"
      BY <1>1, <1>2, <2>1, <3>2 DEF Call, PCs
    <3> HIDE DEF k
    <3> QED
      BY <1>1, <1>2, <1>11, <3>1, <3>3, CallMoves DEF PollSubscribe, TypeOK, Said
  <2>3. CASE call[c].id \notin DOMAIN watchers
    <3>1. call' = [call EXCEPT ![c] = Idle] /\ Idle.pc = "idle"
      BY <1>11, <2>3 DEF PollSubscribe, Return, Idle
    <3> QED
      BY <1>1, <1>2, <1>3, <1>11, <3>1, CallMoves DEF PollSubscribe, TypeOK, Said
  <2> QED BY <2>2, <2>3
<1>12. ASSUME NEW c \in Handlers, Disconnect(c) PROVE Harmless
  <2>1. call' = [call EXCEPT ![c] = Idle] /\ Idle.pc = "idle"
    BY <1>12 DEF Disconnect, Return, Idle
  <2> QED
    BY <1>1, <1>2, <1>3, <1>12, <2>1, CallMoves DEF Disconnect, TypeOK, Said
<1>13. ASSUME NEW c \in Deciders, NEW id \in Ids, NEW d \in UserDecisions,
              DecideLocked(c, id, d)
       PROVE  Harmless
  <2> DEFINE expired == ExpireDuePending(store, now)
  <2>1. CASE DecideOutcome(expired, id) = "Ok" /\ Knows(store', id)
    <3> DEFINE k == [pc |-> "notify", id |-> id, arg |-> d,
                     trace |-> store'.by_id[id].trace_id]
    <3>1. call' = [call EXCEPT ![c] = k]
      BY <1>13, <2>1 DEF DecideLocked
    <3>2. Sound(expired) /\ d \in Decisions
      BY <1>1, ExpireSound DEF Decisions
    <3>3. expired.active = id /\ expired.active # NoId
      BY <2>1, <3>2, DecidableIsActive
    <3>4. store' = Resolve(expired, id, d)
      BY <1>13, <2>1 DEF DecideLocked, Decide
    <3>5. /\ [trace |-> store'.by_id[id].trace_id, decision |-> d] \in Remembered(store')
          /\ store'.by_id[id].trace_id \in Nat
      BY <2>1, <3>2, <3>3, <3>4, ResolvedIsRemembered
    <3>6. k \in Call /\ k.id # NoId
      BY <3>2, <3>5, StoreAssumption DEF Call, PCs
    <3> QED
      BY <1>1, <1>2, <1>13, <3>1, <3>2, <3>5, <3>6, CallMoves DEF DecideLocked, TypeOK, Said
  <2>2. CASE ~ (DecideOutcome(expired, id) = "Ok" /\ Knows(store', id))
    BY <1>1, <1>13, <2>2, CallsStay DEF DecideLocked, TypeOK
  <2> QED BY <2>1, <2>2
<1>14. ASSUME NEW c \in Resolvers, Notify(c) PROVE Harmless
  <2> DEFINE k == [call[c] EXCEPT !.pc = "announce"]
  <2>1. call' = [call EXCEPT ![c] = k]
    BY <1>14 DEF Notify, Goto
  <2>2. /\ call[c].id # NoId /\ call[c].trace \in Nat /\ call[c].arg \in Decisions
        /\ [trace |-> call[c].trace, decision |-> call[c].arg] \in Said
    BY <1>1, <1>2, <1>14 DEF Notify, At, TypeOK, Call, Inv, CallsHold, Said, Announcing
  <2>3. /\ k \in Call /\ k.id # NoId /\ k.pc = "announce"
        /\ k.trace = call[c].trace /\ k.arg = call[c].arg
    BY <1>1, <1>2, <2>2 DEF Call, PCs
  <2>4. DOMAIN watchers' \subseteq Ids /\ watchers' \in [DOMAIN watchers' -> Nat]
    BY <1>1, <1>14 DEF Notify, Restrict, TypeOK
  <2> HIDE DEF k
  <2> QED
    BY <1>1, <1>2, <1>14, <2>1, <2>2, <2>3, <2>4, CallMoves DEF Notify, TypeOK, Said
<1>15. ASSUME NEW c \in Resolvers, Announce(c) PROVE Harmless
  <2> DEFINE v == [trace |-> call[c].trace, decision |-> call[c].arg]
  <2>1. \E k \in {Idle, [Idle EXCEPT !.pc = "done"]} : call' = [call EXCEPT ![c] = k]
    BY <1>15 DEF Announce, Return
  <2>2. call[c].trace \in Nat /\ call[c].arg \in Decisions /\ v \in Said
    BY <1>1, <1>2, <1>15 DEF Announce, At, TypeOK, Call, Inv, CallsHold, Said, Announcing
  <2>3. events' = Append(events, [kind |-> "resolved", trace |-> call[c].trace,
                                  decision |-> call[c].arg])
    BY <1>15 DEF Announce
  <2>4. events' \in Seq([kind : {"pushed", "resolved"}, trace : Nat,
                         decision : {"Pending"} \cup Decisions])
    BY <1>1, <2>2, <2>3 DEF TypeOK
  <2>5. told' \subseteq Said \cup Remembered(store')
    BY <1>15, <2>2 DEF Announce, Said
  <2>6. Idle.pc = "idle" /\ [Idle EXCEPT !.pc = "done"].pc = "done"
    BY DEF Idle
  <2> HIDE DEF v
  <2>7. \E k \in Call : /\ call' = [call EXCEPT ![c] = k]
                        /\ k.pc \in {"idle", "done"}
    BY <1>3, <2>1, <2>6
  <2> QED
    BY <1>1, <1>2, <1>15, <2>4, <2>5, <2>7, CallMoves DEF Announce, TypeOK
<1>16. ASSUME BeginShutdown PROVE Harmless
  <2> DEFINE k == [call[Closer] EXCEPT !.pc = "cancel"]
  <2>1. call' = [call EXCEPT ![Closer] = k]
    BY <1>16 DEF BeginShutdown, Goto
  <2>2. k \in Call /\ k.pc = "cancel"
    BY <1>1, <1>2 DEF Call, PCs
  <2> HIDE DEF k
  <2> QED
    BY <1>1, <1>2, <1>16, <2>1, <2>2, CallMoves DEF BeginShutdown, TypeOK, Said
<1>17. ASSUME CancelAll PROVE Harmless
  <2> DEFINE id == store.active
  <2>1. CASE store' # store /\ Knows(store', id)
    <3> DEFINE k == [pc |-> "notify", id |-> id, arg |-> "Cancelled",
                     trace |-> store'.by_id[id].trace_id]
    <3>1. call' = [call EXCEPT ![Closer] = k]
      BY <1>17, <2>1 DEF CancelAll
    <3>2. DecideOutcome(store, id) = "Ok" /\ store' = Resolve(store, id, "Cancelled")
      BY <1>17, <2>1 DEF CancelAll, Cancel
    <3>3. id # NoId /\ id \in Ids
      BY <1>1, <3>2, DecidableIsActive DEF StoreType
    <3>4. "Cancelled" \in Decisions
      BY DEF Decisions
    <3>5. /\ [trace |-> store'.by_id[id].trace_id, decision |-> "Cancelled"]
               \in Remembered(store')
          /\ store'.by_id[id].trace_id \in Nat
      BY <1>1, <2>1, <3>2, <3>3, <3>4, ResolvedIsRemembered
    <3>6. k \in Call /\ k.id # NoId
      BY <3>3, <3>4, <3>5 DEF Call, PCs
    <3> QED
      BY <1>1, <1>2, <1>17, <3>1, <3>4, <3>5, <3>6, CallMoves DEF CancelAll, TypeOK, Said
  <2>2. CASE ~ (store' # store /\ Knows(store', id))
    <3> DEFINE k == [call[Closer] EXCEPT !.pc = "done"]
    <3>1. call' = [call EXCEPT ![Closer] = k]
      BY <1>17, <2>2 DEF CancelAll, Goto
    <3>2. k \in Call /\ k.pc = "done"
      BY <1>1, <1>2 DEF Call, PCs
    <3> HIDE DEF k
    <3> QED
      BY <1>1, <1>2, <1>17, <3>1, <3>2, CallMoves DEF CancelAll, TypeOK, Said
  <2> QED BY <2>1, <2>2
<1>18. ASSUME TakeSnapshot \/ Tick \/ UNCHANGED vars PROVE Harmless
  BY <1>1, <1>18, CallsStay DEF TakeSnapshot, Tick, vars, TypeOK
<1>19. ASSUME NEW c \in Handlers,
              HandlerStep(c) \/ WaitTimesOut(c) \/ Disconnect(c)
       PROVE  Harmless
  BY <1>6, <1>7, <1>8, <1>9, <1>11, <1>12, <1>19 DEF HandlerStep, WaitWakes, WaitTimesOut
<1>20. ASSUME NEW c \in Resolvers, ResolverStep(c) PROVE Harmless
  BY <1>14, <1>15, <1>20 DEF ResolverStep
<1> QED
  BY <1>5, <1>10, <1>13, <1>16, <1>17, <1>18, <1>19, <1>20 DEF Next

(* The invariant holds at the start and is kept by every step. *)
LEMMA InitInv == Init => Inv
<1> SUFFICES ASSUME Init PROVE Inv
  OBVIOUS
<1>1. Sound(store)
  BY NewStoreSound DEF Init
<1>2. \A c \in Callers : call[c] = Idle
  BY DEF Init
<1>3. events \in Seq([kind : {"pushed", "resolved"}, trace : Nat,
                      decision : {"Pending"} \cup Decisions])
  BY DEF Init
<1>4. call \in [Callers -> Call] /\ Idle.pc = "idle"
  BY DEF Init, Idle, Call, PCs
<1>5. TypeOK
  BY <1>1, <1>2, <1>3, <1>4 DEF Init, TypeOK, Sound, Call
<1>6. CallsHold
  BY <1>2, <1>4 DEF CallsHold, At
<1>7. Said = {}
  BY <1>2, <1>4 DEF Said, Announcing, Init, Callers
<1> QED BY <1>1, <1>5, <1>6, <1>7 DEF Inv, StoreWellFormed, Sound, SaidConsistently

(* Every step keeps the invariant. *)
LEMMA StepInv == Inv /\ [Next]_vars => Inv'
<1> SUFFICES ASSUME Inv, [Next]_vars PROVE Inv'
  OBVIOUS
<1>1. /\ Sound(store) /\ now \in Nat
      /\ TypeOK /\ StoreWellFormed /\ CallsHold /\ SaidConsistently
  BY DEF Inv, TypeOK, StoreWellFormed, Sound
<1>2. Sound(store') /\ Evolves(store, store')
  BY <1>1, StoreSteps, StoreEvolves
<1>3. Harmless
  BY <1>2, StepsAreHarmless
<1>4. SaidConsistently'
  BY <1>1, <1>2, <1>3, SayingStaysConsistent DEF Harmless
<1> QED BY <1>2, <1>3, <1>4 DEF Harmless, Inv, StoreWellFormed, Sound

--------------------------------------------------------------------------------
(* The runtime's state always has the types that its Rust declarations give it, and
   what a call carries those its handler needs. *)
THEOREM TypeCorrect == Spec => []TypeOK
<1>1. Inv => TypeOK
  BY DEF Inv
<1> QED BY <1>1, InitInv, StepInv, PTL DEF Spec

(* However calls interleave between the two locks, the store that their critical
   sections compose stays consistent. *)
THEOREM AlwaysWellFormed == Spec => []StoreWellFormed
<1>1. Inv => StoreWellFormed
  BY DEF Inv
<1> QED BY <1>1, InitInv, StepInv, PTL DEF Spec

(* No two clients are ever told different decisions about one approval: the waiting
   hook, a poll, a repeated submission and the HUD agree, for any number of callers,
   evictions and resubmissions. *)
THEOREM OneVerdictPerApproval == Spec => []ToldConsistently
<1>1. Inv => ToldConsistently
  BY DEF Inv, SaidConsistently, Said, ToldConsistently
<1> QED BY <1>1, InitInv, StepInv, PTL DEF Spec

(* No user decision takes effect on an approval that is overdue, however long the
   decide call waited for the lock. *)
THEOREM NobodyDecidesTooLate == Spec => NoLateUserDecision
<1> DEFINE A == \A id \in DOMAIN store.by_id :
                  /\ IsPending(store.by_id[id])
                  /\ id \in DOMAIN store'.by_id
                  /\ store'.by_id[id].state \in UserDecisions
                  => now < store.by_id[id].expires_at
<1>1. ASSUME Inv, [Next]_vars PROVE A
  <2> SUFFICES ASSUME NEW id \in DOMAIN store.by_id,
                      IsPending(store.by_id[id]), id \in DOMAIN store'.by_id,
                      store'.by_id[id].state \in UserDecisions
               PROVE  now < store.by_id[id].expires_at
    OBVIOUS
  <2>1. /\ Sound(store) /\ now \in Nat /\ StoreStep
        /\ store.by_id[id] \in Approval
        /\ id = store.active /\ id # NoId
    BY <1>1, StoreSteps, StoreAssumption
    DEF Inv, TypeOK, StoreWellFormed, Sound, StoreType, WellFormed, ActiveIsThePending
  <2>2. ASSUME NEW d \in Decisions, Resolve(store, id, d).by_id[id].state \in UserDecisions,
               id \in DOMAIN Resolve(store, id, d).by_id
        PROVE  d \in UserDecisions
    <3>1. Resolve(store, id, d).by_id[id] = Settled(store.by_id[id], d)
      BY <2>1, <2>2, ResolveShape
    <3>2. Settled(store.by_id[id], d).state = d
      BY <2>1, SettledFields
    <3> QED BY <3>1, <3>2, <2>2
  <2>3. CASE store' = store
    BY <2>3 DEF IsPending, UserDecisions
  <2>4. ASSUME NEW i \in Ids, NEW fp \in Fingerprints,
               EnqueueOutcome(store, i, fp) = "Created"
        PROVE  FALSE
    BY <2>1, <2>4 DEF EnqueueOutcome
  <2>5. ASSUME NEW i \in Ids, NEW fp \in Fingerprints,
               EnqueueOutcome(Resolve(store, store.active, "TimedOut"), i, fp) = "Created",
               store' = Enqueue(Resolve(store, store.active, "TimedOut"), i, fp, now, TTL)
        PROVE  FALSE
    <3> DEFINE m == Resolve(store, id, "TimedOut")
    <3>1. "TimedOut" \in Decisions /\ "TimedOut" \notin UserDecisions
      BY DEF Decisions, UserDecisions
    <3>2. Sound(m)
      BY <2>1, <3>1, ResolveSound
    <3>3. store'.by_id = Insert(m.by_id, i, Created(m, fp, now + TTL))
      BY <2>1, <2>5, <3>2, EnqueueShape, RuntimeAssumption
    <3>4. id # i
      <4>1. store'.by_id[i] = Created(m, fp, now + TTL)
        BY <3>3 DEF Insert
      <4> QED BY <4>1 DEF Created, UserDecisions
    <3>5. id \in DOMAIN m.by_id /\ store'.by_id[id] = m.by_id[id]
      BY <3>3, <3>4 DEF Insert
    <3> QED BY <3>1, <3>5, <2>2
  <2>6. ASSUME NEW d \in Decisions, d \in UserDecisions => ~ IsDue(store, now),
               store' = Resolve(store, store.active, d)
        PROVE  now < store.by_id[id].expires_at
    <3>1. ~ IsDue(store, now)
      BY <2>1, <2>2, <2>6
    <3> QED BY <3>1, <2>1 DEF IsDue, Knows, Approval
  <2> QED BY <2>1, <2>3, <2>4, <2>5, <2>6 DEF StoreStep
<1>2. Inv /\ [Next]_vars => [A]_vars
  BY <1>1
<1> QED BY <1>2, InitInv, StepInv, PTL DEF Spec, NoLateUserDecision

(* Concurrent calls act on the ledger one at a time: every critical section is one of
   its steps, or leaves it alone. *)
THEOREM RuntimeImplementsLedger == Spec => ImplementsLedger
<1>1. Init => Ledger!Init
  <2> SUFFICES ASSUME Init PROVE Ledger!Init
    OBVIOUS
  <2>1. store.active = NoId /\ store.cached_order = <<>>
    BY DEF Init, NewStore
  <2>2. LedgerWindow(store) = <<>>
    BY <2>1, EmptySeq DEF LedgerWindow
  <2> QED BY <2>1, <2>2 DEF Ledger!Init, PendingRequests
<1>2. Inv /\ [Next]_vars => [Ledger!Next]_(Ledger!ledgerVars)
  <2> SUFFICES ASSUME Inv, [Next]_vars PROVE [Ledger!Next]_(Ledger!ledgerVars)
    OBVIOUS
  <2>1. Sound(store) /\ now \in Nat /\ TTL \in Nat /\ StoreStep
    BY StoreSteps, RuntimeAssumption DEF Inv, TypeOK, StoreWellFormed, Sound
  <2>2. ASSUME NEW s, Sound(s), s.active # NoId, NEW d \in Decisions
        PROVE  \E req \in PendingRequests(s) :
                 /\ PendingRequests(s) = {req}
                 /\ PendingRequests(Resolve(s, s.active, d)) = {}
                 /\ LedgerWindow(Resolve(s, s.active, d))
                      = Ledger!Recent(Append(LedgerWindow(s), Ledger!Entry(req, d)))
    <3> DEFINE req == [id |-> s.active, fingerprint |-> s.by_id[s.active].fingerprint]
               log == Append(LedgerWindow(s), Ledger!Entry(req, d))
    <3>1. Ledger!Entry(req, d) =
            [id |-> req.id, fingerprint |-> req.fingerprint, decision |-> d]
      BY DEF Ledger!Entry
    <3>2. /\ PendingRequests(s) = {req}
          /\ PendingRequests(Resolve(s, s.active, d)) = {}
          /\ LedgerWindow(Resolve(s, s.active, d)) = Survivors(log)
      BY <2>2, <3>1, ResolveOnLedger
    <3>3. Survivors(log) = Ledger!Recent(log)
      BY DEF Survivors, Excess, Ledger!Recent
    <3> HIDE DEF req
    <3> QED BY <3>2, <3>3
  <2>3. ASSUME NEW id \in Ids, NEW fp \in Fingerprints,
               EnqueueOutcome(store, id, fp) = "Created",
               store' = Enqueue(store, id, fp, now, TTL)
        PROVE  Ledger!Submit(id, fp)
    BY <2>1, <2>3, EnqueueOnLedger
    DEF Ledger!Submit, Ledger!Request, Ledger!Remembered
  <2>4. ASSUME store.active # NoId, NEW id \in Ids, NEW fp \in Fingerprints,
               EnqueueOutcome(Resolve(store, store.active, "TimedOut"), id, fp) = "Created",
               store' = Enqueue(Resolve(store, store.active, "TimedOut"), id, fp, now, TTL)
        PROVE  Ledger!Overtake(id, fp)
    <3> DEFINE m == Resolve(store, store.active, "TimedOut")
    <3>1. "TimedOut" \in Decisions
      BY DEF Decisions
    <3>2. Sound(m)
      BY <2>1, <2>4, <3>1, ResolveSound
    <3>3. PICK req \in PendingRequests(store) :
            LedgerWindow(m) = Ledger!Recent(Append(LedgerWindow(store),
                                                   Ledger!Entry(req, "TimedOut")))
      BY <2>1, <2>2, <2>4, <3>1
    <3>4. /\ PendingRequests(store') = {Ledger!Request(id, fp)}
          /\ LedgerWindow(store') = LedgerWindow(m)
          /\ id \notin Ledger!Remembered(LedgerWindow(store'))
      BY <2>1, <2>4, <3>2, EnqueueOnLedger DEF Ledger!Request, Ledger!Remembered
    <3> QED BY <3>3, <3>4 DEF Ledger!Overtake
  <2>5. ASSUME store.active # NoId, NEW d \in Decisions,
               store' = Resolve(store, store.active, d)
        PROVE  Ledger!Settle(d)
    BY <2>1, <2>2, <2>5 DEF Ledger!Settle
  <2>6. store' = store => UNCHANGED Ledger!ledgerVars
    BY DEF Ledger!ledgerVars
  <2> QED
    BY <2>1, <2>3, <2>4, <2>5, <2>6 DEF StoreStep, Ledger!Next, Decisions, UserDecisions
<1> QED BY <1>1, <1>2, InitInv, StepInv, PTL DEF Spec, ImplementsLedger, Ledger!Spec

--------------------------------------------------------------------------------
(***************************************************************************)
(* Resolvers: no wake-up is lost and every resolution is announced once.   *)
(***************************************************************************)
Announceable == Decisions \ {"TimedOut"}

(* Between two stores nothing was resolved but by expiry, the ids in X apart. *)
NothingResolvedBut(X, s, r) ==
  \A i \in DOMAIN r.by_id \ X :
    r.by_id[i].state \in Announceable =>
      i \in DOMAIN s.by_id /\ r.by_id[i] = s.by_id[i]

(* A resolution resolves the active approval and no other. *)
LEMMA ResolveResolves ==
  ASSUME NEW s, Sound(s), s.active # NoId, NEW d \in Decisions
  PROVE  /\ NothingResolvedBut({s.active}, s, Resolve(s, s.active, d))
         /\ d = "TimedOut" => NothingResolvedBut({}, s, Resolve(s, s.active, d))
         /\ s.active \in DOMAIN s.by_id /\ IsPending(s.by_id[s.active])
         /\ \A i \in DOMAIN Resolve(s, s.active, d).by_id : i = s.active =>
              /\ Resolve(s, s.active, d).by_id[i].state = d
              /\ Resolve(s, s.active, d).by_id[i].trace_id = s.by_id[i].trace_id
<1> DEFINE r == Resolve(s, s.active, d)
<1>1. /\ s.active \in DOMAIN s.by_id
      /\ DOMAIN r.by_id =
           DOMAIN s.by_id \ Evicted(Append(s.cached_order, s.active))
      /\ \A x \in DOMAIN r.by_id :
           r.by_id[x] = IF x = s.active THEN Settled(s.by_id[x], d) ELSE s.by_id[x]
  BY ResolveShape
<1>2. s.by_id[s.active] \in Approval /\ IsPending(s.by_id[s.active])
  BY <1>1 DEF Sound, StoreType, WellFormed, ActiveIsThePending
<1>3. /\ Settled(s.by_id[s.active], d).state = d
      /\ Settled(s.by_id[s.active], d).trace_id = s.by_id[s.active].trace_id
  BY <1>2, SettledFields
<1> HIDE DEF r
<1>4. NothingResolvedBut({s.active}, s, r)
  BY <1>1 DEF NothingResolvedBut
<1>5. d = "TimedOut" => NothingResolvedBut({}, s, r)
  BY <1>1, <1>3 DEF NothingResolvedBut, Announceable
<1>6. \A i \in DOMAIN r.by_id : i = s.active =>
        r.by_id[i].state = d /\ r.by_id[i].trace_id = s.by_id[i].trace_id
  BY <1>1, <1>3
<1> QED BY <1>1, <1>2, <1>4, <1>5, <1>6 DEF r

(* An enqueue resolves nothing. *)
LEMMA EnqueueResolvesNothing ==
  ASSUME NEW s, Sound(s), NEW id \in Ids, NEW fp \in Fingerprints,
         NEW t \in Nat, NEW ttl \in Nat
  PROVE  NothingResolvedBut({}, s, Enqueue(s, id, fp, t, ttl))
<1> DEFINE r == Enqueue(s, id, fp, t, ttl)
<1>1. CASE EnqueueOutcome(s, id, fp) # "Created"
  BY <1>1 DEF Enqueue, NothingResolvedBut
<1>2. CASE EnqueueOutcome(s, id, fp) = "Created"
  <2>1. r.by_id = Insert(s.by_id, id, Created(s, fp, t + ttl))
    BY <1>2, EnqueueShape
  <2>2. Created(s, fp, t + ttl).state \notin Announceable
    BY DEF Created, Announceable, Decisions, UserDecisions
  <2> HIDE DEF r
  <2>3. NothingResolvedBut({}, s, r)
    BY <2>1, <2>2 DEF NothingResolvedBut, Insert
  <2> QED BY <2>3 DEF r
<1> QED BY <1>1, <1>2

(* No resolver starts or ends, and nothing is resolved but by expiry. *)
Quiet ==
  /\ NothingResolvedBut({}, store, store')
  /\ \A c \in Resolvers : \/ call'[c] = call[c]
                         \/ /\ call[c].pc \notin {"notify", "announce"}
                            /\ call'[c].pc \notin {"notify", "announce"}
  /\ told \subseteq told' /\ told' \subseteq told \cup Remembered(store')
  /\ \/ events' = events
     \/ \E e : e.kind = "pushed" /\ events' = Append(events, e)
  /\ \/ watchers' = watchers /\ late' = late
     \/ \E c \in Handlers : SubmitWatch(c)

(* A resolver takes the decision on the pending approval, which it goes on to
   announce. *)
Takes(c) ==
  /\ call[c].pc \notin {"notify", "announce"}
  /\ call'[c].pc = "notify"
  /\ \A x \in Callers \ {c} : call'[x] = call[x]
  /\ call'[c].id \in DOMAIN store.by_id /\ call'[c].id \in DOMAIN store'.by_id
  /\ IsPending(store.by_id[call'[c].id])
  /\ store.by_id[call'[c].id].trace_id = call'[c].trace
  /\ store'.by_id[call'[c].id].trace_id = call'[c].trace
  /\ store'.by_id[call'[c].id].state = call'[c].arg
  /\ NothingResolvedBut({call'[c].id}, store, store')
  /\ UNCHANGED <<watchers, events, told, late>>

(* A step is quiet, or one of the three of a resolver. *)
LEMMA ResolverCases ==
  ASSUME Inv, [Next]_vars
  PROVE  \/ Quiet
         \/ \E c \in Resolvers : Takes(c) \/ Notify(c) \/ Announce(c)
<1> USE RuntimeAssumption
<1>1. /\ TypeOK /\ Sound(store) /\ now \in Nat
      /\ call \in [Callers -> Call]
  BY DEF Inv, TypeOK, StoreWellFormed, Sound, Call
<1>2. /\ Handlers \subseteq Callers /\ Resolvers \subseteq Callers
      /\ Submitters \subseteq Handlers /\ Pollers \subseteq Handlers
      /\ Deciders \subseteq Resolvers /\ Closer \in Resolvers
      /\ Handlers \cap Resolvers = {}
  BY DEF Callers, Handlers, Resolvers
<1> DEFINE expired == ExpireDuePending(store, now)
<1>3. Sound(expired) /\ NothingResolvedBut({}, store, expired)
  <2>1. Sound(expired)
    BY <1>1, ExpireSound
  <2>2. CASE expired = store
    BY <2>1, <2>2 DEF NothingResolvedBut
  <2>3. CASE store.active # NoId /\ expired = Resolve(store, store.active, "TimedOut")
    <3>1. "TimedOut" \in Decisions
      BY DEF Decisions
    <3>2. NothingResolvedBut({}, store, Resolve(store, store.active, "TimedOut"))
      BY <1>1, <2>3, <3>1, ResolveResolves
    <3> QED BY <2>1, <2>3, <3>2
  <2> QED BY <1>1, <2>1, <2>2, <2>3, ExpireCases
<1>4. NothingResolvedBut({}, store, store)
  BY DEF NothingResolvedBut
<1> HIDE DEF expired
<1>5. ASSUME NEW c \in Callers, NEW k, call' = [call EXCEPT ![c] = k]
      PROVE  call'[c] = k /\ \A x \in Callers \ {c} : call'[x] = call[x]
  BY <1>1, <1>5
<1>6. ASSUME NEW c \in Handlers, NEW k, call' = [call EXCEPT ![c] = k],
             NothingResolvedBut({}, store, store'),
             told \subseteq told', told' \subseteq told \cup Remembered(store'),
             \/ events' = events
             \/ \E e : e.kind = "pushed" /\ events' = Append(events, e),
             \/ watchers' = watchers /\ late' = late
             \/ \E h \in Handlers : SubmitWatch(h)
      PROVE  Quiet
  BY <1>2, <1>5, <1>6 DEF Quiet
<1>7. ASSUME NEW c \in Submitters, NEW id \in Ids, NEW fp \in Fingerprints,
             SubmitArrives(c, id, fp)
      PROVE  Quiet
  BY <1>2, <1>4, <1>6, <1>7 DEF SubmitArrives, Begin
<1>8. ASSUME NEW c \in Handlers, SubmitEnqueue(c) PROVE Quiet
  <2>1. call[c].id \in Ids /\ call[c].arg \in Fingerprints
    <3>1. c \in Callers /\ At(c, "enqueue")
      BY <1>2, <1>8 DEF SubmitEnqueue
    <3> QED BY <3>1 DEF Inv, TypeOK, CallsHold, At
  <2>2. NothingResolvedBut({}, expired, store')
    BY <1>1, <1>3, <1>8, <2>1, EnqueueResolvesNothing DEF SubmitEnqueue, expired
  <2>3. NothingResolvedBut({}, store, store')
    BY <1>3, <2>2 DEF NothingResolvedBut
  <2>4. \E k : call' = [call EXCEPT ![c] = k]
    BY <1>8 DEF SubmitEnqueue, Goto, Return
  <2> QED BY <1>6, <1>8, <2>3, <2>4 DEF SubmitEnqueue
<1>9. ASSUME NEW c \in Handlers, SubmitWatch(c) PROVE Quiet
  BY <1>4, <1>6, <1>9 DEF SubmitWatch, Goto
<1>10. ASSUME NEW c \in Handlers, SubmitPush(c) PROVE Quiet
  BY <1>4, <1>6, <1>10 DEF SubmitPush, Goto
<1>11. ASSUME NEW c \in Handlers, SubmitExisting(c) \/ Recheck(c) PROVE Quiet
  <2>1. /\ store' = store
        /\ told \subseteq told' /\ told' \subseteq told \cup Remembered(store')
    BY <1>1, <1>11, VerdictType DEF SubmitExisting, Recheck, Knows
  <2> QED BY <1>4, <1>6, <1>11, <2>1 DEF SubmitExisting, Recheck, Return
<1>12. ASSUME NEW c \in Pollers, NEW id \in Ids, PollCheck(c, id) PROVE Quiet
  <2>1. CASE Knows(store, id) /\ IsPending(store.by_id[id])
    BY <1>2, <1>4, <1>6, <1>12, <2>1 DEF PollCheck, Begin
  <2>2. CASE ~ (Knows(store, id) /\ IsPending(store.by_id[id]))
    <3>1. Knows(store, id) => Verdict(store.by_id[id]) \in Remembered(store)
      <4>1. Knows(store, id) => IsDecided(store.by_id[id])
        BY <1>1, <2>2 DEF Knows, IsPending, IsDecided, Sound, StoreType, Approval
      <4> QED BY <1>1, <4>1, VerdictType DEF Knows
    <3>2. /\ store' = store
          /\ told \subseteq told' /\ told' \subseteq told \cup Remembered(store')
      BY <1>12, <2>2, <3>1 DEF PollCheck
    <3> QED BY <1>4, <1>12, <2>2, <3>2 DEF PollCheck, Quiet
  <2> QED BY <2>1, <2>2
<1>13. ASSUME NEW c \in Handlers, PollSubscribe(c) \/ Disconnect(c) PROVE Quiet
  <2>1. \E k : call' = [call EXCEPT ![c] = k]
    BY <1>13 DEF PollSubscribe, Disconnect, Return
  <2> QED BY <1>4, <1>6, <1>13, <2>1 DEF PollSubscribe, Disconnect
<1>14. ASSUME NEW c \in Deciders, NEW id \in Ids, NEW d \in UserDecisions,
              DecideLocked(c, id, d)
       PROVE  Quiet \/ Takes(c)
  <2>1. /\ store' = Decide(expired, id, d)
        /\ UNCHANGED <<watchers, events, told, late>>
    BY <1>14 DEF DecideLocked, expired
  <2>2. CASE DecideOutcome(expired, id) = "Ok"
    <3>1. expired.active = id /\ expired.active # NoId
      BY <1>3, <2>2, DecidableIsActive
    <3>2. expired = store
      BY <1>1, <3>1, ExpireCases DEF expired
    <3>3. store' = Resolve(store, store.active, d) /\ store.active = id /\ id # NoId
      BY <2>1, <2>2, <3>1, <3>2 DEF Decide
    <3>4. /\ NothingResolvedBut({id}, store, store')
          /\ id \in DOMAIN store.by_id /\ IsPending(store.by_id[id])
          /\ id \in DOMAIN store'.by_id =>
               /\ store'.by_id[id].state = d
               /\ store'.by_id[id].trace_id = store.by_id[id].trace_id
      <4>1. d \in Decisions
        BY DEF Decisions
      <4>2. /\ NothingResolvedBut({store.active}, store, Resolve(store, store.active, d))
            /\ store.active \in DOMAIN store.by_id
            /\ IsPending(store.by_id[store.active])
            /\ \A i \in DOMAIN Resolve(store, store.active, d).by_id : i = store.active =>
                 /\ Resolve(store, store.active, d).by_id[i].state = d
                 /\ Resolve(store, store.active, d).by_id[i].trace_id
                      = store.by_id[i].trace_id
        BY <1>1, <3>3, <4>1, ResolveResolves
      <4> QED BY <3>3, <4>2
    <3>5. CASE Knows(store', id)
      <4> DEFINE k == [pc |-> "notify", id |-> id, arg |-> d,
                       trace |-> store'.by_id[id].trace_id]
      <4>1. call' = [call EXCEPT ![c] = k]
        BY <1>14, <2>2, <3>5 DEF DecideLocked, expired
      <4>2. call'[c] = k /\ \A x \in Callers \ {c} : call'[x] = call[x]
        BY <1>2, <1>5, <4>1
      <4>3. call[c].pc = "idle"
        BY <1>14 DEF DecideLocked, At
      <4> QED BY <2>1, <3>4, <3>5, <4>2, <4>3 DEF Takes, Knows
    <3>6. CASE ~ Knows(store', id)
      <4>1. call' = call
        BY <1>14, <3>6 DEF DecideLocked
      <4>2. NothingResolvedBut({}, store, store')
        BY <3>4, <3>6 DEF NothingResolvedBut, Knows
      <4> QED BY <2>1, <4>1, <4>2 DEF Quiet
    <3> QED BY <3>5, <3>6
  <2>3. CASE DecideOutcome(expired, id) # "Ok"
    <3>1. store' = expired /\ call' = call
      BY <1>14, <2>1, <2>3 DEF Decide, DecideLocked, expired
    <3> QED BY <1>3, <2>1, <3>1 DEF Quiet
  <2> QED BY <2>2, <2>3
<1>15. ASSUME BeginShutdown PROVE Quiet
  <2> DEFINE k == [call[Closer] EXCEPT !.pc = "cancel"]
  <2>1. call' = [call EXCEPT ![Closer] = k]
    BY <1>15 DEF BeginShutdown, Goto
  <2>2. call[Closer].pc = "idle" /\ k.pc = "cancel"
    BY <1>1, <1>2, <1>15 DEF BeginShutdown, At, Call
  <2> HIDE DEF k
  <2>3. call'[Closer] = k /\ \A x \in Callers \ {Closer} : call'[x] = call[x]
    BY <1>2, <1>5, <2>1
  <2> QED BY <1>2, <1>4, <1>15, <2>2, <2>3 DEF BeginShutdown, Quiet
<1>16. ASSUME CancelAll PROVE Quiet \/ Takes(Closer)
  <2> DEFINE id == store.active
  <2>1. /\ store' = Cancel(store, id)
        /\ UNCHANGED <<watchers, events, told, late>>
        /\ call[Closer].pc = "cancel"
    BY <1>16 DEF CancelAll, At
  <2>2. CASE store' # store /\ Knows(store', id)
    <3> DEFINE k == [pc |-> "notify", id |-> id, arg |-> "Cancelled",
                     trace |-> store'.by_id[id].trace_id]
    <3>1. call' = [call EXCEPT ![Closer] = k]
      BY <1>16, <2>2 DEF CancelAll
    <3>2. call'[Closer] = k /\ \A x \in Callers \ {Closer} : call'[x] = call[x]
      BY <1>2, <1>5, <3>1
    <3>3. DecideOutcome(store, id) = "Ok" /\ store' = Resolve(store, id, "Cancelled")
      BY <2>1, <2>2 DEF Cancel
    <3>4. id # NoId /\ "Cancelled" \in Decisions
      BY <1>1, <3>3, DecidableIsActive DEF Decisions
    <3>5. /\ NothingResolvedBut({id}, store, store')
          /\ id \in DOMAIN store.by_id /\ IsPending(store.by_id[id])
          /\ id \in DOMAIN store'.by_id =>
               /\ store'.by_id[id].state = "Cancelled"
               /\ store'.by_id[id].trace_id = store.by_id[id].trace_id
      BY <1>1, <3>3, <3>4, ResolveResolves
    <3> QED BY <2>1, <2>2, <3>2, <3>5 DEF Takes, Knows
  <2>3. CASE ~ (store' # store /\ Knows(store', id))
    <3> DEFINE k == [call[Closer] EXCEPT !.pc = "done"]
    <3>1. call' = [call EXCEPT ![Closer] = k]
      BY <1>16, <2>3 DEF CancelAll, Goto
    <3>2. k.pc = "done"
      BY <1>1, <1>2 DEF Call
    <3> HIDE DEF k
    <3>3. call'[Closer] = k /\ \A x \in Callers \ {Closer} : call'[x] = call[x]
      BY <1>2, <1>5, <3>1
    <3>4. NothingResolvedBut({}, store, store')
      <4>1. CASE DecideOutcome(store, id) = "Ok"
        <5>1. id # NoId /\ "Cancelled" \in Decisions /\ store' = Resolve(store, id, "Cancelled")
          BY <1>1, <2>1, <4>1, DecidableIsActive DEF Decisions, Cancel
        <5>2. NothingResolvedBut({id}, store, store')
          BY <1>1, <5>1, ResolveResolves
        <5>3. store' = store \/ id \notin DOMAIN store'.by_id
          BY <2>3 DEF Knows
        <5> QED BY <1>4, <5>2, <5>3 DEF NothingResolvedBut
      <4>2. CASE DecideOutcome(store, id) # "Ok"
        BY <1>4, <2>1, <4>2 DEF Cancel
      <4> QED BY <4>1, <4>2
    <3> QED BY <1>2, <2>1, <3>2, <3>3, <3>4 DEF Quiet
  <2> QED BY <2>2, <2>3
<1>17. ASSUME TakeSnapshot \/ Tick \/ UNCHANGED vars PROVE Quiet
  BY <1>3, <1>4, <1>17 DEF TakeSnapshot, Tick, vars, Quiet, expired
<1>18. ASSUME NEW c \in Handlers,
              HandlerStep(c) \/ WaitTimesOut(c) \/ Disconnect(c)
       PROVE  Quiet
  BY <1>8, <1>9, <1>10, <1>11, <1>13, <1>18 DEF HandlerStep, WaitWakes, WaitTimesOut
<1> QED
  BY <1>2, <1>7, <1>12, <1>14, <1>15, <1>16, <1>17, <1>18 DEF Next, ResolverStep

(* A resolver's id is that of the approval it speaks of. *)
ResolversKnowTheirId ==
  \A c \in Announcing, i \in DOMAIN store.by_id :
    store.by_id[i].trace_id = call[c].trace => i = call[c].id

Heard == {k \in 1..Len(events) : events[k].kind = "resolved"}

(* What has been announced was told, once, and nobody is about to announce it again;
   what is known to be decided was announced, is about to be, or expired. *)
Announced ==
  /\ \A k, l \in Heard : events[k].trace = events[l].trace => k = l
  /\ \A k \in Heard :
       [trace |-> events[k].trace, decision |-> events[k].decision] \in told
  /\ \A c \in Announcing, k \in Heard : events[k].trace # call[c].trace
  /\ \A c, d \in Announcing : call[c].trace = call[d].trace => c = d
  /\ \A v \in told \cup Remembered(store) :
       \/ v.decision = "TimedOut"
       \/ \E c \in Announcing : call[c].trace = v.trace
       \/ \E k \in Heard : events[k].trace = v.trace /\ events[k].decision = v.decision

(* WakeupDelivered, with the channels that a resolver has yet to signal as a set. *)
BeingSignalled == {call[c].trace : c \in {d \in Resolvers : call[d].pc = "notify"}}
EveryoneWoken ==
  \A id \in DOMAIN watchers :
    /\ id \in DOMAIN store.by_id
    /\ store.by_id[id].trace_id = watchers[id]
    /\ store.by_id[id].state \in Announceable
    => watchers[id] \in late \cup BeingSignalled

FullInv == Inv /\ ResolversKnowTheirId /\ Announced /\ EveryoneWoken

(* What a quiet step or a resolver remembers anew is an expiry, or its own. *)
LEMMA RememberedBefore ==
  ASSUME NEW X, NothingResolvedBut(X, store, store'),
         NEW i \in DOMAIN store'.by_id, i \notin X, IsDecided(store'.by_id[i])
  PROVE  \/ store'.by_id[i].state = "TimedOut"
         \/ Verdict(store'.by_id[i]) \in Remembered(store)
BY DEF NothingResolvedBut, Announceable, IsDecided, Remembered, Verdict

(* A resolver that stays keeps knowing its id, whatever the store does. *)
LEMMA IdsStayKnown ==
  ASSUME Inv, ResolversKnowTheirId, Evolves(store, store'), Sound(store'),
         NEW c \in Announcing, call'[c].trace = call[c].trace, call'[c].id = call[c].id,
         NEW i \in DOMAIN store'.by_id, store'.by_id[i].trace_id = call'[c].trace
  PROVE  i = call'[c].id
<1>1. [trace |-> call[c].trace, decision |-> call[c].arg] \in Said
  BY DEF Said
<1>2. call[c].trace <= store.revision
  BY <1>1 DEF Inv, SaidConsistently
<1>3. store.revision \in Nat /\ store'.by_id[i].trace_id \in Nat
  BY DEF Inv, TypeOK, StoreType, Sound, WellFormed, TracesAreUnique
<1>4. i \in DOMAIN store.by_id /\ store'.by_id[i].trace_id = store.by_id[i].trace_id
  BY <1>2, <1>3 DEF Evolves
<1> QED BY <1>4 DEF ResolversKnowTheirId

(* Nothing has been said of a pending approval. *)
LEMMA PendingIsUnsaid ==
  ASSUME Inv, NEW i \in DOMAIN store.by_id, IsPending(store.by_id[i]), NEW v \in Said
  PROVE  v.trace # store.by_id[i].trace_id
<1>1. v.decision \in Decisions
  <2>1. CASE v \in told
    BY <2>1 DEF Inv, TypeOK
  <2>2. ASSUME NEW c \in Announcing, v = [trace |-> call[c].trace, decision |-> call[c].arg]
        PROVE  v.decision \in Decisions
    BY <2>2 DEF Announcing, Callers, Inv, CallsHold
  <2> QED BY <2>1, <2>2 DEF Said
<1> QED BY <1>1 DEF IsPending, Decisions, UserDecisions, Inv, SaidConsistently

(* Quiet steps keep the three conjuncts: what they add to the histories is an expiry,
   and the one that installs a channel notes when it is too late. *)
LEMMA QuietStep ==
  ASSUME FullInv, Quiet, Evolves(store, store'), Sound(store')
  PROVE  ResolversKnowTheirId' /\ Announced' /\ EveryoneWoken'
<1>1. /\ Announcing' = Announcing
      /\ \A c \in Announcing : call'[c] = call[c]
  BY DEF Quiet, Announcing
<1>2. ResolversKnowTheirId'
  BY <1>1, IdsStayKnown DEF ResolversKnowTheirId, FullInv
<1>3. /\ events \in Seq([kind : {"pushed", "resolved"}, trace : Nat,
                         decision : {"Pending"} \cup Decisions])
      /\ Len(events) \in Nat
  BY DEF FullInv, Inv, TypeOK
<1>4. Heard' = Heard /\ \A k \in Heard : events'[k] = events[k]
  <2>1. CASE events' = events
    BY <2>1 DEF Heard
  <2>2. ASSUME NEW e, e.kind = "pushed", events' = Append(events, e)
        PROVE  Heard' = Heard /\ \A k \in Heard : events'[k] = events[k]
    <3>1. /\ Len(events') = Len(events) + 1
          /\ events'[Len(events) + 1] = e
          /\ \A k \in 1..Len(events) : events'[k] = events[k]
      BY <1>3, <2>2
    <3>2. 1..Len(events') = 1..Len(events) \cup {Len(events) + 1}
      BY <1>3, <3>1
    <3> QED BY <2>2, <3>1, <3>2 DEF Heard
  <2> QED BY <2>1, <2>2 DEF Quiet
<1>5. ASSUME NEW v \in told' \cup Remembered(store')
      PROVE  v.decision = "TimedOut" \/ v \in told \cup Remembered(store)
  <2>1. v \in told \/ v \in Remembered(store')
    BY DEF Quiet
  <2>2. ASSUME NEW i \in DOMAIN store'.by_id, IsDecided(store'.by_id[i]),
               v = Verdict(store'.by_id[i])
        PROVE  v.decision = "TimedOut" \/ v \in Remembered(store)
    BY <2>2, RememberedBefore DEF Quiet, Verdict
  <2> QED BY <2>1, <2>2 DEF Remembered
<1>6. Announced'
  <2>1. \A k, l \in Heard' : events'[k].trace = events'[l].trace => k = l
    BY <1>4 DEF FullInv, Announced
  <2>2. \A k \in Heard' :
          [trace |-> events'[k].trace, decision |-> events'[k].decision] \in told'
    BY <1>4 DEF FullInv, Announced, Quiet
  <2>3. \A c \in Announcing', k \in Heard' : events'[k].trace # call'[c].trace
    BY <1>1, <1>4 DEF FullInv, Announced
  <2>4. \A c, d \in Announcing' : call'[c].trace = call'[d].trace => c = d
    BY <1>1 DEF FullInv, Announced
  <2>5. \A v \in told' \cup Remembered(store') :
          \/ v.decision = "TimedOut"
          \/ \E c \in Announcing' : call'[c].trace = v.trace
          \/ \E k \in Heard' : events'[k].trace = v.trace /\ events'[k].decision = v.decision
    BY <1>1, <1>4, <1>5 DEF FullInv, Announced
  <2> QED BY <2>1, <2>2, <2>3, <2>4, <2>5 DEF Announced
<1>7. EveryoneWoken'
  <2> SUFFICES ASSUME NEW id \in DOMAIN watchers', id \in DOMAIN store'.by_id,
                      store'.by_id[id].trace_id = watchers'[id],
                      store'.by_id[id].state \in Announceable
               PROVE  watchers'[id] \in late' \cup BeingSignalled'
    BY DEF EveryoneWoken
  <2>1. BeingSignalled' = BeingSignalled
    BY <1>1 DEF BeingSignalled, Announcing
  <2>2. id \in DOMAIN store.by_id /\ store'.by_id[id] = store.by_id[id]
    BY DEF Quiet, NothingResolvedBut
  <2>3. CASE watchers' = watchers /\ late' = late
    BY <2>1, <2>2, <2>3 DEF FullInv, EveryoneWoken
  <2>4. ASSUME NEW c \in Handlers, SubmitWatch(c)
        PROVE  watchers'[id] \in late' \cup BeingSignalled'
    <3>1. /\ watchers' = Insert(watchers, call[c].id, call[c].trace)
          /\ late' = IF \/ IsPendingInstance(call[c].id, call[c].trace)
                        \/ NotifierAhead(call[c].trace)
                      THEN late ELSE late \cup {call[c].trace}
      BY <2>4 DEF SubmitWatch
    <3>2. NotifierAhead(call[c].trace) => call[c].trace \in BeingSignalled
      BY DEF NotifierAhead, At, BeingSignalled
    <3>3. CASE id = call[c].id
      <4>1. watchers'[id] = call[c].trace
        BY <3>1, <3>3 DEF Insert
      <4>2. ~ IsPendingInstance(call[c].id, call[c].trace)
        BY <2>2, <3>3
        DEF IsPendingInstance, IsPending, Announceable, Decisions, UserDecisions
      <4> QED BY <2>1, <3>1, <3>2, <4>1, <4>2
    <3>4. CASE id # call[c].id
      <4>1. id \in DOMAIN watchers /\ watchers'[id] = watchers[id]
        BY <3>1, <3>4 DEF Insert
      <4>2. late \subseteq late'
        BY <3>1
      <4> QED BY <2>1, <2>2, <4>1, <4>2 DEF FullInv, EveryoneWoken
    <3> QED BY <3>3, <3>4
  <2> QED BY <2>3, <2>4 DEF Quiet
<1> QED BY <1>2, <1>6, <1>7

(* A resolver that takes a decision is the only one to announce it, since nothing has
   been said of a pending approval, and has its channel yet to signal. *)
LEMMA TakingStep ==
  ASSUME FullInv, NEW c \in Resolvers, Takes(c), Evolves(store, store'), Sound(store')
  PROVE  ResolversKnowTheirId' /\ Announced' /\ EveryoneWoken'
<1> DEFINE id == call'[c].id
           t == call'[c].trace
<1>1. /\ c \notin Announcing /\ Announcing' = Announcing \cup {c}
      /\ \A d \in Announcing : call'[d] = call[d]
  BY DEF Takes, Announcing, Callers
<1>2. events' = events /\ told' = told /\ Heard' = Heard
  BY DEF Takes, Heard
<1>3. \A v \in Said : v.trace # t
  BY PendingIsUnsaid DEF Takes, FullInv
<1>4. /\ \A v \in told : v.trace # t
      /\ \A d \in Announcing : call[d].trace # t
  <2> HIDE DEF t
  <2>1. ASSUME NEW d \in Announcing PROVE call[d].trace # t
    <3>1. [trace |-> call[d].trace, decision |-> call[d].arg] \in Said
      BY DEF Said
    <3> QED BY <1>3, <3>1
  <2> QED BY <1>3, <2>1 DEF Said
<1>5. /\ id \in DOMAIN store'.by_id
      /\ store'.by_id[id].trace_id = t
      /\ NothingResolvedBut({id}, store, store')
      /\ watchers' = watchers /\ late' = late
      /\ call'[c].pc = "notify"
  BY DEF Takes
<1>6. ResolversKnowTheirId'
  <2>1. ASSUME NEW i \in DOMAIN store'.by_id, store'.by_id[i].trace_id = t PROVE i = id
    BY <1>5, <2>1 DEF Sound, WellFormed, TracesAreUnique
  <2>2. ASSUME NEW d \in Announcing, NEW i \in DOMAIN store'.by_id,
               store'.by_id[i].trace_id = call'[d].trace
        PROVE  i = call'[d].id
    BY <1>1, <2>2, IdsStayKnown DEF FullInv
  <2> QED BY <1>1, <2>1, <2>2 DEF ResolversKnowTheirId
<1>7. Announced'
  <2>1. \A k \in Heard : events[k].trace # t
    BY <1>4 DEF FullInv, Announced
  <2>2. \A d \in Announcing', k \in Heard' : events'[k].trace # call'[d].trace
    BY <1>1, <1>2, <2>1 DEF FullInv, Announced
  <2>3. \A d, e \in Announcing' : call'[d].trace = call'[e].trace => d = e
    BY <1>1, <1>4 DEF FullInv, Announced
  <2>4. ASSUME NEW v \in told \cup Remembered(store)
        PROVE  \/ v.decision = "TimedOut"
               \/ \E d \in Announcing' : call'[d].trace = v.trace
               \/ \E k \in Heard' : /\ events'[k].trace = v.trace
                                   /\ events'[k].decision = v.decision
    BY <1>1, <1>2 DEF FullInv, Announced
  <2>5. ASSUME NEW v \in Remembered(store')
        PROVE  \/ v.decision = "TimedOut"
               \/ v \in Remembered(store)
               \/ v.trace = t
    <3>1. PICK i \in DOMAIN store'.by_id :
            IsDecided(store'.by_id[i]) /\ v = Verdict(store'.by_id[i])
      BY DEF Remembered
    <3>2. CASE i = id
      BY <1>5, <3>1, <3>2 DEF Verdict
    <3>3. CASE i # id
      BY <1>5, <3>1, <3>3, RememberedBefore DEF Verdict
    <3> QED BY <3>2, <3>3
  <2>6. \A v \in told' \cup Remembered(store') :
          \/ v.decision = "TimedOut"
          \/ \E d \in Announcing' : call'[d].trace = v.trace
          \/ \E k \in Heard' : events'[k].trace = v.trace /\ events'[k].decision = v.decision
    BY <1>1, <1>2, <2>4, <2>5
  <2> QED BY <1>2, <2>2, <2>3, <2>6 DEF FullInv, Announced
<1>8. EveryoneWoken'
  <2> SUFFICES ASSUME NEW i \in DOMAIN watchers', i \in DOMAIN store'.by_id,
                      store'.by_id[i].trace_id = watchers'[i],
                      store'.by_id[i].state \in Announceable
               PROVE  watchers'[i] \in late' \cup BeingSignalled'
    BY DEF EveryoneWoken
  <2>1. CASE i = id
    BY <1>5, <2>1 DEF BeingSignalled
  <2>2. CASE i # id
    <3>1. i \in DOMAIN store.by_id /\ store'.by_id[i] = store.by_id[i]
      BY <1>5, <2>2 DEF NothingResolvedBut
    <3>2. watchers[i] \in late \cup BeingSignalled
      BY <1>5, <3>1 DEF FullInv, EveryoneWoken
    <3>3. BeingSignalled \subseteq BeingSignalled'
      BY <1>1, <1>5 DEF BeingSignalled, Announcing
    <3> QED BY <1>5, <3>2, <3>3
  <2> QED BY <2>1, <2>2
<1> QED BY <1>6, <1>7, <1>8

(* Signalling empties the place of the resolver's own id, so of its own trace. *)
LEMMA NotifyStep ==
  ASSUME FullInv, NEW c \in Resolvers, Notify(c)
  PROVE  ResolversKnowTheirId' /\ Announced' /\ EveryoneWoken'
<1>1. /\ call \in [Callers -> Call] /\ c \in Callers
      /\ call[c].pc = "notify" /\ c \in Announcing
      /\ call' = [call EXCEPT ![c].pc = "announce"]
  BY DEF FullInv, Inv, TypeOK, Call, Callers, Notify, At, Goto, Announcing
<1>2. /\ \A x \in Callers \ {c} : call'[x] = call[x]
      /\ call'[c].pc = "announce"
      /\ call'[c].trace = call[c].trace /\ call'[c].id = call[c].id
  BY <1>1 DEF Call
<1>3. /\ Announcing' = Announcing
      /\ \A x \in Announcing : call'[x].trace = call[x].trace /\ call'[x].id = call[x].id
  BY <1>1, <1>2 DEF Announcing, Callers
<1>4. /\ store' = store /\ events' = events /\ told' = told /\ late' = late
      /\ Heard' = Heard /\ Remembered(store') = Remembered(store)
      /\ watchers' = Restrict(watchers, DOMAIN watchers \ {call[c].id})
  BY DEF Notify, Heard
<1>5. ResolversKnowTheirId'
  BY <1>3, <1>4 DEF ResolversKnowTheirId, FullInv
<1>6. Announced'
  BY <1>3, <1>4 DEF Announced, FullInv
<1>7. EveryoneWoken'
  <2> SUFFICES ASSUME NEW i \in DOMAIN watchers', i \in DOMAIN store'.by_id,
                      store'.by_id[i].trace_id = watchers'[i],
                      store'.by_id[i].state \in Announceable
               PROVE  watchers'[i] \in late' \cup BeingSignalled'
    BY DEF EveryoneWoken
  <2>1. i \in DOMAIN watchers /\ i # call[c].id /\ watchers'[i] = watchers[i]
    BY <1>4 DEF Restrict
  <2>2. watchers[i] \in late \cup BeingSignalled
    BY <1>4, <2>1 DEF FullInv, EveryoneWoken
  <2>3. watchers[i] # call[c].trace
    BY <1>1, <1>4, <2>1 DEF FullInv, ResolversKnowTheirId
  <2>4. ASSUME NEW d \in Resolvers, call[d].pc = "notify", watchers[i] = call[d].trace
        PROVE  watchers[i] \in BeingSignalled'
    <3>1. d # c /\ d \in Callers
      BY <2>3, <2>4 DEF Callers
    <3>2. call'[d] = call[d]
      BY <1>2, <3>1
    <3> QED BY <2>4, <3>2 DEF BeingSignalled
  <2> QED BY <1>4, <2>1, <2>2, <2>4 DEF BeingSignalled
<1> QED BY <1>5, <1>6, <1>7

(* The announcement is the first, and says what clients were told. *)
LEMMA AnnounceStep ==
  ASSUME FullInv, NEW c \in Resolvers, Announce(c)
  PROVE  ResolversKnowTheirId' /\ Announced' /\ EveryoneWoken'
<1> DEFINE t == call[c].trace
           a == call[c].arg
           v == [trace |-> t, decision |-> a]
           n == Len(events) + 1
<1>1. /\ call \in [Callers -> Call] /\ c \in Callers
      /\ call[c].pc = "announce" /\ c \in Announcing
  BY DEF FullInv, Inv, TypeOK, Call, Callers, Announce, At, Announcing
<1>2. call' = [call EXCEPT ![c] = Idle]
      \/ call' = [call EXCEPT ![c] = [Idle EXCEPT !.pc = "done"]]
  BY DEF Announce, Return
<1>3. Idle.pc = "idle" /\ [Idle EXCEPT !.pc = "done"].pc = "done"
  BY DEF Idle
<1>4. /\ call'[c].pc \in {"idle", "done"}
      /\ \A x \in Callers \ {c} : call'[x] = call[x]
  BY <1>1, <1>2, <1>3
<1>5. /\ Announcing' = Announcing \ {c}
      /\ \A x \in Announcing \ {c} : call'[x] = call[x]
      /\ BeingSignalled' = BeingSignalled
  <2>1. Resolvers \subseteq Callers
    BY DEF Callers
  <2>2. \A x \in Resolvers \ {c} : call'[x] = call[x]
    BY <1>4, <2>1
  <2> QED BY <1>1, <1>4, <2>2 DEF Announcing, BeingSignalled
<1>6. /\ store' = store /\ late' = late /\ watchers' = watchers
      /\ Remembered(store') = Remembered(store)
      /\ told' = told \cup {v}
      /\ events' = Append(events, [kind |-> "resolved", trace |-> t, decision |-> a])
  BY DEF Announce
<1> HIDE DEF n
<1>7. /\ Len(events) \in Nat /\ n = Len(events) + 1 /\ Len(events') = n
      /\ events'[n] = [kind |-> "resolved", trace |-> t, decision |-> a]
      /\ \A k \in 1..Len(events) : events'[k] = events[k]
  BY <1>6 DEF FullInv, Inv, TypeOK, n
<1>8. /\ Heard' = Heard \cup {n} /\ n \notin Heard
      /\ events'[n].trace = t /\ events'[n].decision = a
      /\ \A k \in Heard : events'[k] = events[k]
  <2>1. 1..Len(events') = 1..Len(events) \cup {n} /\ n \notin 1..Len(events)
    BY <1>7
  <2> QED BY <1>7, <2>1 DEF Heard
<1>9. ResolversKnowTheirId'
  BY <1>5, <1>6 DEF ResolversKnowTheirId, FullInv
<1>10. \A k \in Heard : events[k].trace # t
  BY <1>1 DEF FullInv, Announced
<1>11. v \in Said
  BY <1>1 DEF Said
<1>12. ASSUME NEW w \in told \cup Remembered(store), w.trace = t PROVE w.decision = a
  <2>1. CASE w \in told
    <3>1. w \in Said
      BY <2>1 DEF Said
    <3> QED BY <1>11, <1>12, <3>1 DEF FullInv, Inv, SaidConsistently
  <2>2. CASE w \in Remembered(store)
    <3>1. PICK i \in DOMAIN store.by_id : w = Verdict(store.by_id[i])
      BY <2>2 DEF Remembered
    <3> QED BY <1>11, <1>12, <3>1 DEF FullInv, Inv, SaidConsistently, Verdict
  <2> QED BY <2>1, <2>2
<1>13. Announced'
  <2>1. \A k, l \in Heard' : events'[k].trace = events'[l].trace => k = l
    BY <1>8, <1>10 DEF FullInv, Announced
  <2>2. \A k \in Heard' :
          [trace |-> events'[k].trace, decision |-> events'[k].decision] \in told'
    BY <1>6, <1>8 DEF FullInv, Announced
  <2>3. \A d \in Announcing', k \in Heard' : events'[k].trace # call'[d].trace
    <3>1. \A d \in Announcing \ {c} : call[d].trace # t
      BY <1>1 DEF FullInv, Announced
    <3> QED BY <1>5, <1>8, <3>1 DEF FullInv, Announced
  <2>4. \A d, e \in Announcing' : call'[d].trace = call'[e].trace => d = e
    BY <1>5 DEF FullInv, Announced
  <2>5. ASSUME NEW w \in told' \cup Remembered(store'), w.trace = t
        PROVE  \E k \in Heard' : events'[k].trace = w.trace /\ events'[k].decision = w.decision
    <3>1. w.decision = a
      BY <1>6, <1>12, <2>5
    <3> QED BY <1>8, <2>5, <3>1
  <2>6. ASSUME NEW w \in told' \cup Remembered(store'), w.trace # t
        PROVE  \/ w.decision = "TimedOut"
               \/ \E d \in Announcing' : call'[d].trace = w.trace
               \/ \E k \in Heard' : /\ events'[k].trace = w.trace
                                   /\ events'[k].decision = w.decision
    <3>1. w \in told \cup Remembered(store)
      BY <1>6, <2>6
    <3> QED BY <1>5, <1>8, <2>6, <3>1 DEF FullInv, Announced
  <2> QED BY <2>1, <2>2, <2>3, <2>4, <2>5, <2>6 DEF Announced
<1>14. EveryoneWoken'
  BY <1>5, <1>6 DEF EveryoneWoken, FullInv
<1> QED BY <1>9, <1>13, <1>14

(* The full invariant holds at the start. *)
LEMMA InitFullInv == Init => FullInv
<1> SUFFICES ASSUME Init PROVE FullInv
  OBVIOUS
<1>1. Inv
  BY InitInv
<1>2. /\ Announcing = {}
      /\ Heard = {}
      /\ told = {} /\ DOMAIN watchers = {}
  BY DEF Init, Announcing, Heard, Callers, Idle
<1>3. Remembered(store) = {}
  BY DEF Init, NewStore, Remembered
<1> QED
  BY <1>1, <1>2, <1>3 DEF FullInv, ResolversKnowTheirId, Announced, EveryoneWoken

(* Every step keeps the full invariant. *)
LEMMA StepFullInv == FullInv /\ [Next]_vars => FullInv'
<1> SUFFICES ASSUME FullInv, [Next]_vars PROVE FullInv'
  OBVIOUS
<1>1. Inv /\ Inv'
  BY StepInv DEF FullInv
<1>2. Sound(store') /\ Evolves(store, store')
  BY <1>1, StoreSteps, StoreEvolves DEF Inv, TypeOK, StoreWellFormed, Sound
<1>3. \/ Quiet
      \/ \E c \in Resolvers : Takes(c) \/ Notify(c) \/ Announce(c)
  BY <1>1, ResolverCases
<1> QED
  BY <1>1, <1>2, <1>3, QuietStep, TakingStep, NotifyStep, AnnounceStep DEF FullInv

(* No resolver loses a wake-up: an approval that a user has decided or the exit has
   cancelled has no channel left in the map, unless it was installed too late or its
   resolver is on the way to signal it. *)
THEOREM NoWakeupIsLost == Spec => []WakeupDelivered
<1>1. FullInv => WakeupDelivered
  BY DEF FullInv, EveryoneWoken, WakeupDelivered, BeingSignalled, NotifierAhead, At,
         Knows, Announceable, Decisions, UserDecisions
<1> QED BY <1>1, InitFullInv, StepFullInv, PTL DEF Spec

(* The sink hears of a resolution once, with the decision that clients are told, and
   of every one that a client was told but those by expiry. *)
THEOREM EveryResolutionIsAnnouncedOnce == Spec => []AnnouncedOnce
<1>1. FullInv => AnnouncedOnce
  <2> SUFFICES ASSUME FullInv PROVE AnnouncedOnce
    OBVIOUS
  <2>1. ASSUME NEW k \in 1..Len(events), events[k].kind = "resolved"
        PROVE  Cardinality(Resolutions(events[k].trace)) = 1
    <3>1. Resolutions(events[k].trace) = {k}
      BY <2>1 DEF Resolutions, FullInv, Announced, Heard
    <3> QED BY <3>1, FS_Singleton
  <2>2. ASSUME NEW v \in told
        PROVE  \/ v.decision = "TimedOut"
               \/ \E c \in Resolvers : /\ call[c].pc \in {"notify", "announce"}
                                      /\ call[c].trace = v.trace
               \/ \E k \in Resolutions(v.trace) : events[k].decision = v.decision
    BY DEF FullInv, Announced, Announcing, Heard, Resolutions
  <2> QED BY <2>1, <2>2 DEF AnnouncedOnce
<1> QED BY <1>1, InitFullInv, StepFullInv, PTL DEF Spec

(* With room for one decided approval, the one that was just resolved is kept. *)
LEMMA ResolvedIsKept ==
  ASSUME NEW s, Sound(s), s.active # NoId, NEW d \in Decisions, MaxCached > 0
  PROVE  Knows(Resolve(s, s.active, d), s.active)
<1> DEFINE q == s.cached_order
           order == Append(q, s.active)
<1>1. /\ s.active \in DOMAIN s.by_id
      /\ DOMAIN Resolve(s, s.active, d).by_id = DOMAIN s.by_id \ Evicted(order)
  BY ResolveShape
<1>2. q \in Seq(Ids) /\ IsInjective(q) /\ s.active \in Ids /\ s.active \notin Range(q)
  BY <1>1 DEF Sound, StoreType, WellFormed, ActiveNotCached, CacheIsDuplicateFree
<1>3. /\ Len(order) = Len(q) + 1 /\ Len(q) \in Nat
      /\ \A k \in 1..Len(q) : order[k] = q[k]
  BY <1>2, JoinProperties
<1>4. Excess(order) <= Len(q) /\ Excess(order) \in Nat
  BY <1>3, StoreAssumption DEF Excess
<1>5. \A k \in 1..Excess(order) : order[k] \in Range(q)
  BY <1>2, <1>3, <1>4, LenProperties DEF Range
<1>6. s.active \notin Evicted(order)
  BY <1>2, <1>5 DEF Evicted
<1> QED BY <1>1, <1>6 DEF Knows

(* An error answer to a decide means that nothing was decided. *)
THEOREM ErrorsDecideNothing == Spec => FailedDecideDecidesNothing
<1> DEFINE expired == ExpireDuePending(store, now)
           A == MaxCached > 0 /\ call' = call => store' \in {store, expired}
<1>1. ASSUME Inv, [Next]_vars PROVE A
  <2> SUFFICES ASSUME MaxCached > 0, call' = call PROVE store' \in {store, expired}
    OBVIOUS
  <2>1. /\ Sound(store) /\ Sound(expired) /\ call \in [Callers -> Call]
        /\ Handlers \subseteq Callers /\ Deciders \subseteq Callers /\ Closer \in Callers
    BY <1>1, ExpireSound
    DEF Inv, TypeOK, StoreWellFormed, Sound, Call, Callers, Handlers, Resolvers
  <2>2. ASSUME NEW c \in Callers, NEW k, k.pc # call[c].pc,
               call' = [call EXCEPT ![c] = k]
        PROVE  FALSE
    BY <2>1, <2>2
  <2>3. ASSUME NEW c \in Handlers, SubmitEnqueue(c) PROVE store' \in {store, expired}
    <3>1. CASE EnqueueOutcome(expired, call[c].id, call[c].arg) = "Created"
      <4> DEFINE k == [call[c] EXCEPT !.pc = "watch", !.trace = store'.revision]
      <4>1. call' = [call EXCEPT ![c] = k] /\ call[c].pc = "enqueue"
        BY <2>3, <3>1 DEF SubmitEnqueue, Goto, Return, At
      <4>2. k.pc = "watch"
        BY <2>1 DEF Call
      <4> HIDE DEF k
      <4> QED BY <2>1, <2>2, <4>1, <4>2
    <3>2. CASE EnqueueOutcome(expired, call[c].id, call[c].arg) # "Created"
      BY <2>3, <3>2 DEF SubmitEnqueue, Enqueue
    <3> QED BY <3>1, <3>2
  <2>4. ASSUME NEW c \in Deciders, NEW id \in Ids, NEW d \in UserDecisions,
               DecideLocked(c, id, d)
        PROVE  store' \in {store, expired}
    <3>1. CASE DecideOutcome(expired, id) = "Ok"
      <4>1. expired.active = id /\ expired.active # NoId
        BY <2>1, <3>1, DecidableIsActive
      <4>2. store' = Resolve(expired, expired.active, d) /\ d \in Decisions
        BY <2>4, <3>1, <4>1 DEF DecideLocked, Decide, Decisions
      <4>3. Knows(store', id)
        BY <2>1, <4>1, <4>2, ResolvedIsKept
      <4> DEFINE k == [pc |-> "notify", id |-> id, arg |-> d,
                       trace |-> store'.by_id[id].trace_id]
      <4>4. call' = [call EXCEPT ![c] = k] /\ call[c].pc = "idle"
        BY <2>4, <3>1, <4>3 DEF DecideLocked, At
      <4>5. k.pc = "notify"
        OBVIOUS
      <4> HIDE DEF k
      <4> QED BY <2>1, <2>2, <4>4, <4>5
    <3>2. CASE DecideOutcome(expired, id) # "Ok"
      BY <2>4, <3>2 DEF DecideLocked, Decide
    <3> QED BY <3>1, <3>2
  <2>5. ASSUME CancelAll PROVE FALSE
    <3>1. \E k : k.pc \in {"notify", "done"} /\ call' = [call EXCEPT ![Closer] = k]
      <4> DEFINE k1 == [pc |-> "notify", id |-> store.active, arg |-> "Cancelled",
                        trace |-> store'.by_id[store.active].trace_id]
                 k2 == [call[Closer] EXCEPT !.pc = "done"]
      <4>1. call' = [call EXCEPT ![Closer] = k1] \/ call' = [call EXCEPT ![Closer] = k2]
        BY <2>5 DEF CancelAll, Goto
      <4>2. k1.pc = "notify" /\ k2.pc = "done"
        BY <2>1 DEF Call
      <4> HIDE DEF k1, k2
      <4> QED BY <4>1, <4>2
    <3>2. call[Closer].pc = "cancel"
      BY <2>5 DEF CancelAll, At
    <3> QED BY <2>1, <2>2, <3>1, <3>2
  <2>6. ASSUME TakeSnapshot PROVE store' \in {store, expired}
    BY <2>6 DEF TakeSnapshot
  <2>7. ASSUME NEW c \in Submitters, NEW id \in Ids, NEW fp \in Fingerprints,
               SubmitArrives(c, id, fp)
        PROVE  store' = store
    BY <2>7 DEF SubmitArrives
  <2>8. ASSUME NEW c \in Pollers, NEW id \in Ids, PollCheck(c, id) PROVE store' = store
    BY <2>8 DEF PollCheck
  <2>9. ASSUME NEW c \in Handlers,
               \/ SubmitWatch(c) \/ SubmitPush(c) \/ SubmitExisting(c)
               \/ PollSubscribe(c) \/ WaitWakes(c) \/ WaitTimesOut(c) \/ Disconnect(c)
        PROVE  store' = store
    BY <2>9 DEF SubmitWatch, SubmitPush, SubmitExisting, PollSubscribe, WaitWakes,
                WaitTimesOut, Recheck, Disconnect
  <2>10. ASSUME NEW c \in Resolvers, ResolverStep(c) PROVE store' = store
    BY <2>10 DEF ResolverStep, Notify, Announce
  <2>11. BeginShutdown \/ Tick \/ UNCHANGED vars => store' = store
    BY DEF BeginShutdown, Tick, vars
  <2> HIDE DEF expired
  <2> QED
    BY <1>1, <2>3, <2>4, <2>5, <2>6, <2>7, <2>8, <2>9, <2>10, <2>11 DEF Next, HandlerStep
<1>2. Inv /\ [Next]_vars => [A]_vars
  BY <1>1
<1> QED BY <1>2, InitInv, StepInv, PTL DEF Spec, FailedDecideDecidesNothing
================================================================================
