-------------------------- MODULE ApprovalStoreLemmas --------------------------
(***************************************************************************)
(* The methods of ApprovalStore preserve its well-formedness: one lemma    *)
(* per method, for every value of the constants.  They are stated about    *)
(* the operators, so the proofs about ApprovalStoreSpec and about          *)
(* ApprovalRuntime, which composes several calls in one step, both use     *)
(* them.                                                                   *)
(***************************************************************************)
EXTENDS ApprovalStore, SequenceTheorems, TLAPS

(* A store that a client can hold between two calls. *)
Sound(s) == StoreType(s) /\ WellFormed(s)

(* The FIFO after a new id has joined its back. *)
LEMMA JoinProperties ==
  ASSUME NEW q \in Seq(Ids), NEW id \in Ids,
         IsInjective(q), id \notin Range(q)
  PROVE  LET order == Append(q, id)
         IN /\ order \in Seq(Ids)
            /\ Len(order) = Len(q) + 1
            /\ \A k \in 1..Len(q) : order[k] = q[k]
            /\ order[Len(q) + 1] = id
            /\ IsInjective(order)
            /\ Range(order) = Range(q) \cup {id}
<1> DEFINE order == Append(q, id)
<1>1. /\ order \in Seq(Ids)
      /\ Len(order) = Len(q) + 1
      /\ \A k \in 1..Len(q) : order[k] = q[k]
      /\ order[Len(q) + 1] = id
  BY AppendProperties
<1>2. DOMAIN order = 1..(Len(q) + 1) /\ DOMAIN q = 1..Len(q) /\ Len(q) \in Nat
  BY <1>1, LenProperties
<1> HIDE DEF order
<1>3. \A k \in 1..Len(q) : order[k] \in Range(q)
  BY <1>1, <1>2 DEF Range
<1>4. IsInjective(order)
  <2> SUFFICES ASSUME NEW j \in DOMAIN order, NEW k \in DOMAIN order,
                      order[j] = order[k]
               PROVE  j = k
    BY DEF IsInjective
  <2>1. CASE j \in 1..Len(q) /\ k \in 1..Len(q)
    BY <2>1, <1>1, <1>2 DEF IsInjective
  <2>2. CASE j = Len(q) + 1
    BY <2>2, <1>1, <1>2, <1>3
  <2>3. CASE k = Len(q) + 1
    BY <2>3, <1>1, <1>2, <1>3
  <2> QED BY <2>1, <2>2, <2>3, <1>2
<1>5. Range(order) = Range(q) \cup {id}
  <2>1. ASSUME NEW x \in Range(order) PROVE x \in Range(q) \cup {id}
    BY <2>1, <1>1, <1>2, <1>3 DEF Range
  <2>2. ASSUME NEW x \in Range(q) PROVE x \in Range(order)
    <3>1. PICK k \in 1..Len(q) : x = q[k]
      BY <1>2 DEF Range
    <3> QED BY <3>1, <1>1, <1>2 DEF Range
  <2>3. id \in Range(order)
    BY <1>1, <1>2 DEF Range
  <2> QED BY <2>1, <2>2, <2>3
<1> QED BY <1>1, <1>4, <1>5 DEF order

(* Trimming a duplicate-free FIFO keeps its youngest MaxCached ids and
   forgets exactly the evicted ones. *)
LEMMA TrimProperties ==
  ASSUME NEW order \in Seq(Ids), IsInjective(order)
  PROVE  /\ Excess(order) \in 0..Len(order)
         /\ Survivors(order) \in Seq(Ids)
         /\ Len(Survivors(order)) = Len(order) - Excess(order)
         /\ Len(Survivors(order)) <= MaxCached
         /\ \A k \in 1..Len(Survivors(order)) :
              Survivors(order)[k] = order[k + Excess(order)]
         /\ IsInjective(Survivors(order))
         /\ Range(Survivors(order)) = Range(order) \ Evicted(order)
<1> DEFINE n == Len(order)
           e == Excess(order)
           kept == Survivors(order)
<1>1. n \in Nat /\ DOMAIN order = 1..n /\ \A k \in 1..n : order[k] \in Ids
  BY LenProperties, ElementOfSeq
<1>2. e \in 0..n /\ n - e <= MaxCached
  BY <1>1, StoreAssumption DEF Excess
<1>3. /\ kept \in Seq(Ids)
      /\ Len(kept) = n - e
      /\ \A k \in 1..Len(kept) : kept[k] = order[k + e]
  <2> HIDE DEF n, e
  <2>1. kept = SubSeq(order, e + 1, n)
    BY DEF Survivors, e, n
  <2>2. \A k \in (e + 1)..n : order[k] \in Ids
    BY <1>1, <1>2
  <2>3. /\ SubSeq(order, e + 1, n) \in Seq(Ids)
        /\ Len(SubSeq(order, e + 1, n)) =
             IF e + 1 <= n THEN n - (e + 1) + 1 ELSE 0
        /\ \A k \in 1..(n - (e + 1) + 1) :
             SubSeq(order, e + 1, n)[k] = order[(e + 1) + k - 1]
    BY <2>2, <1>1, <1>2, SubSeqProperties
  <2> HIDE DEF kept
  <2>4. Len(kept) = n - e
    BY <2>1, <2>3, <1>1, <1>2
  <2>5. ASSUME NEW k \in 1..Len(kept) PROVE kept[k] = order[k + e]
    <3>1. k \in 1..(n - (e + 1) + 1) /\ (e + 1) + k - 1 = k + e
      BY <2>4, <1>1, <1>2
    <3> QED BY <3>1, <2>1, <2>3
  <2> QED BY <2>1, <2>3, <2>4, <2>5
<1>4. DOMAIN kept = 1..(n - e)
  BY <1>3, LenProperties
<1> HIDE DEF n, e, kept
<1>5. IsInjective(kept)
  <2> SUFFICES ASSUME NEW j \in DOMAIN kept, NEW k \in DOMAIN kept,
                      kept[j] = kept[k]
               PROVE  j = k
    BY DEF IsInjective
  <2>1. j + e \in 1..n /\ k + e \in 1..n
    BY <1>1, <1>2, <1>4
  <2>2. order[j + e] = order[k + e]
    BY <1>3, <1>4
  <2>3. j + e = k + e
    BY <2>1, <2>2, <1>1 DEF IsInjective
  <2> QED BY <2>3, <1>1, <1>2, <1>4
<1>6. Evicted(order) = {order[k] : k \in 1..e}
  BY DEF Evicted, e
<1>7. Range(kept) = Range(order) \ Evicted(order)
  <2>1. ASSUME NEW x \in Range(kept)
        PROVE  x \in Range(order) /\ x \notin Evicted(order)
    <3>1. PICK k \in 1..(n - e) : x = kept[k]
      BY <1>4 DEF Range
    <3>2. k + e \in 1..n /\ x = order[k + e]
      BY <3>1, <1>1, <1>2, <1>3
    <3>3. ASSUME NEW j \in 1..e, x = order[j] PROVE FALSE
      <4>1. j \in 1..n
        BY <1>1, <1>2
      <4>2. j = k + e
        BY <4>1, <3>2, <3>3, <1>1 DEF IsInjective
      <4> QED BY <4>2, <3>1, <1>1, <1>2
    <3> QED BY <3>2, <3>3, <1>1, <1>6 DEF Range
  <2>2. ASSUME NEW x \in Range(order), x \notin Evicted(order)
        PROVE  x \in Range(kept)
    <3>1. PICK k \in 1..n : x = order[k]
      BY <1>1 DEF Range
    <3>2. k \notin 1..e
      BY <3>1, <2>2, <1>6
    <3>3. k - e \in 1..(n - e) /\ (k - e) + e = k
      BY <3>2, <1>1, <1>2
    <3>4. kept[k - e] = order[(k - e) + e]
      BY <3>3, <1>3
    <3> QED BY <3>1, <3>3, <3>4, <1>4 DEF Range
  <2> QED BY <2>1, <2>2
<1> QED BY <1>2, <1>3, <1>5, <1>7 DEF n, e, kept

--------------------------------------------------------------------------------
(* The final state of an approval. *)
Settled(a, decision) == [a EXCEPT !.state = decision]

(* Settling an approval changes its state and nothing else. *)
LEMMA SettledFields ==
  ASSUME NEW a \in Approval, NEW decision \in Decisions
  PROVE  /\ Settled(a, decision) \in Approval
         /\ Settled(a, decision).fingerprint = a.fingerprint
         /\ Settled(a, decision).trace_id = a.trace_id
         /\ Settled(a, decision).state = decision
BY DEF Settled, Approval

(* The fields of a store after its active approval has been resolved. *)
LEMMA ResolveShape ==
  ASSUME NEW s, Sound(s), s.active # NoId, NEW decision \in Decisions
  PROVE  LET r     == Resolve(s, s.active, decision)
             order == Append(s.cached_order, s.active)
         IN /\ s.active \in DOMAIN s.by_id
            /\ DOMAIN r = DOMAIN s
            /\ r.active = NoId
            /\ r.revision = s.revision + 1
            /\ r.cached_order = Survivors(order)
            /\ DOMAIN r.by_id = DOMAIN s.by_id \ Evicted(order)
            /\ \A x \in DOMAIN r.by_id :
                 r.by_id[x] = IF x = s.active THEN Settled(s.by_id[x], decision)
                              ELSE s.by_id[x]
            /\ r.by_id = [x \in DOMAIN r.by_id |-> r.by_id[x]]
            /\ DOMAIN r.fingerprint_index =
                 DOMAIN s.fingerprint_index \
                   {s.by_id[e].fingerprint : e \in Evicted(order) \cap DOMAIN s.by_id}
            /\ r.fingerprint_index =
                 [f \in DOMAIN r.fingerprint_index |-> s.fingerprint_index[f]]
<1> DEFINE id == s.active
           order == Append(s.cached_order, id)
           gone == Evicted(order)
           decided == [s EXCEPT !.by_id[id].state = decision]
           freed == [decided EXCEPT !.active = NoId]
           r == Resolve(s, id, decision)
<1>1. id \in DOMAIN s.by_id /\ s.by_id \in [DOMAIN s.by_id -> Approval]
  BY DEF Sound, WellFormed, KnownIds, StoreType
<1>2. DOMAIN s =
        {"active", "by_id", "fingerprint_index", "cached_order", "revision"}
  BY DEF Sound, StoreType
<1>3. /\ DOMAIN freed = DOMAIN s
      /\ freed.active = NoId
      /\ freed.cached_order = s.cached_order
      /\ freed.revision = s.revision
      /\ freed.fingerprint_index = s.fingerprint_index
      /\ freed.by_id = [s.by_id EXCEPT ![id] = Settled(s.by_id[id], decision)]
  BY <1>1, <1>2 DEF Settled
<1>4. \A x \in DOMAIN s.by_id : freed.by_id[x].fingerprint = s.by_id[x].fingerprint
  BY <1>1, <1>3 DEF Settled, Approval
<1>5. r = [MoveToCached(freed, id) EXCEPT !.revision = @ + 1]
  BY DEF Resolve
<1> HIDE DEF decided, freed, r
<1>6. /\ DOMAIN r = DOMAIN s
      /\ r.active = NoId
      /\ r.revision = s.revision + 1
      /\ r.cached_order = Survivors(order)
      /\ r.by_id = Restrict(freed.by_id, DOMAIN freed.by_id \ gone)
      /\ r.fingerprint_index =
           Restrict(s.fingerprint_index,
                    DOMAIN s.fingerprint_index \
                      {freed.by_id[e].fingerprint : e \in gone \cap DOMAIN freed.by_id})
  BY <1>2, <1>3, <1>5 DEF MoveToCached
<1> HIDE DEF gone
<1>7. DOMAIN freed.by_id = DOMAIN s.by_id
  BY <1>3
<1>8. {freed.by_id[e].fingerprint : e \in gone \cap DOMAIN freed.by_id} =
      {s.by_id[e].fingerprint : e \in gone \cap DOMAIN s.by_id}
  BY <1>4, <1>7
<1>9. /\ DOMAIN r.by_id = DOMAIN s.by_id \ gone
      /\ \A x \in DOMAIN r.by_id : r.by_id[x] = freed.by_id[x]
      /\ r.by_id = [x \in DOMAIN r.by_id |-> r.by_id[x]]
  BY <1>6, <1>7 DEF Restrict
<1>10. \A x \in DOMAIN r.by_id :
         r.by_id[x] = IF x = id THEN Settled(s.by_id[x], decision) ELSE s.by_id[x]
  BY <1>1, <1>3, <1>9
<1>11. /\ DOMAIN r.fingerprint_index =
            DOMAIN s.fingerprint_index \
              {s.by_id[e].fingerprint : e \in gone \cap DOMAIN s.by_id}
       /\ r.fingerprint_index =
            [f \in DOMAIN r.fingerprint_index |-> s.fingerprint_index[f]]
  BY <1>6, <1>8 DEF Restrict
<1> QED BY <1>1, <1>6, <1>9, <1>10, <1>11 DEF r, gone

(* Resolving the active approval keeps the store sound. *)
LEMMA ResolveSound ==
  ASSUME NEW s, Sound(s), s.active # NoId, NEW decision \in Decisions
  PROVE  Sound(Resolve(s, s.active, decision))
<1> DEFINE id == s.active
           order == Append(s.cached_order, id)
           gone == Evicted(order)
           r == Resolve(s, id, decision)
<1>1. /\ id \in DOMAIN s.by_id
      /\ DOMAIN r = DOMAIN s
      /\ r.active = NoId
      /\ r.revision = s.revision + 1
      /\ r.cached_order = Survivors(order)
      /\ DOMAIN r.by_id = DOMAIN s.by_id \ gone
      /\ \A x \in DOMAIN r.by_id :
           r.by_id[x] = IF x = id THEN Settled(s.by_id[x], decision) ELSE s.by_id[x]
      /\ r.by_id = [x \in DOMAIN r.by_id |-> r.by_id[x]]
      /\ DOMAIN r.fingerprint_index =
           DOMAIN s.fingerprint_index \
             {s.by_id[e].fingerprint : e \in gone \cap DOMAIN s.by_id}
      /\ r.fingerprint_index =
           [f \in DOMAIN r.fingerprint_index |-> s.fingerprint_index[f]]
  BY ResolveShape
<1>2. StoreType(s) /\ WellFormed(s)
  BY DEF Sound
<1>3. /\ order \in Seq(Ids)
      /\ IsInjective(order)
      /\ Range(order) = Range(s.cached_order) \cup {id}
  BY <1>2, <1>1, JoinProperties
     DEF StoreType, WellFormed, ActiveNotCached, CacheIsDuplicateFree
<1> HIDE DEF order
<1>4. /\ Survivors(order) \in Seq(Ids)
      /\ Len(Survivors(order)) <= MaxCached
      /\ IsInjective(Survivors(order))
      /\ Range(Survivors(order)) = Range(order) \ gone
  BY <1>3, TrimProperties
<1> HIDE DEF gone, r
<1>5. DOMAIN s.by_id = Range(order)
  BY <1>2, <1>3, <1>1 DEF WellFormed, KnownIds
<1>6. /\ DOMAIN r.by_id \subseteq DOMAIN s.by_id
      /\ \A x \in DOMAIN r.by_id :
           /\ r.by_id[x] \in Approval
           /\ r.by_id[x].fingerprint = s.by_id[x].fingerprint
           /\ r.by_id[x].trace_id = s.by_id[x].trace_id
           /\ r.by_id[x].state = IF x = id THEN decision ELSE s.by_id[x].state
  <2> SUFFICES ASSUME NEW x \in DOMAIN r.by_id
               PROVE  /\ r.by_id[x] \in Approval
                      /\ r.by_id[x].fingerprint = s.by_id[x].fingerprint
                      /\ r.by_id[x].trace_id = s.by_id[x].trace_id
                      /\ r.by_id[x].state =
                           IF x = id THEN decision ELSE s.by_id[x].state
    BY <1>1
  <2>1. s.by_id[x] \in Approval
    BY <1>1, <1>2 DEF StoreType
  <2> QED BY <2>1, <1>1, SettledFields
<1>7. StoreType(r)
  <2>1. r.by_id \in [DOMAIN r.by_id -> Approval]
    BY <1>1, <1>6
  <2>2. r.fingerprint_index \in [DOMAIN r.fingerprint_index -> Ids]
    BY <1>1, <1>2 DEF StoreType
  <2>3. r.revision \in Nat
    BY <1>1, <1>2 DEF StoreType
  <2> QED BY <2>1, <2>2, <2>3, <1>1, <1>2, <1>4, <1>6 DEF StoreType
<1>8. ActiveIsThePending(r)
  <2>1. NoId \notin DOMAIN r.by_id
    BY <1>2, <1>6, StoreAssumption DEF StoreType
  <2>2. ASSUME NEW x \in DOMAIN r.by_id PROVE r.by_id[x].state # "Pending"
    BY <1>2, <1>6 DEF WellFormed, ActiveIsThePending, IsPending, Decisions,
                      UserDecisions
  <2> QED BY <2>1, <2>2, <1>1 DEF ActiveIsThePending, IsPending
<1>9. KnownIds(r)
  BY <1>1, <1>4, <1>5 DEF KnownIds
<1>10. ActiveNotCached(r)
  <2>1. Range(r.cached_order) \subseteq Ids
    BY <1>2, <1>4, <1>5, <1>1 DEF StoreType
  <2> QED BY <2>1, <1>1, StoreAssumption DEF ActiveNotCached
<1>11. CacheIsDuplicateFree(r) /\ CacheIsBounded(r)
  BY <1>1, <1>4 DEF CacheIsDuplicateFree, CacheIsBounded
<1>12. IndexIsSound(r)
  <2> SUFFICES ASSUME NEW f \in DOMAIN r.fingerprint_index
               PROVE  /\ r.fingerprint_index[f] \in DOMAIN r.by_id
                      /\ r.by_id[r.fingerprint_index[f]].fingerprint = f
    BY DEF IndexIsSound
  <2> DEFINE x == s.fingerprint_index[f]
  <2>1. r.fingerprint_index[f] = x /\ f \in DOMAIN s.fingerprint_index
    BY <1>1
  <2>2. x \in DOMAIN s.by_id /\ s.by_id[x].fingerprint = f
    BY <2>1, <1>2 DEF WellFormed, IndexIsSound
  <2>3. x \notin gone
    BY <2>2, <1>1
  <2> QED BY <2>1, <2>2, <2>3, <1>1, <1>6
<1>13. TracesAreUnique(r)
  <2>1. \A x \in DOMAIN r.by_id : r.by_id[x].trace_id \in 1..r.revision
    BY <1>1, <1>2, <1>6 DEF WellFormed, TracesAreUnique, StoreType
  <2>2. \A x, y \in DOMAIN r.by_id :
          r.by_id[x].trace_id = r.by_id[y].trace_id => x = y
    BY <1>2, <1>6 DEF WellFormed, TracesAreUnique
  <2> QED BY <2>1, <2>2 DEF TracesAreUnique
<1>14. WellFormed(r)
  BY <1>8, <1>9, <1>10, <1>11, <1>12, <1>13 DEF WellFormed
<1> QED BY <1>7, <1>14 DEF Sound, r

(* A new store is sound. *)
LEMMA NewStoreSound == Sound(NewStore)
<1> DEFINE s == NewStore
<1>1. /\ s.active = NoId
      /\ s.by_id = [i \in {} |-> i]
      /\ s.fingerprint_index = [f \in {} |-> f]
      /\ s.cached_order = <<>>
      /\ s.revision = 0
      /\ DOMAIN s =
           {"active", "by_id", "fingerprint_index", "cached_order", "revision"}
  BY DEF NewStore
<1> HIDE DEF s
<1>2. DOMAIN s.by_id = {} /\ DOMAIN s.fingerprint_index = {}
  BY <1>1
<1>3. s.cached_order \in Seq(Ids) /\ Len(s.cached_order) = 0
  BY <1>1, EmptySeq
<1>4. Range(s.cached_order) = {} /\ DOMAIN s.cached_order = {}
  BY <1>3, LenProperties DEF Range
<1>5. StoreType(s)
  <2>1. /\ s.by_id \in [DOMAIN s.by_id -> Approval]
        /\ s.fingerprint_index \in [DOMAIN s.fingerprint_index -> Ids]
    BY <1>1, <1>2
  <2> QED BY <2>1, <1>1, <1>2, <1>3 DEF StoreType
<1>6. WellFormed(s)
  <2>1. CacheIsBounded(s) /\ CacheIsDuplicateFree(s)
    BY <1>3, <1>4, StoreAssumption DEF CacheIsBounded, CacheIsDuplicateFree, IsInjective
  <2> QED
    BY <2>1, <1>1, <1>2, <1>4
    DEF WellFormed, ActiveIsThePending, KnownIds, ActiveNotCached, IndexIsSound,
        TracesAreUnique
<1> QED BY <1>5, <1>6 DEF Sound, s

(* The approval that an enqueue creates. *)
Created(s, fp, due) ==
  [fingerprint |-> fp, expires_at |-> due, state |-> "Pending",
   trace_id |-> s.revision + 1]

(* The fields of a store after an approval has been created. *)
LEMMA EnqueueShape ==
  ASSUME NEW s, Sound(s), NEW id \in Ids, NEW fp \in Fingerprints,
         NEW now \in Nat, NEW ttl \in Nat,
         EnqueueOutcome(s, id, fp) = "Created"
  PROVE  LET r == Enqueue(s, id, fp, now, ttl)
         IN /\ id \notin DOMAIN s.by_id
            /\ s.active = NoId
            /\ DOMAIN r = DOMAIN s
            /\ r.active = id
            /\ r.revision = s.revision + 1
            /\ r.cached_order = s.cached_order
            /\ r.by_id = Insert(s.by_id, id, Created(s, fp, now + ttl))
            /\ r.fingerprint_index = Insert(s.fingerprint_index, fp, id)
<1>1. id \notin DOMAIN s.by_id /\ s.active = NoId
  BY DEF EnqueueOutcome, Knows
<1>2. DOMAIN s =
        {"active", "by_id", "fingerprint_index", "cached_order", "revision"}
  BY DEF Sound, StoreType
<1>3. Enqueue(s, id, fp, now, ttl) =
        [s EXCEPT
           !.fingerprint_index = Insert(@, fp, id),
           !.by_id             = Insert(@, id, Created(s, fp, now + ttl)),
           !.active            = id,
           !.revision          = @ + 1]
  BY DEF Enqueue, Created
<1> QED BY <1>1, <1>2, <1>3

(* Enqueueing keeps the store sound, whatever the outcome. *)
LEMMA EnqueueSound ==
  ASSUME NEW s, Sound(s), NEW id \in Ids, NEW fp \in Fingerprints,
         NEW now \in Nat, NEW ttl \in Nat
  PROVE  Sound(Enqueue(s, id, fp, now, ttl))
<1>1. CASE EnqueueOutcome(s, id, fp) # "Created"
  BY <1>1 DEF Enqueue
<1>2. CASE EnqueueOutcome(s, id, fp) = "Created"
  <2> DEFINE r == Enqueue(s, id, fp, now, ttl)
             new == Created(s, fp, now + ttl)
  <2>1. /\ id \notin DOMAIN s.by_id
        /\ s.active = NoId
        /\ DOMAIN r = DOMAIN s
        /\ r.active = id
        /\ r.revision = s.revision + 1
        /\ r.cached_order = s.cached_order
        /\ r.by_id = Insert(s.by_id, id, new)
        /\ r.fingerprint_index = Insert(s.fingerprint_index, fp, id)
    BY <1>2, EnqueueShape
  <2>2. StoreType(s) /\ WellFormed(s)
    BY DEF Sound
  <2>3. /\ new \in Approval
        /\ new.fingerprint = fp
        /\ new.state = "Pending"
        /\ new.trace_id = s.revision + 1
        /\ s.revision \in Nat
    BY <2>2 DEF Created, Approval, StoreType
  <2> HIDE DEF r, new
  <2>4. /\ DOMAIN r.by_id = DOMAIN s.by_id \cup {id}
        /\ \A x \in DOMAIN r.by_id :
             r.by_id[x] = IF x = id THEN new ELSE s.by_id[x]
        /\ r.by_id = [x \in DOMAIN r.by_id |-> r.by_id[x]]
        /\ DOMAIN r.fingerprint_index = DOMAIN s.fingerprint_index \cup {fp}
        /\ \A f \in DOMAIN r.fingerprint_index :
             r.fingerprint_index[f] = IF f = fp THEN id ELSE s.fingerprint_index[f]
        /\ r.fingerprint_index =
             [f \in DOMAIN r.fingerprint_index |-> r.fingerprint_index[f]]
    BY <2>1 DEF Insert
  <2>5. \A x \in DOMAIN s.by_id : s.by_id[x] \in Approval
    BY <2>2 DEF StoreType
  <2>6. StoreType(r)
    <3>1. r.by_id \in [DOMAIN r.by_id -> Approval]
      BY <2>3, <2>4, <2>5
    <3>2. r.fingerprint_index \in [DOMAIN r.fingerprint_index -> Ids]
      <4>1. \A f \in DOMAIN s.fingerprint_index : s.fingerprint_index[f] \in Ids
        BY <2>2 DEF StoreType
      <4>2. \A f \in DOMAIN r.fingerprint_index : r.fingerprint_index[f] \in Ids
        BY <4>1, <2>4
      <4> QED BY <4>2, <2>4
    <3> QED BY <3>1, <3>2, <2>1, <2>2, <2>3, <2>4 DEF StoreType
  <2>7. ActiveIsThePending(r)
    <3>1. NoId \notin DOMAIN s.by_id
      BY <2>2, StoreAssumption DEF StoreType
    <3>2. \A x \in DOMAIN s.by_id : s.by_id[x].state # "Pending"
      BY <3>1, <2>1, <2>2 DEF WellFormed, ActiveIsThePending, IsPending
    <3> QED BY <3>2, <2>1, <2>3, <2>4 DEF ActiveIsThePending, IsPending
  <2>8. KnownIds(r) /\ ActiveNotCached(r)
    <3>1. DOMAIN s.by_id = Range(s.cached_order)
      BY <2>1, <2>2 DEF WellFormed, KnownIds
    <3>2. id # NoId
      BY StoreAssumption
    <3> QED BY <3>1, <3>2, <2>1, <2>4 DEF KnownIds, ActiveNotCached
  <2>9. CacheIsDuplicateFree(r) /\ CacheIsBounded(r)
    BY <2>1, <2>2 DEF WellFormed, CacheIsDuplicateFree, CacheIsBounded
  <2>10. IndexIsSound(r)
    BY <2>1, <2>2, <2>3, <2>4 DEF WellFormed, IndexIsSound
  <2>11. TracesAreUnique(r)
    <3>1. \A x \in DOMAIN s.by_id : s.by_id[x].trace_id \in 1..s.revision
      BY <2>2 DEF WellFormed, TracesAreUnique
    <3>2. \A x, y \in DOMAIN s.by_id :
            s.by_id[x].trace_id = s.by_id[y].trace_id => x = y
      BY <2>2 DEF WellFormed, TracesAreUnique
    <3>3. \A x \in DOMAIN r.by_id : r.by_id[x].trace_id \in 1..r.revision
      BY <3>1, <2>1, <2>3, <2>4
    <3>4. \A x, y \in DOMAIN r.by_id :
            r.by_id[x].trace_id = r.by_id[y].trace_id => x = y
      BY <3>1, <3>2, <2>3, <2>4
    <3> QED BY <3>3, <3>4 DEF TracesAreUnique
  <2> QED
    BY <2>2, <2>6, <2>7, <2>8, <2>9, <2>10, <2>11 DEF Sound, WellFormed, r
<1> QED BY <1>1, <1>2

(* An approval that can still be decided is the active one. *)
LEMMA DecidableIsActive ==
  ASSUME NEW s, Sound(s), NEW id, DecideOutcome(s, id) = "Ok"
  PROVE  s.active = id /\ s.active # NoId
<1>1. Knows(s, id) /\ ~ IsDecided(s.by_id[id])
  BY DEF DecideOutcome
<1>2. id \in DOMAIN s.by_id /\ s.by_id[id] \in Approval /\ id \in Ids
  BY <1>1 DEF Sound, StoreType, Knows
<1>3. IsPending(s.by_id[id])
  BY <1>1, <1>2 DEF Approval, IsDecided, IsPending
<1> QED
  BY <1>2, <1>3, StoreAssumption DEF Sound, WellFormed, ActiveIsThePending

(* decide keeps the store sound, accepted or not. *)
LEMMA DecideSound ==
  ASSUME NEW s, Sound(s), NEW id, NEW decision \in Decisions
  PROVE  Sound(Decide(s, id, decision))
BY DecidableIsActive, ResolveSound DEF Decide

(* cancel keeps the store sound, accepted or not. *)
LEMMA CancelSound ==
  ASSUME NEW s, Sound(s), NEW id
  PROVE  Sound(Cancel(s, id))
BY DecidableIsActive, ResolveSound DEF Cancel, Decisions

(* expire_due_pending keeps the store sound, whether or not anything is due. *)
LEMMA ExpireSound ==
  ASSUME NEW s, Sound(s), NEW now
  PROVE  Sound(ExpireDuePending(s, now))
BY ResolveSound DEF ExpireDuePending, IsDue, Decisions

--------------------------------------------------------------------------------
(* How the store evolves: a decided approval keeps its decision, and only the
   approval in X is new. *)
KeepsDecisions(X, s, r) ==
  \A i \in DOMAIN r.by_id \ X :
    /\ i \in DOMAIN s.by_id
    /\ IsDecided(s.by_id[i]) => r.by_id[i].state = s.by_id[i].state

(* After a resolution no approval is active. *)
LEMMA ResolveFrees ==
  ASSUME NEW s, Sound(s), s.active # NoId, NEW d \in Decisions
  PROVE  Resolve(s, s.active, d).active = NoId
<1> DEFINE r == Resolve(s, s.active, d)
<1>1. r.active = NoId
  BY ResolveShape
<1> QED BY <1>1

(* Resolving the active approval changes the decision of no other. *)
LEMMA ResolveKeeps ==
  ASSUME NEW s, Sound(s), s.active # NoId, NEW d \in Decisions
  PROVE  KeepsDecisions({}, s, Resolve(s, s.active, d))
<1> DEFINE r == Resolve(s, s.active, d)
<1>1. /\ s.active \in DOMAIN s.by_id
      /\ DOMAIN r.by_id =
           DOMAIN s.by_id \ Evicted(Append(s.cached_order, s.active))
      /\ \A x \in DOMAIN r.by_id :
           r.by_id[x] = IF x = s.active THEN Settled(s.by_id[x], d) ELSE s.by_id[x]
  BY ResolveShape
<1>2. s.by_id[s.active].state = "Pending"
  BY <1>1 DEF Sound, WellFormed, ActiveIsThePending, IsPending
<1> HIDE DEF r
<1>3. KeepsDecisions({}, s, r)
  BY <1>1, <1>2 DEF KeepsDecisions, IsDecided, Decisions, UserDecisions
<1> QED BY <1>3 DEF r

(* A decide, cancel or expiry, whatever it finds, keeps the store sound and evolves
   it. *)
LEMMA DecisionsAreKept ==
  ASSUME NEW s, Sound(s)
  PROVE  /\ \A t : Sound(ExpireDuePending(s, t)) /\ KeepsDecisions({}, s, ExpireDuePending(s, t))
         /\ \A id : \A d \in Decisions :
              Sound(Decide(s, id, d)) /\ KeepsDecisions({}, s, Decide(s, id, d))
         /\ \A id : Sound(Cancel(s, id)) /\ KeepsDecisions({}, s, Cancel(s, id))
<1>1. KeepsDecisions({}, s, s)
  BY DEF KeepsDecisions
<1>2. "TimedOut" \in Decisions /\ "Cancelled" \in Decisions
  BY DEF Decisions
<1>3. ASSUME NEW t PROVE KeepsDecisions({}, s, ExpireDuePending(s, t))
  BY <1>1, <1>2, ResolveKeeps DEF ExpireDuePending, IsDue
<1>4. ASSUME NEW id, NEW d \in Decisions PROVE KeepsDecisions({}, s, Decide(s, id, d))
  BY <1>1, DecidableIsActive, ResolveKeeps DEF Decide
<1>5. ASSUME NEW id PROVE KeepsDecisions({}, s, Cancel(s, id))
  BY <1>1, <1>2, DecidableIsActive, ResolveKeeps DEF Cancel
<1> QED BY <1>3, <1>4, <1>5, ExpireSound, DecideSound, CancelSound

(* A submission adds its own approval, pending, or nothing. *)
LEMMA EnqueueKeeps ==
  ASSUME NEW s, Sound(s), NEW id \in Ids, NEW fp \in Fingerprints,
         NEW now \in Nat, NEW ttl \in Nat
  PROVE  LET r == Enqueue(s, id, fp, now, ttl)
         IN /\ KeepsDecisions({id}, s, r)
            /\ EnqueueOutcome(s, id, fp) = "Created" =>
                 id \in DOMAIN r.by_id /\ IsPending(r.by_id[id])
<1> DEFINE r == Enqueue(s, id, fp, now, ttl)
<1>1. CASE EnqueueOutcome(s, id, fp) # "Created"
  BY <1>1 DEF Enqueue, KeepsDecisions
<1>2. CASE EnqueueOutcome(s, id, fp) = "Created"
  <2>1. r.by_id = Insert(s.by_id, id, Created(s, fp, now + ttl))
    BY <1>2, EnqueueShape
  <2>2. Created(s, fp, now + ttl).state = "Pending"
    BY DEF Created
  <2> HIDE DEF r
  <2>3. /\ \A i \in DOMAIN r.by_id \ {id} : i \in DOMAIN s.by_id /\ r.by_id[i] = s.by_id[i]
        /\ id \in DOMAIN r.by_id /\ IsPending(r.by_id[id])
    BY <2>1, <2>2 DEF Insert, IsPending
  <2>4. KeepsDecisions({id}, s, r)
    BY <2>3 DEF KeepsDecisions
  <2> QED BY <2>3, <2>4 DEF r
<1> QED BY <1>1, <1>2



--------------------------------------------------------------------------------
(***************************************************************************)
(* What the two methods that change the store do to the ledger it          *)
(* implements.                                                             *)
(***************************************************************************)

(* Creating an approval makes it the pending request and leaves the window. *)
LEMMA EnqueueOnLedger ==
  ASSUME NEW s, Sound(s), NEW id \in Ids, NEW fp \in Fingerprints,
         NEW now \in Nat, NEW ttl \in Nat,
         EnqueueOutcome(s, id, fp) = "Created"
  PROVE  LET r == Enqueue(s, id, fp, now, ttl)
         IN /\ PendingRequests(s) = {}
            /\ PendingRequests(r) = {[id |-> id, fingerprint |-> fp]}
            /\ LedgerWindow(r) = LedgerWindow(s)
            /\ id \notin {LedgerWindow(s)[k].id : k \in 1..Len(LedgerWindow(s))}
<1> DEFINE r == Enqueue(s, id, fp, now, ttl)
           new == Created(s, fp, now + ttl)
           q == s.cached_order
<1>1. /\ id \notin DOMAIN s.by_id
      /\ s.active = NoId
      /\ r.active = id
      /\ r.cached_order = q
      /\ r.by_id = Insert(s.by_id, id, new)
  BY EnqueueShape
<1>2. DOMAIN s.by_id = Range(q) /\ q \in Seq(Ids)
  BY <1>1 DEF Sound, StoreType, WellFormed, KnownIds
<1>3. new.fingerprint = fp
  BY DEF Created
<1> HIDE DEF r, new, q
<1>4. /\ r.by_id[id] = new
      /\ \A x \in DOMAIN s.by_id : r.by_id[x] = s.by_id[x]
  BY <1>1 DEF Insert
<1>5. DOMAIN q = 1..Len(q) /\ \A k \in 1..Len(q) : q[k] \in DOMAIN s.by_id
  BY <1>2, LenProperties DEF Range
<1>6. LedgerWindow(r) = LedgerWindow(s)
  BY <1>1, <1>4, <1>5 DEF LedgerWindow, LedgerEntry, q
<1>7. PendingRequests(s) = {} /\ PendingRequests(r) = {[id |-> id, fingerprint |-> fp]}
  BY <1>1, <1>3, <1>4, StoreAssumption DEF PendingRequests
<1>8. id \notin {LedgerWindow(s)[k].id : k \in 1..Len(LedgerWindow(s))}
  <2>1. LedgerWindow(s) = [k \in 1..Len(q) |-> LedgerEntry(s, q[k])]
    BY DEF LedgerWindow, q
  <2>2. LedgerWindow(s) \in Seq({LedgerEntry(s, x) : x \in Ids})
    BY <2>1, <1>2, LenProperties, ElementOfSeq, IsASeq
  <2>3. Len(LedgerWindow(s)) = Len(q)
    BY <2>1, <2>2, <1>2, LenProperties
  <2>4. \A k \in 1..Len(q) : LedgerWindow(s)[k].id = q[k]
    BY <2>1 DEF LedgerEntry
  <2> QED BY <2>3, <2>4, <1>1, <1>5
<1> QED BY <1>6, <1>7, <1>8 DEF r

(* Resolving the active approval enters it at the young end of the ledger and
   leaves no request pending. *)
LEMMA ResolveOnLedger ==
  ASSUME NEW s, Sound(s), s.active # NoId, NEW decision \in Decisions
  PROVE  LET r     == Resolve(s, s.active, decision)
             req   == [id |-> s.active,
                       fingerprint |-> s.by_id[s.active].fingerprint]
             entry == [id |-> req.id, fingerprint |-> req.fingerprint,
                       decision |-> decision]
         IN /\ PendingRequests(s) = {req}
            /\ PendingRequests(r) = {}
            /\ LedgerWindow(r) = Survivors(Append(LedgerWindow(s), entry))
<1> DEFINE id == s.active
           q == s.cached_order
           order == Append(q, id)
           r == Resolve(s, id, decision)
           req == [id |-> id, fingerprint |-> s.by_id[id].fingerprint]
           entry == [id |-> req.id, fingerprint |-> req.fingerprint,
                     decision |-> decision]
           log == Append(LedgerWindow(s), entry)
           E == [id : Ids, fingerprint : Fingerprints,
                 decision : {"Pending"} \cup Decisions]
           e == Excess(order)
           n == Len(q)
<1>1. /\ id \in DOMAIN s.by_id
      /\ r.active = NoId
      /\ r.cached_order = Survivors(order)
      /\ DOMAIN r.by_id = DOMAIN s.by_id \ Evicted(order)
      /\ \A x \in DOMAIN r.by_id :
           r.by_id[x] = IF x = id THEN Settled(s.by_id[x], decision) ELSE s.by_id[x]
  BY ResolveShape, ZenonT(60)
<1>2. StoreType(s) /\ WellFormed(s) /\ id \in Ids
  BY <1>1 DEF Sound, StoreType
<1>3. q \in Seq(Ids) /\ IsInjective(q) /\ id \notin Range(q)
  BY <1>2 DEF StoreType, WellFormed, ActiveNotCached, CacheIsDuplicateFree
<1>4. /\ order \in Seq(Ids)
      /\ Len(order) = n + 1
      /\ \A k \in 1..n : order[k] = q[k]
      /\ order[n + 1] = id
      /\ IsInjective(order)
      /\ Range(order) = Range(q) \cup {id}
  BY <1>2, <1>3, JoinProperties
<1>5. n \in Nat /\ DOMAIN q = 1..n /\ DOMAIN order = 1..(n + 1)
  BY <1>3, <1>4, LenProperties
<1>6. entry = [id |-> id, fingerprint |-> s.by_id[id].fingerprint,
               decision |-> decision]
  OBVIOUS
<1>7. \A x \in DOMAIN s.by_id : s.by_id[x] \in Approval
  BY <1>2 DEF StoreType
<1>8. \A x \in DOMAIN s.by_id : LedgerEntry(s, x) \in E
  BY <1>7, <1>2 DEF LedgerEntry, Approval, StoreType
<1>9. entry \in E
  BY <1>1, <1>2, <1>6, <1>7 DEF Approval
<1> HIDE DEF order, r, req, entry, E
<1>10. Range(q) \subseteq DOMAIN s.by_id
  BY <1>2 DEF WellFormed, KnownIds, q
<1>11. \A k \in 1..n : q[k] \in DOMAIN s.by_id
  BY <1>5, <1>10 DEF Range
<1>12. /\ LedgerWindow(s) \in Seq(E)
       /\ Len(LedgerWindow(s)) = n
       /\ \A k \in 1..n : LedgerWindow(s)[k] = LedgerEntry(s, q[k])
  <2>1. LedgerWindow(s) = [k \in 1..n |-> LedgerEntry(s, q[k])]
    BY DEF LedgerWindow
  <2>2. \A k \in 1..n : LedgerEntry(s, q[k]) \in E
    BY <1>8, <1>11
  <2>3. LedgerWindow(s) \in Seq(E)
    BY <2>1, <2>2, <1>5, IsASeq
  <2> QED BY <2>1, <2>3, <1>5, LenProperties
<1>13. /\ log \in Seq(E)
       /\ Len(log) = n + 1
       /\ \A k \in 1..n : log[k] = LedgerEntry(s, q[k])
       /\ log[n + 1] = entry
  BY <1>9, <1>12, AppendProperties
<1> HIDE DEF log
<1>14. Excess(log) = e
  BY <1>4, <1>13 DEF Excess
<1>15. /\ e \in 0..(n + 1)
       /\ Survivors(order) \in Seq(Ids)
       /\ Len(Survivors(order)) = n + 1 - e
       /\ \A k \in 1..(n + 1 - e) : Survivors(order)[k] = order[k + e]
       /\ Range(Survivors(order)) = Range(order) \ Evicted(order)
  BY <1>4, TrimProperties
<1> HIDE DEF e
<1>16. /\ Survivors(log) \in Seq(E)
       /\ Len(Survivors(log)) = n + 1 - e
       /\ \A k \in 1..(n + 1 - e) : Survivors(log)[k] = log[k + e]
  <2>1. Survivors(log) = SubSeq(log, e + 1, n + 1)
    BY <1>13, <1>14 DEF Survivors
  <2>2. \A k \in (e + 1)..(n + 1) : log[k] \in E
    BY <1>5, <1>13, <1>15, ElementOfSeq
  <2>3. /\ SubSeq(log, e + 1, n + 1) \in Seq(E)
        /\ Len(SubSeq(log, e + 1, n + 1)) =
             IF e + 1 <= n + 1 THEN (n + 1) - (e + 1) + 1 ELSE 0
        /\ \A k \in 1..((n + 1) - (e + 1) + 1) :
             SubSeq(log, e + 1, n + 1)[k] = log[(e + 1) + k - 1]
    BY <2>2, <1>5, <1>15, SubSeqProperties
  <2>4. Len(Survivors(log)) = n + 1 - e
    BY <2>1, <2>3, <1>5, <1>15
  <2>5. ASSUME NEW k \in 1..(n + 1 - e) PROVE Survivors(log)[k] = log[k + e]
    <3>1. k \in 1..((n + 1) - (e + 1) + 1) /\ (e + 1) + k - 1 = k + e
      BY <1>5, <1>15
    <3> QED BY <3>1, <2>1, <2>3
  <2> QED BY <2>1, <2>3, <2>4, <2>5
<1>17. ASSUME NEW k \in 1..(n + 1 - e)
       PROVE  LedgerEntry(r, Survivors(order)[k]) = Survivors(log)[k]
  <2> DEFINE x == order[k + e]
  <2>1. k + e \in 1..(n + 1) /\ Survivors(order)[k] = x
    BY <1>5, <1>15
  <2>2. x \in DOMAIN r.by_id
    <3>1. x \in Range(Survivors(order))
      <4>1. DOMAIN Survivors(order) = 1..(n + 1 - e)
        BY <1>15, LenProperties
      <4> QED BY <4>1, <2>1 DEF Range
    <3>2. x \in Range(order) /\ x \notin Evicted(order)
      BY <3>1, <1>15
    <3>3. x \in DOMAIN s.by_id
      BY <3>2, <1>1, <1>4, <1>10
    <3> QED BY <3>2, <3>3, <1>1
  <2>3. x \in DOMAIN s.by_id
    BY <2>2, <1>1
  <2>4. CASE k + e = n + 1
    <3>1. x = id /\ r.by_id[x] = Settled(s.by_id[id], decision)
      BY <2>2, <2>4, <1>1, <1>4
    <3>2. /\ Settled(s.by_id[id], decision).fingerprint = s.by_id[id].fingerprint
          /\ Settled(s.by_id[id], decision).state = decision
      BY <1>1, <1>7, SettledFields
    <3>3. LedgerEntry(r, x) = entry
      BY <3>1, <3>2, <1>6 DEF LedgerEntry
    <3> QED BY <3>3, <2>1, <2>4, <1>13, <1>16
  <2>5. CASE k + e \in 1..n
    <3>1. x = q[k + e] /\ x # id
      <4>1. x = q[k + e]
        BY <2>5, <1>4
      <4>2. x \in Range(q)
        BY <4>1, <2>5, <1>5 DEF Range
      <4> QED BY <4>1, <4>2, <1>3
    <3>2. r.by_id[x] = s.by_id[x]
      BY <3>1, <2>2, <1>1
    <3>3. LedgerEntry(r, x) = LedgerEntry(s, q[k + e])
      BY <3>1, <3>2 DEF LedgerEntry
    <3> QED BY <3>3, <2>1, <2>5, <1>13, <1>16
  <2> QED BY <2>1, <2>4, <2>5, <1>5
<1>18. LedgerWindow(r) = Survivors(log)
  <2>1. LedgerWindow(r) =
          [k \in 1..(n + 1 - e) |-> LedgerEntry(r, Survivors(order)[k])]
    BY <1>1, <1>15 DEF LedgerWindow
  <2>2. DOMAIN Survivors(log) = 1..(n + 1 - e)
    BY <1>16, LenProperties
  <2>3. Survivors(log) = [k \in 1..(n + 1 - e) |-> Survivors(log)[k]]
    BY <2>2, <1>16, LenProperties
  <2> QED BY <2>1, <2>3, <1>17
<1>19. PendingRequests(s) = {req} /\ PendingRequests(r) = {}
  BY <1>1 DEF PendingRequests, req
<1> QED BY <1>18, <1>19 DEF r, req, entry, log
================================================================================
