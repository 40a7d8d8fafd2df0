-------------------------- MODULE ApprovalStoreProofs --------------------------
(***************************************************************************)
(* The properties of ApprovalStoreSpec and RequestIdentity, proved for     *)
(* every set of ids and payloads, every cache size (zero included), every  *)
(* time to live and every bound.  What the fingerprints it compares can    *)
(* tell apart: lengths, quotes, delimiters and the order of sorted keys    *)
(* are read back in one way only, so that two requests have the same       *)
(* fingerprint exactly when they are the same request.                     *)
(***************************************************************************)
EXTENDS RequestIdentity, ApprovalStoreLemmas, WellFoundedInduction

(* Types and the agreement of the slot, the map, the FIFO and the index are
   inductive together. *)
Inv == TypeOK /\ StoreWellFormed

(* A new store satisfies the invariant. *)
LEMMA InitInv == Init => Inv
BY NewStoreSound DEF Init, Inv, TypeOK, StoreWellFormed, Sound

(* Every action of the specification makes one of three changes to the store. *)
LEMMA StepInv == Inv /\ [Next]_vars => Inv'
<1> SUFFICES ASSUME Inv, [Next]_vars PROVE Inv'
  OBVIOUS
<1> USE SpecAssumption
<1>1. Sound(store) /\ now \in Nat
  BY DEF Inv, TypeOK, StoreWellFormed, Sound
<1>2. SUFFICES Sound(store') /\ now' \in Nat
  BY DEF Inv, TypeOK, StoreWellFormed, Sound
<1>3. ASSUME NEW id \in Ids, NEW fp \in Fingerprints, EnqueueCall(id, fp)
      PROVE  Sound(store') /\ now' \in Nat
  BY <1>1, <1>3, EnqueueSound DEF EnqueueCall
<1>4. ASSUME NEW id \in Ids, NEW d \in UserDecisions, DecideCall(id, d)
      PROVE  Sound(store') /\ now' \in Nat
  BY <1>1, <1>4, DecideSound DEF DecideCall, Decisions
<1>5. ASSUME NEW id \in Ids, CancelCall(id)
      PROVE  Sound(store') /\ now' \in Nat
  BY <1>1, <1>5, CancelSound DEF CancelCall
<1>6. ASSUME ExpireCall PROVE Sound(store') /\ now' \in Nat
  BY <1>1, <1>6, ExpireSound DEF ExpireCall
<1>7. ASSUME Tick PROVE Sound(store') /\ now' \in Nat
  BY <1>1, <1>7 DEF Tick
<1>8. ASSUME UNCHANGED vars PROVE Sound(store') /\ now' \in Nat
  BY <1>1, <1>8 DEF vars
<1> QED BY <1>3, <1>4, <1>5, <1>6, <1>7, <1>8 DEF Next

(* The state of the store always has the type its Rust declaration gives it. *)
THEOREM TypeCorrect == Spec => []TypeOK
<1>1. Inv => TypeOK
  BY DEF Inv
<1> QED BY <1>1, InitInv, StepInv, PTL DEF Spec

(* The slot, the map, the FIFO and the index agree after every call. *)
THEOREM AlwaysWellFormed == Spec => []StoreWellFormed
<1>1. Inv => StoreWellFormed
  BY DEF Inv
<1> QED BY <1>1, InitInv, StepInv, PTL DEF Spec

--------------------------------------------------------------------------------
(* A step creates an approval, resolves the active one, or leaves the store. *)
LEMMA StoreSteps ==
  ASSUME Inv, [Next]_vars
  PROVE  \/ \E id \in Ids, fp \in Fingerprints :
              /\ EnqueueOutcome(store, id, fp) = "Created"
              /\ store' = Enqueue(store, id, fp, now, TTL)
         \/ /\ store.active # NoId
            /\ \E d \in Decisions : store' = Resolve(store, store.active, d)
         \/ store' = store
<1>1. Sound(store)
  BY DEF Inv, TypeOK, StoreWellFormed, Sound
<1>2. ASSUME NEW id \in Ids, NEW fp \in Fingerprints, EnqueueCall(id, fp)
      PROVE  \/ /\ EnqueueOutcome(store, id, fp) = "Created"
                /\ store' = Enqueue(store, id, fp, now, TTL)
             \/ store' = store
  BY <1>2 DEF EnqueueCall, Enqueue
<1>3. ASSUME NEW id \in Ids, NEW d \in UserDecisions, DecideCall(id, d)
      PROVE  \/ /\ store.active # NoId
                /\ \E e \in Decisions : store' = Resolve(store, store.active, e)
             \/ store' = store
  BY <1>1, <1>3, DecidableIsActive DEF DecideCall, Decide, Decisions
<1>4. ASSUME NEW id \in Ids, CancelCall(id)
      PROVE  \/ /\ store.active # NoId
                /\ \E e \in Decisions : store' = Resolve(store, store.active, e)
             \/ store' = store
  BY <1>1, <1>4, DecidableIsActive DEF CancelCall, Cancel, Decisions
<1>5. ASSUME ExpireCall
      PROVE  \/ /\ store.active # NoId
                /\ \E e \in Decisions : store' = Resolve(store, store.active, e)
             \/ store' = store
  BY <1>5 DEF ExpireCall, ExpireDuePending, IsDue, Decisions
<1>6. ASSUME Tick \/ UNCHANGED vars PROVE store' = store
  BY <1>6 DEF Tick, vars
<1> QED BY <1>2, <1>3, <1>4, <1>5, <1>6 DEF Next

(* A creation fills the free slot under the next revision. *)
LEMMA CreateFields ==
  ASSUME NEW s, Sound(s), NEW id \in Ids, NEW fp \in Fingerprints,
         NEW t \in Nat, NEW ttl \in Nat,
         EnqueueOutcome(s, id, fp) = "Created"
  PROVE  /\ s.active = NoId
         /\ Enqueue(s, id, fp, t, ttl).active # NoId
         /\ Enqueue(s, id, fp, t, ttl).revision = s.revision + 1
<1>1. s.active = NoId
  BY EnqueueShape
<1>2. Enqueue(s, id, fp, t, ttl).active = id
  BY EnqueueShape
<1>3. Enqueue(s, id, fp, t, ttl).revision = s.revision + 1
  BY EnqueueShape
<1> QED BY <1>1, <1>2, <1>3, StoreAssumption

(* Equal revisions show equal approvals, and the revision never moves back. *)
THEOREM RevisionIsFaithful == Spec => RevisionDetectsChange
<1>1. ASSUME Inv, [Next]_vars
      PROVE  /\ store'.revision >= store.revision
             /\ SnapshotContent(store)' = SnapshotContent(store)
                  <=> store'.revision = store.revision
  <2>1. Sound(store) /\ store.revision \in Nat
    BY <1>1 DEF Inv, TypeOK, StoreWellFormed, Sound, StoreType
  <2>2. ASSUME NEW id \in Ids, NEW fp \in Fingerprints,
               EnqueueOutcome(store, id, fp) = "Created",
               store' = Enqueue(store, id, fp, now, TTL)
        PROVE  /\ store'.revision = store.revision + 1
               /\ store.active = NoId /\ store'.active # NoId
    <3>1. now \in Nat
      BY <1>1 DEF Inv, TypeOK
    <3> QED BY <3>1, <2>1, <2>2, CreateFields, SpecAssumption
  <2>3. ASSUME NEW d \in Decisions, store.active # NoId,
               store' = Resolve(store, store.active, d)
        PROVE  /\ store'.revision = store.revision + 1
               /\ store.active # NoId /\ store'.active = NoId
    BY <2>1, <2>3, ResolveShape
  <2>4. ASSUME store'.active # store.active,
               store.active = NoId \/ store'.active = NoId
        PROVE  SnapshotContent(store)' # SnapshotContent(store)
    <3>1. SnapshotContent(store).active # SnapshotContent(store').active
      BY <2>4 DEF SnapshotContent
    <3> QED BY <3>1
  <2>5. store' = store => SnapshotContent(store)' = SnapshotContent(store)
    OBVIOUS
  <2> QED BY <1>1, <2>1, <2>2, <2>3, <2>4, <2>5, StoreSteps
<1>2. Inv /\ [Next]_vars =>
        [ /\ store'.revision >= store.revision
          /\ SnapshotContent(store)' = SnapshotContent(store)
               <=> store'.revision = store.revision ]_vars
  BY <1>1
<1> QED BY <1>2, InitInv, StepInv, PTL DEF Spec, RevisionDetectsChange

(* The store implements the ledger. *)
THEOREM StoreImplementsLedger == Spec => ImplementsLedger
<1>1. Init => Ledger!Init
  <2> SUFFICES ASSUME Init PROVE Ledger!Init
    OBVIOUS
  <2>1. store.active = NoId /\ store.cached_order = <<>>
    BY DEF Init, NewStore
  <2>2. LedgerWindow(store) = <<>>
    BY <2>1, EmptySeq DEF LedgerWindow
  <2> QED BY <2>1, <2>2 DEF Ledger!Init, PendingRequests
<1>2. Inv /\ [Next]_vars => [Ledger!Next]_(Ledger!ledgerVars)
  <2> SUFFICES ASSUME Inv, [Next]_vars
               PROVE  [Ledger!Next]_(Ledger!ledgerVars)
    OBVIOUS
  <2>1. Sound(store) /\ now \in Nat
    BY DEF Inv, TypeOK, StoreWellFormed, Sound
  <2>2. ASSUME NEW id \in Ids, NEW fp \in Fingerprints,
               EnqueueOutcome(store, id, fp) = "Created",
               store' = Enqueue(store, id, fp, now, TTL)
        PROVE  Ledger!Submit(id, fp)
    BY <2>1, <2>2, EnqueueOnLedger, SpecAssumption
    DEF Ledger!Submit, Ledger!Request, Ledger!Remembered
  <2>3. ASSUME NEW d \in Decisions, store.active # NoId,
               store' = Resolve(store, store.active, d)
        PROVE  Ledger!Settle(d)
    <3> DEFINE req == [id |-> store.active,
                       fingerprint |-> store.by_id[store.active].fingerprint]
               log == Append(LedgerWindow(store), Ledger!Entry(req, d))
    <3>1. Ledger!Entry(req, d) =
            [id |-> req.id, fingerprint |-> req.fingerprint, decision |-> d]
      BY DEF Ledger!Entry
    <3>2. /\ PendingRequests(store) = {req}
          /\ PendingRequests(store') = {}
          /\ LedgerWindow(store') = Survivors(log)
      BY <2>1, <2>3, <3>1, ResolveOnLedger
    <3>3. Survivors(log) = Ledger!Recent(log)
      BY DEF Survivors, Excess, Ledger!Recent
    <3> QED BY <3>2, <3>3 DEF Ledger!Settle
  <2>4. store' = store => UNCHANGED Ledger!ledgerVars
    BY DEF Ledger!ledgerVars
  <2> QED BY <2>2, <2>3, <2>4, StoreSteps DEF Ledger!Next, Decisions, UserDecisions
<1> QED BY <1>1, <1>2, InitInv, StepInv, PTL DEF Spec, ImplementsLedger, Ledger!Spec

--------------------------------------------------------------------------------
(* Induction, FlattenSeq, and the first element of a sequence. *)

Below == {p \in Nat \X Nat : p[1] < p[2]}

(* A set of natural numbers that is not empty has a least element. *)
LEMMA Least ==
  ASSUME NEW D \in SUBSET Nat, D # {}
  PROVE  \E x \in D : \A y \in D : x <= y
<1>1. PICK x \in D : \A y \in D : <<y, x>> \notin Below
  <2>1. IsWellFoundedOn(Below, Nat)
    BY NatLessThanWellFounded, Zenon DEF OpToRel, Below
  <2> QED BY <2>1, WFMin
<1>2. ASSUME NEW y \in D PROVE x <= y
  <2>1. x \in Nat /\ y \in Nat /\ <<y, x>> \notin Below
    BY <1>1
  <2> QED BY <2>1 DEF Below
<1> QED BY <1>2

(* Induction over the natural numbers, for a set of them: there is no least one
   outside. *)
LEMMA Induction ==
  ASSUME NEW T \in SUBSET Nat, 0 \in T, \A n \in T : n + 1 \in T
  PROVE  T = Nat
<1> SUFFICES ASSUME Nat \ T # {} PROVE FALSE
  OBVIOUS
<1>1. PICK x \in Nat \ T : \A y \in Nat \ T : x <= y
  BY Least
<1>2. x # 0 /\ x - 1 \in Nat
  BY <1>1
<1>3. x - 1 \notin T
  BY <1>1, <1>2
<1> QED BY <1>1, <1>2, <1>3

(* The function by which FlattenSeq is defined, on the first n sequences. *)
Joined(f, ss, i) == IF i = 1 THEN ss[i] ELSE f[i-1] \o ss[i]
Flattens(f, ss, n) == DOMAIN f = 1..n /\ \A i \in 1..n : f[i] = Joined(f, ss, i)

(* There is such a function for every length. *)
LEMMA FlattenExists ==
  ASSUME NEW ss, NEW n \in Nat
  PROVE  \E f : f = [i \in 1..n |-> Joined(f, ss, i)]
<1> DEFINE T == {m \in Nat : \E f : f = [i \in 1..m |-> f[i]] /\ Flattens(f, ss, m)}
<1>1. 0 \in T
  <2> DEFINE f == [i \in 1..0 |-> 0]
  <2>1. f = [i \in 1..0 |-> f[i]] /\ Flattens(f, ss, 0)
    BY DEF Flattens
  <2> QED BY <2>1
<1>2. ASSUME NEW m \in T PROVE m + 1 \in T
  <2>1. PICK f : Flattens(f, ss, m)
    OBVIOUS
  <2> DEFINE g == [i \in 1..m+1 |-> Joined(f, ss, i)]
  <2>2. ASSUME NEW i \in 1..m PROVE g[i] = f[i]
    BY <2>1 DEF Flattens
  <2>3. ASSUME NEW i \in 1..m+1 PROVE g[i] = Joined(g, ss, i)
    <3>1. i # 1 => i - 1 \in 1..m
      OBVIOUS
    <3> QED BY <2>2, <3>1 DEF Joined
  <2>4. Flattens(g, ss, m + 1)
    BY <2>3 DEF Flattens
  <2>5. g = [i \in 1..m+1 |-> g[i]]
    OBVIOUS
  <2> QED BY <2>4, <2>5
<1> HIDE DEF T
<1>3. T = Nat
  BY <1>1, <1>2, Induction DEF T
<1>4. PICK f : f = [i \in 1..n |-> f[i]] /\ Flattens(f, ss, n)
  BY <1>3 DEF T
<1> QED BY <1>4 DEF Flattens

(* So FlattenSeq is the last value of one. *)
LEMMA FlattenIs ==
  ASSUME NEW S, NEW ss \in Seq(S), ss # <<>>
  PROVE  \E f : Flattens(f, ss, Len(ss)) /\ FlattenSeq(ss) = f[Len(ss)]
<1> DEFINE f == CHOOSE g : g = [i \in 1..Len(ss) |-> Joined(g, ss, i)]
<1>1. Len(ss) \in Nat \ {0}
  OBVIOUS
<1>2. f = [i \in 1..Len(ss) |-> Joined(f, ss, i)]
  BY <1>1, FlattenExists
<1>3. FlattenSeq(ss) = f[Len(ss)]
  BY <1>1, Zenon DEF FlattenSeq, Joined
<1> HIDE DEF f
<1>4. Flattens(f, ss, Len(ss))
  BY <1>2 DEF Flattens
<1> QED BY <1>3, <1>4

(* Its first value, and each from the one before. *)
LEMMA FlattensFrom ==
  ASSUME NEW f, NEW ss, NEW n \in Nat, Flattens(f, ss, n)
  PROVE  /\ n # 0 => f[1] = ss[1]
         /\ \A i \in 1..n : i + 1 \in 1..n => f[i+1] = f[i] \o ss[i+1]
<1>1. ASSUME NEW i \in 1..n PROVE f[i] = Joined(f, ss, i)
  BY DEF Flattens
<1>2. n # 0 => f[1] = ss[1]
  <2>1. n # 0 => 1 \in 1..n
    OBVIOUS
  <2> QED BY <1>1, <2>1, Zenon DEF Joined
<1>3. ASSUME NEW i \in 1..n, i + 1 \in 1..n PROVE f[i+1] = f[i] \o ss[i+1]
  <2>1. i + 1 # 1 /\ (i + 1) - 1 = i
    OBVIOUS
  <2>2. f[i+1] = Joined(f, ss, i+1)
    BY <1>1, <1>3
  <2>3. Joined(f, ss, i+1) = f[(i+1)-1] \o ss[i+1]
    BY <2>1, Zenon DEF Joined
  <2> QED BY <2>1, <2>2, <2>3, Zenon
<1> QED BY <1>2, <1>3

(* Of nothing, and of what begins with a sequence. *)
LEMMA FlattenEmpty == FlattenSeq(<<>>) = <<>>
BY Zenon, Len(<<>>) = 0 DEF FlattenSeq

(* What begins with a sequence, and that what is flattened is one. *)
LEMMA FlattenCons ==
  ASSUME NEW S, NEW a \in Seq(S), NEW ss \in Seq(Seq(S))
  PROVE  /\ FlattenSeq(ss) \in Seq(S)
         /\ FlattenSeq(<<a>> \o ss) = a \o FlattenSeq(ss)
<1> DEFINE rr == <<a>> \o ss
           n == Len(ss)
<1>1. /\ n \in Nat /\ rr \in Seq(Seq(S)) /\ rr # <<>> /\ Len(rr) = n + 1 /\ rr[1] = a
      /\ \A i \in 1..n : ss[i] \in Seq(S) /\ rr[i+1] = ss[i]
  OBVIOUS
<1>2. PICK g : Flattens(g, rr, n + 1) /\ FlattenSeq(rr) = g[n + 1]
  BY <1>1, FlattenIs
<1> HIDE DEF rr, n
<1>3. /\ g[1] = a
      /\ \A i \in 1..n+1 : i + 1 \in 1..n+1 => g[i+1] = g[i] \o rr[i+1]
  <2>1. n + 1 \in Nat /\ n + 1 # 0
    BY <1>1
  <2>2. /\ n + 1 # 0 => g[1] = rr[1]
        /\ \A i \in 1..n+1 : i + 1 \in 1..n+1 => g[i+1] = g[i] \o rr[i+1]
    BY <1>2, <2>1, FlattensFrom
  <2> QED BY <1>1, <2>1, <2>2, Zenon
<1>4. CASE ss = <<>>
  <2>1. n = 0
    BY <1>4 DEF n
  <2>2. FlattenSeq(rr) = a /\ FlattenSeq(ss) = <<>>
    BY <1>2, <1>3, <1>4, <2>1, FlattenEmpty
  <2> QED BY <2>2 DEF rr
<1>5. CASE ss # <<>>
  <2>1. PICK f : Flattens(f, ss, n) /\ FlattenSeq(ss) = f[n]
    BY <1>5, FlattenIs DEF n
  <2>2. n # 0 /\ n \in Nat /\ n \in 1..n /\ n - 1 \in Nat /\ (n - 1) + 1 = n
    BY <1>1, <1>5 DEF n
  <2>3. f[1] = ss[1] /\ \A i \in 1..n : i + 1 \in 1..n => f[i+1] = f[i] \o ss[i+1]
    BY <2>1, <2>2, FlattensFrom
  <2> DEFINE Agrees(i) == f[i] \in Seq(S) /\ g[i+1] = a \o f[i]
             T == {i \in Nat : i + 1 \in 1..n => Agrees(i + 1)}
  <2>4. Agrees(1)
    <3>1. 1 \in 1..n /\ 1 \in 1..n+1 /\ 1 + 1 \in 1..n+1
      BY <2>2
    <3>2. ss[1] \in Seq(S) /\ rr[1+1] = ss[1]
      BY <1>1, <3>1
    <3>3. g[1+1] = g[1] \o rr[1+1]
      BY <1>3, <3>1
    <3> QED BY <1>3, <2>3, <3>2, <3>3, Zenon
  <2>5. ASSUME NEW i \in 1..n, i + 1 \in 1..n, Agrees(i) PROVE Agrees(i + 1)
    <3>1. i + 1 \in 1..n+1 /\ (i + 1) + 1 \in 1..n+1
      BY <2>2, <2>5
    <3>2. f[i+1] = f[i] \o ss[i+1]
      BY <2>3, <2>5
    <3>3. g[(i+1)+1] = g[i+1] \o rr[(i+1)+1]
      BY <1>3, <3>1
    <3>4. ss[i+1] \in Seq(S) /\ rr[(i+1)+1] = ss[i+1]
      BY <1>1, <2>5
    <3> DEFINE u == f[i]
               v == ss[i+1]
    <3>5. u \in Seq(S) /\ v \in Seq(S)
      BY <2>5, <3>4, Zenon
    <3>6. (a \o u) \o v = a \o (u \o v) /\ u \o v \in Seq(S)
      <4> HIDE DEF u, v
      <4> QED BY <3>5, ConcatAssociative, ConcatProperties
    <3> QED BY <2>5, <3>2, <3>3, <3>4, <3>6, Zenon
  <2> HIDE DEF Agrees
  <2>6. T = Nat
    <3>1. 0 \in T
      <4>1. 0 + 1 = 1
        OBVIOUS
      <4> QED BY <2>4, <4>1
    <3>2. ASSUME NEW i \in T PROVE i + 1 \in T
      <4>1. i \in Nat /\ i + 1 \in Nat
        OBVIOUS
      <4>2. (i + 1) + 1 \in 1..n => i + 1 \in 1..n
        BY <2>2, <4>1
      <4> QED BY <2>5, <4>1, <4>2
    <3>3. T \in SUBSET Nat
      OBVIOUS
    <3> HIDE DEF T
    <3> QED BY <3>1, <3>2, <3>3, Induction
  <2>7. Agrees(n)
    BY <2>2, <2>6
  <2> QED BY <1>2, <2>1, <2>7, Zenon DEF Agrees, rr
<1> QED BY <1>4, <1>5

(* A sequence with a first element. *)
LEMMA ConsIs ==
  ASSUME NEW Y, NEW r \in Seq(Y), NEW e \in Y, NEW q \in Seq(Y), Len(q) = Len(r) + 1,
         q[1] = e, \A i \in 1..Len(r) : q[i+1] = r[i]
  PROVE  q = <<e>> \o r
<1> DEFINE u == <<e>> \o r
<1>1. PICK n \in Nat : n = Len(r)
  OBVIOUS
<1>2. u \in Seq(Y) /\ Len(u) = n + 1 /\ u[1] = e /\ \A i \in 1..n : u[i+1] = r[i]
  BY <1>1
<1>3. ASSUME NEW i \in 1..Len(q) PROVE q[i] = u[i]
  <2>1. CASE i = 1
    BY <1>2, <2>1
  <2>2. CASE i # 1
    <3>1. i - 1 \in 1..n /\ i = (i - 1) + 1
      BY <1>1, <2>2
    <3> QED BY <1>1, <1>2, <3>1
  <2> QED BY <2>1, <2>2
<1> HIDE DEF u
<1>4. q = u
  BY <1>1, <1>2, <1>3, SeqEqual
<1> QED BY <1>4 DEF u

(* The head of a sequence and what follows it. *)
LEMMA SeqParts ==
  ASSUME NEW Y, NEW s \in Seq(Y)
  PROVE  /\ Len(s) \in Nat /\ (Len(s) = 0 <=> s = <<>>)
         /\ s # <<>> => /\ s[1] \in Y /\ Tail(s) \in Seq(Y) /\ Len(s) = Len(Tail(s)) + 1
                        /\ s = <<s[1]>> \o Tail(s)
                        /\ \A i \in 1..Len(Tail(s)) : s[i+1] = Tail(s)[i]
<1>1. Len(s) \in Nat /\ (Len(s) = 0 <=> s = <<>>)
  OBVIOUS
<1>2. ASSUME s # <<>>
      PROVE  /\ s[1] \in Y /\ Tail(s) \in Seq(Y) /\ Len(s) = Len(Tail(s)) + 1
             /\ s = <<s[1]>> \o Tail(s)
             /\ \A i \in 1..Len(Tail(s)) : s[i+1] = Tail(s)[i]
  BY <1>2
<1> QED BY <1>1, <1>2

--------------------------------------------------------------------------------
(* The escapes of write_canonical. *)

(* The control characters that Escape writes as hexadecimal digits, and what Escape
   writes. *)
Control == {c \in 0..31 : c \notin {Newline, Return, Tab}}

(* The escape of each kind of character. *)
LEMMA EscapeOf ==
  ASSUME NEW c \in Nat
  PROVE  /\ c \in {34, 92} => Escape(c) = <<92, c>>
         /\ c = 10 => Escape(c) = <<92, 110>>
         /\ c = 13 => Escape(c) = <<92, 114>>
         /\ c = 9 => Escape(c) = <<92, 116>>
         /\ c \in Control =>
              Escape(c) = <<92, 117, 48, 48, HexDigit(c \div 16), HexDigit(c % 16)>>
         /\ c \notin Control \cup {9, 10, 13, 34, 92} => Escape(c) = <<c>>
<1> USE DEF Control, Escape, DoubleQuote, Backslash, Newline, Return, Tab
<1>1. c \in {34, 92} => Escape(c) = <<92, c>>
  OBVIOUS
<1>2. c = 10 => Escape(c) = <<92, 110>>
  OBVIOUS
<1>3. c = 13 => Escape(c) = <<92, 114>>
  OBVIOUS
<1>4. c = 9 => Escape(c) = <<92, 116>>
  OBVIOUS
<1>5. c \in Control => Escape(c) = <<92, 117, 48, 48, HexDigit(c \div 16), HexDigit(c % 16)>>
  OBVIOUS
<1>6. c \notin Control \cup {9, 10, 13, 34, 92} => Escape(c) = <<c>>
  OBVIOUS
<1> QED BY <1>1, <1>2, <1>3, <1>4, <1>5, <1>6

(* What a text that begins with the escape of c reads. *)
Reads(w, c) ==
  /\ c \in {34, 92} => w[1] = 92 /\ w[2] = c
  /\ c = 10 => w[1] = 92 /\ w[2] = 110
  /\ c = 13 => w[1] = 92 /\ w[2] = 114
  /\ c = 9  => w[1] = 92 /\ w[2] = 116
  /\ c \in Control =>
       w[1] = 92 /\ w[2] = 117 /\ w[5] = HexDigit(c \div 16) /\ w[6] = HexDigit(c % 16)
  /\ c \notin Control \cup {9, 10, 13, 34, 92} => w[1] = c

(* No text that begins with an escape begins with a double quote. *)
LEMMA EscapeBegins ==
  ASSUME NEW c \in Nat, NEW x \in Seq(Nat), NEW w, w = Escape(c) \o x
  PROVE  /\ Escape(c) \in Seq(Nat) /\ w \in Seq(Nat)
         /\ w # <<>> /\ w[1] # DoubleQuote /\ Reads(w, c)
<1>1. ASSUME NEW e \in Seq(Nat), e # <<>>, w = e \o x
      PROVE  w \in Seq(Nat) /\ w # <<>> /\ \A i \in 1..Len(e) : w[i] = e[i]
  BY <1>1
<1>2. CASE c \in {9, 10, 13, 34, 92}
  <2>1. c \notin Control
    BY <1>2 DEF Control, Newline, Return, Tab
  <2>2. PICK d \in Nat : /\ Escape(c) = <<92, d>>
                         /\ c \in {34, 92} => d = c
                         /\ c = 10 => d = 110
                         /\ c = 13 => d = 114
                         /\ c = 9 => d = 116
    BY <1>2, EscapeOf
  <2>3. <<92, d>> \in Seq(Nat) /\ <<92, d>> # <<>> /\ Len(<<92, d>>) = 2
        /\ <<92, d>>[1] = 92 /\ <<92, d>>[2] = d
    BY <2>2
  <2>4. w \in Seq(Nat) /\ w # <<>> /\ w[1] = 92 /\ w[2] = d
    BY <1>1, <2>2, <2>3
  <2> QED BY <1>2, <2>1, <2>2, <2>3, <2>4 DEF Reads, DoubleQuote
<1>3. CASE c \in Control
  <2>1. c \notin {9, 10, 13, 34, 92} /\ c \in 0..31
    BY <1>3 DEF Control, Newline, Return, Tab
  <2>2. PICK h \in Nat, l \in Nat : h = HexDigit(c \div 16) /\ l = HexDigit(c % 16)
    BY DEF HexDigit
  <2> DEFINE e == <<92, 117, 48, 48, h, l>>
  <2>3. Escape(c) = e
    BY <1>3, <2>2, EscapeOf
  <2>4. e \in Seq(Nat) /\ e # <<>> /\ Len(e) = 6 /\ e[1] = 92 /\ e[2] = 117 /\ e[5] = h /\ e[6] = l
    OBVIOUS
  <2> HIDE DEF e
  <2>5. w \in Seq(Nat) /\ w # <<>> /\ \A i \in 1..6 : w[i] = e[i]
    <3>1. w \in Seq(Nat) /\ w # <<>> /\ \A i \in 1..Len(e) : w[i] = e[i]
      BY <1>1, <2>3, <2>4, Zenon
    <3> QED BY <2>4, <3>1, Zenon
  <2>6. /\ w[1] = 92 /\ w[2] = 117
        /\ w[5] = HexDigit(c \div 16) /\ w[6] = HexDigit(c % 16)
    <3>1. 1 \in 1..6 /\ 2 \in 1..6 /\ 5 \in 1..6 /\ 6 \in 1..6
      OBVIOUS
    <3>2. w[1] = e[1] /\ w[2] = e[2] /\ w[5] = e[5] /\ w[6] = e[6]
      BY <2>5, <3>1, Zenon
    <3> QED BY <2>2, <2>4, <3>2, Zenon
  <2>7. Reads(w, c)
    BY <1>3, <2>1, <2>6 DEF Reads
  <2> QED BY <2>3, <2>4, <2>5, <2>6, <2>7 DEF DoubleQuote
<1>4. CASE c \notin Control \cup {9, 10, 13, 34, 92}
  <2>1. Escape(c) = <<c>>
    BY <1>4, EscapeOf
  <2>2. <<c>> \in Seq(Nat) /\ <<c>> # <<>> /\ Len(<<c>>) = 1 /\ <<c>>[1] = c
    OBVIOUS
  <2>3. w \in Seq(Nat) /\ w # <<>> /\ w[1] = c
    BY <1>1, <2>1, <2>2
  <2> QED BY <1>4, <2>1, <2>2, <2>3 DEF Reads, DoubleQuote
<1> QED BY <1>2, <1>3, <1>4

(* Escapes are a prefix code: no two texts that begin with different ones are equal. *)
LEMMA EscapePrefixFree ==
  ASSUME NEW c \in Nat, NEW d \in Nat, NEW x \in Seq(Nat), NEW y \in Seq(Nat),
         Escape(c) \o x = Escape(d) \o y
  PROVE  c = d
<1>1. PICK w : w = Escape(c) \o x /\ w = Escape(d) \o y
  OBVIOUS
<1>2. Reads(w, c) /\ Reads(w, d)
  BY <1>1, EscapeBegins
<1>3. CASE c \in Control /\ d \in Control
  <2>1. HexDigit(c \div 16) = HexDigit(d \div 16) /\ HexDigit(c % 16) = HexDigit(d % 16)
    BY <1>2, <1>3 DEF Reads
  <2>2. c \in 0..31 /\ d \in 0..31
    BY <1>3 DEF Control
  <2>3. c \div 16 = d \div 16 /\ c % 16 = d % 16
    BY <2>1, <2>2 DEF HexDigit
  <2> QED BY <2>2, <2>3
<1>4. CASE ~ (c \in Control /\ d \in Control)
  <2>1. c \in Control => c \notin {9, 10, 13, 34, 92}
    BY DEF Control, Newline, Return, Tab
  <2>2. d \in Control => d \notin {9, 10, 13, 34, 92}
    BY DEF Control, Newline, Return, Tab
  <2> QED BY <1>2, <1>4, <2>1, <2>2 DEF Reads
<1> QED BY <1>3, <1>4

(* The texts of this section: sequences of codes, of any size. *)
Quote == <<DoubleQuote>>

(* The lengths that fit u32, and the texts with one. *)
Lengths == {n \in Nat : n < 256 * 256 * 256 * 256}
Measured == {t \in Text : Len(t) \in Lengths}

(* Four bytes tell such lengths apart. *)
LEMMA BigEndianIsInjective ==
  ASSUME NEW m \in Lengths, NEW n \in Lengths, BigEndian(m) = BigEndian(n)
  PROVE  m = n
<1>1. /\ (m \div 16777216) % 256 = (n \div 16777216) % 256
      /\ (m \div 65536) % 256 = (n \div 65536) % 256
      /\ (m \div 256) % 256 = (n \div 256) % 256
      /\ m % 256 = n % 256
  BY SMT DEF BigEndian
<1>2. m \in Nat /\ m < 256 * 256 * 256 * 256 /\ n \in Nat /\ n < 256 * 256 * 256 * 256
  BY DEF Lengths
<1> QED BY <1>1, <1>2, SMT

(* Concatenation, of which only these facts are used. *)
s ++ t == s \o t

(* Texts under concatenation. *)
LEMMA TextAlgebra ==
  /\ <<>> \in Text /\ Quote \in Text
  /\ \A s, t \in Text : s ++ t \in Text
  /\ \A s \in Text : <<>> ++ s = s /\ s ++ <<>> = s
  /\ \A s, t, u \in Text : (s ++ t) ++ u = s ++ (t ++ u)
  /\ \A s, t, u \in Text : s ++ t = s ++ u => t = u
<1>1. <<>> \in Seq(Nat) /\ Quote \in Seq(Nat)
  BY DEF Quote, DoubleQuote
<1>2. \A s, t \in Seq(Nat) : s \o t \in Seq(Nat) /\ <<>> \o s = s /\ s \o <<>> = s
  OBVIOUS
<1>3. \A s, t, u \in Seq(Nat) : s \o t = s \o u => t = u
  BY ConcatSimplifications
<1>4. \A s, t, u \in Seq(Nat) : (s \o t) \o u = s \o (t \o u)
  <2> SUFFICES ASSUME NEW s \in Seq(Nat), NEW t \in Seq(Nat), NEW u \in Seq(Nat)
               PROVE  (s \o t) \o u = s \o (t \o u)
    OBVIOUS
  <2> QED BY ConcatAssociative
<1> QED BY <1>1, <1>2, <1>3, <1>4 DEF Text, ++

--------------------------------------------------------------------------------
(* What is hashed. *)

(* Two texts of one length, and what follows them. *)
LEMMA Cut ==
  ASSUME NEW s \in Text, NEW t \in Text, NEW x \in Text, NEW y \in Text,
         Len(s) = Len(t), s ++ x = t ++ y
  PROVE  s = t /\ x = y
<1>1. ASSUME NEW i \in 1..Len(s) PROVE s[i] = t[i]
  <2>1. (s \o x)[i] = s[i] /\ (t \o y)[i] = t[i]
    BY DEF Text
  <2> QED BY <2>1 DEF ++
<1>2. s = t
  BY <1>1, SeqEqual DEF Text
<1> QED BY <1>2, TextAlgebra

(* A text that is preceded by its length ends where it says. *)
LEMMA WithLengthCuts ==
  ASSUME NEW s \in Measured, NEW t \in Measured, NEW x \in Text, NEW y \in Text,
         WithLength(s) ++ x = WithLength(t) ++ y
  PROVE  s = t /\ x = y
<1>1. /\ s \in Text /\ t \in Text
      /\ Len(s) \in Lengths /\ Len(t) \in Lengths
      /\ WithLength(s) = BigEndian(Len(s)) ++ s
      /\ WithLength(t) = BigEndian(Len(t)) ++ t
  BY DEF Measured, WithLength, ++
<1>2. ASSUME NEW n \in Lengths PROVE BigEndian(n) \in Text /\ Len(BigEndian(n)) = 4
  BY SMT DEF BigEndian, Text, Lengths
<1>3. PICK a \in Text, b \in Text : /\ a = BigEndian(Len(s)) /\ b = BigEndian(Len(t))
                                     /\ Len(a) = 4 /\ Len(b) = 4
  BY <1>1, <1>2
<1>4. a ++ (s ++ x) = b ++ (t ++ y) /\ s ++ x \in Text /\ t ++ y \in Text
  BY <1>1, <1>3, TextAlgebra
<1>5. a = b /\ s ++ x = t ++ y
  BY <1>3, <1>4, Cut
<1>6. Len(s) = Len(t)
  BY <1>1, <1>3, <1>5, BigEndianIsInjective
<1> QED BY <1>1, <1>5, <1>6, Cut

(* What is hashed, grouped from the right. *)
LEMMA FrameIs ==
  ASSUME NEW s \in Measured, NEW t \in Measured, NEW u \in Measured
  PROVE  /\ Frame(s, t, u) = WithLength(s) ++ (WithLength(t) ++ (WithLength(u) ++ <<>>))
         /\ WithLength(t) ++ (WithLength(u) ++ <<>>) \in Text
         /\ WithLength(u) ++ <<>> \in Text /\ <<>> \in Text
<1>1. ASSUME NEW v \in Measured PROVE WithLength(v) \in Text
  <2>1. v \in Seq(Nat) /\ Len(v) \in Nat
    BY DEF Measured, Text
  <2>2. BigEndian(Len(v)) \in Seq(Nat)
    BY <2>1, SMT DEF BigEndian
  <2> QED BY <2>1, <2>2 DEF WithLength, Text
<1>2. Frame(s, t, u) = (WithLength(s) ++ WithLength(t)) ++ WithLength(u)
  BY Zenon DEF Frame, ++
<1>3. PICK a \in Text, b \in Text, c \in Text :
        a = WithLength(s) /\ b = WithLength(t) /\ c = WithLength(u)
  BY <1>1
<1>4. (a ++ b) ++ c = a ++ (b ++ (c ++ <<>>)) /\ b ++ (c ++ <<>>) \in Text /\ c ++ <<>> \in Text
  BY TextAlgebra
<1> QED BY <1>2, <1>3, <1>4, TextAlgebra

(* What compute_fingerprint hashes determines the session, the tool and the input it
   is made of: no boundary between them can shift, whatever bytes they hold, as long
   as their lengths fit the u32 they are written as. *)
THEOREM FramesAreInjective ==
  ASSUME NEW s1 \in Measured, NEW t1 \in Measured, NEW u1 \in Measured,
         NEW s2 \in Measured, NEW t2 \in Measured, NEW u2 \in Measured,
         Frame(s1, t1, u1) = Frame(s2, t2, u2)
  PROVE  s1 = s2 /\ t1 = t2 /\ u1 = u2
<1>1. PICK a1 \in Text, a2 \in Text, b1 \in Text, b2 \in Text, e \in Text :
        /\ b1 = WithLength(u1) ++ e /\ b2 = WithLength(u2) ++ e
        /\ a1 = WithLength(t1) ++ b1 /\ a2 = WithLength(t2) ++ b2
        /\ WithLength(s1) ++ a1 = WithLength(s2) ++ a2
  <2>1. /\ Frame(s1, t1, u1) = WithLength(s1) ++ (WithLength(t1) ++ (WithLength(u1) ++ <<>>))
        /\ WithLength(t1) ++ (WithLength(u1) ++ <<>>) \in Text
        /\ WithLength(u1) ++ <<>> \in Text /\ <<>> \in Text
    BY FrameIs
  <2>2. /\ Frame(s2, t2, u2) = WithLength(s2) ++ (WithLength(t2) ++ (WithLength(u2) ++ <<>>))
        /\ WithLength(t2) ++ (WithLength(u2) ++ <<>>) \in Text
        /\ WithLength(u2) ++ <<>> \in Text
    BY FrameIs
  <2> QED BY <2>1, <2>2
<1>2. s1 = s2 /\ a1 = a2
  BY <1>1, WithLengthCuts
<1>3. t1 = t2 /\ b1 = b2
  <2>1. WithLength(t1) ++ b1 = WithLength(t2) ++ b2
    BY <1>1, <1>2
  <2> QED BY <2>1, WithLengthCuts
<1>4. u1 = u2
  <2>1. WithLength(u1) ++ e = WithLength(u2) ++ e
    BY <1>1, <1>3
  <2> QED BY <2>1, WithLengthCuts
<1> QED BY <1>2, <1>3, <1>4

--------------------------------------------------------------------------------
(* The strings of canonical JSON. *)
Escapes(s) == [i \in DOMAIN s |-> Escape(s[i])]
Body(s) == FlattenSeq(Escapes(s))

(* The first code of a text and what follows it. *)
LEMMA TextParts ==
  ASSUME NEW s \in Text
  PROVE  /\ Len(s) \in Nat
         /\ Len(s) = 0 <=> s = <<>>
         /\ s # <<>> => /\ s[1] \in Nat /\ Tail(s) \in Text /\ Len(Tail(s)) + 1 = Len(s)
                        /\ s = <<s[1]>> \o Tail(s)
                        /\ \A i \in 1..Len(Tail(s)) : Tail(s)[i] = s[i+1]
<1>1. s \in Seq(Nat)
  BY DEF Text
<1>2. Len(s) \in Nat /\ (Len(s) = 0 <=> s = <<>>)
  BY <1>1
<1>3. ASSUME s # <<>>
      PROVE  /\ s[1] \in Nat /\ Tail(s) \in Seq(Nat) /\ Len(Tail(s)) + 1 = Len(s)
             /\ s = <<s[1]>> \o Tail(s)
             /\ \A i \in 1..Len(Tail(s)) : Tail(s)[i] = s[i+1]
  BY <1>1, <1>3
<1> QED BY <1>2, <1>3 DEF Text

(* The escapes of a text, and the body of its quotation, one by one. *)
LEMMA EscapesOfText ==
  ASSUME NEW s \in Text
  PROVE  Escapes(s) \in Seq(Text) /\ Len(Escapes(s)) = Len(s)
<1>1. s \in Seq(Nat) /\ DOMAIN s = 1..Len(s) /\ Len(s) \in Nat
  BY DEF Text
<1>2. ASSUME NEW i \in 1..Len(s) PROVE Escape(s[i]) \in Text
  <2>1. s[i] \in Nat
    BY <1>1
  <2> QED BY <2>1, EscapeBegins, <<>> \in Seq(Nat) DEF Text
<1>3. Escapes(s) = [i \in 1..Len(s) |-> Escape(s[i])]
  BY <1>1 DEF Escapes
<1> QED BY <1>1, <1>2, <1>3

(* Those of a text, from the front. *)
LEMMA EscapesCons ==
  ASSUME NEW s \in Text, s # <<>>
  PROVE  Escapes(s) = <<Escape(s[1])>> \o Escapes(Tail(s))
<1>1. /\ s[1] \in Nat /\ Tail(s) \in Text /\ Len(s) = Len(Tail(s)) + 1
      /\ \A i \in 1..Len(Tail(s)) : s[i+1] = Tail(s)[i]
  BY TextParts
<1>2. PICK e \in Text, r \in Seq(Text), q \in Seq(Text) :
        e = Escape(s[1]) /\ r = Escapes(Tail(s)) /\ q = Escapes(s)
  <2>1. Escape(s[1]) \in Text
    BY <1>1, EscapeBegins, <<>> \in Seq(Nat) DEF Text
  <2> QED BY <1>1, <2>1, EscapesOfText
<1>3. Len(r) = Len(Tail(s)) /\ Len(q) = Len(r) + 1
  BY <1>1, <1>2, EscapesOfText
<1>4. q[1] = e
  <2>1. 1 \in DOMAIN s
    BY <1>1 DEF Text
  <2> QED BY <1>2, <2>1 DEF Escapes
<1>5. ASSUME NEW i \in 1..Len(r) PROVE q[i+1] = r[i]
  <2>1. i + 1 \in DOMAIN s /\ i \in DOMAIN Tail(s) /\ s[i+1] = Tail(s)[i]
    BY <1>1, <1>3 DEF Text
  <2> QED BY <1>2, <2>1 DEF Escapes
<1>6. q = <<e>> \o r
  BY <1>3, <1>4, <1>5, ConsIs
<1> QED BY <1>2, <1>6

(* The body of a string, from the front. *)
LEMMA BodyCons ==
  ASSUME NEW s \in Text
  PROVE  /\ Body(s) \in Text
         /\ s = <<>> => Body(s) = <<>>
         /\ s # <<>> => /\ Escape(s[1]) \in Text /\ Body(Tail(s)) \in Text
                        /\ Body(s) = Escape(s[1]) ++ Body(Tail(s))
<1>1. ASSUME NEW a \in Text, NEW t \in Text
      PROVE  /\ Body(t) \in Text
             /\ FlattenSeq(<<a>> \o Escapes(t)) = a ++ Body(t)
  <2>1. PICK r \in Seq(Seq(Nat)) : r = Escapes(t)
    BY EscapesOfText DEF Text
  <2>2. FlattenSeq(r) \in Seq(Nat) /\ FlattenSeq(<<a>> \o r) = a \o FlattenSeq(r)
    BY FlattenCons DEF Text
  <2> QED BY <2>1, <2>2 DEF Body, Text, ++
<1>2. Body(s) \in Text
  BY <1>1
<1>3. s = <<>> => Body(s) = <<>>
  <2>1. Escapes(<<>>) = <<>>
    BY DEF Escapes
  <2> QED BY <2>1, FlattenEmpty DEF Body
<1>4. ASSUME s # <<>>
      PROVE  /\ Escape(s[1]) \in Text /\ Body(Tail(s)) \in Text
             /\ Body(s) = Escape(s[1]) ++ Body(Tail(s))
  <2>1. s[1] \in Nat /\ Tail(s) \in Text
    BY <1>4, TextParts
  <2>2. Escape(s[1]) \in Text
    BY <2>1, EscapeBegins, <<>> \in Seq(Nat) DEF Text
  <2>3. Escapes(s) = <<Escape(s[1])>> \o Escapes(Tail(s))
    BY <1>4, EscapesCons
  <2> QED BY <1>1, <2>1, <2>2, <2>3 DEF Body
<1> QED BY <1>2, <1>3, <1>4

(* What follows the opening quote. *)
Rest(s, x) == Body(s) ++ (Quote ++ x)

(* A quoted string and what follows it. *)
LEMMA QuotedIs ==
  ASSUME NEW s \in Text, NEW x \in Text
  PROVE  Quoted(s) ++ x = Quote ++ Rest(s, x) /\ Rest(s, x) \in Text
<1>1. Quoted(s) = (Quote ++ Body(s)) ++ Quote
  BY Zenon DEF Quoted, Body, Escapes, Quote, ++
<1>2. Body(s) \in Text
  BY BodyCons
<1> QED BY <1>1, <1>2, TextAlgebra DEF Rest

(* It begins with the quote that closes, or with an escape. *)
LEMMA RestParts ==
  ASSUME NEW s \in Text, NEW x \in Text
  PROVE  /\ s = <<>> => Rest(s, x) = Quote ++ x /\ Rest(s, x)[1] = DoubleQuote
         /\ s # <<>> => /\ Rest(s, x) = Escape(s[1]) ++ Rest(Tail(s), x)
                        /\ Rest(s, x)[1] # DoubleQuote
                        /\ Escape(s[1]) \in Text /\ Rest(Tail(s), x) \in Text
<1>1. Quote ++ x \in Text /\ (Quote ++ x)[1] = DoubleQuote
  BY DEF Text, Quote, DoubleQuote, ++
<1>2. CASE s = <<>>
  BY <1>1, <1>2, BodyCons, TextAlgebra DEF Rest
<1>3. CASE s # <<>>
  <2>1. /\ Escape(s[1]) \in Text /\ Body(Tail(s)) \in Text
        /\ Body(s) = Escape(s[1]) ++ Body(Tail(s)) /\ s[1] \in Nat
    BY <1>3, BodyCons, TextParts
  <2>2. Rest(Tail(s), x) \in Text
    BY <1>1, <2>1, TextAlgebra DEF Rest
  <2>3. Rest(s, x) = Escape(s[1]) ++ Rest(Tail(s), x)
    BY <1>1, <2>1, TextAlgebra DEF Rest
  <2>4. Rest(s, x)[1] # DoubleQuote
    BY <2>1, <2>2, <2>3, EscapeBegins DEF Text, ++
  <2> QED BY <1>3, <2>1, <2>2, <2>3, <2>4
<1> QED BY <1>2, <1>3

(* A string ends at its closing quote, and its characters can be read off one by one. *)
EndsAt(n) ==
  \A s, t, x, y \in Text :
    Len(s) = n /\ Rest(s, x) = Rest(t, y) => s = t /\ x = y

(* It does when it is empty, and when it does without its first character. *)
LEMMA EmptyEnds == EndsAt(0)
<1> SUFFICES ASSUME NEW s \in Text, NEW t \in Text, NEW x \in Text, NEW y \in Text,
                    Len(s) = 0, Rest(s, x) = Rest(t, y)
             PROVE  s = t /\ x = y
  BY DEF EndsAt
<1>1. s = <<>>
  BY TextParts
<1>2. Rest(s, x) = Quote ++ x /\ Rest(s, x)[1] = DoubleQuote
  BY <1>1, RestParts
<1>3. t = <<>>
  BY <1>2, RestParts
<1>4. Rest(t, y) = Quote ++ y
  BY <1>3, RestParts
<1> QED BY <1>1, <1>2, <1>3, <1>4, TextAlgebra

(* One more character: both strings go on with it, or both have ended. *)
LEMMA NextEnds ==
  ASSUME NEW n \in Nat, EndsAt(n)
  PROVE  EndsAt(n + 1)
<1> SUFFICES ASSUME NEW s \in Text, NEW t \in Text, NEW x \in Text, NEW y \in Text,
                    Len(s) = n + 1, Rest(s, x) = Rest(t, y)
             PROVE  s = t /\ x = y
  BY DEF EndsAt
<1>1. s # <<>>
  BY TextParts
<1>2. t # <<>>
  BY <1>1, RestParts
<1>3. PICK c \in Nat, a \in Text : /\ c = s[1] /\ a = Tail(s) /\ s = <<c>> \o a /\ Len(a) = n
                                    /\ Rest(s, x) = Escape(c) ++ Rest(a, x)
                                    /\ Escape(c) \in Text /\ Rest(a, x) \in Text
  <2>1. s[1] \in Nat /\ Tail(s) \in Text /\ Len(Tail(s)) + 1 = Len(s)
        /\ s = <<s[1]>> \o Tail(s) /\ Len(Tail(s)) \in Nat
    BY <1>1, TextParts
  <2>2. Len(Tail(s)) = n
    BY <2>1
  <2> QED BY <1>1, <2>1, <2>2, RestParts
<1>4. PICK d \in Nat, b \in Text : /\ d = t[1] /\ b = Tail(t) /\ t = <<d>> \o b
                                    /\ Rest(t, y) = Escape(d) ++ Rest(b, y)
                                    /\ Rest(b, y) \in Text
  <2>1. t[1] \in Nat /\ Tail(t) \in Text /\ t = <<t[1]>> \o Tail(t)
    BY <1>2, TextParts
  <2> QED BY <1>2, <2>1, RestParts
<1>5. PICK p \in Text, q \in Text : p = Rest(a, x) /\ q = Rest(b, y)
  BY <1>3, <1>4
<1>6. Escape(c) ++ p = Escape(d) ++ q
  BY <1>3, <1>4, <1>5
<1>7. c = d
  BY <1>6, EscapePrefixFree DEF Text, ++
<1>8. p = q
  BY <1>3, <1>6, <1>7, TextAlgebra
<1>9. a = b /\ x = y
  <2>1. Len(a) = n /\ Rest(a, x) = Rest(b, y)
    BY <1>3, <1>5, <1>8
  <2> QED BY <2>1 DEF EndsAt
<1> QED BY <1>3, <1>4, <1>7, <1>9

(* However the canonical JSON goes on after a string, where the string ends and what
   it says can be read off: write_canonical escapes by hand, and no two strings or
   keys, of any length and with any characters, print the same. *)
THEOREM QuotesAreUnambiguous ==
  ASSUME NEW s \in Text, NEW t \in Text, NEW x \in Text, NEW y \in Text,
         Quoted(s) ++ x = Quoted(t) ++ y
  PROVE  s = t /\ x = y
<1> DEFINE T == {n \in Nat : EndsAt(n)}
<1>1. T = Nat
  <2>1. T \in SUBSET Nat /\ 0 \in T /\ \A n \in T : n + 1 \in T
    BY EmptyEnds, NextEnds
  <2> HIDE DEF T
  <2> QED BY <2>1, Induction
<1>2. Len(s) \in Nat
  BY TextParts
<1>3. EndsAt(Len(s))
  BY <1>1, <1>2
<1>4. Rest(s, x) = Rest(t, y)
  BY QuotedIs, TextAlgebra
<1> QED BY <1>3, <1>4 DEF EndsAt

--------------------------------------------------------------------------------
(* The order of keys: total, so that sorting them leaves no choice. *)
LEMMA BeforeIsOrder ==
  /\ \A s \in Text : ~ Before(s, s)
  /\ \A s, t, u \in Text : Before(s, t) /\ Before(t, u) => Before(s, u)
<1>0. ASSUME NEW s \in Text PROVE /\ Len(s) \in Nat /\ DOMAIN s = 1..Len(s)
                                  /\ \A i \in DOMAIN s : s[i] \in Nat
  BY DEF Text
<1>1. ASSUME NEW s \in Text PROVE ~ Before(s, s)
  BY <1>0 DEF Before
<1>2. ASSUME NEW s \in Text, NEW t \in Text, NEW u \in Text, Before(s, t), Before(t, u)
      PROVE  Before(s, u)
  <2>1. PICK i \in DOMAIN t : /\ \A k \in 1..i-1 : k \in DOMAIN s /\ s[k] = t[k]
                              /\ i \in DOMAIN s => s[i] < t[i]
    BY <1>2 DEF Before
  <2>2. PICK j \in DOMAIN u : /\ \A k \in 1..j-1 : k \in DOMAIN t /\ t[k] = u[k]
                              /\ j \in DOMAIN t => t[j] < u[j]
    BY <1>2 DEF Before
  <2>3. i \in Nat \ {0} /\ j \in Nat \ {0}
    BY <1>0
  <2>4. CASE i < j
    <3>1. i \in 1..j-1 /\ i \in DOMAIN u
      BY <1>0, <2>3, <2>4
    <3>2. \A k \in 1..i-1 : k \in 1..j-1
      BY <2>3, <2>4
    <3>3. \A k \in 1..i-1 : k \in DOMAIN s /\ s[k] = u[k]
      BY <2>1, <2>2, <3>2
    <3>4. i \in DOMAIN s => s[i] < u[i]
      BY <2>1, <2>2, <3>1
    <3> QED BY <3>1, <3>3, <3>4 DEF Before
  <2>5. CASE j <= i
    <3>1. j \in DOMAIN t /\ t[j] < u[j] /\ j \in DOMAIN u
      BY <1>0, <2>2, <2>3, <2>5
    <3>2. \A k \in 1..j-1 : k \in 1..i-1
      BY <2>3, <2>5
    <3>3. \A k \in 1..j-1 : k \in DOMAIN s /\ s[k] = u[k]
      BY <2>1, <2>2, <3>2
    <3>4. ASSUME j \in DOMAIN s PROVE s[j] < u[j]
      <4>1. s[j] <= t[j]
        <5>1. CASE j = i
          BY <1>0, <2>1, <3>1, <3>4, <5>1
        <5>2. CASE j # i
          <6>1. j \in 1..i-1
            BY <2>3, <2>5, <5>2
          <6> QED BY <1>0, <2>1, <3>1, <6>1
        <5> QED BY <5>1, <5>2
      <4> QED BY <1>0, <3>1, <3>4, <4>1
    <3> QED BY <3>1, <3>3, <3>4 DEF Before
  <2> QED BY <2>3, <2>4, <2>5
<1> QED BY <1>1, <1>2

(* Of two keys one comes first: where they first differ decides. *)
LEMMA BeforeIsTotal ==
  ASSUME NEW s \in Text, NEW t \in Text, s # t
  PROVE  Before(s, t) \/ Before(t, s)
<1> DEFINE Both(i) == i \in DOMAIN s /\ i \in DOMAIN t
           D == {i \in Nat : i \in DOMAIN s \cup DOMAIN t /\ ~ (Both(i) /\ s[i] = t[i])}
<1>0. \A r \in Text : /\ Len(r) \in Nat /\ DOMAIN r = 1..Len(r)
                      /\ \A i \in DOMAIN r : r[i] \in Nat
  BY DEF Text
<1>1. D # {}
  <2> SUFFICES ASSUME D = {} PROVE s = t
    OBVIOUS
  <2>1. \A i \in 1..Len(s) : i \in 1..Len(t) /\ s[i] = t[i]
    BY <1>0
  <2>2. \A i \in 1..Len(t) : i \in 1..Len(s)
    BY <1>0
  <2>3. Len(s) = Len(t)
    BY <1>0, <2>1, <2>2
  <2> QED BY <2>1, <2>3, SeqEqual DEF Text
<1>2. PICK i \in D : \A j \in D : i <= j
  <2>1. D \in SUBSET Nat
    OBVIOUS
  <2> HIDE DEF D
  <2> QED BY <1>1, <2>1, Least
<1>3. \A k \in 1..i-1 : k \notin D /\ k \in Nat /\ (i \in DOMAIN s => k \in DOMAIN s)
                          /\ (i \in DOMAIN t => k \in DOMAIN t)
  BY <1>0, <1>2
<1>4. \A k \in 1..i-1 : Both(k) /\ s[k] = t[k]
  BY <1>3
<1>5. CASE i \notin DOMAIN t
  BY <1>2, <1>4, <1>5 DEF Before
<1>6. CASE i \notin DOMAIN s
  BY <1>2, <1>4, <1>6 DEF Before
<1>7. CASE Both(i) /\ s[i] < t[i]
  BY <1>4, <1>7 DEF Before
<1>8. CASE Both(i) /\ t[i] < s[i]
  BY <1>4, <1>8 DEF Before
<1> QED BY <1>0, <1>2, <1>5, <1>6, <1>7, <1>8

--------------------------------------------------------------------------------
(* Sorting the members of an object. *)

Ascending(s) == \A i, j \in DOMAIN s : i < j => Before(s[i].key, s[j].key)
HaveKeys(M) == \A m \in M : m.key \in Text
IsNew(e, s) == \A i \in DOMAIN s : s[i].key # e.key

(* One more member can be put in its place. *)
LEMMA Insertion ==
  ASSUME NEW n \in Nat, NEW M, HaveKeys(M), NEW s \in [1..n -> M], Ascending(s),
         NEW e \in M, IsNew(e, s)
  PROVE  \E t \in [1..n+1 -> Range(s) \cup {e}] :
           Range(t) = Range(s) \cup {e} /\ Ascending(t)
<1> DEFINE D == {i \in 1..n+1 : i = n + 1 \/ Before(e.key, s[i].key)}
<1>1. PICK p \in D : \A i \in D : p <= i
  <2>1. D \in SUBSET Nat /\ D # {}
    OBVIOUS
  <2> HIDE DEF D
  <2> QED BY <2>1, Least
<1>2. p \in Nat \ {0} /\ p <= n + 1 /\ (p = n + 1 \/ Before(e.key, s[p].key))
  OBVIOUS
<1>3. e.key \in Text /\ \A j \in 1..n : s[j] \in Range(s) /\ s[j].key \in Text
  BY DEF HaveKeys, Range
<1>4. ASSUME NEW j \in 1..n, j < p PROVE Before(s[j].key, e.key)
  <2>1. j \notin D /\ s[j].key # e.key
    BY <1>1, <1>2, <1>4 DEF IsNew
  <2> QED BY <1>3, <2>1, BeforeIsTotal
<1>5. ASSUME NEW j \in 1..n, p <= j PROVE Before(e.key, s[j].key)
  <2>1. p \in 1..n /\ Before(e.key, s[p].key)
    BY <1>2, <1>5
  <2>2. CASE p = j
    BY <2>1, <2>2
  <2>3. CASE p < j
    <3>1. Before(s[p].key, s[j].key)
      BY <2>1, <2>3 DEF Ascending
    <3> QED BY <1>3, <2>1, <3>1, BeforeIsOrder
  <2> QED BY <1>2, <1>5, <2>2, <2>3
<1> HIDE DEF D
<1> DEFINE t == [j \in 1..n+1 |-> IF j < p THEN s[j] ELSE IF j = p THEN e ELSE s[j-1]]
<1>6. ASSUME NEW j \in 1..n+1
      PROVE  /\ j < p => j \in 1..n /\ t[j] = s[j]
             /\ j = p => t[j] = e
             /\ p < j => j - 1 \in 1..n /\ p <= j - 1 /\ t[j] = s[j-1]
  BY <1>2
<1>7. t \in [1..n+1 -> Range(s) \cup {e}]
  <2>1. ASSUME NEW j \in 1..n+1 PROVE t[j] \in Range(s) \cup {e}
    BY <1>2, <1>3, <1>6
  <2> QED BY <2>1
<1>8. Range(t) = Range(s) \cup {e}
  <2>1. Range(t) \subseteq Range(s) \cup {e}
    BY <1>7 DEF Range
  <2>2. e \in Range(t)
    BY <1>2 DEF Range
  <2>3. ASSUME NEW j \in 1..n PROVE s[j] \in Range(t)
    <3>1. CASE j < p
      <4>1. j \in 1..n+1 /\ t[j] = s[j]
        BY <3>1
      <4> QED BY <4>1 DEF Range
    <3>2. CASE p <= j
      <4>1. j + 1 \in 1..n+1 /\ t[j+1] = s[j]
        BY <1>2, <3>2
      <4> QED BY <4>1 DEF Range
    <3> QED BY <1>2, <3>1, <3>2
  <2> QED BY <2>1, <2>2, <2>3 DEF Range
<1>9. Ascending(t)
  <2> SUFFICES ASSUME NEW i \in 1..n+1, NEW j \in 1..n+1, i < j
               PROVE  Before(t[i].key, t[j].key)
    BY DEF Ascending
  <2>1. \A k, l \in 1..n : k < l => Before(s[k].key, s[l].key)
    BY DEF Ascending
  <2> HIDE DEF t
  <2>2. CASE j < p
    <3>1. i < p
      BY <1>2, <2>2
    <3> QED BY <1>6, <2>1, <2>2, <3>1
  <2>3. CASE j = p
    BY <1>4, <1>6, <2>3
  <2>4. CASE p < j /\ i = p
    BY <1>5, <1>6, <2>4
  <2>5. CASE p < j /\ i < p
    <3>1. i \in 1..n /\ j - 1 \in 1..n /\ i < j - 1
      BY <1>2, <1>6, <2>5
    <3>2. t[i] = s[i] /\ t[j] = s[j-1]
      BY <1>6, <2>5
    <3> QED BY <2>1, <3>1, <3>2
  <2>6. CASE p < j /\ p < i
    <3>1. i - 1 \in 1..n /\ j - 1 \in 1..n /\ i - 1 < j - 1
      BY <1>2, <1>6, <2>6
    <3>2. t[i] = s[i-1] /\ t[j] = s[j-1]
      BY <1>6, <2>6
    <3> QED BY <2>1, <3>1, <3>2
  <2> QED BY <1>2, <2>2, <2>3, <2>4, <2>5, <2>6
<1> HIDE DEF t
<1> QED BY <1>7, <1>8, <1>9

(* The members of an object can be sorted. *)
Distinct(s) == \A i, j \in DOMAIN s : s[i].key = s[j].key => i = j
Sorts(s, m) == /\ s \in [DOMAIN m -> Range(m)]
               /\ Range(s) = Range(m)
               /\ Ascending(s)

CanSort(M, n) == \A f \in [1..n -> M] : Distinct(f) => \E s : Sorts(s, f)

(* If all sequences of n members with distinct keys can be sorted, so can those of n + 1. *)
LEMMA SortOneMore ==
  ASSUME NEW M, HaveKeys(M), NEW n \in Nat, CanSort(M, n)
  PROVE  CanSort(M, n + 1)
<1> SUFFICES ASSUME NEW f \in [1..n+1 -> M], Distinct(f) PROVE \E s : Sorts(s, f)
  BY DEF CanSort
<1>1. DOMAIN f = 1..n+1
  OBVIOUS
<1>2. PICK g \in [1..n -> M], e \in M : \A i \in 1..n+1 : f[i] = IF i = n + 1 THEN e ELSE g[i]
  <2>1. /\ [i \in 1..n |-> f[i]] \in [1..n -> M] /\ f[n+1] \in M
        /\ \A i \in 1..n+1 : i = n + 1 \/ i \in 1..n
    BY <1>1
  <2> QED BY <2>1
<1>3. /\ \A i \in 1..n : i \in DOMAIN f /\ i # n + 1 /\ f[i] = g[i]
      /\ n + 1 \in DOMAIN f /\ f[n+1] = e
      /\ \A i \in DOMAIN f : i = n + 1 \/ i \in 1..n
  BY <1>1, <1>2
<1>4. Distinct(g) /\ \A i \in 1..n : g[i].key # e.key
  BY <1>3 DEF Distinct
<1>5. Range(f) = Range(g) \cup {e}
  BY <1>3 DEF Range
<1>6. PICK s \in [1..n -> M] : Sorts(s, g)
  <2>1. \A x \in Range(g) : x \in M
    BY DEF Range
  <2>2. PICK s : Sorts(s, g)
    BY <1>1, <1>4 DEF CanSort
  <2>3. s \in [1..n -> Range(g)]
    BY <2>2 DEF Sorts
  <2> QED BY <2>1, <2>2, <2>3
<1>7. Ascending(s) /\ Range(s) = Range(g)
  BY <1>6 DEF Sorts
<1>8. IsNew(e, s)
  <2> SUFFICES ASSUME NEW i \in 1..n PROVE s[i].key # e.key
    BY DEF IsNew
  <2>1. s[i] \in Range(s) /\ \A x \in Range(g) : \E j \in 1..n : x = g[j]
    BY <1>7 DEF Range
  <2>2. PICK j \in 1..n : s[i] = g[j]
    BY <1>7, <2>1
  <2>3. g[j].key # e.key
    BY <1>4
  <2> QED BY <2>2, <2>3, Zenon
<1>9. PICK t \in [1..n+1 -> Range(s) \cup {e}] :
        Range(t) = Range(s) \cup {e} /\ Ascending(t)
  BY <1>7, <1>8, Insertion
<1>10. Sorts(t, f)
  BY <1>1, <1>5, <1>7, <1>9 DEF Sorts
<1> QED BY <1>10

(* So Sorted has something to choose: the members, in the order of their keys. *)
LEMMA SortedExists ==
  ASSUME NEW M, HaveKeys(M), NEW m \in Seq(M), Distinct(m)
  PROVE  Sorts(Sorted(m), m)
<1> DEFINE T == {n \in Nat : CanSort(M, n)}
<1>1. 0 \in T
  <2>1. ASSUME NEW f \in [1..0 -> M] PROVE Sorts(f, f)
    BY DEF Sorts, Ascending, Range
  <2> QED BY <2>1 DEF CanSort
<1>2. T = Nat
  <2>1. T \in SUBSET Nat /\ 0 \in T /\ \A n \in T : n + 1 \in T
    BY <1>1, SortOneMore
  <2> HIDE DEF T
  <2> QED BY <2>1, Induction
<1>3. \E s : Sorts(s, m)
  <2>1. Len(m) \in Nat /\ m \in [1..Len(m) -> M]
    OBVIOUS
  <2> QED BY <1>2, <2>1 DEF CanSort
<1> QED BY <1>3 DEF Sorted, Sorts, Ascending

(* Sorting by distinct keys leaves no choice. *)
KeysOccur(s, t) == \A i \in DOMAIN s : \E k \in DOMAIN t : t[k].key = s[i].key
AgreeAt(s, t, i) == i \in DOMAIN s /\ i \in DOMAIN t /\ s[i].key = t[i].key
AgreeBefore(s, t, i) == \A j \in 1..i-1 : AgreeAt(s, t, j)

(* If two ascending sequences agree up to a place and the keys of the first occur in the
   second, the second has a key there that is not greater. *)
LEMMA NextKey ==
  ASSUME NEW M, HaveKeys(M), NEW n \in Nat, NEW m \in Nat,
         NEW s \in [1..n -> M], NEW t \in [1..m -> M],
         Ascending(s), Ascending(t), KeysOccur(s, t),
         NEW i \in 1..n, AgreeBefore(s, t, i)
  PROVE  i \in 1..m /\ (t[i].key = s[i].key \/ Before(t[i].key, s[i].key))
<1>1. PICK k \in 1..m : t[k].key = s[i].key
  BY DEF KeysOccur
<1>2. s[i].key \in Text
  BY DEF HaveKeys
<1>3. ~ k < i
  <2> SUFFICES ASSUME k < i PROVE FALSE
    OBVIOUS
  <2>1. k \in 1..i-1 /\ k \in 1..n
    OBVIOUS
  <2>2. s[k].key = s[i].key
    BY <1>1, <2>1 DEF AgreeAt, AgreeBefore
  <2>3. Before(s[k].key, s[i].key)
    BY <2>1 DEF Ascending
  <2> QED BY <1>2, <2>2, <2>3, BeforeIsOrder
<1>4. i \in 1..m
  BY <1>3
<1>5. CASE k = i
  BY <1>1, <1>4, <1>5
<1>6. CASE i < k
  <2>1. Before(t[i].key, t[k].key)
    BY <1>4, <1>6 DEF Ascending
  <2> QED BY <1>1, <1>4, <2>1
<1> QED BY <1>3, <1>5, <1>6

(* Two ascending sequences with the same keys have the same length and order. *)
LEMMA SortingIsUnique ==
  ASSUME NEW M, HaveKeys(M), NEW n \in Nat, NEW m \in Nat,
         NEW s \in [1..n -> M], NEW t \in [1..m -> M],
         Ascending(s), Ascending(t), KeysOccur(s, t), KeysOccur(t, s)
  PROVE  n = m /\ \A i \in 1..n : s[i].key = t[i].key
<1> DEFINE D == {i \in Nat : i \in 1..n \cup 1..m /\ ~ AgreeAt(s, t, i)}
<1>1. D = {}
  <2> SUFFICES ASSUME D # {} PROVE FALSE
    OBVIOUS
  <2>1. PICK i \in D : \A j \in D : i <= j
    <3>1. D \in SUBSET Nat
      OBVIOUS
    <3> HIDE DEF D
    <3> QED BY <3>1, Least
  <2>2. i \in Nat /\ i \in 1..n \cup 1..m /\ ~ AgreeAt(s, t, i)
    OBVIOUS
  <2>3. AgreeBefore(s, t, i)
    <3>1. ASSUME NEW j \in 1..i-1 PROVE AgreeAt(s, t, j)
      <4>1. j \in Nat /\ j < i /\ j \in 1..n \cup 1..m
        BY <2>2
      <4> QED BY <2>1, <4>1
    <3> QED BY <3>1 DEF AgreeBefore
  <2>4. AgreeBefore(t, s, i)
    BY <2>3 DEF AgreeAt, AgreeBefore
  <2>5. i \in 1..n => i \in 1..m /\ (t[i].key = s[i].key \/ Before(t[i].key, s[i].key))
    BY <2>3, NextKey
  <2>6. i \in 1..m => i \in 1..n /\ (s[i].key = t[i].key \/ Before(s[i].key, t[i].key))
    BY <2>4, NextKey
  <2>7. i \in 1..n /\ i \in 1..m /\ s[i].key \in Text /\ t[i].key \in Text
    BY <2>2, <2>5, <2>6 DEF HaveKeys
  <2>8. Before(t[i].key, s[i].key) /\ Before(s[i].key, t[i].key)
    BY <2>2, <2>5, <2>6, <2>7 DEF AgreeAt
  <2> QED BY <2>7, <2>8, BeforeIsOrder
<1>2. \A i \in 1..n : i \in 1..m /\ s[i].key = t[i].key
  BY <1>1 DEF AgreeAt
<1>3. \A i \in 1..m : i \in 1..n
  BY <1>1 DEF AgreeAt
<1>4. n = m
  BY <1>2, <1>3
<1> QED BY <1>2, <1>4

(* Ascending keys do not repeat. *)
LEMMA AscendingIsDistinct ==
  ASSUME NEW M, HaveKeys(M), NEW n \in Nat, NEW s \in [1..n -> M], Ascending(s)
  PROVE  Distinct(s)
<1> SUFFICES ASSUME NEW i \in 1..n, NEW j \in 1..n, s[i].key = s[j].key, i < j PROVE FALSE
  BY DEF Distinct
<1>1. Before(s[i].key, s[j].key) /\ s[i].key \in Text
  BY DEF Ascending, HaveKeys
<1> QED BY <1>1, BeforeIsOrder

--------------------------------------------------------------------------------
(* Values: what is written and meant by recursion. *)

(* What is assumed of a value. *)
Members == [key : Text, value : Values]

(* The parts of a value of each kind. *)
LEMMA ValueParts ==
  ASSUME NEW v \in Values
  PROVE  /\ v.kind \in {"atom", "string", "array", "object"}
         /\ v = [kind |-> v.kind, text |-> v.text, members |-> v.members]
         /\ v.kind = "atom" => v.text \in Literals /\ v.members = <<>>
         /\ v.kind = "string" => v.text \in Text /\ v.members = <<>>
         /\ v.kind \in {"array", "object"} => v.text = <<>>
         /\ v.kind = "array" => \A i \in DOMAIN v.members : v.members[i].key = <<>>
         /\ v.kind = "object" => Distinct(v.members)
         /\ v.members \in Seq(Members)
<1>1. IsValue(v)
  BY ValuesAssumption
<1>2. <<>> \in Seq(Members)
  OBVIOUS
<1> QED BY <1>1, <1>2 DEF IsValue, Value, Distinct, Members

(* Its members are values that nest less deep. *)
LEMMA NestingDecreases ==
  ASSUME NEW v \in Values
  PROVE  /\ Nesting[v] \in Nat /\ Nesting[v] <= MaxNesting
         /\ \A i \in DOMAIN v.members :
              /\ v.members[i].value \in Values /\ v.members[i].key \in Text
              /\ Nesting[v.members[i].value] < Nesting[v]
<1>1. v.members \in Seq(Members)
  BY ValueParts
<1>2. \A i \in DOMAIN v.members : v.members[i] \in Members
  BY <1>1
<1>3. \A i \in DOMAIN v.members : Nesting[v.members[i].value] < Nesting[v]
  BY ValuesAssumption
<1>4. Nesting[v] \in 0..MaxNesting /\ MaxNesting \in Nat
  BY ValuesAssumption DEF MaxNesting
<1> QED BY <1>2, <1>3, <1>4 DEF Members

(* Every member has a key that can be compared. *)
LEMMA MembersHaveKeys == HaveKeys(Members)
BY DEF HaveKeys, Members

(* The sorted members of an object. *)
LEMMA SortedMembers ==
  ASSUME NEW v \in Values, v.kind = "object"
  PROVE  /\ Sorted(v.members) \in [DOMAIN v.members -> Members]
         /\ Range(Sorted(v.members)) = Range(v.members)
         /\ Ascending(Sorted(v.members))
<1>1. v.members \in Seq(Members) /\ Distinct(v.members)
  BY ValueParts
<1>2. Sorts(Sorted(v.members), v.members)
  BY <1>1, MembersHaveKeys, SortedExists
<1>3. \A m \in Range(v.members) : m \in Members
  BY <1>1 DEF Range
<1> QED BY <1>2, <1>3 DEF Sorts

(* The parts of an array and of an object. *)
ItemsOf(v, text) == [i \in DOMAIN v.members |-> text[v.members[i].value]]
PairOf(m, text) == Quoted(m.key) \o <<Colon>> \o text[m.value]
PairsOf(s, text) == [i \in DOMAIN s |-> PairOf(s[i], text)]

(* What is written for a value of each kind. *)
LEMMA WrittenByKind ==
  ASSUME NEW v, NEW text
  PROVE  /\ v.kind = "atom" => Written(v, text) = v.text
         /\ v.kind = "string" => Written(v, text) = Quoted(v.text)
         /\ v.kind = "array" =>
              Written(v, text) = <<91>> \o Separated(ItemsOf(v, text)) \o <<93>>
         /\ v.kind = "object" =>
              Written(v, text) = <<123>> \o Separated(PairsOf(Sorted(v.members), text)) \o <<125>>
<1>1. v.kind = "atom" => Written(v, text) = v.text
  BY Zenon DEF Written
<1>2. v.kind = "string" => Written(v, text) = Quoted(v.text)
  BY Zenon DEF Written
<1>3. v.kind = "array" =>
        Written(v, text) = <<91>> \o Separated(ItemsOf(v, text)) \o <<93>>
  BY Zenon DEF Written, ItemsOf, Opening, Closing
<1>4. v.kind = "object" =>
        Written(v, text) = <<123>> \o Separated(PairsOf(Sorted(v.members), text)) \o <<125>>
  BY Zenon DEF Written, PairsOf, PairOf, Opening, Closing
<1> QED BY <1>1, <1>2, <1>3, <1>4

(* What is written and what is meant depends on the members. *)
SameOnMembers(v, f, g) ==
  \A i \in DOMAIN v.members : f[v.members[i].value] = g[v.members[i].value]

(* The text of a value depends on the texts of its members only. *)
LEMMA WrittenDepends ==
  ASSUME NEW v \in Values, NEW f, NEW g, SameOnMembers(v, f, g)
  PROVE  Written(v, f) = Written(v, g)
<1>1. CASE v.kind = "array"
  <2>1. ItemsOf(v, f) = ItemsOf(v, g)
    BY DEF ItemsOf, SameOnMembers
  <2>2. /\ Written(v, f) = <<91>> \o Separated(ItemsOf(v, f)) \o <<93>>
        /\ Written(v, g) = <<91>> \o Separated(ItemsOf(v, g)) \o <<93>>
    BY <1>1, WrittenByKind
  <2> QED BY <2>1, <2>2
<1>2. CASE v.kind = "object"
  <2> DEFINE s == Sorted(v.members)
  <2>1. \A i \in DOMAIN s : s[i] \in Range(v.members)
    BY <1>2, SortedMembers DEF Range
  <2>2. \A i \in DOMAIN s : f[s[i].value] = g[s[i].value]
    BY <2>1 DEF Range, SameOnMembers
  <2>3. \A i \in DOMAIN s : PairOf(s[i], f) = PairOf(s[i], g)
    BY <2>2, Zenon DEF PairOf
  <2>4. PairsOf(s, f) = PairsOf(s, g)
    BY <2>3 DEF PairsOf
  <2>5. /\ Written(v, f) = <<123>> \o Separated(PairsOf(s, f)) \o <<125>>
        /\ Written(v, g) = <<123>> \o Separated(PairsOf(s, g)) \o <<125>>
    BY <1>2, WrittenByKind
  <2> QED BY <2>4, <2>5
<1>3. CASE v.kind \in {"atom", "string"}
  BY <1>3, WrittenByKind
<1> QED BY <1>1, <1>2, <1>3, ValueParts

(* And its meaning on their meanings. *)
LEMMA MeantDepends ==
  ASSUME NEW v \in Values, NEW f, NEW g, SameOnMembers(v, f, g)
  PROVE  Meant(v, f) = Meant(v, g)
<1> DEFINE Says(m, h) == <<m.key, h[m.value]>>
<1>1. \A i \in DOMAIN v.members : Says(v.members[i], f) = Says(v.members[i], g)
  BY DEF SameOnMembers
<1>2. {Says(v.members[i], f) : i \in DOMAIN v.members}
        = {Says(v.members[i], g) : i \in DOMAIN v.members}
  BY <1>1
<1>3. [i \in DOMAIN v.members |-> Says(v.members[i], f)]
        = [i \in DOMAIN v.members |-> Says(v.members[i], g)]
  BY <1>1
<1> QED BY <1>2, <1>3, Zenon DEF Meant

(* So the two recursive functions exist: on the values that nest less deep than n, by
   induction on n. *)
Made(written, v, f) == IF written THEN Written(v, f) ELSE Meant(v, f)
MadeBelow(written, n, f) ==
  \A w \in Values : Nesting[w] < n => f[w] = Made(written, w, f)

(* A function that is right on the values that nest less deep than n, applied once more. *)
LEMMA MadeOneDeeper ==
  ASSUME NEW written \in BOOLEAN, NEW n \in Nat, NEW f, MadeBelow(written, n, f)
  PROVE  MadeBelow(written, n + 1, [w \in Values |-> Made(written, w, f)])
<1>1. PICK g : g = [w \in Values |-> Made(written, w, f)]
  OBVIOUS
<1>2. ASSUME NEW w \in Values, Nesting[w] < n + 1 PROVE g[w] = Made(written, w, g)
  <2>1. SameOnMembers(w, f, g)
    <3> SUFFICES ASSUME NEW u \in Values, Nesting[u] < Nesting[w] PROVE f[u] = g[u]
      BY NestingDecreases DEF SameOnMembers
    <3>1. Nesting[u] < n
      BY <1>2, NestingDecreases
    <3> QED BY <1>1, <3>1 DEF MadeBelow
  <2> QED BY <1>1, <2>1, WrittenDepends, MeantDepends DEF Made
<1> QED BY <1>1, <1>2 DEF MadeBelow

(* No value nests deeper than MaxNesting, so one of them is right on all values. *)
LEMMA RecursionWorks ==
  ASSUME NEW written \in BOOLEAN
  PROVE  \E f : f = [w \in Values |-> Made(written, w, f)]
<1> DEFINE T == {n \in Nat : \E f : MadeBelow(written, n, f)}
<1>1. T = Nat
  <2>1. 0 \in T
    <3>1. \A w \in Values : ~ Nesting[w] < 0
      BY NestingDecreases
    <3> QED BY <3>1 DEF MadeBelow
  <2>2. T \in SUBSET Nat /\ \A n \in T : n + 1 \in T
    <3>1. ASSUME NEW n \in T PROVE n + 1 \in T
      <4>1. n \in Nat /\ \E f : MadeBelow(written, n, f)
        OBVIOUS
      <4>2. \E f : MadeBelow(written, n + 1, f)
        BY <4>1, MadeOneDeeper
      <4> QED BY <4>1, <4>2
    <3> QED BY <3>1
  <2> HIDE DEF T
  <2> QED BY <2>1, <2>2, Induction
<1>2. MaxNesting + 1 \in Nat
  BY DEF MaxNesting
<1>3. PICK f : MadeBelow(written, MaxNesting + 1, f)
  BY <1>1, <1>2
<1>4. PICK g : g = [w \in Values |-> Made(written, w, f)]
  OBVIOUS
<1>5. \A w \in Values : Nesting[w] < (MaxNesting + 1) + 1
  BY NestingDecreases DEF MaxNesting
<1>6. \A w \in Values : g[w] = Made(written, w, g)
  BY <1>2, <1>3, <1>4, <1>5, MadeOneDeeper DEF MadeBelow
<1> QED BY <1>4, <1>6

(* The recursive function is what its definition says. *)
LEMMA WriteCanonicalIs ==
  ASSUME NEW v \in Values
  PROVE  WriteCanonical[v] = Written(v, WriteCanonical)
<1>1. PICK f : f = [w \in Values |-> Written(w, f)]
  BY RecursionWorks DEF Made
<1>2. WriteCanonical = [w \in Values |-> Written(w, WriteCanonical)]
  BY <1>1 DEF WriteCanonical
<1> QED BY <1>2

(* So is the meaning. *)
LEMMA MeaningIs ==
  ASSUME NEW v \in Values
  PROVE  Meaning[v] = Meant(v, Meaning)
<1>1. PICK f : f = [w \in Values |-> Meant(w, f)]
  BY RecursionWorks DEF Made
<1>2. Meaning = [w \in Values |-> Meant(w, Meaning)]
  BY <1>1 DEF Meaning
<1> QED BY <1>2

--------------------------------------------------------------------------------
(* Arrays and objects: parts with commas between them. *)

(* The parts after the first. *)
Commas(p) == [i \in DOMAIN p |-> <<Comma>> \o p[i]]
After(p)  == FlattenSeq(Commas(p))

(* They are texts, as many as there were. *)
LEMMA CommasAre ==
  ASSUME NEW p \in Seq(Text)
  PROVE  Commas(p) \in Seq(Text) /\ Len(Commas(p)) = Len(p)
<1>1. ASSUME NEW i \in 1..Len(p) PROVE <<Comma>> \o p[i] \in Text
  BY DEF Text, Comma
<1>2. Commas(p) = [i \in 1..Len(p) |-> <<Comma>> \o p[i]] /\ Len(p) \in Nat
  BY DEF Commas
<1> QED BY <1>1, <1>2

(* The parts that follow, from the front. *)
LEMMA AfterIs ==
  ASSUME NEW p \in Seq(Text)
  PROVE  /\ After(p) \in Text
         /\ p = <<>> => After(p) = <<>>
         /\ p # <<>> => After(p) = <<Comma>> ++ (p[1] ++ After(Tail(p)))
<1>1. ASSUME NEW a \in Text, NEW q \in Seq(Text)
      PROVE  After(q) \in Text /\ FlattenSeq(<<a>> \o Commas(q)) = a ++ After(q)
  <2>1. PICK r \in Seq(Seq(Nat)) : r = Commas(q)
    BY CommasAre DEF Text
  <2>2. FlattenSeq(r) \in Seq(Nat) /\ FlattenSeq(<<a>> \o r) = a \o FlattenSeq(r)
    BY FlattenCons DEF Text
  <2> QED BY <2>1, <2>2 DEF After, Text, ++
<1>2. After(p) \in Text
  BY <1>1, TextAlgebra
<1>3. ASSUME p = <<>> PROVE After(p) = <<>>
  <2>1. Commas(p) = <<>>
    BY <1>3 DEF Commas
  <2> QED BY <2>1, FlattenEmpty DEF After
<1>4. ASSUME p # <<>> PROVE After(p) = <<Comma>> ++ (p[1] ++ After(Tail(p)))
  <2>1. /\ p[1] \in Text /\ Tail(p) \in Seq(Text) /\ Len(p) = Len(Tail(p)) + 1
        /\ \A i \in 1..Len(Tail(p)) : p[i+1] = Tail(p)[i]
    BY <1>4, SeqParts
  <2>2. PICK t \in Seq(Text), a \in Text : t = Tail(p) /\ a = <<Comma>> \o p[1]
    <3>1. \A h \in Text : <<Comma>> \o h \in Text
      BY DEF Text, Comma
    <3> QED BY <2>1, <3>1
  <2>3. Commas(p) = <<a>> \o Commas(t)
    <3>1. /\ Commas(p) \in Seq(Text) /\ Len(Commas(p)) = Len(p)
          /\ Commas(t) \in Seq(Text) /\ Len(Commas(t)) = Len(t)
      BY CommasAre
    <3>2. Commas(p)[1] = a
      BY <2>1, <2>2 DEF Commas
    <3>3. ASSUME NEW i \in 1..Len(t) PROVE Commas(p)[i+1] = Commas(t)[i]
      <4>1. i + 1 \in DOMAIN p /\ i \in DOMAIN t /\ p[i+1] = t[i]
        BY <2>1, <2>2
      <4> QED BY <4>1 DEF Commas
    <3>4. PICK q \in Seq(Text), r \in Seq(Text) : q = Commas(p) /\ r = Commas(t)
      BY <3>1
    <3>5. Len(q) = Len(r) + 1 /\ q[1] = a /\ \A i \in 1..Len(r) : q[i+1] = r[i]
      BY <2>1, <2>2, <3>1, <3>2, <3>3, <3>4
    <3>6. q = <<a>> \o r
      BY <3>5, ConsIs
    <3> QED BY <3>4, <3>6
  <2>4. After(p) = a ++ After(t) /\ After(t) \in Text
    BY <1>1, <2>3 DEF After
  <2>5. a = <<Comma>> ++ p[1] /\ <<Comma>> \in Text
    BY <2>2 DEF ++, Text, Comma
  <2>6. PICK c \in Text, h \in Text, r \in Text : c = <<Comma>> /\ h = p[1] /\ r = After(t)
    BY <2>1, <2>4, <2>5
  <2>7. (c ++ h) ++ r = c ++ (h ++ r)
    BY TextAlgebra
  <2> QED BY <2>2, <2>4, <2>5, <2>6, <2>7
<1> QED BY <1>2, <1>3, <1>4

(* All parts, from the front. *)
LEMMA SeparatedIs ==
  ASSUME NEW p \in Seq(Text)
  PROVE  /\ Separated(p) \in Text
         /\ p = <<>> => Separated(p) = <<>>
         /\ p # <<>> => /\ <<Comma>> ++ Separated(p) = After(p)
                        /\ Separated(p) = p[1] ++ After(Tail(p))
<1> DEFINE q == [i \in DOMAIN p |-> IF i = 1 THEN p[i] ELSE <<Comma>> \o p[i]]
<1>1. Separated(p) = FlattenSeq(q)
  BY DEF Separated
<1>2. ASSUME p = <<>> PROVE Separated(p) = <<>>
  <2>1. q = <<>>
    BY <1>2
  <2> HIDE DEF q
  <2> QED BY <1>1, <2>1, FlattenEmpty
<1>3. ASSUME p # <<>> PROVE Separated(p) = p[1] ++ After(Tail(p)) /\ Separated(p) \in Text
  <2>1. /\ p[1] \in Text /\ Tail(p) \in Seq(Text) /\ Len(p) = Len(Tail(p)) + 1
        /\ \A i \in 1..Len(Tail(p)) : p[i+1] = Tail(p)[i]
    BY <1>3, SeqParts
  <2>2. PICK t \in Seq(Text), a \in Text, r \in Seq(Text) : t = Tail(p) /\ a = p[1] /\ r = Commas(t)
    BY <2>1, CommasAre
  <2>3. q = <<a>> \o r
    <3>1. q \in Seq(Text) /\ Len(q) = Len(p)
      <4>1. ASSUME NEW i \in 1..Len(p) PROVE q[i] \in Text
        BY DEF Text, Comma
      <4>2. DOMAIN q = 1..Len(p) /\ Len(p) \in Nat /\ q = [i \in 1..Len(p) |-> q[i]]
        OBVIOUS
      <4> HIDE DEF q
      <4> QED BY <4>1, <4>2
    <3>2. q[1] = a
      BY <2>1, <2>2
    <3>3. ASSUME NEW i \in 1..Len(t) PROVE q[i+1] = r[i]
      <4>1. i + 1 \in DOMAIN p /\ i + 1 # 1 /\ i \in DOMAIN t /\ p[i+1] = t[i]
        BY <2>1, <2>2
      <4> QED BY <2>2, <4>1 DEF Commas
    <3>4. Len(r) = Len(t)
      BY <2>2, CommasAre
    <3> HIDE DEF q
    <3>5. Len(q) = Len(r) + 1 /\ \A i \in 1..Len(r) : q[i+1] = r[i]
      BY <2>1, <2>2, <3>1, <3>3, <3>4
    <3>6. PICK u \in Seq(Text) : u = q
      BY <3>1
    <3>7. u = <<a>> \o r
      BY <3>2, <3>5, <3>6, ConsIs
    <3> QED BY <3>6, <3>7
  <2> HIDE DEF q
  <2>4. FlattenSeq(<<a>> \o r) = a \o FlattenSeq(r) /\ FlattenSeq(r) \in Seq(Nat)
    BY FlattenCons DEF Text
  <2>5. Separated(p) = a ++ After(t) /\ After(t) \in Text
    BY <1>1, <2>2, <2>3, <2>4 DEF After, ++, Text
  <2>6. a ++ After(t) \in Text
    BY <2>5, TextAlgebra
  <2> QED BY <2>2, <2>5, <2>6
<1>4. p # <<>> => After(p) = <<Comma>> ++ (p[1] ++ After(Tail(p)))
  BY AfterIs
<1> QED BY <1>2, <1>3, <1>4, TextAlgebra

--------------------------------------------------------------------------------
(* Where the parts of an array or object end. *)

(* What can follow a value, and what a value or member can be. *)
Ends       == {93, 125}
Delimiters == {Comma} \cup Ends
Followers  == {t \in Text : t = <<>> \/ t[1] \in Delimiters}
Words      == {t \in Text : t # <<>> /\ t[1] \notin Delimiters}

(* Texts of which one can tell where they end and which of them it was. *)
Cuts(V, W) ==
  \A a \in V, b \in W, x, y \in Followers : a ++ x = b ++ y => a = b /\ x = y

(* The first character of a text, whatever follows it. *)
LEMMA Heads ==
  /\ \A c \in Nat : <<c>> \in Text /\ <<c>> # <<>> /\ <<c>>[1] = c
  /\ \A a, x \in Text : a # <<>> => a ++ x # <<>> /\ (a ++ x)[1] = a[1]
<1>1. \A c \in Nat : <<c>> \in Text /\ <<c>> # <<>> /\ <<c>>[1] = c
  BY DEF Text
<1>2. ASSUME NEW a \in Text, NEW x \in Text, a # <<>>
      PROVE  a ++ x # <<>> /\ (a ++ x)[1] = a[1]
  <2>1. a \in Seq(Nat) /\ x \in Seq(Nat)
    BY DEF Text
  <2>2. a \o x # <<>> /\ (a \o x)[1] = a[1]
    BY <1>2, <2>1
  <2> QED BY <2>2 DEF ++
<1> QED BY <1>1, <1>2

(* The parts that are left, the end of the array or object, and what follows it. *)
Final(p, c, x) == After(p) ++ (<<c>> ++ x)

(* It begins with the end of the list or with the comma before the next part. *)
LEMMA FinalIs ==
  ASSUME NEW p \in Seq(Text), NEW c \in Ends, NEW x \in Text
  PROVE  /\ Final(p, c, x) \in Followers
         /\ p = <<>> => Final(p, c, x) = <<c>> ++ x /\ Final(p, c, x)[1] = c
         /\ p # <<>> => /\ p[1] \in Text /\ Tail(p) \in Seq(Text)
                        /\ Final(p, c, x) = <<Comma>> ++ (p[1] ++ Final(Tail(p), c, x))
                        /\ Final(p, c, x)[1] = Comma
<1>1. PICK e \in Text, k \in Text : e = <<c>> ++ x /\ e # <<>> /\ e[1] = c
                                    /\ k = <<Comma>> /\ k # <<>> /\ k[1] = Comma
  <2>1. c \in Nat /\ Comma \in Nat
    BY DEF Ends, Comma
  <2>2. <<c>> \in Text /\ <<c>> # <<>> /\ <<c>>[1] = c
    BY <2>1, Heads
  <2>3. <<Comma>> \in Text /\ <<Comma>> # <<>> /\ <<Comma>>[1] = Comma
    BY <2>1, Heads
  <2>4. <<c>> ++ x \in Text /\ <<c>> ++ x # <<>> /\ (<<c>> ++ x)[1] = c
    BY <2>2, Heads, TextAlgebra
  <2> QED BY <2>3, <2>4
<1>2. \A q \in Seq(Text) : Final(q, c, x) = After(q) ++ e /\ After(q) \in Text
  BY <1>1, AfterIs DEF Final
<1>3. CASE p = <<>>
  <2>1. After(p) = <<>>
    BY <1>3, AfterIs
  <2>2. Final(p, c, x) = e
    BY <1>2, <2>1, TextAlgebra
  <2> QED BY <1>1, <1>3, <2>2 DEF Followers, Delimiters
<1>4. CASE p # <<>>
  <2>1. p[1] \in Text /\ Tail(p) \in Seq(Text)
    BY <1>4, SeqParts
  <2>2. PICK h \in Text, r \in Text : h = p[1] /\ r = After(Tail(p))
    BY <1>2, <2>1
  <2>3. After(p) = k ++ (h ++ r)
    BY <1>1, <1>4, <2>2, AfterIs
  <2>4. Final(p, c, x) = (k ++ (h ++ r)) ++ e /\ Final(Tail(p), c, x) = r ++ e
    BY <1>2, <2>1, <2>2, <2>3
  <2>5. /\ (k ++ (h ++ r)) ++ e = k ++ (h ++ (r ++ e))
        /\ k ++ (h ++ (r ++ e)) \in Text /\ h ++ (r ++ e) \in Text
    BY TextAlgebra
  <2>6. (k ++ (h ++ (r ++ e)))[1] = Comma
    BY <1>1, <2>5, Heads
  <2>7. Final(p, c, x) = k ++ (h ++ Final(Tail(p), c, x))
    BY <2>4, <2>5
  <2>8. Final(p, c, x) \in Text /\ Final(p, c, x)[1] = Comma
    BY <2>4, <2>5, <2>6
  <2> QED BY <1>1, <1>4, <2>1, <2>2, <2>7, <2>8 DEF Followers, Delimiters
<1> QED BY <1>3, <1>4

(* Without parts it is the end and what follows. *)
LEMMA FinalOfNone ==
  ASSUME NEW c \in Ends, NEW x \in Text
  PROVE  Final(<<>>, c, x) = <<c>> ++ x /\ Final(<<>>, c, x)[1] = c
<1>1. <<>> \in Seq(Text)
  OBVIOUS
<1>2. <<>> = <<>> => Final(<<>>, c, x) = <<c>> ++ x /\ Final(<<>>, c, x)[1] = c
  BY <1>1, FinalIs
<1> QED BY <1>2

(* It can be read off part by part. *)
ListEnds(V, W, c, n) ==
  \A p \in Seq(V), q \in Seq(W), x, y \in Text :
    Len(p) = n /\ Final(p, c, x) = Final(q, c, y) => p = q /\ x = y

(* Nothing is left: the other list ends too. *)
LEMMA EmptyListEnds ==
  ASSUME NEW V \in SUBSET Words, NEW W \in SUBSET Words, NEW c \in Ends
  PROVE  ListEnds(V, W, c, 0)
<1> SUFFICES ASSUME NEW p \in Seq(V), NEW q \in Seq(W), NEW x \in Text, NEW y \in Text,
                    Len(p) = 0, Final(p, c, x) = Final(q, c, y)
             PROVE  p = q /\ x = y
  BY DEF ListEnds
<1>1. p \in Seq(Text) /\ q \in Seq(Text) /\ p = <<>>
  <2>1. V \subseteq Text /\ W \subseteq Text
    BY DEF Words
  <2> QED BY <2>1
<1>2. Final(p, c, x) = <<c>> ++ x /\ Final(p, c, x)[1] = c
  BY <1>1, FinalOfNone
<1>3. q = <<>>
  <2>1. c # Comma
    BY DEF Ends, Comma
  <2> QED BY <1>1, <1>2, <2>1, FinalIs
<1>4. <<c>> ++ x = <<c>> ++ y
  BY <1>1, <1>2, <1>3, FinalOfNone
<1>5. <<c>> \in Text
  BY Heads DEF Ends
<1> QED BY <1>1, <1>3, <1>4, <1>5, TextAlgebra

(* One more part: it can be cut off on both sides, and the rest can be read. *)
LEMMA NextListEnds ==
  ASSUME NEW V \in SUBSET Words, NEW W \in SUBSET Words, NEW c \in Ends, Cuts(V, W),
         NEW n \in Nat, ListEnds(V, W, c, n)
  PROVE  ListEnds(V, W, c, n + 1)
<1> SUFFICES ASSUME NEW p \in Seq(V), NEW q \in Seq(W), NEW x \in Text, NEW y \in Text,
                    Len(p) = n + 1, Final(p, c, x) = Final(q, c, y)
             PROVE  p = q /\ x = y
  BY DEF ListEnds
<1>1. p \in Seq(Text) /\ q \in Seq(Text)
  <2>1. V \subseteq Text /\ W \subseteq Text
    BY DEF Words
  <2> QED BY <2>1
<1>2. p # <<>> /\ Final(p, c, x)[1] = Comma
  <2>1. p # <<>>
    BY SeqParts
  <2> QED BY <1>1, <2>1, FinalIs
<1>3. q # <<>>
  <2>1. c # Comma
    BY DEF Ends, Comma
  <2>2. q = <<>> => Final(q, c, y)[1] = c
    BY <1>1, FinalIs
  <2> QED BY <1>2, <2>1, <2>2
<1>4. PICK a \in V, s \in Seq(V) : /\ a = p[1] /\ s = Tail(p) /\ p = <<a>> \o s /\ Len(s) = n
                                   /\ s \in Seq(Text)
  <2>1. /\ p[1] \in V /\ Tail(p) \in Seq(V) /\ Len(p) = Len(Tail(p)) + 1
        /\ p = <<p[1]>> \o Tail(p) /\ Len(Tail(p)) \in Nat
    BY <1>2, SeqParts
  <2>2. Tail(p) \in Seq(Text)
    BY <1>1, <1>2, SeqParts
  <2>3. Len(Tail(p)) = n
    BY <2>1
  <2> QED BY <2>1, <2>2, <2>3
<1>5. PICK b \in W, t \in Seq(W) : /\ b = q[1] /\ t = Tail(q) /\ q = <<b>> \o t
                                   /\ t \in Seq(Text)
  <2>1. q[1] \in W /\ Tail(q) \in Seq(W) /\ q = <<q[1]>> \o Tail(q)
    BY <1>3, SeqParts
  <2>2. Tail(q) \in Seq(Text)
    BY <1>1, <1>3, SeqParts
  <2> QED BY <2>1, <2>2
<1>6. PICK u \in Followers, v \in Followers : u = Final(s, c, x) /\ v = Final(t, c, y)
  BY <1>4, <1>5, FinalIs
<1>7. PICK k \in Text : k = <<Comma>>
  BY Heads DEF Comma
<1>8. k ++ (a ++ u) = k ++ (b ++ v)
  <2>1. Final(p, c, x) = k ++ (a ++ u)
    BY <1>1, <1>2, <1>4, <1>6, <1>7, FinalIs
  <2>2. Final(q, c, y) = k ++ (b ++ v)
    BY <1>1, <1>3, <1>5, <1>6, <1>7, FinalIs
  <2> QED BY <2>1, <2>2
<1>9. a ++ u = b ++ v
  <2>1. a \in Text /\ b \in Text /\ u \in Text /\ v \in Text
    BY DEF Words, Followers
  <2>2. a ++ u \in Text /\ b ++ v \in Text
    BY <2>1, TextAlgebra
  <2> QED BY <1>8, <2>2, TextAlgebra
<1>10. a = b /\ u = v
  BY <1>9 DEF Cuts
<1>11. s = t /\ x = y
  <2>1. Len(s) = n /\ Final(s, c, x) = Final(t, c, y)
    BY <1>4, <1>6, <1>10
  <2> QED BY <2>1 DEF ListEnds
<1> QED BY <1>4, <1>5, <1>10, <1>11

(* The parts between the delimiters, their number and what follows are read back in
   one way only, if the parts can be told from each other and from what follows. *)
LEMMA ListsAreUnambiguous ==
  ASSUME NEW V \in SUBSET Words, NEW W \in SUBSET Words, NEW c \in Ends, Cuts(V, W),
         NEW p \in Seq(V), NEW q \in Seq(W), NEW x \in Text, NEW y \in Text,
         Separated(p) ++ (<<c>> ++ x) = Separated(q) ++ (<<c>> ++ y)
  PROVE  p = q /\ x = y
<1>1. p \in Seq(Text) /\ q \in Seq(Text)
  <2>1. V \subseteq Text /\ W \subseteq Text
    BY DEF Words
  <2> QED BY <2>1
<1>2. PICK d \in Text, e \in Text, k \in Text : /\ d = <<c>> ++ x /\ e = <<c>> ++ y
                                                /\ d # <<>> /\ d[1] = c /\ e # <<>> /\ e[1] = c
                                                /\ k = <<Comma>>
  <2>1. c \in Nat /\ Comma \in Nat
    BY DEF Ends, Comma
  <2>2. <<c>> \in Text /\ <<c>> # <<>> /\ <<c>>[1] = c /\ <<Comma>> \in Text
    BY <2>1, Heads
  <2>3. \A z \in Text : <<c>> ++ z \in Text /\ <<c>> ++ z # <<>> /\ (<<c>> ++ z)[1] = c
    BY <2>2, Heads, TextAlgebra
  <2> QED BY <2>2, <2>3
<1>3. PICK r \in Text, s \in Text : r = Separated(p) /\ s = Separated(q)
  BY <1>1, SeparatedIs
<1>4. r ++ d = s ++ e
  BY <1>2, <1>3
<1>5. /\ p = <<>> => r = <<>>
      /\ q = <<>> => s = <<>>
  BY <1>1, <1>3, SeparatedIs
<1>6. ASSUME NEW Z \in SUBSET Words, NEW z \in Seq(Z), z # <<>>
      PROVE  Separated(z) # <<>> /\ Separated(z)[1] \notin Delimiters
  <2>1. Z \subseteq Text
    BY DEF Words
  <2>2. z \in Seq(Text)
    BY <2>1
  <2>3. z[1] \in Z /\ Tail(z) \in Seq(Text)
    BY <1>6, <2>2, SeqParts
  <2>4. PICK h \in Text, t \in Text : h = z[1] /\ t = After(Tail(z)) /\ h # <<>>
                                      /\ h[1] \notin Delimiters
    BY <2>3, AfterIs DEF Words
  <2>5. Separated(z) = h ++ t
    BY <1>6, <2>2, <2>4, SeparatedIs
  <2> QED BY <2>4, <2>5, Heads
<1>7. c \in Delimiters
  BY DEF Delimiters
<1>8. p = <<>> <=> q = <<>>
  <2>1. CASE p = <<>> /\ q # <<>>
    <3>1. s # <<>> /\ s[1] # c
      BY <1>3, <1>6, <1>7, <2>1
    <3>2. d = s ++ e
      BY <1>4, <1>5, <2>1, TextAlgebra
    <3> QED BY <1>2, <3>1, <3>2, Heads
  <2>2. CASE q = <<>> /\ p # <<>>
    <3>1. r # <<>> /\ r[1] # c
      BY <1>3, <1>6, <1>7, <2>2
    <3>2. r ++ d = e
      BY <1>4, <1>5, <2>2, TextAlgebra
    <3> QED BY <1>2, <3>1, <3>2, Heads
  <2> QED BY <2>1, <2>2
<1>9. CASE p = <<>>
  <2>1. <<c>> ++ x = <<c>> ++ y /\ <<c>> \in Text
    BY <1>2, <1>4, <1>5, <1>8, <1>9, TextAlgebra, Heads DEF Ends
  <2> QED BY <1>8, <1>9, <2>1, TextAlgebra
<1>10. CASE p # <<>>
  <2>1. k ++ r = After(p) /\ k ++ s = After(q)
    BY <1>1, <1>2, <1>3, <1>8, <1>10, SeparatedIs
  <2>2. (k ++ r) ++ d = (k ++ s) ++ e
    BY <1>4, TextAlgebra
  <2>3. Final(p, c, x) = Final(q, c, y)
    BY <1>2, <2>1, <2>2 DEF Final
  <2> DEFINE T == {n \in Nat : ListEnds(V, W, c, n)}
  <2>4. T = Nat
    <3>1. T \in SUBSET Nat /\ 0 \in T /\ \A n \in T : n + 1 \in T
      BY EmptyListEnds, NextListEnds
    <3> HIDE DEF T
    <3> QED BY <3>1, Induction
  <2>5. ListEnds(V, W, c, Len(p))
    BY <2>4, SeqParts
  <2> QED BY <2>3, <2>5 DEF ListEnds
<1> QED BY <1>9, <1>10

--------------------------------------------------------------------------------
(* Where numbers, and the members of objects, end. *)

(* A number ends where something else begins. *)
LEMMA NoLongerLiteral ==
  ASSUME NEW a \in Literals, NEW b \in Literals, NEW x \in Followers, NEW y \in Followers,
         a ++ x = b ++ y
  PROVE  ~ Len(a) < Len(b)
<1> SUFFICES ASSUME Len(a) < Len(b) PROVE FALSE
  OBVIOUS
<1>1. /\ a \in Seq(Nat) /\ b \in Seq(Nat) /\ x \in Seq(Nat) /\ y \in Seq(Nat)
      /\ \A i \in 1..Len(b) : b[i] \notin Delimiters
      /\ x = <<>> \/ x[1] \in Delimiters
  <2>1. a \in Text /\ b \in Text /\ \A i \in DOMAIN b : b[i] \notin Delimiters
    BY DEF Literals, Delimiters, Ends
  <2>2. x \in Text /\ y \in Text /\ (x = <<>> \/ x[1] \in Delimiters)
    BY DEF Followers
  <2>3. \A s \in Text : s \in Seq(Nat) /\ DOMAIN s = 1..Len(s)
    BY DEF Text
  <2> QED BY <2>1, <2>2, <2>3
<1>2. a \o x = b \o y
  BY DEF ++
<1>3. x # <<>>
  <2> SUFFICES ASSUME x = <<>> PROVE FALSE
    OBVIOUS
  <2>1. Len(a \o x) = Len(a) /\ Len(b \o y) >= Len(b) /\ Len(a) \in Nat /\ Len(b) \in Nat
    BY <1>1
  <2> QED BY <1>2, <2>1
<1>4. Len(a) + 1 \in 1..Len(b) /\ Len(a) \in Nat
  BY <1>1
<1>5. (b \o y)[Len(a) + 1] = b[Len(a) + 1]
  BY <1>1, <1>4
<1>6. (a \o x)[Len(a) + 1] = x[1]
  BY <1>1, <1>3
<1> QED BY <1>1, <1>2, <1>3, <1>4, <1>5, <1>6

(* Two of them before something else are the same. *)
LEMMA LiteralsEnd ==
  ASSUME NEW a \in Literals, NEW b \in Literals, NEW x \in Followers, NEW y \in Followers,
         a ++ x = b ++ y
  PROVE  a = b /\ x = y
<1>1. a \in Text /\ b \in Text /\ x \in Text /\ y \in Text
  BY DEF Literals, Followers
<1>2. Len(a) = Len(b)
  <2>1. ~ Len(a) < Len(b) /\ ~ Len(b) < Len(a)
    BY NoLongerLiteral
  <2> QED BY <1>1, <2>1, TextParts
<1> QED BY <1>1, <1>2, Cut

(* The members of an object, a key and a value each. *)
PairText(k, a) == Quoted(k) ++ (<<Colon>> ++ a)
PairTexts(V) == {PairText(k, a) : k \in Text, a \in V}

(* A string begins with its quote. *)
LEMMA QuotedBegins ==
  ASSUME NEW k \in Text
  PROVE  Quoted(k) \in Words /\ Quoted(k)[1] = DoubleQuote
<1>1. Quoted(k) = Quote ++ Rest(k, <<>>) /\ Rest(k, <<>>) \in Text
  <2>1. Quoted(k) = (Quote ++ Body(k)) ++ Quote /\ Body(k) \in Text
    BY BodyCons, Zenon DEF Quoted, Body, Escapes, Quote, ++
  <2> QED BY <2>1, TextAlgebra DEF Rest
<1>2. PICK q \in Text, r \in Text : q = Quote /\ q # <<>> /\ q[1] = DoubleQuote /\ r = Rest(k, <<>>)
  <2>1. Quote # <<>> /\ Quote[1] = DoubleQuote /\ Quote \in Text
    BY TextAlgebra DEF Quote
  <2> QED BY <1>1, <2>1
<1>3. q ++ r \in Text /\ q ++ r # <<>> /\ (q ++ r)[1] = DoubleQuote
  BY <1>2, Heads, TextAlgebra
<1>4. DoubleQuote \notin Delimiters
  BY DEF DoubleQuote, Delimiters, Comma, Ends
<1>5. q ++ r \in Words
  BY <1>3, <1>4 DEF Words
<1> QED BY <1>1, <1>2, <1>3, <1>5

(* A pair begins with the quote of its key; it is grouped from the right. *)
LEMMA PairIs ==
  ASSUME NEW k \in Text, NEW a \in Text
  PROVE  /\ PairText(k, a) \in Words
         /\ Quoted(k) \o <<Colon>> \o a = PairText(k, a)
<1>1. PICK q \in Text, c \in Text : q = Quoted(k) /\ q # <<>> /\ q[1] = DoubleQuote /\ c = <<Colon>>
  <2>1. Quoted(k) \in Text /\ Quoted(k) # <<>> /\ Quoted(k)[1] = DoubleQuote
    BY QuotedBegins DEF Words
  <2>2. <<Colon>> \in Text
    BY Heads DEF Colon
  <2> QED BY <2>1, <2>2
<1>2. (q ++ c) ++ a = q ++ (c ++ a) /\ q ++ (c ++ a) \in Text /\ c ++ a \in Text
  BY TextAlgebra
<1>3. Quoted(k) \o <<Colon>> \o a = PairText(k, a)
  BY <1>1, <1>2 DEF PairText, ++
<1>4. q ++ (c ++ a) # <<>> /\ (q ++ (c ++ a))[1] = DoubleQuote
  BY <1>1, <1>2, Heads
<1>5. DoubleQuote \notin Delimiters
  BY DEF DoubleQuote, Delimiters, Comma, Ends
<1> QED BY <1>1, <1>2, <1>3, <1>4, <1>5 DEF PairText, Words

(* The same with what follows. *)
LEMMA PairThen ==
  ASSUME NEW k \in Text, NEW a \in Text, NEW x \in Text
  PROVE  PairText(k, a) ++ x = Quoted(k) ++ (<<Colon>> ++ (a ++ x))
<1>1. PICK q \in Text, c \in Text : q = Quoted(k) /\ c = <<Colon>>
  <2>1. Quoted(k) \in Text
    BY QuotedBegins DEF Words
  <2>2. <<Colon>> \in Text
    BY Heads DEF Colon
  <2> QED BY <2>1, <2>2
<1>2. (q ++ (c ++ a)) ++ x = q ++ (c ++ (a ++ x))
  BY TextAlgebra
<1> QED BY <1>1, <1>2 DEF PairText

(* The key and the text of the value can be told from a pair. *)
LEMMA PairsTell ==
  ASSUME NEW k \in Text, NEW l \in Text, NEW a \in Text, NEW b \in Text,
         PairText(k, a) = PairText(l, b)
  PROVE  k = l /\ a = b
<1>1. PICK c \in Text, d \in Text, e \in Text :
        c = <<Colon>> /\ d = <<Colon>> ++ a /\ e = <<Colon>> ++ b
  BY Heads, TextAlgebra DEF Colon
<1>2. Quoted(k) ++ d = Quoted(l) ++ e
  BY <1>1 DEF PairText
<1>3. k = l /\ d = e
  BY <1>2, QuotesAreUnambiguous
<1>4. c ++ a = c ++ b
  BY <1>1, <1>3
<1> QED BY <1>3, <1>4, TextAlgebra

(* If the texts of values can be cut from what follows, so can the pairs. *)
LEMMA PairsCut ==
  ASSUME NEW V \in SUBSET Words, NEW W \in SUBSET Words, Cuts(V, W)
  PROVE  /\ PairTexts(V) \in SUBSET Words /\ PairTexts(W) \in SUBSET Words
         /\ Cuts(PairTexts(V), PairTexts(W))
<1>1. V \subseteq Text /\ W \subseteq Text /\ Followers \subseteq Text
  BY DEF Words, Followers
<1>2. PairTexts(V) \in SUBSET Words /\ PairTexts(W) \in SUBSET Words
  BY <1>1, PairIs DEF PairTexts
<1>3. ASSUME NEW k \in Text, NEW l \in Text, NEW a \in V, NEW b \in W,
             NEW x \in Followers, NEW y \in Followers, PairText(k, a) ++ x = PairText(l, b) ++ y
      PROVE  k = l /\ a = b /\ x = y
  <2>1. a \in Text /\ b \in Text /\ x \in Text /\ y \in Text
    BY <1>1
  <2>2. PICK c \in Text, d \in Text, e \in Text :
          c = <<Colon>> /\ d = <<Colon>> ++ (a ++ x) /\ e = <<Colon>> ++ (b ++ y)
    BY <2>1, Heads, TextAlgebra DEF Colon
  <2>3. Quoted(k) ++ d = Quoted(l) ++ e
    <3>1. PairText(k, a) ++ x = Quoted(k) ++ (<<Colon>> ++ (a ++ x))
      BY <2>1, PairThen
    <3>2. PairText(l, b) ++ y = Quoted(l) ++ (<<Colon>> ++ (b ++ y))
      BY <2>1, PairThen
    <3> QED BY <1>3, <2>2, <3>1, <3>2, Zenon
  <2>4. k = l /\ d = e
    BY <2>3, QuotesAreUnambiguous
  <2>5. a ++ x = b ++ y
    <3>1. a ++ x \in Text /\ b ++ y \in Text
      BY <2>1, TextAlgebra
    <3>2. c ++ (a ++ x) = c ++ (b ++ y)
      BY <2>2, <2>4
    <3> QED BY <3>1, <3>2, TextAlgebra
  <2> QED BY <2>4, <2>5 DEF Cuts
<1>4. Cuts(PairTexts(V), PairTexts(W))
  BY <1>3 DEF Cuts, PairTexts
<1> QED BY <1>2, <1>4

(* Induction over values: what holds of a value if it holds of its members. *)
LEMMA NestingInduction ==
  ASSUME NEW S \in SUBSET Values,
         \A v \in Values : (\A i \in DOMAIN v.members : v.members[i].value \in S) => v \in S
  PROVE  S = Values
<1> DEFINE T == {n \in Nat : \A v \in Values : Nesting[v] < n => v \in S}
<1>1. T = Nat
  <2>1. 0 \in T
    BY NestingDecreases
  <2>2. ASSUME NEW n \in T PROVE n + 1 \in T
    <3>1. ASSUME NEW v \in Values, Nesting[v] < n + 1 PROVE v \in S
      <4>1. ASSUME NEW i \in DOMAIN v.members PROVE v.members[i].value \in S
        <5>1. /\ Nesting[v] \in Nat /\ v.members[i].value \in Values
              /\ Nesting[v.members[i].value] < Nesting[v]
          BY NestingDecreases
        <5>2. Nesting[v.members[i].value] \in Nat
          BY <5>1, NestingDecreases
        <5> QED BY <2>2, <3>1, <5>1, <5>2
      <4> QED BY <4>1
    <3> QED BY <2>2, <3>1
  <2>3. T \in SUBSET Nat
    OBVIOUS
  <2> HIDE DEF T
  <2> QED BY <2>1, <2>2, <2>3, Induction
<1>2. ASSUME NEW v \in Values PROVE v \in S
  <2>1. PICK n \in Nat : n = Nesting[v]
    BY NestingDecreases
  <2>2. n + 1 \in T /\ n < n + 1
    <3> HIDE DEF T
    <3> QED BY <1>1
  <2> QED BY <2>1, <2>2
<1> QED BY <1>2

--------------------------------------------------------------------------------
(* The forms of what is written. *)

Items(v) == ItemsOf(v, WriteCanonical)
Pairs(v) == PairsOf(Sorted(v.members), WriteCanonical)
WrittenIn(V, v) == \A i \in DOMAIN v.members : WriteCanonical[v.members[i].value] \in V

(* The items of an array and the pairs of an object, if the texts of the members are
   in V. *)
LEMMA PartsOf ==
  ASSUME NEW V \in SUBSET Words, NEW v \in Values, WrittenIn(V, v)
  PROVE  /\ Items(v) \in Seq(V) /\ Len(Items(v)) = Len(v.members)
         /\ v.kind = "object" =>
              /\ Pairs(v) \in Seq(PairTexts(V)) /\ Len(Pairs(v)) = Len(v.members)
              /\ \A i \in 1..Len(v.members) :
                   Pairs(v)[i] = PairText(Sorted(v.members)[i].key,
                                          WriteCanonical[Sorted(v.members)[i].value])
<1>1. Len(v.members) \in Nat /\ DOMAIN v.members = 1..Len(v.members)
  BY ValueParts
<1>2. Items(v) \in Seq(V) /\ Len(Items(v)) = Len(v.members)
  <2>1. PICK f : f = [i \in 1..Len(v.members) |-> WriteCanonical[v.members[i].value]]
    OBVIOUS
  <2>2. f \in [1..Len(v.members) -> V]
    BY <1>1, <2>1 DEF WrittenIn
  <2>3. f \in Seq(V) /\ Len(f) = Len(v.members)
    BY <1>1, <2>2
  <2> QED BY <1>1, <2>1, <2>3 DEF Items, ItemsOf
<1>3. ASSUME v.kind = "object"
      PROVE  /\ Pairs(v) \in Seq(PairTexts(V)) /\ Len(Pairs(v)) = Len(v.members)
             /\ \A i \in 1..Len(v.members) :
                   Pairs(v)[i] = PairText(Sorted(v.members)[i].key,
                                          WriteCanonical[Sorted(v.members)[i].value])
  <2>1. PICK n \in Nat : n = Len(v.members)
    BY <1>1
  <2>2. PICK s \in [1..n -> Members] : s = Sorted(v.members) /\ Range(s) = Range(v.members)
    BY <1>1, <1>3, <2>1, SortedMembers
  <2>3. ASSUME NEW i \in 1..n
        PROVE  /\ s[i].key \in Text /\ WriteCanonical[s[i].value] \in V
               /\ PairOf(s[i], WriteCanonical) = PairText(s[i].key, WriteCanonical[s[i].value])
    <3>1. s[i].key \in Text
      BY DEF Members
    <3>2. s[i] \in Range(v.members)
      BY <2>2 DEF Range
    <3>3. WriteCanonical[s[i].value] \in V
      BY <3>2 DEF Range, WrittenIn
    <3>4. WriteCanonical[s[i].value] \in Text
      BY <3>3 DEF Words
    <3> QED BY <3>1, <3>3, <3>4, PairIs DEF PairOf
  <2>4. PICK f : f = [i \in 1..n |-> PairOf(s[i], WriteCanonical)]
    OBVIOUS
  <2>5. \A i \in 1..n : /\ f[i] \in PairTexts(V)
                        /\ f[i] = PairText(s[i].key, WriteCanonical[s[i].value])
    BY <2>3, <2>4 DEF PairTexts
  <2>6. f \in [1..n -> PairTexts(V)]
    BY <2>4, <2>5
  <2>7. f \in Seq(PairTexts(V)) /\ Len(f) = n
    BY <2>6
  <2>8. Pairs(v) = f
    BY <2>2, <2>4 DEF Pairs, PairsOf
  <2> QED BY <2>1, <2>2, <2>5, <2>7, <2>8
<1> QED BY <1>2, <1>3

(* Between brackets or braces. *)
Bracketed(b, p, c) == <<b>> \o Separated(p) \o <<c>>

(* It is grouped from the right. *)
LEMMA EnclosedIs ==
  ASSUME NEW p \in Seq(Text), NEW b \in {91, 123}, NEW c \in Ends
  PROVE  \E h, r, e \in Text :
           /\ h = <<b>> /\ r = Separated(p) /\ e = <<c>> /\ h # <<>> /\ h[1] = b
           /\ Bracketed(b, p, c) = h ++ (r ++ e) /\ r ++ e \in Text
<1>1. PICK r \in Text : r = Separated(p)
  BY SeparatedIs
<1>2. PICK h \in Text, e \in Text : h = <<b>> /\ e = <<c>> /\ h # <<>> /\ h[1] = b
  <2>1. b \in Nat /\ c \in Nat
    BY DEF Ends
  <2>2. <<b>> \in Text /\ <<b>> # <<>> /\ <<b>>[1] = b
    BY <2>1, Heads
  <2>3. <<c>> \in Text
    BY <2>1, Heads
  <2> QED BY <2>2, <2>3
<1>3. (h ++ r) ++ e = h ++ (r ++ e) /\ r ++ e \in Text
  BY TextAlgebra
<1>4. Bracketed(b, p, c) = (h ++ r) ++ e
  BY <1>1, <1>2 DEF Bracketed, ++
<1> QED BY <1>1, <1>2, <1>3, <1>4

(* So is what follows it. *)
LEMMA EnclosedThen ==
  ASSUME NEW p \in Seq(Text), NEW b \in {91, 123}, NEW c \in Ends,
         NEW x \in Text
  PROVE  Bracketed(b, p, c) ++ x = <<b>> ++ (Separated(p) ++ (<<c>> ++ x))
<1>1. PICK h \in Text, r \in Text, e \in Text :
        h = <<b>> /\ r = Separated(p) /\ e = <<c>> /\ Bracketed(b, p, c) = h ++ (r ++ e)
  BY EnclosedIs
<1>2. (h ++ (r ++ e)) ++ x = h ++ (r ++ (e ++ x))
  BY TextAlgebra
<1> QED BY <1>1, <1>2

(* It begins with the opening one. *)
LEMMA EnclosedBegins ==
  ASSUME NEW p \in Seq(Text), NEW b \in {91, 123}, NEW c \in Ends
  PROVE  Bracketed(b, p, c) \in Words /\ Bracketed(b, p, c)[1] = b
<1>1. PICK h \in Text, d \in Text : Bracketed(b, p, c) = h ++ d /\ h # <<>> /\ h[1] = b
  BY EnclosedIs
<1>2. h ++ d \in Text /\ h ++ d # <<>> /\ (h ++ d)[1] = b
  BY <1>1, Heads, TextAlgebra
<1>3. b \notin Delimiters
  BY DEF Delimiters, Ends, Comma
<1>4. h ++ d \in Words
  BY <1>2, <1>3 DEF Words
<1> QED BY <1>1, <1>2, <1>4

First(kind) == CASE kind = "string" -> DoubleQuote [] kind = "array" -> 91 [] kind = "object" -> 123

(* A value begins with what its kind begins with. *)
LEMMA FirstIs ==
  ASSUME NEW V \in SUBSET Words, NEW v \in Values, WrittenIn(V, v)
  PROVE  /\ WriteCanonical[v] \in Words
         /\ v.kind = "atom" => /\ WriteCanonical[v] = v.text /\ v.text \in Literals
                               /\ v.text[1] \notin {DoubleQuote, 91, 123}
         /\ v.kind # "atom" => WriteCanonical[v][1] = First(v.kind)
         /\ v.kind = "string" => WriteCanonical[v] = Quoted(v.text)
         /\ v.kind = "array" => WriteCanonical[v] = Bracketed(91, Items(v), 93)
         /\ v.kind = "object" => WriteCanonical[v] = Bracketed(123, Pairs(v), 125)
<1>1. /\ WriteCanonical[v] = Written(v, WriteCanonical)
      /\ v.kind \in {"atom", "string", "array", "object"}
  BY WriteCanonicalIs, ValueParts
<1>2. CASE v.kind = "atom"
  <2>1. WriteCanonical[v] = v.text /\ v.text \in Literals
    BY <1>1, <1>2, WrittenByKind, ValueParts
  <2>2. ASSUME NEW t \in Literals PROVE t \in Words /\ t[1] \notin {DoubleQuote, 91, 123}
    <3>1. t \in Seq(Nat) /\ t # <<>>
      BY DEF Literals, Text
    <3>2. 1 \in DOMAIN t
      BY <3>1
    <3>3. t[1] \notin {DoubleQuote, Comma, Colon} \cup {91, 93, 123, 125}
      BY <3>2 DEF Literals
    <3> QED BY <3>1, <3>3 DEF Words, Delimiters, Ends, Text
  <2> QED BY <1>2, <2>1, <2>2
<1>3. CASE v.kind = "string"
  <2>1. WriteCanonical[v] = Quoted(v.text) /\ v.text \in Text
    BY <1>1, <1>3, WrittenByKind, ValueParts
  <2>2. ASSUME NEW k \in Text PROVE Quoted(k) \in Words /\ Quoted(k)[1] = DoubleQuote
    BY QuotedBegins
  <2> QED BY <1>3, <2>1, <2>2 DEF First
<1>4. CASE v.kind = "array"
  <2>1. WriteCanonical[v] = Bracketed(91, Items(v), 93)
    BY <1>1, <1>4, WrittenByKind DEF Items, Bracketed
  <2>2. PICK p \in Seq(Text) : p = Items(v)
    <3>1. V \subseteq Text /\ Items(v) \in Seq(V)
      BY PartsOf DEF Words
    <3> QED BY <3>1
  <2>3. /\ Bracketed(91, p, 93) \in Words
        /\ Bracketed(91, p, 93)[1] = 91
    BY EnclosedBegins DEF Ends
  <2> QED BY <1>4, <2>1, <2>2, <2>3 DEF First
<1>5. CASE v.kind = "object"
  <2>1. WriteCanonical[v] = Bracketed(123, Pairs(v), 125)
    BY <1>1, <1>5, WrittenByKind DEF Pairs, Bracketed
  <2>2. PICK p \in Seq(Text) : p = Pairs(v)
    <3>1. \A a \in V : a \in Text
      BY DEF Words
    <3>2. \A k \in Text, a \in V : PairText(k, a) \in Text
      BY <3>1, PairIs DEF Words
    <3>3. PairTexts(V) \subseteq Text
      BY <3>2 DEF PairTexts
    <3>4. Pairs(v) \in Seq(PairTexts(V))
      BY <1>5, PartsOf
    <3> QED BY <3>3, <3>4
  <2>4. /\ Bracketed(123, p, 125) \in Words
        /\ Bracketed(123, p, 125)[1] = 123
    BY EnclosedBegins DEF Ends
  <2> QED BY <1>5, <2>1, <2>2, <2>4 DEF First
<1> QED BY <1>1, <1>2, <1>3, <1>4, <1>5

(* Every value is written as a text that no comma or closing delimiter begins. *)
LEMMA AllAreWords == \A v \in Values : WriteCanonical[v] \in Words
<1> DEFINE S == {v \in Values : WriteCanonical[v] \in Words}
<1>1. ASSUME NEW v \in Values, \A i \in DOMAIN v.members : v.members[i].value \in S
      PROVE  v \in S
  <2>1. WrittenIn(Words, v)
    BY <1>1 DEF WrittenIn
  <2> QED BY <2>1, FirstIs
<1>2. S \in SUBSET Values
  OBVIOUS
<1>3. S = Values
  <2> HIDE DEF S
  <2> QED BY <1>1, <1>2, NestingInduction
<1> QED BY <1>3

--------------------------------------------------------------------------------
(* What is written can be read in one way only. *)

(* The same in the delimiters. *)
LEMMA BracketsAreUnambiguous ==
  ASSUME NEW V \in SUBSET Words, NEW W \in SUBSET Words, Cuts(V, W),
         NEW p \in Seq(V), NEW q \in Seq(W), NEW b \in {91, 123}, NEW c \in Ends,
         NEW x \in Text, NEW y \in Text, Bracketed(b, p, c) ++ x = Bracketed(b, q, c) ++ y
  PROVE  p = q /\ x = y
<1>0. p \in Seq(Text) /\ q \in Seq(Text)
  <2>1. V \subseteq Text /\ W \subseteq Text
    BY DEF Words
  <2> QED BY <2>1
<1>1. /\ Bracketed(b, p, c) ++ x = <<b>> ++ (Separated(p) ++ (<<c>> ++ x))
      /\ Bracketed(b, q, c) ++ y = <<b>> ++ (Separated(q) ++ (<<c>> ++ y))
  BY <1>0, EnclosedThen
<1>2. PICK h \in Text, d \in Text, e \in Text :
        /\ h = <<b>>
        /\ d = Separated(p) ++ (<<c>> ++ x) /\ e = Separated(q) ++ (<<c>> ++ y)
  <2>3. Separated(p) \in Text /\ Separated(q) \in Text
    BY <1>0, SeparatedIs
  <2>4. b \in Nat /\ c \in Nat
    BY DEF Ends
  <2>5. <<b>> \in Text /\ <<c>> \in Text
    BY <2>4, Heads
  <2>6. <<c>> ++ x \in Text /\ <<c>> ++ y \in Text
    BY <2>5, TextAlgebra
  <2>7. Separated(p) ++ (<<c>> ++ x) \in Text /\ Separated(q) ++ (<<c>> ++ y) \in Text
    BY <2>3, <2>6, TextAlgebra
  <2> QED BY <2>5, <2>7
<1>3. h ++ d = h ++ e
  BY <1>1, <1>2
<1>4. d = e
  BY <1>3, TextAlgebra
<1>5. Separated(p) ++ (<<c>> ++ x) = Separated(q) ++ (<<c>> ++ y)
  BY <1>2, <1>4
<1> QED BY <1>5, ListsAreUnambiguous

(* What is written for a value of each kind, in terms of its parts. *)
LEMMA FormIs ==
  ASSUME NEW v \in Values
  PROVE  /\ WriteCanonical[v] \in Words
         /\ v.kind = "atom" => /\ WriteCanonical[v] = v.text /\ v.text \in Literals
                               /\ v.text[1] \notin {DoubleQuote, 91, 123}
         /\ v.kind # "atom" => WriteCanonical[v][1] = First(v.kind)
         /\ v.kind = "string" => WriteCanonical[v] = Quoted(v.text)
         /\ v.kind = "array" => WriteCanonical[v] = Bracketed(91, Items(v), 93)
         /\ v.kind = "object" => WriteCanonical[v] = Bracketed(123, Pairs(v), 125)
<1>1. WrittenIn(Words, v)
  BY AllAreWords, NestingDecreases DEF WrittenIn
<1>2. Words \in SUBSET Words
  OBVIOUS
<1> QED BY <1>1, <1>2, FirstIs

(* Of each kind. *)
LEMMA FormOfAtom ==
  ASSUME NEW v \in Values, v.kind = "atom"
  PROVE  WriteCanonical[v] = v.text /\ v.text \in Literals
BY FormIs

LEMMA FormOfString ==
  ASSUME NEW v \in Values, v.kind = "string"
  PROVE  WriteCanonical[v] = Quoted(v.text)
BY FormIs

LEMMA FormOfArray ==
  ASSUME NEW v \in Values, v.kind = "array"
  PROVE  WriteCanonical[v] = Bracketed(91, Items(v), 93)
BY FormIs

LEMMA FormOfObject ==
  ASSUME NEW v \in Values, v.kind = "object"
  PROVE  WriteCanonical[v] = Bracketed(123, Pairs(v), 125)
BY FormIs

(* The first character tells the kind. *)
LEMMA SameKind ==
  ASSUME NEW v \in Values, NEW w \in Values, NEW x \in Text, NEW y \in Text,
         WriteCanonical[v] ++ x = WriteCanonical[w] ++ y
  PROVE  v.kind = w.kind
<1>1. PICK a \in Words, b \in Words : a = WriteCanonical[v] /\ b = WriteCanonical[w]
  BY FormIs
<1>2. a[1] = b[1]
  <2>1. a \in Text /\ a # <<>> /\ b \in Text /\ b # <<>>
    BY DEF Words
  <2>2. (a ++ x)[1] = a[1] /\ (b ++ y)[1] = b[1]
    BY <2>1, Heads
  <2> QED BY <1>1, <2>2
<1>3. /\ v.kind = "atom" => a[1] \notin {34, 91, 123}
      /\ v.kind # "atom" => a[1] = First(v.kind)
  BY <1>1, FormIs DEF DoubleQuote
<1>4. /\ w.kind = "atom" => b[1] \notin {34, 91, 123}
      /\ w.kind # "atom" => b[1] = First(w.kind)
  BY <1>1, FormIs DEF DoubleQuote
<1>5. /\ v.kind \in {"atom", "string", "array", "object"}
      /\ w.kind \in {"atom", "string", "array", "object"}
  BY ValueParts
<1>6. First("string") = 34 /\ First("array") = 91 /\ First("object") = 123
  BY DEF First, DoubleQuote
<1> QED BY <1>2, <1>3, <1>4, <1>5, <1>6

AllTexts == {WriteCanonical[v] : v \in Values}

(* The texts of all values, and of the members of each. *)
LEMMA AllTextsAreWords ==
  AllTexts \in SUBSET Words /\ \A v \in Values : WrittenIn(AllTexts, v)
<1>1. AllTexts \in SUBSET Words
  BY AllAreWords DEF AllTexts
<1>2. \A v \in Values : WrittenIn(AllTexts, v)
  BY NestingDecreases DEF AllTexts, WrittenIn
<1> QED BY <1>1, <1>2

(* Where a value ends, and which it was, can be told from what is written: by induction
   on its members. *)
LEMMA ValuesAreUnambiguous == Cuts(AllTexts, AllTexts)
<1> DEFINE S == {v \in Values : Cuts({WriteCanonical[v]}, AllTexts)}
<1>1. ASSUME NEW v \in Values, \A i \in DOMAIN v.members : v.members[i].value \in S
      PROVE  Cuts({WriteCanonical[v]}, AllTexts)
  <2> DEFINE V == {WriteCanonical[v.members[i].value] : i \in DOMAIN v.members}
  <2>1. Cuts(V, AllTexts)
    BY <1>1 DEF Cuts
  <2>2. V \in SUBSET Words
    BY AllAreWords, NestingDecreases
  <2>3. WrittenIn(V, v)
    BY DEF WrittenIn
  <2> HIDE DEF V
  <2> SUFFICES ASSUME NEW w \in Values, NEW x \in Followers, NEW y \in Followers,
                      WriteCanonical[v] ++ x = WriteCanonical[w] ++ y
               PROVE  WriteCanonical[v] = WriteCanonical[w] /\ x = y
    BY DEF Cuts, AllTexts
  <2>4. x \in Text /\ y \in Text
    BY DEF Followers
  <2>5. v.kind = w.kind /\ v.kind \in {"atom", "string", "array", "object"}
    BY <2>4, SameKind, ValueParts
  <2>6. CASE v.kind = "atom"
    <3>1. PICK a \in Literals, b \in Literals : a = WriteCanonical[v] /\ b = WriteCanonical[w]
      BY <2>5, <2>6, FormOfAtom
    <3>2. a ++ x = b ++ y
      BY <3>1
    <3> QED BY <3>1, <3>2, LiteralsEnd
  <2>7. CASE v.kind = "string"
    <3>1. PICK s \in Text, t \in Text : s = v.text /\ t = w.text
      BY <2>5, <2>7, ValueParts
    <3>2. WriteCanonical[v] = Quoted(s) /\ WriteCanonical[w] = Quoted(t)
      BY <2>5, <2>7, <3>1, FormOfString
    <3>3. s = t /\ x = y
      BY <2>4, <3>2, QuotesAreUnambiguous
    <3> QED BY <3>2, <3>3
  <2>8. CASE v.kind = "array"
    <3>1. PICK p \in Seq(V), q \in Seq(AllTexts) : p = Items(v) /\ q = Items(w)
      BY <2>2, <2>3, AllTextsAreWords, PartsOf
    <3>2. WriteCanonical[v] = Bracketed(91, p, 93) /\ WriteCanonical[w] = Bracketed(91, q, 93)
      BY <2>5, <2>8, <3>1, FormOfArray
    <3>3. Bracketed(91, p, 93) ++ x = Bracketed(91, q, 93) ++ y
      BY <3>2
    <3>4. p = q /\ x = y
      <4>1. 93 \in Ends
        BY DEF Ends
      <4> QED BY <2>1, <2>2, <2>4, <3>3, <4>1, AllTextsAreWords, BracketsAreUnambiguous
    <3> QED BY <3>2, <3>4
  <2>9. CASE v.kind = "object"
    <3>1. PICK p \in Seq(PairTexts(V)), q \in Seq(PairTexts(AllTexts)) :
            p = Pairs(v) /\ q = Pairs(w)
      <4>1. Pairs(v) \in Seq(PairTexts(V))
        BY <2>2, <2>3, <2>9, PartsOf
      <4>2. Pairs(w) \in Seq(PairTexts(AllTexts))
        BY <2>5, <2>9, AllTextsAreWords, PartsOf
      <4> QED BY <4>1, <4>2
    <3>2. WriteCanonical[v] = Bracketed(123, p, 125) /\ WriteCanonical[w] = Bracketed(123, q, 125)
      BY <2>5, <2>9, <3>1, FormOfObject
    <3>3. Bracketed(123, p, 125) ++ x = Bracketed(123, q, 125) ++ y
      BY <3>2
    <3>4. /\ PairTexts(V) \in SUBSET Words /\ PairTexts(AllTexts) \in SUBSET Words
          /\ Cuts(PairTexts(V), PairTexts(AllTexts))
      BY <2>1, <2>2, AllTextsAreWords, PairsCut
    <3>5. p = q /\ x = y
      <4>1. 125 \in Ends
        BY DEF Ends
      <4> QED BY <2>4, <3>3, <3>4, <4>1, BracketsAreUnambiguous
    <3> QED BY <3>2, <3>5
  <2> QED BY <2>5, <2>6, <2>7, <2>8, <2>9
<1>2. S = Values
  <2>1. S \in SUBSET Values
    OBVIOUS
  <2>2. ASSUME NEW v \in Values, \A i \in DOMAIN v.members : v.members[i].value \in S
        PROVE  v \in S
    BY <1>1, <2>2
  <2> HIDE DEF S
  <2> QED BY <2>1, <2>2, NestingInduction
<1>3. \A v \in Values : Cuts({WriteCanonical[v]}, AllTexts)
  BY <1>2
<1> QED BY <1>3 DEF Cuts, AllTexts

(* So no two arrays or objects are written alike. *)
LEMMA PartsAreUnambiguous ==
  ASSUME NEW v \in Values, NEW w \in Values, WriteCanonical[v] = WriteCanonical[w]
  PROVE  /\ v.kind = w.kind
         /\ v.kind \in {"atom", "string"} => v.text = w.text
         /\ v.kind = "array" => Items(v) = Items(w)
         /\ v.kind = "object" => Pairs(v) = Pairs(w)
<1>0. PICK a \in Text, x \in Text : a = WriteCanonical[v] /\ x = <<>> /\ a ++ x = a
  <2>1. WriteCanonical[v] \in Text
    BY FormIs DEF Words
  <2> QED BY <2>1, TextAlgebra
<1>1. v.kind = w.kind
  <2>1. WriteCanonical[v] ++ x = WriteCanonical[w] ++ x
    OBVIOUS
  <2> QED BY <2>1, SameKind
<1>2. v.kind \in {"atom", "string", "array", "object"}
  BY ValueParts
<1>3. CASE v.kind = "atom"
  BY <1>1, <1>3, FormOfAtom
<1>4. CASE v.kind = "string"
  <2>1. PICK s \in Text, t \in Text : s = v.text /\ t = w.text
    BY <1>1, <1>4, ValueParts
  <2>2. Quoted(s) ++ x = Quoted(t) ++ x
    <3>1. WriteCanonical[v] = Quoted(s) /\ WriteCanonical[w] = Quoted(t)
      BY <1>1, <1>4, <2>1, FormOfString
    <3> QED BY <3>1
  <2>3. s = t
    BY <2>2, QuotesAreUnambiguous
  <2> QED BY <1>1, <1>4, <2>1, <2>3
<1>5. CASE v.kind = "array"
  <2>1. PICK p \in Seq(AllTexts), q \in Seq(AllTexts) : p = Items(v) /\ q = Items(w)
    BY AllTextsAreWords, PartsOf
  <2>2. Bracketed(91, p, 93) ++ x = Bracketed(91, q, 93) ++ x
    <3>1. WriteCanonical[v] = Bracketed(91, p, 93) /\ WriteCanonical[w] = Bracketed(91, q, 93)
      BY <1>1, <1>5, <2>1, FormOfArray
    <3> QED BY <3>1
  <2>3. 93 \in Ends
    BY DEF Ends
  <2>4. p = q
    BY <2>2, <2>3, AllTextsAreWords, ValuesAreUnambiguous, BracketsAreUnambiguous
  <2> QED BY <1>1, <1>5, <2>1, <2>4
<1>6. CASE v.kind = "object"
  <2>1. PICK p \in Seq(PairTexts(AllTexts)), q \in Seq(PairTexts(AllTexts)) :
          p = Pairs(v) /\ q = Pairs(w)
    <3>1. Pairs(v) \in Seq(PairTexts(AllTexts)) /\ Pairs(w) \in Seq(PairTexts(AllTexts))
      BY <1>1, <1>6, AllTextsAreWords, PartsOf
    <3> QED BY <3>1
  <2>2. Bracketed(123, p, 125) ++ x = Bracketed(123, q, 125) ++ x
    <3>1. WriteCanonical[v] = Bracketed(123, p, 125) /\ WriteCanonical[w] = Bracketed(123, q, 125)
      BY <1>1, <1>6, <2>1, FormOfObject
    <3> QED BY <3>1
  <2>3. 125 \in Ends
    BY DEF Ends
  <2>4. PairTexts(AllTexts) \in SUBSET Words /\ Cuts(PairTexts(AllTexts), PairTexts(AllTexts))
    BY AllTextsAreWords, ValuesAreUnambiguous, PairsCut
  <2>5. p = q
    BY <2>2, <2>3, <2>4, BracketsAreUnambiguous
  <2> QED BY <1>1, <1>6, <2>1, <2>5
<1> QED BY <1>2, <1>3, <1>4, <1>5, <1>6

--------------------------------------------------------------------------------
(* What is written and what is meant. *)

Says(m) == <<m.key, Meaning[m.value]>>
Said(M) == {Says(m) : m \in M}
InOrder(s) == [i \in DOMAIN s |-> Says(s[i])]

(* The meaning of a value: of an object as a set, of an array in order. *)
LEMMA MeaningParts ==
  ASSUME NEW v \in Values
  PROVE  Meaning[v] = <<v.kind, v.text, IF v.kind = "object" THEN Said(Range(v.members))
                                        ELSE InOrder(v.members)>>
<1>1. {Says(v.members[i]) : i \in DOMAIN v.members} = Said(Range(v.members))
  BY DEF Said, Range
<1>2. Meaning[v] = <<v.kind, v.text,
                     IF v.kind = "object" THEN {Says(v.members[i]) : i \in DOMAIN v.members}
                     ELSE [i \in DOMAIN v.members |-> Says(v.members[i])]>>
  BY MeaningIs, Zenon DEF Meant, Says
<1> QED BY <1>1, <1>2, Zenon DEF InOrder

(* What is written alike means the same. *)
AsMeant(v) == \A w \in Values : WriteCanonical[v] = WriteCanonical[w] => Meaning[v] = Meaning[w]

(* By induction on the members of the first value. *)
LEMMA WrittenAsMeant == \A v \in Values : AsMeant(v)
<1> DEFINE S == {v \in Values : AsMeant(v)}
<1>1. ASSUME NEW v \in Values, \A i \in DOMAIN v.members : AsMeant(v.members[i].value)
      PROVE  AsMeant(v)
  <2> SUFFICES ASSUME NEW w \in Values, WriteCanonical[v] = WriteCanonical[w]
               PROVE  Meaning[v] = Meaning[w]
    BY DEF AsMeant
  <2>1. v.kind = w.kind /\ v.kind \in {"atom", "string", "array", "object"}
    BY PartsAreUnambiguous, ValueParts
  <2>2. PICK n \in Nat : n = Len(v.members) /\ DOMAIN v.members = 1..n
    BY ValueParts
  <2>3. PICK m \in Nat : m = Len(w.members) /\ DOMAIN w.members = 1..m
    BY ValueParts
  <2>4. CASE v.kind \in {"atom", "string"}
    <3>1. v.text = w.text /\ v.members = w.members
      BY <2>1, <2>4, PartsAreUnambiguous, ValueParts
    <3> QED BY <2>1, <3>1, MeaningParts
  <2>5. CASE v.kind = "array"
    <3>1. Items(v) = Items(w) /\ v.text = w.text
      BY <2>1, <2>5, PartsAreUnambiguous, ValueParts
    <3>2. n = m
      <4>1. Len(Items(v)) = n /\ Len(Items(w)) = m
        BY <2>2, <2>3, AllTextsAreWords, PartsOf
      <4> QED BY <3>1, <4>1
    <3>3. ASSUME NEW i \in 1..n PROVE Says(v.members[i]) = Says(w.members[i])
      <4>1. Items(v)[i] = WriteCanonical[v.members[i].value]
        BY <2>2 DEF Items, ItemsOf
      <4>2. Items(w)[i] = WriteCanonical[w.members[i].value]
        BY <2>3, <3>2 DEF Items, ItemsOf
      <4>3. v.members[i].key = <<>> /\ w.members[i].key = <<>> /\ w.members[i].value \in Values
        BY <2>1, <2>2, <2>3, <2>5, <3>2, ValueParts, NestingDecreases
      <4>4. AsMeant(v.members[i].value)
        BY <1>1, <2>2
      <4>5. WriteCanonical[v.members[i].value] = WriteCanonical[w.members[i].value]
        BY <3>1, <4>1, <4>2
      <4>6. Meaning[v.members[i].value] = Meaning[w.members[i].value]
        BY <4>3, <4>4, <4>5 DEF AsMeant
      <4> QED BY <4>3, <4>6 DEF Says
    <3>4. InOrder(v.members) = InOrder(w.members)
      BY <2>2, <2>3, <3>2, <3>3 DEF InOrder
    <3> QED BY <2>1, <2>5, <3>1, <3>4, MeaningParts
  <2>6. CASE v.kind = "object"
    <3>1. Pairs(v) = Pairs(w) /\ v.text = w.text
      BY <2>1, <2>6, PartsAreUnambiguous, ValueParts
    <3>2. /\ Len(Pairs(v)) = n /\ Len(Pairs(w)) = m
          /\ \A i \in 1..n : Pairs(v)[i] = PairText(Sorted(v.members)[i].key,
                                             WriteCanonical[Sorted(v.members)[i].value])
          /\ \A i \in 1..m : Pairs(w)[i] = PairText(Sorted(w.members)[i].key,
                                             WriteCanonical[Sorted(w.members)[i].value])
      BY <2>1, <2>2, <2>3, <2>6, AllTextsAreWords, PartsOf
    <3>3. n = m
      BY <3>1, <3>2
    <3>4. PICK s \in [1..n -> Members] : s = Sorted(v.members) /\ Range(s) = Range(v.members)
      BY <2>2, <2>6, SortedMembers
    <3>5. PICK t \in [1..n -> Members] : t = Sorted(w.members) /\ Range(t) = Range(w.members)
      BY <2>1, <2>3, <2>6, <3>3, SortedMembers
    <3>6. ASSUME NEW i \in 1..n PROVE Says(s[i]) = Says(t[i])
      <4>1. PICK k \in Text, l \in Text, u \in Values, z \in Values :
              /\ k = s[i].key /\ l = t[i].key /\ u = s[i].value /\ z = t[i].value
        BY DEF Members
      <4>2. PICK a \in Text, b \in Text : a = WriteCanonical[u] /\ b = WriteCanonical[z]
        BY FormIs DEF Words
      <4>3. PairText(k, a) = PairText(l, b)
        BY <3>1, <3>2, <3>3, <3>4, <3>5, <4>1, <4>2
      <4>4. k = l /\ a = b
        BY <4>3, PairsTell
      <4>5. AsMeant(u)
        <5>1. s[i] \in Range(v.members)
          BY <3>4 DEF Range
        <5> QED BY <1>1, <4>1, <5>1 DEF Range
      <4>6. Meaning[u] = Meaning[z]
        BY <4>2, <4>4, <4>5 DEF AsMeant
      <4> QED BY <4>1, <4>4, <4>6 DEF Says
    <3>7. Said(Range(s)) = Said(Range(t))
      <4>1. Said(Range(s)) = {Says(s[i]) : i \in 1..n} /\ Said(Range(t)) = {Says(t[i]) : i \in 1..n}
        BY DEF Said, Range
      <4> QED BY <3>6, <4>1
    <3> QED BY <2>1, <2>6, <3>1, <3>4, <3>5, <3>7, MeaningParts
  <2> QED BY <2>1, <2>4, <2>5, <2>6
<1>2. S = Values
  <2>1. S \in SUBSET Values
    OBVIOUS
  <2>2. ASSUME NEW v \in Values, \A i \in DOMAIN v.members : v.members[i].value \in S
        PROVE  v \in S
    BY <1>1, <2>2
  <2> HIDE DEF S
  <2> QED BY <2>1, <2>2, NestingInduction
<1> QED BY <1>2

(* What means the same is written alike. *)
Alike(v) == \A w \in Values : Meaning[v] = Meaning[w] => WriteCanonical[v] = WriteCanonical[w]

(* Ascending members that say the same, in whatever order they came, say the same one
   by one. *)
LEMMA SortedAlike ==
  ASSUME NEW n \in Nat, NEW m \in Nat, NEW s \in [1..n -> Members], NEW t \in [1..m -> Members],
         Ascending(s), Ascending(t), Said(Range(s)) = Said(Range(t))
  PROVE  n = m /\ \A i \in 1..n : Says(s[i]) = Says(t[i])
<1>1. ASSUME NEW i \in 1..n
      PROVE  \E k \in 1..m : Says(t[k]) = Says(s[i]) /\ t[k].key = s[i].key
  <2>1. Says(s[i]) \in Said(Range(s))
    BY DEF Said, Range
  <2>2. PICK k \in 1..m : Says(s[i]) = Says(t[k])
    BY <2>1 DEF Said, Range
  <2> QED BY <2>2 DEF Says
<1>2. ASSUME NEW i \in 1..m PROVE \E k \in 1..n : s[k].key = t[i].key
  <2>1. Says(t[i]) \in Said(Range(t))
    BY DEF Said, Range
  <2>2. PICK k \in 1..n : Says(t[i]) = Says(s[k])
    BY <2>1 DEF Said, Range
  <2> QED BY <2>2 DEF Says
<1>3. n = m /\ \A i \in 1..n : s[i].key = t[i].key
  <2>1. KeysOccur(s, t) /\ KeysOccur(t, s)
    BY <1>1, <1>2 DEF KeysOccur
  <2> QED BY <2>1, SortingIsUnique, MembersHaveKeys
<1>4. ASSUME NEW i \in 1..n PROVE Says(s[i]) = Says(t[i])
  <2>1. PICK k \in 1..m : Says(t[k]) = Says(s[i]) /\ t[k].key = s[i].key
    BY <1>1
  <2>2. t[k].key = t[i].key /\ i \in 1..m
    BY <1>3, <2>1
  <2>3. k = i
    BY <2>2, AscendingIsDistinct, MembersHaveKeys DEF Distinct
  <2> QED BY <2>1, <2>3
<1> QED BY <1>3, <1>4

(* By induction on the members of the first value. *)
LEMMA MeantAsWritten == \A v \in Values : Alike(v)
<1> DEFINE S == {v \in Values : Alike(v)}
<1>1. ASSUME NEW v \in Values, \A i \in DOMAIN v.members : Alike(v.members[i].value)
      PROVE  Alike(v)
  <2> SUFFICES ASSUME NEW w \in Values, Meaning[v] = Meaning[w]
               PROVE  WriteCanonical[v] = WriteCanonical[w]
    BY DEF Alike
  <2>1. /\ v.kind = w.kind /\ v.text = w.text
        /\ v.kind # "object" => InOrder(v.members) = InOrder(w.members)
        /\ v.kind = "object" => Said(Range(v.members)) = Said(Range(w.members))
    BY MeaningParts
  <2>2. PICK n \in Nat : n = Len(v.members) /\ DOMAIN v.members = 1..n
    BY ValueParts
  <2>3. PICK m \in Nat : m = Len(w.members) /\ DOMAIN w.members = 1..m
    BY ValueParts
  <2>4. CASE v.kind \in {"atom", "string"}
    BY <2>1, <2>4, FormOfAtom, FormOfString
  <2>5. CASE v.kind = "array"
    <3>1. DOMAIN v.members = DOMAIN w.members
      BY <2>1, <2>5 DEF InOrder
    <3>2. ASSUME NEW i \in DOMAIN v.members
          PROVE  WriteCanonical[v.members[i].value] = WriteCanonical[w.members[i].value]
      <4>1. InOrder(v.members)[i] = Says(v.members[i]) /\ InOrder(w.members)[i] = Says(w.members[i])
        BY <3>1 DEF InOrder
      <4>2. Meaning[v.members[i].value] = Meaning[w.members[i].value]
        BY <2>1, <2>5, <4>1 DEF Says
      <4>3. w.members[i].value \in Values
        BY <3>1, NestingDecreases
      <4>4. Alike(v.members[i].value)
        BY <1>1
      <4> QED BY <4>2, <4>3, <4>4 DEF Alike
    <3>3. Items(v) = Items(w)
      BY <3>1, <3>2 DEF Items, ItemsOf
    <3>4. /\ WriteCanonical[v] = Bracketed(91, Items(v), 93)
          /\ WriteCanonical[w] = Bracketed(91, Items(w), 93)
      BY <2>1, <2>5, FormOfArray
    <3> QED BY <3>3, <3>4
  <2>6. CASE v.kind = "object"
    <3>1. PICK s \in [1..n -> Members] :
            s = Sorted(v.members) /\ Range(s) = Range(v.members) /\ Ascending(s)
      BY <2>2, <2>6, SortedMembers
    <3>2. PICK t \in [1..m -> Members] :
            t = Sorted(w.members) /\ Range(t) = Range(w.members) /\ Ascending(t)
      BY <2>1, <2>3, <2>6, SortedMembers
    <3>3. n = m /\ \A i \in 1..n : Says(s[i]) = Says(t[i])
      <4>1. Said(Range(s)) = Said(Range(t))
        BY <2>1, <2>6, <3>1, <3>2
      <4> QED BY <3>1, <3>2, <4>1, SortedAlike
    <3>4. ASSUME NEW i \in 1..n PROVE PairOf(s[i], WriteCanonical) = PairOf(t[i], WriteCanonical)
      <4>1. PICK k \in Text, l \in Text, u \in Values, z \in Values :
              /\ k = s[i].key /\ l = t[i].key /\ u = s[i].value /\ z = t[i].value
        BY <3>3 DEF Members
      <4>2. k = l /\ Meaning[u] = Meaning[z]
        BY <3>3, <4>1 DEF Says
      <4>3. Alike(u)
        <5>1. s[i] \in Range(v.members)
          BY <3>1 DEF Range
        <5>2. PICK j \in DOMAIN v.members : s[i] = v.members[j]
          BY <5>1 DEF Range
        <5> QED BY <1>1, <4>1, <5>2
      <4>4. WriteCanonical[u] = WriteCanonical[z]
        BY <4>2, <4>3 DEF Alike
      <4> QED BY <4>1, <4>2, <4>4 DEF PairOf
    <3>5. Pairs(v) = Pairs(w)
      BY <3>1, <3>2, <3>3, <3>4 DEF Pairs, PairsOf
    <3>6. /\ WriteCanonical[v] = Bracketed(123, Pairs(v), 125)
          /\ WriteCanonical[w] = Bracketed(123, Pairs(w), 125)
      BY <2>1, <2>6, FormOfObject
    <3> QED BY <3>5, <3>6
  <2> QED BY <2>4, <2>5, <2>6, ValueParts
<1>2. S = Values
  <2>1. S \in SUBSET Values
    OBVIOUS
  <2>2. ASSUME NEW v \in Values, \A i \in DOMAIN v.members : v.members[i].value \in S
        PROVE  v \in S
    BY <1>1, <2>2
  <2> HIDE DEF S
  <2> QED BY <2>1, <2>2, NestingInduction
<1> QED BY <1>2

--------------------------------------------------------------------------------
(* The fingerprints of requests. *)

(* Two requests have the same fingerprint exactly when they are the same request. *)
THEOREM FingerprintsAreFaithful ==
  ASSUME NEW p \in Payloads, NEW q \in Payloads
  PROVE  ComputeFingerprint(p) = ComputeFingerprint(q) <=> SameRequest(p, q)
<1>1. PICK v \in Values, w \in Values : v = p.tool_input /\ w = q.tool_input
  BY PayloadsAssumption
<1>2. Short \subseteq Measured
  BY DEF Short, Measured, Lengths
<1>3. PICK s \in Measured, t \in Measured, c \in Measured :
        s = p.session_id /\ t = p.tool_name /\ c = WriteCanonical[v]
  BY <1>1, <1>2, PayloadsAssumption
<1>4. PICK u \in Measured, r \in Measured, d \in Measured :
        u = q.session_id /\ r = q.tool_name /\ d = WriteCanonical[w]
  BY <1>1, <1>2, PayloadsAssumption
<1>5. ComputeFingerprint(p) = Frame(s, t, c) /\ ComputeFingerprint(q) = Frame(u, r, d)
  BY <1>1, <1>3, <1>4 DEF ComputeFingerprint
<1>6. Frame(s, t, c) = Frame(u, r, d) <=> s = u /\ t = r /\ c = d
  BY FramesAreInjective
<1>7. c = d <=> Meaning[v] = Meaning[w]
  BY <1>3, <1>4, WrittenAsMeant, MeantAsWritten DEF AsMeant, Alike
<1> QED BY <1>1, <1>3, <1>4, <1>5, <1>6, <1>7 DEF SameRequest

(* At most one fingerprint is answered as a retry of an id. *)
LEMMA OneAnswer ==
  ASSUME NEW id \in Ids, NEW f \in Answering(id), NEW g \in Answering(id)
  PROVE  f = g
BY DEF Answering, EnqueueOutcome

(* A submission that enqueue answers with a known approval is, session, tool and input,
   the request of that approval: for any requests and any store. *)
THEOREM RetriesAreTheSameRequest == Spec => []RetryIsTheSameRequest
<1>1. RetryIsTheSameRequest
  <2> SUFFICES ASSUME NEW id \in Ids, NEW f \in Answering(id), NEW g \in Answering(id),
                      NEW p \in RequestsOf[f], NEW q \in RequestsOf[g]
               PROVE  SameRequest(p, q)
    BY DEF RetryIsTheSameRequest
  <2>1. f = g /\ f \in Fingerprints
    BY OneAnswer DEF Answering
  <2>2. /\ p \in Payloads /\ ComputeFingerprint(p) = f
        /\ q \in Payloads /\ ComputeFingerprint(q) = f
    BY <2>1 DEF RequestsOf
  <2> QED BY <2>2, FingerprintsAreFaithful
<1> QED BY <1>1, PTL

(* The same request under a known id, its members in any order at every depth, is answered
   with the approval and never refused as a conflict. *)
THEOREM RetriesAreRecognised == Spec => []RetryIsRecognised
<1>1. RetryIsRecognised
  <2> SUFFICES ASSUME NEW id \in Ids, NEW f \in Answering(id), NEW q \in SameAsOf[f]
               PROVE  q \in RequestsOf[f]
    BY DEF RetryIsRecognised
  <2>1. f \in Fingerprints
    BY DEF Answering
  <2>2. q \in Payloads /\ \E p \in RequestsOf[f] : SameRequest(p, q)
    BY <2>1 DEF SameAsOf
  <2>3. PICK p \in Payloads : ComputeFingerprint(p) = f /\ SameRequest(p, q)
    BY <2>1, <2>2 DEF RequestsOf
  <2>4. ComputeFingerprint(q) = f
    BY <2>2, <2>3, FingerprintsAreFaithful
  <2> QED BY <2>1, <2>2, <2>4 DEF RequestsOf
<1> QED BY <1>1, PTL
================================================================================
