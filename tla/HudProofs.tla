------------------------------- MODULE HudProofs -------------------------------
(***************************************************************************)
(* The types of the HUD, that its optimistic cards come right, and that,   *)
(* once everything has settled, it shows what the store has: proved for    *)
(* any approvals, any number of commands under way, any cache size, ttl    *)
(* and bound of the clock.                                                 *)
(***************************************************************************)
EXTENDS Hud, ApprovalStoreLemmas

Command ==
  [cmd : {"none", "snapshot", "decide"}, stage : {"none", "sent", "answered"},
   id : Ids \cup {NoId},
   arg : {"none", "Pending", "Ok", "AlreadyDecided", "NotFound"} \cup UserDecisions,
   revision : Nat]

(* What a command carries: a snapshot never shows an active approval that is decided,
   a decision is the user's until it is answered, and both are about an approval that
   is drawn. *)
Carries(c) ==
  /\ c.cmd = "snapshot" /\ c.stage = "answered" => c.arg \in {"none", "Pending"}
  /\ c.cmd = "decide" /\ c.stage = "sent" => c.arg \in UserDecisions
  /\ c.id \notin fresh

(* A command that will make the decision that the card shows, or will take it off. *)
Settles(c) ==
  /\ c.cmd = "decide" /\ c.id = view.active
  /\ \/ c.stage = "sent" /\ c.arg = view.state
     \/ c.stage = "answered" /\ c.arg # "Ok"

(* The decision on a card is that of its approval, or it is being settled. *)
CardIsBacked ==
  view.state \in UserDecisions =>
    \/ ~ Knows(store, view.active)
    \/ store.by_id[view.active].state = view.state
    \/ \E s \in Slots : Settles(calls[s])

(* An id that is not drawn yet is not in the store, nor on the page. *)
FreshIsUnknown ==
  /\ \A i \in fresh : ~ Knows(store, i)
  /\ view.active \notin fresh

Inv ==
  /\ TypeOK
  /\ WellFormed(store)
  /\ FreshIsUnknown
  /\ \A s \in Slots : Carries(calls[s])
  /\ CardIsBacked

--------------------------------------------------------------------------------
(* The commands, with their type. *)
LEMMA Types ==
  ASSUME Inv
  PROVE  /\ calls \in [Slots -> Command] /\ Sound(store) /\ now \in Nat /\ TTL \in Nat
         /\ fresh \subseteq Ids /\ NoId \notin fresh
  BY HudAssumption, StoreAssumption DEF Inv, TypeOK, Command, Sound

(* The store keeps its decisions: what backs a card goes on backing it. *)
LEMMA CardStaysBacked ==
  ASSUME Inv, NEW X, KeepsDecisions(X, store, store'), view.active \notin X,
         view' = view,
         \A s \in Slots : Settles(calls[s]) => Settles(calls[s])'
  PROVE  CardIsBacked'
<1> SUFFICES ASSUME view.state \in UserDecisions, view.active \in DOMAIN store'.by_id,
                    store'.by_id[view.active].state # view.state
             PROVE  \E s \in Slots : Settles(calls[s])'
  BY DEF CardIsBacked, Knows
<1>1. /\ view.active \in DOMAIN store.by_id
      /\ IsDecided(store.by_id[view.active]) =>
           store'.by_id[view.active].state = store.by_id[view.active].state
  BY DEF KeepsDecisions
<1>2. store.by_id[view.active].state # view.state
  BY <1>1 DEF IsDecided, Decisions
<1>3. \E s \in Slots : Settles(calls[s])
  BY <1>1, <1>2 DEF Inv, CardIsBacked, Knows
<1> QED BY <1>3

(* Ids that are not drawn stay unknown. *)
LEMMA FreshStaysUnknown ==
  ASSUME Inv, NEW X, KeepsDecisions(X, store, store'), fresh' \subseteq fresh \ X
  PROVE  \A i \in fresh' : ~ Knows(store', i)
BY DEF Inv, FreshIsUnknown, KeepsDecisions, Knows

(* Nothing that the page or the store keeps is touched. *)
LEMMA AsideStep ==
  ASSUME Inv, TypeOK', UNCHANGED <<store, fresh, calls, view>>
  PROVE  Inv'
BY DEF Inv, FreshIsUnknown, Carries, CardIsBacked, Settles, Knows

--------------------------------------------------------------------------------
(* A hook submits. *)
LEMMA SubmitStep ==
  ASSUME Inv, NEW id \in Ids, Submit(id)
  PROVE  Inv'
<1> DEFINE expired == ExpireDuePending(store, now)
<1>1. PICK fp \in Fingerprints :
        /\ store' = Enqueue(expired, id, fp, now, TTL)
        /\ announcing' = announcing \cup
             {Event("approval_pushed", i) :
                i \in {j \in {id} : EnqueueOutcome(expired, id, fp) = "Created"}}
  BY DEF Submit
<1>2. /\ id \in fresh /\ fresh' = fresh \ {id}
      /\ UNCHANGED <<now, accepting, wiring, page>>
  BY DEF Submit
<1>3. Sound(expired) /\ KeepsDecisions({}, store, expired)
  BY Types, DecisionsAreKept
<1> HIDE DEF expired
<1>4. Sound(store') /\ KeepsDecisions({id}, expired, store')
  BY <1>1, <1>3, Types, EnqueueSound, EnqueueKeeps
<1>5. KeepsDecisions({id}, store, store')
  <2> SUFFICES ASSUME NEW j \in DOMAIN store'.by_id \ {id}
               PROVE  /\ j \in DOMAIN store.by_id
                      /\ IsDecided(store.by_id[j]) =>
                           store'.by_id[j].state = store.by_id[j].state
    BY DEF KeepsDecisions
  <2> QED BY <1>3, <1>4 DEF KeepsDecisions, IsDecided
<1>6. view.active \notin {id}
  BY <1>2 DEF Inv, FreshIsUnknown
<1>7. UNCHANGED <<calls, view>>
  BY <1>2 DEF page
<1>8. CardIsBacked'
  BY <1>5, <1>6, <1>7, CardStaysBacked DEF Settles
<1>9. FreshIsUnknown'
  <2>1. \A i \in fresh' : ~ Knows(store', i)
    BY <1>2, <1>5, FreshStaysUnknown
  <2> QED BY <1>2, <1>7, <2>1 DEF Inv, FreshIsUnknown
<1>10. \A s \in Slots : Carries(calls[s])'
  BY <1>2, <1>7 DEF Inv, Carries
<1>11. TypeOK'
  <2>1. announcing' \subseteq [kind : Kinds, id : Ids]
    BY <1>1 DEF Inv, TypeOK, Event, Kinds
  <2> QED BY <1>2, <1>4, <2>1 DEF Inv, TypeOK, wiring, page, Sound
<1> QED BY <1>4, <1>8, <1>9, <1>10, <1>11 DEF Inv, Sound

(* The exit sequence cancels. *)
LEMMA ExitStep ==
  ASSUME Inv, Exit
  PROVE  Inv'
<1>1. /\ accepting' = FALSE /\ store' = Cancel(store, store.active)
      /\ announcing' = announcing \cup
           {Event("approval_resolved", i) :
              i \in {j \in {store.active} : DecideOutcome(store, j) = "Ok"}}
      /\ UNCHANGED <<now, fresh, wiring, page>>
  BY DEF Exit
<1>2. Sound(store') /\ KeepsDecisions({}, store, store')
  BY <1>1, Types, DecisionsAreKept
<1>3. UNCHANGED <<calls, view>>
  BY <1>1 DEF page
<1>4. CardIsBacked'
  <2>1. view.active \notin {}
    OBVIOUS
  <2> QED BY <1>2, <1>3, <2>1, CardStaysBacked DEF Settles
<1>5. FreshIsUnknown'
  <2>1. \A i \in fresh' : ~ Knows(store', i)
    BY <1>1, <1>2, FreshStaysUnknown
  <2> QED BY <1>1, <1>3, <2>1 DEF Inv, FreshIsUnknown
<1>6. \A s \in Slots : Carries(calls[s])'
  BY <1>1, <1>3 DEF Inv, Carries
<1>7. TypeOK'
  <2>1. DecideOutcome(store, store.active) = "Ok" => store.active \in Ids
    BY Types DEF DecideOutcome, Knows, Sound, StoreType
  <2>2. announcing' \subseteq [kind : Kinds, id : Ids]
    BY <1>1, <2>1 DEF Inv, TypeOK, Event, Kinds
  <2> QED BY <1>1, <1>2, <2>2 DEF Inv, TypeOK, wiring, page, Sound
<1> QED BY <1>2, <1>4, <1>5, <1>6, <1>7 DEF Inv, Sound

(* One command moves to k, in a step that leaves the store and the page's copy. *)
LEMMA CommandStep ==
  ASSUME Inv, UNCHANGED <<store, now, fresh, accepting, announcing, view, newest>>,
         NEW s \in Slots, NEW k \in Command, calls' = [calls EXCEPT ![s] = k],
         ~ Settles(calls[s]), Carries(k),
         events' \subseteq events, mounted' \in BOOLEAN, listening' = listening,
         loading' \in BOOLEAN, missed' = missed
  PROVE  Inv'
<1>1. calls \in [Slots -> Command]
  BY Types
<1>2. /\ calls' \in [Slots -> Command] /\ calls'[s] = k
      /\ \A t \in Slots \ {s} : calls'[t] = calls[t]
  BY <1>1
<1>3. TypeOK'
  BY <1>2 DEF Inv, TypeOK, Command
<1>4. \A t \in Slots : Carries(calls[t])'
  BY <1>2 DEF Inv, Carries
<1>5. \A t \in Slots : Settles(calls[t]) => Settles(calls[t])'
  BY <1>2 DEF Settles
<1>6. CardIsBacked'
  BY <1>5 DEF Inv, CardIsBacked, Knows
<1>7. FreshIsUnknown'
  BY DEF Inv, FreshIsUnknown, Knows
<1> QED BY <1>3, <1>4, <1>6, <1>7 DEF Inv

(* The page fetches. *)
LEMMA FetchStep ==
  ASSUME Inv, NEW s \in Slots, Mount(s) \/ EventArrives(s)
  PROVE  Inv'
<1>1. /\ UNCHANGED <<store, now, fresh, accepting, announcing, view, newest>>
      /\ calls[s] = Idle /\ calls' = [calls EXCEPT ![s] = Fetch]
      /\ loading' = TRUE /\ listening' = listening /\ missed' = missed
      /\ mounted' \in BOOLEAN /\ events' \subseteq events
  BY DEF Mount, EventArrives, Start, server, Inv, TypeOK
<1>2. Idle \in Command
  BY DEF Idle, Command
<1>3. Fetch \in Command /\ Fetch.cmd = "snapshot" /\ Fetch.stage = "sent" /\ Fetch.id = Idle.id
  BY <1>2 DEF Fetch, Command
<1>4. Idle.cmd = "none" /\ Idle.id = NoId
  BY DEF Idle
<1>5. ~ Settles(calls[s]) /\ Carries(Fetch)
  BY <1>1, <1>3, <1>4, Types DEF Settles, Carries
<1> QED BY <1>1, <1>3, <1>5, CommandStep

(* The user clicks. *)
LEMMA ClickStep ==
  ASSUME Inv, NEW s \in Slots, NEW d \in UserDecisions, Click(s, d)
  PROVE  Inv'
<1> DEFINE k == DecideCommand(view.active, d)
<1>1. /\ view.active # NoId /\ view.state = "Pending"
      /\ view' = [view EXCEPT !.state = d]
      /\ calls[s] = Idle /\ calls' = [calls EXCEPT ![s] = k] /\ loading' = TRUE
      /\ UNCHANGED <<server, wiring, newest>>
  BY DEF Click, Optimistic, Start
<1>2. /\ view.active \in Ids \cup {NoId} /\ view.active \notin fresh
      /\ view \in [active : Ids \cup {NoId}, state : {"none", "Pending"} \cup UserDecisions,
                   revision : Nat]
  BY DEF Inv, TypeOK, FreshIsUnknown
<1>3. Idle \in Command
  BY DEF Idle, Command
<1>4. /\ k \in Command /\ k.cmd = "decide" /\ k.stage = "sent" /\ k.id = view.active
      /\ k.arg = d
  BY <1>2, <1>3 DEF DecideCommand, Command
<1> HIDE DEF k
<1>5. /\ calls' \in [Slots -> Command] /\ calls'[s] = k
      /\ \A t \in Slots \ {s} : calls'[t] = calls[t]
  BY <1>1, <1>4, Types
<1>6. /\ view'.active = view.active /\ view'.state = d
      /\ view' \in [active : Ids \cup {NoId}, state : {"none", "Pending"} \cup UserDecisions,
                    revision : Nat]
  BY <1>1, <1>2
<1>7. TypeOK'
  BY <1>1, <1>5, <1>6 DEF Inv, TypeOK, Command, server, wiring
<1>8. CardIsBacked'
  BY <1>4, <1>5, <1>6 DEF CardIsBacked, Settles
<1>9. FreshIsUnknown'
  BY <1>1, <1>6 DEF Inv, FreshIsUnknown, server, Knows
<1>10. \A t \in Slots : Carries(calls[t])'
  BY <1>1, <1>2, <1>4, <1>5 DEF Inv, Carries, server
<1>11. WellFormed(store)'
  BY <1>1 DEF Inv, server
<1> QED BY <1>7, <1>8, <1>9, <1>10, <1>11 DEF Inv

(* A decision is answered. *)
LEMMA DecideAnsweredStep ==
  ASSUME Inv, NEW s \in Slots, DecideAnswered(s)
  PROVE  Inv'
<1>1. /\ calls[s].cmd = "decide" /\ calls[s].stage = "answered"
      /\ calls' = [calls EXCEPT ![s] = Idle] /\ loading' = FALSE
      /\ view' = IF calls[s].arg # "Ok" /\ view.active = calls[s].id
                   THEN [view EXCEPT !.state = "Pending"] ELSE view
      /\ UNCHANGED <<server, wiring, newest>>
  BY DEF DecideAnswered, Finish, At
<1>2. Idle \in Command /\ Idle.cmd = "none" /\ Idle.id = NoId
  BY DEF Idle, Command
<1>3. /\ calls' \in [Slots -> Command] /\ calls'[s] = Idle
      /\ \A t \in Slots \ {s} : calls'[t] = calls[t]
  BY <1>1, <1>2, Types
<1>4. view \in [active : Ids \cup {NoId}, state : {"none", "Pending"} \cup UserDecisions,
               revision : Nat]
  BY DEF Inv, TypeOK
<1>5. /\ view' \in [active : Ids \cup {NoId}, state : {"none", "Pending"} \cup UserDecisions,
                    revision : Nat]
      /\ view'.active = view.active
      /\ view' = view \/ view'.state = "Pending"
  BY <1>1, <1>4
<1>6. TypeOK'
  BY <1>1, <1>3, <1>5 DEF Inv, TypeOK, Command, server, wiring
<1>7. CardIsBacked'
  <2> SUFFICES ASSUME view'.state \in UserDecisions PROVE CardIsBacked'
    BY DEF CardIsBacked
  <2>1. view' = view /\ ~ Settles(calls[s])
    BY <1>1, <1>5 DEF Settles, UserDecisions
  <2>2. \A t \in Slots : Settles(calls[t]) => Settles(calls[t])'
    BY <1>3, <2>1 DEF Settles
  <2>3. store' = store
    BY <1>1 DEF server
  <2> QED BY <2>1, <2>2, <2>3 DEF Inv, CardIsBacked, Knows
<1>8. FreshIsUnknown'
  BY <1>1, <1>5 DEF Inv, FreshIsUnknown, server, Knows
<1>9. \A t \in Slots : Carries(calls[t])'
  BY <1>1, <1>2, <1>3, Types DEF Inv, Carries, server
<1>10. WellFormed(store)'
  BY <1>1 DEF Inv, server
<1> QED BY <1>6, <1>7, <1>8, <1>9, <1>10 DEF Inv

(* A snapshot is answered. *)
LEMMA SnapshotAnsweredStep ==
  ASSUME Inv, NEW s \in Slots, SnapshotAnswered(s)
  PROVE  Inv'
<1>1. /\ calls[s].cmd = "snapshot" /\ calls[s].stage = "answered"
      /\ calls' = [calls EXCEPT ![s] = Idle] /\ loading' = FALSE
      /\ view' = [active |-> calls[s].id, state |-> calls[s].arg, revision |-> calls[s].revision]
      /\ newest' = IF calls[s].revision > newest THEN calls[s].revision ELSE newest
      /\ UNCHANGED <<server, wiring>>
  BY DEF SnapshotAnswered, Finish, At
<1>2. Idle \in Command /\ Idle.cmd = "none" /\ Idle.id = NoId
  BY DEF Idle, Command
<1>3. /\ calls' \in [Slots -> Command] /\ calls'[s] = Idle
      /\ \A t \in Slots \ {s} : calls'[t] = calls[t]
      /\ calls[s] \in Command
  BY <1>1, <1>2, Types
<1>4. calls[s].arg \in {"none", "Pending"} /\ calls[s].id \notin fresh
  BY <1>1 DEF Inv, Carries
<1>5. /\ view' \in [active : Ids \cup {NoId}, state : {"none", "Pending"} \cup UserDecisions,
                    revision : Nat]
      /\ view'.active = calls[s].id /\ view'.state \notin UserDecisions
      /\ newest' \in Nat
  BY <1>1, <1>3, <1>4 DEF Command, UserDecisions, Inv, TypeOK
<1>6. TypeOK'
  BY <1>1, <1>3, <1>5 DEF Inv, TypeOK, Command, server, wiring
<1>7. CardIsBacked'
  BY <1>5 DEF CardIsBacked
<1>8. FreshIsUnknown'
  BY <1>1, <1>4, <1>5 DEF Inv, FreshIsUnknown, server, Knows
<1>9. \A t \in Slots : Carries(calls[t])'
  BY <1>1, <1>2, <1>3, Types DEF Inv, Carries, server
<1>10. WellFormed(store)'
  BY <1>1 DEF Inv, server
<1> QED BY <1>6, <1>7, <1>8, <1>9, <1>10 DEF Inv

(* The application serves a snapshot: the active approval is pending. *)
LEMMA SnapshotServedStep ==
  ASSUME Inv, NEW s \in Slots, SnapshotServed(s)
  PROVE  Inv'
<1> DEFINE expired == ExpireDuePending(store, now)
           k == [Redacted(expired) EXCEPT !.cmd = "snapshot", !.stage = "answered",
                                          !.revision = expired.revision]
<1>1. /\ calls[s].cmd = "snapshot" /\ calls[s].stage = "sent"
      /\ store' = expired /\ calls' = [calls EXCEPT ![s] = k]
      /\ UNCHANGED <<now, fresh, accepting, announcing, wiring, loading, view, newest>>
  BY DEF SnapshotServed, At
<1>2. Sound(expired) /\ KeepsDecisions({}, store, expired)
  BY Types, DecisionsAreKept
<1> HIDE DEF expired
<1>3. /\ expired.active \in Ids \cup {NoId} /\ expired.active \notin fresh
      /\ expired.active # NoId => expired.by_id[expired.active].state = "Pending"
      /\ expired.revision \in Nat
  <2>1. ASSUME expired.active # NoId
        PROVE  /\ expired.active \in DOMAIN expired.by_id
               /\ expired.by_id[expired.active].state = "Pending"
    BY <1>2, <2>1 DEF Sound, WellFormed, KnownIds, ActiveIsThePending, IsPending
  <2>2. expired.active # NoId => expired.active \in DOMAIN store.by_id
    BY <1>2, <2>1 DEF KeepsDecisions
  <2> QED BY <1>2, <2>1, <2>2, Types DEF Sound, StoreType, Inv, FreshIsUnknown, Knows
<1>4. Idle \in Command
  BY DEF Idle, Command
<1>5. /\ k \in Command /\ k.cmd = "snapshot" /\ k.stage = "answered"
      /\ k.id = expired.active /\ k.arg \in {"none", "Pending"}
  <2> DEFINE arg == IF expired.active = NoId THEN "none"
                    ELSE expired.by_id[expired.active].state
  <2>1. arg \in {"none", "Pending"}
    BY <1>3
  <2>2. Redacted(expired) = [Idle EXCEPT !.id = expired.active, !.arg = arg]
    BY DEF Redacted
  <2> HIDE DEF arg
  <2>3. /\ Redacted(expired) \in Command
        /\ Redacted(expired).id = expired.active /\ Redacted(expired).arg = arg
    BY <1>3, <1>4, <2>1, <2>2 DEF Command
  <2> QED BY <1>3, <2>1, <2>3 DEF Command
<1> HIDE DEF k
<1>6. /\ calls' \in [Slots -> Command] /\ calls'[s] = k
      /\ \A t \in Slots \ {s} : calls'[t] = calls[t]
  BY <1>1, <1>5, Types
<1>7. TypeOK'
  BY <1>1, <1>2, <1>6 DEF Inv, TypeOK, Command, wiring, Sound
<1>8. CardIsBacked'
  <2>1. \A t \in Slots : Settles(calls[t]) => Settles(calls[t])'
    BY <1>1, <1>6 DEF Settles
  <2>2. view.active \notin {} /\ view' = view
    BY <1>1
  <2> QED BY <1>1, <1>2, <2>1, <2>2, CardStaysBacked
<1>9. FreshIsUnknown'
  <2>1. \A i \in fresh' : ~ Knows(store', i)
    BY <1>1, <1>2, FreshStaysUnknown
  <2> QED BY <1>1, <2>1 DEF Inv, FreshIsUnknown
<1>10. \A t \in Slots : Carries(calls[t])'
  BY <1>1, <1>3, <1>5, <1>6 DEF Inv, Carries
<1> QED BY <1>1, <1>2, <1>7, <1>8, <1>9, <1>10 DEF Inv, Sound

(* The application serves a decision: it is taken, and remembered or evicted, or the
   answer will take the card's decision back. *)
LEMMA DecideServedStep ==
  ASSUME Inv, NEW s \in Slots, DecideServed(s)
  PROVE  Inv'
<1> DEFINE expired == ExpireDuePending(store, now)
           i == calls[s].id
           d == calls[s].arg
           outcome == DecideOutcome(expired, i)
<1>1. /\ calls[s].cmd = "decide" /\ calls[s].stage = "sent"
      /\ store' = Decide(expired, i, d)
      /\ announcing' = announcing \cup
           {Event("approval_resolved", x) : x \in {y \in {i} : outcome = "Ok"}}
      /\ calls' = [calls EXCEPT ![s].stage = "answered", ![s].arg = outcome]
      /\ UNCHANGED <<now, fresh, accepting, wiring, loading, view, newest>>
  BY DEF DecideServed, At
<1>2. calls \in [Slots -> Command] /\ calls[s] \in Command /\ d \in UserDecisions /\ i \notin fresh
  BY <1>1, Types DEF Inv, Carries
<1>3. outcome \in {"Ok", "AlreadyDecided", "NotFound"}
  BY DEF DecideOutcome
<1>4. Sound(expired) /\ KeepsDecisions({}, store, expired)
  BY Types, DecisionsAreKept
<1> HIDE DEF expired, i, d
<1>5. Sound(store') /\ KeepsDecisions({}, expired, store')
  <2>1. d \in Decisions
    BY <1>2 DEF Decisions
  <2>2. \A x : \A e \in Decisions :
          Sound(Decide(expired, x, e)) /\ KeepsDecisions({}, expired, Decide(expired, x, e))
    BY <1>4, DecisionsAreKept
  <2> QED BY <1>1, <2>1, <2>2
<1>6. KeepsDecisions({}, store, store')
  <2> SUFFICES ASSUME NEW j \in DOMAIN store'.by_id
               PROVE  /\ j \in DOMAIN store.by_id
                      /\ IsDecided(store.by_id[j]) =>
                           store'.by_id[j].state = store.by_id[j].state
    BY DEF KeepsDecisions
  <2> QED BY <1>4, <1>5 DEF KeepsDecisions, IsDecided
<1>7. outcome = "Ok" =>
        /\ i \in Ids
        /\ i \in DOMAIN store'.by_id => store'.by_id[i].state = d
  <2> SUFFICES ASSUME outcome = "Ok"
               PROVE  i \in Ids /\ (i \in DOMAIN store'.by_id => store'.by_id[i].state = d)
    OBVIOUS
  <2>1. expired.active = i /\ expired.active # NoId
    BY <1>4, DecidableIsActive
  <2>2. store' = Resolve(expired, expired.active, d) /\ d \in Decisions
    BY <1>1, <1>2, <2>1 DEF Decide, Decisions
  <2>3. expired.active \in DOMAIN expired.by_id
    BY <1>4, <2>1 DEF Sound, WellFormed, KnownIds
  <2>4. \A x \in DOMAIN store'.by_id :
          store'.by_id[x] = IF x = expired.active THEN Settled(expired.by_id[x], d)
                            ELSE expired.by_id[x]
    <3> DEFINE r == Resolve(expired, expired.active, d)
    <3>1. \A x \in DOMAIN r.by_id :
            r.by_id[x] = IF x = expired.active THEN Settled(expired.by_id[x], d)
                         ELSE expired.by_id[x]
      BY <1>4, <2>1, <2>2, ResolveShape
    <3>2. store' = r
      BY <2>2
    <3> HIDE DEF r
    <3> QED BY <3>1, <3>2
  <2>5. expired.by_id[i] \in Approval /\ i \in Ids
    BY <1>4, <2>1, <2>3 DEF Sound, StoreType
  <2>6. Settled(expired.by_id[i], d).state = d
    BY <2>2, <2>5, SettledFields
  <2> QED BY <2>1, <2>4, <2>5, <2>6
<1> HIDE DEF outcome
<1> DEFINE k == [calls[s] EXCEPT !.stage = "answered", !.arg = outcome]
<1>8. calls' = [calls EXCEPT ![s] = k]
  BY <1>1, <1>2
<1>9. /\ k \in Command /\ k.cmd = "decide" /\ k.stage = "answered" /\ k.id = i
      /\ k.arg = outcome
  BY <1>1, <1>2, <1>3 DEF Command, i
<1> HIDE DEF k
<1>10. /\ calls' \in [Slots -> Command] /\ calls'[s] = k
       /\ \A t \in Slots \ {s} : calls'[t] = calls[t]
  BY <1>2, <1>8, <1>9
<1>11. TypeOK'
  <2>1. announcing' \subseteq [kind : Kinds, id : Ids]
    BY <1>1, <1>7 DEF Inv, TypeOK, Event, Kinds
  <2> QED BY <1>1, <1>5, <1>10, <2>1 DEF Inv, TypeOK, Command, wiring, Sound
<1>12. CardIsBacked'
  <2>1. \A t \in Slots \ {s} : Settles(calls[t]) => Settles(calls[t])'
    BY <1>1, <1>10 DEF Settles
  <2>2. view' = view
    BY <1>1
  <2>3. CASE Settles(calls[s]) /\ outcome = "Ok"
    <3>1. view.active = i /\ view.state = d
      BY <1>1, <2>3 DEF Settles, i, d
    <3> QED BY <1>7, <2>2, <2>3, <3>1 DEF CardIsBacked, Knows
  <2>4. CASE Settles(calls[s]) /\ outcome # "Ok"
    <3>1. Settles(calls[s])'
      BY <1>9, <1>10, <2>2, <2>4 DEF Settles, i
    <3> QED BY <3>1 DEF CardIsBacked
  <2>5. CASE ~ Settles(calls[s])
    <3>1. \A t \in Slots : Settles(calls[t]) => Settles(calls[t])'
      BY <2>1, <2>5
    <3>2. view.active \notin {}
      OBVIOUS
    <3> QED BY <1>6, <2>2, <3>1, <3>2, CardStaysBacked
  <2> QED BY <2>3, <2>4, <2>5
<1>13. FreshIsUnknown'
  <2>1. fresh' \subseteq fresh \ {}
    BY <1>1
  <2>2. \A x \in fresh' : ~ Knows(store', x)
    BY <1>6, <2>1, FreshStaysUnknown
  <2> QED BY <1>1, <2>2 DEF Inv, FreshIsUnknown
<1>14. \A t \in Slots : Carries(calls[t])'
  BY <1>1, <1>2, <1>9, <1>10 DEF Inv, Carries
<1> QED BY <1>5, <1>11, <1>12, <1>13, <1>14 DEF Inv, Sound

--------------------------------------------------------------------------------
(* The invariant holds at the start. *)
LEMMA InitInv == Init => Inv
<1> SUFFICES ASSUME Init PROVE Inv
  OBVIOUS
<1>1. Sound(store) /\ DOMAIN store.by_id = {}
  BY NewStoreSound DEF Init, NewStore
<1>2. Idle \in Command /\ Idle.cmd = "none" /\ Idle.id = NoId
  BY DEF Idle, Command
<1>3. TypeOK
  <2>1. calls \in [Slots -> Command]
    BY <1>2 DEF Init
  <2>2. view \in [active : Ids \cup {NoId}, state : {"none", "Pending"} \cup UserDecisions,
                 revision : Nat]
    BY DEF Init, Empty
  <2>3. now \in 0..Horizon
    BY HudAssumption DEF Init
  <2>4. StoreType(store)
    BY <1>1 DEF Sound
  <2> QED BY <2>1, <2>2, <2>3, <2>4 DEF Init, TypeOK, Command
<1>4. \A s \in Slots : Carries(calls[s])
  BY <1>2, StoreAssumption DEF Init, Carries
<1>5. FreshIsUnknown /\ CardIsBacked
  BY <1>1, StoreAssumption DEF Init, FreshIsUnknown, CardIsBacked, Empty, Knows, UserDecisions
<1> QED BY <1>1, <1>3, <1>4, <1>5 DEF Inv, Sound

(* Every step keeps it. *)
LEMMA StepInv == Inv /\ [Next]_vars => Inv'
<1> SUFFICES ASSUME Inv, [Next]_vars PROVE Inv'
  OBVIOUS
<1>1. CASE \E id \in Ids : Submit(id)
  BY <1>1, SubmitStep
<1>2. CASE Exit
  BY <1>2, ExitStep
<1>3. CASE Announce
  <2>1. TypeOK'
    BY <1>3 DEF Announce, Inv, TypeOK, page
  <2> QED BY <1>3, <2>1, AsideStep DEF Announce, page
<1>4. CASE Tick
  <2>1. TypeOK'
    BY <1>4, HudAssumption DEF Tick, Inv, TypeOK, wiring, page
  <2> QED BY <1>4, <2>1, AsideStep DEF Tick, page
<1>5. CASE \E kind \in Kinds : Registered(kind)
  <2>1. TypeOK'
    BY <1>5 DEF Registered, Inv, TypeOK, server, page
  <2> QED BY <1>5, <2>1, AsideStep DEF Registered, server, page
<1>6. CASE \E s \in Slots :
             \/ Mount(s) \/ EventArrives(s)
             \/ SnapshotServed(s) \/ SnapshotAnswered(s)
             \/ DecideServed(s) \/ DecideAnswered(s)
  BY <1>6, FetchStep, SnapshotServedStep, SnapshotAnsweredStep, DecideServedStep,
     DecideAnsweredStep
<1>7. CASE \E s \in Slots, decision \in UserDecisions : Click(s, decision)
  BY <1>7, ClickStep
<1>8. CASE UNCHANGED vars
  <2>1. TypeOK'
    BY <1>8 DEF vars, Inv, TypeOK
  <2> QED BY <1>8, <2>1, AsideStep DEF vars
<1> QED BY <1>1, <1>2, <1>3, <1>4, <1>5, <1>6, <1>7, <1>8 DEF Next

--------------------------------------------------------------------------------
(* What the page shows, or is about to show, against the store. *)

(* A snapshot on its way to the page. *)
Shows(c) == c.cmd = "snapshot" /\ c.stage = "answered"

(* More is to come than revision r, or something went wrong. *)
Loud(r) ==
  \/ missed \/ announcing # {} \/ events # {} \/ newest > r
  \/ \E s \in Slots : \/ At(s, "snapshot", "sent")
                      \/ Shows(calls[s]) /\ calls[s].revision > r

(* The active approval of revision r ran out, and nothing has happened since. *)
RanOut(i, r) ==
  /\ store.revision = r + 1 /\ store.active = NoId
  /\ i # NoId /\ Knows(store, i) /\ store.by_id[i].state = "TimedOut"

(* A card and its revision: the store's, or it ran out, or more is to come. *)
Fits(i, r) ==
  /\ r <= store.revision
  /\ r = store.revision => i = store.active
  /\ r = store.revision \/ RanOut(i, r) \/ Loud(r)

CallFits(c) ==
  Shows(c) => /\ Fits(c.id, c.revision)
              /\ c.id # NoId => c.arg = "Pending"

PageFits ==
  /\ Fits(view.active, view.revision)
  /\ view.active # NoId => view.state # "none"
  /\ newest <= store.revision
  /\ \A s \in Slots : CallFits(calls[s])

(* The active approval has run out, which nobody is told. *)
SilentExpiry(s, r) ==
  /\ r.revision = s.revision + 1 /\ s.active # NoId /\ r.active = NoId
  /\ Knows(r, s.active) /\ r.by_id[s.active].state = "TimedOut"

(* How a step moves the store. *)
Moved ==
  \/ store' = store
  \/ SilentExpiry(store, store')
  \/ store'.revision > store.revision /\ announcing' # {}

(* An approval that has just been resolved is still known: max_cached > 0. *)
LEMMA ExpiryIsSilent ==
  ASSUME NEW s, Sound(s), NEW t
  PROVE  ExpireDuePending(s, t) = s \/ SilentExpiry(s, ExpireDuePending(s, t))
<1> SUFFICES ASSUME IsDue(s, t)
             PROVE  SilentExpiry(s, Resolve(s, s.active, "TimedOut"))
  BY DEF ExpireDuePending
<1> DEFINE q == s.cached_order
           order == Append(q, s.active)
           r == Resolve(s, s.active, "TimedOut")
<1>1. s.active # NoId /\ "TimedOut" \in Decisions
  BY DEF IsDue, Decisions
<1>2. /\ s.active \in DOMAIN s.by_id
      /\ r.active = NoId /\ r.revision = s.revision + 1
      /\ DOMAIN r.by_id = DOMAIN s.by_id \ Evicted(order)
      /\ \A x \in DOMAIN r.by_id :
           r.by_id[x] = IF x = s.active THEN Settled(s.by_id[x], "TimedOut") ELSE s.by_id[x]
  BY <1>1, ResolveShape, ZenonT(60)
<1>3. /\ q \in Seq(Ids) /\ IsInjective(q) /\ s.active \in Ids /\ s.active \notin Range(q)
      /\ Len(q) <= MaxCached /\ s.by_id[s.active] \in Approval
  BY <1>1, <1>2 DEF Sound, StoreType, WellFormed, ActiveNotCached, CacheIsDuplicateFree,
     CacheIsBounded
<1>4. /\ Len(order) = Len(q) + 1 /\ \A k \in 1..Len(q) : order[k] = q[k]
  BY <1>3
<1>5. Excess(order) \in Nat /\ Excess(order) <= Len(q)
  BY <1>3, <1>4, HudAssumption, StoreAssumption DEF Excess
<1>6. s.active \notin Evicted(order)
  <2> SUFFICES ASSUME NEW k \in 1..Excess(order) PROVE order[k] # s.active
    BY DEF Evicted
  <2>1. k \in 1..Len(q) /\ order[k] = q[k]
    BY <1>3, <1>4, <1>5
  <2> QED BY <1>3, <2>1 DEF Range
<1>7. r.by_id[s.active].state = "TimedOut"
  BY <1>1, <1>2, <1>3, <1>6, SettledFields
<1> HIDE DEF r, order
<1>8. SilentExpiry(s, r)
  BY <1>1, <1>2, <1>6, <1>7 DEF SilentExpiry, Knows
<1> QED BY <1>8 DEF r

(* What fitted goes on fitting, if no news is lost. *)
LEMMA StillFits ==
  ASSUME Inv, TypeOK', Moved, NEW i, NEW r \in Nat, Fits(i, r),
         Loud(r) /\ r < store'.revision => Loud(r)'
  PROVE  Fits(i, r)'
<1>1. store.revision \in Nat /\ store'.revision \in Nat
  BY DEF Inv, TypeOK, StoreType
<1>2. /\ r <= store.revision
      /\ r = store.revision => i = store.active
      /\ r = store.revision \/ RanOut(i, r) \/ Loud(r)
  BY DEF Fits
<1>3. CASE store' = store
  <2>1. RanOut(i, r) => RanOut(i, r)'
    BY <1>3 DEF RanOut, Knows
  <2> HIDE DEF RanOut, Loud
  <2> QED BY <1>1, <1>2, <1>3, <2>1 DEF Fits
<1>4. CASE SilentExpiry(store, store')
  <2>1. /\ store'.revision = store.revision + 1 /\ store.active # NoId
        /\ store'.active = NoId /\ store.active \in DOMAIN store'.by_id
        /\ store'.by_id[store.active].state = "TimedOut"
    BY <1>4 DEF SilentExpiry, Knows
  <2>2. ~ RanOut(i, r)
    BY <2>1 DEF RanOut
  <2>3. r = store.revision => RanOut(i, r)'
    BY <1>2, <2>1 DEF RanOut, Knows
  <2>4. r < store'.revision
    BY <1>1, <1>2, <2>1
  <2> QED BY <1>1, <1>2, <2>2, <2>3, <2>4 DEF Fits
<1>5. CASE store'.revision > store.revision /\ announcing' # {}
  <2>1. Loud(r)'
    BY <1>5 DEF Loud
  <2> QED BY <1>1, <1>2, <1>5, <2>1 DEF Fits
<1> QED BY <1>3, <1>4, <1>5 DEF Moved

(* A step that leaves the card of the page where it is. *)
LEMMA PageStep ==
  ASSUME Inv, PageFits, TypeOK', Moved,
         \A r \in Nat : Loud(r) /\ r < store'.revision => Loud(r)',
         view'.active = view.active, view'.revision = view.revision,
         view'.state = "none" => view.state = "none",
         newest' = newest,
         \A t \in Slots : calls'[t] = calls[t] \/ CallFits(calls[t])'
  PROVE  PageFits'
<1>1. /\ store.revision \in Nat /\ store'.revision \in Nat /\ newest \in Nat
      /\ view.revision \in Nat /\ \A t \in Slots : calls[t].revision \in Nat
  BY DEF Inv, TypeOK, StoreType
<1>2. store'.revision >= store.revision
  BY <1>1 DEF Moved, SilentExpiry
<1>3. \A i : \A r \in Nat : Fits(i, r) => Fits(i, r)'
  BY StillFits
<1>4. Fits(view.active, view.revision)'
  <2>1. PICK i, r : i = view.active /\ r = view.revision
    OBVIOUS
  <2>2. Fits(i, r)
    BY <2>1 DEF PageFits
  <2>3. Fits(i, r)'
    BY <1>1, <1>3, <2>1, <2>2
  <2> QED BY <2>1, <2>3 DEF Fits, RanOut, Loud
<1>5. ASSUME NEW t \in Slots PROVE CallFits(calls[t])'
  <2> SUFFICES ASSUME calls'[t] = calls[t], Shows(calls[t]) PROVE CallFits(calls[t])'
    BY DEF CallFits, Shows
  <2>1. PICK i, r : i = calls[t].id /\ r = calls[t].revision
    OBVIOUS
  <2>2. Fits(i, r) /\ (calls[t].id # NoId => calls[t].arg = "Pending")
    BY <2>1 DEF PageFits, CallFits
  <2>3. Fits(i, r)'
    BY <1>1, <1>3, <2>1, <2>2
  <2> QED BY <2>1, <2>2, <2>3 DEF CallFits, Fits, RanOut, Loud
<1>6. view'.active # NoId => view'.state # "none"
  BY DEF PageFits
<1>7. newest' <= store'.revision
  BY <1>1, <1>2 DEF PageFits
<1> QED BY <1>4, <1>5, <1>6, <1>7 DEF PageFits

(* Nothing that the page knows, or is to be told, is touched. *)
LEMMA PageUntouched ==
  ASSUME Inv, PageFits, UNCHANGED <<store, announcing, events, missed, calls, view, newest>>
  PROVE  PageFits'
BY DEF PageFits, Fits, CallFits, Shows, RanOut, Loud, At, Knows

(* A hook submits, and the page is told if an approval was created. *)
LEMMA SubmitFits ==
  ASSUME Inv, PageFits, TypeOK', NEW id \in Ids, Submit(id)
  PROVE  PageFits'
<1> DEFINE expired == ExpireDuePending(store, now)
<1>1. PICK fp \in Fingerprints :
        /\ store' = Enqueue(expired, id, fp, now, TTL)
        /\ announcing' = announcing \cup
             {Event("approval_pushed", i) :
                i \in {j \in {id} : EnqueueOutcome(expired, id, fp) = "Created"}}
  BY DEF Submit
<1>2. UNCHANGED <<wiring, page>>
  BY DEF Submit
<1>3. Sound(expired) /\ (expired = store \/ SilentExpiry(store, expired))
  BY Types, DecisionsAreKept, ExpiryIsSilent
<1> HIDE DEF expired
<1>4. Moved
  <2>1. CASE EnqueueOutcome(expired, id, fp) = "Created"
    <3>1. store'.revision = expired.revision + 1
      BY <1>1, <1>3, <2>1, Types, EnqueueShape
    <3>2. Event("approval_pushed", id) \in announcing'
      BY <1>1, <2>1
    <3>3. store.revision \in Nat /\ expired.revision \in Nat
      BY <1>3, Types DEF Sound, StoreType
    <3> QED BY <1>3, <3>1, <3>2, <3>3 DEF Moved, SilentExpiry
  <2>2. CASE EnqueueOutcome(expired, id, fp) # "Created"
    BY <1>1, <1>3, <2>2 DEF Enqueue, Moved
  <2> QED BY <2>1, <2>2
<1>5. \A r \in Nat : Loud(r) => Loud(r)'
  BY <1>1, <1>2 DEF Loud, Shows, At, wiring, page
<1>6. UNCHANGED <<calls, view, newest>>
  BY <1>2 DEF page
<1> QED BY <1>4, <1>5, <1>6, PageStep

(* The exit sequence cancels, and the page is told. *)
LEMMA ExitFits ==
  ASSUME Inv, PageFits, TypeOK', Exit
  PROVE  PageFits'
<1>1. /\ store' = Cancel(store, store.active)
      /\ announcing' = announcing \cup
           {Event("approval_resolved", i) :
              i \in {j \in {store.active} : DecideOutcome(store, j) = "Ok"}}
      /\ UNCHANGED <<wiring, page>>
  BY DEF Exit
<1>2. Moved
  <2>1. CASE DecideOutcome(store, store.active) = "Ok"
    <3>1. store.active # NoId /\ "Cancelled" \in Decisions
      BY <2>1, Types, DecidableIsActive DEF Decisions
    <3>2. store' = Resolve(store, store.active, "Cancelled")
      BY <1>1, <2>1 DEF Cancel
    <3>3. store'.revision = store.revision + 1 /\ store.revision \in Nat
      BY <3>1, <3>2, Types, ResolveShape DEF Sound, StoreType
    <3>4. Event("approval_resolved", store.active) \in announcing'
      BY <1>1, <2>1
    <3> QED BY <3>3, <3>4 DEF Moved
  <2>2. CASE DecideOutcome(store, store.active) # "Ok"
    BY <1>1, <2>2 DEF Cancel, Moved
  <2> QED BY <2>1, <2>2
<1>3. \A r \in Nat : Loud(r) => Loud(r)'
  BY <1>1 DEF Loud, Shows, At, wiring, page
<1>4. UNCHANGED <<calls, view, newest>>
  BY <1>1 DEF page
<1> QED BY <1>2, <1>3, <1>4, PageStep

(* An announcement becomes an event, or is missed. *)
LEMMA AnnounceFits ==
  ASSUME Inv, PageFits, TypeOK', Announce
  PROVE  PageFits'
<1>1. /\ events \subseteq events'
      /\ missed => missed'
      /\ announcing # {} => events' # {} \/ missed'
      /\ UNCHANGED <<store, calls, view, newest>>
  BY DEF Announce, page
<1>2. Moved
  BY <1>1 DEF Moved
<1>3. \A r \in Nat : Loud(r) => Loud(r)'
  BY <1>1 DEF Loud, Shows, At
<1> QED BY <1>1, <1>2, <1>3, PageStep

(* The page fetches: the event is handled by a command under way. *)
LEMMA FetchFits ==
  ASSUME Inv, PageFits, TypeOK', NEW s \in Slots, Mount(s) \/ EventArrives(s)
  PROVE  PageFits'
<1>1. /\ UNCHANGED <<store, announcing, missed, view, newest>>
      /\ calls[s] = Idle /\ calls' = [calls EXCEPT ![s] = Fetch]
  BY DEF Mount, EventArrives, Start, server
<1>2. Idle \in Command
  BY DEF Idle, Command
<1>3. Fetch.cmd = "snapshot" /\ Fetch.stage = "sent" /\ Idle.cmd = "none"
  BY <1>2 DEF Fetch, Command, Idle
<1>4. calls'[s] = Fetch /\ \A t \in Slots \ {s} : calls'[t] = calls[t]
  BY <1>1, Types
<1>5. Moved
  BY <1>1 DEF Moved
<1>6. calls'[s].cmd = "snapshot" /\ calls'[s].stage = "sent"
  BY <1>3, <1>4
<1>7. \A r \in Nat : Loud(r)'
  BY <1>6 DEF Loud, At
<1>8. CallFits(calls[s])'
  BY <1>3, <1>4 DEF CallFits, Shows
<1>9. \A t \in Slots : calls'[t] = calls[t] \/ CallFits(calls[t])'
  BY <1>4, <1>8
<1> QED BY <1>1, <1>5, <1>7, <1>9, PageStep

(* The user clicks, or is told what became of it. *)
LEMMA DecisionFits ==
  ASSUME Inv, PageFits, TypeOK', NEW s \in Slots,
         DecideAnswered(s) \/ \E d \in UserDecisions : Click(s, d)
  PROVE  PageFits'
<1>1. /\ UNCHANGED <<server, wiring, newest>>
      /\ ~ (calls[s].cmd = "snapshot")
      /\ \E k \in Command : k.cmd # "snapshot" /\ calls' = [calls EXCEPT ![s] = k]
  <2>1. Idle \in Command /\ Idle.cmd = "none"
    BY DEF Idle, Command
  <2>2. CASE DecideAnswered(s)
    BY <2>1, <2>2 DEF DecideAnswered, Finish, At
  <2>3. ASSUME NEW d \in UserDecisions, Click(s, d)
        PROVE  <1>1!:
    <3>1. /\ DecideCommand(view.active, d) \in Command
          /\ DecideCommand(view.active, d).cmd = "decide"
      BY <2>1 DEF DecideCommand, Command, Inv, TypeOK
    <3> QED BY <2>1, <2>3, <3>1 DEF Click, Start
  <2> QED BY <2>2, <2>3
<1>2. PICK k \in Command : k.cmd # "snapshot" /\ calls' = [calls EXCEPT ![s] = k]
  BY <1>1
<1>3. calls'[s] = k /\ \A t \in Slots \ {s} : calls'[t] = calls[t]
  BY <1>2, Types
<1>4. /\ view'.active = view.active /\ view'.revision = view.revision
      /\ view'.state = "none" => view.state = "none"
  <2>1. view \in [active : Ids \cup {NoId}, state : {"none", "Pending"} \cup UserDecisions,
                 revision : Nat]
    BY DEF Inv, TypeOK
  <2>2. \E x \in {"Pending"} \cup UserDecisions : view' \in {view, [view EXCEPT !.state = x]}
    BY DEF DecideAnswered, Click, Optimistic
  <2> QED BY <2>1, <2>2 DEF UserDecisions
<1>5. Moved
  BY <1>1 DEF Moved, server
<1>6. \A r \in Nat : Loud(r) => Loud(r)'
  BY <1>1, <1>2, <1>3 DEF Loud, Shows, At, server, wiring
<1>7. CallFits(calls[s])'
  BY <1>2, <1>3 DEF CallFits, Shows
<1>8. \A t \in Slots : calls'[t] = calls[t] \/ CallFits(calls[t])'
  BY <1>3, <1>7
<1> QED BY <1>1, <1>4, <1>5, <1>6, <1>8, PageStep

(* A snapshot is shown: it fitted when it was taken, and it fits still. *)
LEMMA SnapshotAnsweredFits ==
  ASSUME Inv, PageFits, TypeOK', NEW s \in Slots, SnapshotAnswered(s)
  PROVE  PageFits'
<1>1. /\ Shows(calls[s])
      /\ calls' = [calls EXCEPT ![s] = Idle]
      /\ view' = [active |-> calls[s].id, state |-> calls[s].arg, revision |-> calls[s].revision]
      /\ newest' = IF calls[s].revision > newest THEN calls[s].revision ELSE newest
      /\ UNCHANGED <<server, wiring>>
  BY DEF SnapshotAnswered, Finish, At, Shows
<1>2. calls'[s] = Idle /\ \A t \in Slots \ {s} : calls'[t] = calls[t]
  BY <1>1, Types
<1>3. ~ Shows(Idle)
  BY DEF Shows, Idle
<1>4. /\ store.revision \in Nat /\ newest \in Nat
      /\ \A t \in Slots : calls[t].revision \in Nat
  BY DEF Inv, TypeOK, StoreType
<1>5. \A r \in Nat : Loud(r) => Loud(r)'
  <2> SUFFICES ASSUME NEW r \in Nat, Loud(r) PROVE Loud(r)'
    OBVIOUS
  <2>1. CASE missed \/ announcing # {} \/ events # {}
    BY <1>1, <2>1 DEF Loud, server, wiring
  <2>2. CASE newest > r \/ calls[s].revision > r
    BY <1>1, <1>4, <2>2 DEF Loud
  <2>3. CASE \E t \in Slots : \/ At(t, "snapshot", "sent")
                              \/ t # s /\ Shows(calls[t]) /\ calls[t].revision > r
    <3>1. PICK t \in Slots : \/ At(t, "snapshot", "sent")
                             \/ t # s /\ Shows(calls[t]) /\ calls[t].revision > r
      BY <2>3
    <3>2. t # s
      BY <1>1, <3>1 DEF At, Shows
    <3>3. calls'[t] = calls[t]
      BY <1>2, <3>2
    <3> QED BY <3>1, <3>3 DEF Loud, At, Shows
  <2> QED BY <2>1, <2>2, <2>3 DEF Loud
<1>6. Moved /\ store' = store
  BY <1>1 DEF Moved, server
<1>7. \A i : \A r \in Nat : Fits(i, r) => Fits(i, r)'
  BY <1>5, <1>6, StillFits
<1>8. \A t \in Slots : \A i : \A r \in Nat :
        Shows(calls[t]) /\ i = calls[t].id /\ r = calls[t].revision => Fits(i, r)'
  BY <1>7 DEF PageFits, CallFits
<1>9. \A t \in Slots :
        Shows(calls[t]) /\ calls[t].id # NoId => calls[t].arg = "Pending"
  BY DEF PageFits, CallFits
<1>10. Fits(view.active, view.revision)' /\ (view'.active # NoId => view'.state # "none")
  <2>1. PICK i, r : i = calls[s].id /\ r = calls[s].revision
    OBVIOUS
  <2>2. Fits(i, r)'
    BY <1>1, <1>4, <1>8, <2>1
  <2>3. view'.active = i /\ view'.revision = r /\ view'.state = calls[s].arg
    BY <1>1, <2>1
  <2> QED BY <1>1, <1>9, <2>1, <2>2, <2>3 DEF Fits, RanOut, Loud
<1>11. ASSUME NEW t \in Slots PROVE CallFits(calls[t])'
  <2> SUFFICES ASSUME Shows(calls'[t]) PROVE CallFits(calls[t])'
    BY DEF CallFits, Shows
  <2>1. calls'[t] = calls[t] /\ Shows(calls[t])
    BY <1>2, <1>3
  <2>2. PICK i, r : i = calls[t].id /\ r = calls[t].revision
    OBVIOUS
  <2>3. Fits(i, r)'
    BY <1>4, <1>8, <2>1, <2>2
  <2> QED BY <1>9, <2>1, <2>2, <2>3 DEF CallFits, Fits, RanOut, Loud
<1>12. newest' <= store'.revision
  BY <1>1, <1>4, <1>6 DEF PageFits, CallFits, Fits
<1> QED BY <1>10, <1>11, <1>12 DEF PageFits

(* A snapshot is taken: it is what the store is. *)
LEMMA SnapshotServedFits ==
  ASSUME Inv, PageFits, TypeOK', NEW s \in Slots, SnapshotServed(s)
  PROVE  PageFits'
<1> DEFINE expired == ExpireDuePending(store, now)
           k == [Redacted(expired) EXCEPT !.cmd = "snapshot", !.stage = "answered",
                                          !.revision = expired.revision]
<1>1. /\ calls[s].cmd = "snapshot" /\ calls[s].stage = "sent"
      /\ store' = expired /\ calls' = [calls EXCEPT ![s] = k]
      /\ UNCHANGED <<announcing, wiring, view, newest>>
  BY DEF SnapshotServed, At
<1>2. expired = store \/ SilentExpiry(store, expired)
  BY Types, ExpiryIsSilent
<1>3. Sound(expired)
  BY Types, DecisionsAreKept
<1> HIDE DEF expired
<1>4. /\ expired.active \in Ids \cup {NoId} /\ expired.revision \in Nat
      /\ expired.active # NoId => expired.by_id[expired.active].state = "Pending"
  <2>1. ASSUME expired.active # NoId
        PROVE  expired.by_id[expired.active].state = "Pending"
    BY <1>3, <2>1 DEF Sound, WellFormed, KnownIds, ActiveIsThePending, IsPending
  <2> QED BY <1>3, <2>1 DEF Sound, StoreType
<1>5. Idle \in Command
  BY DEF Idle, Command
<1>6. /\ k.cmd = "snapshot" /\ k.stage = "answered" /\ k.revision = expired.revision
      /\ k.id = expired.active /\ (expired.active # NoId => k.arg = "Pending")
  <2> DEFINE arg == IF expired.active = NoId THEN "none"
                    ELSE expired.by_id[expired.active].state
  <2>1. arg \in {"none", "Pending"} /\ (expired.active # NoId => arg = "Pending")
    BY <1>4
  <2>2. Redacted(expired) = [Idle EXCEPT !.id = expired.active, !.arg = arg]
    BY DEF Redacted
  <2> HIDE DEF arg
  <2>3. /\ Redacted(expired) \in Command
        /\ Redacted(expired).id = expired.active /\ Redacted(expired).arg = arg
    BY <1>4, <1>5, <2>1, <2>2 DEF Command
  <2> QED BY <1>4, <2>1, <2>3 DEF Command
<1> HIDE DEF k
<1>7. calls'[s] = k /\ \A t \in Slots \ {s} : calls'[t] = calls[t]
  BY <1>1, Types
<1>8. Moved
  BY <1>1, <1>2 DEF Moved
<1>9. \A r \in Nat : Loud(r) /\ r < store'.revision => Loud(r)'
  <2> SUFFICES ASSUME NEW r \in Nat, r < store'.revision PROVE Loud(r)'
    OBVIOUS
  <2>1. Shows(calls'[s]) /\ calls'[s].revision > r
    BY <1>1, <1>4, <1>6, <1>7 DEF Shows
  <2> QED BY <2>1 DEF Loud, Shows
<1>10. CallFits(calls[s])'
  BY <1>1, <1>4, <1>6, <1>7 DEF CallFits, Fits
<1>11. \A t \in Slots : calls'[t] = calls[t] \/ CallFits(calls[t])'
  BY <1>7, <1>10
<1> QED BY <1>1, <1>8, <1>9, <1>11, PageStep

(* A decision is served: the page is told of it, or the store ran out at most. *)
LEMMA DecideServedFits ==
  ASSUME Inv, PageFits, TypeOK', NEW s \in Slots, DecideServed(s)
  PROVE  PageFits'
<1> DEFINE expired == ExpireDuePending(store, now)
           i == calls[s].id
           d == calls[s].arg
           outcome == DecideOutcome(expired, i)
<1>1. /\ calls[s].cmd = "decide" /\ calls[s].stage = "sent"
      /\ store' = Decide(expired, i, d)
      /\ announcing' = announcing \cup
           {Event("approval_resolved", x) : x \in {y \in {i} : outcome = "Ok"}}
      /\ calls' = [calls EXCEPT ![s].stage = "answered", ![s].arg = outcome]
      /\ UNCHANGED <<wiring, view, newest>>
  BY DEF DecideServed, At
<1>2. calls[s] \in Command /\ d \in Decisions
  BY <1>1, Types DEF Inv, Carries, Decisions
<1>3. Sound(expired) /\ (expired = store \/ SilentExpiry(store, expired))
  BY Types, DecisionsAreKept, ExpiryIsSilent
<1> HIDE DEF expired, i, d
<1>4. Moved
  <2>1. CASE outcome = "Ok"
    <3>1. expired.active = i /\ expired.active # NoId
      BY <1>3, <2>1, DecidableIsActive
    <3>2. store' = Resolve(expired, expired.active, d)
      BY <1>1, <2>1, <3>1 DEF Decide
    <3>3. store'.revision = expired.revision + 1 /\ expired.revision \in Nat
      BY <1>2, <1>3, <3>1, <3>2, ResolveShape DEF Sound, StoreType
    <3>4. Event("approval_resolved", i) \in announcing'
      BY <1>1, <2>1
    <3>5. store.revision \in Nat
      BY Types DEF Sound, StoreType
    <3> QED BY <1>3, <3>3, <3>4, <3>5 DEF Moved, SilentExpiry
  <2>2. CASE outcome # "Ok"
    BY <1>1, <1>3, <2>2 DEF Decide, Moved
  <2> QED BY <2>1, <2>2
<1>5. /\ calls'[s].cmd = "decide"
      /\ \A t \in Slots \ {s} : calls'[t] = calls[t]
  BY <1>1, <1>2, Types DEF Command
<1> HIDE DEF outcome
<1>6. \A r \in Nat : Loud(r) => Loud(r)'
  BY <1>1, <1>5 DEF Loud, Shows, At, wiring
<1>7. CallFits(calls[s])'
  BY <1>5 DEF CallFits, Shows
<1>8. \A t \in Slots : calls'[t] = calls[t] \/ CallFits(calls[t])'
  BY <1>5, <1>7
<1> QED BY <1>1, <1>4, <1>6, <1>8, PageStep

(* The page fits at the start. *)
LEMMA InitFits == Init => PageFits
<1> SUFFICES ASSUME Init PROVE PageFits
  OBVIOUS
<1>1. store.active = NoId /\ store.revision = 0
  BY DEF Init, NewStore
<1>2. \A s \in Slots : ~ Shows(calls[s])
  BY DEF Init, Idle, Shows
<1> QED BY <1>1, <1>2 DEF Init, PageFits, CallFits, Fits, Empty

(* Every step keeps it so. *)
LEMMA StepFits == Inv /\ PageFits /\ [Next]_vars => PageFits'
<1> SUFFICES ASSUME Inv, PageFits, [Next]_vars PROVE PageFits'
  OBVIOUS
<1>1. Inv' /\ TypeOK'
  BY StepInv DEF Inv
<1>2. CASE \E id \in Ids : Submit(id)
  BY <1>1, <1>2, SubmitFits
<1>3. CASE Exit
  BY <1>1, <1>3, ExitFits
<1>4. CASE Announce
  BY <1>1, <1>4, AnnounceFits
<1>5. CASE Tick \/ (\E kind \in Kinds : Registered(kind)) \/ UNCHANGED vars
  BY <1>5, PageUntouched DEF Tick, Registered, wiring, server, page, vars
<1>6. CASE \E s \in Slots :
             \/ Mount(s) \/ EventArrives(s)
             \/ SnapshotServed(s) \/ SnapshotAnswered(s)
             \/ DecideServed(s) \/ DecideAnswered(s)
  BY <1>1, <1>6, FetchFits, SnapshotServedFits, SnapshotAnsweredFits, DecideServedFits,
     DecisionFits
<1>7. CASE \E s \in Slots, decision \in UserDecisions : Click(s, decision)
  BY <1>1, <1>7, DecisionFits
<1> QED BY <1>2, <1>3, <1>4, <1>5, <1>6, <1>7 DEF Next

(* When nothing is under way and nothing went wrong, the page shows what the store has,
   or the card that ran out. *)
LEMMA PageSettles ==
  ASSUME Inv, PageFits, Quiet, Undisturbed
  PROVE  /\ view.active = store.active \/ RanOut(view.active, view.revision)
         /\ view.active # NoId => view.state # "none"
<1>1. ~ Loud(view.revision)
  BY DEF Quiet, Undisturbed, Loud, At, Shows, Idle, Inv, TypeOK
<1> QED BY <1>1 DEF PageFits, Fits

--------------------------------------------------------------------------------
(* The variables always have their types: no card shows a decision that only a hook
   could read, "TimedOut" or "Cancelled". *)
THEOREM TypeCorrect == Spec => []TypeOK
<1>1. Inv => TypeOK
  BY DEF Inv
<1> QED BY InitInv, StepInv, <1>1, PTL DEF Spec

(* When no command is under way, a card that reads as decided carries the decision that
   was taken, however answers overtook each other (OPTIMISTIC_DECIDE and its rollback
   in ApprovalContext.tsx). *)
THEOREM OptimismComesTrue == Spec => []OptimismIsSettled
<1>1. Inv => OptimismIsSettled
  <2> SUFFICES ASSUME Inv, \A s \in Slots : calls[s] = Idle, view.state \in UserDecisions,
                      Knows(store, view.active)
               PROVE  store.by_id[view.active].state = view.state
    BY DEF OptimismIsSettled
  <2>1. \A s \in Slots : ~ Settles(calls[s])
    BY DEF Settles, Idle
  <2> QED BY <2>1 DEF Inv, CardIsBacked
<1> QED BY InitInv, StepInv, <1>1, PTL DEF Spec

(* Once everything has settled, the approval that waits for the user is on the screen
   with its buttons: no event is lost between the store and the page
   (AppContent in App.tsx, approval_pushed and approval_resolved). *)
THEOREM WhatIsPendingIsShown == Spec => []PendingIsShown
<1>1. Inv /\ PageFits => PendingIsShown
  <2> SUFFICES ASSUME Inv, PageFits, Quiet, Undisturbed, store.active # NoId
               PROVE  view.active = store.active /\ view.state = "Pending"
    BY DEF PendingIsShown, Shown
  <2>1. view.active = store.active /\ view.state # "none"
    BY PageSettles DEF RanOut
  <2>2. Knows(store, view.active) /\ store.by_id[view.active].state = "Pending"
    BY <2>1 DEF Inv, WellFormed, KnownIds, ActiveIsThePending, IsPending, Knows
  <2>3. view.state \notin UserDecisions
    <3>1. \A s \in Slots : ~ Settles(calls[s])
      BY DEF Quiet, Settles, Idle
    <3> QED BY <2>2, <3>1 DEF Inv, CardIsBacked, UserDecisions
  <2> QED BY <2>1, <2>3 DEF Inv, TypeOK
<1> QED BY InitInv, StepInv, InitFits, StepFits, <1>1, PTL DEF Spec

(* A card that is still there once everything has settled is of an approval that is
   pending or ran out: every other resolution reached the page. *)
THEOREM OtherCardsGo == Spec => []DeadCardOnlyAfterExpiry
<1>1. Inv /\ PageFits => DeadCardOnlyAfterExpiry
  <2> SUFFICES ASSUME Inv, PageFits, Quiet, Undisturbed, view.active # NoId
               PROVE  /\ Knows(store, view.active)
                      /\ store.by_id[view.active].state \in {"Pending", "TimedOut"}
    BY DEF DeadCardOnlyAfterExpiry
  <2>1. view.active = store.active \/ RanOut(view.active, view.revision)
    BY PageSettles
  <2>2. CASE view.active = store.active
    BY <2>2 DEF Inv, WellFormed, KnownIds, ActiveIsThePending, IsPending, Knows
  <2>3. CASE RanOut(view.active, view.revision)
    BY <2>3 DEF RanOut
  <2> QED BY <2>1, <2>2, <2>3
<1> QED BY InitInv, StepInv, InitFits, StepFits, <1>1, PTL DEF Spec
================================================================================
