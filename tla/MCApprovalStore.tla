---------------------------- MODULE MCApprovalStore ----------------------------
(* A small instance of ApprovalStoreSpec for TLC.  Ids are only ever compared, so
   the instance is symmetric in them. *)
EXTENDS RequestIdentity

Symmetry == Permutations(Ids)

--------------------------------------------------------------------------------
(* Every text of at most n of: double quote, backslash, newline, comma, n. *)
Texts(n) == UNION {[1..k -> {34, 92, 10, 44, 110}] : k \in 0..n}

String(text) == Value("string", text, <<>>)
Object(members) == Value("object", <<>>, members)
Array(values) == Value("array", <<>>, [i \in DOMAIN values |-> Member(<<>>, values[i])])

(* 1, 11, a control character, a quoted 1, and what holds nothing. *)
Plain ==
  {Value("atom", <<49>>, <<>>), Value("atom", <<49, 49>>, <<>>),
   String(<<1>>), String(<<49>>), Object(<<>>), Array(<<>>)}

Pair(k, v, l, w) == Object(<<Member(k, v), Member(l, w)>>)

(* One member with any text or value; two members in both orders; the same one level down;
   arrays of one and two. *)
Inputs ==
  LET Keys == {<<110>>, <<110, 110>>}
      Twos  == {Pair(k, v, l, w) : k, l \in Keys, v, w \in Plain}
      Flat  == {o \in Twos : o.members[1].key # o.members[2].key}
  IN {Object(<<Member(k, String(t))>>) : k \in Texts(1), t \in Texts(2)}
       \cup {Object(<<Member(<<110>>, v)>>) : v \in Plain}
       \cup Flat
       \cup {Object(<<Member(<<110>>, Array(<<v>>))>>) : v \in Flat}
       \cup {Object(<<Member(<<110>>, Array(<<v, w>>))>>) : v, w \in Plain}

Request(session, tool, input) ==
  [session_id |-> session, tool_name |-> tool, tool_input |-> input]

Requests ==
  {Request(<<110>>, <<110>>, input) : input \in Inputs}
    \cup {Request(s, t, Object(<<>>)) : s, t \in {<<>>, <<110>>, <<110, 110>>}}

(* Those that the store is given: a newline in a string, two members a level down,
   and names whose boundary can shift. *)
Submitted ==
  LET Nested == Array(<<Pair(<<110>>, String(<<49>>), <<110, 110>>, Value("atom", <<49>>, <<>>))>>)
  IN {ComputeFingerprint(p) : p \in
        {Request(<<110>>, <<110>>, Object(<<Member(<<110>>, String(<<10>>))>>)),
         Request(<<110>>, <<110>>, Object(<<Member(<<110>>, Nested)>>)),
         Request(<<110, 110>>, <<110>>, Object(<<>>))}}

(* All values in the requests, from the innermost, and how deep they nest. *)
MembersOf(values) == UNION {{m.value : m \in Range(v.members)} : v \in values}

Closure ==
  LET whole == Inputs \cup {Object(<<>>)}
      once  == MembersOf(whole)
      twice == MembersOf(once)
  IN whole \cup once \cup twice \cup MembersOf(twice)

Depth[v \in Closure] ==
  IF v.members = <<>> THEN 0 ELSE 1 + Max({Depth[m.value] : m \in Range(v.members)})
================================================================================
