------------------------------ MODULE Fingerprint ------------------------------
(***************************************************************************)
(* The fingerprint of a request (crates/winvibe-core/src/approval/         *)
(* fingerprint.rs), by which enqueue tells the retry of a submission from  *)
(* another request under the same id.  ApprovalStore represents a payload  *)
(* by its fingerprint; RequestIdentity says what that leaves out.          *)
(*                                                                         *)
(* SHA-256 is taken to be free of collisions and is represented by what it *)
(* is given.  How strings are quoted and texts delimited is in Encoding.   *)
(***************************************************************************)
EXTENDS Encoding, Functions

CONSTANTS
  Values,   \* JSON values: of each value also its members
  Nesting   \* how deep each of them nests

(* Codes of the punctuation of JSON. *)
Comma == 44   Colon == 58
Opening(kind) == IF kind = "array" THEN 91 ELSE 123
Closing(kind) == IF kind = "array" THEN 93 ELSE 125

(* A JSON value: an atom with the text that canonical_json prints for it, a string,
   or an array or object with its members.  The members of an object are in the
   order of the request, without repeated keys; those of an array have no key. *)
Value(kind, text, members) == [kind |-> kind, text |-> text, members |-> members]
Member(key, value) == [key |-> key, value |-> value]

(* What is printed for a number, a boolean or null. *)
Literals ==
  {t \in Text : t # <<>> /\ \A i \in DOMAIN t :
     t[i] \notin {DoubleQuote, Comma, Colon} \cup {91, 93, 123, 125}}

IsValue(v) ==
  /\ v = Value(v.kind, v.text, v.members)
  /\ \/ v.kind = "atom" /\ v.text \in Literals /\ v.members = <<>>
     \/ v.kind = "string" /\ v.text \in Text /\ v.members = <<>>
     \/ /\ v.kind \in {"array", "object"} /\ v.text = <<>>
        /\ v.members \in Seq([key : Text, value : Values])
        /\ \A i, j \in DOMAIN v.members :
             IF v.kind = "array" THEN v.members[i].key = <<>>
             ELSE v.members[i].key = v.members[j].key => i = j

(* serde_json refuses what nests deeper. *)
MaxNesting == 128

ASSUME ValuesAssumption ==
  /\ \A v \in Values : IsValue(v)
  /\ Nesting \in [Values -> 0..MaxNesting]
  /\ \A v \in Values : \A i \in DOMAIN v.members :
       Nesting[v.members[i].value] < Nesting[v]

--------------------------------------------------------------------------------
(* write_canonical *)

Separated(parts) ==
  FlattenSeq([i \in DOMAIN parts |-> IF i = 1 THEN parts[i] ELSE <<Comma>> \o parts[i]])

(* The order of strings: the first difference decides, a prefix comes first. *)
Before(s, t) ==
  \E i \in DOMAIN t :
    /\ \A j \in 1..i-1 : j \in DOMAIN s /\ s[j] = t[j]
    /\ i \in DOMAIN s => s[i] < t[i]

\* mutant of Sorted: the order of the request is kept
SortedAsReceived(members) == members

(* The map that the request is decoded into, and keys.sort(). *)
Sorted(members) ==
  CHOOSE s \in [DOMAIN members -> Range(members)] :
    /\ Range(s) = Range(members)
    /\ \A i, j \in DOMAIN s : i < j => Before(s[i].key, s[j].key)

(* The text of a value, given those of its members. *)
Written(v, text) ==
  LET Items  == [i \in DOMAIN v.members |-> text[v.members[i].value]]
      sorted == Sorted(v.members)
      Pairs  == [i \in DOMAIN sorted |->
                   Quoted(sorted[i].key) \o <<Colon>> \o text[sorted[i].value]]
  IN CASE v.kind = "atom"   -> v.text
       [] v.kind = "string" -> Quoted(v.text)
       [] v.kind = "array"  -> <<Opening("array")>> \o Separated(Items) \o <<Closing("array")>>
       [] v.kind = "object" -> <<Opening("object")>> \o Separated(Pairs) \o <<Closing("object")>>

WriteCanonical[v \in Values] == Written(v, WriteCanonical)

--------------------------------------------------------------------------------
(* compute_fingerprint *)

(* Of a request, PreToolUsePayload: [session_id, tool_name, tool_input]. *)
ComputeFingerprint(p) == Frame(p.session_id, p.tool_name, WriteCanonical[p.tool_input])

--------------------------------------------------------------------------------
(* The reference: what a JSON value says, given what its members say, and when two
   requests are the same. *)
Meant(v, meaning) ==
  LET Says(m) == <<m.key, meaning[m.value]>>
  IN <<v.kind, v.text,
       IF v.kind = "object" THEN {Says(v.members[i]) : i \in DOMAIN v.members}
       ELSE [i \in DOMAIN v.members |-> Says(v.members[i])]>>

Meaning[v \in Values] == Meant(v, Meaning)

SameRequest(p, q) ==
  /\ p.session_id = q.session_id
  /\ p.tool_name = q.tool_name
  /\ Meaning[p.tool_input] = Meaning[q.tool_input]
================================================================================
