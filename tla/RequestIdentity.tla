---------------------------- MODULE RequestIdentity ----------------------------
(***************************************************************************)
(* ApprovalStoreSpec where fingerprints are those of requests: whether an  *)
(* approval that is known answers a submission depends on the request      *)
(* itself.                                                                 *)
(***************************************************************************)
EXTENDS ApprovalStoreSpec, Fingerprint

CONSTANT Payloads   \* the requests that may be submitted under a known id

(* The lengths of what is hashed: bodies have at most 2 MB (axum's default), and numbers
   are printed with at most a few times as many digits. *)
Short == {t \in Text : Len(t) < 16777216}

(* The Fingerprints of the store are those of some of the payloads. *)
ASSUME PayloadsAssumption ==
  /\ \A p \in Payloads : /\ p.session_id \in Short /\ p.tool_name \in Short
                         /\ p.tool_input \in Values /\ WriteCanonical[p.tool_input] \in Short
  /\ Fingerprints \subseteq {ComputeFingerprint(p) : p \in Payloads}

(* The payloads with a fingerprint, and those that are the same request as one. *)
RequestsOf == [f \in Fingerprints |-> {p \in Payloads : ComputeFingerprint(p) = f}]
SameAsOf ==
  [f \in Fingerprints |-> {q \in Payloads : \E p \in RequestsOf[f] : SameRequest(p, q)}]

(* The fingerprints that would be answered as a retry of this id. *)
Answering(id) == {f \in Fingerprints : EnqueueOutcome(store, id, f) = "Existing"}

(* What is answered with the approval of a request is that request: no text in a
   string or a key, however it is quoted, and no boundary between session, tool and
   input makes another one pass for it. *)
RetryIsTheSameRequest ==
  \A id \in Ids :
    LET retries == UNION {RequestsOf[f] : f \in Answering(id)}
    IN \A p, q \in retries : SameRequest(p, q)

(* The same request is never refused as a conflict, in whatever order its members
   come, at every depth. *)
RetryIsRecognised ==
  \A id \in Ids :
    LET retries == UNION {RequestsOf[f] : f \in Answering(id)}
    IN \A f \in Answering(id) : SameAsOf[f] \subseteq retries
================================================================================
