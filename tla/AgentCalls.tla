------------------------------ MODULE AgentCalls -------------------------------
(***************************************************************************)
(* What the agent is promised for each of its tool calls, without hooks,   *)
(* server or clock: a call gets one verdict, which nothing alters, and the *)
(* agent is told at most once, of a verdict that was there before.  Where  *)
(* nobody decided, the answer is that of timeout_action.  A call may also  *)
(* end without a word, at any time, decided or not.                        *)
(***************************************************************************)
CONSTANTS
  Ids,               \* the tool calls
  ApproveOnTimeout   \* those under timeout_action = "approve"

VARIABLES
  verdict,  \* call -> what was decided about it, or "none"
  said      \* call -> "running", what the agent was told, or "nothing"

callVars == <<verdict, said>>

Verdicts == {"Approved", "Denied", "TimedOut", "Cancelled"}

Answers(call, d) ==
  IF d = "Approved" \/ (d # "Denied" /\ call \in ApproveOnTimeout)
    THEN "approve" ELSE "block"

Init ==
  /\ verdict = [c \in Ids |-> "none"]
  /\ said = [c \in Ids |-> "running"]

Decide(call, d) ==
  /\ verdict[call] = "none"
  /\ verdict' = [verdict EXCEPT ![call] = d]
  /\ UNCHANGED said

Say(call) ==
  /\ said[call] = "running"
  /\ verdict[call] # "none"
  /\ said' = [said EXCEPT ![call] = Answers(call, verdict[call])]
  /\ UNCHANGED verdict

GiveUp(call) ==
  /\ said[call] = "running"
  /\ said' = [said EXCEPT ![call] = "nothing"]
  /\ UNCHANGED verdict

Next ==
  \E c \in Ids : Say(c) \/ GiveUp(c) \/ \E d \in Verdicts : Decide(c, d)

Spec == Init /\ [][Next]_callVars
================================================================================
