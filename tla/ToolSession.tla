----------------------------- MODULE ToolSession -----------------------------
(***************************************************************************)
(* What a node of the workflow may rely on when it calls a tool, without   *)
(* saying how the call travels: calls are made one at a time; each is      *)
(* served at most once, possibly after nobody waits for it any more; and   *)
(* each gets one answer, either the translation of what the tool did for   *)
(* that very call or the error that says the tool could not be reached.    *)
(* McpBridge implements it.                                                *)
(*                                                                         *)
(* Sources: app/agents/mcp_bridge.py McpToolInvoker.call, app/agents/      *)
(* nodes/_common.py, app/domain/exceptions.py.                             *)
(***************************************************************************)
EXTENDS Naturals

CONSTANTS MaxCalls,      \* calls of one session
          Outcomes,      \* how a tool may end: "value", an error code, a crash
          DomainCodes    \* DOMAIN_ERROR_CODES: the codes that are recognised

VARIABLES asked,    \* number of calls made so far
          served,   \* served[c]: what the tool did for call c, or "none"
          answer,   \* answer[c]: what the caller of call c got, or "none"
          over      \* the session is over for its user

Calls == 1..MaxCalls
Answers == DomainCodes \union {"value"}

\* An error code survives the transport, everything unrecognised becomes the
\* one error of the transport.
Translation(outcome) == IF outcome \in Answers THEN outcome ELSE "mcp_tool_error"

Init ==
  /\ asked = 0 /\ over = FALSE
  /\ served = [c \in Calls |-> "none"]
  /\ answer = [c \in Calls |-> "none"]

Ask ==
  /\ ~over /\ asked < MaxCalls
  /\ asked > 0 => answer[asked] # "none"
  /\ asked' = asked + 1
  /\ UNCHANGED <<served, answer, over>>

Serve(c) ==
  /\ c <= asked /\ served[c] = "none"
  /\ \E outcome \in Outcomes : served' = [served EXCEPT ![c] = outcome]
  /\ UNCHANGED <<asked, answer, over>>

Answer(c, a) ==
  /\ c = asked /\ answer[c] = "none" /\ ~over
  /\ answer' = [answer EXCEPT ![c] = a]
  /\ UNCHANGED <<asked, served, over>>

Reply(c) == served[c] # "none" /\ Answer(c, Translation(served[c]))
GiveUp(c) == Answer(c, "mcp_tool_error")

End ==
  /\ ~over
  /\ asked > 0 => answer[asked] # "none"
  /\ over' = TRUE
  /\ UNCHANGED <<asked, served, answer>>

Next == Ask \/ End \/ \E c \in Calls : Serve(c) \/ Reply(c) \/ GiveUp(c)

Spec == Init /\ [][Next]_<<asked, served, answer, over>>
=============================================================================
