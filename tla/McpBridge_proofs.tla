-------------------------- MODULE McpBridge_proofs --------------------------
(***************************************************************************)
(* The bridge keeps the promise of ToolSession, leaves nothing behind and  *)
(* reports the failure a tool named, for any number of calls.  BInv says   *)
(* where each call stands: which have been answered and how the answer     *)
(* comes from what the tool did, what the run is going to raise, and what  *)
(* becomes of the loop and of the session.                                 *)
(***************************************************************************)
EXTENDS McpBridge, TLAPS

\* Calls are made and answered one by one.
Numbered ==
  /\ pc \in {"new", "opening"} => calls = 0
  /\ pc = "waiting" => calls > 0
  /\ \A c \in Calls :
       /\ answer[c] = "none" <=> c > calls \/ (c = calls /\ pc = "waiting")
       /\ c > calls => served[c] = "none" /\ task[c] = "none"

\* The coroutine of a call and its handler: neither is ahead of the other.
Carried ==
  \A c \in Calls :
    /\ mode = "direct" => task[c] = "none" /\ (c <= calls => served[c] # "none")
    /\ mode # "direct" => (task[c] \in {"none", "queued"} => served[c] = "none")
    /\ task[c] = "running" => served[c] # "none"
    /\ task[c] = "done" => served[c] \notin {"none", "working"}

\* An answer is the translation of what the tool did for that call, or given up.
Translated ==
  \A c \in Calls : answer[c] # "none" =>
    \/ mode # "direct" /\ answer[c] = "mcp_tool_error"
    \/ served[c] \in Outcomes /\ answer[c] = Translate(served[c])

\* What the run raises: the failure of its first call, or of opening or closing.
Blamed ==
  /\ pc # "ended" =>
       /\ calls = 0 =>
            raised = "none" \/ (pc = "stopping" /\ raised = "mcp_tool_error")
       /\ calls > 0 => IF answer[1] \in {"none", "value"} THEN raised = "none"
                       ELSE raised = answer[1] /\ calls = 1
  /\ pc = "ended" /\ calls > 0 =>
       \/ raised = IF answer[1] = "value" THEN "none" ELSE answer[1]
       \/ /\ raised = "workflow_error" /\ mode # "direct"
          /\ answer[1] \in {"value", "mcp_tool_error"}

\* The loop thread, from __enter__ to close().
LoopKept ==
  /\ pc = "new" => loop = "none"
  /\ mode = "direct" => loop = "none" /\ pc \in {"new", "ready", "waiting", "ended"}
  /\ mode = "other" => pc \in {"new", "ended"}
  /\ mode # "direct" /\ pc \in {"opening", "ready", "waiting", "exiting"} => loop = "running"
  /\ pc = "stopping" => loop \in {"stopping", "stopped"}
  /\ pc = "ended" =>
       \/ loop \in {"none", "closed"}
       \/ calls = 0 /\ raised # "none" /\ \A t \in Tasks : task[t] = "none"
       \/ inline /\ raised = "workflow_error" /\ \E c \in Calls : answer[c] = "mcp_tool_error"

\* The MCP session: opened before anything else is asked of it, left once.
SessionKept ==
  /\ pc = "new" \/ mode \in {"direct", "other"} =>
       session = "none" /\ task[Opening] = "none"
  /\ pc \in {"new", "opening", "ready", "waiting"} => task[Closing] = "none"
  /\ mode # "direct" /\ pc \in {"ready", "waiting", "exiting"} => task[Opening] = "done"
  /\ task[Opening] = "done" => session # "none"
  /\ task[Opening] = "none" => session = "none"
  /\ task[Closing] # "none" => task[Opening] = "done"
  /\ task[Closing] # "running" /\ (session = "open" => task[Closing] # "done")
  /\ mode \notin {"direct", "other"} /\ pc \in {"exiting", "stopping", "ended"} =>
       \/ task[Closing] # "none" \/ task[Opening] = "none"
       \/ calls = 0 /\ raised = "mcp_tool_error"

BInv == Numbered /\ Carried /\ Translated /\ Blamed /\ LoopKept /\ SessionKept

-----------------------------------------------------------------------------
(* The invariant *)

\* BInv holds initially.
LEMMA BridgeInit == Init => TypeOK /\ BInv
<1> SUFFICES ASSUME Init PROVE TypeOK /\ BInv
  OBVIOUS
<1>1. TypeOK
  <2>1. inline \in BOOLEAN
    BY DEF Init
  <2> QED BY <2>1, BridgeConstants DEF Init, TypeOK, Pcs
<1>2. Numbered /\ Carried /\ Translated
  BY BridgeConstants DEF Init, Numbered, Carried, Translated, Calls, Tasks
<1>3. Blamed /\ LoopKept
  BY DEF Init, Blamed, LoopKept
<1>4. SessionKept
  BY BridgeConstants DEF Init, SessionKept, Opening, Closing, Tasks
<1> QED BY <1>1, <1>2, <1>3, <1>4 DEF BInv

\* A call that returned has its answer from the handler of that very call.
LEMMA ReturnedServed ==
  ASSUME TypeOK, BInv, pc = "waiting", Returned
  PROVE  served[calls] \in Outcomes /\ Translate(served[calls]) \in DomainCodes \union {"value"}
<1>1. calls \in Calls /\ served[calls] \in Outcomes
  BY BridgeConstants DEF TypeOK, BInv, Numbered, Carried, Returned, Calls
<1> QED BY <1>1, BridgeConstants DEF Translate, DomainCodes

\* What the thread of the run does keeps BInv.
LEMMA CallerKeeps == ASSUME TypeOK, BInv, CallerStep PROVE TypeOK' /\ BInv'
<1> USE BridgeConstants
    DEF TypeOK, Pcs, DomainCodes, McpClientModes, Calls, Tasks, Opening, Closing,
        SetTask, BInv, Numbered, Carried, Translated, Blamed, LoopKept, SessionKept
<1>1. CASE EnterDirect
  BY <1>1 DEF EnterDirect
<1>2. CASE TransportFails
  <2>1. \A t \in Tasks : task[t] = "none"
    BY <1>2 DEF TransportFails
  <2> QED BY <1>2, <2>1 DEF TransportFails
<1>3. CASE Connect
  BY <1>3 DEF Connect
<1>4. CASE Connected
  BY <1>4 DEF Connected
<1>5. CASE ConnectFails
  BY <1>5 DEF ConnectFails
<1>6. CASE Call
  BY <1>6 DEF Call
<1>7. CASE Answered
  <2>1. served[calls] \in Outcomes /\ Translate(served[calls]) \in DomainCodes \union {"value"}
    BY <1>7, ReturnedServed DEF Answered
  <2>2. TypeOK'
    BY <1>7, <2>1 DEF Answered, Conclude
  <2>3. BInv'
    BY <1>7, <2>1 DEF Answered, Conclude
  <2> QED BY <2>2, <2>3
<1>8. CASE GiveUp
  BY <1>8 DEF GiveUp, Conclude
<1>9. CASE Leave
  BY <1>9 DEF Leave
<1>10. CASE StopLoop
  BY <1>10 DEF StopLoop
<1>11. CASE Joined
  BY <1>11 DEF Joined
<1>12. CASE JoinTimesOut
  BY <1>12 DEF JoinTimesOut, Occupied
<1> QED BY <1>1, <1>2, <1>3, <1>4, <1>5, <1>6, <1>7, <1>8, <1>9, <1>10, <1>11, <1>12
        DEF CallerStep

\* What the loop and the handlers do keeps BInv, whether or not the run still waits.
LEMMA LoopKeeps ==
  ASSUME TypeOK, BInv, LoopStep \/ \E c \in Calls : HandlerFinishes(c)
  PROVE  TypeOK' /\ BInv'
<1> USE BridgeConstants
    DEF TypeOK, Pcs, DomainCodes, McpClientModes, Calls, Tasks, Opening, Closing,
        SetTask, BInv, Numbered, Carried, Translated, Blamed, LoopKept, SessionKept
<1>1. CASE SessionOpens
  BY <1>1 DEF SessionOpens
<1>2. CASE SessionCloses
  BY <1>2 DEF SessionCloses
<1>3. CASE LoopStops
  BY <1>3 DEF LoopStops
<1>4. ASSUME NEW t \in Tasks, TaskFails(t) PROVE TypeOK' /\ BInv'
  BY <1>4 DEF TaskFails
<1>5. ASSUME NEW c \in Calls, HandlerStarts(c) PROVE TypeOK' /\ BInv'
  BY <1>5 DEF HandlerStarts
<1>6. ASSUME NEW c \in Calls, ResponseArrives(c) PROVE TypeOK' /\ BInv'
  BY <1>6 DEF ResponseArrives
<1>7. ASSUME NEW c \in Calls, HandlerFinishes(c) PROVE TypeOK' /\ BInv'
  BY <1>7 DEF HandlerFinishes
<1> QED BY <1>1, <1>2, <1>3, <1>4, <1>5, <1>6, <1>7 DEF LoopStep

\* Every step keeps BInv.
LEMMA BridgeKeeps == ASSUME TypeOK, BInv, [Next]_vars PROVE TypeOK' /\ BInv'
<1>1. CASE Next
  BY <1>1, CallerKeeps, LoopKeeps DEF Next
<1>2. CASE UNCHANGED vars
  BY <1>2 DEF vars, TypeOK, BInv, Numbered, Carried, Translated, Blamed, LoopKept,
              SessionKept
<1> QED BY <1>1, <1>2

\* BInv holds at all times.
LEMMA BridgeAlways == Spec => [](TypeOK /\ BInv)
<1>1. Init => TypeOK /\ BInv
  BY BridgeInit
<1>2. TypeOK /\ BInv /\ [Next]_vars => (TypeOK /\ BInv)'
  BY BridgeKeeps
<1> QED BY <1>1, <1>2, PTL DEF Spec

-----------------------------------------------------------------------------
(* What follows for a run *)

\* Every variable of the bridge keeps its type, for any number of calls.
THEOREM BridgeTyped == Spec => []TypeOK
BY BridgeAlways, PTL

\* A run that has left its session leaves neither loop nor session behind, but for
\* the named exceptions (McpToolInvoker._connect, close, _LoopThread.shutdown).
THEOREM NothingIsLeftBehind == Spec => []NothingLeftBehind
<1>1. TypeOK /\ BInv => NothingLeftBehind
  BY BridgeConstants
     DEF TypeOK, BInv, LoopKept, SessionKept, NothingLeftBehind, Tasks, Closing
<1> QED BY <1>1, BridgeAlways, PTL

\* The failure of the first call decides the status the client of the API sees
\* (_translate_error, graph.py, main.py), for any number of calls.
THEOREM FirstFailureKeepsItsStatus == Spec => []FailureKeepsItsStatus
<1>1. ASSUME TypeOK, BInv PROVE FailureKeepsItsStatus
  <2> SUFFICES ASSUME pc = "ended", calls > 0, served[1] # "value"
               PROVE
                 \/ /\ mode # "direct" /\ answer[1] = "mcp_tool_error"
                    /\ ErrorStatus(raised) \in {502, 500}
                 \/ served[1] \in DomainCodes /\ ErrorStatus(raised) = ErrorStatus(served[1])
                 \/ served[1] = "crash" /\ ErrorStatus(raised) = 502
    BY DEF FailureKeepsItsStatus
  <2>1. 1 \in Calls /\ answer[1] # "none"
    BY <1>1, BridgeConstants DEF TypeOK, BInv, Numbered, Calls
  <2>2. ErrorStatus("mcp_tool_error") = 502 /\ ErrorStatus("workflow_error") = 500
    BY DEF ErrorStatus
  <2>3. CASE mode # "direct" /\ answer[1] = "mcp_tool_error"
    BY <1>1, <2>2, <2>3 DEF BInv, Blamed
  <2>4. CASE /\ ~(mode # "direct" /\ answer[1] = "mcp_tool_error")
             /\ served[1] \in Outcomes /\ answer[1] = Translate(served[1])
    <3>1. answer[1] # "value"
      BY <2>4 DEF Translate
    <3>2. raised = answer[1]
      BY <1>1, <2>4, <3>1 DEF BInv, Blamed
    <3> QED BY <2>2, <2>4, <3>1, <3>2, BridgeConstants DEF Translate
  <2> QED BY <1>1, <2>1, <2>3, <2>4 DEF BInv, Translated
<1> QED BY <1>1, BridgeAlways, PTL

-----------------------------------------------------------------------------
(* The refinement *)

\* The handlers as the abstract session shows them.
Shown == [c \in Calls |-> IF served[c] = "working" THEN "none" ELSE served[c]]

\* A step the abstract session does not see.
Unseen ==
  /\ calls' = calls /\ Shown' = Shown /\ answer' = answer
  /\ pc' = "ended" <=> pc = "ended"

\* A caller's step is one of the abstract session, or unseen.
LEMMA CallerRefines ==
  ASSUME TypeOK, BInv, CallerStep PROVE View!Next \/ Unseen
<1>1. CASE EnterDirect \/ Connect \/ Connected \/ ConnectFails \/ StopLoop
  BY <1>1 DEF EnterDirect, Connect, Connected, ConnectFails, StopLoop, Shown, Unseen
<1>2. CASE TransportFails \/ Leave \/ Joined \/ JoinTimesOut
  <2>1. CASE pc' # "ended"
    BY <1>2, <2>1 DEF TransportFails, Leave, Joined, JoinTimesOut, Shown, Unseen
  <2>2. CASE pc' = "ended"
    <3>1. pc \notin {"ended", "waiting"} /\ UNCHANGED <<calls, served, answer>>
      BY <1>2 DEF TransportFails, Leave, Joined, JoinTimesOut
    <3>2. calls > 0 => answer[calls] # "none"
      BY <3>1 DEF TypeOK, BInv, Numbered, Calls
    <3> QED BY <2>2, <3>1, <3>2 DEF View!Next, View!End
  <2> QED BY <2>1, <2>2
<1>3. CASE Call
  <2>1. calls + 1 \in Calls /\ served[calls + 1] = "none"
    BY <1>3, BridgeConstants DEF Call, TypeOK, BInv, Numbered, Calls
  <2>2. calls > 0 => answer[calls] # "none"
    BY <1>3 DEF Call, TypeOK, BInv, Numbered, Calls
  <2>3. Shown' = Shown
    BY <1>3, <2>1 DEF Call, TypeOK, Shown
  <2>4. View!Ask
    BY <1>3, <2>2, <2>3 DEF Call, View!Ask, Shown
  <2> QED BY <2>4 DEF View!Next
<1>4. CASE Answered
  <2>1. served[calls] \in Outcomes /\ calls \in Calls /\ answer[calls] = "none"
    BY <1>4, ReturnedServed DEF Answered, TypeOK, BInv, Numbered, Calls
  <2>2. served[calls] \notin {"none", "working"} /\ Shown[calls] = served[calls]
    BY <2>1, BridgeConstants DEF DomainCodes, Shown
  <2>3. Translate(served[calls]) = View!Translation(Shown[calls])
    BY <2>1, <2>2, BridgeConstants DEF Translate, View!Translation, View!Answers, DomainCodes
  <2>4. View!Reply(calls)
    BY <1>4, <2>1, <2>2, <2>3 DEF Answered, Conclude, View!Reply, View!Answer, Shown
  <2> QED BY <2>1, <2>4 DEF View!Next, View!Calls, Calls
<1>5. CASE GiveUp
  <2>1. calls \in Calls /\ answer[calls] = "none"
    BY <1>5 DEF GiveUp, TypeOK, BInv, Numbered, Calls
  <2>2. View!GiveUp(calls)
    BY <1>5, <2>1 DEF GiveUp, Conclude, View!GiveUp, View!Answer
  <2> QED BY <2>1, <2>2 DEF View!Next, View!Calls, Calls
<1> QED BY <1>1, <1>2, <1>3, <1>4, <1>5 DEF CallerStep

\* What the loop does is not seen, and a handler that finishes is the abstract
\* session serving its call, once.
LEMMA LoopRefines ==
  ASSUME TypeOK, BInv, LoopStep \/ \E c \in Calls : HandlerFinishes(c)
  PROVE  View!Next \/ Unseen
<1>1. CASE SessionOpens \/ SessionCloses \/ LoopStops
  BY <1>1 DEF SessionOpens, SessionCloses, LoopStops, Shown, Unseen
<1>2. ASSUME NEW t \in Tasks, TaskFails(t) PROVE Unseen
  BY <1>2 DEF TaskFails, Shown, Unseen
<1>3. ASSUME NEW c \in Calls, ResponseArrives(c) PROVE Unseen
  BY <1>3 DEF ResponseArrives, Shown, Unseen
<1>4. ASSUME NEW c \in Calls, HandlerStarts(c) PROVE Unseen
  <2>1. served[c] \in {"none", "working"}
    <3>1. mode # "direct" /\ task[c] = "queued"
      BY <1>4 DEF HandlerStarts, BInv, Carried
    <3> QED BY <3>1 DEF BInv, Carried
  <2>2. Shown' = Shown
    BY <1>4, <2>1 DEF HandlerStarts, TypeOK, Shown
  <2> QED BY <1>4, <2>2 DEF HandlerStarts, Unseen
<1>5. ASSUME NEW c \in Calls, HandlerFinishes(c) PROVE View!Serve(c)
  <2>1. PICK outcome \in Outcomes : served' = [served EXCEPT ![c] = outcome]
    BY <1>5 DEF HandlerFinishes
  <2>2. outcome # "working" /\ served[c] = "working"
    BY <1>5, BridgeConstants DEF HandlerFinishes, DomainCodes
  <2>3. Shown[c] = "none" /\ Shown' = [Shown EXCEPT ![c] = outcome]
    BY <2>1, <2>2 DEF TypeOK, Shown
  <2>4. c <= calls
    BY <2>2 DEF TypeOK, BInv, Numbered, Calls
  <2> QED BY <1>5, <2>3, <2>4 DEF HandlerFinishes, View!Serve, Shown
<1> QED BY <1>1, <1>2, <1>3, <1>4, <1>5 DEF LoopStep, View!Next, View!Calls, Calls

\* For any number of calls: a node has one answer per call, and it is the
\* translation of what the tool did for that call or the error of a call given up
\* (McpToolInvoker.call, mcp_tool_handler, _translate_error).
THEOREM BridgeImplementsSession == Spec => ImplementsSession
<1>1. Init => View!Init
  BY BridgeConstants DEF Init, View!Init, View!Calls, Calls
<1>2. TypeOK /\ BInv /\ [Next]_vars
        => [View!Next]_<<calls, [c \in Calls |-> IF served[c] = "working" THEN "none"
                                                 ELSE served[c]], answer, (pc = "ended")>>
  <2> SUFFICES ASSUME TypeOK, BInv, [Next]_vars
               PROVE  View!Next \/ Unseen
    BY DEF Unseen, Shown
  <2>1. CASE Next
    BY <2>1, CallerRefines, LoopRefines DEF Next
  <2>2. CASE UNCHANGED vars
    BY <2>2 DEF vars, Unseen, Shown
  <2> QED BY <2>1, <2>2
<1> QED BY <1>1, <1>2, BridgeAlways, PTL DEF Spec, ImplementsSession, View!Spec
=============================================================================
