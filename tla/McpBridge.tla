------------------------------ MODULE McpBridge ------------------------------
(***************************************************************************)
(* One tool session of a workflow run.  The nodes run on the thread of the *)
(* request and wait there; the MCP client lives on an event loop with a    *)
(* thread of its own.  Waiting has a time limit, and giving up does not    *)
(* cancel what was submitted: abandoned calls stay with the loop, or with  *)
(* the thread or process that serves them, while the session goes on and   *)
(* when it is closed.                                                      *)
(*                                                                         *)
(* Sources: app/agents/mcp_bridge.py, app/agents/graph.py run_analysis,    *)
(* app/mcp/tools/_support.py, app/domain/exceptions.py, app/main.py.       *)
(***************************************************************************)
EXTENDS Naturals

CONSTANTS MaxCalls,    \* bound: calls of the session
          Modes,       \* what mcp_client_mode may be
          Outcomes     \* how a handler may end

\* DOMAIN_ERROR_CODES.
DomainCodes ==
  {"employee_not_found", "analysis_not_found", "entitlement_not_found",
   "no_peers_found", "invalid_policy_definition", "workflow_error",
   "mcp_tool_error", "llm_error"}

\* The modes of the setting, and "other" for any other string: the override in
\* the request body is not checked against the setting's type.
McpClientModes == {"inmemory", "stdio", "http", "direct", "other"}

ASSUME BridgeConstants ==
  /\ MaxCalls \in Nat \ {0}
  /\ Modes \subseteq McpClientModes
  /\ Outcomes \subseteq DomainCodes \union {"value", "crash"}

VARIABLES pc,       \* the thread of the run: where it is in the session
          mode,     \* McpToolInvoker.mode
          inline,   \* the server runs a handler on the loop thread itself
          loop,     \* _LoopThread: its thread and its event loop
          session,  \* the MCP session of the client
          task,     \* task[t]: the coroutine submitted to the loop as t
          calls,    \* length of tool_calls
          served,   \* served[c]: the handler of call c
          answer,   \* answer[c]: what call c returned or raised
          raised    \* what leaves the `with` block of run_analysis

vars == <<pc, mode, inline, loop, session, task, calls, served, answer, raised>>

Calls == 1..MaxCalls
Opening == 0
Closing == MaxCalls + 1
Tasks == 0..MaxCalls + 1

Pcs == {"new", "opening", "ready", "waiting", "exiting", "stopping", "ended"}
InFlight == Pcs \ {"new", "ended"}

Init ==
  /\ pc = "new"
  /\ mode \in Modes
  /\ inline \in IF mode = "inmemory" THEN BOOLEAN ELSE {FALSE}
  /\ loop = "none" /\ session = "none"
  /\ task = [t \in Tasks |-> "none"]
  /\ calls = 0
  /\ served = [c \in Calls |-> "none"]
  /\ answer = [c \in Calls |-> "none"]
  /\ raised = "none"

-----------------------------------------------------------------------------
(* Errors *)

\* Mutant of Translate: what carries no known code is passed on as it came.
TranslateVerbatim(outcome) == outcome

\* mcp_tool_handler prefixes a domain failure with its code, _translate_error
\* takes it off again; whatever carries no known code is a tool error.  In
\* direct mode the same.
Translate(outcome) == IF outcome = "crash" THEN "mcp_tool_error" ELSE outcome

\* main.py _ERROR_STATUS, and 200 for a run that returns.
ErrorStatus(code) ==
  CASE code = "none" -> 200
    [] code \in {"employee_not_found", "analysis_not_found", "entitlement_not_found"} -> 404
    [] code = "no_peers_found" -> 422
    [] code \in {"invalid_policy_definition", "workflow_error"} -> 500
    [] code = "mcp_tool_error" -> 502
    [] code = "llm_error" -> 503

-----------------------------------------------------------------------------
(* The loop thread and what runs on it *)

\* A handler that runs on the loop thread keeps everything else from running.
Occupied == inline /\ \E c \in Calls : served[c] = "working"

\* A stopped loop still finishes the round of callbacks it is in.
LoopRuns == loop \in {"running", "stopping"} /\ ~Occupied

SetTask(t, s) == task' = [task EXCEPT ![t] = s]

SessionOpens ==
  /\ LoopRuns /\ task[Opening] = "queued"
  /\ SetTask(Opening, "done")
  /\ session' = "open"
  /\ UNCHANGED <<pc, mode, inline, loop, calls, served, answer, raised>>

SessionCloses ==
  /\ LoopRuns /\ task[Closing] = "queued"
  /\ SetTask(Closing, "done")
  /\ session' = "closed"
  /\ UNCHANGED <<pc, mode, inline, loop, calls, served, answer, raised>>

\* The coroutine ends with an exception of its own: the handshake fails, the
\* connection breaks, the client's time limit (as long as the caller's) expires.
TaskFails(t) ==
  /\ LoopRuns /\ task[t] \in {"queued", "running"}
  /\ SetTask(t, "failed")
  /\ UNCHANGED <<pc, mode, inline, loop, session, calls, served, answer, raised>>

\* The request of call c reaches the server, whether or not c is waited for.
HandlerStarts(c) ==
  /\ LoopRuns /\ session = "open" /\ task[c] = "queued"
  /\ SetTask(c, "running")
  /\ served' = [served EXCEPT ![c] = "working"]
  /\ UNCHANGED <<pc, mode, inline, loop, session, calls, answer, raised>>

\* A handler nobody waits for any more finishes all the same: nothing stops it.
HandlerFinishes(c) ==
  /\ served[c] = "working"
  /\ \E outcome \in Outcomes : served' = [served EXCEPT ![c] = outcome]
  /\ UNCHANGED <<pc, mode, inline, loop, session, task, calls, answer, raised>>

ResponseArrives(c) ==
  /\ LoopRuns /\ session = "open" /\ task[c] = "running" /\ served[c] # "working"
  /\ SetTask(c, "done")
  /\ UNCHANGED <<pc, mode, inline, loop, session, calls, served, answer, raised>>

LoopStops ==
  /\ loop = "stopping" /\ ~Occupied
  /\ loop' = "stopped"
  /\ UNCHANGED <<pc, mode, inline, session, task, calls, served, answer, raised>>

-----------------------------------------------------------------------------
(* The thread of the run *)

EnterDirect ==
  /\ pc = "new" /\ mode = "direct"
  /\ pc' = "ready"
  /\ UNCHANGED <<mode, inline, loop, session, task, calls, served, answer, raised>>

\* _connect starts the loop thread, then builds the client, outside its try: the
\* import of the client's library or of the server fails, the URL is malformed, the
\* mode is none it knows.  Nothing closes what __enter__ left behind: the thread
\* runs on.
TransportFails ==
  /\ pc = "new" /\ mode # "direct"
  /\ pc' = "ended"
  /\ raised' \in {"workflow_error"} \union IF mode = "other" THEN {"mcp_tool_error"} ELSE {}
  /\ loop' = "running"
  /\ UNCHANGED <<mode, inline, session, task, calls, served, answer>>

\* The client is built, and its handshake submitted to the loop.
Connect ==
  /\ pc = "new" /\ mode \notin {"direct", "other"}
  /\ pc' = "opening"
  /\ loop' = "running"
  /\ SetTask(Opening, "queued")
  /\ UNCHANGED <<mode, inline, session, calls, served, answer, raised>>

Connected ==
  /\ pc = "opening" /\ task[Opening] = "done"
  /\ pc' = "ready"
  /\ UNCHANGED <<mode, inline, loop, session, task, calls, served, answer, raised>>

\* The handshake failed or took too long.  close() finds no client to leave and
\* goes straight to the loop, where the handshake may still be under way.
ConnectFails ==
  /\ pc = "opening" /\ task[Opening] # "done"
  /\ pc' = "stopping" /\ raised' = "mcp_tool_error"
  /\ loop' = "stopping"
  /\ UNCHANGED <<mode, inline, session, task, calls, served, answer>>

\* A node calls a tool.  In direct mode the handler runs in the node's place.
Call ==
  /\ pc = "ready" /\ raised = "none" /\ calls < MaxCalls
  /\ pc' = "waiting"
  /\ calls' = calls + 1
  /\ IF mode = "direct"
       THEN served' = [served EXCEPT ![calls'] = "working"] /\ UNCHANGED task
       ELSE SetTask(calls', "queued") /\ UNCHANGED served
  /\ UNCHANGED <<mode, inline, loop, session, answer, raised>>

\* Mutant of Conclude: the first node is as forgiving as the others.
ConcludeForgiving(a) ==
  /\ pc' = "ready"
  /\ answer' = [answer EXCEPT ![calls] = a]
  /\ UNCHANGED raised

\* The node has its answer.  The first call is load_joiner's, whose failure ends
\* the run; the other nodes note a failure and go on.
Conclude(a) ==
  /\ pc' = "ready"
  /\ answer' = [answer EXCEPT ![calls] = a]
  /\ raised' = IF calls = 1 /\ a # "value" THEN a ELSE raised

Returned == IF mode = "direct" THEN served[calls] # "working" ELSE task[calls] = "done"

\* Mutant of Answered: the latest response is taken, whichever call it is for.
AnsweredByAnyone ==
  /\ pc = "waiting"
  /\ \E c \in 1..calls : task[c] = "done" /\ Conclude(Translate(served[c]))
  /\ UNCHANGED <<mode, inline, loop, session, task, calls, served>>

Answered ==
  /\ pc = "waiting" /\ Returned
  /\ Conclude(Translate(served[calls]))
  /\ UNCHANGED <<mode, inline, loop, session, task, calls, served>>

\* Mutant of GiveUp: future.result() without a time limit.
GiveUpNever ==
  /\ pc = "waiting" /\ mode # "direct" /\ task[calls] = "failed"
  /\ Conclude("mcp_tool_error")
  /\ UNCHANGED <<mode, inline, loop, session, task, calls, served>>

\* The coroutine failed, or did not end within the time limit.  It is not
\* cancelled.
GiveUp ==
  /\ pc = "waiting" /\ mode # "direct" /\ task[calls] # "done"
  /\ Conclude("mcp_tool_error")
  /\ UNCHANGED <<mode, inline, loop, session, task, calls, served>>

\* Mutant of Leave: the client is dropped without leaving its session.
LeaveAbruptly ==
  /\ pc = "ready"
  /\ IF mode = "direct" THEN pc' = "ended" /\ UNCHANGED loop
     ELSE pc' = "stopping" /\ loop' = "stopping"
  /\ UNCHANGED <<mode, inline, session, task, calls, served, answer, raised>>

\* The graph is through, or its first node raised: close().
Leave ==
  /\ pc = "ready"
  /\ IF mode = "direct" THEN pc' = "ended" /\ UNCHANGED task
     ELSE pc' = "exiting" /\ SetTask(Closing, "queued")
  /\ UNCHANGED <<mode, inline, loop, session, calls, served, answer, raised>>

\* However leaving the session went, done, failed or still under way after the
\* time limit, close() goes on to stop the loop.
StopLoop ==
  /\ pc = "exiting"
  /\ pc' = "stopping"
  /\ loop' = "stopping"
  /\ UNCHANGED <<mode, inline, session, task, calls, served, answer, raised>>

Joined ==
  /\ pc = "stopping" /\ loop = "stopped"
  /\ pc' = "ended"
  /\ loop' = "closed"
  /\ UNCHANGED <<mode, inline, session, task, calls, served, answer, raised>>

\* Five seconds later the thread still sits in a handler: closing a loop that is
\* running raises RuntimeError, in place of what was being raised, and
\* run_analysis reports a workflow error.
JoinTimesOut ==
  /\ pc = "stopping" /\ loop = "stopping" /\ Occupied
  /\ pc' = "ended" /\ raised' = "workflow_error"
  /\ UNCHANGED <<mode, inline, loop, session, task, calls, served, answer>>

CallerStep ==
  \/ EnterDirect \/ TransportFails \/ Connect \/ Connected \/ ConnectFails
  \/ Call \/ Answered \/ GiveUp \/ Leave \/ StopLoop \/ Joined \/ JoinTimesOut

LoopStep ==
  \/ SessionOpens \/ SessionCloses \/ LoopStops
  \/ \E t \in Tasks : TaskFails(t)
  \/ \E c \in Calls : HandlerStarts(c) \/ ResponseArrives(c)

Next == CallerStep \/ LoopStep \/ \E c \in Calls : HandlerFinishes(c)

Spec == Init /\ [][Next]_vars

\* The caller's thread runs, and an event loop that was told to stop and is not
\* kept from it stops.  No handler has to finish, no response to arrive.
FairSpec == Spec /\ WF_vars(CallerStep) /\ WF_vars(LoopStops)

-----------------------------------------------------------------------------
(* Properties *)

\* Every variable keeps its type.
TypeOK ==
  /\ pc \in Pcs /\ mode \in Modes /\ inline \in BOOLEAN
  /\ loop \in {"none", "running", "stopping", "stopped", "closed"}
  /\ session \in {"none", "open", "closed"}
  /\ task \in [Tasks -> {"none", "queued", "running", "done", "failed"}]
  /\ calls \in 0..MaxCalls
  /\ served \in [Calls -> Outcomes \union {"none", "working"}]
  /\ answer \in [Calls -> DomainCodes \union {"none", "value"}]
  /\ raised \in DomainCodes \union {"none"}

\* When the run has left its session, its loop is closed and its MCP session is
\* closed, with three exceptions only: the client could not be built after the
\* thread had been started, and nothing had been submitted to it; an abandoned
\* handler held the loop thread, and the run reports that; or opening or leaving the
\* session itself did not come back in time (_connect, close, shutdown).
NothingLeftBehind ==
  pc = "ended" =>
    /\ \/ loop \in {"none", "closed"}
       \/ calls = 0 /\ raised # "none" /\ \A t \in Tasks : task[t] = "none"
       \/ inline /\ raised = "workflow_error" /\ \E c \in Calls : answer[c] = "mcp_tool_error"
    /\ \/ session # "open"
       \/ calls = 0 /\ raised = "mcp_tool_error"
       \/ task[Closing] \in {"queued", "failed"}

\* A run whose first tool call fails is never reported as a success, and the
\* status is the one of the failure the tool named, unless the caller had stopped
\* waiting for that call (_translate_error: "the caller sees a gateway error
\* where a 404 belongs").
FailureKeepsItsStatus ==
  pc = "ended" /\ calls > 0 /\ served[1] # "value" =>
    \/ mode # "direct" /\ answer[1] = "mcp_tool_error" /\ ErrorStatus(raised) \in {502, 500}
    \/ served[1] \in DomainCodes /\ ErrorStatus(raised) = ErrorStatus(served[1])
    \/ served[1] = "crash" /\ ErrorStatus(raised) = 502

\* However the tools behave, a run that opened a session over MCP leaves it: each
\* wait has a time limit (_LoopThread.submit, shutdown).
SessionEnds == (mode # "direct" /\ pc \in InFlight) ~> pc = "ended"

\* The session as a node sees it: see ToolSession.
View == INSTANCE ToolSession
          WITH asked <- calls, over <- (pc = "ended"),
               served <- [c \in Calls |-> IF served[c] = "working" THEN "none" ELSE served[c]]

\* The bridge keeps the promise of the abstract session: one answer per call, and
\* it is the translation of what the tool did for that call or the error of a call
\* given up; what an abandoned call does later answers nothing.
ImplementsSession == View!Spec
=============================================================================
