--------------------------- MODULE HttpTransport ---------------------------
(***************************************************************************)
(* The HTTP transport (http_app.py and build_mcp of server.py): one event  *)
(* loop runs every handler, a pool of worker threads runs what blocks.     *)
(*                                                                         *)
(* Between two awaits a handler has the loop to itself, so each action is  *)
(* one such stretch and needs the loop to be free.  POST /mcp passes the    *)
(* bearer gate, which verifies the token in a worker thread, and then      *)
(* dispatches in a worker thread.  POST /mcp/tools/call dispatches on the  *)
(* loop itself: until MQ answers, no other handler runs.                   *)
(*                                                                         *)
(* Requests are served by a server that has started with the settings of   *)
(* some configuration (Startup).                                           *)
(***************************************************************************)
EXTENDS Naturals, FiniteSets, Startup

CONSTANTS
  Requests,   \* HTTP requests
  Workers,    \* worker threads of the pool
  NoRequest   \* the loop is free

Routes == {"mcp", "tools_call", "probe"}

ASSUME WorkersAssumption == Workers \in Nat \ {0}
ASSUME NoRequestAssumption == NoRequest \notin Requests

VARIABLES
  server,    \* "off", "refused" or "up"
  prod,      \* is its environment production
  local_dev, \* auth.disable_auth_for_local_dev
  verifier,  \* "oidc", or the "stub", which takes any token
  route,     \* the route of each request
  bearer,    \* its Authorization header: "none", "bad" or "good"
  pc,        \* where its handler is
  status,    \* the answer's status, 0 before the answer
  loop,      \* the request whose handler blocks the event loop
  verified   \* auxiliary: has the gate verified the request's token

serverVars == <<server, prod, local_dev, verifier>>

vars == <<serverVars, route, bearer, pc, status, loop, verified>>

\* Requests that occupy a worker thread.
InWorker == {r \in Requests : pc[r] \in {"gate", "mcp_dispatch"}}

LoopFree == server = "up" /\ loop = NoRequest

WorkerFree == Cardinality(InWorker) < Workers

Goto(r, where) == pc' = [pc EXCEPT ![r] = where]

Answer(r, code) == status' = [status EXCEPT ![r] = code] /\ Goto(r, "answered")

Init ==
  /\ server = "off"
  /\ prod = FALSE /\ local_dev = FALSE /\ verifier = "oidc"
  /\ route \in [Requests -> Routes]
  /\ bearer \in [Requests -> {"none", "bad", "good"}]
  /\ pc = [r \in Requests |-> "sent"]
  /\ status = [r \in Requests |-> 0]
  /\ loop = NoRequest
  /\ verified = [r \in Requests |-> FALSE]

\* MQSentinelServer() and build_http_app, with the settings it finds.
Boot ==
  /\ server = "off"
  /\ \E c \in Configurations :
       \/ /\ Starts(c)
          /\ server' = "up"
          /\ prod' = (c.environment = "prod")
          /\ local_dev' = c.disable_auth_for_local_dev
          /\ verifier' = DefaultVerifier(c)
       \/ /\ ~Starts(c)
          /\ server' = "refused"
          /\ UNCHANGED <<prod, local_dev, verifier>>
  /\ UNCHANGED <<route, bearer, pc, status, loop, verified>>

\* /healthz, /readyz, /metrics, /mcp/tools and the resource metadata.
Probe(r) ==
  /\ pc[r] = "sent"
  /\ route[r] = "probe"
  /\ LoopFree
  /\ Answer(r, 200)
  /\ UNCHANGED <<serverVars, route, bearer, loop, verified>>

\* A mutation of GateChecks: a missing header passes as it does in local dev.
GateChecksNothing(r) ==
  /\ pc[r] = "sent"
  /\ route[r] = "mcp"
  /\ LoopFree
  /\ IF bearer[r] = "none" THEN Goto(r, "mcp") ELSE Goto(r, "gate_queue")
  /\ UNCHANGED <<serverVars, route, bearer, status, loop, verified>>

\* _BearerGate.__call__ up to its await.
GateChecks(r) ==
  /\ pc[r] = "sent"
  /\ route[r] = "mcp"
  /\ LoopFree
  /\ \/ bearer[r] = "none" /\ ~local_dev /\ Answer(r, 401)
     \/ bearer[r] = "none" /\ local_dev /\ Goto(r, "mcp") /\ UNCHANGED status
     \/ bearer[r] # "none" /\ Goto(r, "gate_queue") /\ UNCHANGED status
  /\ UNCHANGED <<serverVars, route, bearer, loop, verified>>

\* anyio.to_thread.run_sync waits for a worker thread.
GateStarts(r) ==
  /\ pc[r] = "gate_queue"
  /\ WorkerFree
  /\ Goto(r, "gate")
  /\ UNCHANGED <<serverVars, route, bearer, status, loop, verified>>

\* The verifier takes the request's token.
Accepts(r) == bearer[r] = "good" \/ verifier = "stub"

\* A mutation of GateEnds: the thread is kept for the dispatch that follows.
GateEndsInWorker(r) ==
  /\ pc[r] = "gate"
  /\ WorkerFree
  /\ LoopFree
  /\ \/ /\ Accepts(r)
        /\ verified' = [verified EXCEPT ![r] = TRUE]
        /\ Goto(r, "mcp")
        /\ UNCHANGED status
     \/ verifier = "oidc" /\ (\E code \in {401, 500} : Answer(r, code)) /\ UNCHANGED verified
  /\ UNCHANGED <<serverVars, route, bearer, loop>>

\* authenticate() returned, or raised: a bad token, or no key set to be had, is
\* caught and denied; a key set of another shape makes verify() raise what the gate
\* does not catch, and the answer is a 500.
GateEnds(r) ==
  /\ pc[r] = "gate"
  /\ LoopFree
  /\ \/ /\ Accepts(r)
        /\ verified' = [verified EXCEPT ![r] = TRUE]
        /\ Goto(r, "mcp")
        /\ UNCHANGED status
     \/ verifier = "oidc" /\ (\E code \in {401, 500} : Answer(r, code)) /\ UNCHANGED verified
  /\ UNCHANGED <<serverVars, route, bearer, loop>>

\* The MCP library finds the tool; call() takes the request's own token, or the
\* default one of local dev.
CallTool(r) ==
  /\ pc[r] = "mcp"
  /\ LoopFree
  /\ IF bearer[r] = "none" /\ ~local_dev THEN Answer(r, 200)
                                       ELSE Goto(r, "mcp_queue") /\ UNCHANGED status
  /\ UNCHANGED <<serverVars, route, bearer, loop, verified>>

\* A mutation of DispatchStarts: dispatch runs where it is called.
DispatchStartsInline(r) ==
  /\ pc[r] = "mcp_queue"
  /\ LoopFree
  /\ loop' = r
  /\ Goto(r, "mcp_dispatch")
  /\ UNCHANGED <<serverVars, route, bearer, status, verified>>

\* call() awaits a worker thread for dispatch.
DispatchStarts(r) ==
  /\ pc[r] = "mcp_queue"
  /\ WorkerFree
  /\ Goto(r, "mcp_dispatch")
  /\ UNCHANGED <<serverVars, route, bearer, status, loop, verified>>

\* dispatch() returned or raised in its thread: a tool result, or a tool error.
DispatchEnds(r) ==
  /\ pc[r] = "mcp_dispatch"
  /\ LoopFree
  /\ Answer(r, 200)
  /\ UNCHANGED <<serverVars, route, bearer, loop, verified>>

\* tools_call up to its await: the size header, then the token.
ToolsCallChecks(r) ==
  /\ pc[r] = "sent"
  /\ route[r] = "tools_call"
  /\ LoopFree
  /\ \/ Answer(r, 413)
     \/ Answer(r, 400)
     \/ bearer[r] = "none" /\ Answer(r, 401)
     \/ bearer[r] # "none" /\ Goto(r, "body") /\ UNCHANGED status
  /\ UNCHANGED <<serverVars, route, bearer, loop, verified>>

\* The body has arrived: it is refused, or dispatch() is called on the loop.
ToolsCallBody(r) ==
  /\ pc[r] = "body"
  /\ LoopFree
  /\ \/ Answer(r, 400) /\ UNCHANGED loop
     \/ loop' = r /\ Goto(r, "rest_dispatch") /\ UNCHANGED status
  /\ UNCHANGED <<serverVars, route, bearer, verified>>

\* dispatch() returned or raised; a token that does not verify is a 401.
ToolsCallEnds(r) ==
  /\ pc[r] = "rest_dispatch"
  /\ loop' = NoRequest
  /\ \E code \in IF Accepts(r)
                   THEN {200, 400, 401, 403, 404, 429, 500}
                   ELSE {401, 500} : Answer(r, code)
  /\ UNCHANGED <<serverVars, route, bearer, verified>>

\* What the event loop and the pool do for a request by themselves.
LoopStep(r) ==
  \/ Probe(r)
  \/ GateChecks(r)
  \/ GateStarts(r)
  \/ GateEnds(r)
  \/ CallTool(r)
  \/ DispatchStarts(r)
  \/ ToolsCallChecks(r)

\* What waits for the client or for MQ.
OutsideStep(r) ==
  \/ ToolsCallBody(r)
  \/ DispatchEnds(r)
  \/ ToolsCallEnds(r)

Next == Boot \/ \E r \in Requests : LoopStep(r) \/ OutsideStep(r)

Spec == Init /\ [][Next]_vars

\* A handler that is ready is run, and the pool serves those who wait: both are
\* first come, first served.  Nothing is said of MQ: a dispatch may hang.
FairSpec == Spec /\ \A r \in Requests : WF_vars(LoopStep(r))
-----------------------------------------------------------------------------
\* Types of the handlers' state; the pool is never over-committed and only a
\* REST dispatch holds the loop.
TypeOK ==
  /\ server \in {"off", "refused", "up"}
  /\ prod \in BOOLEAN /\ local_dev \in BOOLEAN
  /\ verifier \in {"oidc", "stub"}
  /\ route \in [Requests -> Routes]
  /\ bearer \in [Requests -> {"none", "bad", "good"}]
  /\ pc \in [Requests -> {"sent", "gate_queue", "gate", "mcp", "mcp_queue", "mcp_dispatch",
                          "body", "rest_dispatch", "answered"}]
  /\ status \in [Requests -> {0, 200, 400, 401, 403, 404, 413, 429, 500}]
  /\ loop \in Requests \cup {NoRequest}
  /\ Cardinality(InWorker) <= Workers
  /\ \A r \in Requests : loop = r <=> pc[r] = "rest_dispatch"
  /\ verified \in [Requests -> BOOLEAN]

\* Outside local dev no MCP request reaches the SDK, let alone dispatch(), before
\* the gate has verified its token, and no REST request dispatches without one.
GatedBeforeDispatch ==
  ~local_dev =>
    \A r \in Requests :
      /\ pc[r] \in {"mcp", "mcp_queue", "mcp_dispatch"} => verified[r]
      /\ pc[r] = "rest_dispatch" => bearer[r] # "none"

\* Whatever the settings, a production server that starts serves no request whose
\* token does not verify: its MCP requests never reach the SDK, and its REST calls
\* are refused although they are dispatched.
ForgedNeverServed ==
  prod =>
    \A r \in Requests : bearer[r] # "good" /\ route[r] # "probe" =>
      /\ pc[r] \notin {"mcp", "mcp_queue", "mcp_dispatch"}
      /\ status[r] \in {0, 400, 401, 413, 500}

\* If queue managers answer and clients send their bodies, every request is
\* answered, even by a pool of one thread: the gate's thread is given back before
\* dispatch asks for one.
EveryRequestAnswered ==
  (\A r \in Requests : WF_vars(OutsideStep(r))) =>
    \A r \in Requests : server = "up" ~> pc[r] = "answered"

\* As long as nobody uses the REST route, health probes are answered although
\* dispatches to MQ never return.
ProbeAnswered ==
  (\A r \in Requests : route[r] # "tools_call") =>
    \A r \in Requests : route[r] = "probe" => (server = "up" ~> pc[r] = "answered")

\* "Dispatch blocks on MQ, so it runs in a worker thread to keep the event loop
\* free for other users" (build_mcp of server.py).
EventLoopFree == loop = NoRequest
=============================================================================
