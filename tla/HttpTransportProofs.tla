------------------------- MODULE HttpTransportProofs -------------------------
(***************************************************************************)
(* What HttpTransport promises for any set of requests, any pool of        *)
(* workers and any settings of the server.                                 *)
(***************************************************************************)
EXTENDS HttpTransport, FiniteSetTheorems, TLAPS

\* Nothing is handled before the server has started, and a production server that
\* has started verifies tokens.
StartInv ==
  /\ server # "up" => (prod = FALSE /\ \A r \in Requests : pc[r] = "sent" /\ status[r] = 0)
  /\ prod => verifier = "oidc" /\ ~local_dev

\* A REST request that got past its first stretch has brought a token.
BodyInv == \A r \in Requests : pc[r] \in {"body", "rest_dispatch"} => bearer[r] # "none"

Inv ==
  /\ TypeOK
  /\ IsFiniteSet(InWorker)
  /\ StartInv
  /\ BodyInv
  /\ GatedBeforeDispatch
  /\ ForgedNeverServed

\* A production server that starts has the real verifier and no default token.
LEMMA ProductionVerifies ==
  ASSUME NEW c \in Configurations, Starts(c), c.environment = "prod"
  PROVE  DefaultVerifier(c) = "oidc" /\ ~c.disable_auth_for_local_dev
BY DEF Configurations, Starts, ProductionSafe, DefaultVerifier

LEMMA VerifierType ==
  ASSUME NEW c \in Configurations, Starts(c)
  PROVE  /\ DefaultVerifier(c) \in {"oidc", "stub"}
         /\ c.disable_auth_for_local_dev \in BOOLEAN
BY DEF Configurations, Starts, DefaultVerifier

LEMMA InitInv == Init => Inv
<1> SUFFICES ASSUME Init PROVE Inv
  OBVIOUS
<1>1. InWorker = {}
  BY DEF Init, InWorker
<1>2. IsFiniteSet(InWorker) /\ Cardinality(InWorker) = 0
  BY <1>1, FS_EmptySet
<1>3. TypeOK
  <2>1. verified \in [Requests -> BOOLEAN]
    BY Zenon DEF Init
  <2>2. Cardinality(InWorker) <= Workers
    BY <1>2, WorkersAssumption
  <2>3. /\ server \in {"off", "refused", "up"} /\ verifier \in {"oidc", "stub"}
        /\ prod \in BOOLEAN /\ local_dev \in BOOLEAN
    BY DEF Init
  <2>4. /\ route \in [Requests -> Routes] /\ bearer \in [Requests -> {"none", "bad", "good"}]
        /\ loop \in Requests \cup {NoRequest}
    BY DEF Init
  <2>5. pc \in [Requests -> {"sent", "gate_queue", "gate", "mcp", "mcp_queue", "mcp_dispatch",
                             "body", "rest_dispatch", "answered"}]
    BY DEF Init
  <2>6. status \in [Requests -> {0, 200, 400, 401, 403, 404, 413, 429, 500}]
    BY DEF Init
  <2>7. \A r \in Requests : loop = r <=> pc[r] = "rest_dispatch"
    BY NoRequestAssumption DEF Init
  <2> QED
    BY <2>1, <2>2, <2>3, <2>4, <2>5, <2>6, <2>7 DEF TypeOK
<1>4. StartInv /\ BodyInv /\ GatedBeforeDispatch /\ ForgedNeverServed
  BY DEF Init, StartInv, BodyInv, GatedBeforeDispatch, ForgedNeverServed
<1> QED
  BY <1>2, <1>3, <1>4 DEF Inv

\* A step that starts nobody in the pool leaves it no fuller.
LEMMA PoolShrinks ==
  ASSUME IsFiniteSet(InWorker), Cardinality(InWorker) <= Workers, InWorker' \subseteq InWorker
  PROVE  IsFiniteSet(InWorker') /\ Cardinality(InWorker') <= Workers
<1>1. IsFiniteSet(InWorker') /\ Cardinality(InWorker') <= Cardinality(InWorker)
  BY FS_Subset, Zenon
<1>2. Cardinality(InWorker') \in Nat /\ Cardinality(InWorker) \in Nat
  BY <1>1, FS_CardinalityType
<1> QED
  BY <1>1, <1>2, WorkersAssumption

\* A step that starts one request when a worker is free does not over-commit it.
LEMMA PoolGrows ==
  ASSUME IsFiniteSet(InWorker), WorkerFree, NEW r, InWorker' = InWorker \cup {r}
  PROVE  IsFiniteSet(InWorker') /\ Cardinality(InWorker') <= Workers
<1>1. /\ IsFiniteSet(InWorker')
      /\ Cardinality(InWorker') = IF r \in InWorker THEN Cardinality(InWorker)
                                  ELSE Cardinality(InWorker) + 1
  BY FS_AddElement
<1>2. Cardinality(InWorker) \in Nat
  BY FS_CardinalityType
<1> QED
  BY <1>1, <1>2, WorkersAssumption DEF WorkerFree

\* The pool after a step of one request.
LEMMA NextPool ==
  ASSUME Inv, [Next]_vars
  PROVE  IsFiniteSet(InWorker') /\ Cardinality(InWorker') <= Workers
<1> USE DEF Inv
<1>1. CASE \E r \in Requests : GateStarts(r) \/ DispatchStarts(r)
  <2> PICK r \in Requests : GateStarts(r) \/ DispatchStarts(r)
    BY <1>1
  <2>1. InWorker' = InWorker \cup {r}
    BY DEF InWorker, TypeOK, GateStarts, DispatchStarts, Goto
  <2>2. WorkerFree
    BY DEF GateStarts, DispatchStarts
  <2> QED
    BY <2>1, <2>2, PoolGrows
<1>2. CASE \E r \in Requests :
             \/ Probe(r) \/ GateChecks(r) \/ GateEnds(r) \/ CallTool(r)
             \/ DispatchEnds(r) \/ ToolsCallChecks(r) \/ ToolsCallBody(r) \/ ToolsCallEnds(r)
  <2>1. InWorker' \subseteq InWorker
    BY <1>2 DEF InWorker, TypeOK, Probe, GateChecks, GateEnds, CallTool, DispatchEnds,
       ToolsCallChecks, ToolsCallBody, ToolsCallEnds, Goto, Answer
  <2> QED
    BY <2>1, PoolShrinks DEF TypeOK
<1>3. CASE Boot \/ UNCHANGED vars
  <2>1. InWorker' = InWorker
    BY <1>3 DEF InWorker, Boot, vars
  <2> QED
    BY <2>1 DEF TypeOK
<1> QED
  BY <1>1, <1>2, <1>3 DEF Next, LoopStep, OutsideStep

\* Before the server is up no handler runs.
LEMMA HandlersNeedServer ==
  ASSUME Inv, NEW r \in Requests, LoopStep(r) \/ OutsideStep(r)
  PROVE  server = "up"
BY DEF Inv, StartInv, LoopStep, OutsideStep, Probe, GateChecks, GateStarts, GateEnds, CallTool,
   DispatchStarts, ToolsCallChecks, ToolsCallBody, DispatchEnds, ToolsCallEnds, LoopFree

\* The start decides on the settings; no request has been looked at.
LEMMA BootStep == Inv /\ Boot => Inv'
<1> SUFFICES ASSUME Inv, Boot PROVE Inv'
  OBVIOUS
<1>1. IsFiniteSet(InWorker') /\ Cardinality(InWorker') <= Workers
  BY NextPool DEF Next
<1>2. \A r \in Requests : pc[r] = "sent" /\ pc'[r] = "sent" /\ status'[r] = 0
  BY DEF Inv, StartInv, Boot
<1>3. UNCHANGED <<route, bearer, pc, status, loop, verified>>
  BY DEF Boot
<1>4. PICK c \in Configurations :
        \/ /\ Starts(c)
           /\ server' = "up"
           /\ prod' = (c.environment = "prod")
           /\ local_dev' = c.disable_auth_for_local_dev
           /\ verifier' = DefaultVerifier(c)
        \/ /\ ~Starts(c)
           /\ server' = "refused"
           /\ UNCHANGED <<prod, local_dev, verifier>>
  BY DEF Boot
<1>5. CASE Starts(c)
  <2>1. prod' \in BOOLEAN /\ local_dev' \in BOOLEAN /\ verifier' \in {"oidc", "stub"}
    BY <1>4, <1>5, VerifierType, Zenon
  <2>2. prod' => verifier' = "oidc" /\ ~local_dev'
    BY <1>4, <1>5, ProductionVerifies, Zenon
  <2>3. TypeOK'
    BY <1>1, <1>3, <1>4, <1>5, <2>1 DEF Inv, TypeOK
  <2>4. StartInv' /\ BodyInv' /\ GatedBeforeDispatch' /\ ForgedNeverServed'
    <3>1. server' = "up"
      BY <1>4, <1>5
    <3> QED
      BY <1>2, <2>2, <3>1 DEF StartInv, BodyInv, GatedBeforeDispatch, ForgedNeverServed
  <2> QED
    BY <1>1, <2>3, <2>4 DEF Inv
<1>6. CASE ~Starts(c)
  <2>1. server' = "refused" /\ UNCHANGED <<prod, local_dev, verifier>>
    BY <1>4, <1>6
  <2>2. TypeOK'
    BY <1>1, <1>3, <2>1 DEF Inv, TypeOK
  <2>3. StartInv' /\ BodyInv' /\ GatedBeforeDispatch' /\ ForgedNeverServed'
    BY <1>2, <1>3, <2>1 DEF Inv, Boot, StartInv, BodyInv, GatedBeforeDispatch, ForgedNeverServed
  <2> QED
    BY <1>1, <2>2, <2>3 DEF Inv
<1> QED
  BY <1>5, <1>6
\* A stretch of a handler.
LEMMA RequestStep ==
  ASSUME Inv, NEW r \in Requests, LoopStep(r) \/ OutsideStep(r)
  PROVE  Inv'
<1>1. IsFiniteSet(InWorker') /\ Cardinality(InWorker') <= Workers
  BY NextPool DEF Next
<1>2. server = "up"
  BY HandlersNeedServer
<1>3. prod => verifier = "oidc" /\ ~local_dev
  BY DEF Inv, StartInv
<1>4. CASE Probe(r)
  <2>1. UNCHANGED <<serverVars, route, bearer>>
    BY <1>4 DEF Probe
  <2>2. TypeOK'
    BY <1>1, <1>4, <2>1, NoRequestAssumption
       DEF Inv, TypeOK, serverVars, Probe, Goto, Answer, LoopFree
  <2>3. StartInv' /\ BodyInv'
    BY <1>2, <1>3, <1>4, <2>1
       DEF Inv, TypeOK, StartInv, BodyInv, serverVars, Probe, Goto, Answer
  <2>4. GatedBeforeDispatch'
    BY <1>4, <2>1 DEF Inv, TypeOK, BodyInv, GatedBeforeDispatch, serverVars, Probe, Goto, Answer
  <2>5. ForgedNeverServed'
    BY <1>3, <1>4, <2>1
       DEF Inv, TypeOK, ForgedNeverServed, serverVars, Probe, Goto, Answer, Accepts
  <2> QED
    BY <1>1, <2>2, <2>3, <2>4, <2>5 DEF Inv
<1>5. CASE GateChecks(r)
  <2>1. UNCHANGED <<serverVars, route, bearer>>
    BY <1>5 DEF GateChecks
  <2>2. TypeOK'
    BY <1>1, <1>5, <2>1, NoRequestAssumption
       DEF Inv, TypeOK, serverVars, GateChecks, Goto, Answer, LoopFree
  <2>3. StartInv' /\ BodyInv'
    BY <1>2, <1>3, <1>5, <2>1
       DEF Inv, TypeOK, StartInv, BodyInv, serverVars, GateChecks, Goto, Answer
  <2>4. GatedBeforeDispatch'
    BY <1>5, <2>1
       DEF Inv, TypeOK, BodyInv, GatedBeforeDispatch, serverVars, GateChecks, Goto, Answer
  <2>5. ForgedNeverServed'
    BY <1>3, <1>5, <2>1
       DEF Inv, TypeOK, ForgedNeverServed, serverVars, GateChecks, Goto, Answer, Accepts
  <2> QED
    BY <1>1, <2>2, <2>3, <2>4, <2>5 DEF Inv
<1>6. CASE GateStarts(r)
  <2>1. UNCHANGED <<serverVars, route, bearer>>
    BY <1>6 DEF GateStarts
  <2>2. TypeOK'
    BY <1>1, <1>6, <2>1, NoRequestAssumption
       DEF Inv, TypeOK, serverVars, GateStarts, Goto, Answer, LoopFree
  <2>3. StartInv' /\ BodyInv'
    BY <1>2, <1>3, <1>6, <2>1
       DEF Inv, TypeOK, StartInv, BodyInv, serverVars, GateStarts, Goto, Answer
  <2>4. GatedBeforeDispatch'
    BY <1>6, <2>1
       DEF Inv, TypeOK, BodyInv, GatedBeforeDispatch, serverVars, GateStarts, Goto, Answer
  <2>5. ForgedNeverServed'
    BY <1>3, <1>6, <2>1
       DEF Inv, TypeOK, ForgedNeverServed, serverVars, GateStarts, Goto, Answer, Accepts
  <2> QED
    BY <1>1, <2>2, <2>3, <2>4, <2>5 DEF Inv
<1>7. CASE GateEnds(r)
  <2>1. UNCHANGED <<serverVars, route, bearer>>
    BY <1>7 DEF GateEnds
  <2>2. TypeOK'
    <3>1. verified' \in [Requests -> BOOLEAN]
      <4>1. verified \in [Requests -> BOOLEAN]
        BY DEF Inv, TypeOK
      <4>2. verified' = [verified EXCEPT ![r] = TRUE] \/ verified' = verified
        BY <1>7 DEF GateEnds
      <4> QED
        BY <4>1, <4>2, Zenon
    <3> QED
      BY <1>1, <1>7, <2>1, <3>1, NoRequestAssumption
         DEF Inv, TypeOK, serverVars, GateEnds, Goto, Answer, LoopFree
  <2>3. StartInv' /\ BodyInv'
    BY <1>2, <1>3, <1>7, <2>1
       DEF Inv, TypeOK, StartInv, BodyInv, serverVars, GateEnds, Goto, Answer
  <2>4. GatedBeforeDispatch'
    BY <1>7, <2>1
       DEF Inv, TypeOK, BodyInv, GatedBeforeDispatch, serverVars, GateEnds, Goto, Answer
  <2>5. ForgedNeverServed'
    BY <1>3, <1>7, <2>1
       DEF Inv, TypeOK, ForgedNeverServed, serverVars, GateEnds, Goto, Answer, Accepts
  <2> QED
    BY <1>1, <2>2, <2>3, <2>4, <2>5 DEF Inv
<1>8. CASE CallTool(r)
  <2>1. UNCHANGED <<serverVars, route, bearer>>
    BY <1>8 DEF CallTool
  <2>2. TypeOK'
    BY <1>1, <1>8, <2>1, NoRequestAssumption
       DEF Inv, TypeOK, serverVars, CallTool, Goto, Answer, LoopFree
  <2>3. StartInv' /\ BodyInv'
    BY <1>2, <1>3, <1>8, <2>1
       DEF Inv, TypeOK, StartInv, BodyInv, serverVars, CallTool, Goto, Answer
  <2>4. GatedBeforeDispatch'
    BY <1>8, <2>1
       DEF Inv, TypeOK, BodyInv, GatedBeforeDispatch, serverVars, CallTool, Goto, Answer
  <2>5. ForgedNeverServed'
    BY <1>3, <1>8, <2>1
       DEF Inv, TypeOK, ForgedNeverServed, serverVars, CallTool, Goto, Answer, Accepts
  <2> QED
    BY <1>1, <2>2, <2>3, <2>4, <2>5 DEF Inv
<1>9. CASE DispatchStarts(r)
  <2>1. UNCHANGED <<serverVars, route, bearer>>
    BY <1>9 DEF DispatchStarts
  <2>2. TypeOK'
    BY <1>1, <1>9, <2>1, NoRequestAssumption
       DEF Inv, TypeOK, serverVars, DispatchStarts, Goto, Answer, LoopFree
  <2>3. StartInv' /\ BodyInv'
    BY <1>2, <1>3, <1>9, <2>1
       DEF Inv, TypeOK, StartInv, BodyInv, serverVars, DispatchStarts, Goto, Answer
  <2>4. GatedBeforeDispatch'
    BY <1>9, <2>1
       DEF Inv, TypeOK, BodyInv, GatedBeforeDispatch, serverVars, DispatchStarts, Goto, Answer
  <2>5. ForgedNeverServed'
    BY <1>3, <1>9, <2>1
       DEF Inv, TypeOK, ForgedNeverServed, serverVars, DispatchStarts, Goto, Answer, Accepts
  <2> QED
    BY <1>1, <2>2, <2>3, <2>4, <2>5 DEF Inv
<1>10. CASE ToolsCallChecks(r)
  <2>1. UNCHANGED <<serverVars, route, bearer>>
    BY <1>10 DEF ToolsCallChecks
  <2>2. TypeOK'
    BY <1>1, <1>10, <2>1, NoRequestAssumption
       DEF Inv, TypeOK, serverVars, ToolsCallChecks, Goto, Answer, LoopFree
  <2>3. StartInv' /\ BodyInv'
    BY <1>2, <1>3, <1>10, <2>1
       DEF Inv, TypeOK, StartInv, BodyInv, serverVars, ToolsCallChecks, Goto, Answer
  <2>4. GatedBeforeDispatch'
    BY <1>10, <2>1
       DEF Inv, TypeOK, BodyInv, GatedBeforeDispatch, serverVars, ToolsCallChecks, Goto, Answer
  <2>5. ForgedNeverServed'
    BY <1>3, <1>10, <2>1
       DEF Inv, TypeOK, ForgedNeverServed, serverVars, ToolsCallChecks, Goto, Answer, Accepts
  <2> QED
    BY <1>1, <2>2, <2>3, <2>4, <2>5 DEF Inv
<1>11. CASE ToolsCallBody(r)
  <2>1. UNCHANGED <<serverVars, route, bearer>>
    BY <1>11 DEF ToolsCallBody
  <2>2. TypeOK'
    BY <1>1, <1>11, <2>1, NoRequestAssumption
       DEF Inv, TypeOK, serverVars, ToolsCallBody, Goto, Answer, LoopFree
  <2>3. StartInv' /\ BodyInv'
    BY <1>2, <1>3, <1>11, <2>1
       DEF Inv, TypeOK, StartInv, BodyInv, serverVars, ToolsCallBody, Goto, Answer
  <2>4. GatedBeforeDispatch'
    BY <1>11, <2>1
       DEF Inv, TypeOK, BodyInv, GatedBeforeDispatch, serverVars, ToolsCallBody, Goto, Answer
  <2>5. ForgedNeverServed'
    BY <1>3, <1>11, <2>1
       DEF Inv, TypeOK, ForgedNeverServed, serverVars, ToolsCallBody, Goto, Answer, Accepts
  <2> QED
    BY <1>1, <2>2, <2>3, <2>4, <2>5 DEF Inv
<1>12. CASE DispatchEnds(r)
  <2>1. UNCHANGED <<serverVars, route, bearer>>
    BY <1>12 DEF DispatchEnds
  <2>2. TypeOK'
    BY <1>1, <1>12, <2>1, NoRequestAssumption
       DEF Inv, TypeOK, serverVars, DispatchEnds, Goto, Answer, LoopFree
  <2>3. StartInv' /\ BodyInv'
    BY <1>2, <1>3, <1>12, <2>1
       DEF Inv, TypeOK, StartInv, BodyInv, serverVars, DispatchEnds, Goto, Answer
  <2>4. GatedBeforeDispatch'
    BY <1>12, <2>1
       DEF Inv, TypeOK, BodyInv, GatedBeforeDispatch, serverVars, DispatchEnds, Goto, Answer
  <2>5. ForgedNeverServed'
    BY <1>3, <1>12, <2>1
       DEF Inv, TypeOK, ForgedNeverServed, serverVars, DispatchEnds, Goto, Answer, Accepts
  <2> QED
    BY <1>1, <2>2, <2>3, <2>4, <2>5 DEF Inv
<1>13. CASE ToolsCallEnds(r)
  <2>1. UNCHANGED <<serverVars, route, bearer>>
    BY <1>13 DEF ToolsCallEnds
  <2>2. TypeOK'
    BY <1>1, <1>13, <2>1, NoRequestAssumption
       DEF Inv, TypeOK, serverVars, ToolsCallEnds, Goto, Answer, LoopFree
  <2>3. StartInv' /\ BodyInv'
    BY <1>2, <1>3, <1>13, <2>1
       DEF Inv, TypeOK, StartInv, BodyInv, serverVars, ToolsCallEnds, Goto, Answer
  <2>4. GatedBeforeDispatch'
    BY <1>13, <2>1
       DEF Inv, TypeOK, BodyInv, GatedBeforeDispatch, serverVars, ToolsCallEnds, Goto, Answer
  <2>5. ForgedNeverServed'
    BY <1>3, <1>13, <2>1
       DEF Inv, TypeOK, ForgedNeverServed, serverVars, ToolsCallEnds, Goto, Answer, Accepts
  <2> QED
    BY <1>1, <2>2, <2>3, <2>4, <2>5 DEF Inv
<1> QED
  BY <1>4, <1>5, <1>6, <1>7, <1>8, <1>9, <1>10, <1>11, <1>12, <1>13 DEF LoopStep, OutsideStep

LEMMA NextInv == Inv /\ [Next]_vars => Inv'
<1>1. Inv /\ UNCHANGED vars => Inv'
  BY DEF Inv, TypeOK, InWorker, StartInv, BodyInv, GatedBeforeDispatch, ForgedNeverServed, vars,
     serverVars
<1> QED
  BY <1>1, BootStep, RequestStep DEF Next

\* The inductive invariant holds of every behaviour.
LEMMA Invariance == Spec => []Inv
  BY InitInv, NextInv, PTL DEF Spec

\* Types, the pool's limit, and that only a REST dispatch holds the event loop.
THEOREM HttpTypeOK == Spec => []TypeOK
<1>1. Inv => TypeOK
  BY DEF Inv
<1> QED
  BY Invariance, <1>1, PTL

\* _BearerGate and tools_call let nothing pass without a token, however many
\* requests are on their way.
THEOREM HttpGatedBeforeDispatch == Spec => []GatedBeforeDispatch
<1>1. Inv => GatedBeforeDispatch
  BY DEF Inv
<1> QED
  BY Invariance, <1>1, PTL

\* assert_production_safe and _default_verifier leave no settings under which a
\* production server serves a forged token.
THEOREM HttpForgedNeverServed == Spec => []ForgedNeverServed
<1>1. Inv => ForgedNeverServed
  BY DEF Inv
<1> QED
  BY Invariance, <1>1, PTL

\* Only POST /mcp/tools/call reads a body and calls dispatch() on the loop.
RestInv == \A r \in Requests : pc[r] \in {"body", "rest_dispatch"} => route[r] = "tools_call"

LEMMA RestStep == Inv /\ RestInv /\ [Next]_vars => RestInv'
<1> SUFFICES ASSUME Inv, RestInv, [Next]_vars PROVE RestInv'
  OBVIOUS
<1>1. CASE Boot
  BY <1>1 DEF Boot, RestInv
<1>2. ASSUME NEW r \in Requests, ToolsCallChecks(r) PROVE RestInv'
  BY <1>2 DEF ToolsCallChecks, Answer, Goto, RestInv, Inv, TypeOK
<1>3. ASSUME NEW r \in Requests, ToolsCallBody(r) PROVE RestInv'
  BY <1>3 DEF ToolsCallBody, Answer, Goto, RestInv, Inv, TypeOK
<1>4. ASSUME NEW r \in Requests, NEW where, pc' = [pc EXCEPT ![r] = where], route' = route,
             where \notin {"body", "rest_dispatch"}
      PROVE  RestInv'
  BY <1>4 DEF RestInv, Inv, TypeOK
<1>5. ASSUME NEW r \in Requests,
             \/ Probe(r) \/ GateChecks(r) \/ GateStarts(r) \/ GateEnds(r) \/ CallTool(r)
             \/ DispatchStarts(r) \/ DispatchEnds(r) \/ ToolsCallEnds(r)
      PROVE  RestInv'
  <2>1. route' = route
    BY <1>5
    DEF Probe, GateChecks, GateStarts, GateEnds, CallTool, DispatchStarts, DispatchEnds,
        ToolsCallEnds
  <2>2. PICK where \in {"answered", "mcp", "gate_queue", "gate", "mcp_queue", "mcp_dispatch"} :
          pc' = [pc EXCEPT ![r] = where]
    BY <1>5
    DEF Probe, GateChecks, GateStarts, GateEnds, CallTool, DispatchStarts, DispatchEnds,
        ToolsCallEnds, Answer, Goto
  <2> QED
    BY <1>4, <2>1, <2>2
<1>6. CASE UNCHANGED vars
  BY <1>6 DEF vars, RestInv
<1> QED
  BY <1>1, <1>2, <1>3, <1>5, <1>6 DEF Next, LoopStep, OutsideStep

\* What build_mcp promises of the event loop is kept as long as nobody uses the REST
\* route: MCP requests and probes, however many and however slow MQ is, leave it free.
THEOREM HttpEventLoopFree ==
  Spec => []((\A r \in Requests : route[r] # "tools_call") => EventLoopFree)
<1>1. Init => RestInv
  BY DEF Init, RestInv
<1>2. Inv /\ RestInv => ((\A r \in Requests : route[r] # "tools_call") => EventLoopFree)
  BY DEF Inv, TypeOK, RestInv, EventLoopFree
<1> QED
  BY <1>1, <1>2, RestStep, InitInv, NextInv, PTL DEF Spec
=============================================================================
