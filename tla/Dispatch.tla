------------------------------ MODULE Dispatch ------------------------------
(***************************************************************************)
(* MQSentinelServer.dispatch (server.py): the one road from a bearer token *)
(* to a queue manager.  Concurrent calls are verified, rate limited,       *)
(* routed, authorised, given credentials, connected, run, disconnected and *)
(* recorded; every stage may fail, and what the caller is told depends on  *)
(* the stage that failed and on what the finally clauses do afterwards.    *)
(*                                                                         *)
(* The verifier, the token bucket and the audit file are seen from here    *)
(* only: JwksCache, RateLimiter and AuditLog model them in detail.  The    *)
(* six tools that take only a qm_name are one tool, "diagnose", and the    *)
(* two that also take a sample size are another, "sample".                 *)
(***************************************************************************)
EXTENDS Integers, FiniteSets

CONSTANTS
  Calls,       \* calls of dispatch(), each made once
  Subjects,    \* principals
  Roles,       \* Roles[s]: the role names in s's token
  QMs,         \* queue managers in the inventory
  ProdQMs,     \* those whose entry says environment "prod"
  UnknownQM,   \* a name that is not in the inventory
  NotAString,  \* a qm_name parameter that is absent or not a string
  Requests,    \* the requests clients send
  Burst,       \* tokens in a full bucket
  None         \* no principal, no exception, no queue manager

ASSUME RolesAssumption == Roles \in [Subjects -> SUBSET STRING]
ASSUME InventoryAssumption ==
  ProdQMs \subseteq QMs /\ UnknownQM \notin QMs /\ NotAString \notin QMs \cup {UnknownQM}
ASSUME BurstAssumption == Burst \in Nat

\* An exception is its class, but for AuthorizationError, whose text names the
\* action that the principal lacks.
Denials == {"lacks read:nonprod", "lacks read:prod"}

Exceptions ==
  {"TokenVerificationError", "AttributeError", "PermissionError", "LookupError",
   "ValueError", "FileNotFoundError", "RuntimeError", "MQConnectionError", "MQMIError",
   "JSONEncodeError", "OSError"} \cup Denials

\* type(exc).__name__
TypeName(e) == IF e \in Denials THEN "AuthorizationError" ELSE e

ASSUME NoneAssumption ==
  None \notin Subjects \cup QMs \cup {UnknownQM, NotAString} \cup Exceptions
                       \cup {"AuthorizationError"}

Tools == {"health", "diagnose", "sample", "unknown"}

\* subject is None for a token that does not verify; sample_int says whether the
\* sample size is an int, encodable whether orjson can serialise the parameters.
Request ==
  [subject : Subjects \cup {None}, tool : Tools,
   qm : QMs \cup {UnknownQM, NotAString},
   sample_int : BOOLEAN, encodable : BOOLEAN]

ASSUME RequestAssumption == Requests \subseteq Request

VARIABLES
  pc,         \* where each call is
  req,        \* dispatch's parameters
  principal,  \* dispatch's local
  outcome,    \* dispatch's local, what the audit record will say
  exc,        \* the exception in flight, or None
  budget,     \* whole tokens in each subject's bucket
  session,    \* the call's MQ connection
  listed,     \* the queue managers a health reply names
  records     \* the audit records written, with the call that wrote each

vars == <<pc, req, principal, outcome, exc, budget, session, listed, records>>

Record ==
  [call : Calls, actor : Subjects \cup {None}, qm : QMs \cup {UnknownQM, None},
   outcome : {"ok", "denied", "error"}, error : {TypeName(e) : e \in Exceptions} \cup {None}]
-----------------------------------------------------------------------------
\* auth/rbac.py: what the known roles grant; other role names grant nothing.
Grants(role) ==
  CASE role = "nonprod-read" -> {"read:nonprod"}
    [] role = "prod-read" -> {"read:nonprod", "read:prod"}
    [] role = "admin-audit" -> {"read:nonprod", "read:prod", "audit:view"}
    [] OTHER -> {}

Authorized(s, action) == \E role \in Roles[s] : action \in Grants(role)

ActionFor(qm) == IF qm \in ProdQMs THEN "read:prod" ELSE "read:nonprod"

CanRead(s, qm) == Authorized(s, ActionFor(qm))

\* str(exc) of the AuthorizationError for a principal without the action
Lacks(action) == IF action = "read:prod" THEN "lacks read:prod" ELSE "lacks read:nonprod"

Init ==
  /\ pc = [c \in Calls |-> "idle"]
  /\ req \in [Calls -> Requests]
  /\ principal = [c \in Calls |-> None]
  /\ outcome = [c \in Calls |-> "error"]
  /\ exc = [c \in Calls |-> None]
  /\ budget = [s \in Subjects |-> Burst]
  /\ session = [c \in Calls |-> "none"]
  /\ listed = [c \in Calls |-> {}]
  /\ records = {}

\* Time passes and a bucket gains a token.
Refill(s) ==
  /\ budget[s] < Burst
  /\ budget' = [budget EXCEPT ![s] = @ + 1]
  /\ UNCHANGED <<pc, req, principal, outcome, exc, session, listed, records>>

Goto(c, where) == pc' = [pc EXCEPT ![c] = where]

\* An exception raised outside open_qm goes straight to dispatch's finally.
Raise(c, e) == exc' = [exc EXCEPT ![c] = e] /\ Goto(c, "finally")

CallDispatch(c) ==
  /\ pc[c] = "idle"
  /\ Goto(c, "verify")
  /\ UNCHANGED <<req, principal, outcome, exc, budget, session, listed, records>>

Verify(c) ==
  /\ pc[c] = "verify"
  /\ req[c].subject # None
  /\ principal' = [principal EXCEPT ![c] = req[c].subject]
  /\ Goto(c, "rate")
  /\ UNCHANGED <<req, outcome, exc, budget, session, listed, records>>

\* A bad token, or a good one while no key set can be had; or any token while the
\* key set is JSON of another shape, which verify() trips over (an AttributeError,
\* or a TypeError that is treated like it).
VerifyFails(c) ==
  /\ pc[c] = "verify"
  /\ \E e \in {"TokenVerificationError", "AttributeError"} : Raise(c, e)
  /\ UNCHANGED <<req, principal, outcome, budget, session, listed, records>>

\* A mutation of Allow: the bucket is drawn on without looking at it.
AllowUnchecked(c) ==
  /\ pc[c] = "rate"
  /\ budget' = [budget EXCEPT ![principal[c]] = @ - 1]
  /\ Goto(c, "route")
  /\ UNCHANGED <<req, principal, outcome, exc, session, listed, records>>

Allow(c) ==
  /\ pc[c] = "rate"
  /\ budget[principal[c]] > 0
  /\ budget' = [budget EXCEPT ![principal[c]] = @ - 1]
  /\ Goto(c, "route")
  /\ UNCHANGED <<req, principal, outcome, exc, session, listed, records>>

Limit(c) ==
  /\ pc[c] = "rate"
  /\ budget[principal[c]] = 0
  /\ outcome' = [outcome EXCEPT ![c] = "denied"]
  /\ Raise(c, "PermissionError")
  /\ UNCHANGED <<req, principal, budget, session, listed, records>>

\* health(): the queue managers this principal may read.
Health(c) ==
  /\ pc[c] = "route"
  /\ req[c].tool = "health"
  /\ listed' = [listed EXCEPT ![c] = {qm \in QMs : CanRead(principal[c], qm)}]
  /\ outcome' = [outcome EXCEPT ![c] = "ok"]
  /\ Goto(c, "finally")
  /\ UNCHANGED <<req, principal, exc, budget, session, records>>

BadParams(r) == r.qm = NotAString \/ (r.tool = "sample" /\ ~r.sample_int)

RouteFails(c) ==
  /\ pc[c] = "route"
  /\ \/ req[c].tool = "unknown" /\ Raise(c, "LookupError")
     \/ /\ req[c].tool \in {"diagnose", "sample"}
        /\ BadParams(req[c])
        /\ Raise(c, "ValueError")
  /\ UNCHANGED <<req, principal, outcome, budget, session, listed, records>>

\* A mutation of Authorize: a missing queue manager is reported to anybody.
AuthorizeTellsAll(c) ==
  /\ pc[c] = "route"
  /\ req[c].tool \in {"diagnose", "sample"}
  /\ ~BadParams(req[c])
  /\ IF req[c].qm \notin QMs THEN Raise(c, "LookupError")
     ELSE IF CanRead(principal[c], req[c].qm) THEN Goto(c, "resolve") /\ UNCHANGED exc
     ELSE Raise(c, Lacks(ActionFor(req[c].qm)))
  /\ UNCHANGED <<req, principal, outcome, budget, session, listed, records>>

\* A mutation of Authorize: the environment of the queue manager is ignored.
AuthorizeNonprod(c) ==
  /\ pc[c] = "route"
  /\ req[c].tool \in {"diagnose", "sample"}
  /\ ~BadParams(req[c])
  /\ IF ~Authorized(principal[c], "read:nonprod") THEN Raise(c, Lacks("read:nonprod"))
     ELSE IF req[c].qm \notin QMs THEN Raise(c, "LookupError")
     ELSE Goto(c, "resolve") /\ UNCHANGED exc
  /\ UNCHANGED <<req, principal, outcome, budget, session, listed, records>>

\* inventory.get, then authorize for the environment of the queue manager found, or
\* for the non-production ones if none is; only who passes is told that it does not
\* exist.
Authorize(c) ==
  /\ pc[c] = "route"
  /\ req[c].tool \in {"diagnose", "sample"}
  /\ ~BadParams(req[c])
  /\ LET qm == req[c].qm IN
     \/ qm \in QMs /\ CanRead(principal[c], qm) /\ Goto(c, "resolve") /\ UNCHANGED exc
     \/ ~CanRead(principal[c], qm) /\ Raise(c, Lacks(ActionFor(qm)))
     \/ qm \notin QMs /\ CanRead(principal[c], qm) /\ Raise(c, "LookupError")
  /\ UNCHANGED <<req, principal, outcome, budget, session, listed, records>>

\* secrets.resolve: live mode needs a readable, private directory.
Resolve(c) ==
  /\ pc[c] = "resolve"
  /\ Goto(c, "connect")
  /\ UNCHANGED <<req, principal, outcome, exc, budget, session, listed, records>>

ResolveFails(c) ==
  /\ pc[c] = "resolve"
  /\ \E e \in {"RuntimeError", "ValueError", "FileNotFoundError", "PermissionError"} :
       Raise(c, e)
  /\ UNCHANGED <<req, principal, outcome, budget, session, listed, records>>

Connect(c) ==
  /\ pc[c] = "connect"
  /\ session' = [session EXCEPT ![c] = "open"]
  /\ Goto(c, "run")
  /\ UNCHANGED <<req, principal, outcome, exc, budget, listed, records>>

\* connector.connect fails before the queue manager accepted it, or after it,
\* while the PCF session is set up.  connect is called outside the try of
\* open_qm, so in the second case nothing but the finalizer of the MQ library
\* ends the connection.
ConnectFails(c) ==
  /\ pc[c] = "connect"
  /\ \E left \in {"none", "orphan"} : session' = [session EXCEPT ![c] = left]
  /\ Raise(c, "MQConnectionError")
  /\ UNCHANGED <<req, principal, outcome, budget, listed, records>>

\* The orphan is collected with the objects that refer to it.
Finalize(c) ==
  /\ session[c] = "orphan"
  /\ session' = [session EXCEPT ![c] = "none"]
  /\ UNCHANGED <<pc, req, principal, outcome, exc, budget, listed, records>>

\* Topology detection and the tool's body.
Run(c) ==
  /\ pc[c] = "run"
  /\ Goto(c, "disconnect")
  /\ UNCHANGED <<req, principal, outcome, exc, budget, session, listed, records>>

\* A mutation of RunFails: an exception of the body skips the disconnect.
RunFailsConnected(c) ==
  /\ pc[c] = "run"
  /\ \E e \in {"MQConnectionError", "ValueError"} : Raise(c, e)
  /\ UNCHANGED <<req, principal, outcome, budget, session, listed, records>>

RunFails(c) ==
  /\ pc[c] = "run"
  /\ \E e \in {"MQConnectionError", "ValueError"} : exc' = [exc EXCEPT ![c] = e]
  /\ Goto(c, "disconnect")
  /\ UNCHANGED <<req, principal, outcome, budget, session, listed, records>>

\* A mutation of Disconnect: the outcome is "ok" whatever the body did.
DisconnectOk(c) ==
  /\ pc[c] = "disconnect"
  /\ session' = [session EXCEPT ![c] = "none"]
  /\ outcome' = [outcome EXCEPT ![c] = "ok"]
  /\ Goto(c, "finally")
  /\ UNCHANGED <<req, principal, exc, budget, listed, records>>

\* The finally of open_qm; a tool that returned makes the outcome "ok".
Disconnect(c) ==
  /\ pc[c] = "disconnect"
  /\ session' = [session EXCEPT ![c] = "none"]
  /\ outcome' = [outcome EXCEPT ![c] = IF exc[c] = None THEN "ok" ELSE @]
  /\ Goto(c, "finally")
  /\ UNCHANGED <<req, principal, exc, budget, listed, records>>

\* disconnect() raises: both handles are given up all the same, and the exception
\* takes the place of the result or of the exception in flight.
DisconnectFails(c) ==
  /\ pc[c] = "disconnect"
  /\ session' = [session EXCEPT ![c] = "none"]
  /\ Raise(c, "MQMIError")
  /\ UNCHANGED <<req, principal, outcome, budget, listed, records>>

RecordOf(c) ==
  [call |-> c, actor |-> principal[c],
   qm |-> IF req[c].qm = NotAString THEN None ELSE req[c].qm,
   outcome |-> outcome[c], error |-> TypeName(exc[c])]

\* The finally of dispatch: hash the parameters, write the record, answer.
Audit(c) ==
  /\ pc[c] = "finally"
  /\ req[c].encodable
  /\ records' = records \cup {RecordOf(c)}
  /\ Goto(c, "replied")
  /\ UNCHANGED <<req, principal, outcome, exc, budget, session, listed>>

\* Hashing the parameters or writing to the log raises: that exception takes the
\* place of the answer, and no record is kept.
AuditFails(c) ==
  /\ pc[c] = "finally"
  /\ \E e \in IF req[c].encodable THEN {"OSError", "PermissionError"}
                                   ELSE {"JSONEncodeError"} :
       exc' = [exc EXCEPT ![c] = e]
  /\ Goto(c, "unrecorded")
  /\ UNCHANGED <<req, principal, outcome, budget, session, listed, records>>

Next ==
  \/ \E s \in Subjects : Refill(s)
  \/ \E c \in Calls :
       \/ CallDispatch(c)
       \/ Verify(c) \/ VerifyFails(c)
       \/ Allow(c) \/ Limit(c)
       \/ Health(c) \/ RouteFails(c) \/ Authorize(c)
       \/ Resolve(c) \/ ResolveFails(c)
       \/ Connect(c) \/ ConnectFails(c) \/ Finalize(c)
       \/ Run(c) \/ RunFails(c)
       \/ Disconnect(c) \/ DisconnectFails(c)
       \/ Audit(c) \/ AuditFails(c)

Spec == Init /\ [][Next]_vars
-----------------------------------------------------------------------------
\* http_app.py, POST /mcp/tools/call: is exception e caught by a clause for class?
IsA(e, class) ==
  \/ TypeName(e) = class
  \/ /\ class = "PermissionError"
     /\ TypeName(e) \in {"TokenVerificationError", "AuthorizationError"}

\* A mutation of RestStatus: the clause of the base class comes first.
RestStatusBaseFirst(e) ==
  IF e = None THEN 200
  ELSE IF IsA(e, "LookupError") THEN 404
  ELSE IF IsA(e, "PermissionError") THEN 429
  ELSE IF IsA(e, "TokenVerificationError") THEN 401
  ELSE IF IsA(e, "AuthorizationError") THEN 403
  ELSE IF IsA(e, "ValueError") THEN 400
  ELSE 500

\* The status of the answer: the except clauses are tried in order.
RestStatus(e) ==
  IF e = None THEN 200
  ELSE IF IsA(e, "TokenVerificationError") THEN 401
  ELSE IF IsA(e, "AuthorizationError") THEN 403
  ELSE IF IsA(e, "LookupError") THEN 404
  ELSE IF IsA(e, "PermissionError") THEN 429
  ELSE IF IsA(e, "ValueError") THEN 400
  ELSE 500

Status(c) == RestStatus(exc[c])
Replied(c) == pc[c] \in {"replied", "unrecorded"}
-----------------------------------------------------------------------------
\* Types of a call's locals and of what the calls share.
TypeOK ==
  /\ pc \in [Calls -> {"idle", "verify", "rate", "route", "resolve", "connect", "run",
                       "disconnect", "finally", "replied", "unrecorded"}]
  /\ req \in [Calls -> Requests]
  /\ principal \in [Calls -> Subjects \cup {None}]
  /\ outcome \in [Calls -> {"ok", "denied", "error"}]
  /\ exc \in [Calls -> Exceptions \cup {None}]
  /\ budget \in [Subjects -> 0 .. Burst]
  /\ session \in [Calls -> {"none", "open", "orphan"}]
  /\ listed \in [Calls -> SUBSET QMs]
  /\ records \subseteq Record

\* No queue manager is connected to, and no credential read, for a call whose
\* token was not verified or whose principal lacks the action that the queue
\* manager's environment asks for.
ConnectOnlyAuthorised ==
  \A c \in Calls :
    (pc[c] \in {"resolve", "connect", "run", "disconnect"} \/ session[c] # "none") =>
      /\ principal[c] # None /\ principal[c] = req[c].subject
      /\ req[c].qm \in QMs
      /\ Authorized(principal[c],
                    IF req[c].qm \in ProdQMs THEN "read:prod" ELSE "read:nonprod")

\* What the inventory holds is told to those who may read it, with one exception.
\* A caller without any read action gets no result and no LookupError, so a
\* non-production queue manager is answered like a name that does not exist; no
\* REST status and no health reply tells such a caller more.  The exception is
\* str(exc), which MCP returns: an AuthorizationError names "read:prod" for the
\* production queue managers and for nothing else, so it tells anybody which names
\* those are, and it tells a caller with "read:nonprod" nothing but that.
RefusalTellsOnlyProd ==
  \A c \in Calls : Replied(c) =>
    LET s == req[c].subject IN
    /\ (s # None /\ ~Authorized(s, "read:nonprod") /\ req[c].tool # "unknown") =>
         /\ exc[c] # "LookupError" /\ Status(c) # 404 /\ listed[c] = {}
         /\ req[c].tool # "health" => exc[c] # None
    /\ (s = None \/ ~Authorized(s, "read:prod")) => listed[c] \cap ProdQMs = {}
    /\ exc[c] = "lacks read:prod" => req[c].qm \in ProdQMs
    /\ exc[c] = "lacks read:nonprod" =>
         req[c].qm \notin ProdQMs /\ ~Authorized(s, "read:nonprod")

\* When the caller is answered, the connection that open_qm made for the call has
\* been given up, whatever failed in between.
NoSessionAfterReply ==
  \A c \in Calls : Replied(c) => session[c] # "open"

\* A call whose finally clause got its record written has exactly one, which names
\* the verified principal and the class of the exception the caller sees, and says
\* "ok" only if the caller was given a result, "denied" only if the rate limit
\* refused it.
AnswersAreRecorded ==
  \A c \in Calls : LET mine == {r \in records : r.call = c} IN
    /\ pc[c] # "replied" => mine = {}
    /\ pc[c] = "replied" =>
         \E r \in mine :
           /\ mine = {r}
           /\ r.actor = principal[c]
           /\ r.error = TypeName(exc[c])
           /\ r.outcome = "ok" <=> Status(c) = 200
           /\ r.outcome = "denied" => exc[c] = "PermissionError"

\* What the REST status says is what happened: without a principal 401, or 500 when
\* the verifier broke on its key set, and 401 never with one; 403 only to an
\* established principal who may not read the queue manager asked for, 404 only to
\* one who may read.
StatusTellsCause ==
  \A c \in Calls : pc[c] = "replied" =>
    /\ Status(c) = 401 => principal[c] = None
    /\ principal[c] = None =>
         Status(c) = 401 \/ (Status(c) = 500 /\ exc[c] = "AttributeError")
    /\ Status(c) = 403 => principal[c] # None /\ ~CanRead(principal[c], req[c].qm)
    /\ Status(c) = 404 => req[c].tool = "unknown" \/ req[c].qm \notin QMs
    /\ (Status(c) = 200 /\ req[c].tool # "health") => CanRead(principal[c], req[c].qm)

\* "Every tool call produces a hash-chained record" (SECURITY.md): a call that
\* was answered has its record, unless the log itself could not be written.
EveryCallRecorded ==
  \A c \in Calls : Replied(c) =>
    \/ \E r \in records : r.call = c
    \/ pc[c] = "unrecorded" /\ exc[c] \in {"OSError", "PermissionError"}
=============================================================================
