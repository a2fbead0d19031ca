--------------------------- MODULE DispatchProofs ---------------------------
(***************************************************************************)
(* What Dispatch promises for any number of concurrent calls, any          *)
(* principals, roles, inventory, requests and burst.                       *)
(***************************************************************************)
EXTENDS Dispatch, TLAPS

\* Past the verifier, the principal is the one the token names.
PrincipalInv ==
  \A c \in Calls :
    pc[c] \in {"rate", "route", "resolve", "connect", "run", "disconnect"} =>
      principal[c] # None /\ principal[c] = req[c].subject

\* The outcome is settled in the finally clause, and agrees with the exception.
OutcomeInv ==
  \A c \in Calls :
    /\ pc[c] \in {"idle", "verify", "rate", "route", "resolve", "connect", "run"} =>
         outcome[c] = "error" /\ exc[c] = None
    /\ pc[c] = "disconnect" => outcome[c] = "error"
    /\ pc[c] \in {"finally", "replied"} =>
         /\ outcome[c] = "ok" <=> exc[c] = None
         /\ outcome[c] = "denied" => exc[c] = "PermissionError"

\* A connection is open only between connect and disconnect.
SessionInv ==
  \A c \in Calls : session[c] = "open" => pc[c] \in {"run", "disconnect"}

\* A record is written by a call that is over, once, and says what the call was.
RecordsInv ==
  /\ \A r \in records : pc[r.call] = "replied" /\ r = RecordOf(r.call)
  /\ \A c \in Calls : pc[c] = "replied" => RecordOf(c) \in records

Inv ==
  /\ TypeOK
  /\ PrincipalInv
  /\ ConnectOnlyAuthorised
  /\ OutcomeInv
  /\ SessionInv
  /\ RecordsInv

\* No exception is None.
LEMMA ExceptionsNotNone == \A e \in Exceptions : e # None
BY NoneAssumption

\* None is none of the exceptions that CauseInv speaks of.
LEMMA NoneIsNoException ==
  None \notin {"TokenVerificationError", "AttributeError", "LookupError"} \cup Denials
BY NoneAssumption DEF Exceptions

\* Only None has no exception's name, and the class of None is None.
LEMMA TypeNameNone ==
  /\ TypeName(None) = None
  /\ \A e \in Exceptions \cup {None} : TypeName(e) = None <=> e = None
<1>1. None \notin Denials /\ None # "AuthorizationError"
  BY NoneAssumption DEF Exceptions
<1> QED
  BY <1>1 DEF TypeName

\* The record a call writes has the form of a record.
LEMMA RecordOfType ==
  ASSUME TypeOK, NEW c \in Calls
  PROVE  RecordOf(c) \in Record /\ RecordOf(c).call = c
<1>1. req[c] \in Request
  BY RequestAssumption DEF TypeOK
<1>2. req[c].qm \in QMs \cup {UnknownQM, NotAString}
  BY <1>1 DEF Request
<1>3. TypeName(exc[c]) \in {TypeName(e) : e \in Exceptions} \cup {None}
  BY TypeNameNone DEF TypeOK
<1> QED
  BY <1>2, <1>3 DEF TypeOK, Record, RecordOf

\* The status is that of the class of the exception.
LEMMA StatusOfException ==
  ASSUME NEW e \in Exceptions \cup {None}
  PROVE  /\ RestStatus(e) = 200 <=> e = None
         /\ RestStatus(e) = 401 <=> e = "TokenVerificationError"
         /\ RestStatus(e) = 403 <=> e \in Denials
         /\ RestStatus(e) = 404 <=> e = "LookupError"
         /\ e = "AttributeError" => RestStatus(e) = 500
<1>1. CASE e = None
  <2>1. RestStatus(e) = 200
    BY <1>1 DEF RestStatus
  <2>2. e \notin Denials /\ e \notin {"TokenVerificationError", "LookupError", "AttributeError"}
    BY <1>1, NoneAssumption DEF Exceptions
  <2> QED
    BY <1>1, <2>1, <2>2
<1>2. CASE e \in Denials
  <2>1. e # None /\ e \notin {"TokenVerificationError", "LookupError", "AttributeError"}
    BY <1>2, ExceptionsNotNone DEF Exceptions, Denials
  <2>2. TypeName(e) = "AuthorizationError"
    BY <1>2 DEF TypeName
  <2>3. IsA(e, "AuthorizationError") /\ ~IsA(e, "TokenVerificationError")
    BY <2>2 DEF IsA
  <2>4. RestStatus(e) = 403
    BY <2>1, <2>3 DEF RestStatus
  <2> QED
    BY <1>2, <2>1, <2>4
<1>3. CASE e \in Exceptions \ Denials
  <2>1. e # None /\ TypeName(e) = e
    BY <1>3, ExceptionsNotNone DEF TypeName
  <2>2. e # "AuthorizationError"
    BY <1>3 DEF Exceptions
  <2>3. RestStatus(e) # 403
    BY <2>1, <2>2 DEF RestStatus, IsA
  <2>4. RestStatus(e) # 200
    BY <2>1 DEF RestStatus
  <2>5. /\ RestStatus(e) = 401 <=> e = "TokenVerificationError"
        /\ RestStatus(e) = 404 <=> e = "LookupError"
        /\ e = "AttributeError" => RestStatus(e) = 500
    BY <2>1 DEF RestStatus, IsA
  <2> QED
    BY <1>3, <2>1, <2>3, <2>4, <2>5
<1> QED
  BY <1>1, <1>2, <1>3

LEMMA InitInv == Init => Inv
<1> SUFFICES ASSUME Init PROVE Inv
  OBVIOUS
<1>1. TypeOK
  BY BurstAssumption DEF Init, TypeOK
<1>2. PrincipalInv /\ OutcomeInv /\ SessionInv
  BY DEF Init, PrincipalInv, OutcomeInv, SessionInv
<1>3. ConnectOnlyAuthorised
  BY DEF Init, ConnectOnlyAuthorised
<1>4. RecordsInv
  BY DEF Init, RecordsInv
<1> QED
  BY <1>1, <1>2, <1>3, <1>4 DEF Inv

LEMMA NextInv == Inv /\ [Next]_vars => Inv'
<1> SUFFICES ASSUME Inv, [Next]_vars PROVE Inv'
  OBVIOUS
<1> USE DEF Inv
<1>1. ASSUME NEW s \in Subjects, Refill(s) PROVE Inv'
  <2>1. TypeOK'
    BY <1>1, BurstAssumption DEF Refill, TypeOK
  <2>2. PrincipalInv' /\ OutcomeInv' /\ SessionInv'
    BY <1>1 DEF Refill, PrincipalInv, OutcomeInv, SessionInv
  <2>3. ConnectOnlyAuthorised'
    BY <1>1 DEF Refill, ConnectOnlyAuthorised
  <2>4. RecordsInv'
    BY <1>1 DEF Refill, RecordsInv, RecordOf
  <2> QED
    BY <2>1, <2>2, <2>3, <2>4
<1>2. ASSUME NEW c \in Calls, CallDispatch(c) PROVE Inv'
  <2>1. TypeOK'
    BY <1>2 DEF CallDispatch, Goto, TypeOK
  <2>2. PrincipalInv'
    BY <1>2 DEF CallDispatch, Goto, PrincipalInv, TypeOK
  <2>3. ConnectOnlyAuthorised'
    BY <1>2 DEF CallDispatch, Goto, ConnectOnlyAuthorised, TypeOK
  <2>4. OutcomeInv'
    BY <1>2 DEF CallDispatch, Goto, OutcomeInv, TypeOK
  <2>5. SessionInv'
    BY <1>2 DEF CallDispatch, Goto, SessionInv, TypeOK
  <2>6. RecordsInv'
    BY <1>2 DEF CallDispatch, Goto, RecordsInv, RecordOf, Record, TypeOK
  <2> QED
    BY <2>1, <2>2, <2>3, <2>4, <2>5, <2>6
<1>3. ASSUME NEW c \in Calls, Verify(c) PROVE Inv'
  <2>1. TypeOK'
    BY <1>3, RequestAssumption DEF Verify, Goto, TypeOK, Request
  <2>2. PrincipalInv'
    BY <1>3 DEF Verify, Goto, PrincipalInv, TypeOK
  <2>3. ConnectOnlyAuthorised'
    BY <1>3 DEF Verify, Goto, ConnectOnlyAuthorised, TypeOK
  <2>4. OutcomeInv'
    BY <1>3 DEF Verify, Goto, OutcomeInv, TypeOK
  <2>5. SessionInv'
    BY <1>3 DEF Verify, Goto, SessionInv, TypeOK
  <2>6. RecordsInv'
    BY <1>3 DEF Verify, Goto, RecordsInv, RecordOf, Record, TypeOK
  <2> QED
    BY <2>1, <2>2, <2>3, <2>4, <2>5, <2>6
<1>4. ASSUME NEW c \in Calls, VerifyFails(c) PROVE Inv'
  <2>1. TypeOK'
    BY <1>4 DEF VerifyFails, Goto, Raise, TypeOK, Exceptions
  <2>2. PrincipalInv'
    BY <1>4 DEF VerifyFails, Goto, Raise, PrincipalInv, TypeOK
  <2>3. ConnectOnlyAuthorised'
    BY <1>4 DEF VerifyFails, Goto, Raise, ConnectOnlyAuthorised, TypeOK
  <2>4. OutcomeInv'
    BY <1>4, ExceptionsNotNone DEF VerifyFails, Goto, Raise, OutcomeInv, TypeOK, Exceptions
  <2>5. SessionInv'
    BY <1>4 DEF VerifyFails, Goto, Raise, SessionInv, TypeOK
  <2>6. RecordsInv'
    BY <1>4 DEF VerifyFails, Goto, Raise, RecordsInv, RecordOf, Record, TypeOK
  <2> QED
    BY <2>1, <2>2, <2>3, <2>4, <2>5, <2>6
<1>5. ASSUME NEW c \in Calls, Allow(c) PROVE Inv'
  <2>0. principal[c] \in Subjects /\ budget[principal[c]] \in 0 .. Burst
    BY <1>5 DEF Allow, PrincipalInv, TypeOK
  <2>1. TypeOK'
    BY <1>5, BurstAssumption, <2>0 DEF Allow, Goto, TypeOK
  <2>2. PrincipalInv'
    BY <1>5 DEF Allow, Goto, PrincipalInv, TypeOK
  <2>3. ConnectOnlyAuthorised'
    BY <1>5 DEF Allow, Goto, ConnectOnlyAuthorised, TypeOK
  <2>4. OutcomeInv'
    BY <1>5 DEF Allow, Goto, OutcomeInv, TypeOK
  <2>5. SessionInv'
    BY <1>5 DEF Allow, Goto, SessionInv, TypeOK
  <2>6. RecordsInv'
    BY <1>5 DEF Allow, Goto, RecordsInv, RecordOf, Record, TypeOK
  <2> QED
    BY <2>1, <2>2, <2>3, <2>4, <2>5, <2>6
<1>6. ASSUME NEW c \in Calls, Limit(c) PROVE Inv'
  <2>1. TypeOK'
    BY <1>6 DEF Limit, Goto, Raise, TypeOK, Exceptions
  <2>2. PrincipalInv'
    BY <1>6 DEF Limit, Goto, Raise, PrincipalInv, TypeOK
  <2>3. ConnectOnlyAuthorised'
    BY <1>6 DEF Limit, Goto, Raise, ConnectOnlyAuthorised, TypeOK
  <2>4. OutcomeInv'
    BY <1>6, ExceptionsNotNone DEF Limit, Goto, Raise, OutcomeInv, TypeOK, Exceptions
  <2>5. SessionInv'
    BY <1>6 DEF Limit, Goto, Raise, SessionInv, TypeOK
  <2>6. RecordsInv'
    BY <1>6 DEF Limit, Goto, Raise, RecordsInv, RecordOf, Record, TypeOK
  <2> QED
    BY <2>1, <2>2, <2>3, <2>4, <2>5, <2>6
<1>7. ASSUME NEW c \in Calls, Health(c) PROVE Inv'
  <2>1. TypeOK'
    BY <1>7 DEF Health, Goto, TypeOK
  <2>2. PrincipalInv'
    BY <1>7 DEF Health, Goto, PrincipalInv, TypeOK
  <2>3. ConnectOnlyAuthorised'
    BY <1>7 DEF Health, Goto, ConnectOnlyAuthorised, TypeOK
  <2>4. OutcomeInv'
    BY <1>7 DEF Health, Goto, OutcomeInv, TypeOK
  <2>5. SessionInv'
    BY <1>7 DEF Health, Goto, SessionInv, TypeOK
  <2>6. RecordsInv'
    BY <1>7 DEF Health, Goto, RecordsInv, RecordOf, Record, TypeOK
  <2> QED
    BY <2>1, <2>2, <2>3, <2>4, <2>5, <2>6
<1>8. ASSUME NEW c \in Calls, RouteFails(c) PROVE Inv'
  <2>1. TypeOK'
    BY <1>8 DEF RouteFails, Goto, Raise, TypeOK, Exceptions
  <2>2. PrincipalInv'
    BY <1>8 DEF RouteFails, Goto, Raise, PrincipalInv, TypeOK
  <2>3. ConnectOnlyAuthorised'
    BY <1>8 DEF RouteFails, Goto, Raise, ConnectOnlyAuthorised, TypeOK
  <2>4. OutcomeInv'
    BY <1>8, ExceptionsNotNone DEF RouteFails, Goto, Raise, OutcomeInv, TypeOK, Exceptions
  <2>5. SessionInv'
    BY <1>8 DEF RouteFails, Goto, Raise, SessionInv, TypeOK
  <2>6. RecordsInv'
    BY <1>8 DEF RouteFails, Goto, Raise, RecordsInv, RecordOf, Record, TypeOK
  <2> QED
    BY <2>1, <2>2, <2>3, <2>4, <2>5, <2>6
<1>9. ASSUME NEW c \in Calls, Authorize(c) PROVE Inv'
  <2>1. TypeOK'
    BY <1>9 DEF Authorize, Goto, Raise, TypeOK, Exceptions, Denials, Lacks
  <2>2. PrincipalInv'
    BY <1>9 DEF Authorize, Goto, Raise, PrincipalInv, TypeOK
  <2>3. ConnectOnlyAuthorised'
    BY <1>9 DEF Authorize, Goto, Raise, ConnectOnlyAuthorised, TypeOK, PrincipalInv, CanRead, ActionFor
  <2>4. OutcomeInv'
    <3>1. Lacks(ActionFor(req[c].qm)) # None /\ "LookupError" # None
      BY ExceptionsNotNone DEF Exceptions, Denials, Lacks
    <3>2. outcome[c] = "error" /\ exc[c] = None
      BY <1>9 DEF Authorize, OutcomeInv
    <3> QED
      BY <1>9, <3>1, <3>2 DEF Authorize, Goto, Raise, OutcomeInv, TypeOK
  <2>5. SessionInv'
    BY <1>9 DEF Authorize, Goto, Raise, SessionInv, TypeOK
  <2>6. RecordsInv'
    BY <1>9 DEF Authorize, Goto, Raise, RecordsInv, RecordOf, Record, TypeOK
  <2> QED
    BY <2>1, <2>2, <2>3, <2>4, <2>5, <2>6
<1>10. ASSUME NEW c \in Calls, Resolve(c) PROVE Inv'
  <2>1. TypeOK'
    BY <1>10 DEF Resolve, Goto, TypeOK
  <2>2. PrincipalInv'
    BY <1>10 DEF Resolve, Goto, PrincipalInv, TypeOK
  <2>3. ConnectOnlyAuthorised'
    BY <1>10 DEF Resolve, Goto, ConnectOnlyAuthorised, TypeOK
  <2>4. OutcomeInv'
    BY <1>10 DEF Resolve, Goto, OutcomeInv, TypeOK
  <2>5. SessionInv'
    BY <1>10 DEF Resolve, Goto, SessionInv, TypeOK
  <2>6. RecordsInv'
    BY <1>10 DEF Resolve, Goto, RecordsInv, RecordOf, Record, TypeOK
  <2> QED
    BY <2>1, <2>2, <2>3, <2>4, <2>5, <2>6
<1>11. ASSUME NEW c \in Calls, ResolveFails(c) PROVE Inv'
  <2>1. TypeOK'
    BY <1>11 DEF ResolveFails, Goto, Raise, TypeOK, Exceptions
  <2>2. PrincipalInv'
    BY <1>11 DEF ResolveFails, Goto, Raise, PrincipalInv, TypeOK
  <2>3. ConnectOnlyAuthorised'
    BY <1>11 DEF ResolveFails, Goto, Raise, ConnectOnlyAuthorised, TypeOK
  <2>4. OutcomeInv'
    BY <1>11, ExceptionsNotNone DEF ResolveFails, Goto, Raise, OutcomeInv, TypeOK, Exceptions
  <2>5. SessionInv'
    BY <1>11 DEF ResolveFails, Goto, Raise, SessionInv, TypeOK
  <2>6. RecordsInv'
    BY <1>11 DEF ResolveFails, Goto, Raise, RecordsInv, RecordOf, Record, TypeOK
  <2> QED
    BY <2>1, <2>2, <2>3, <2>4, <2>5, <2>6
<1>12. ASSUME NEW c \in Calls, Connect(c) PROVE Inv'
  <2>1. TypeOK'
    BY <1>12 DEF Connect, Goto, TypeOK
  <2>2. PrincipalInv'
    BY <1>12 DEF Connect, Goto, PrincipalInv, TypeOK
  <2>3. ConnectOnlyAuthorised'
    BY <1>12 DEF Connect, Goto, ConnectOnlyAuthorised, TypeOK
  <2>4. OutcomeInv'
    BY <1>12 DEF Connect, Goto, OutcomeInv, TypeOK
  <2>5. SessionInv'
    BY <1>12 DEF Connect, Goto, SessionInv, TypeOK
  <2>6. RecordsInv'
    BY <1>12 DEF Connect, Goto, RecordsInv, RecordOf, Record, TypeOK
  <2> QED
    BY <2>1, <2>2, <2>3, <2>4, <2>5, <2>6
<1>13. ASSUME NEW c \in Calls, ConnectFails(c) PROVE Inv'
  <2>1. TypeOK'
    BY <1>13 DEF ConnectFails, Goto, Raise, TypeOK, Exceptions
  <2>2. PrincipalInv'
    BY <1>13 DEF ConnectFails, Goto, Raise, PrincipalInv, TypeOK
  <2>3. ConnectOnlyAuthorised'
    BY <1>13 DEF ConnectFails, Goto, Raise, ConnectOnlyAuthorised, TypeOK
  <2>4. OutcomeInv'
    BY <1>13, ExceptionsNotNone DEF ConnectFails, Goto, Raise, OutcomeInv, TypeOK, Exceptions
  <2>5. SessionInv'
    BY <1>13 DEF ConnectFails, Goto, Raise, SessionInv, TypeOK
  <2>6. RecordsInv'
    BY <1>13 DEF ConnectFails, Goto, Raise, RecordsInv, RecordOf, Record, TypeOK
  <2> QED
    BY <2>1, <2>2, <2>3, <2>4, <2>5, <2>6
<1>14. ASSUME NEW c \in Calls, Finalize(c) PROVE Inv'
  <2>1. TypeOK'
    BY <1>14 DEF Finalize, TypeOK
  <2>2. PrincipalInv'
    BY <1>14 DEF Finalize, PrincipalInv, TypeOK
  <2>3. ConnectOnlyAuthorised'
    BY <1>14 DEF Finalize, ConnectOnlyAuthorised, TypeOK
  <2>4. OutcomeInv'
    BY <1>14 DEF Finalize, OutcomeInv, TypeOK
  <2>5. SessionInv'
    BY <1>14 DEF Finalize, SessionInv, TypeOK
  <2>6. RecordsInv'
    BY <1>14 DEF Finalize, RecordsInv, RecordOf, Record, TypeOK
  <2> QED
    BY <2>1, <2>2, <2>3, <2>4, <2>5, <2>6
<1>15. ASSUME NEW c \in Calls, Run(c) PROVE Inv'
  <2>1. TypeOK'
    BY <1>15 DEF Run, Goto, TypeOK
  <2>2. PrincipalInv'
    BY <1>15 DEF Run, Goto, PrincipalInv, TypeOK
  <2>3. ConnectOnlyAuthorised'
    BY <1>15 DEF Run, Goto, ConnectOnlyAuthorised, TypeOK
  <2>4. OutcomeInv'
    BY <1>15 DEF Run, Goto, OutcomeInv, TypeOK
  <2>5. SessionInv'
    BY <1>15 DEF Run, Goto, SessionInv, TypeOK
  <2>6. RecordsInv'
    BY <1>15 DEF Run, Goto, RecordsInv, RecordOf, Record, TypeOK
  <2> QED
    BY <2>1, <2>2, <2>3, <2>4, <2>5, <2>6
<1>16. ASSUME NEW c \in Calls, RunFails(c) PROVE Inv'
  <2>1. TypeOK'
    BY <1>16 DEF RunFails, Goto, TypeOK, Exceptions
  <2>2. PrincipalInv'
    BY <1>16 DEF RunFails, Goto, PrincipalInv, TypeOK
  <2>3. ConnectOnlyAuthorised'
    BY <1>16 DEF RunFails, Goto, ConnectOnlyAuthorised, TypeOK
  <2>4. OutcomeInv'
    BY <1>16, ExceptionsNotNone DEF RunFails, Goto, OutcomeInv, TypeOK, Exceptions
  <2>5. SessionInv'
    BY <1>16 DEF RunFails, Goto, SessionInv, TypeOK
  <2>6. RecordsInv'
    BY <1>16 DEF RunFails, Goto, RecordsInv, RecordOf, Record, TypeOK
  <2> QED
    BY <2>1, <2>2, <2>3, <2>4, <2>5, <2>6
<1>17. ASSUME NEW c \in Calls, Disconnect(c) PROVE Inv'
  <2>1. TypeOK'
    BY <1>17 DEF Disconnect, Goto, TypeOK
  <2>2. PrincipalInv'
    BY <1>17 DEF Disconnect, Goto, PrincipalInv, TypeOK
  <2>3. ConnectOnlyAuthorised'
    BY <1>17 DEF Disconnect, Goto, ConnectOnlyAuthorised, TypeOK
  <2>4. OutcomeInv'
    BY <1>17 DEF Disconnect, Goto, OutcomeInv, TypeOK
  <2>5. SessionInv'
    BY <1>17 DEF Disconnect, Goto, SessionInv, TypeOK
  <2>6. RecordsInv'
    BY <1>17 DEF Disconnect, Goto, RecordsInv, RecordOf, Record, TypeOK
  <2> QED
    BY <2>1, <2>2, <2>3, <2>4, <2>5, <2>6
<1>18. ASSUME NEW c \in Calls, DisconnectFails(c) PROVE Inv'
  <2>1. TypeOK'
    BY <1>18 DEF DisconnectFails, Goto, Raise, TypeOK, Exceptions
  <2>2. PrincipalInv'
    BY <1>18 DEF DisconnectFails, Goto, Raise, PrincipalInv, TypeOK
  <2>3. ConnectOnlyAuthorised'
    BY <1>18 DEF DisconnectFails, Goto, Raise, ConnectOnlyAuthorised, TypeOK
  <2>4. OutcomeInv'
    BY <1>18, ExceptionsNotNone DEF DisconnectFails, Goto, Raise, OutcomeInv, TypeOK, Exceptions
  <2>5. SessionInv'
    BY <1>18 DEF DisconnectFails, Goto, Raise, SessionInv, TypeOK
  <2>6. RecordsInv'
    BY <1>18 DEF DisconnectFails, Goto, Raise, RecordsInv, RecordOf, Record, TypeOK
  <2> QED
    BY <2>1, <2>2, <2>3, <2>4, <2>5, <2>6
<1>19. ASSUME NEW c \in Calls, Audit(c) PROVE Inv'
  <2>1. TypeOK'
    BY <1>19, RecordOfType DEF Audit, Goto, TypeOK
  <2>2. PrincipalInv'
    BY <1>19 DEF Audit, Goto, PrincipalInv, TypeOK
  <2>3. ConnectOnlyAuthorised'
    BY <1>19 DEF Audit, Goto, ConnectOnlyAuthorised, TypeOK
  <2>4. OutcomeInv'
    BY <1>19 DEF Audit, Goto, OutcomeInv, TypeOK
  <2>5. SessionInv'
    BY <1>19 DEF Audit, Goto, SessionInv, TypeOK
  <2>6. RecordsInv'
    BY <1>19, RecordOfType DEF Audit, Goto, RecordsInv, RecordOf, Record, TypeOK
  <2> QED
    BY <2>1, <2>2, <2>3, <2>4, <2>5, <2>6
<1>20. ASSUME NEW c \in Calls, AuditFails(c) PROVE Inv'
  <2>1. TypeOK'
    BY <1>20 DEF AuditFails, Goto, TypeOK, Exceptions
  <2>2. PrincipalInv'
    BY <1>20 DEF AuditFails, Goto, PrincipalInv, TypeOK
  <2>3. ConnectOnlyAuthorised'
    BY <1>20 DEF AuditFails, Goto, ConnectOnlyAuthorised, TypeOK
  <2>4. OutcomeInv'
    BY <1>20, ExceptionsNotNone DEF AuditFails, Goto, OutcomeInv, TypeOK, Exceptions
  <2>5. SessionInv'
    BY <1>20 DEF AuditFails, Goto, SessionInv, TypeOK
  <2>6. RecordsInv'
    BY <1>20 DEF AuditFails, Goto, RecordsInv, RecordOf, Record, TypeOK
  <2> QED
    BY <2>1, <2>2, <2>3, <2>4, <2>5, <2>6
<1>21. CASE UNCHANGED vars
  <2>1. TypeOK'
    BY <1>21 DEF TypeOK, vars
  <2>2. PrincipalInv' /\ OutcomeInv' /\ SessionInv'
    BY <1>21 DEF PrincipalInv, OutcomeInv, SessionInv, vars
  <2>3. ConnectOnlyAuthorised' /\ RecordsInv'
    BY <1>21 DEF ConnectOnlyAuthorised, RecordsInv, RecordOf, vars
  <2> QED
    BY <2>1, <2>2, <2>3
<1> QED
  BY <1>1, <1>2, <1>3, <1>4, <1>5, <1>6, <1>7, <1>8, <1>9, <1>10, <1>11, <1>12,
     <1>13, <1>14, <1>15, <1>16, <1>17, <1>18, <1>19, <1>20, <1>21 DEF Next

LEMMA SpecInv == Spec => []Inv
BY InitInv, NextInv, PTL DEF Spec

\* A call's locals and the shared state keep their types: no bucket is overdrawn
\* and every record is well formed, whatever stage of dispatch fails.
THEOREM DispatchTypeOK == Spec => []TypeOK
<1>1. Inv => TypeOK
  BY DEF Inv
<1> QED
  BY <1>1, SpecInv, PTL

\* No credential is read and no queue manager connected to for a principal who
\* was not verified or may not read it, in any interleaving of dispatch calls.
THEOREM DispatchConnectOnlyAuthorised == Spec => []ConnectOnlyAuthorised
<1>1. Inv => ConnectOnlyAuthorised
  BY DEF Inv
<1> QED
  BY <1>1, SpecInv, PTL

\* The connection open_qm made is given up before the caller is answered.
THEOREM DispatchNoSessionAfterReply == Spec => []NoSessionAfterReply
<1>1. Inv => NoSessionAfterReply
  BY DEF Inv, SessionInv, NoSessionAfterReply, Replied
<1> QED
  BY <1>1, SpecInv, PTL

\* A call whose finally clause wrote a record wrote one, and it says who called
\* and what the caller was told.
THEOREM DispatchAnswersAreRecorded == Spec => []AnswersAreRecorded
<1>1. Inv => AnswersAreRecorded
  <2> SUFFICES ASSUME Inv, NEW c \in Calls
               PROVE  LET mine == {r \in records : r.call = c} IN
                        /\ pc[c] # "replied" => mine = {}
                        /\ pc[c] = "replied" =>
                             \E r \in mine :
                               /\ mine = {r}
                               /\ r.actor = principal[c]
                               /\ r.error = TypeName(exc[c])
                               /\ r.outcome = "ok" <=> Status(c) = 200
                               /\ r.outcome = "denied" => exc[c] = "PermissionError"
    BY DEF AnswersAreRecorded
  <2> DEFINE mine == {r \in records : r.call = c}
  <2>1. \A r \in mine : pc[c] = "replied" /\ r = RecordOf(c)
    BY DEF Inv, RecordsInv
  <2>2. CASE pc[c] = "replied"
    <3>1. RecordOf(c) \in mine
      BY <2>2, RecordOfType DEF Inv, RecordsInv
    <3>2. mine = {RecordOf(c)}
      BY <2>1, <3>1
    <3>3. Status(c) = 200 <=> exc[c] = None
      BY StatusOfException DEF Status, Inv, TypeOK
    <3>4. /\ RecordOf(c).actor = principal[c]
          /\ RecordOf(c).error = TypeName(exc[c])
          /\ RecordOf(c).outcome = outcome[c]
      BY DEF RecordOf
    <3>5. /\ outcome[c] = "ok" <=> exc[c] = None
          /\ outcome[c] = "denied" => exc[c] = "PermissionError"
      BY <2>2 DEF Inv, OutcomeInv
    <3> QED
      BY <2>2, <3>1, <3>2, <3>3, <3>4, <3>5
  <2> QED
    BY <2>1, <2>2
<1> QED
  BY <1>1, SpecInv, PTL
-----------------------------------------------------------------------------
\* What the exception in flight says of the call once its try clauses are over,
\* and what a health reply may name.
CauseInv ==
  \A c \in Calls :
    /\ pc[c] \in {"idle", "verify"} => principal[c] = None
    /\ pc[c] = "disconnect" => exc[c] \in {None, "MQConnectionError", "ValueError"}
    /\ pc[c] \in {"finally", "replied"} =>
         /\ exc[c] \in {"TokenVerificationError", "AttributeError"} <=> principal[c] = None
         /\ principal[c] # None => principal[c] = req[c].subject
         /\ exc[c] \in Denials =>
              /\ principal[c] # None /\ ~CanRead(principal[c], req[c].qm)
              /\ exc[c] = Lacks(ActionFor(req[c].qm))
         /\ exc[c] = "LookupError" =>
              \/ req[c].tool = "unknown"
              \/ req[c].qm \notin QMs /\ CanRead(principal[c], req[c].qm)
         /\ exc[c] = None /\ req[c].tool # "health" => CanRead(principal[c], req[c].qm)
    /\ pc[c] = "unrecorded" => exc[c] \in {"OSError", "PermissionError", "JSONEncodeError"}
    /\ listed[c] # {} => principal[c] # None /\ principal[c] = req[c].subject
    /\ \A qm \in listed[c] : CanRead(principal[c], qm)

LEMMA InitCause == Init => CauseInv
BY DEF Init, CauseInv

\* An exception raised for an established principal keeps CauseInv, if it is a denial
\* or a LookupError that says what CauseInv has it say.
LEMMA RaiseCause ==
  ASSUME Inv, CauseInv, NEW c \in Calls,
         NEW e \in Exceptions \ {"TokenVerificationError", "AttributeError"},
         principal[c] # None, principal[c] = req[c].subject,
         e \in Denials =>
           ~CanRead(principal[c], req[c].qm) /\ e = Lacks(ActionFor(req[c].qm)),
         e = "LookupError" =>
           \/ req[c].tool = "unknown"
           \/ req[c].qm \notin QMs /\ CanRead(principal[c], req[c].qm),
         Raise(c, e), UNCHANGED <<req, principal, listed>>
  PROVE  CauseInv'
<1>1. e # None
  BY ExceptionsNotNone
<1>2. pc'[c] = "finally" /\ exc'[c] = e
  BY DEF Raise, Goto, Inv, TypeOK
<1>3. \A d \in Calls \ {c} : pc'[d] = pc[d] /\ exc'[d] = exc[d]
  BY DEF Raise, Goto, Inv, TypeOK
<1> QED
  BY <1>1, <1>2, <1>3 DEF CauseInv

\* Every step keeps what the exceptions say; only Authorize and Health decide it.
LEMMA NextCause == Inv /\ CauseInv /\ [Next]_vars => CauseInv'
<1> SUFFICES ASSUME Inv, CauseInv, [Next]_vars PROVE CauseInv'
  OBVIOUS
<1> USE DEF Inv
<1>1. ASSUME NEW s \in Subjects, Refill(s) PROVE CauseInv'
  BY <1>1 DEF Refill, CauseInv
<1>2. ASSUME NEW c \in Calls, CallDispatch(c) PROVE CauseInv'
  BY <1>2 DEF CallDispatch, Goto, CauseInv, TypeOK
<1>3. ASSUME NEW c \in Calls, Verify(c) PROVE CauseInv'
  BY <1>3 DEF Verify, Goto, CauseInv, TypeOK
<1>4. ASSUME NEW c \in Calls, VerifyFails(c) PROVE CauseInv'
  <2>1. PICK e \in {"TokenVerificationError", "AttributeError"} : Raise(c, e)
    BY <1>4 DEF VerifyFails
  <2>2. e # None /\ e # "LookupError" /\ e \notin Denials
    BY ExceptionsNotNone DEF Exceptions, Denials
  <2>3. principal[c] = None /\ UNCHANGED <<req, principal, listed>>
    BY <1>4 DEF VerifyFails, CauseInv
  <2> QED
    BY <2>1, <2>2, <2>3 DEF Goto, Raise, CauseInv, TypeOK
<1>5. ASSUME NEW c \in Calls, Allow(c) PROVE CauseInv'
  BY <1>5 DEF Allow, Goto, CauseInv, TypeOK
<1>6. ASSUME NEW c \in Calls, Limit(c) PROVE CauseInv'
  <2>1. principal[c] # None /\ principal[c] = req[c].subject /\ UNCHANGED <<req, principal, listed>>
    BY <1>6 DEF Limit, PrincipalInv
  <2>2. Raise(c, "PermissionError")
    BY <1>6 DEF Limit
  <2> QED
    BY <2>1, <2>2, RaiseCause DEF Exceptions, Denials
<1>7. ASSUME NEW c \in Calls, Health(c) PROVE CauseInv'
  <2>1. principal[c] # None /\ principal[c] = req[c].subject /\ exc[c] = None
    BY <1>7 DEF Health, PrincipalInv, OutcomeInv
  <2>2. /\ req[c].tool = "health"
        /\ pc' = [pc EXCEPT ![c] = "finally"]
        /\ UNCHANGED <<req, principal, exc>>
    BY <1>7 DEF Health, Goto
  <2>3. listed' = [listed EXCEPT ![c] = {qm \in QMs : CanRead(principal[c], qm)}]
    BY <1>7 DEF Health
  <2>4. \A qm \in listed'[c] : CanRead(principal[c], qm)
    BY <2>3 DEF TypeOK
  <2>5. \A d \in Calls : d # c => pc'[d] = pc[d] /\ listed'[d] = listed[d]
    BY <2>2, <2>3 DEF TypeOK
  <2>6. pc'[c] = "finally"
    BY <2>2 DEF TypeOK
  <2> QED
    BY <2>1, <2>2, <2>4, <2>5, <2>6, NoneIsNoException DEF CauseInv
<1>8. ASSUME NEW c \in Calls, RouteFails(c) PROVE CauseInv'
  <2>1. principal[c] # None /\ principal[c] = req[c].subject /\ UNCHANGED <<req, principal, listed>>
    BY <1>8 DEF RouteFails, PrincipalInv
  <2>2. Raise(c, "ValueError") \/ (req[c].tool = "unknown" /\ Raise(c, "LookupError"))
    BY <1>8 DEF RouteFails
  <2> QED
    BY <2>1, <2>2, RaiseCause DEF Exceptions, Denials
<1>9. ASSUME NEW c \in Calls, Authorize(c) PROVE CauseInv'
  <2>1. principal[c] # None /\ principal[c] = req[c].subject /\ UNCHANGED <<req, principal, listed>>
    BY <1>9 DEF Authorize, PrincipalInv
  <2>2. CASE Goto(c, "resolve") /\ UNCHANGED exc
    BY <2>1, <2>2 DEF Goto, CauseInv, TypeOK
  <2>3. CASE ~CanRead(principal[c], req[c].qm) /\ Raise(c, Lacks(ActionFor(req[c].qm)))
    <3>1. /\ Lacks(ActionFor(req[c].qm)) # "LookupError"
          /\ Lacks(ActionFor(req[c].qm)) \in Exceptions \ {"TokenVerificationError", "AttributeError"}
      BY DEF Lacks, Exceptions, Denials
    <3> QED
      BY <2>1, <2>3, <3>1, RaiseCause
  <2>4. CASE /\ req[c].qm \notin QMs /\ CanRead(principal[c], req[c].qm)
             /\ Raise(c, "LookupError")
    BY <2>1, <2>4, RaiseCause DEF Exceptions, Denials
  <2> QED
    BY <1>9, <2>2, <2>3, <2>4 DEF Authorize
<1>10. ASSUME NEW c \in Calls, Resolve(c) PROVE CauseInv'
  BY <1>10 DEF Resolve, Goto, CauseInv, TypeOK
<1>11. ASSUME NEW c \in Calls, ResolveFails(c) PROVE CauseInv'
  <2>1. principal[c] # None /\ principal[c] = req[c].subject /\ UNCHANGED <<req, principal, listed>>
    BY <1>11 DEF ResolveFails, PrincipalInv
  <2>2. PICK e \in {"RuntimeError", "ValueError", "FileNotFoundError", "PermissionError"} :
          Raise(c, e)
    BY <1>11 DEF ResolveFails
  <2> QED
    BY <2>1, <2>2, RaiseCause DEF Exceptions, Denials
<1>12. ASSUME NEW c \in Calls, Connect(c) PROVE CauseInv'
  BY <1>12 DEF Connect, Goto, CauseInv, TypeOK
<1>13. ASSUME NEW c \in Calls, ConnectFails(c) PROVE CauseInv'
  <2>1. principal[c] # None /\ principal[c] = req[c].subject /\ UNCHANGED <<req, principal, listed>>
    BY <1>13 DEF ConnectFails, PrincipalInv
  <2>2. Raise(c, "MQConnectionError")
    BY <1>13 DEF ConnectFails
  <2> QED
    BY <2>1, <2>2, RaiseCause DEF Exceptions, Denials
<1>14. ASSUME NEW c \in Calls, Finalize(c) PROVE CauseInv'
  BY <1>14 DEF Finalize, CauseInv, TypeOK
<1>15. ASSUME NEW c \in Calls, Run(c) PROVE CauseInv'
  BY <1>15 DEF Run, Goto, CauseInv, TypeOK, OutcomeInv
<1>16. ASSUME NEW c \in Calls, RunFails(c) PROVE CauseInv'
  <2>1. PICK e \in {"MQConnectionError", "ValueError"} : exc' = [exc EXCEPT ![c] = e]
    BY <1>16 DEF RunFails
  <2>2. pc' = [pc EXCEPT ![c] = "disconnect"]
    BY <1>16 DEF RunFails, Goto
  <2>3. UNCHANGED <<req, principal, listed>>
    BY <1>16 DEF RunFails
  <2> QED
    BY <2>1, <2>2, <2>3 DEF CauseInv, TypeOK
<1>17. ASSUME NEW c \in Calls, Disconnect(c) PROVE CauseInv'
  <2>1. CanRead(principal[c], req[c].qm) /\ principal[c] # None /\ principal[c] = req[c].subject
    BY <1>17 DEF Disconnect, ConnectOnlyAuthorised, CanRead, ActionFor
  <2>2. pc' = [pc EXCEPT ![c] = "finally"] /\ UNCHANGED <<req, principal, exc, listed>>
    BY <1>17 DEF Disconnect, Goto
  <2>3. exc[c] \in {None, "MQConnectionError", "ValueError"} /\ exc[c] \notin Denials
    BY <1>17, NoneIsNoException DEF Disconnect, CauseInv, Denials
  <2> QED
    BY <2>1, <2>2, <2>3, NoneIsNoException DEF CauseInv, TypeOK
<1>18. ASSUME NEW c \in Calls, DisconnectFails(c) PROVE CauseInv'
  <2>1. principal[c] # None /\ principal[c] = req[c].subject
    BY <1>18 DEF DisconnectFails, PrincipalInv
  <2> QED
    BY <1>18, <2>1, RaiseCause DEF DisconnectFails, Exceptions, Denials
<1>19. ASSUME NEW c \in Calls, Audit(c) PROVE CauseInv'
  BY <1>19 DEF Audit, Goto, CauseInv, TypeOK
<1>20. ASSUME NEW c \in Calls, AuditFails(c) PROVE CauseInv'
  <2>1. PICK e \in {"OSError", "PermissionError", "JSONEncodeError"} : exc' = [exc EXCEPT ![c] = e]
    BY <1>20 DEF AuditFails
  <2>2. pc' = [pc EXCEPT ![c] = "unrecorded"] /\ pc[c] = "finally"
    BY <1>20 DEF AuditFails, Goto
  <2>3. UNCHANGED <<req, principal, listed>>
    BY <1>20 DEF AuditFails
  <2> QED
    BY <2>1, <2>2, <2>3 DEF CauseInv, TypeOK
<1>21. CASE UNCHANGED vars
  BY <1>21 DEF CauseInv, vars
<1> QED
  BY <1>1, <1>2, <1>3, <1>4, <1>5, <1>6, <1>7, <1>8, <1>9, <1>10, <1>11, <1>12, <1>13, <1>14,
     <1>15, <1>16, <1>17, <1>18, <1>19, <1>20, <1>21 DEF Next

LEMMA SpecCause == Spec => []CauseInv
BY InitCause, NextCause, SpecInv, InitInv, PTL DEF Spec

\* Whoever may read the production queue managers may read the others too.
LEMMA ProdReadersReadAll ==
  ASSUME NEW s \in Subjects, Authorized(s, "read:prod")
  PROVE  Authorized(s, "read:nonprod")
BY DEF Authorized, Grants

\* The REST status tells what happened: without a principal 401 or the 500 of a
\* verifier that broke, 403 that the principal may not read, 404 that there is
\* nothing of that name, and no result of a tool reaches a principal who may not
\* read the queue manager.
THEOREM DispatchStatusTellsCause == Spec => []StatusTellsCause
<1>1. Inv /\ CauseInv => StatusTellsCause
  <2> SUFFICES ASSUME Inv, CauseInv, NEW c \in Calls, pc[c] = "replied"
               PROVE  /\ Status(c) = 401 => principal[c] = None
                      /\ principal[c] = None =>
                           Status(c) = 401 \/ (Status(c) = 500 /\ exc[c] = "AttributeError")
                      /\ Status(c) = 403 =>
                           principal[c] # None /\ ~CanRead(principal[c], req[c].qm)
                      /\ Status(c) = 404 => req[c].tool = "unknown" \/ req[c].qm \notin QMs
                      /\ (Status(c) = 200 /\ req[c].tool # "health")
                           => CanRead(principal[c], req[c].qm)
    BY DEF StatusTellsCause
  <2>1. exc[c] \in Exceptions \cup {None}
    BY DEF Inv, TypeOK
  <2> QED
    BY <2>1, StatusOfException DEF Status, CauseInv
<1> QED
  BY <1>1, SpecInv, SpecCause, PTL

\* A caller without a read action cannot tell a non-production queue manager from a
\* name that does not exist; a denial names read:prod for the production ones alone,
\* and health lists those only to callers who may read them.
THEOREM DispatchRefusalTellsOnlyProd == Spec => []RefusalTellsOnlyProd
<1>1. Inv /\ CauseInv => RefusalTellsOnlyProd
  <2> SUFFICES ASSUME Inv, CauseInv, NEW c \in Calls, Replied(c)
               PROVE  LET s == req[c].subject IN
                        /\ (s # None /\ ~Authorized(s, "read:nonprod") /\ req[c].tool # "unknown") =>
                             /\ exc[c] # "LookupError" /\ Status(c) # 404 /\ listed[c] = {}
                             /\ req[c].tool # "health" => exc[c] # None
                        /\ (s = None \/ ~Authorized(s, "read:prod"))
                             => listed[c] \cap ProdQMs = {}
                        /\ exc[c] = "lacks read:prod" => req[c].qm \in ProdQMs
                        /\ exc[c] = "lacks read:nonprod" =>
                             req[c].qm \notin ProdQMs /\ ~Authorized(s, "read:nonprod")
    BY DEF RefusalTellsOnlyProd
  <2> DEFINE s == req[c].subject
  <2>1. s \in Subjects \cup {None} /\ exc[c] \in Exceptions \cup {None}
    BY RequestAssumption DEF Inv, TypeOK, Request
  <2>2. ASSUME NEW qm \in listed[c] PROVE s \in Subjects /\ CanRead(s, qm)
    BY <2>1, <2>2 DEF CauseInv
  <2>3. ASSUME NEW qm \in listed[c] \cap ProdQMs PROVE s # None /\ Authorized(s, "read:prod")
    BY <2>2, <2>3, NoneAssumption DEF CanRead, ActionFor
  <2>4. ASSUME NEW qm, s \in Subjects, CanRead(s, qm) PROVE Authorized(s, "read:nonprod")
    BY <2>4, ProdReadersReadAll DEF CanRead, ActionFor
  <2>5. ASSUME pc[c] = "unrecorded"
        PROVE  exc[c] \in {"OSError", "PermissionError", "JSONEncodeError"}
    BY <2>5 DEF CauseInv
  <2>6. ASSUME exc[c] = "LookupError", req[c].tool # "unknown" PROVE Authorized(s, "read:nonprod")
    <3>1. pc[c] = "replied"
      BY <2>5, <2>6 DEF Replied
    <3>2. principal[c] = s /\ principal[c] # None /\ CanRead(principal[c], req[c].qm)
      BY <2>6, <3>1 DEF CauseInv
    <3> QED
      BY <2>1, <2>4, <3>2
  <2>7. ASSUME exc[c] = None, req[c].tool # "health" PROVE s = None \/ Authorized(s, "read:nonprod")
    <3>1. pc[c] = "replied"
      BY <2>5, <2>7, ExceptionsNotNone DEF Replied, Exceptions
    <3>2. principal[c] # None /\ principal[c] = s /\ CanRead(principal[c], req[c].qm)
      BY <2>7, <3>1, ExceptionsNotNone DEF CauseInv, Exceptions
    <3> QED
      BY <2>1, <2>4, <3>2
  <2>8. ASSUME exc[c] \in Denials
        PROVE  exc[c] = Lacks(ActionFor(req[c].qm)) /\ ~CanRead(s, req[c].qm)
    <3>1. pc[c] = "replied"
      BY <2>5, <2>8 DEF Replied, Denials
    <3> QED
      BY <2>8, <3>1 DEF CauseInv
  <2>9. exc[c] = "lacks read:prod" => req[c].qm \in ProdQMs
    BY <2>8 DEF Denials, Lacks, ActionFor
  <2>10. exc[c] = "lacks read:nonprod" => req[c].qm \notin ProdQMs /\ ~Authorized(s, "read:nonprod")
    BY <2>8 DEF Denials, Lacks, ActionFor, CanRead
  <2>11. (s # None /\ ~Authorized(s, "read:nonprod")) => listed[c] = {}
    BY <2>2, <2>4
  <2>12. (s = None \/ ~Authorized(s, "read:prod")) => listed[c] \cap ProdQMs = {}
    BY <2>3
  <2>13. Status(c) = 404 <=> exc[c] = "LookupError"
    BY <2>1, StatusOfException DEF Status
  <2> QED
    BY <2>6, <2>7, <2>9, <2>10, <2>11, <2>12, <2>13
<1> QED
  BY <1>1, SpecInv, SpecCause, PTL

\* A call whose parameters serialise goes unrecorded only if the log fails.
LogInv ==
  \A c \in Calls : pc[c] = "unrecorded" =>
    \/ exc[c] \in {"OSError", "PermissionError"}
    \/ exc[c] = "JSONEncodeError" /\ ~req[c].encodable

LEMMA LogStep == Inv /\ LogInv /\ [Next]_vars => LogInv'
<1> SUFFICES ASSUME Inv, LogInv, [Next]_vars PROVE LogInv'
  OBVIOUS
<1>1. ASSUME NEW c \in Calls, AuditFails(c) PROVE LogInv'
  BY <1>1 DEF AuditFails, Goto, LogInv, Inv, TypeOK
<1>2. ASSUME NEW c \in Calls, NEW where, NEW e, pc[c] # "unrecorded", where # "unrecorded",
             pc' = [pc EXCEPT ![c] = where], exc' = exc \/ exc' = [exc EXCEPT ![c] = e], req' = req
      PROVE  LogInv'
  <2>1. \A d \in Calls : pc'[d] = "unrecorded" => d # c /\ pc[d] = "unrecorded" /\ exc'[d] = exc[d]
    BY <1>2 DEF Inv, TypeOK
  <2> QED
    BY <1>2, <2>1 DEF LogInv
<1>3. ASSUME NEW c \in Calls,
             \/ CallDispatch(c) \/ Verify(c) \/ VerifyFails(c) \/ Allow(c) \/ Limit(c)
             \/ Health(c) \/ Resolve(c) \/ Connect(c) \/ ConnectFails(c) \/ Run(c)
             \/ Disconnect(c) \/ DisconnectFails(c) \/ Audit(c)
      PROVE  LogInv'
  <2>1. pc[c] # "unrecorded" /\ req' = req
    BY <1>3
    DEF CallDispatch, Verify, VerifyFails, Allow, Limit, Health, Resolve, Connect, ConnectFails,
        Run, Disconnect, DisconnectFails, Audit
  <2>2. PICK where \in {"verify", "rate", "route", "connect", "run", "disconnect", "finally",
                        "replied"} : pc' = [pc EXCEPT ![c] = where]
    BY <1>3
    DEF CallDispatch, Verify, VerifyFails, Allow, Limit, Health, Resolve, Connect, ConnectFails,
        Run, Disconnect, DisconnectFails, Audit, Goto, Raise
  <2>3. exc' = exc \/ \E e : exc' = [exc EXCEPT ![c] = e]
    BY <1>3
    DEF CallDispatch, Verify, VerifyFails, Allow, Limit, Health, Resolve, Connect, ConnectFails,
        Run, Disconnect, DisconnectFails, Audit, Goto, Raise
  <2> QED
    BY <1>2, <2>1, <2>2, <2>3
<1>4. ASSUME NEW c \in Calls, RouteFails(c) \/ Authorize(c) \/ ResolveFails(c) \/ RunFails(c)
      PROVE  LogInv'
  <2>1. pc[c] # "unrecorded" /\ req' = req
    BY <1>4 DEF RouteFails, Authorize, ResolveFails, RunFails
  <2>2. PICK where \in {"resolve", "disconnect", "finally"} : pc' = [pc EXCEPT ![c] = where]
    BY <1>4 DEF RouteFails, Authorize, ResolveFails, RunFails, Goto, Raise
  <2>3. exc' = exc \/ \E e : exc' = [exc EXCEPT ![c] = e]
    BY <1>4 DEF RouteFails, Authorize, ResolveFails, RunFails, Goto, Raise
  <2> QED
    BY <1>2, <2>1, <2>2, <2>3
<1>5. CASE (\E s \in Subjects : Refill(s)) \/ (\E c \in Calls : Finalize(c)) \/ UNCHANGED vars
  <2>1. UNCHANGED <<pc, exc, req>>
    BY <1>5 DEF Refill, Finalize, vars
  <2> QED
    BY <2>1 DEF LogInv
<1> QED
  BY <1>1, <1>3, <1>4, <1>5 DEF Next

\* "Every tool call produces a hash-chained record" holds of every call whose
\* parameters orjson can serialise, whatever failed before, and whatever the other
\* calls sent: it has its record, or the log itself could not be written.
THEOREM DispatchEncodableRecorded ==
  Spec => [](\A c \in Calls : (Replied(c) /\ req[c].encodable) =>
               \/ \E r \in records : r.call = c
               \/ pc[c] = "unrecorded" /\ exc[c] \in {"OSError", "PermissionError"})
<1>1. Init => LogInv
  BY DEF Init, LogInv
<1>2. ASSUME Inv, LogInv, NEW c \in Calls, Replied(c), req[c].encodable
      PROVE  \/ \E r \in records : r.call = c
             \/ pc[c] = "unrecorded" /\ exc[c] \in {"OSError", "PermissionError"}
  <2>1. CASE pc[c] = "replied"
    <3>1. RecordOf(c) \in records /\ RecordOf(c).call = c
      BY <1>2, <2>1, RecordOfType DEF Inv, RecordsInv
    <3> QED
      BY <3>1
  <2>2. CASE pc[c] = "unrecorded"
    BY <1>2, <2>2 DEF LogInv
  <2> QED
    BY <1>2, <2>1, <2>2 DEF Replied
<1>3. Inv /\ LogInv =>
        \A c \in Calls : (Replied(c) /\ req[c].encodable) =>
          \/ \E r \in records : r.call = c
          \/ pc[c] = "unrecorded" /\ exc[c] \in {"OSError", "PermissionError"}
  BY <1>2
<1> QED
  BY <1>1, <1>3, LogStep, InitInv, NextInv, PTL DEF Spec
=============================================================================
