------------------------------- MODULE Startup -------------------------------
(***************************************************************************)
(* What a server becomes of its settings: load_settings of config.py and   *)
(* the constructor of MQSentinelServer (server.py).  Each of them may      *)
(* refuse to start.                                                        *)
(***************************************************************************)

\* The settings that decide; oidc: are issuer, audience and key set URL all given.
Configurations ==
  [environment : {"dev", "staging", "prod"},
   disable_auth_for_local_dev : BOOLEAN,
   oidc : BOOLEAN,
   inventory_dir : BOOLEAN,
   connector : {"auto", "fixture", "pymqi"}]

\* resolved_connector
ResolvedConnector(c) ==
  IF c.connector # "auto" THEN c.connector
  ELSE IF c.inventory_dir THEN "pymqi" ELSE "fixture"

\* assert_production_safe does not raise.
ProductionSafe(c) ==
  c.environment = "prod" => ~c.disable_auth_for_local_dev /\ ResolvedConnector(c) # "fixture"

\* A mutation of DefaultVerifier: an incomplete configuration gives the stub.
DefaultVerifierLenient(c) ==
  IF c.disable_auth_for_local_dev \/ ~c.oidc THEN "stub" ELSE "oidc"

\* _default_verifier: the stub takes any token.  "none": it raises.
DefaultVerifier(c) ==
  IF c.disable_auth_for_local_dev THEN "stub"
  ELSE IF c.oidc THEN "oidc"
  ELSE IF c.environment = "prod" THEN "none" ELSE "stub"

\* MQSentinelServer() returns.
Starts(c) == ProductionSafe(c) /\ DefaultVerifier(c) # "none"
=============================================================================
