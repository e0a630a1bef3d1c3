------------------------ MODULE ResponseVerification ------------------------
(***************************************************************************)
(* The verification pipeline (verify.py, response.py) and what it is given *)
(* to verify: the outcome of one HTTP exchange (transport.py).             *)
(*                                                                         *)
(* A body is "signed" (base64url of a signature by signer and a payload),  *)
(* "plain" (the payload's JSON), "garbled" (neither) or "undecodable" (not *)
(* UTF-8).  A signature verifies exactly when the pinned key made it.  A   *)
(* verdict is "verified" or the kind of the error that is raised.          *)
(***************************************************************************)
EXTENDS Integers

CONSTANT None

RESPONSE_CODES == {
  "OK", "OUTDATED", "MISSING_FIELD", "INVALID_REQUEST", "INVALID_SYSTEM", "INVALID_CREDENTIALS",
  "GOOGLE_SSO_REQUIRED", "USER_NOT_VERIFIED", "INVALID_KEY", "KEY_FROZEN", "HWID_BANNED",
  "HWID_MISMATCH", "SPOOF_SUSPECTED", "SYSTEM_PAUSED", "PLAN_INACTIVE",
  "PRODUCTION_AUTH_UNAVAILABLE", "USER_LIMIT_REACHED", "EXPIRED_KEY", "PROGRAM_DIGEST_MISMATCH",
  "INVALID_BEATRATE", "NO_ACTIVE_SIGNING_KEY", "INVALID_SESSION", "SESSION_TERMINATED",
  "STALE_SESSION", "HEARTBEAT_TOO_EARLY", "HEARTBEAT_VARIANCE_EXCEEDED", "SIGNING_KEY_REVOKED",
  "CONCURRENT_HEARTBEAT", "INTERNAL_ERROR"}

FAILURE_CODES == {
  "MISSING_FIELD", "INVALID_REQUEST", "INVALID_SYSTEM", "SYSTEM_PAUSED", "PLAN_INACTIVE",
  "PRODUCTION_AUTH_UNAVAILABLE", "PROGRAM_DIGEST_MISMATCH", "INVALID_BEATRATE",
  "NO_ACTIVE_SIGNING_KEY", "INTERNAL_ERROR"}

ExpectedAuthenticated(code) == code \in {"OK", "OUTDATED"}
ExpectedFailure(code)       == code \in FAILURE_CODES
ExpectedError(code)         == code # "OK" /\ code \notin FAILURE_CODES

\* HTTPResponse.ok() of an exchange that raised nothing; one that raised has an
\* error, and no response to look at.
TransportOk(http) == http.status \in 200 .. 299

\* int(now): clocks run in half seconds, server_time tells whole ones.
Seconds(t) == t \div 2

Distance(x, y) == IF x < y THEN y - x ELSE x - y

-----------------------------------------------------------------------------
(* parse_payload                                                           *)

\* The key ID of a signed payload is the one of the headers, and the pinned
\* one if the configuration pins any.
KeyIdAgrees(config, http, payload) ==
  /\ payload.kid # None /\ http.kid = payload.kid
  /\ config.kid = None \/ config.kid = payload.kid

FlagsAgree(payload) ==
  /\ payload.authed = ExpectedAuthenticated(payload.code)
  /\ payload.is_error = ExpectedError(payload.code)
  /\ payload.is_failure = ExpectedFailure(payload.code)

\* Mutant: whose request this answers is not asked.
AnswersAnyone(config, payload, challenge) == payload.system = config.system

Answers(config, payload, challenge) ==
  /\ payload.system = config.system
  /\ payload.challenge = challenge

Fresh(config, payload, now) ==
  Distance(payload.server_time, Seconds(now)) <= config.skew

\* typed: every field is there and of its type.
ParsePayload(config, http, signed, challenge, now) ==
  LET payload == http.body.payload
  IN IF ~( /\ payload.typed /\ payload.protocol
           /\ signed => KeyIdAgrees(config, http, payload)
           /\ payload.code \in RESPONSE_CODES
           /\ FlagsAgree(payload)
           /\ Answers(config, payload, challenge) )
     THEN "INVALID_PAYLOAD"
     ELSE IF Fresh(config, payload, now) THEN "verified" ELSE "FRESHNESS_VIOLATION"

-----------------------------------------------------------------------------
(* verify_signed_response: no payload is looked at before its signature    *)

\* Mutant: any key will do.
VerifySignedByAnyone(config, http, challenge, now) ==
  IF ~http.protocol \/ http.signed = "false" THEN "UNSIGNED_RESPONSE"
  ELSE IF http.body.form # "signed" THEN "INVALID_PAYLOAD"
  ELSE IF ~config.rawKey THEN "CONFIGURATION"
  ELSE ParsePayload(config, http, TRUE, challenge, now)

VerifySigned(config, http, challenge, now) ==
  IF ~http.protocol \/ http.signed = "false" THEN "UNSIGNED_RESPONSE"
  ELSE IF http.body.form # "signed" THEN "INVALID_PAYLOAD"
  ELSE IF ~config.rawKey THEN "CONFIGURATION"
  ELSE IF http.body.signer # config.key THEN "INVALID_SIGNATURE"
  ELSE ParsePayload(config, http, TRUE, challenge, now)

\* What no handler expects: the exception is not a BedrockError.
Escaped == "UnicodeDecodeError"

\* parse_unsigned_revocation
ParseUnsigned(config, http, challenge, now) ==
  IF http.signed # "false" \/ ~http.protocol THEN "UNSIGNED_RESPONSE"
  ELSE IF http.body.form = "undecodable" THEN Escaped
  ELSE IF http.body.form # "plain" THEN "INVALID_PAYLOAD"
  ELSE LET verdict == ParsePayload(config, http, FALSE, challenge, now)
           payload == http.body.payload
       IN IF verdict # "verified" THEN verdict
          ELSE IF payload.code = "SIGNING_KEY_REVOKED" /\ payload.terminated THEN "verified"
          ELSE "UNSIGNED_RESPONSE"

-----------------------------------------------------------------------------
(* validate_config, as far as the pipeline depends on it.  Its base64      *)
(* decoder is the lenient one: a padded key passes here, and verification  *)
(* calls it no raw key.                                                    *)

ValidConfig(config) ==
  config.skew \in Nat \ {0} /\ config.skew <= 3600 /\ config.keyBytes = 32
=============================================================================
